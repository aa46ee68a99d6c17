--------------------------- MODULE RunLedgerProofs ---------------------------
(***************************************************************************)
(* The theorems about record_run, for any number of calls, runs, tasks and *)
(* reports, however the calls overlap, fail, time out and die.  The        *)
(* argument: a merge forgets no entry and no known usage, so whatever the  *)
(* table of a session has had, the table that it saves has; and a call     *)
(* that is alone sees everything that has been acknowledged before it.  A  *)
(* step merges one whole report or none, and merging reports one after the *)
(* other is merging all of them at once.                                   *)
(***************************************************************************)
EXTENDS RunLedger, FiniteSetTheorems, WellFoundedInduction, TLAPS

Small == {S \in SUBSET EntryIds : IsFiniteSet(S) /\ Cardinality(S) <= MaxEntries}
Entries == UNION {[S -> Tokens] : S \in Small}
Ledgers == [task : Tasks \cup {None}, entries : Entries]
Tables == [metrics : SUBSET Calls, ledgers : [Runs -> Ledgers]]
Records == [id : EntryIds, tokens : Tokens]
NewEntries == Seq(Records)

-----------------------------------------------------------------------------
(* Merging.                                                                *)
LEMMA EntriesType ==
  ASSUME NEW e \in Entries
  PROVE  DOMAIN e \in Small /\ e \in [DOMAIN e -> Tokens]
  BY DEF Entries

LEMMA Elements ==
  ASSUME NEW S, NEW s \in Seq(S)
  PROVE  Len(s) \in Nat /\ DOMAIN s = 1 .. Len(s) /\ \A n \in DOMAIN s : s[n] \in S
  OBVIOUS

LEMMA NewEntriesType ==
  ASSUME NEW new \in NewEntries
  PROVE  /\ Len(new) \in Nat /\ DOMAIN new = 1 .. Len(new)
         /\ \A n \in DOMAIN new : new[n].id \in EntryIds /\ new[n].tokens \in Tokens
  <1>1. Len(new) \in Nat /\ DOMAIN new = 1 .. Len(new) /\ \A n \in DOMAIN new : new[n] \in Records
    BY DEF NewEntries
  <1>2. QED
    BY <1>1 DEF Records

LEMMA BoundedMaximum ==
  ASSUME NEW n \in Nat, NEW S \in SUBSET (1 .. n), S # {}
  PROVE  \E m \in S : \A k \in S : k <= m
  <1>. DEFINE T == {k \in Nat : n - k \in S}
              R == OpToRel(<, Nat)
  <1>1. T \subseteq Nat /\ T # {}
    <2>1. PICK s \in S : TRUE
      OBVIOUS
    <2>2. n - s \in Nat /\ n - (n - s) = s
      BY <2>1
    <2>3. QED
      BY <2>1, <2>2
  <1>2. IsWellFoundedOn(R, Nat)
    BY NatLessThanWellFounded
  <1>3. \A x, y \in Nat : <<y, x>> \in R <=> y < x
    BY DEF OpToRel
  <1>. HIDE DEF R
  <1>4. PICK x \in T : \A y \in T : ~ (<<y, x>> \in R)
    BY <1>1, <1>2, WFMin
  <1>5. \A k \in S : k <= n - x
    <2>1. SUFFICES ASSUME NEW k \in S, ~(k <= n - x)
                   PROVE  FALSE
      OBVIOUS
    <2>2. n - k \in T /\ n - k < x
      BY <2>1, <1>4
    <2>3. QED
      BY <2>2, <1>3, <1>4
  <1>6. QED
    BY <1>4, <1>5

(* The latest known usage of an entry is a known usage.                    *)
LEMMA LatestKnown ==
  ASSUME NEW new \in NewEntries, NEW i, KnownAt(new, i) # {}
  PROVE  Latest(new, i) \in Tokens \ {None}
  <1>1. KnownAt(new, i) \subseteq 1 .. Len(new) /\ Len(new) \in Nat
    BY NewEntriesType DEF KnownAt
  <1>2. \E n \in KnownAt(new, i) : \A k \in KnownAt(new, i) : k <= n
    BY <1>1, BoundedMaximum
  <1>. DEFINE last == CHOOSE n \in KnownAt(new, i) : \A k \in KnownAt(new, i) : k <= n
  <1>3. last \in KnownAt(new, i)
    BY <1>2
  <1>4. Latest(new, i) = new[last].tokens
    BY DEF Latest
  <1>. HIDE DEF last
  <1>5. QED
    BY <1>3, <1>4, NewEntriesType DEF KnownAt

LEMMA LatestType ==
  ASSUME NEW new \in NewEntries, NEW i
  PROVE  Latest(new, i) \in Tokens
  BY LatestKnown DEF Latest, Tokens

LEMMA IdsFinite ==
  ASSUME NEW new \in NewEntries
  PROVE  IsFiniteSet(Ids(new)) /\ Ids(new) \subseteq EntryIds
  <1>. DEFINE f == [n \in 1 .. Len(new) |-> new[n].id]
  <1>1. Len(new) \in Nat /\ DOMAIN new = 1 .. Len(new)
    BY NewEntriesType
  <1>2. \A n \in 1 .. Len(new) : new[n].id \in EntryIds
    BY NewEntriesType
  <1>3. f \in Surjection(1 .. Len(new), Ids(new))
    BY <1>1 DEF Surjection, Ids
  <1>4. IsFiniteSet(1 .. Len(new))
    BY <1>1, FS_Interval
  <1>5. QED
    BY <1>1, <1>2, <1>3, <1>4, FS_Surjection DEF Ids

(* A merge gives a well-formed ledger, with every entry of both, and knows *)
(* whatever one of them has known.                                         *)
LEMMA MergedType ==
  ASSUME NEW e \in Entries, NEW new \in NewEntries, ~TooMany(Merged(e, new))
  PROVE  Merged(e, new) \in Entries
  <1>. DEFINE D == DOMAIN e \cup Ids(new)
  <1>1. IsFiniteSet(D) /\ D \subseteq EntryIds
    BY EntriesType, IdsFinite, FS_Union DEF Small
  <1>2. \A i \in D : IF KnownAt(new, i) # {} \/ i \notin DOMAIN e THEN Latest(new, i) \in Tokens
                     ELSE e[i] \in Tokens
    BY EntriesType, LatestType
  <1>3. Merged(e, new) \in [D -> Tokens] /\ DOMAIN Merged(e, new) = D
    BY <1>2 DEF Merged
  <1>4. Cardinality(D) \in Nat
    BY <1>1, FS_CardinalityType
  <1>5. D \in Small
    BY <1>1, <1>3, <1>4, BoundsAssumption DEF Small, TooMany
  <1>6. QED
    BY <1>3, <1>5 DEF Entries

LEMMA MergedKeeps ==
  ASSUME NEW e \in Entries, NEW new \in NewEntries
  PROVE  /\ DOMAIN Merged(e, new) = DOMAIN e \cup Ids(new)
         /\ \A i \in DOMAIN e : e[i] # None => Merged(e, new)[i] # None
         /\ \A n \in DOMAIN new : new[n].tokens # None => Merged(e, new)[new[n].id] # None
  <1>1. DOMAIN Merged(e, new) = DOMAIN e \cup Ids(new)
    BY DEF Merged
  <1>2. ASSUME NEW i \in DOMAIN e, e[i] # None
        PROVE  Merged(e, new)[i] # None
    BY <1>2, LatestKnown DEF Merged
  <1>3. ASSUME NEW n \in DOMAIN new, new[n].tokens # None
        PROVE  Merged(e, new)[new[n].id] # None
    <2>1. n \in KnownAt(new, new[n].id) /\ new[n].id \in Ids(new)
      BY <1>3 DEF KnownAt, Ids
    <2>2. QED
      BY <2>1, LatestKnown DEF Merged
  <1>4. QED
    BY <1>1, <1>2, <1>3

-----------------------------------------------------------------------------
(* Merging one after the other.                                            *)
LEMMA LatestAt ==
  ASSUME NEW new \in NewEntries, NEW i, NEW m \in KnownAt(new, i),
         \A k \in KnownAt(new, i) : k <= m
  PROVE  Latest(new, i) = new[m].tokens
  <1>1. KnownAt(new, i) \subseteq Nat
    BY NewEntriesType DEF KnownAt
  <1>. DEFINE last == CHOOSE n \in KnownAt(new, i) : \A k \in KnownAt(new, i) : k <= n
  <1>2. last \in KnownAt(new, i) /\ \A k \in KnownAt(new, i) : k <= last
    OBVIOUS
  <1>3. Latest(new, i) = new[last].tokens
    BY DEF Latest
  <1>. HIDE DEF last
  <1>4. last = m
    BY <1>1, <1>2
  <1>5. QED
    BY <1>3, <1>4

LEMMA Concatenation ==
  ASSUME NEW a \in NewEntries, NEW b \in NewEntries
  PROVE  /\ a \o b \in NewEntries
         /\ \A n \in DOMAIN a : n \in DOMAIN (a \o b) /\ (a \o b)[n] = a[n]
         /\ \A n \in DOMAIN b : Len(a) + n \in DOMAIN (a \o b) /\ (a \o b)[Len(a) + n] = b[n]
         /\ \A n \in DOMAIN (a \o b) : n \in DOMAIN a \/ n - Len(a) \in DOMAIN b
  BY DEF NewEntries

(* Of two reports in a row, the second tells the latest usage if it knows  *)
(* one, and the first does otherwise.                                      *)
LEMMA LatestOfTwo ==
  ASSUME NEW a \in NewEntries, NEW b \in NewEntries, NEW i
  PROVE  /\ KnownAt(a \o b, i) # {} <=> KnownAt(a, i) # {} \/ KnownAt(b, i) # {}
         /\ KnownAt(b, i) # {} => Latest(a \o b, i) = Latest(b, i)
         /\ KnownAt(b, i) = {} => Latest(a \o b, i) = Latest(a, i)
  <1>. DEFINE ab == a \o b
  <1>1. /\ Len(a) \in Nat /\ DOMAIN a = 1 .. Len(a)
        /\ Len(b) \in Nat /\ DOMAIN b = 1 .. Len(b)
    BY NewEntriesType
  <1>2. /\ ab \in NewEntries
        /\ \A n \in DOMAIN a : n \in DOMAIN ab /\ ab[n] = a[n]
        /\ \A n \in DOMAIN b : Len(a) + n \in DOMAIN ab /\ ab[Len(a) + n] = b[n]
        /\ \A n \in DOMAIN ab : n \in DOMAIN a \/ n - Len(a) \in DOMAIN b
    BY Concatenation
  <1>3. Len(ab) \in Nat /\ DOMAIN ab = 1 .. Len(ab)
    BY <1>2, NewEntriesType
  <1>. HIDE DEF ab
  <1>4. \A n \in KnownAt(a, i) : n \in KnownAt(ab, i)
    BY <1>2 DEF KnownAt
  <1>5. \A n \in KnownAt(b, i) : Len(a) + n \in KnownAt(ab, i)
    BY <1>2 DEF KnownAt
  <1>6. ASSUME NEW n \in KnownAt(ab, i)
        PROVE  n \in KnownAt(a, i) \/ n - Len(a) \in KnownAt(b, i)
    <2>1. n \in DOMAIN ab /\ ab[n].id = i /\ ab[n].tokens # None
      BY <1>6 DEF KnownAt
    <2>2. CASE n \in DOMAIN a
      BY <1>2, <2>1, <2>2 DEF KnownAt
    <2>3. CASE n - Len(a) \in DOMAIN b
      <3>1. Len(a) + (n - Len(a)) = n
        BY <1>1, <1>3, <2>1
      <3>2. ab[n] = b[n - Len(a)]
        BY <1>2, <2>3, <3>1
      <3>3. QED
        BY <2>1, <2>3, <3>2 DEF KnownAt
    <2>4. QED
      BY <1>2, <2>1, <2>2, <2>3
  <1>7. KnownAt(ab, i) # {} <=> KnownAt(a, i) # {} \/ KnownAt(b, i) # {}
    BY <1>4, <1>5, <1>6
  <1>8. KnownAt(a, i) \subseteq 1 .. Len(a) /\ KnownAt(b, i) \subseteq 1 .. Len(b)
    BY <1>1 DEF KnownAt
  <1>9. ASSUME KnownAt(b, i) # {}
        PROVE  Latest(ab, i) = Latest(b, i)
    <2>1. PICK m \in KnownAt(b, i) : \A k \in KnownAt(b, i) : k <= m
      BY <1>1, <1>8, <1>9, BoundedMaximum
    <2>2. m \in 1 .. Len(b) /\ Len(a) + m \in KnownAt(ab, i) /\ ab[Len(a) + m] = b[m]
      BY <1>1, <1>2, <1>5, <1>8
    <2>3. ASSUME NEW k \in KnownAt(ab, i)
          PROVE  k <= Len(a) + m
      <3>1. CASE k \in KnownAt(a, i)
        BY <1>1, <1>8, <2>2, <3>1
      <3>2. CASE k - Len(a) \in KnownAt(b, i)
        <4>1. k \in Nat /\ k - Len(a) <= m
          BY <1>3, <2>1, <2>3, <3>2 DEF KnownAt
        <4>2. QED
          BY <1>1, <2>2, <4>1
      <3>3. QED
        BY <1>6, <3>1, <3>2
    <2>4. Latest(ab, i) = ab[Len(a) + m].tokens
      BY <1>2, <2>2, <2>3, LatestAt
    <2>5. Latest(b, i) = b[m].tokens
      BY <2>1, LatestAt
    <2>6. QED
      BY <2>2, <2>4, <2>5
  <1>10. ASSUME KnownAt(b, i) = {}
         PROVE  Latest(ab, i) = Latest(a, i)
    <2>1. CASE KnownAt(a, i) = {}
      BY <1>7, <1>10, <2>1 DEF Latest
    <2>2. CASE KnownAt(a, i) # {}
      <3>1. PICK m \in KnownAt(a, i) : \A k \in KnownAt(a, i) : k <= m
        BY <1>1, <1>8, <2>2, BoundedMaximum
      <3>2. m \in KnownAt(ab, i) /\ \A k \in KnownAt(ab, i) : k <= m
        BY <1>4, <1>6, <1>10, <3>1
      <3>3. ab[m] = a[m]
        BY <1>1, <1>2, <1>8, <3>1
      <3>4. QED
        BY <1>2, <3>1, <3>2, <3>3, LatestAt
    <2>3. QED
      BY <2>1, <2>2
  <1>11. QED
    BY <1>7, <1>9, <1>10 DEF ab

(* mergeTokenLedger: to merge a report and then another is to merge both   *)
(* of them at once, in that order, so that it makes no difference to a     *)
(* ledger how what was reported of its run was split up into calls.        *)
THEOREM MergesCompose ==
  ASSUME NEW e, NEW a \in NewEntries, NEW b \in NewEntries
  PROVE  Merged(Merged(e, a), b) = Merged(e, a \o b)
  <1>. DEFINE ab == a \o b
              once == Merged(e, a)
  <1>1. \A i : /\ KnownAt(ab, i) # {} <=> KnownAt(a, i) # {} \/ KnownAt(b, i) # {}
               /\ KnownAt(b, i) # {} => Latest(ab, i) = Latest(b, i)
               /\ KnownAt(b, i) = {} => Latest(ab, i) = Latest(a, i)
    BY LatestOfTwo
  <1>2. Ids(ab) = Ids(a) \cup Ids(b)
    <2>1. /\ \A n \in DOMAIN a : n \in DOMAIN ab /\ ab[n] = a[n]
          /\ \A n \in DOMAIN b : Len(a) + n \in DOMAIN ab /\ ab[Len(a) + n] = b[n]
      BY Concatenation
    <2>2. \A n \in DOMAIN ab : n \in DOMAIN a \/ n - Len(a) \in DOMAIN b
      BY Concatenation
    <2>3. Len(a) \in Nat /\ \A n \in DOMAIN ab : n \in Nat
      BY Concatenation, NewEntriesType
    <2>4. \A n \in Nat : Len(a) + (n - Len(a)) = n
      BY <2>3
    <2>. HIDE DEF ab
    <2>5. QED
      BY <2>1, <2>2, <2>3, <2>4 DEF Ids
  <1>3. \A i : KnownAt(a, i) # {} => i \in Ids(a)
    BY DEF KnownAt, Ids
  <1>. HIDE DEF ab
  <1>4. /\ DOMAIN once = DOMAIN e \cup Ids(a)
        /\ \A i \in DOMAIN once :
             once[i] = IF KnownAt(a, i) # {} \/ i \notin DOMAIN e THEN Latest(a, i) ELSE e[i]
    BY DEF Merged
  <1>. HIDE DEF once
  <1>5. \A i \in DOMAIN e \cup Ids(ab) :
          (IF KnownAt(b, i) # {} \/ i \notin DOMAIN once THEN Latest(b, i) ELSE once[i])
            = IF KnownAt(ab, i) # {} \/ i \notin DOMAIN e THEN Latest(ab, i) ELSE e[i]
    <2>1. SUFFICES ASSUME NEW i \in DOMAIN e \cup Ids(ab)
                   PROVE  (IF KnownAt(b, i) # {} \/ i \notin DOMAIN once THEN Latest(b, i) ELSE once[i])
                            = IF KnownAt(ab, i) # {} \/ i \notin DOMAIN e THEN Latest(ab, i) ELSE e[i]
      OBVIOUS
    <2>2. CASE KnownAt(b, i) # {}
      BY <1>1, <2>2
    <2>3. CASE KnownAt(b, i) = {} /\ i \in DOMAIN once
      BY <1>1, <1>4, <2>3
    <2>4. CASE KnownAt(b, i) = {} /\ i \notin DOMAIN once
      <3>1. KnownAt(a, i) = {} /\ i \notin DOMAIN e
        BY <1>3, <1>4, <2>4
      <3>2. Latest(ab, i) = None /\ Latest(b, i) = None
        BY <1>1, <2>4, <3>1 DEF Latest
      <3>3. QED
        BY <1>1, <2>4, <3>1, <3>2
    <2>5. QED
      BY <2>2, <2>3, <2>4
  <1>6. DOMAIN once \cup Ids(b) = DOMAIN e \cup Ids(ab)
    BY <1>2, <1>4
  <1>7. Merged(once, b) = Merged(e, ab)
    BY <1>5, <1>6 DEF Merged
  <1>8. QED
    BY <1>7 DEF ab, once

(* mergeTokenLedger: to merge entries again, as when a host tries again    *)
(* and reports the same calls of the optimizer, changes nothing: none of   *)
(* them counts twice, and one whose usage is unknown unsets no known one.  *)
THEOREM MergesRepeat ==
  ASSUME NEW e, NEW new \in NewEntries
  PROVE  Merged(Merged(e, new), new) = Merged(e, new)
  <1>. DEFINE once == Merged(e, new)
  <1>1. /\ DOMAIN once = DOMAIN e \cup Ids(new)
        /\ once = [i \in DOMAIN e \cup Ids(new) |->
                     IF KnownAt(new, i) # {} \/ i \notin DOMAIN e THEN Latest(new, i) ELSE e[i]]
    BY DEF Merged
  <1>. HIDE DEF once
  <1>2. \A i \in DOMAIN once :
          (IF KnownAt(new, i) # {} \/ i \notin DOMAIN once THEN Latest(new, i) ELSE once[i]) = once[i]
    BY <1>1
  <1>3. Merged(once, new) = [i \in DOMAIN once |-> once[i]]
    BY <1>1, <1>2 DEF Merged
  <1>4. QED
    BY <1>1, <1>3 DEF once

-----------------------------------------------------------------------------
(* Merging is what the loop over the new entries comes to.                 *)
LEMMA SetInduction ==
  ASSUME NEW T, 0 \in T, \A n \in Nat : n \in T => n + 1 \in T
  PROVE  Nat \subseteq T
  <1>. DEFINE Bad == Nat \ T
              R == OpToRel(<, Nat)
  <1>1. SUFFICES ASSUME Bad # {}
                 PROVE  FALSE
    OBVIOUS
  <1>2. IsWellFoundedOn(R, Nat)
    BY NatLessThanWellFounded
  <1>3. \A x, y \in Nat : <<y, x>> \in R <=> y < x
    BY DEF OpToRel
  <1>. HIDE DEF R
  <1>4. PICK x \in Bad : \A y \in Bad : ~ (<<y, x>> \in R)
    BY <1>1, <1>2, WFMin
  <1>5. x # 0 /\ x \in Nat
    BY <1>4
  <1>6. x - 1 \in Nat /\ (x - 1) + 1 = x
    BY <1>5
  <1>7. x - 1 \in T
    <2>1. x - 1 < x
      BY <1>5
    <2>2. <<x - 1, x>> \in R
      BY <1>3, <1>5, <1>6, <2>1
    <2>3. QED
      BY <1>4, <1>6, <2>2
  <1>8. QED
    BY <1>4, <1>6, <1>7

LEMMA MergedOne ==
  ASSUME NEW e, e = [i \in DOMAIN e |-> e[i]], NEW x \in Records
  PROVE  Put(x, e) = Merged(e, <<x>>)
  <1>. DEFINE new == <<x>>
  <1>1. new \in NewEntries /\ DOMAIN new = {1} /\ new[1] = x
    BY DEF NewEntries
  <1>. HIDE DEF new
  <1>2. Ids(new) = {x.id}
    BY <1>1 DEF Ids
  <1>3. \A i : KnownAt(new, i) = IF i = x.id /\ x.tokens # None THEN {1} ELSE {}
    BY <1>1 DEF KnownAt
  <1>4. x.tokens # None => Latest(new, x.id) = x.tokens
    BY <1>1, <1>3, LatestAt
  <1>5. x.tokens = None => Latest(new, x.id) = x.tokens
    BY <1>3 DEF Latest
  <1>6. CASE x.tokens = None /\ x.id \in DOMAIN e /\ e[x.id] # None
    <2>1. Merged(e, new) = [i \in DOMAIN e |-> e[i]]
      BY <1>2, <1>3, <1>6 DEF Merged
    <2>2. QED
      BY <1>6, <2>1 DEF Put, new
  <1>7. CASE ~(x.tokens = None /\ x.id \in DOMAIN e /\ e[x.id] # None)
    <2>1. \A i \in DOMAIN e \cup {x.id} :
            (IF KnownAt(new, i) # {} \/ i \notin DOMAIN e THEN Latest(new, i) ELSE e[i])
              = IF i = x.id THEN x.tokens ELSE e[i]
      BY <1>3, <1>4, <1>5, <1>7
    <2>2. Put(x, e) = [i \in DOMAIN e \cup {x.id} |-> IF i = x.id THEN x.tokens ELSE e[i]]
      BY <1>7 DEF Put
    <2>3. Merged(e, new) = Put(x, e)
      BY <1>2, <2>1, <2>2 DEF Merged
    <2>4. QED
      BY <2>3 DEF new
  <1>8. QED
    BY <1>6, <1>7

LEMMA MergedNone ==
  ASSUME NEW e, e = [i \in DOMAIN e |-> e[i]]
  PROVE  Merged(e, <<>>) = e
  <1>1. Ids(<<>>) = {} /\ \A i : KnownAt(<<>>, i) = {}
    BY DEF Ids, KnownAt
  <1>2. Merged(e, <<>>) = [i \in DOMAIN e |-> e[i]]
    BY <1>1 DEF Merged
  <1>3. QED
    BY <1>2

(* The loop of mergeTokenLedger, which puts one entry after the other into *)
(* the ledger, computes the merge that the model of record_run is built    *)
(* from, for a report of any length.                                       *)
THEOREM MergeIsLoop ==
  ASSUME NEW e, e = [i \in DOMAIN e |-> e[i]], NEW new \in NewEntries
  PROVE  Replay(e, new) = Merged(e, new)
  <1>. DEFINE N == Len(new)
              first(n) == SubSeq(new, 1, n)
              Loop(f) == [n \in 0 .. N |-> IF n = 0 THEN e ELSE Put(new[n], f[n - 1])]
              after == CHOOSE f : f = Loop(f)
              g == [n \in 0 .. N |-> Merged(e, first(n))]
  <1>1. N \in Nat /\ DOMAIN new = 1 .. N /\ \A n \in 1 .. N : new[n] \in Records
    BY DEF NewEntries
  <1>2. /\ first(0) = <<>> /\ first(N) = new
        /\ \A n \in 0 .. N : first(n) \in NewEntries
    BY <1>1 DEF NewEntries
  <1>3. \A n \in 1 .. N : first(n) = first(n - 1) \o <<new[n]>> /\ <<new[n]>> \in NewEntries
    BY <1>1 DEF NewEntries
  <1>. HIDE DEF first
  <1>4. \A n \in 0 .. N : Merged(e, first(n)) = [i \in DOMAIN Merged(e, first(n)) |-> Merged(e, first(n))[i]]
    BY DEF Merged
  <1>5. ASSUME NEW n \in 1 .. N
        PROVE  Put(new[n], Merged(e, first(n - 1))) = Merged(e, first(n))
    <2>1. n - 1 \in 0 .. N /\ new[n] \in Records
      BY <1>1
    <2>2. Put(new[n], Merged(e, first(n - 1))) = Merged(Merged(e, first(n - 1)), <<new[n]>>)
      BY <1>4, <2>1, MergedOne
    <2>3. /\ first(n - 1) \in NewEntries /\ <<new[n]>> \in NewEntries
          /\ first(n) = first(n - 1) \o <<new[n]>>
      BY <1>2, <1>3, <2>1
    <2>4. Merged(Merged(e, first(n - 1)), <<new[n]>>) = Merged(e, first(n - 1) \o <<new[n]>>)
      BY <2>3, MergesCompose
    <2>5. QED
      BY <2>2, <2>3, <2>4
  <1>6. g = Loop(g)
    <2>1. \A n \in 0 .. N : g[n] = Merged(e, first(n))
      OBVIOUS
    <2>2. \A n \in 1 .. N : n - 1 \in 0 .. N
      BY <1>1
    <2>3. Merged(e, first(0)) = e
      BY <1>2, MergedNone
    <2>. DEFINE h == g
    <2>. HIDE DEF h
    <2>4. \A n \in 0 .. N : Merged(e, first(n)) = IF n = 0 THEN e ELSE Put(new[n], h[n - 1])
      BY <1>1, <1>5, <2>1, <2>2, <2>3 DEF h
    <2>5. g = Loop(h)
      BY <2>4
    <2>6. QED
      BY <2>5 DEF h
  <1>. HIDE DEF g
  <1>7. after = Loop(after)
    BY <1>6
  <1>. HIDE DEF after
  <1>8. \A n \in 0 .. N : after[n] = IF n = 0 THEN e ELSE Put(new[n], after[n - 1])
    BY <1>7
  <1>. DEFINE T == {n \in Nat : n <= N => after[n] = Merged(e, first(n))}
  <1>9. 0 \in T
    BY <1>1, <1>2, <1>8, MergedNone
  <1>10. ASSUME NEW n \in Nat, n \in T
         PROVE  n + 1 \in T
    <2>1. CASE n + 1 <= N
      <3>1. n + 1 \in 1 .. N /\ (n + 1) - 1 = n /\ n <= N
        BY <1>1, <2>1
      <3>2. after[n] = Merged(e, first(n))
        BY <1>10, <3>1
      <3>3. after[n + 1] = Put(new[n + 1], after[n])
        BY <1>1, <1>8, <3>1
      <3>4. QED
        BY <1>5, <3>1, <3>2, <3>3
    <2>2. CASE ~(n + 1 <= N)
      BY <2>2
    <2>3. QED
      BY <2>1, <2>2
  <1>11. N \in T
    <2>. HIDE DEF T
    <2>1. QED
      BY <1>1, <1>9, <1>10, SetInduction
  <1>12. after[N] = Merged(e, new)
    BY <1>1, <1>2, <1>11
  <1>13. Replay(e, new) = after[N]
    BY DEF Replay, after
  <1>14. QED
    BY <1>12, <1>13

-----------------------------------------------------------------------------
(* The invariant.                                                          *)
Typed ==
  /\ saved \in Tables /\ view \in [Calls -> Tables]
  /\ stage \in [Calls -> Stages]
  /\ report \in [Calls -> Reports \cup {None}]
  /\ reply \in [Calls -> {"none", "persisted", "failed"}]
  /\ faults \in 0 .. MaxFaults
  /\ disturbed \in SUBSET Calls

(* A call that is at a save has what it has saved before in its copy.      *)
Staged(c) ==
  /\ stage[c] \in {"set_metric", "set_ledger"} => report[c] # None
  /\ stage[c] = "set_ledger" => c \in view[c].metrics
  /\ reply[c] = "persisted" => stage[c] = "done"

(* The agent's entry of a call is there with its metric, and is one of a   *)
(* call that has been made, for the task of the ledger or for none.        *)
SoundAt(table, stages, reports) ==
  \A r \in Runs, c \in Calls :
    Holds(table.ledgers[r], Agent(c)) =>
      /\ c \in table.metrics
      /\ stages[c] # "idle"
      /\ reports[c] # None /\ reports[c].task \in {None, table.ledgers[r].task}
Sound(table) == SoundAt(table, stage, report)

Apart == \A c, d \in Calls : c # d /\ Open(c) /\ Open(d) => {c, d} \subseteq disturbed

(* What a call has reported of a run is in a table.                        *)
KeptOf(c, run, new, table) ==
  /\ c \in table.metrics
  /\ \A n \in DOMAIN new :
       /\ Holds(table.ledgers[run], new[n].id)
       /\ new[n].tokens # None => Knows(table.ledgers[run], new[n].id)
Kept(c, table) == KeptOf(c, report[c].run, LedgerEntries(c), table)

Acknowledged(c) == c \notin disturbed /\ report[c] # None /\ reply[c] = "persisted"

KeptByAll ==
  \A c \in Calls : Acknowledged(c) =>
    Kept(c, saved) /\ \A d \in Calls : Open(d) => Kept(c, view[d])

LedgerInv ==
  /\ Typed
  /\ \A c \in Calls : Staged(c)
  /\ Sound(saved) /\ \A c \in Calls : Sound(view[c])
  /\ Apart
  /\ KeptByAll

-----------------------------------------------------------------------------
LEMMA EntryIdsDiffer ==
  ASSUME NEW c, NEW d
  PROVE  Agent(c) # Optimizer(d) /\ (Agent(c) = Agent(d) => c = d)
  BY DEF Agent, Optimizer

(* What a call reports are entries, one of which is the agent's.           *)
LEMMA ReportedEntries ==
  ASSUME NEW c \in Calls, report[c] \in Reports
  PROVE  /\ LedgerEntries(c) \in NewEntries
         /\ \A d \in Calls : Agent(d) \in Ids(LedgerEntries(c)) => d = c
  <1>. DEFINE calls == report[c].optimizerCalls
              first == [n \in DOMAIN calls |-> Entry(Optimizer(calls[n].operation), calls[n].tokens)]
              last == Entry(Agent(c), report[c].accounting)
              Used == [operation : Operations, tokens : Tokens]
  <1>1. calls \in Seq(Used) /\ report[c].accounting \in Tokens
    BY ReportsAssumption
  <1>2. \A n \in DOMAIN calls : calls[n] \in Used
    BY <1>1, Elements
  <1>3. \A n \in DOMAIN calls : first[n] \in Records
    BY <1>2 DEF Records, Entry, EntryIds, Optimizer
  <1>4. first \in Seq(Records)
    <2>1. Len(calls) \in Nat /\ DOMAIN calls = 1 .. Len(calls)
      BY <1>1
    <2>. HIDE DEF Used, calls
    <2>2. first \in [1 .. Len(calls) -> Records]
      BY <1>3, <2>1
    <2>. HIDE DEF first
    <2>3. QED
      BY <2>1, <2>2
  <1>5. last \in Records
    BY <1>1 DEF Records, Entry, EntryIds
  <1>6. LedgerEntries(c) = first \o <<last>>
    BY DEF LedgerEntries
  <1>7. \A n \in DOMAIN first : \A d \in Calls : first[n].id # Agent(d)
    BY EntryIdsDiffer DEF Entry
  <1>8. last.id = Agent(c)
    BY DEF Entry
  <1>. HIDE DEF first, last
  <1>9. /\ LedgerEntries(c) \in NewEntries
        /\ \A n \in DOMAIN LedgerEntries(c) :
             LedgerEntries(c)[n] = last \/ \E k \in DOMAIN first : LedgerEntries(c)[n] = first[k]
    BY <1>4, <1>5, <1>6 DEF NewEntries
  <1>10. \A d \in Calls : Agent(d) \in Ids(LedgerEntries(c)) => d = c
    BY <1>7, <1>8, <1>9, EntryIdsDiffer DEF Ids
  <1>11. QED
    BY <1>9, <1>10

-----------------------------------------------------------------------------
LEMMA NoRecordsType ==
  NoRecords \in Tables /\ \A r \in Runs : \A i : ~Holds(NoRecords.ledgers[r], i)
  <1>1. IsFiniteSet({}) /\ Cardinality({}) = 0
    BY FS_EmptySet
  <1>2. {} \in Small
    BY <1>1, BoundsAssumption DEF Small
  <1>3. <<>> \in [{} -> Tokens] /\ DOMAIN <<>> = {}
    OBVIOUS
  <1>4. <<>> \in Entries
    BY <1>2, <1>3 DEF Entries
  <1>5. NoLedger \in Ledgers /\ NoLedger.entries = <<>>
    BY <1>4 DEF NoLedger, Ledgers
  <1>6. QED
    BY <1>3, <1>5 DEF NoRecords, Tables, Holds

LEMMA LedgerInit == Init => LedgerInv
  <1>. SUFFICES ASSUME Init
                PROVE  LedgerInv
    OBVIOUS
  <1>1. Typed
    BY NoRecordsType, BoundsAssumption DEF Init, Typed, Stages
  <1>2. Sound(saved) /\ \A c \in Calls : Staged(c) /\ Sound(view[c])
    BY NoRecordsType DEF Init, Sound, SoundAt, Staged
  <1>3. Apart /\ KeptByAll
    BY DEF Init, Apart, Open, KeptByAll, Acknowledged
  <1>4. QED
    BY <1>1, <1>2, <1>3 DEF LedgerInv

-----------------------------------------------------------------------------
(* What is left to show of a step of a session that saves a table, or      *)
(* fails to, and goes on or is done.                                       *)
LEMMA SessionPreserves ==
  ASSUME LedgerInv, NEW c \in Calls, Open(c), report' = report, disturbed' = disturbed,
         NEW table \in Tables, Sound(table),
         \A b \in Calls : b # c /\ report[b] # None /\ Kept(b, view[c]) => Kept(b, table),
         saved' \in {saved, table},
         NEW next \in Stages \ {"idle"}, stage' = [stage EXCEPT ![c] = next],
         NEW copy \in {table, NoRecords}, view' = [view EXCEPT ![c] = copy],
         next = "done" \/ copy = table,
         Typed', Staged(c)',
         \A b \in Calls \ {c} : reply'[b] = reply[b],
         reply'[c] = "persisted" /\ report[c] # None => Kept(c, saved')
  PROVE  LedgerInv'
  <1>1. \A b \in Calls \ {c} : stage'[b] = stage[b] /\ view'[b] = view[b]
    BY DEF LedgerInv, Typed
  <1>2. stage'[c] = next /\ view'[c] = copy
    BY DEF LedgerInv, Typed
  <1>3. \A b \in Calls : Staged(b)'
    BY <1>1 DEF LedgerInv, Staged
  <1>4. \A b \in Calls : stage[b] # "idle" => stage'[b] # "idle"
    BY <1>1, <1>2
  <1>5. ASSUME NEW t, SoundAt(t, stage, report)
        PROVE  SoundAt(t, stage', report')
    BY <1>4, <1>5 DEF SoundAt
  <1>6. SoundAt(NoRecords, stage, report)
    BY NoRecordsType DEF SoundAt
  <1>7. Sound(saved)' /\ \A b \in Calls : Sound(view[b])'
    BY <1>1, <1>2, <1>5, <1>6 DEF LedgerInv, Sound
  <1>8. \A b \in Calls : Open(b)' => Open(b)
    BY <1>1 DEF Open
  <1>9. Apart'
    BY <1>8 DEF LedgerInv, Apart
  <1>10. \A b \in Calls : LedgerEntries(b)' = LedgerEntries(b)
    BY DEF LedgerEntries
  <1>11. ASSUME NEW b \in Calls, Acknowledged(b)'
         PROVE  Kept(b, saved)' /\ \A d \in Calls : Open(d)' => Kept(b, view[d])'
    <2>1. CASE b = c
      <3>1. next = "done" /\ Kept(c, saved')
        BY <1>2, <1>11, <2>1 DEF Acknowledged, Staged
      <3>2. \A d \in Calls : ~Open(d)'
        BY <1>1, <1>2, <1>8, <1>11, <2>1, <3>1 DEF LedgerInv, Apart, Acknowledged, Open
      <3>3. QED
        BY <1>10, <2>1, <3>1, <3>2 DEF Kept
    <2>2. CASE b # c
      <3>1. Acknowledged(b)
        BY <1>11, <2>2 DEF Acknowledged
      <3>2. Kept(b, saved) /\ Kept(b, table) /\ \A d \in Calls : Open(d) => Kept(b, view[d])
        BY <2>2, <3>1 DEF LedgerInv, KeptByAll, Acknowledged
      <3>3. \A d \in Calls : Open(d)' => Kept(b, view'[d])
        BY <1>1, <1>2, <1>8, <3>2 DEF Open
      <3>4. Kept(b, saved')
        BY <3>2
      <3>5. QED
        BY <1>10, <3>3, <3>4 DEF Kept
    <2>3. QED
      BY <2>1, <2>2
  <1>12. KeptByAll'
    BY <1>11 DEF KeptByAll
  <1>13. QED
    BY <1>3, <1>7, <1>9, <1>12 DEF LedgerInv

LEMMA DonePreserves ==
  ASSUME LedgerInv, NEW c \in Calls, Open(c), report' = report, disturbed' = disturbed,
         faults' \in 0 .. MaxFaults,
         NEW table \in Tables, Sound(table),
         \A b \in Calls : b # c /\ report[b] # None /\ Kept(b, view[c]) => Kept(b, table),
         saved' \in {saved, table},
         NEW answer \in {"persisted", "failed"}, Done(c, answer),
         answer = "persisted" /\ report[c] # None => Kept(c, saved')
  PROVE  LedgerInv'
  <1>1. /\ stage' = [stage EXCEPT ![c] = "done"] /\ view' = [view EXCEPT ![c] = NoRecords]
        /\ reply' = [reply EXCEPT ![c] = IF @ = "none" THEN answer ELSE @]
    BY DEF Done
  <1>2. reply[c] # "persisted"
    BY DEF LedgerInv, Staged, Open
  <1>3. Typed'
    BY <1>1, NoRecordsType DEF LedgerInv, Typed, Stages
  <1>4. Staged(c)'
    BY <1>1 DEF LedgerInv, Typed, Staged
  <1>5. \A b \in Calls \ {c} : reply'[b] = reply[b]
    BY <1>1 DEF LedgerInv, Typed
  <1>6. reply'[c] = "persisted" /\ report[c] # None => Kept(c, saved')
    BY <1>1, <1>2 DEF LedgerInv, Typed
  <1>7. "done" \in Stages \ {"idle"}
    BY DEF Stages
  <1>8. QED
    BY <1>1, <1>3, <1>4, <1>5, <1>6, <1>7, SessionPreserves

LEMMA GoOnPreserves ==
  ASSUME LedgerInv, NEW c \in Calls, Open(c), report' = report, disturbed' = disturbed,
         faults' \in 0 .. MaxFaults,
         NEW table \in Tables, Sound(table),
         \A b \in Calls : b # c /\ report[b] # None /\ Kept(b, view[c]) => Kept(b, table),
         saved' \in {saved, table},
         NEW next \in {"set_metric", "set_ledger"}, GoOn(c, next, table),
         report[c] # None, next = "set_ledger" => c \in table.metrics
  PROVE  LedgerInv'
  <1>1. /\ stage' = [stage EXCEPT ![c] = next] /\ view' = [view EXCEPT ![c] = table]
        /\ reply' = reply
    BY DEF GoOn
  <1>2. reply[c] # "persisted"
    BY DEF LedgerInv, Staged, Open
  <1>3. Typed'
    BY <1>1 DEF LedgerInv, Typed, Stages
  <1>4. Staged(c)'
    BY <1>1, <1>2 DEF LedgerInv, Typed, Staged
  <1>5. next \in Stages \ {"idle"}
    BY DEF Stages
  <1>6. QED
    BY <1>1, <1>2, <1>3, <1>4, <1>5, SessionPreserves

-----------------------------------------------------------------------------
(* The actions.                                                            *)
LEMMA CallPreserves ==
  ASSUME LedgerInv, NEW c \in Calls, Call(c)
  PROVE  LedgerInv'
  <1>. PICK r \in Reports \cup {None} : report' = [report EXCEPT ![c] = r]
    BY DEF Call
  <1>1. /\ stage[c] = "idle" /\ stage' = [stage EXCEPT ![c] = "load"]
        /\ view' = [view EXCEPT ![c] = NoRecords]
        /\ UNCHANGED <<reply, saved, faults, disturbed>>
    BY DEF Call, GoOn, history
  <1>2. Typed'
    BY <1>1, NoRecordsType DEF LedgerInv, Typed, Stages
  <1>3. \A b \in Calls \ {c} : stage'[b] = stage[b] /\ view'[b] = view[b] /\ report'[b] = report[b]
    BY <1>1 DEF LedgerInv, Typed
  <1>4. stage'[c] = "load" /\ view'[c] = NoRecords /\ reply'[c] # "persisted"
    BY <1>1 DEF LedgerInv, Typed, Staged
  <1>5. \A b \in Calls : Staged(b)'
    BY <1>1, <1>3, <1>4 DEF LedgerInv, Staged
  <1>6. ASSUME NEW t, SoundAt(t, stage, report)
        PROVE  SoundAt(t, stage', report')
    BY <1>1, <1>3, <1>6 DEF SoundAt
  <1>7. SoundAt(NoRecords, stage, report)
    BY NoRecordsType DEF SoundAt
  <1>8. Sound(saved)' /\ \A b \in Calls : Sound(view[b])'
    BY <1>1, <1>3, <1>4, <1>6, <1>7 DEF LedgerInv, Sound
  <1>9. \A b \in Calls : Open(b)' => b # c /\ Open(b)
    BY <1>3, <1>4 DEF Open
  <1>10. Apart'
    BY <1>1, <1>9 DEF LedgerInv, Apart
  <1>11. \A b \in Calls : Acknowledged(b)' => b # c /\ Acknowledged(b)
    BY <1>1, <1>3, <1>4 DEF Acknowledged
  <1>12. ASSUME NEW b \in Calls, b # c, NEW t
         PROVE  Kept(b, t) => KeptOf(b, report'[b].run, LedgerEntries(b)', t)
    BY <1>3, <1>12 DEF Kept, LedgerEntries
  <1>13. KeptByAll'
    BY <1>1, <1>3, <1>9, <1>11, <1>12 DEF LedgerInv, KeptByAll, Kept
  <1>14. QED
    BY <1>2, <1>5, <1>8, <1>10, <1>13 DEF LedgerInv

LEMMA LoadPreserves ==
  ASSUME LedgerInv, NEW c \in Calls, Load(c)
  PROVE  LedgerInv'
  <1>. DEFINE others == {d \in Calls : Open(d)}
  <1>1. /\ stage[c] = "load" /\ stage' = [stage EXCEPT ![c] = "initialize"]
        /\ view' = [view EXCEPT ![c] = saved]
        /\ disturbed' = disturbed \cup (IF others = {} THEN {} ELSE others \cup {c})
        /\ UNCHANGED <<reply, saved, report, faults>>
    BY DEF Load, GoOn
  <1>2. Typed'
    BY <1>1 DEF LedgerInv, Typed, Stages
  <1>3. \A b \in Calls \ {c} : stage'[b] = stage[b] /\ view'[b] = view[b]
    BY <1>1 DEF LedgerInv, Typed
  <1>4. stage'[c] = "initialize" /\ view'[c] = saved /\ reply[c] # "persisted"
    BY <1>1 DEF LedgerInv, Typed, Staged
  <1>5. \A b \in Calls : Staged(b)'
    BY <1>1, <1>3, <1>4 DEF LedgerInv, Staged
  <1>6. ASSUME NEW t, SoundAt(t, stage, report)
        PROVE  SoundAt(t, stage', report')
    BY <1>1, <1>3, <1>4, <1>6 DEF SoundAt
  <1>7. Sound(saved)' /\ \A b \in Calls : Sound(view[b])'
    BY <1>1, <1>3, <1>4, <1>6 DEF LedgerInv, Sound
  <1>8. \A b \in Calls : Open(b)' => b = c \/ Open(b)
    BY <1>3 DEF Open
  <1>. HIDE DEF others
  <1>9. disturbed \subseteq disturbed'
    BY <1>1
  <1>10. ASSUME NEW b \in Calls, NEW d \in Calls, b # d, Open(b)', Open(d)'
         PROVE  {b, d} \subseteq disturbed'
    <2>1. CASE b # c /\ d # c
      BY <1>8, <1>9, <1>10, <2>1 DEF LedgerInv, Apart
    <2>2. CASE b = c \/ d = c
      <3>1. (b = c \/ b \in others) /\ (d = c \/ d \in others) /\ others # {}
        BY <1>8, <1>10, <2>2 DEF others
      <3>2. QED
        BY <1>1, <3>1
    <2>3. QED
      BY <2>1, <2>2
  <1>11. Apart'
    BY <1>10 DEF Apart
  <1>12. \A b \in Calls : Acknowledged(b)' => Acknowledged(b)
    BY <1>1, <1>9 DEF Acknowledged
  <1>13. \A b \in Calls : LedgerEntries(b)' = LedgerEntries(b)
    BY <1>1 DEF LedgerEntries
  <1>14. ASSUME NEW b \in Calls, Acknowledged(b)
         PROVE  Kept(b, saved') /\ \A d \in Calls : Open(d)' => Kept(b, view'[d])
    BY <1>1, <1>3, <1>4, <1>8, <1>14 DEF LedgerInv, KeptByAll
  <1>15. KeptByAll'
    BY <1>1, <1>12, <1>13, <1>14 DEF KeptByAll, Kept
  <1>16. QED
    BY <1>2, <1>5, <1>7, <1>11, <1>15 DEF LedgerInv

LEMMA InitializePreserves ==
  ASSUME LedgerInv, NEW c \in Calls, Initialize(c)
  PROVE  LedgerInv'
  <1>. DEFINE Answered == IF report[c] = None THEN Done(c, "persisted")
                          ELSE GoOn(c, "set_metric", view[c])
  <1>1. Open(c) /\ view[c] \in Tables /\ Sound(view[c])
    BY DEF LedgerInv, Typed, Initialize, Open
  <1>2. Save(c, view[c], replayed, Answered)
    BY DEF Initialize
  <1>3. /\ report' = report /\ disturbed' = disturbed /\ faults' \in 0 .. MaxFaults
        /\ \/ saved' = view[c] /\ Answered
           \/ saved' \in {saved, view[c]} /\ Done(c, "failed")
    BY <1>2, BoundsAssumption DEF Save, Fault, LedgerInv, Typed
  <1>4. CASE saved' \in {saved, view[c]} /\ Done(c, "failed")
    BY <1>1, <1>3, <1>4, DonePreserves
  <1>5. CASE saved' = view[c] /\ report[c] = None /\ Done(c, "persisted")
    BY <1>1, <1>3, <1>5, DonePreserves
  <1>6. CASE saved' = view[c] /\ report[c] # None /\ GoOn(c, "set_metric", view[c])
    BY <1>1, <1>3, <1>6, GoOnPreserves
  <1>7. QED
    BY <1>3, <1>4, <1>5, <1>6

LEMMA SetMetricPreserves ==
  ASSUME LedgerInv, NEW c \in Calls, SetMetric(c)
  PROVE  LedgerInv'
  <1>. DEFINE table == [view[c] EXCEPT !.metrics = @ \cup {c}]
  <1>1. Open(c) /\ view[c] \in Tables /\ Sound(view[c]) /\ report[c] # None
    BY DEF LedgerInv, Typed, SetMetric, Open, Staged
  <1>2. table \in Tables /\ table.metrics = view[c].metrics \cup {c} /\ table.ledgers = view[c].ledgers
    BY <1>1 DEF Tables
  <1>3. Sound(table)
    BY <1>1, <1>2 DEF Sound, SoundAt
  <1>4. \A b \in Calls : Kept(b, view[c]) => Kept(b, table)
    BY <1>2 DEF Kept, KeptOf
  <1>5. Save(c, table, replayed, GoOn(c, "set_ledger", table))
    BY DEF SetMetric
  <1>. HIDE DEF table
  <1>6. /\ report' = report /\ disturbed' = disturbed /\ faults' \in 0 .. MaxFaults
        /\ \/ saved' = table /\ GoOn(c, "set_ledger", table)
           \/ saved' \in {saved, table} /\ Done(c, "failed")
    BY <1>5, BoundsAssumption DEF Save, Fault, LedgerInv, Typed
  <1>7. CASE saved' \in {saved, table} /\ Done(c, "failed")
    BY <1>1, <1>2, <1>3, <1>4, <1>6, <1>7, DonePreserves
  <1>8. CASE saved' = table /\ GoOn(c, "set_ledger", table)
    BY <1>1, <1>2, <1>3, <1>4, <1>6, <1>8, GoOnPreserves
  <1>9. QED
    BY <1>6, <1>7, <1>8

LEMMA SetLedgerPreserves ==
  ASSUME LedgerInv, NEW c \in Calls, SetLedger(c)
  PROVE  LedgerInv'
  <1>. DEFINE r == report[c].run
              task == report[c].task
              existing == view[c].ledgers[r]
              new == LedgerEntries(c)
              entries == Merged(existing.entries, new)
              ledger == [task |-> MergedTask(existing, task), entries |-> entries]
              table == [view[c] EXCEPT !.ledgers[r] = ledger]
  <1>1. /\ Open(c) /\ view[c] \in Tables /\ Sound(view[c]) /\ report[c] # None
        /\ c \in view[c].metrics
    BY DEF LedgerInv, Typed, SetLedger, Open, Staged
  <1>2. report[c] \in Reports /\ r \in Runs /\ task \in Tasks \cup {None}
    BY <1>1, ReportsAssumption DEF LedgerInv, Typed
  <1>3. existing \in Ledgers
    BY <1>1, <1>2 DEF Tables
  <1>4. existing.entries \in Entries /\ existing.task \in Tasks \cup {None}
    BY <1>3 DEF Ledgers
  <1>5. new \in NewEntries /\ \A d \in Calls : Agent(d) \in Ids(new) => d = c
    BY <1>2, ReportedEntries
  <1>6. CASE OtherTask(existing, task) \/ TooMany(entries)
    <2>1. /\ Done(c, "failed") /\ saved' = saved /\ report' = report /\ faults' = faults
          /\ disturbed' = disturbed
      BY <1>6 DEF SetLedger, history
    <2>2. faults' \in 0 .. MaxFaults
      BY <2>1 DEF LedgerInv, Typed
    <2>. HIDE DEF r, task, existing, new, entries, ledger, table
    <2>3. QED
      BY <1>1, <2>1, <2>2, DonePreserves
  <1>7. CASE ~OtherTask(existing, task) /\ ~TooMany(entries)
    <2>. DEFINE replay == [replayed EXCEPT ![r] = Replay(@, new)]
    <2>1. Save(c, table, replay, Done(c, "persisted"))
      BY <1>7 DEF SetLedger
    <2>. HIDE DEF replay
    <2>2. entries \in Entries
      BY <1>4, <1>5, <1>7, MergedType
    <2>3. ledger \in Ledgers
      BY <1>2, <1>4, <2>2 DEF Ledgers, MergedTask
    <2>4. /\ DOMAIN entries = DOMAIN existing.entries \cup Ids(new)
          /\ \A i \in DOMAIN existing.entries : existing.entries[i] # None => entries[i] # None
          /\ \A n \in DOMAIN new : new[n].tokens # None => entries[new[n].id] # None
      BY <1>4, <1>5, MergedKeeps
    <2>5. ledger.entries = entries /\ ledger.task = MergedTask(existing, task)
      OBVIOUS
    <2>. HIDE DEF entries, ledger
    <2>6. /\ table \in Tables /\ table.metrics = view[c].metrics /\ table.ledgers[r] = ledger
          /\ \A q \in Runs \ {r} : table.ledgers[q] = view[c].ledgers[q]
      BY <1>1, <1>2, <2>3 DEF Tables
    <2>. HIDE DEF table
    <2>7. ASSUME NEW d \in Calls, Holds(ledger, Agent(d))
          PROVE  /\ d \in view[c].metrics /\ stage[d] # "idle"
                 /\ report[d] # None /\ report[d].task \in {None, ledger.task}
      <3>1. CASE d = c
        BY <1>1, <2>5, <3>1 DEF Open, MergedTask
      <3>2. CASE d # c
        <4>1. Holds(existing, Agent(d))
          BY <1>5, <2>4, <2>5, <2>7, <3>2 DEF Holds
        <4>2. /\ d \in view[c].metrics /\ stage[d] # "idle"
              /\ report[d] # None /\ report[d].task \in {None, existing.task}
          BY <1>1, <1>2, <4>1 DEF Sound, SoundAt
        <4>3. QED
          BY <1>7, <2>5, <4>2 DEF OtherTask, MergedTask
      <3>3. QED
        BY <3>1, <3>2
    <2>8. Sound(table)
      BY <1>1, <2>6, <2>7 DEF Sound, SoundAt
    <2>9. Kept(c, table)
      BY <1>1, <2>4, <2>5, <2>6 DEF Kept, KeptOf, Holds, Knows, Ids
    <2>10. ASSUME NEW q, NEW i
           PROVE  /\ Holds(view[c].ledgers[q], i) /\ q \in Runs => Holds(table.ledgers[q], i)
                  /\ Knows(view[c].ledgers[q], i) /\ q \in Runs => Knows(table.ledgers[q], i)
      BY <2>4, <2>5, <2>6 DEF Holds, Knows
    <2>11. ASSUME NEW b \in Calls, report[b] # None, Kept(b, view[c])
           PROVE  Kept(b, table)
      <3>1. report[b].run \in Runs
        BY <2>11, ReportsAssumption DEF LedgerInv, Typed
      <3>2. QED
        BY <2>6, <2>10, <2>11, <3>1 DEF Kept, KeptOf
    <2>12. /\ report' = report /\ disturbed' = disturbed /\ faults' \in 0 .. MaxFaults
           /\ \/ saved' = table /\ Done(c, "persisted")
              \/ saved' \in {saved, table} /\ Done(c, "failed")
      BY <2>1, BoundsAssumption DEF Save, Fault, LedgerInv, Typed
    <2>13. CASE saved' = table /\ Done(c, "persisted")
      BY <1>1, <2>6, <2>8, <2>9, <2>11, <2>12, <2>13, DonePreserves
    <2>14. CASE saved' \in {saved, table} /\ Done(c, "failed")
      BY <1>1, <2>6, <2>8, <2>11, <2>12, <2>14, DonePreserves
    <2>15. QED
      BY <2>12, <2>13, <2>14
  <1>8. QED
    BY <1>6, <1>7

LEMMA TimeoutPreserves ==
  ASSUME LedgerInv, NEW c \in Calls, Timeout(c)
  PROVE  LedgerInv'
  <1>1. /\ stage[c] # "done" /\ reply' = [reply EXCEPT ![c] = "failed"]
        /\ UNCHANGED <<saved, view, stage, report, disturbed>>
    BY DEF Timeout, history
  <1>2. faults' \in 0 .. MaxFaults
    BY BoundsAssumption DEF Timeout, Fault, LedgerInv, Typed
  <1>3. Typed'
    BY <1>1, <1>2 DEF LedgerInv, Typed
  <1>4. \A b \in Calls : reply'[b] = "persisted" => reply[b] = "persisted"
    BY <1>1 DEF LedgerInv, Typed
  <1>5. \A b \in Calls : Staged(b)'
    BY <1>1, <1>4 DEF LedgerInv, Staged
  <1>6. Sound(saved)' /\ \A b \in Calls : Sound(view[b])'
    BY <1>1 DEF LedgerInv, Sound
  <1>7. Apart'
    BY <1>1 DEF LedgerInv, Apart, Open
  <1>8. KeptByAll'
    <2>1. SUFFICES ASSUME NEW b \in Calls, Acknowledged(b)'
                   PROVE  Kept(b, saved)' /\ \A d \in Calls : Open(d)' => Kept(b, view[d])'
      BY DEF KeptByAll
    <2>2. Acknowledged(b)
      BY <1>1, <1>4, <2>1 DEF Acknowledged
    <2>3. LedgerEntries(b)' = LedgerEntries(b)
      BY <1>1 DEF LedgerEntries
    <2>4. QED
      BY <1>1, <2>2, <2>3 DEF LedgerInv, KeptByAll, Kept, Open
  <1>9. QED
    BY <1>3, <1>5, <1>6, <1>7, <1>8 DEF LedgerInv

LEMMA CrashPreserves ==
  ASSUME LedgerInv, Crash
  PROVE  LedgerInv'
  <1>1. /\ stage' = [c \in Calls |-> IF stage[c] = "idle" THEN "idle" ELSE "done"]
        /\ view' = [c \in Calls |-> NoRecords]
        /\ reply' = [c \in Calls |-> IF stage[c] # "idle" /\ reply[c] = "none" THEN "failed" ELSE reply[c]]
        /\ UNCHANGED <<saved, report, disturbed>>
    BY DEF Crash, history
  <1>2. faults' \in 0 .. MaxFaults
    BY BoundsAssumption DEF Crash, Fault, LedgerInv, Typed
  <1>3. Typed'
    BY <1>1, <1>2, NoRecordsType DEF LedgerInv, Typed, Stages
  <1>4. \A b \in Calls : reply'[b] = "persisted" => reply[b] = "persisted"
    BY <1>1 DEF LedgerInv, Typed
  <1>5. \A b \in Calls : stage'[b] \in {"idle", "done"} /\ (stage[b] # "idle" => stage'[b] = "done")
    BY <1>1
  <1>6. \A b \in Calls : Staged(b)'
    BY <1>4, <1>5 DEF LedgerInv, Staged
  <1>7. ASSUME NEW t, SoundAt(t, stage, report)
        PROVE  SoundAt(t, stage', report')
    BY <1>1, <1>5, <1>7 DEF SoundAt
  <1>8. SoundAt(NoRecords, stage, report)
    BY NoRecordsType DEF SoundAt
  <1>9. Sound(saved)' /\ \A b \in Calls : Sound(view[b])'
    BY <1>1, <1>7, <1>8 DEF LedgerInv, Sound
  <1>10. \A b \in Calls : ~Open(b)'
    BY <1>5 DEF Open
  <1>11. Apart'
    BY <1>10 DEF Apart
  <1>12. KeptByAll'
    <2>1. SUFFICES ASSUME NEW b \in Calls, Acknowledged(b)'
                   PROVE  Kept(b, saved)'
      BY <1>10 DEF KeptByAll
    <2>2. Acknowledged(b)
      BY <1>1, <1>4, <2>1 DEF Acknowledged
    <2>3. LedgerEntries(b)' = LedgerEntries(b)
      BY <1>1 DEF LedgerEntries
    <2>4. QED
      BY <1>1, <2>2, <2>3 DEF LedgerInv, KeptByAll, Kept
  <1>13. QED
    BY <1>3, <1>6, <1>9, <1>11, <1>12 DEF LedgerInv

LEMMA LedgerNext ==
  ASSUME LedgerInv, [Next]_vars
  PROVE  LedgerInv'
  <1>1. CASE UNCHANGED vars
    <2>1. UNCHANGED <<saved, view, stage, report, reply, faults, disturbed>>
      BY <1>1 DEF vars
    <2>2. \A c \in Calls : LedgerEntries(c)' = LedgerEntries(c)
      BY <2>1 DEF LedgerEntries
    <2>3. Typed' /\ Apart' /\ \A c \in Calls : Staged(c)'
      BY <2>1 DEF LedgerInv, Typed, Apart, Open, Staged
    <2>4. Sound(saved)' /\ \A c \in Calls : Sound(view[c])'
      BY <2>1 DEF LedgerInv, Sound
    <2>5. KeptByAll'
      BY <2>1, <2>2 DEF LedgerInv, KeptByAll, Kept, Acknowledged, Open
    <2>6. QED
      BY <2>3, <2>4, <2>5 DEF LedgerInv
  <1>2. ASSUME NEW c \in Calls, Call(c) \/ CallStep(c) \/ Timeout(c)
        PROVE  LedgerInv'
    BY <1>2, CallPreserves, LoadPreserves, InitializePreserves, SetMetricPreserves,
       SetLedgerPreserves, TimeoutPreserves DEF CallStep
  <1>3. QED
    BY <1>1, <1>2, CrashPreserves DEF Next

-----------------------------------------------------------------------------
(* However calls of record_run overlap, fail, time out and die, the        *)
(* invariant that the theorems below rest on holds.                        *)
THEOREM LedgerInvariant == Spec => []LedgerInv
  <1>1. Init => LedgerInv
    BY LedgerInit
  <1>2. LedgerInv /\ [Next]_vars => LedgerInv'
    BY LedgerNext
  <1>3. QED
    BY <1>1, <1>2, PTL DEF Spec

(* record_run keeps no ledger that is larger than its schema allows, in    *)
(* the file or in the copy of a session (tools.ts, contracts/index.ts).    *)
THEOREM LedgerTypeCorrect == Spec => []TypeOK
  <1>1. ASSUME NEW table \in Tables
        PROVE  TableOK(table)
    <2>1. table.metrics \subseteq Calls /\ DOMAIN table.ledgers = Runs
      BY DEF Tables
    <2>2. ASSUME NEW r \in Runs
          PROVE  table.ledgers[r].task \in Tasks \cup {None} /\ table.ledgers[r].entries \in Entries
      BY <2>2 DEF Tables, Ledgers
    <2>3. QED
      BY <2>1, <2>2, EntriesType DEF TableOK, Small
  <1>2. LedgerInv => TypeOK
    BY <1>1 DEF LedgerInv, Typed, TypeOK
  <1>3. QED
    BY <1>2, LedgerInvariant, PTL

(* record_run saves the metric of a call before its ledger: whatever fails *)
(* in between and whichever session saves last, no table has the agent's   *)
(* entry of a call without the metric of that call.                        *)
THEOREM MetricsComeFirst == Spec => []EveryEntryHasItsMetric
  <1>1. LedgerInv => EveryEntryHasItsMetric
    BY DEF LedgerInv, Sound, SoundAt, EveryEntryHasItsMetric, EntriesHaveMetrics
  <1>2. QED
    BY <1>1, LedgerInvariant, PTL

(* mergeTokenLedger refuses entries of another task: the calls whose       *)
(* entries a ledger has were made for its task, or for none.               *)
THEOREM TasksStayApart == Spec => []OneTaskPerRun
  <1>1. LedgerInv => OneTaskPerRun
    BY DEF LedgerInv, Sound, SoundAt, OneTaskPerRun, OneTask
  <1>2. QED
    BY <1>1, LedgerInvariant, PTL

(* A call of record_run that was answered with success, and that no other  *)
(* session was open with, stays recorded: later calls, failed saves,       *)
(* timeouts and crashes lose neither its entries nor what it has known.    *)
THEOREM AcknowledgedCallsStay == Spec => []AcknowledgedIsRecorded
  <1>1. LedgerInv => AcknowledgedIsRecorded
    BY DEF LedgerInv, KeptByAll, Acknowledged, Kept, KeptOf, AcknowledgedIsRecorded, Recording
  <1>2. QED
    BY <1>1, LedgerInvariant, PTL

-----------------------------------------------------------------------------
(* What a step does to the ledgers.  Calls go on and keep their reports.   *)
Steady ==
  /\ disturbed \subseteq disturbed'
  /\ \A b \in Calls : stage[b] # "idle" =>
       /\ report'[b] = report[b] /\ stage'[b] # "idle"
       /\ stage[b] = "done" => stage'[b] = "done"

(* Most steps only pass on ledgers that the file or an open session has.   *)
Present(ledgers) == ledgers = saved.ledgers \/ \E c \in Calls : Open(c) /\ ledgers = view[c].ledgers
MergesNothing ==
  /\ Present(saved'.ledgers) /\ \A b \in Calls : Open(b)' => Present(view'[b].ledgers)
  /\ replayed' = replayed

(* One saves the ledgers of its session, with its own report merged in.    *)
MergesReport(c) ==
  LET run == report[c].run
      merged == Merged(view[c].ledgers[run].entries, LedgerEntries(c)) IN
  /\ Open(c) /\ report[c] \in Reports /\ view[c].ledgers[run].entries \in Entries
  /\ merged \in Entries /\ saved'.ledgers[run].entries = merged
  /\ \A r \in Runs \ {run} : saved'.ledgers[r] = view[c].ledgers[r]
  /\ stage'[c] = "done" /\ \A b \in Calls : Open(b)' => Open(b) /\ view'[b] = view[b]
  /\ replayed' = [replayed EXCEPT ![run] = Replay(@, LedgerEntries(c))]
  /\ report' = report /\ disturbed' = disturbed

Effect == Steady /\ (MergesNothing \/ \E c \in Calls : MergesReport(c))

LEMMA CallEffect ==
  ASSUME LedgerInv, NEW c \in Calls, Call(c)
  PROVE  Effect
  <1>1. PICK q \in Reports \cup {None} : report' = [report EXCEPT ![c] = q]
    BY DEF Call
  <1>2. /\ stage[c] = "idle" /\ saved' = saved /\ replayed' = replayed /\ disturbed' = disturbed
        /\ stage' = [stage EXCEPT ![c] = "load"] /\ view' = [view EXCEPT ![c] = NoRecords]
    BY DEF Call, GoOn, history
  <1>3. stage'[c] = "load"
    BY <1>2 DEF LedgerInv, Typed
  <1>4. \A b \in Calls \ {c} : stage'[b] = stage[b] /\ report'[b] = report[b] /\ view'[b] = view[b]
    BY <1>1, <1>2 DEF LedgerInv, Typed
  <1>5. Steady
    BY <1>2, <1>4 DEF Steady
  <1>6. MergesNothing
    BY <1>2, <1>3, <1>4 DEF MergesNothing, Open, Present
  <1>7. QED
    BY <1>5, <1>6 DEF Effect

LEMMA LoadEffect ==
  ASSUME LedgerInv, NEW c \in Calls, Load(c)
  PROVE  Effect
  <1>1. /\ stage' = [stage EXCEPT ![c] = "initialize"] /\ view' = [view EXCEPT ![c] = saved]
        /\ stage[c] = "load" /\ UNCHANGED <<saved, report, replayed>>
        /\ disturbed \subseteq disturbed'
    BY DEF Load, GoOn
  <1>2. stage'[c] = "initialize" /\ view'[c] = saved
    BY <1>1 DEF LedgerInv, Typed
  <1>3. \A b \in Calls \ {c} : stage'[b] = stage[b] /\ view'[b] = view[b]
    BY <1>1 DEF LedgerInv, Typed
  <1>4. Steady
    BY <1>1, <1>2, <1>3 DEF Steady
  <1>5. MergesNothing
    BY <1>1, <1>2, <1>3 DEF MergesNothing, Open, Present
  <1>6. QED
    BY <1>4, <1>5 DEF Effect

(* A save of the ledgers that the session has loaded, or one that fails.   *)
LEMMA SaveEffect ==
  ASSUME LedgerInv, NEW c \in Calls, Open(c), report' = report, disturbed' = disturbed,
         replayed' = replayed,
         NEW table, table.ledgers = view[c].ledgers, saved' \in {saved, table},
         \/ \E answer : Done(c, answer)
         \/ \E next \in {"set_metric", "set_ledger"} : GoOn(c, next, table)
  PROVE  Effect
  <1>1. \/ stage'[c] = "done"
        \/ stage'[c] \in {"set_metric", "set_ledger"} /\ view'[c] = table
    BY DEF LedgerInv, Typed, Done, GoOn
  <1>2. \A b \in Calls \ {c} : stage'[b] = stage[b] /\ view'[b] = view[b]
    BY DEF LedgerInv, Typed, Done, GoOn
  <1>3. Steady
    BY <1>1, <1>2 DEF Steady, Open
  <1>4. Present(view[c].ledgers) /\ Present(saved.ledgers)
    BY DEF Present
  <1>5. \A b \in Calls : Open(b)' => Present(view'[b].ledgers)
    BY <1>1, <1>2, <1>4 DEF Open, Present
  <1>6. MergesNothing
    BY <1>4, <1>5 DEF MergesNothing
  <1>7. QED
    BY <1>3, <1>6 DEF Effect

LEMMA InitializeEffect ==
  ASSUME LedgerInv, NEW c \in Calls, Initialize(c)
  PROVE  Effect
  <1>1. Open(c)
    BY DEF Initialize, Open
  <1>2. report' = report /\ disturbed' = disturbed /\ replayed' = replayed /\ saved' \in {saved, view[c]}
    BY DEF Initialize, Save
  <1>3. (\E answer : Done(c, answer)) \/ GoOn(c, "set_metric", view[c])
    BY DEF Initialize, Save
  <1>4. QED
    BY <1>1, <1>2, <1>3, SaveEffect

LEMMA SetMetricEffect ==
  ASSUME LedgerInv, NEW c \in Calls, SetMetric(c)
  PROVE  Effect
  <1>. DEFINE table == [view[c] EXCEPT !.metrics = @ \cup {c}]
  <1>1. Open(c) /\ view[c] \in Tables
    BY DEF SetMetric, Open, LedgerInv, Typed
  <1>2. table.ledgers = view[c].ledgers
    BY <1>1 DEF Tables
  <1>3. report' = report /\ disturbed' = disturbed /\ replayed' = replayed /\ saved' \in {saved, table}
    BY DEF SetMetric, Save
  <1>4. Done(c, "failed") \/ GoOn(c, "set_ledger", table)
    BY DEF SetMetric, Save
  <1>. HIDE DEF table
  <1>5. QED
    BY <1>1, <1>2, <1>3, <1>4, SaveEffect

LEMMA SetLedgerEffect ==
  ASSUME LedgerInv, NEW c \in Calls, SetLedger(c)
  PROVE  Effect
  <1>. DEFINE r == report[c].run
              task == report[c].task
              existing == view[c].ledgers[r]
              new == LedgerEntries(c)
              entries == Merged(existing.entries, new)
              ledger == [task |-> MergedTask(existing, task), entries |-> entries]
              table == [view[c] EXCEPT !.ledgers[r] = ledger]
              replay == [replayed EXCEPT ![r] = Replay(@, new)]
  <1>1. Open(c) /\ view[c] \in Tables /\ report[c] # None
    BY DEF LedgerInv, Typed, SetLedger, Open, Staged
  <1>2. report[c] \in Reports /\ r \in Runs
    BY <1>1, ReportsAssumption DEF LedgerInv, Typed
  <1>3. existing.entries \in Entries
    BY <1>1, <1>2 DEF Tables, Ledgers
  <1>4. new \in NewEntries
    BY <1>2, ReportedEntries
  <1>5. /\ report' = report /\ disturbed' = disturbed
        /\ \/ saved' = saved /\ replayed' = replayed
           \/ ~TooMany(entries) /\ saved' = table /\ replayed' = replay
    BY DEF SetLedger, Save, history
  <1>6. \E answer : Done(c, answer)
    BY DEF SetLedger, Save
  <1>7. CASE saved' = saved /\ replayed' = replayed
    <2>. HIDE DEF r, task, existing, new, entries, ledger, table, replay
    <2>1. QED
      BY <1>1, <1>5, <1>6, <1>7, SaveEffect
  <1>8. CASE ~TooMany(entries) /\ saved' = table /\ replayed' = replay
    <2>1. entries \in Entries
      BY <1>3, <1>4, <1>8, MergedType
    <2>2. stage'[c] = "done" /\ \A b \in Calls \ {c} : stage'[b] = stage[b] /\ view'[b] = view[b]
      BY <1>6 DEF LedgerInv, Typed, Done
    <2>3. /\ table.ledgers[r] = ledger
          /\ \A q \in Runs \ {r} : table.ledgers[q] = view[c].ledgers[q]
      BY <1>1, <1>2 DEF Tables
    <2>4. ledger.entries = entries
      OBVIOUS
    <2>. HIDE DEF ledger, table, entries
    <2>5. \A b \in Calls : Open(b)' => Open(b) /\ view'[b] = view[b]
      BY <2>2 DEF Open
    <2>6. MergesReport(c)
      BY <1>1, <1>2, <1>3, <1>5, <1>8, <2>1, <2>2, <2>3, <2>4, <2>5 DEF MergesReport, entries
    <2>7. Steady
      BY <1>1, <1>5, <2>2 DEF Steady, Open
    <2>8. QED
      BY <2>6, <2>7 DEF Effect
  <1>9. QED
    BY <1>5, <1>7, <1>8

LEMMA CrashEffect ==
  ASSUME LedgerInv, Crash
  PROVE  Effect
  <1>1. /\ stage' = [c \in Calls |-> IF stage[c] = "idle" THEN "idle" ELSE "done"]
        /\ UNCHANGED <<saved, report, replayed, disturbed>>
    BY DEF Crash, history
  <1>2. \A b \in Calls : stage'[b] \in {"idle", "done"} /\ (stage[b] # "idle" => stage'[b] = "done")
    BY <1>1
  <1>3. Steady
    BY <1>1, <1>2 DEF Steady
  <1>4. MergesNothing
    BY <1>1, <1>2 DEF MergesNothing, Open, Present
  <1>5. QED
    BY <1>3, <1>4 DEF Effect

LEMMA StepEffect ==
  ASSUME LedgerInv, [Next]_vars
  PROVE  Effect
  <1>1. ASSUME UNCHANGED <<saved, view, stage, report, replayed, disturbed>>
        PROVE  Effect
    BY <1>1 DEF Effect, Steady, MergesNothing, Open, Present
  <1>2. CASE UNCHANGED vars
    BY <1>1, <1>2 DEF vars
  <1>3. ASSUME NEW c \in Calls, Call(c) \/ CallStep(c)
        PROVE  Effect
    BY <1>3, CallEffect, LoadEffect, InitializeEffect, SetMetricEffect, SetLedgerEffect DEF CallStep
  <1>4. ASSUME NEW c \in Calls, Timeout(c)
        PROVE  Effect
    BY <1>1, <1>4 DEF Timeout, history
  <1>5. QED
    BY <1>2, <1>3, <1>4, CrashEffect DEF Next

-----------------------------------------------------------------------------
(* Replaying.  As long as no session was open with one of a run's calls,   *)
(* the file and the copies of all open sessions have the same ledger of    *)
(* it, the one that all the merges give.                                   *)
Undisturbed(r) == \A c \in disturbed : Recording(c) => report[c].run # r

ReplayInv ==
  /\ replayed = [r \in Runs |-> replayed[r]]
  /\ \A r \in Runs : Undisturbed(r) =>
       /\ saved.ledgers[r].entries = replayed[r]
       /\ \A c \in Calls : Open(c) => view[c].ledgers[r].entries = replayed[r]

LEMMA ReplayInit == Init => ReplayInv
  BY DEF Init, ReplayInv, NoRecords, NoLedger, Open

LEMMA ReplayNext ==
  ASSUME LedgerInv, ReplayInv, [Next]_vars
  PROVE  ReplayInv'
  <1>1. Effect
    BY StepEffect
  <1>2. ASSUME NEW r \in Runs, Undisturbed(r)'
        PROVE  Undisturbed(r)
    <2>1. SUFFICES ASSUME NEW c \in disturbed, Recording(c)
                   PROVE  report[c].run # r
      BY DEF Undisturbed
    <2>2. c \in disturbed' /\ Recording(c)' /\ report'[c] = report[c]
      BY <1>1, <2>1 DEF LedgerInv, Typed, Effect, Steady, Recording
    <2>3. QED
      BY <1>2, <2>2 DEF Undisturbed
  <1>3. CASE MergesNothing
    <2>1. ASSUME NEW r \in Runs, Undisturbed(r), NEW ledgers, Present(ledgers)
          PROVE  ledgers[r].entries = replayed[r]
      BY <2>1 DEF ReplayInv, Present
    <2>2. QED
      BY <1>2, <1>3, <2>1 DEF ReplayInv, MergesNothing
  <1>4. ASSUME NEW c \in Calls, MergesReport(c)
        PROVE  ReplayInv'
    <2>. DEFINE run == report[c].run
                entries == view[c].ledgers[run].entries
                new == LedgerEntries(c)
    <2>1. /\ Open(c) /\ report[c] \in Reports /\ entries \in Entries
          /\ saved'.ledgers[run].entries = Merged(entries, new)
          /\ \A r \in Runs \ {run} : saved'.ledgers[r] = view[c].ledgers[r]
          /\ stage'[c] = "done" /\ \A b \in Calls : Open(b)' => Open(b) /\ view'[b] = view[b]
          /\ replayed' = [replayed EXCEPT ![run] = Replay(@, new)]
          /\ report' = report /\ disturbed' = disturbed
      BY <1>4 DEF MergesReport
    <2>2. run \in Runs /\ report[c] # None /\ stage[c] # "idle"
      BY <2>1, ReportsAssumption, NoneAssumption DEF Open
    <2>3. new \in NewEntries
      BY <2>1, ReportedEntries
    <2>4. /\ replayed' = [r \in Runs |-> replayed'[r]] /\ replayed'[run] = Replay(replayed[run], new)
          /\ \A r \in Runs \ {run} : replayed'[r] = replayed[r]
      BY <2>1, <2>2 DEF ReplayInv
    <2>. HIDE DEF new
    <2>5. SUFFICES ASSUME NEW r \in Runs, Undisturbed(r)'
                   PROVE  /\ saved'.ledgers[r].entries = replayed'[r]
                          /\ \A d \in Calls : Open(d)' => view'[d].ledgers[r].entries = replayed'[r]
      BY <2>4 DEF ReplayInv
    <2>6. Undisturbed(r) /\ \A d \in Calls : Open(d) => view[d].ledgers[r].entries = replayed[r]
      BY <1>2, <2>5 DEF ReplayInv
    <2>7. CASE r # run
      BY <2>1, <2>4, <2>6, <2>7
    <2>8. CASE r = run
      <3>1. c \notin disturbed
        BY <2>2, <2>6, <2>8 DEF Undisturbed, Recording
      <3>2. \A d \in Calls : Open(d)' => d # c
        BY <2>1 DEF Open
      <3>3. \A d \in Calls : ~Open(d)'
        BY <2>1, <3>1, <3>2 DEF LedgerInv, Apart
      <3>4. replayed[run] = entries
        BY <2>1, <2>6, <2>8
      <3>5. entries = [i \in DOMAIN entries |-> entries[i]]
        BY <2>1, EntriesType
      <3>. HIDE DEF entries
      <3>6. Replay(entries, new) = Merged(entries, new)
        BY <2>3, <3>5, MergeIsLoop
      <3>7. QED
        BY <2>1, <2>4, <2>8, <3>3, <3>4, <3>6
    <2>9. QED
      BY <2>7, <2>8
  <1>5. QED
    BY <1>1, <1>3, <1>4 DEF Effect

(* The ledger of a run whose calls of record_run had the file to           *)
(* themselves is what one merge of everything that was saved for it gives: *)
(* timeouts, failed saves, retries and crashes neither lose an entry nor   *)
(* bring back an older one.                                                *)
THEOREM LedgersAreReplays == Spec => []LedgerIsReplay
  <1>1. Init => ReplayInv
    BY ReplayInit
  <1>2. LedgerInv /\ ReplayInv /\ [Next]_vars => ReplayInv'
    BY ReplayNext
  <1>3. ReplayInv => LedgerIsReplay
    BY DEF ReplayInv, Undisturbed, LedgerIsReplay
  <1>4. QED
    BY <1>1, <1>2, <1>3, LedgerInvariant, PTL DEF Spec

-----------------------------------------------------------------------------
(* Whole reports.  A ledger that merging what these calls told gives, one  *)
(* after the other and each of them once.                                  *)
MergeOf(entries, calls, told) ==
  \E order \in Seq(calls) :
    /\ \A m, n \in DOMAIN order : order[m] = order[n] => m = n
    /\ \E after \in [0 .. Len(order) -> Entries] :
         /\ after[0] = <<>> /\ after[Len(order)] = entries
         /\ \A n \in DOMAIN order : after[n] = Merged(after[n - 1], told[order[n]])

(* The calls of record_run that have come to an end, for a run.            *)
Ended(r) == {c \in Calls : stage[c] = "done" /\ report[c] # None /\ report[c].run = r}
Told == [c \in Calls |-> LedgerEntries(c)]

(* Every ledger, in the file or in a session, is made of whole reports:    *)
(* sessions that overlap may lose what a call has reported, but all of it. *)
WholeReports ==
  \A r \in Runs :
    /\ MergeOf(saved.ledgers[r].entries, Ended(r), Told)
    /\ \A c \in Calls : Open(c) => MergeOf(view[c].ledgers[r].entries, Ended(r), Told)

LEMMA MergeOfNone ==
  ASSUME NEW calls, NEW told
  PROVE  MergeOf(<<>>, calls, told)
  <1>. DEFINE order == <<>>
              after == [n \in 0 .. 0 |-> <<>>]
  <1>1. order \in Seq(calls) /\ Len(order) = 0 /\ DOMAIN order = {}
    OBVIOUS
  <1>2. <<>> \in Entries
    BY NoRecordsType, BoundsAssumption, FS_EmptySet DEF Entries, Small
  <1>3. after \in [0 .. 0 -> Entries] /\ after[0] = <<>>
    BY <1>2
  <1>. HIDE DEF order, after
  <1>4. QED
    BY <1>1, <1>3 DEF MergeOf

LEMMA MergeOfMore ==
  ASSUME NEW entries, NEW calls, NEW told, NEW more, NEW tells, calls \subseteq more,
         \A c \in calls : tells[c] = told[c], MergeOf(entries, calls, told)
  PROVE  MergeOf(entries, more, tells)
  <1>0. PICK order \in Seq(calls) :
          /\ \A m, n \in DOMAIN order : order[m] = order[n] => m = n
          /\ \E after \in [0 .. Len(order) -> Entries] :
               /\ after[0] = <<>> /\ after[Len(order)] = entries
               /\ \A n \in DOMAIN order : after[n] = Merged(after[n - 1], told[order[n]])
    BY DEF MergeOf
  <1>1. PICK after \in [0 .. Len(order) -> Entries] :
          /\ after[0] = <<>> /\ after[Len(order)] = entries
          /\ \A n \in DOMAIN order : after[n] = Merged(after[n - 1], told[order[n]])
    BY <1>0
  <1>2. \A n \in DOMAIN order : order[n] \in calls
    BY Elements
  <1>3. order \in Seq(more)
    OBVIOUS
  <1>4. \A n \in DOMAIN order : after[n] = Merged(after[n - 1], tells[order[n]])
    BY <1>1, <1>2
  <1>5. QED
    BY <1>0, <1>1, <1>3, <1>4 DEF MergeOf

LEMMA MergeOfOneMore ==
  ASSUME NEW entries, NEW calls, NEW told, NEW c, c \notin calls, MergeOf(entries, calls, told),
         Merged(entries, told[c]) \in Entries
  PROVE  MergeOf(Merged(entries, told[c]), calls \cup {c}, told)
  <1>. DEFINE more == calls \cup {c}
              merged == Merged(entries, told[c])
  <1>0. PICK order \in Seq(calls) :
          /\ \A m, n \in DOMAIN order : order[m] = order[n] => m = n
          /\ \E after \in [0 .. Len(order) -> Entries] :
               /\ after[0] = <<>> /\ after[Len(order)] = entries
               /\ \A n \in DOMAIN order : after[n] = Merged(after[n - 1], told[order[n]])
    BY DEF MergeOf
  <1>1. PICK after \in [0 .. Len(order) -> Entries] :
          /\ after[0] = <<>> /\ after[Len(order)] = entries
          /\ \A n \in DOMAIN order : after[n] = Merged(after[n - 1], told[order[n]])
    BY <1>0
  <1>. DEFINE N == Len(order)
              next == Append(order, c)
              then == [n \in 0 .. N + 1 |-> IF n = N + 1 THEN merged ELSE after[n]]
  <1>2. N \in Nat /\ DOMAIN order = 1 .. N /\ \A n \in 1 .. N : order[n] \in calls
    BY Elements
  <1>3. /\ next \in Seq(more) /\ Len(next) = N + 1 /\ DOMAIN next = 1 .. N + 1
        /\ next[N + 1] = c /\ \A n \in 1 .. N : next[n] = order[n]
    <2>1. order \in Seq(more) /\ c \in more
      OBVIOUS
    <2>2. QED
      BY <1>2, <2>1
  <1>. HIDE DEF next, more, merged
  <1>4. merged \in Entries
    BY DEF merged
  <1>5. \A n \in 0 .. N + 1 : n # N + 1 => n \in 0 .. N
    BY <1>2
  <1>6. then \in [0 .. N + 1 -> Entries]
    BY <1>1, <1>4, <1>5
  <1>7. then[0] = <<>> /\ then[N + 1] = merged /\ \A n \in 0 .. N : then[n] = after[n]
    BY <1>1, <1>2
  <1>. HIDE DEF then
  <1>8. \A m, n \in DOMAIN next : next[m] = next[n] => m = n
    <2>1. \A n \in 1 .. N + 1 : n = N + 1 \/ n \in 1 .. N
      BY <1>2
    <2>2. QED
      BY <1>0, <1>2, <1>3, <2>1
  <1>9. ASSUME NEW n \in DOMAIN next
        PROVE  then[n] = Merged(then[n - 1], told[next[n]])
    <2>1. CASE n = N + 1
      <3>1. (N + 1) - 1 = N /\ N \in 0 .. N
        BY <1>2
      <3>2. QED
        BY <1>1, <1>3, <1>7, <2>1, <3>1 DEF merged
    <2>2. CASE n # N + 1
      <3>1. n \in 1 .. N /\ n \in 0 .. N /\ n - 1 \in 0 .. N
        BY <1>2, <1>3, <2>2
      <3>2. QED
        BY <1>1, <1>2, <1>3, <1>7, <3>1
    <2>3. QED
      BY <2>1, <2>2
  <1>10. MergeOf(merged, more, told)
    <2>1. then \in [0 .. Len(next) -> Entries] /\ then[0] = <<>> /\ then[Len(next)] = merged
      BY <1>3, <1>6, <1>7
    <2>2. next \in Seq(more)
      BY <1>3
    <2>3. QED
      BY <1>8, <1>9, <2>1, <2>2 DEF MergeOf
  <1>11. QED
    BY <1>10 DEF merged, more

LEMMA WholeInit == Init => WholeReports
  <1>. SUFFICES ASSUME Init
                PROVE  WholeReports
    OBVIOUS
  <1>1. \A r \in Runs : saved.ledgers[r].entries = <<>>
    BY DEF Init, NoRecords, NoLedger
  <1>2. \A c \in Calls : ~Open(c)
    BY DEF Init, Open
  <1>3. QED
    BY <1>1, <1>2, MergeOfNone DEF WholeReports

LEMMA WholeNext ==
  ASSUME LedgerInv, WholeReports, [Next]_vars
  PROVE  WholeReports'
  <1>1. Effect
    BY StepEffect
  <1>2. \A b \in Calls : stage[b] = "done" => stage'[b] = "done" /\ report'[b] = report[b]
    BY <1>1 DEF Effect, Steady
  <1>3. \A r \in Runs : Ended(r) \subseteq Ended(r)'
    BY <1>2 DEF Ended
  <1>4. ASSUME NEW r \in Runs, NEW c \in Ended(r)
        PROVE  Told'[c] = Told[c]
    <2>1. c \in Calls /\ report'[c] = report[c]
      BY <1>2 DEF Ended
    <2>2. LedgerEntries(c)' = LedgerEntries(c)
      BY <2>1 DEF LedgerEntries
    <2>3. QED
      BY <2>1, <2>2 DEF Told
  <1>5. ASSUME NEW r \in Runs, NEW entries, MergeOf(entries, Ended(r), Told)
        PROVE  MergeOf(entries, Ended(r)', Told')
    BY <1>3, <1>4, <1>5, MergeOfMore
  <1>6. CASE MergesNothing
    <2>1. ASSUME NEW r \in Runs, NEW ledgers, Present(ledgers)
          PROVE  MergeOf(ledgers[r].entries, Ended(r), Told)
      BY <2>1 DEF WholeReports, Present
    <2>2. QED
      BY <1>5, <1>6, <2>1 DEF WholeReports, MergesNothing
  <1>7. ASSUME NEW c \in Calls, MergesReport(c)
        PROVE  WholeReports'
    <2>0. report[c] \in Reports /\ report[c].run \in Runs
      BY <1>7, ReportsAssumption DEF MergesReport
    <2>. PICK run \in Runs : run = report[c].run
      BY <2>0
    <2>. DEFINE entries == view[c].ledgers[run].entries
                merged == Merged(entries, LedgerEntries(c))
    <2>1. /\ Open(c) /\ report[c] \in Reports
          /\ merged \in Entries /\ saved'.ledgers[run].entries = merged
          /\ \A r \in Runs \ {run} : saved'.ledgers[r] = view[c].ledgers[r]
          /\ stage'[c] = "done" /\ \A b \in Calls : Open(b)' => Open(b) /\ view'[b] = view[b]
          /\ report' = report
      BY <1>7 DEF MergesReport
    <2>2. report[c] # None /\ c \notin Ended(run) /\ c \in Ended(run)'
      BY <2>1, NoneAssumption DEF Open, Ended
    <2>3. Told[c] = LedgerEntries(c) /\ Told' = Told
      BY <2>1 DEF Told, LedgerEntries
    <2>4. MergeOf(entries, Ended(run), Told)
      BY <2>1, <2>2 DEF WholeReports
    <2>. HIDE DEF entries
    <2>5. MergeOf(merged, Ended(run) \cup {c}, Told)
      BY <2>1, <2>2, <2>3, <2>4, MergeOfOneMore
    <2>6. Ended(run) \cup {c} \subseteq Ended(run)'
      BY <1>3, <2>2
    <2>. HIDE DEF merged
    <2>7. MergeOf(merged, Ended(run)', Told)
      BY <2>5, <2>6, MergeOfMore
    <2>8. ASSUME NEW r \in Runs
          PROVE  MergeOf(saved'.ledgers[r].entries, Ended(r)', Told')
      <3>1. CASE r = run
        BY <2>1, <2>3, <2>7, <3>1
      <3>2. CASE r # run
        BY <1>5, <2>1, <3>2 DEF WholeReports
      <3>3. QED
        BY <3>1, <3>2
    <2>9. ASSUME NEW r \in Runs, NEW d \in Calls, Open(d)'
          PROVE  MergeOf(view'[d].ledgers[r].entries, Ended(r)', Told')
      BY <1>5, <2>1, <2>9 DEF WholeReports
    <2>10. QED
      BY <2>8, <2>9 DEF WholeReports
  <1>8. QED
    BY <1>1, <1>6, <1>7 DEF Effect

(* Whichever calls of record_run overlap, fail, time out and die, every    *)
(* ledger is the merge of whole reports of calls of its run that have come *)
(* to an end, each counted once: an overlapping session may lose a report, *)
(* but no part of one, and no ledger has what no call has reported.        *)
THEOREM ReportsAreWhole == Spec => []WholeReports
  <1>1. Init => WholeReports
    BY WholeInit
  <1>2. LedgerInv /\ WholeReports /\ [Next]_vars => WholeReports'
    BY WholeNext
  <1>3. QED
    BY <1>1, <1>2, LedgerInvariant, PTL DEF Spec
=============================================================================
