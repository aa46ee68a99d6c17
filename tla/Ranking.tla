------------------------------- MODULE Ranking -------------------------------
(***************************************************************************)
(* What a task asks for and which files it is about: assessTask of         *)
(* packages/core/src/task-analysis, rankContext and the signals of         *)
(* packages/core/src/ranking, and the relationships between files that     *)
(* packages/core/src/workspace-analysis adds to what it has found in them. *)
(*                                                                         *)
(* Everything here is a function of a task, an index and an analysis.      *)
(*   a task      what the regular expressions of the code find in it       *)
(*   an index    the content of each file that was found, None for others  *)
(*   an analysis what is known of each file, and of which hash it is       *)
(* Scores are counted in thousandths.  A symbol is one word.               *)
(***************************************************************************)
EXTENDS Integers, Sequences, FiniteSets, SequencesExt, FiniteSetsExt

CONSTANTS
  Order,      \* the paths of the files, in the order of their names
  Kind,       \* kind of each file
  Directory,  \* of each file
  Stem,       \* path of a source or test file without what makes it a test
  Package,    \* name of the package that owns each file, None if none does
  PathWords,  \* words in the path of each file
  Content,    \* contents: what they declare, say and import, and their tokens
  Idf(_, _),  \* weight of a term in so many of so many files
  None

Files == ToSet(Order)
Contents == DOMAIN Content

ASSUME FilesAssumption ==
  /\ Order \in Seq(Files)
  /\ Kind \in [Files -> {"source", "test", "config", "documentation", "generated", "other"}]
  /\ DOMAIN Directory = Files /\ DOMAIN Stem = Files
  /\ DOMAIN Package = Files /\ DOMAIN PathWords = Files
  /\ None \notin Contents
ASSUME ContentAssumption ==
  \A c \in Contents :
    /\ DOMAIN Content[c] = {"symbols", "terms", "imports", "tokens"}
    /\ Content[c].imports \subseteq Files /\ Content[c].tokens \in Nat
ASSUME IdfAssumption ==
  \A n \in 1 .. Cardinality(Files) : \A f \in 0 .. n : Idf(n, f) \in Nat \ {0}

Position(f) == CHOOSE n \in DOMAIN Order : Order[n] = f
Present(index) == {f \in Files : index[f] # None}
NotNone(S) == S \ {None}
Sum(weight, S) == MapThenSumSet(LAMBDA x : weight[x], S)

(* The elements of a sequence that are in a set, in order (filter).        *)
Kept(s, S) ==
  LET kept[n \in 0 .. Len(s)] ==
        IF n = 0 THEN <<>>
        ELSE IF s[n] \in S THEN Append(kept[n - 1], s[n]) ELSE kept[n - 1]
  IN kept[Len(s)]

(* The first element of a set by an order, and all of them in this order.  *)
BestOf(S, before) == CHOOSE f \in S : \A g \in S \ {f} : <<f, g>> \in before
InOrder(S, before) ==
  LET first[n \in 0 .. Cardinality(S)] ==
        IF n = 0 THEN <<>>
        ELSE Append(first[n - 1], BestOf(S \ ToSet(first[n - 1]), before))
  IN first[Cardinality(S)]

-----------------------------------------------------------------------------
(* What analyzeFile finds in a content, under the hash of the index; a     *)
(* generated file, or one that cannot be read, is skipped: nothing is      *)
(* known of it.                                                            *)
Skipped(hash) == [hash |-> hash, symbols |-> {}, terms |-> {}, imports |-> {}]
Analyzed(f, content, hash) ==
  IF Kind[f] = "generated" \/ content = None THEN Skipped(hash)
  ELSE [hash |-> hash, symbols |-> Content[content].symbols,
        terms |-> Content[content].terms \cup PathWords[f],
        imports |-> Content[content].imports]

(* addRelationships: imports are resolved against the index at hand.       *)
Dependencies(index, analysis, f) == analysis[f].imports \cap Present(index)

TestTargets(index, analysis, f) ==
  LET sources == {g \in Present(index) : Kind[g] = "source"}
      imported == Dependencies(index, analysis, f) \cap sources IN
  IF Kind[f] # "test" \/ index[f] = None THEN {}
  ELSE IF imported # {} THEN imported
  ELSE {g \in sources : Stem[g] = Stem[f]}

(* calculateDocumentFrequencies.                                           *)
Frequency(index, analysis, word) ==
  Cardinality({f \in Present(index) : word \in analysis[f].terms})

-----------------------------------------------------------------------------
(* extractTaskHints.  The paths that the expression finds (paths) may name *)
(* files that are not there; a file whose path occurs in the task          *)
(* (mentioned) is only found if it is there.                               *)
Hints(task, index, analysis) ==
  LET known == UNION {analysis[f].symbols : f \in Present(index)} IN
  [paths |-> task.paths \cup (task.mentioned \cap Present(index)),
   symbols |-> task.symbols \cup (known \cap task.words),
   packages |-> task.packages \cup
     {p \in NotNone({Package[f] : f \in Present(index)}) : p \in task.words}]

HintsOfTask(task) == [paths |-> task.paths, symbols |-> task.symbols, packages |-> task.packages]

(* estimateWorkspaceScope: the files the hints are about and the ones that *)
(* are linked to them.                                                     *)
Scope(hints, index, analysis) ==
  LET direct == hints.paths \cup
        {f \in Present(index) : analysis[f].symbols \cap hints.symbols # {}}
      linked == {f \in Present(index) :
        LET needs == Dependencies(index, analysis, f) IN
        \/ needs \cap direct # {}
        \/ TestTargets(index, analysis, f) \cap direct # {}
        \/ f \in direct /\ needs # {}} IN
  Cardinality(direct \cup linked \cup UNION {Dependencies(index, analysis, f) : f \in linked})

(* Without a workspace, every hint counts.                                 *)
(* Mutant: the symbols do not.                                             *)
ScopeOfPaths(task) == Cardinality(task.paths) + task.tests

ScopeOfTask(task) == Cardinality(task.paths) + Cardinality(task.symbols) + task.tests

(* classifyComplexity.  The length is the number of words in four classes. *)
Complexity(task, hints, scope) ==
  CASE task.operation \in {"migrate", "refactor"} \/ scope >= 12 -> "large"
    [] OTHER ->
  CASE scope >= 3 \/ hints.packages # {} \/ Cardinality(hints.paths) >= 2 -> "medium"
    [] OTHER ->
  CASE scope >= 1 \/ task.operation # "unknown" -> "small"
    [] OTHER -> <<"trivial", "small", "medium", "large">>[task.length]

(* classifyRisk.                                                           *)
Risk(task, scope) ==
  CASE task.risk = "high" \/ (task.operation = "remove" /\ scope > 0) -> "high"
    [] OTHER ->
  CASE task.risk = "medium" \/ task.operation \in {"migrate", "refactor"}
       \/ task.errors \/ scope >= 4 -> "medium"
    [] OTHER -> "low"

(* recommendationMode and tokenBudgetForMode.                              *)
ModeOf(complexity, risk) ==
  CASE risk = "high" \/ complexity = "large" -> "context_pack_with_summaries"
    [] OTHER ->
  CASE complexity = "medium" -> "context_pack"
    [] complexity = "small" -> "light"
    [] complexity = "trivial" -> "skip"

TokenBudget == [skip |-> 1000, light |-> 3000, context_pack |-> 8000,
                context_pack_with_summaries |-> 14000]

Assessed(task, hints, scope) ==
  LET complexity == Complexity(task, hints, scope) risk == Risk(task, scope) IN
  [complexity |-> complexity, risk |-> risk, hints |-> hints, mode |-> ModeOf(complexity, risk)]

Assessment(task, index, analysis) ==
  LET hints == Hints(task, index, analysis) IN
  Assessed(task, hints, Scope(hints, index, analysis))

AssessmentOfTask(task) == Assessed(task, HintsOfTask(task), ScopeOfTask(task))

-----------------------------------------------------------------------------
(* The signals, each from 0 to 1000.                                       *)
Named(task, f) == f \in task.paths \/ f \in task.names
PathMatches(task, f) == task.words \cap PathWords[f]
SymbolsMatch(task, hints, analysis, f) ==
  analysis[f].symbols \cap (task.words \cup hints.symbols) # {}

Lexical(task, hints, analysis, f) ==
  CASE Named(task, f) \/ SymbolsMatch(task, hints, analysis, f) -> 1000
    [] OTHER ->
  IF task.words = {} THEN 0
  ELSE (1000 * Cardinality(PathMatches(task, f))) \div Cardinality(task.words)

(* bm25Score: which part of the weight of the task's words a document has. *)
Matched(task, index, analysis, document) ==
  LET n == Cardinality(Present(index))
      weight == [word \in task.words |-> Idf(n, Frequency(index, analysis, word))] IN
  IF task.words = {} THEN 0
  ELSE (1000 * Sum(weight, task.words \cap document)) \div Sum(weight, task.words)

Bm25(task, index, analysis, f) ==
  (25 * Matched(task, index, analysis, PathWords[f])
   + 40 * Matched(task, index, analysis, analysis[f].symbols)
   + 35 * Matched(task, index, analysis, analysis[f].terms)) \div 100

(* The relations to the anchors, the files that the task is about by       *)
(* themselves.  Without anchors, tests and sources pair up by their stems. *)
Dependency(index, analysis, anchors, f) ==
  IF \/ Dependencies(index, analysis, f) \cap anchors # {}
     \/ \E a \in anchors : f \in Dependencies(index, analysis, a)
  THEN 1000 ELSE 0

Paired(index, f) ==
  \E g \in Present(index) : {Kind[f], Kind[g]} = {"source", "test"} /\ Stem[g] = Stem[f]

TestRelation(index, analysis, anchors, f) ==
  CASE anchors = {} -> IF Paired(index, f) THEN 800 ELSE 0
    [] OTHER -> IF \/ TestTargets(index, analysis, f) \cap anchors # {}
                   \/ \E a \in anchors : f \in TestTargets(index, analysis, a)
                THEN 1000 ELSE 0

Ownership(task, anchors, f) ==
  CASE Package[f] \in task.words -> 1000
    [] Package[f] \notin task.words /\ Kind[f] = "config"
       /\ \E a \in anchors : Package[a] = Package[f] -> 700
    [] OTHER -> 0

KindScore(task, f) ==
  CASE Kind[f] = "source" -> 650
    [] Kind[f] \in task.kinds -> IF Kind[f] = "test" THEN 1000 ELSE 800
    [] OTHER -> 0

Tokens(index, f) == Content[index[f]].tokens
TotalTokens(index, S) == Sum([f \in Present(index) |-> Tokens(index, f)], S)
CostScore(index, f) == (1000 * 1000) \div (1000 + Tokens(index, f))

(* createCandidate: the weighted sum.  How long ago a file was modified is *)
(* left out; a file that the caller lists as changed counts as recent.     *)
Score(task, hints, index, analysis, recent, anchors, f) ==
  (23 * Lexical(task, hints, analysis, f) + 27 * Bm25(task, index, analysis, f)
   + 16 * Dependency(index, analysis, anchors, f)
   + 10 * TestRelation(index, analysis, anchors, f)
   + 6 * Ownership(task, anchors, f) + 8 * KindScore(task, f)
   + 4 * (IF f \in recent THEN 1000 ELSE 0) + 6 * CostScore(index, f)) \div 100

Rankable(index) == {f \in Present(index) : Kind[f] # "generated"}

Anchors(task, hints, index, analysis) ==
  {f \in Rankable(index) : \/ Lexical(task, hints, analysis, f) = 1000
                           \/ Bm25(task, index, analysis, f) >= 450}

-----------------------------------------------------------------------------
(* compareCandidates: by score, then by path.                              *)
Better(scores, f, g) ==
  \/ scores[f] > scores[g]
  \/ scores[f] = scores[g] /\ Position(f) < Position(g)

(* compareSelectionCandidates: by the score per cost, less for a directory *)
(* that has been selected from.                                            *)
Cost(index, chosen, f) ==
  (1000 + Tokens(index, f))
    * (100 + 35 * Cardinality({g \in chosen : Directory[g] = Directory[f]}))

Preferred(index, scores, chosen, f, g) ==
  LET left == scores[f] * Cost(index, chosen, g)
      right == scores[g] * Cost(index, chosen, f) IN
  left > right \/ (left = right /\ Better(scores, f, g))

ByScore(index, scores) ==
  {p \in Rankable(index) \X Rankable(index) : Better(scores, p[1], p[2])}

ByValue(index, scores, chosen) ==
  {p \in Rankable(index) \X Rankable(index) : Preferred(index, scores, chosen, p[1], p[2])}

(* The order of what is selected: what the task names comes first.         *)
NamedFirst(index, scores, named) ==
  {p \in Rankable(index) \X Rankable(index) :
     \/ p[1] \in named /\ p[2] \notin named
     \/ /\ p[1] \in named <=> p[2] \in named
        /\ Preferred(index, scores, {}, p[1], p[2])}

(* Mutant: what the task names has to reach the threshold, too.            *)
SelectedByThreshold(index, scores, explicit, limit, threshold) ==
  LET pick[n \in 0 .. limit] ==
        IF n = 0 THEN {}
        ELSE LET open == {f \in Rankable(index) \ pick[n - 1] : scores[f] >= threshold} IN
             IF open = {} THEN pick[n - 1]
             ELSE pick[n - 1] \cup
               {BestOf(open, ByValue(index, scores, pick[n - 1]))}
  IN pick[limit]

(* selectDiverseCandidates: what the task names comes first, whatever its  *)
(* score; then the best one that is left, one after the other.             *)
Selected(index, scores, explicit, limit, threshold) ==
  LET named == Rankable(index) \cap explicit
      pick[n \in 0 .. limit] ==
        IF n = 0 THEN {}
        ELSE LET done == pick[n - 1]
                 first == named \ done
                 open == {f \in Rankable(index) \ done : scores[f] >= threshold} IN
             CASE first # {} -> done \cup {BestOf(first, ByScore(index, scores))}
               [] first = {} /\ open # {} -> done \cup {BestOf(open, ByValue(index, scores, done))}
               [] OTHER -> done
  IN pick[limit]

(* selectWithinContentBudget: a file that does not fit is passed over.     *)
WithinBudget(index, files, budget) ==
  LET fits[n \in 0 .. Len(files)] ==
        IF n = 0 THEN <<>>
        ELSE IF TotalTokens(index, ToSet(fits[n - 1])) + Tokens(index, files[n]) <= budget
             THEN Append(fits[n - 1], files[n]) ELSE fits[n - 1]
  IN fits[Len(files)]

(* rankContext: the selected candidates and the others, each in order.     *)
RankContext(task, hints, index, analysis, options) ==
  LET anchors == Anchors(task, hints, index, analysis)
      candidates == {[file |-> f, score |->
                       Score(task, hints, index, analysis, options.recent, anchors, f)] :
                     f \in Rankable(index)}
      scores == [f \in Rankable(index) |-> (CHOOSE c \in candidates : c.file = f).score]
      chosen == Selected(index, scores, hints.paths, options.limit, options.threshold) IN
  [selected |-> InOrder(chosen, NamedFirst(index, scores, hints.paths)),
   excluded |-> InOrder(Rankable(index) \ chosen, ByScore(index, scores)),
   scores |-> scores]
=============================================================================
