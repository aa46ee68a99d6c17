--------------------------- MODULE ContextPaging ---------------------------
(***************************************************************************)
(* Context packs and their expansion pages, for one task in one workspace: *)
(* the tools build_context_pack and expand_context of                      *)
(* packages/mcp-server/src/tools.ts over packages/core/src/context-pack.   *)
(*                                                                         *)
(* A build ranks the candidate files, or takes the ranking that an earlier *)
(* build of the same task has left in the cache, selects the ones that fit *)
(* a content budget, shows the first few of the others, and gives out a    *)
(* cursor for the rest.  The evidence that the pages are cut from is kept  *)
(* in the memory of the server, for the last builds, and in the cache.     *)
(*                                                                         *)
(* A candidate is its rank.  The selected candidates of a ranking come     *)
(* before the others, and a list is in the order of the ranks unless it is *)
(* written as a sequence.  The cache key of a ranking is made of the task, *)
(* the contents of the workspace and the ranking options: the one key of   *)
(* this module.  The budgets and the fallback limit are not part of it.    *)
(***************************************************************************)
EXTENDS Naturals, Sequences, SequencesExt

CONSTANTS
  Builds,          \* build_context_pack calls, and the packs they make
  Count,           \* number of candidates
  Sizes,           \* estimated tokens that a candidate may have
  ContentBudgets,  \* values of recommendedContentTokenBudget
  FallbackLimits,  \* values of fallbackLimit
  PageLimits,      \* values of the limit of expand_context
  MaxRankings,     \* MAX_IN_MEMORY_RANKINGS
  None

Ranks == 1 .. Count

ASSUME PagingAssumption ==
  /\ Count \in Nat /\ MaxRankings \in Nat
  /\ Sizes \cup ContentBudgets \cup FallbackLimits \cup PageLimits \subseteq Nat
  /\ None \notin 0 .. Count /\ \A R \in SUBSET Ranks : R # None

VARIABLES
  tokens,     \* estimatedTokens of each candidate
  selected,   \* the candidates that rankContext selects
  cachePath,  \* whether the server was started with a cache
  saved,      \* the rankings in the database file
  other,      \* the copy of them that some other session works on
  memory,     \* rankingEvidenceByPackId, the builds in order of insertion
  stage,      \* where each build is
  ranked,     \* the selected part of the ranking each build works with
  copy,       \* the table as the build's own session has it
  pack,       \* the pack of each build
  offset,     \* what the client's next cursor of the pack says
  paged,      \* the candidates of the pages read so far
  told,       \* what the client was told of its build
  kept        \* the builds whose evidence has been saved (history)

ranking == <<tokens, selected, cachePath>>
builder == <<stage, ranked, copy, pack>>
client == <<offset, paged, told>>
vars == <<ranking, saved, other, memory, builder, client, kept>>

NoRankings == [packs |-> {}, cached |-> None]
Tables == [packs: SUBSET Builds, cached: {None} \cup SUBSET Ranks]
NoPack == [selected |-> <<>>, shown |-> <<>>]
Stages == {"idle", "build", "open", "save_evidence", "save_cached", "answer", "done"}

TypeOK ==
  /\ tokens \in [Ranks -> Sizes]
  /\ selected \subseteq Ranks
  /\ cachePath \in BOOLEAN
  /\ saved \in Tables /\ other \in Tables
  /\ memory \in Seq(Builds) /\ Len(memory) <= MaxRankings
  /\ stage \in [Builds -> Stages]
  /\ ranked \in [Builds -> SUBSET Ranks]
  /\ copy \in [Builds -> Tables]
  /\ pack \in [Builds -> [selected: Seq(Ranks), shown: Seq(Ranks)]]
  /\ offset \in [Builds -> {None} \cup 0 .. Count]
  /\ paged \in [Builds -> Seq(Ranks)]
  /\ told \in [Builds -> {"nothing", "pack", "error"}]
  /\ kept \subseteq Builds

Init ==
  /\ tokens \in [Ranks -> Sizes]
  /\ \E limit \in 0 .. Count : selected = 1 .. limit
  /\ cachePath \in BOOLEAN
  /\ saved = NoRankings /\ other = NoRankings
  /\ memory = <<>>
  /\ stage = [b \in Builds |-> "idle"]
  /\ ranked = [b \in Builds |-> {}]
  /\ copy = [b \in Builds |-> NoRankings]
  /\ pack = [b \in Builds |-> NoPack]
  /\ offset = [b \in Builds |-> None]
  /\ paged = [b \in Builds |-> <<>>]
  /\ told = [b \in Builds |-> "nothing"]
  /\ kept = {}

Goto(b, next) == stage' = [stage EXCEPT ![b] = next]

(* The call rejects, which nobody hears of after a timeout.                *)
Fail(b) ==
  /\ Goto(b, "done")
  /\ told' = [told EXCEPT ![b] = "error"]

-----------------------------------------------------------------------------
(* The members of a set, in order.                                         *)
InOrder(S) ==
  LET line[n \in 0 .. Count] ==
        IF n = 0 THEN <<>> ELSE IF n \in S THEN Append(line[n - 1], n) ELSE line[n - 1]
  IN line[Count]

(* Each candidate in turn is selected if it still fits.                    *)
WithinContentBudget(S, budget) ==
  LET used[n \in 0 .. Count] ==
        IF n = 0 THEN 0
        ELSE used[n - 1] + IF n \in S /\ used[n - 1] + tokens[n] <= budget
                           THEN tokens[n] ELSE 0
  IN {n \in S : used[n - 1] + tokens[n] <= budget}

(* The packs that a selection and a list of others can end up as: while    *)
(* the serialized pack is over the response budget, the last fallback      *)
(* candidate is dropped, and when there is none left the last selected     *)
(* one is put off.  How long a pack is in tokens is not modelled.          *)
Packs(chosen, others, fallbackLimit) ==
  LET shown == SubSeq(others, 1, IF fallbackLimit < Len(others) THEN fallbackLimit
                                                               ELSE Len(others)) IN
  {[selected |-> chosen, shown |-> SubSeq(shown, 1, n)] : n \in 0 .. Len(shown)}
    \cup {[selected |-> SubSeq(chosen, 1, n), shown |-> <<>>] : n \in 0 .. Len(chosen)}

(* The evidence of a pack lists the candidates that it does not select.    *)
Excluded(p) == InOrder(Ranks \ ToSet(p.selected))

(* finalizeContextPack gives a cursor if anything was left out.            *)
FirstOffset(p) ==
  IF Len(p.selected) + Len(p.shown) < Count THEN Len(p.shown) ELSE None

(* Mutant: the limit is looked at before the evidence is added.            *)
RememberedThenLimited(b) ==
  Append(IF Len(memory) > MaxRankings THEN Tail(memory) ELSE memory, b)

(* The oldest evidence makes room.                                         *)
Remembered(b) ==
  LET packs == Append(memory, b) IN
  IF Len(packs) > MaxRankings THEN Tail(packs) ELSE packs

-----------------------------------------------------------------------------
(* Everything before the ranking, and the look-up of a cached one.         *)
LoadCachedRanking(b) ==
  /\ stage[b] = "idle"
  /\ \/ Fail(b) /\ UNCHANGED ranked
     \/ /\ ranked' = [ranked EXCEPT ![b] =
                        IF cachePath /\ saved.cached # None
                        THEN saved.cached ELSE selected]
        /\ Goto(b, "build") /\ UNCHANGED told
  /\ UNCHANGED <<ranking, saved, other, memory, copy, pack, offset, paged, kept>>

(* Mutant: the selection goes by rank, so what is put off comes last.      *)
BuildContextPackOthersFirst(b) ==
  /\ stage[b] = "build"
  /\ \E budget \in ContentBudgets, fallbackLimit \in FallbackLimits :
       LET chosen == WithinContentBudget(ranked[b], budget)
           others == InOrder(Ranks \ ranked[b]) \o InOrder(ranked[b] \ chosen)
       IN \E p \in Packs(InOrder(chosen), others, fallbackLimit) :
            pack' = [pack EXCEPT ![b] = p]
  /\ memory' = Remembered(b)
  /\ Goto(b, IF cachePath THEN "open" ELSE "answer")
  /\ UNCHANGED <<ranking, saved, other, ranked, copy, client, kept>>

(* buildContextPack, createContextRankingEvidence and                      *)
(* rememberRankingEvidence.  A response budget below the smallest pack is  *)
(* an error.                                                               *)
BuildContextPack(b) ==
  /\ stage[b] = "build"
  /\ \/ /\ \E budget \in ContentBudgets, fallbackLimit \in FallbackLimits :
             LET chosen == WithinContentBudget(ranked[b], budget)
                 others == InOrder(ranked[b] \ chosen) \o InOrder(Ranks \ ranked[b])
             IN \E p \in Packs(InOrder(chosen), others, fallbackLimit) :
                  pack' = [pack EXCEPT ![b] = p]
        /\ memory' = Remembered(b)
        /\ Goto(b, IF cachePath THEN "open" ELSE "answer")
        /\ UNCHANGED told
     \/ Fail(b) /\ UNCHANGED <<pack, memory>>
  /\ UNCHANGED <<ranking, saved, other, ranked, copy, offset, paged, kept>>

(* persistContextPack opens a session, which reads the file.               *)
OpenStore(b) ==
  /\ stage[b] = "open"
  /\ \/ /\ copy' = [copy EXCEPT ![b] = saved]
        /\ Goto(b, "save_evidence") /\ UNCHANGED told
     \/ Fail(b) /\ UNCHANGED copy
  /\ UNCHANGED <<ranking, saved, other, memory, ranked, pack, offset, paged, kept>>

(* A set saves the table as the session has it, or fails.                  *)
Save(b, table, next) ==
  /\ \/ /\ saved' = table /\ kept' = kept \cup table.packs
        /\ Goto(b, next) /\ UNCHANGED told
     \/ /\ Fail(b) /\ UNCHANGED <<saved, kept>>
  /\ copy' = [copy EXCEPT ![b] = table]
  /\ UNCHANGED <<ranking, other, memory, ranked, pack, offset, paged>>

(* Mutant: the evidence is left to the memory of the server.               *)
SaveEvidenceNever(b) ==
  /\ stage[b] = "save_evidence"
  /\ Save(b, copy[b], "save_cached")

SaveEvidence(b) ==
  /\ stage[b] = "save_evidence"
  /\ Save(b, [copy[b] EXCEPT !.packs = @ \cup {b}], "save_cached")

SaveCachedRanking(b) ==
  /\ stage[b] = "save_cached"
  /\ Save(b, [copy[b] EXCEPT !.cached = ToSet(pack[b].selected)], "answer")

(* The result of a build that has timed out is dropped.                    *)
Answer(b) ==
  /\ stage[b] = "answer"
  /\ Goto(b, "done")
  /\ IF told[b] = "nothing"
     THEN /\ told' = [told EXCEPT ![b] = "pack"]
          /\ offset' = [offset EXCEPT ![b] = FirstOffset(pack[b])]
     ELSE UNCHANGED <<told, offset>>
  /\ UNCHANGED <<ranking, saved, other, memory, ranked, copy, pack, paged, kept>>

(* withOperationTimeout rejects the call; the build itself goes on.        *)
Expire(b) ==
  /\ stage[b] \notin {"idle", "done"} /\ told[b] = "nothing"
  /\ told' = [told EXCEPT ![b] = "error"]
  /\ UNCHANGED <<ranking, saved, other, memory, builder, offset, paged, kept>>

-----------------------------------------------------------------------------
Available(b) == b \in ToSet(memory) \/ (cachePath /\ b \in saved.packs)

(* expandContextRanking.  Without evidence the client gets a warning, and  *)
(* nothing changes.                                                        *)
ExpandContext(b, limit) ==
  /\ told[b] = "pack" /\ offset[b] # None /\ Available(b)
  /\ LET excluded == Excluded(pack[b])
         end == IF offset[b] + limit < Len(excluded) THEN offset[b] + limit
                                                    ELSE Len(excluded)
     IN /\ paged' = [paged EXCEPT ![b] = @ \o SubSeq(excluded, offset[b] + 1, end)]
        /\ offset' = [offset EXCEPT ![b] = IF end < Len(excluded) THEN end ELSE None]
  /\ UNCHANGED <<ranking, saved, other, memory, builder, told, kept>>

(* A new server knows what the database file says.                         *)
Restart ==
  /\ memory' = <<>>
  /\ stage' = [b \in Builds |-> IF stage[b] = "idle" THEN "idle" ELSE "done"]
  /\ told' = [b \in Builds |-> IF stage[b] # "idle" /\ told[b] = "nothing"
                               THEN "error" ELSE told[b]]
  /\ UNCHANGED <<ranking, saved, other, ranked, copy, pack, offset, paged, kept>>

(* Any other session: it reads the table, may clear it, and saves what it  *)
(* then has (SqliteStore).                                                 *)
OtherSession ==
  /\ \/ other' \in {saved, NoRankings} /\ UNCHANGED saved
     \/ saved' = other /\ UNCHANGED other
  /\ UNCHANGED <<ranking, memory, builder, client, kept>>

Build(b) ==
  \/ LoadCachedRanking(b) \/ BuildContextPack(b) \/ OpenStore(b)
  \/ SaveEvidence(b) \/ SaveCachedRanking(b) \/ Answer(b)

Next ==
  \/ \E b \in Builds : Build(b) \/ Expire(b)
  \/ \E b \in Builds, limit \in PageLimits : ExpandContext(b, limit)
  \/ Restart
  \/ OtherSession

Spec == Init /\ [][Next]_vars

-----------------------------------------------------------------------------
(* Following the cursors of a pack, a client gets every candidate of the   *)
(* task exactly once, as a selected file, as a fallback of the pack or on  *)
(* a page.                                                                 *)
Given(b) == pack[b].selected \o pack[b].shown \o paged[b]
EachCandidateOnce ==
  \A b \in Builds : told[b] = "pack" =>
    /\ IsInjective(Given(b))
    /\ offset[b] = None => ToSet(Given(b)) = Ranks

(* The client of a server with a cache hears of no pack whose evidence has *)
(* not been saved: neither a restart nor later builds take its pages away. *)
EvidenceBeforePack ==
  \A b \in Builds : cachePath /\ told[b] = "pack" => b \in kept
=============================================================================
