----------------------------- MODULE OptimizeRun -----------------------------
(***************************************************************************)
(* From a task to a context pack, session after session, over one          *)
(* workspace and one cache: the user-prompt hook, the optimize command     *)
(* with --cache, and the tools build_context_pack and analyze_task.        *)
(*                                                                         *)
(* Every session takes from the cache whatever it can: the analysis of a   *)
(* file whose hash is the same, the ranking of the same task over the same *)
(* files, the summary of a file whose hash is the same.  The hook saves a  *)
(* sanitized analysis, without the terms of the contents and with redacted *)
(* names, and the others go on from it.  The user edits the files between  *)
(* the sessions and while they run, and any session may end at any point.  *)
(*                                                                         *)
(* Sessions do not overlap: what then becomes of the cache is the matter   *)
(* of SqliteStore.  The walk and the reuse of hashes are that of Indexing; *)
(* here the index is what the files contain at one moment, and a hash is   *)
(* the content that it is of.  The reduction to a response budget is that  *)
(* of ContextPaging.                                                       *)
(***************************************************************************)
EXTENDS Ranking

CONSTANTS
  Initially,      \* what the files contain at first
  Versions,       \* what the user may write to each file
  Requests,       \* the sessions there may be
  Tasks,          \* the task each name of a task stands for
  Secrets,        \* the names that look like secrets
  ContentBudget,  \* recommendedContentTokenBudget of the command and the tools
  MaxSessions,    \* bound on the sessions
  MaxEdits        \* bound on the edits

Callers == {"hook", "optimize", "build_context_pack", "analyze_task"}

ASSUME RunAssumption ==
  /\ Initially \in [Files -> Contents \cup {None}]
  /\ Versions \in [Files -> SUBSET (Contents \cup {None})]
  /\ \A r \in Requests :
       /\ DOMAIN r = {"caller", "task", "options", "includeSummaries"}
       /\ r.caller \in Callers /\ r.task \in DOMAIN Tasks /\ r.includeSummaries \in BOOLEAN
       /\ r.options \in [limit: Nat \ {0}, threshold: Nat, recent: SUBSET Files]
  /\ \A f \in Files : PathWords[f] \cap Secrets = {}
  /\ {ContentBudget, MaxSessions, MaxEdits} \subseteq Nat
  /\ None \notin Requests /\ \A recent \in SUBSET Files : recent # None
ASSUME TasksAssumption ==
  \A t \in DOMAIN Tasks :
    /\ IsFiniteSet(Tasks[t].words) /\ IsFiniteSet(Tasks[t].paths)
    /\ IsFiniteSet(Tasks[t].symbols)
    /\ Tasks[t].tests \in Nat /\ Tasks[t].length \in 1 .. 4

VARIABLES
  disk,        \* what each file contains
  modified,    \* when it was last written, in edits
  cache,       \* the records of each kind, by key
  sessions,    \* how many sessions there have been
  stage,       \* where the session is
  request,     \* what it has been called with
  index,       \* what it has found in each file
  stamps,      \* and when that had been written
  analysis,    \* workspaceAnalysis
  assessment,  \* of the task
  ranking,     \* the selected and the excluded candidates, in order
  pack,        \* the files of the pack, and their summaries
  unread,      \* the files of the pack that have no summary yet
  unsaved,     \* the records that are still to be saved, in order
  disturbed,   \* the files edited between two reads of some session (history)
  sanitized    \* the files and contents the hook has saved an analysis of (history)

user == <<disk, modified>>
history == <<disturbed, sanitized>>
found == <<index, stamps>>
local == <<request, found, analysis, assessment, ranking, pack, unread>>
vars == <<user, cache, sessions, stage, local, unsaved, history>>

Stages == {"idle", "discover", "analyze", "assess", "rank", "summarize", "save"}
Task == Tasks[request.task]
Nothing == [f \in Files |-> None]

Init ==
  /\ disk = Initially /\ modified = [f \in Files |-> 0]
  /\ cache = [analysis |-> <<>>, ranking |-> <<>>, summary |-> <<>>]
  /\ sessions = 0 /\ stage = "idle"
  /\ request = None
  /\ index = Nothing /\ stamps = Nothing /\ analysis = None /\ assessment = None
  /\ ranking = None /\ pack = None /\ unread = <<>> /\ unsaved = <<>>
  /\ disturbed = {} /\ sanitized = {}

-----------------------------------------------------------------------------
(* The session is over, however it ended, and its variables are gone.      *)
Leave ==
  /\ stage' = "idle" /\ request' = None
  /\ index' = Nothing /\ stamps' = Nothing /\ analysis' = None /\ assessment' = None
  /\ ranking' = None /\ pack' = None /\ unread' = <<>> /\ unsaved' = <<>>

Start ==
  /\ stage = "idle" /\ sessions < MaxSessions
  /\ sessions' = sessions + 1
  /\ \E r \in Requests :
       /\ request' = r
       /\ assessment' = IF r.caller = "hook" THEN AssessmentOfTask(Tasks[r.task]) ELSE None
  /\ stage' = "discover"
  /\ UNCHANGED <<user, cache, found, analysis, ranking, pack, unread, unsaved, history>>

(* The hook looks at the task alone first, and may leave it at that.       *)
Skips == request.caller = "hook" /\ assessment.mode = "skip"

Skip ==
  /\ stage = "discover" /\ Skips
  /\ Leave
  /\ UNCHANGED <<user, cache, sessions, history>>

Discover ==
  /\ stage = "discover" /\ ~Skips
  /\ index' = disk
  /\ stamps' = [f \in Files |-> IF disk[f] = None THEN None ELSE modified[f]]
  /\ stage' = "analyze"
  /\ UNCHANGED <<user, cache, sessions, request, analysis, assessment, ranking, pack, unread,
                 unsaved, history>>

(* analyzeWorkspace: a saved analysis is kept if it is of the same hash.   *)
(* Mutant: a saved analysis is kept as long as there is the file.          *)
AnalysisOfAnyHash(saved, f) ==
  CASE index[f] = None -> Skipped(None)
    [] "latest" \in DOMAIN saved /\ index[f] # None /\ saved["latest"][f].hash # None ->
         saved["latest"][f]
    [] OTHER -> Analyzed(f, disk[f], index[f])

AnalysisOf(saved, f) ==
  CASE index[f] = None -> Skipped(None)
    [] "latest" \in DOMAIN saved /\ index[f] # None /\ saved["latest"][f].hash = index[f] ->
         saved["latest"][f]
    [] OTHER -> Analyzed(f, disk[f], index[f])

Analyze ==
  /\ stage = "analyze"
  /\ analysis' = [f \in Files |-> AnalysisOf(cache.analysis, f)]
  /\ stage' = "assess"
  /\ UNCHANGED <<user, cache, sessions, request, found, assessment, ranking, pack, unread,
                 unsaved, history>>

(* The task is assessed again, with the workspace; analyze_task answers.   *)
Assess ==
  /\ stage = "assess"
  /\ assessment' = Assessment(Task, index, analysis)
  /\ stage' = IF request.caller = "analyze_task" THEN "save" ELSE "rank"
  /\ UNCHANGED <<user, cache, sessions, request, found, analysis, ranking, pack, unread,
                 unsaved, history>>

-----------------------------------------------------------------------------
(* createRankingCacheKey of the command and of the tools: the fingerprint  *)
(* of the files, the task and the options.  The command has no list of     *)
(* changed files.                                                          *)
(* Mutant: the time of modification and the content do not go in.          *)
RankingKeyOfNames ==
  [files |-> Present(index), task |-> request.task, limit |-> request.options.limit,
   threshold |-> request.options.threshold,
   recent |-> IF request.caller = "optimize" THEN None ELSE request.options.recent]

RankingKey ==
  [files |-> found, task |-> request.task, limit |-> request.options.limit,
   threshold |-> request.options.threshold,
   recent |-> IF request.caller = "optimize" THEN None ELSE request.options.recent]

Options == IF request.caller = "build_context_pack" THEN request.options
           ELSE [request.options EXCEPT !.recent = {}]

Fresh(of) ==
  LET ranked == RankContext(Task, Hints(Task, index, of), index, of, Options) IN
  [selected |-> ranked.selected, excluded |-> ranked.excluded]

Cached == request.caller # "hook" /\ RankingKey \in DOMAIN cache.ranking

Budget == IF request.caller = "hook" THEN TokenBudget[assessment.mode] ELSE ContentBudget

Without(files, S) == Kept(files, ToSet(files) \ S)
PackOf(ranked) ==
  LET chosen == WithinBudget(index, ranked.selected, Budget) IN
  [selected |-> chosen,
   excluded |-> Without(ranked.selected, ToSet(chosen)) \o ranked.excluded,
   summaries |-> Nothing]

Summarizes == IF request.caller = "hook" THEN assessment.mode = "context_pack_with_summaries"
              ELSE request.includeSummaries

Rank ==
  /\ stage = "rank"
  /\ ranking' = IF Cached THEN cache.ranking[RankingKey] ELSE Fresh(analysis)
  /\ pack' = PackOf(ranking')
  /\ unread' = IF Summarizes THEN pack'.selected ELSE <<>>
  /\ stage' = "summarize"
  /\ UNCHANGED <<user, cache, sessions, request, found, analysis, assessment, unsaved, history>>

(* buildSummaries, for one file: the summary of the cache if it is of the  *)
(* hash of the index, or one of what the file contains now.  A file that   *)
(* cannot be read gets a warning instead.                                  *)
SummaryKey(f) == <<request.task, f>>

(* Mutant: the saved summary is taken as it is.                            *)
SummaryOfAnyHash(saved, f) ==
  CASE SummaryKey(f) \in DOMAIN saved -> saved[SummaryKey(f)]
    [] SummaryKey(f) \notin DOMAIN saved /\ disk[f] # None -> [hash |-> index[f], of |-> disk[f]]
    [] OTHER -> None

SummaryOf(saved, f) ==
  LET kept == SummaryKey(f) \in DOMAIN saved /\ saved[SummaryKey(f)].hash = index[f] IN
  CASE kept -> saved[SummaryKey(f)]
    [] ~kept /\ disk[f] # None -> [hash |-> index[f], of |-> disk[f]]
    [] OTHER -> None

Summarize ==
  /\ stage = "summarize" /\ unread # <<>>
  /\ LET saved == IF request.caller = "hook" THEN <<>> ELSE cache.summary IN
     pack' = [pack EXCEPT !.summaries[Head(unread)] = SummaryOf(saved, Head(unread))]
  /\ unread' = Tail(unread)
  /\ UNCHANGED <<user, cache, sessions, stage, request, found, analysis, assessment, ranking,
                 unsaved, history>>

-----------------------------------------------------------------------------
(* createPersistableWorkspaceAnalysis: no terms, and redacted names.       *)
(* Mutant: no symbols either.                                              *)
SanitizedAway(of) == [f \in Files |-> [of[f] EXCEPT !.terms = {}, !.symbols = {}]]

Redacted == "[REDACTED]"

Reduced(entry) ==
  [entry EXCEPT !.terms = {},
     !.symbols = IF @ \cap Secrets = {} THEN @ ELSE (@ \ Secrets) \cup {Redacted}]
Sanitized(of) == [f \in Files |-> Reduced(of[f])]

Record(kind, key, value) == [kind |-> kind, key |-> key, value |-> value]

(* createContextRankingEvidence: what the pack has selected, and the rest. *)
(* Mutant: the candidates that did not fit into the pack are left out.     *)
EvidenceOfPack ==
  [selected |-> pack.selected, excluded |-> ranking.excluded]

Evidence ==
  LET all == ranking.selected \o ranking.excluded
      chosen == ToSet(pack.selected) IN
  [selected |-> Kept(all, chosen), excluded |-> Without(all, chosen)]

(* What persistContextPack and the command save, and what the hook saves.  *)
(* The index, the pack, the ranking by its pack and the estimate are saved *)
(* between these; no session modelled here reads them.                     *)
Records ==
  IF request.caller = "hook" THEN <<Record("analysis", "latest", Sanitized(analysis))>>
  ELSE LET summarized == Kept(pack.selected, {f \in Files : pack.summaries[f] # None}) IN
       <<Record("analysis", "latest", analysis), Record("ranking", RankingKey, Evidence)>>
         \o [n \in DOMAIN summarized |->
              Record("summary", SummaryKey(summarized[n]), pack.summaries[summarized[n]])]

Finish ==
  /\ stage = "summarize" /\ unread = <<>>
  /\ unsaved' = Records
  /\ stage' = "save"
  /\ UNCHANGED <<user, cache, sessions, local, history>>

Put(table, key, value) ==
  [k \in DOMAIN table \cup {key} |-> IF k = key THEN value ELSE table[k]]

Save ==
  /\ stage = "save" /\ unsaved # <<>>
  /\ LET r == Head(unsaved) IN
       /\ cache' = [cache EXCEPT ![r.kind] = Put(@, r.key, r.value)]
       /\ sanitized' = IF request.caller = "hook" /\ r.kind = "analysis"
                       THEN sanitized \cup {<<f, index[f]>> : f \in Files} ELSE sanitized
  /\ unsaved' = Tail(unsaved)
  /\ UNCHANGED <<user, sessions, stage, local, disturbed>>

Answer ==
  /\ stage = "save" /\ unsaved = <<>>
  /\ Leave
  /\ UNCHANGED <<user, cache, sessions, history>>

(* A process is killed, the timer of the hook is noticed, a save fails.    *)
Stop ==
  /\ stage # "idle"
  /\ Leave
  /\ UNCHANGED <<user, cache, sessions, history>>

UserEdits(f, content) ==
  /\ sessions < MaxSessions \/ stage # "idle"
  /\ \A g \in Files : modified[g] < MaxEdits
  /\ content # disk[f]
  /\ disk' = [disk EXCEPT ![f] = content]
  /\ modified' = [modified EXCEPT ![f] = Max({modified[g] : g \in Files}) + 1]
  /\ disturbed' = IF stage \in {"idle", "discover", "save"} THEN disturbed ELSE disturbed \cup {f}
  /\ UNCHANGED <<cache, sessions, stage, local, unsaved, sanitized>>

Next ==
  \/ Start \/ Skip \/ Discover \/ Analyze \/ Assess \/ Rank \/ Summarize \/ Finish \/ Save
  \/ Answer \/ Stop
  \/ \E f \in Files : \E content \in Versions[f] : UserEdits(f, content)

Spec == Init /\ [][Next]_vars

-----------------------------------------------------------------------------
(* What an analysis without a cache finds in the files of the index.       *)
ColdAnalysis == [f \in Files |-> Analyzed(f, index[f], index[f])]

TypeOK ==
  /\ disk \in [Files -> Contents \cup {None}] /\ modified \in [Files -> 0 .. MaxEdits]
  /\ sessions \in 0 .. MaxSessions /\ stage \in Stages
  /\ request \in Requests \cup {None} /\ (request = None <=> stage = "idle")
  /\ index \in [Files -> Contents \cup {None}]
  /\ stamps \in [Files -> (0 .. MaxEdits) \cup {None}]
  /\ analysis # None =>
       \A f \in Files :
         /\ analysis[f].hash = index[f]
         /\ analysis[f].imports \subseteq Files
         /\ analysis[f].terms # {} => index[f] # None
  /\ assessment # None => assessment.mode \in DOMAIN TokenBudget
  /\ pack # None => /\ ToSet(pack.selected) \subseteq Rankable(index)
                    /\ ToSet(unread) \subseteq ToSet(pack.selected)
  /\ \A k \in DOMAIN cache.ranking : ToSet(cache.ranking[k].selected) \subseteq Files
  /\ \A k \in DOMAIN cache.summary : cache.summary[k].of \in Contents
  /\ disturbed \subseteq Files /\ sanitized \subseteq Files \X (Contents \cup {None})

(* A task is assessed the same whatever the cache holds: the sanitized     *)
(* analysis that the hook saves has all that assessTask looks at, but for  *)
(* names that look like secrets, and the word that takes their place.      *)
(* (user-prompt-hook.ts:276, :332.)                                        *)
NamesSecrets(task) == (task.words \cup task.symbols) \cap (Secrets \cup {Redacted}) # {}

AssessmentIsCold ==
  stage \in {"rank", "summarize", "save"} /\ disturbed = {} /\ ~NamesSecrets(Task) =>
    assessment = Assessment(Task, index, ColdAnalysis)

(* The files that may have contained something else than what they are     *)
(* indexed with when they were analyzed, since they have been edited under *)
(* a session, and what each may have contained; and the files with a       *)
(* content of which the hook has saved its reduced analysis.               *)
Uncertain == disturbed \cap Rankable(index)
Possible(f) == {Initially[f]} \cup Versions[f]
Seen == {s \in [Uncertain -> Contents \cup {None}] : \A f \in Uncertain : s[f] \in Possible(f)}
SavedByHook == {f \in Rankable(index) : <<f, index[f]>> \in sanitized}

(* An analysis of the indexed contents, but for those, and reduced for     *)
(* some of the files.                                                      *)
AnalysisFrom(seen, reduced) ==
  LET full(f) == Analyzed(f, IF f \in Uncertain THEN seen[f] ELSE index[f], index[f]) IN
  [f \in Files |-> IF f \in reduced THEN Reduced(full(f)) ELSE full(f)]

(* Whatever the cache holds, a pack is the one that a session without a    *)
(* cache would make of an analysis of the files as they are indexed: no    *)
(* analysis, ranking or summary of an earlier session outlives what it was *)
(* made of.  Only a content that the hook has saved an analysis of may     *)
(* count for less, and only a file that was edited under a session for     *)
(* another of its contents.                                                *)
PackIsCurrent ==
  stage = "summarize" /\ unread = <<>> =>
    /\ \E seen \in Seen, full \in SUBSET SavedByHook :
         LET cold == PackOf(Fresh(AnalysisFrom(seen, SavedByHook \ full))) IN
         pack.selected = cold.selected /\ pack.excluded = cold.excluded
    /\ \A f \in ToSet(pack.selected) \ disturbed :
         pack.summaries[f] = IF Summarizes THEN [hash |-> index[f], of |-> index[f]] ELSE None

(* A summary stands for the file as it was indexed, whichever session made *)
(* it, unless the file has been edited in the middle of a session.         *)
SummaryOfItsHash ==
  pack # None =>
    \A f \in Files : pack.summaries[f] # None =>
      /\ pack.summaries[f].hash = index[f]
      /\ f \notin disturbed => pack.summaries[f].of = index[f]

(* Whatever the cache holds, the files that a task names come first in the *)
(* pack, whatever their scores, and one is only left out if they are more  *)
(* than the limit or it does not fit with the others.                      *)
NamedFilesAreServed ==
  pack # None =>
    LET named == assessment.hints.paths \cap Rankable(index)
        served == ToSet(pack.selected) \cap named
        used == TotalTokens(index, served) IN
    /\ \A i, j \in DOMAIN pack.selected : i < j /\ pack.selected[j] \in named => pack.selected[i] \in named
    /\ Cardinality(named) <= request.options.limit =>
         \A f \in named \ served : used + Tokens(index, f) > Budget

(* A pack accounts for every file that can be ranked, once, and keeps to   *)
(* its limits; a ranking that was saved by an earlier session is as whole. *)
PackIsWhole ==
  pack # None =>
    LET all == pack.selected \o pack.excluded IN
    /\ ToSet(all) = Rankable(index) /\ Len(all) = Cardinality(Rankable(index))
    /\ Len(pack.selected) <= request.options.limit
    /\ TotalTokens(index, ToSet(pack.selected)) <= Budget

(* The hook answers a prompt with nothing only if the workspace would not  *)
(* have changed its mind, unless a word of the prompt is the name of a     *)
(* file, a symbol or a package of the workspace.                           *)
SkipIsRight ==
  stage = "discover" /\ Skips =>
    LET analyzed == [f \in Files |-> Analyzed(f, disk[f], disk[f])]
        hints == Hints(Task, disk, analyzed) IN
    \/ ~(hints.paths = Task.paths /\ hints.symbols = Task.symbols /\ hints.packages = Task.packages)
    \/ Assessment(Task, disk, analyzed).mode = "skip"
=============================================================================
