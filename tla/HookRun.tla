------------------------------ MODULE HookRun ------------------------------
(***************************************************************************)
(* One run of the user-prompt hook per submitted prompt: hookCommand of    *)
(* packages/cli/src/index.ts around runUserPromptHook of                   *)
(* packages/cli/src/user-prompt-hook.ts.                                   *)
(*                                                                         *)
(* A host (Codex or Claude Code) starts a process for every prompt, waits  *)
(* for it, and reads one JSON object, or nothing, from its standard        *)
(* output.  The run loads the cache, discovers and analyzes the workspace, *)
(* builds a context pack, saves four records one after the other, and      *)
(* writes the pack. Its own timer sets a flag that it looks at between    *)
(* the stages; the host kills the process when it takes much longer.       *)
(*                                                                         *)
(* The cache is the one that SnapshotCache specifies, and that the runs,   *)
(* being processes of their own, get from SqliteStore: a run works on a    *)
(* copy of the table and every set saves the whole copy.                   *)
(***************************************************************************)
EXTENDS Naturals, FiniteSets

CONSTANT Runs    \* hook processes

Indexes == {"none", "partial", "whole"}
Outcomes == {"none", "skipped", "context_injected"}
Tables == [index: Indexes, analysis: BOOLEAN,
           evidence: [Runs -> Outcomes], ledger: SUBSET Runs]
NoRecords == [index |-> "none", analysis |-> FALSE,
              evidence |-> [r \in Runs |-> "none"], ledger |-> {}]

VARIABLES
  saved,      \* the table in the database file
  damaged,    \* the database file cannot be opened
  view,       \* the copy each run works on
  stage,      \* the await each run is at
  cached,     \* whether the run's workspace configuration enables the cache
  mode,       \* what the assessment of the prompt asks for
  index,      \* the index the run's discovery returned
  aborted,    \* the run's timer has fired
  answer,     \* what the host has read from the run
  recorded    \* the runs whose injection has been on record (history)

vars == <<saved, damaged, view, stage, cached, mode, index, aborted, answer, recorded>>
store == <<saved, damaged, view, recorded>>
input == <<cached, mode>>

(* In the order of the code.  "catch" is hookCommand's catch block, "killed" *)
(* a process that is gone.                                                   *)
Stages == {"idle", "load", "initialize", "discover", "analyze", "build",
           "set_index", "set_analysis", "set_evidence", "set_ledger", "write",
           "catch", "done", "killed"}
Ended == {"idle", "done", "killed"}
Running(r) == stage[r] \notin Ended

TypeOK ==
  /\ saved \in Tables
  /\ damaged \in BOOLEAN
  /\ view \in [Runs -> Tables]
  /\ stage \in [Runs -> Stages]
  /\ cached \in [Runs -> BOOLEAN]
  /\ mode \in [Runs -> {"skip", "optimize"}]
  /\ index \in [Runs -> Indexes]
  /\ aborted \in [Runs -> BOOLEAN]
  /\ answer \in [Runs -> {"nothing", "context", "message"}]
  /\ recorded \subseteq Runs

Init ==
  /\ saved = NoRecords
  /\ damaged \in BOOLEAN
  /\ view = [r \in Runs |-> NoRecords]
  /\ stage = [r \in Runs |-> "idle"]
  /\ cached \in [Runs -> BOOLEAN]
  /\ mode \in [Runs -> {"skip", "optimize"}]
  /\ index = [r \in Runs |-> "none"]
  /\ aborted = [r \in Runs |-> FALSE]
  /\ answer = [r \in Runs |-> "nothing"]
  /\ recorded = {}

Goto(r, next) == stage' = [stage EXCEPT ![r] = next]

(* Mutant: the flag is not looked at.                                      *)
GotoAnyway(r, next) == Goto(r, next)

(* signal.throwIfAborted() before the next stage.                          *)
GotoUnlessAborted(r, next) == Goto(r, IF aborted[r] THEN "catch" ELSE next)

-----------------------------------------------------------------------------
(* The host starts the process; input or configuration may be rejected.    *)
Start(r) ==
  /\ stage[r] = "idle"
  /\ \E next \in {"load", "catch"} : Goto(r, next)
  /\ UNCHANGED <<store, input, index, aborted, answer>>

(* Where a run goes once its store is open, or right away without one.     *)
Opened(r) ==
  GotoUnlessAborted(r, CASE mode[r] = "optimize"             -> "discover"
                         [] mode[r] = "skip" /\ cached[r]  -> "set_evidence"
                         [] mode[r] = "skip" /\ ~cached[r] -> "done")

(* store.initialize reads the file, and then saves what it has read.       *)
LoadCache(r) ==
  /\ stage[r] = "load"
  /\ \/ ~cached[r] /\ Opened(r) /\ UNCHANGED view
     \/ cached[r] /\ damaged /\ Goto(r, "catch") /\ UNCHANGED view
     \/ /\ cached[r] /\ ~damaged
        /\ view' = [view EXCEPT ![r] = saved]
        /\ Goto(r, "initialize")
  /\ UNCHANGED <<saved, damaged, input, index, aborted, answer, recorded>>

(* The table is saved, and the call rejects all the same when only the     *)
(* chmod that follows the rename fails; or nothing is saved.               *)
Save(r, table, goOn) ==
  /\ \/ /\ saved' = table /\ damaged' = FALSE
        /\ recorded' = recorded \cup
             {q \in table.ledger : table.evidence[q] = "context_injected"}
        /\ goOn \/ Goto(r, "catch")
     \/ UNCHANGED <<saved, damaged, recorded>> /\ Goto(r, "catch")
  /\ view' = [view EXCEPT ![r] = table]
  /\ UNCHANGED <<input, index, aborted, answer>>

InitializeCache(r) == stage[r] = "initialize" /\ Save(r, view[r], Opened(r))

(* A discovery that sees the flag returns what it has found so far.        *)
Discover(r) ==
  /\ stage[r] = "discover"
  /\ \/ Goto(r, "catch") /\ UNCHANGED index
     \/ /\ index' = [index EXCEPT ![r] = "whole"]
        /\ GotoUnlessAborted(r, "analyze")
     \/ /\ aborted[r]
        /\ index' = [index EXCEPT ![r] = "partial"]
        /\ GotoUnlessAborted(r, "analyze")
  /\ UNCHANGED <<store, input, aborted, answer>>

Analyze(r) ==
  /\ stage[r] = "analyze"
  /\ GotoUnlessAborted(r, "build") \/ Goto(r, "catch")
  /\ UNCHANGED <<store, input, index, aborted, answer>>

(* Mutant: the evidence is saved before what it was made from.             *)
BuildPackEvidenceFirst(r) ==
  /\ stage[r] = "build"
  /\ GotoUnlessAborted(r, IF cached[r] THEN "set_evidence" ELSE "write")
  /\ UNCHANGED <<store, input, index, aborted, answer>>

(* A pack that does not fit the response budget is an error, too.          *)
BuildPack(r) ==
  /\ stage[r] = "build"
  /\ \/ GotoUnlessAborted(r, IF cached[r] THEN "set_index" ELSE "write")
     \/ Goto(r, "catch")
  /\ UNCHANGED <<store, input, index, aborted, answer>>

-----------------------------------------------------------------------------
SetIndex(r) ==
  /\ stage[r] = "set_index"
  /\ Save(r, [view[r] EXCEPT !.index = index[r]], Goto(r, "set_analysis"))

SetAnalysis(r) ==
  /\ stage[r] = "set_analysis"
  /\ Save(r, [view[r] EXCEPT !.analysis = TRUE], Goto(r, "set_evidence"))

(* Mutants: the recommendation is recorded in place of the outcome, and    *)
(* the output does not wait for the ledger.                                *)
SetEvidenceOfMode(r) ==
  /\ stage[r] = "set_evidence"
  /\ Save(r, [view[r] EXCEPT !.evidence[r] = mode[r]], Goto(r, "set_ledger"))

SetEvidenceOnly(r) ==
  LET outcome == IF mode[r] = "skip" THEN "skipped" ELSE "context_injected" IN
  /\ stage[r] = "set_evidence"
  /\ Save(r, [view[r] EXCEPT !.evidence[r] = outcome],
          Goto(r, IF mode[r] = "skip" THEN "done" ELSE "write"))

SetEvidence(r) ==
  LET outcome == IF mode[r] = "skip" THEN "skipped" ELSE "context_injected" IN
  /\ stage[r] = "set_evidence"
  /\ Save(r, [view[r] EXCEPT !.evidence[r] = outcome], Goto(r, "set_ledger"))

SetLedger(r) ==
  /\ stage[r] = "set_ledger"
  /\ Save(r, [view[r] EXCEPT !.ledger = @ \cup {r}],
          Goto(r, IF mode[r] = "skip" THEN "done" ELSE "write"))

WriteOutput(r) ==
  /\ stage[r] = "write"
  /\ answer' = [answer EXCEPT ![r] = "context"]
  /\ Goto(r, "done")
  /\ UNCHANGED <<store, input, index, aborted>>

(* Mutant: a failure is not reported.                                      *)
CatchSilently(r) ==
  /\ stage[r] = "catch"
  /\ Goto(r, "done")
  /\ UNCHANGED <<store, input, index, aborted, answer>>

(* Whatever was thrown, the host is told that there is no context.         *)
Catch(r) ==
  /\ stage[r] = "catch"
  /\ answer' = [answer EXCEPT ![r] = "message"]
  /\ Goto(r, "done")
  /\ UNCHANGED <<store, input, index, aborted>>

-----------------------------------------------------------------------------
(* The timer that runUserPromptHook starts.                                *)
Expire(r) ==
  /\ Running(r) /\ ~aborted[r]
  /\ aborted' = [aborted EXCEPT ![r] = TRUE]
  /\ UNCHANGED <<store, stage, input, index, answer>>

(* The host gives up, or the process dies.                                 *)
Kill(r) ==
  /\ Running(r)
  /\ Goto(r, "killed")
  /\ UNCHANGED <<store, input, index, aborted, answer>>

(* The user runs "ato cache repair".                                       *)
RepairCache ==
  /\ saved' = NoRecords /\ damaged' = FALSE
  /\ UNCHANGED <<view, stage, input, index, aborted, answer, recorded>>

Step(r) ==
  \/ LoadCache(r) \/ InitializeCache(r)
  \/ Discover(r) \/ Analyze(r) \/ BuildPack(r)
  \/ SetIndex(r) \/ SetAnalysis(r) \/ SetEvidence(r) \/ SetLedger(r)
  \/ WriteOutput(r) \/ Catch(r)

Next ==
  \/ \E r \in Runs : Start(r) \/ Step(r) \/ Expire(r) \/ Kill(r)
  \/ RepairCache

Spec == Init /\ [][Next]_vars

(* A process that was started runs until it ends or is killed.             *)
FairSpec == Spec /\ \A r \in Runs : WF_vars(Step(r))

-----------------------------------------------------------------------------
(* What a run that was cut short has found is never saved as the index     *)
(* that later runs start from.                                             *)
OnlyWholeIndexes == saved.index # "partial"

(* Records that refer to each other are saved in their order, and stay     *)
(* together when another run saves its own copy: the evidence of an        *)
(* injection comes with a whole index and an analysis, and a ledger with   *)
(* evidence of its run.                                                    *)
RecordsComeInOrder ==
  \A r \in Runs :
    /\ saved.evidence[r] = "context_injected" =>
         saved.index = "whole" /\ saved.analysis
    /\ r \in saved.ledger => saved.evidence[r] # "none"

(* No context reaches the host before its evidence and its ledger have     *)
(* been saved: the benchmarks count the injections by these ledgers.       *)
ContextIsRecorded ==
  \A r \in Runs : cached[r] /\ answer[r] = "context" => r \in recorded

(* A run that is not killed answers: with the context or the message when  *)
(* context was asked for, whatever failed or expired on the way.           *)
Answered(r) ==
  stage[r] = "done" /\ (answer[r] = "nothing" => mode[r] = "skip")
RunsAnswer ==
  \A r \in Runs : stage[r] = "load" ~> Answered(r) \/ stage[r] = "killed"
=============================================================================
