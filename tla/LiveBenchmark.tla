--------------------------- MODULE LiveBenchmark ---------------------------
(***************************************************************************)
(* Live paired benchmarks: runLiveBenchmarks of                            *)
(* packages/benchmarks/src/live.ts, and the release gates that             *)
(* packages/report-ui/src/live.ts computes from its results.               *)
(*                                                                         *)
(* For every scenario and repetition a host (Codex) works on two copies of *)
(* a fixture, once as it is and once with the optimizer's hook installed.  *)
(* The runner starts the host with a time limit, compares the workspace    *)
(* with the fixture, starts a validator with a time limit of its own,      *)
(* reads what the hook has recorded, and tries the cache on the workspace. *)
(*                                                                         *)
(* A host is a process: it edits files, prints events, runs hooks, exits   *)
(* or does not, may ignore the signal that ends it, and may leave a        *)
(* process behind that holds its output open or goes on editing.  The      *)
(* runner waits until all the outputs are closed.                          *)
(***************************************************************************)
EXTENDS Integers, Sequences, FiniteSets, SequencesExt, FiniteSetsExt

CONSTANTS
  Scenarios,      \* the scenarios in the order of their ids, and what each asks for
  Repetitions,
  Files,          \* the files of a fixture
  Usages,         \* the usages that hosts report in their events
  HookTokens,     \* how large the responses of the hook may be
  ResponseBudget, \* HOOK_RESPONSE_BUDGET_TOKENS
  Price,          \* of a token of input, of cached input and of output
  None

ASSUME ScenariosAssumption ==
  /\ Scenarios \in Seq([id: Nat, command: {"none", "fixed", "outside_contract"},
                        expected: SUBSET Files, skip: BOOLEAN])
  /\ Scenarios # <<>>
(* The directory of a case and its place in the report are named by the id *)
(* of its scenario.  The scenarios of the repository have ids of their     *)
(* own, and loadBenchmarkScenarios takes them as they are.                 *)
ASSUME IdsAssumption ==
  \A m, n \in DOMAIN Scenarios : Scenarios[m].id = Scenarios[n].id => m = n
ASSUME UsagesAssumption ==
  /\ Usages \subseteq [input: Nat, cached: Nat, output: Nat] /\ None \notin Usages
  /\ Price \in [input: Nat, cached: Nat, output: Nat]
ASSUME NumbersAssumption ==
  Repetitions \in Nat \ {0} /\ HookTokens \subseteq Nat /\ ResponseBudget \in Nat

VARIABLES
  pair,       \* the scenario, by its place, and the repetition at hand
  modes,      \* the modes of the pair that are not done
  stage,      \* where the case at hand is
  workspace,  \* each file of its workspace
  child,      \* the process the runner waits for, None if there is none
  behind,     \* what the host has left behind
  usage,      \* the usage in the output captured so far
  hooks,      \* the largest response in the ledgers of the case, None if there is none
  host,       \* adapterResult
  changed,    \* changedFiles
  passed,     \* validation.passed
  fact,       \* what has happened in the case, in truth (history)
  cases,      \* the results of the cases
  outcome     \* of the run

process == <<child, behind>>
output == <<usage, hooks>>
verdict == <<host, changed, passed>>
plan == <<pair, modes>>
vars == <<plan, stage, workspace, process, output, verdict, fact, cases, outcome>>

Modes == {"baseline", "optimized"}
Versions == {"fixture", "edited"}
Stages == {"pair", "copy", "install", "spawn_host", "host", "manifest", "spawn_validator",
           "validator", "ledgers", "warm", "report", "ended"}
Facts == {"exited_well", "validated", "worked"}
Children == [at: {"running", "stubborn", "exited"}, code: 0 .. 1, timedOut: BOOLEAN]
ASSUME ChildrenAssumption == None \notin Children
ProviderUsages == {u \in Usages : u.cached <= u.input}
NoResult == [exitCode |-> None, usage |-> None]
Pairs == (DOMAIN Scenarios) \X (1 .. Repetitions)
Cases == [pair: Pairs, mode: Modes, order: 1 .. 2,
          success: BOOLEAN, usage: ProviderUsages \cup {None}, evidence: BOOLEAN,
          truth: SUBSET Facts]  \* what was so in a case that counts as a success
ASSUME CasesAssumption == None \notin Cases

TypeOK ==
  /\ pair \in Pairs
  /\ modes \in Seq(Modes)
  /\ stage \in Stages
  /\ workspace \in [Files -> Versions]
  /\ child \in Children \cup {None}
  /\ behind \in {"nothing", "holding", "editing"}
  /\ usage \in ProviderUsages \cup {None} /\ hooks \in HookTokens \cup {None}
  /\ host \in [exitCode: {0, 1, 124, None}, usage: ProviderUsages \cup {None}]
  /\ changed \subseteq Files /\ passed \in BOOLEAN
  /\ fact \subseteq Facts
  /\ cases \in Seq(Cases)
  /\ outcome \in {"running", "reported", "rejected"}

Init ==
  /\ pair = <<1, 1>>
  /\ modes = <<>>
  /\ stage = "pair"
  /\ workspace = [f \in Files |-> "fixture"]
  /\ child = None /\ behind = "nothing"
  /\ usage = None /\ hooks = None
  /\ host = NoResult /\ changed = {} /\ passed = FALSE /\ fact = {}
  /\ cases = <<>> /\ outcome = "running"

-----------------------------------------------------------------------------
Scenario == Scenarios[pair[1]]
Mode == Head(modes)

Go(next) == stage' = next

Clear ==
  /\ behind' = "nothing"
  /\ usage' = None /\ hooks' = None
  /\ host' = NoResult /\ changed' = {} /\ passed' = FALSE /\ fact' = {}

(* What runLiveBenchmarkCase does not catch rejects the whole run, and the *)
(* results of the cases before are lost with it.                           *)
Fails ==
  /\ outcome' = "rejected" /\ Go("ended")
  /\ modes' = <<>> /\ cases' = <<>>
  /\ workspace' = [f \in Files |-> "fixture"]
  /\ Clear /\ UNCHANGED <<pair, child>>

(* The order of the modes of a pair is drawn.                              *)
NextPair ==
  /\ stage = "pair"
  /\ modes' \in SetToSeqs(Modes)
  /\ Go("copy")
  /\ UNCHANGED <<pair, workspace, process, output, verdict, fact, cases, outcome>>

(* Mutant: a pair whose two cases share a workspace.                       *)
CopyOnce ==
  /\ stage = "copy"
  /\ workspace' = (IF Len(modes) = 2 THEN [f \in Files |-> "fixture"] ELSE workspace)
  /\ Go(IF Mode = "optimized" THEN "install" ELSE "spawn_host")
  /\ UNCHANGED <<plan, process, output, verdict, fact, cases, outcome>>

(* A directory of the case's own, a copy of the fixture, and its manifest. *)
Copy ==
  \/ /\ stage = "copy"
     /\ workspace' = [f \in Files |-> "fixture"]
     /\ Go(IF Mode = "optimized" THEN "install" ELSE "spawn_host")
     /\ UNCHANGED <<plan, process, output, verdict, fact, cases, outcome>>
  \/ stage = "copy" /\ Fails

(* The adapter failed: the case goes on with exit code 1.                  *)
AdapterFailed ==
  /\ host' = [exitCode |-> 1, usage |-> None]
  /\ Go("manifest")
  /\ UNCHANGED <<changed, passed, process>>

(* applyDetectedHostInstallPlan: an entry that cannot be written (module   *)
(* HostConfig) makes the adapter fail, too.                                *)
Install ==
  /\ stage = "install"
  /\ \/ Go("spawn_host") /\ UNCHANGED <<verdict, process>>
     \/ AdapterFailed
  /\ UNCHANGED <<plan, workspace, output, fact, cases, outcome>>

-----------------------------------------------------------------------------
(* createLiveProcessExecutor, for the host and for the validator.          *)
Started == child' = [at |-> "running", code |-> 0, timedOut |-> FALSE]
Alive == child # None /\ child.at # "exited"

SpawnHost ==
  /\ stage = "spawn_host"
  /\ \/ Started /\ Go("host") /\ UNCHANGED <<verdict, behind>>
     \/ AdapterFailed
  /\ UNCHANGED <<plan, workspace, output, fact, cases, outcome>>

Waiting == stage \in {"host", "validator"}

(* The host, and what it leaves behind.                                    *)
Edit(f) ==
  /\ \/ stage = "host" /\ Alive
     \/ stage \in {"host", "manifest", "spawn_validator", "validator"} /\ behind # "nothing"
  /\ \E v \in Versions \ {workspace[f]} : workspace' = [workspace EXCEPT ![f] = v]
  /\ fact' = fact \cup {"worked"}
  /\ UNCHANGED <<plan, stage, process, output, verdict, cases, outcome>>

(* Mutant: the last event counts, complete or not.                         *)
ParsedAny(u) == u

(* parseUsageRecord.                                                       *)
Parsed(u) == IF u \in ProviderUsages THEN u ELSE usage

(* An event with a usage; the last complete one counts.  What is printed   *)
(* after the limit of the captured output (appendOutput) changes nothing.  *)
PrintUsage(u) ==
  /\ stage = "host" /\ Alive
  /\ usage' = Parsed(u)
  /\ UNCHANGED <<plan, stage, workspace, process, hooks, verdict, fact, cases, outcome>>

(* The hook that the optimized host runs records what it has answered.     *)
RunHook(tokens) ==
  /\ stage = "host" /\ Alive /\ Mode = "optimized"
  /\ hooks' = (IF hooks = None THEN tokens ELSE Max({hooks, tokens}))
  /\ UNCHANGED <<plan, stage, workspace, process, usage, verdict, fact, cases, outcome>>

(* The process exits by itself.  A validator passes only where the files   *)
(* of the scenario are edited, and may fail for any reason.                *)
AllEdited == \A f \in Scenario.expected : workspace[f] = "edited"

Exit(code) ==
  /\ Waiting /\ Alive
  /\ (stage = "validator" /\ code = 0) => AllEdited
  /\ child' = [child EXCEPT !.at = "exited", !.code = code]
  /\ behind' \in IF stage = "host" THEN {"nothing", "holding", "editing"} ELSE {behind}
  /\ fact' = IF stage = "validator" /\ code = 0 THEN fact \cup {"validated"} ELSE fact
  /\ UNCHANGED <<plan, stage, workspace, output, verdict, cases, outcome>>

(* Mutant: only the host has a time limit.                                 *)
TimeoutOfHost ==
  /\ stage = "host" /\ ~child.timedOut
  /\ \E at \in IF Alive THEN {"running", "stubborn"} ELSE {"exited"} :
       child' = [child EXCEPT !.timedOut = TRUE, !.at = at]
  /\ UNCHANGED <<plan, stage, workspace, behind, output, verdict, fact, cases, outcome>>

(* The timer: it runs until all the outputs are closed.  It signals the    *)
(* process once, and a stubborn process ignores the signal.                *)
Timeout ==
  /\ Waiting /\ ~child.timedOut
  /\ \E at \in IF Alive THEN {"running", "stubborn"} ELSE {"exited"} :
       child' = [child EXCEPT !.timedOut = TRUE, !.at = at]
  /\ UNCHANGED <<plan, stage, workspace, behind, output, verdict, fact, cases, outcome>>

Terminate ==
  /\ Waiting /\ child.at = "running" /\ child.timedOut
  /\ child' = [child EXCEPT !.at = "exited", !.code = 1]
  /\ UNCHANGED <<plan, stage, workspace, behind, output, verdict, fact, cases, outcome>>

(* What the host has left behind closes the output, and goes on or ends.   *)
LetGo ==
  /\ behind = "holding"
  /\ behind' \in {"nothing", "editing"}
  /\ UNCHANGED <<plan, stage, workspace, child, output, verdict, fact, cases, outcome>>

(* Mutant: the exit code of a process that has timed out is its own.       *)
ExitCodeOwn == child.code

ExitCode == IF child.timedOut THEN 124 ELSE child.code

Closed == child # None /\ child.at = "exited" /\ (stage = "host" => behind # "holding")

(* The outputs are closed: the promise of the executor resolves.           *)
HostClosed ==
  /\ stage = "host" /\ Closed
  /\ host' = [exitCode |-> ExitCode, usage |-> usage]
  /\ fact' = IF child.code = 0 /\ ~child.timedOut THEN fact \cup {"exited_well"} ELSE fact
  /\ child' = None
  /\ Go("manifest")
  /\ UNCHANGED <<plan, workspace, behind, output, changed, passed, cases, outcome>>

-----------------------------------------------------------------------------
(* validateLivePatch: the workspace is compared with the fixture ...       *)
AfterValidation == IF Mode = "optimized" THEN "ledgers" ELSE "report"

(* The last word is with the changed files.  Where no change is expected,  *)
(* what the command has said is overwritten.                               *)
AsExpected(ok, files) ==
  IF Scenario.expected = {} THEN files = {} ELSE ok /\ Scenario.expected \subseteq files

Manifest ==
  LET files == {f \in Files : workspace[f] # "fixture"} IN
  /\ stage = "manifest"
  /\ changed' = files
  /\ IF Scenario.command = "fixed"
     THEN Go("spawn_validator") /\ UNCHANGED passed
     ELSE /\ passed' = (Scenario.command = "none" /\ AsExpected(TRUE, files))
          /\ Go(AfterValidation)
  /\ UNCHANGED <<plan, workspace, process, output, host, fact, cases, outcome>>

(* ... a file of which may be gone before it is read.                      *)
ManifestFails == stage = "manifest" /\ behind # "nothing" /\ Fails

SpawnValidator ==
  \/ /\ stage = "spawn_validator"
     /\ Started /\ Go("validator")
     /\ UNCHANGED <<plan, workspace, behind, output, verdict, fact, cases, outcome>>
  \/ stage = "spawn_validator" /\ Fails

ValidatorClosed ==
  /\ stage = "validator" /\ Closed
  /\ passed' = AsExpected(ExitCode = 0, changed)
  /\ child' = None
  /\ Go(AfterValidation)
  /\ UNCHANGED <<plan, workspace, behind, output, host, changed, fact, cases, outcome>>

(* readOptimizerLedgers: the cache of the case may not open.               *)
ReadLedgers ==
  /\ stage = "ledgers"
  /\ \/ /\ Go("warm")
        /\ UNCHANGED <<plan, workspace, process, output, verdict, fact, cases, outcome>>
     \/ Fails

(* evaluateHookBudget.                                                     *)
Adhered ==
  /\ hooks # None
  /\ hooks <= ResponseBudget
  /\ IF Scenario.skip THEN hooks = 0 ELSE hooks > 0

Success(reused) ==
  /\ host.exitCode = 0 /\ passed /\ host.usage # None
  /\ Mode = "baseline" \/ (Adhered /\ reused)

Result(reused) ==
  [pair |-> pair, mode |-> Mode, order |-> 3 - Len(modes),
   success |-> Success(reused), usage |-> host.usage,
   evidence |-> Adhered /\ reused,
   truth |-> IF Success(reused) THEN fact ELSE {}]

(* The next repetition of the scenario, or the next scenario.              *)
Advance ==
  LET n == pair[1] repetition == pair[2] IN
  \/ /\ repetition < Repetitions
     /\ pair' = <<n, repetition + 1>> /\ Go("pair") /\ UNCHANGED outcome
  \/ /\ repetition = Repetitions /\ n < Len(Scenarios)
     /\ pair' = <<n + 1, 1>> /\ Go("pair") /\ UNCHANGED outcome
  \/ /\ repetition = Repetitions /\ n = Len(Scenarios)
     /\ Go("ended") /\ outcome' = "reported" /\ UNCHANGED pair

(* The case is reported; measureWarmCacheReuse, with what it fails with,   *)
(* is part of an optimized case.                                           *)
Report ==
  /\ \/ stage = "report" /\ cases' = Append(cases, Result(FALSE))
     \/ stage = "warm" /\ \E reused \in BOOLEAN : cases' = Append(cases, Result(reused))
  /\ modes' = Tail(modes)
  /\ IF Len(modes) = 2
     THEN Go("copy") /\ UNCHANGED <<pair, outcome>>
     ELSE Advance
  /\ Clear
  /\ UNCHANGED <<workspace, child>>

RunnerStep ==
  \/ NextPair \/ Copy \/ Install \/ SpawnHost \/ HostClosed \/ Manifest
  \/ SpawnValidator \/ ValidatorClosed \/ ReadLedgers \/ Report

ProcessStep ==
  \/ \E f \in Files : Edit(f)
  \/ \E u \in Usages : PrintUsage(u)
  \/ \E tokens \in HookTokens : RunHook(tokens)
  \/ \E code \in 0 .. 1 : Exit(code)
  \/ LetGo

Next == RunnerStep \/ ManifestFails \/ Timeout \/ Terminate \/ ProcessStep

(* The runner goes on, its timer fires, and a process that heeds the       *)
(* signal ends.  Nothing else about the processes is certain.              *)
Spec == Init /\ [][Next]_vars
        /\ WF_vars(RunnerStep) /\ WF_vars(Timeout) /\ WF_vars(Terminate)

-----------------------------------------------------------------------------
(* summarizeLiveBenchmarkReport: what the gates of a release are computed  *)
(* from.  Prices are per token, so that costs are whole numbers.           *)
Of(mode) == {n \in DOMAIN cases : cases[n].mode = mode}
Total(u) == u.input + u.output
Cost(u) == (u.input - u.cached) * Price.input + u.cached * Price.cached + u.output * Price.output
CaseCost(n) == IF cases[n].usage = None THEN 0 ELSE Cost(cases[n].usage)
CostOf(mode) == MapThenSumSet(CaseCost, Of(mode))
Successes(mode) == Cardinality({n \in Of(mode) : cases[n].success})

(* distribution, percentile: the median, rounded half up.                  *)
Median(values) ==
  LET sorted == SortSeq(values, <) n == Len(sorted) IN
  IF n % 2 = 1 THEN sorted[(n + 1) \div 2]
  ELSE (sorted[n \div 2] + sorted[n \div 2 + 1] + 1) \div 2

MedianOf(mode) ==
  LET good == SetToSeq({n \in Of(mode) : cases[n].success /\ cases[n].usage # None}) IN
  IF good = <<>> THEN None ELSE Median([i \in DOMAIN good |-> Total(cases[good[i]].usage)])

MedianReduced ==
  LET before == MedianOf("baseline") after == MedianOf("optimized") IN
  /\ before # None /\ after # None
  /\ before > 0 /\ (before - after) * 100 >= 15 * before

CostPerSuccessLower ==
  /\ Successes("baseline") > 0 /\ Successes("optimized") > 0
  /\ CostOf("optimized") * Successes("baseline") < CostOf("baseline") * Successes("optimized")

(* The cases of a pair in the report, by the id of its scenario and the    *)
(* repetition: the last of each mode.                                      *)
Key(p) == <<Scenarios[p[1]].id, p[2]>>
CaseOf(p, mode) ==
  LET of == {n \in Of(mode) : Key(cases[n].pair) = Key(p)} IN
  IF of = {} THEN None ELSE cases[Max(of)]

Regressed(p) ==
  LET before == CaseOf(p, "baseline") after == CaseOf(p, "optimized") IN
  /\ before # None /\ after # None
  /\ before.usage # None /\ after.usage # None
  /\ Total(after.usage) * 10 > Total(before.usage) * 11

(* Mutant: the cases with the optimizer decide.                            *)
AllCasesSuccessfulOptimized == \A n \in DOMAIN cases : cases[n].mode = "baseline" \/ cases[n].success

AllCasesSuccessful == cases # <<>> /\ \A n \in DOMAIN cases : cases[n].success

(* summarizeReleaseGates.  The gates for the budget of the hook and for    *)
(* the warm cache ask for the evidence of every optimized case.            *)
ReleasePassed ==
  /\ cases # <<>> /\ \A n \in DOMAIN cases : cases[n].usage # None
  /\ AllCasesSuccessful
  /\ MedianReduced
  /\ CostPerSuccessLower
  /\ \A n \in DOMAIN cases : ~Regressed(cases[n].pair)
  /\ Of("optimized") # {}
  /\ \A n \in Of("optimized") : cases[n].evidence

-----------------------------------------------------------------------------
(* What a success stands for: a host that exited by itself with 0 within   *)
(* the time limit and, where changes are expected, has made some itself,   *)
(* and a validator that has passed.                                        *)
TrueSuccess(c) ==
  LET scenario == Scenarios[c.pair[1]] IN
  /\ "exited_well" \in c.truth
  /\ scenario.expected # {} =>
       /\ "worked" \in c.truth
       /\ scenario.command = "fixed" => "validated" \in c.truth

(* A case counts as a success only if it truly was one: nothing is owed to *)
(* a process that was ended, to the files of an earlier case, to a process *)
(* left behind or to a stage that failed (runLiveBenchmarkCase,            *)
(* createLiveProcessExecutor).                                             *)
SuccessIsEarned == \A n \in DOMAIN cases : cases[n].success => TrueSuccess(cases[n])

(* A failed validation is not a successful task, as the report says: also  *)
(* where the scenario expects no file to change (validateLivePatch).       *)
FailedValidationFails ==
  \A n \in DOMAIN cases :
    (cases[n].success /\ Scenarios[cases[n].pair[1]].command = "fixed") => "validated" \in cases[n].truth

(* A release passes only on a run in which every task was in truth done    *)
(* with and without the optimizer, in which the tasks together became      *)
(* cheaper and no task took over a tenth more tokens; rounded medians and  *)
(* failed cases cannot hide it (summarizeReleaseGates).                    *)
ReleaseIsEarned ==
  (outcome = "reported" /\ ReleasePassed) =>
    /\ CostOf("optimized") < CostOf("baseline")
    /\ \A n \in DOMAIN cases :
         /\ TrueSuccess(cases[n])
         /\ cases[n].mode = "optimized" =>
              Total(cases[n].usage) * 10 <= Total(CaseOf(cases[n].pair, "baseline").usage) * 11

(* A process that ignores the one signal it gets, or leaves behind a       *)
(* process that holds its output, keeps the runner waiting.                *)
Hung == child # None /\ child.timedOut
        /\ (child.at = "stubborn" \/ (stage = "host" /\ behind = "holding"))

(* Every run reports or rejects in the end, whatever a host does, unless a *)
(* process outlives its time limit for good (createLiveProcessExecutor).   *)
RunEnds == (outcome = "running") ~> (outcome # "running" \/ Hung)
=============================================================================
