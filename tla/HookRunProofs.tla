--------------------------- MODULE HookRunProofs ---------------------------
(***************************************************************************)
(* The theorems about the records of the user-prompt hook, for any number  *)
(* of runs that overlap, time out, fail and are killed at any stage.  The  *)
(* argument: a table in which the records come in order stays such a table *)
(* under every set, because a run that is at a set has already put what    *)
(* the next record refers to into its own copy; and a run publishes only   *)
(* copies, so that it does not matter whose copy wins.                     *)
(***************************************************************************)
EXTENDS HookRun, TLAPS

(* The records of a table refer only to records that it has, too, and its  *)
(* index is not a partial one.                                             *)
Complete(table) ==
  /\ table.index # "partial"
  /\ \A r \in Runs :
       /\ table.evidence[r] = "context_injected" => table.index = "whole" /\ table.analysis = TRUE
       /\ r \in table.ledger => table.evidence[r] # "none"

(* What a run that has come to a stage has got.                            *)
Found(r) ==
  /\ stage[r] \in {"analyze", "build", "set_index"} => index[r] = "whole"
  /\ stage[r] \in {"discover", "analyze", "build", "set_index", "set_analysis", "write"} =>
       mode[r] = "optimize"
  /\ stage[r] \in {"initialize", "set_index", "set_analysis", "set_evidence", "set_ledger"} =>
       cached[r] = TRUE

(* And what it has put into its copy of the table.                         *)
Prepared(r) ==
  /\ stage[r] \in {"set_analysis", "set_evidence", "set_ledger"} /\ mode[r] = "optimize" =>
       view[r].index = "whole"
  /\ stage[r] \in {"set_evidence", "set_ledger"} /\ mode[r] = "optimize" =>
       view[r].analysis = TRUE
  /\ stage[r] = "set_ledger" =>
       view[r].evidence[r] = IF mode[r] = "skip" THEN "skipped" ELSE "context_injected"

Announced(r) ==
  cached[r] = TRUE /\ (stage[r] = "write" \/ answer[r] = "context") => r \in recorded

HookInv ==
  /\ TypeOK
  /\ Complete(saved)
  /\ \A r \in Runs : Complete(view[r]) /\ Found(r) /\ Prepared(r) /\ Announced(r)

-----------------------------------------------------------------------------
(* The tables that the sets make.                                          *)
LEMMA TableOfIndex ==
  ASSUME HookInv, NEW r \in Runs, stage[r] = "set_index"
  PROVE  LET table == [view[r] EXCEPT !.index = index[r]] IN
         table \in Tables /\ Complete(table) /\ table.index = "whole"
  BY DEF HookInv, TypeOK, Tables, Complete, Found

LEMMA TableOfAnalysis ==
  ASSUME HookInv, NEW r \in Runs
  PROVE  LET table == [view[r] EXCEPT !.analysis = TRUE] IN
         table \in Tables /\ Complete(table) /\ table.analysis = TRUE /\ table.index = view[r].index
  BY DEF HookInv, TypeOK, Tables, Complete

LEMMA TableOfEvidence ==
  ASSUME HookInv, NEW r \in Runs, stage[r] = "set_evidence"
  PROVE  LET outcome == IF mode[r] = "skip" THEN "skipped" ELSE "context_injected"
             table == [view[r] EXCEPT !.evidence[r] = outcome] IN
         /\ table \in Tables /\ Complete(table)
         /\ table.index = view[r].index /\ table.analysis = view[r].analysis
         /\ table.evidence[r] = outcome
  <1>. DEFINE outcome == IF mode[r] = "skip" THEN "skipped" ELSE "context_injected"
              evidence == [view[r].evidence EXCEPT ![r] = outcome]
              table == [view[r] EXCEPT !.evidence = evidence]
  <1>1. view[r] \in Tables /\ evidence \in [Runs -> Outcomes] /\ evidence[r] = outcome
    BY DEF HookInv, TypeOK, Tables, Outcomes
  <1>2. \A q \in Runs : q # r => evidence[q] = view[r].evidence[q]
    BY <1>1 DEF Tables
  <1>. HIDE DEF evidence
  <1>3. /\ table \in Tables /\ table.evidence = evidence
        /\ table.index = view[r].index /\ table.analysis = view[r].analysis
        /\ table.ledger = view[r].ledger
    BY <1>1 DEF Tables
  <1>4. outcome # "none" /\ (outcome = "context_injected" =>
           view[r].index = "whole" /\ view[r].analysis = TRUE)
    BY DEF HookInv, TypeOK, Prepared
  <1>5. Complete(table)
    BY <1>1, <1>2, <1>3, <1>4 DEF HookInv, Complete
  <1>6. QED
    BY <1>1, <1>3, <1>5 DEF evidence

LEMMA TableOfLedger ==
  ASSUME HookInv, NEW r \in Runs, stage[r] = "set_ledger"
  PROVE  LET table == [view[r] EXCEPT !.ledger = @ \cup {r}] IN
         /\ table \in Tables /\ Complete(table)
         /\ r \in table.ledger /\ table.evidence[r] = view[r].evidence[r]
  <1>. DEFINE table == [view[r] EXCEPT !.ledger = @ \cup {r}]
  <1>1. view[r] \in Tables /\ Complete(view[r]) /\ view[r].evidence[r] # "none"
    BY DEF HookInv, TypeOK, Prepared
  <1>2. /\ table \in Tables /\ table.ledger = view[r].ledger \cup {r}
        /\ table.index = view[r].index /\ table.analysis = view[r].analysis
        /\ table.evidence = view[r].evidence
    BY <1>1 DEF Tables
  <1>3. Complete(table)
    BY <1>1, <1>2 DEF Complete
  <1>4. QED
    BY <1>2, <1>3

-----------------------------------------------------------------------------
(* A save publishes a complete table and goes on, or throws.               *)
LEMMA SaveEffect ==
  ASSUME HookInv, NEW r \in Runs, NEW table \in Tables, Complete(table), NEW ACTION goOn,
         Save(r, table, goOn)
  PROVE  /\ saved' \in Tables /\ damaged' \in BOOLEAN /\ Complete(saved')
         /\ view' = [view EXCEPT ![r] = table]
         /\ cached' = cached /\ mode' = mode
         /\ index' = index /\ aborted' = aborted /\ answer' = answer
         /\ recorded \subseteq recorded' /\ recorded' \subseteq Runs
         /\ \/ goOn /\ (r \in table.ledger /\ table.evidence[r] = "context_injected" =>
                          r \in recorded')
            \/ Goto(r, "catch")
  BY DEF Save, HookInv, TypeOK, Tables, input

(* Whatever one run does, the others have what they had.                   *)
LEMMA OthersKeep ==
  ASSUME HookInv, NEW r \in Runs,
         \A q \in Runs \ {r} : /\ stage'[q] = stage[q] /\ view'[q] = view[q]
                               /\ index'[q] = index[q] /\ answer'[q] = answer[q],
         cached' = cached, mode' = mode, recorded \subseteq recorded'
  PROVE  \A q \in Runs \ {r} : Complete(view'[q]) /\ Found(q)' /\ Prepared(q)' /\ Announced(q)'
  BY DEF HookInv, Found, Prepared, Announced

(* What is left to show of a step of one run.                              *)
LEMMA RunPreserves ==
  ASSUME HookInv, NEW r \in Runs, TypeOK', Complete(saved'),
         \A q \in Runs \ {r} : /\ stage'[q] = stage[q] /\ view'[q] = view[q]
                               /\ index'[q] = index[q] /\ answer'[q] = answer[q],
         cached' = cached, mode' = mode, recorded \subseteq recorded',
         Complete(view'[r]), Found(r)', Prepared(r)', Announced(r)'
  PROVE  HookInv'
  BY OthersKeep DEF HookInv

LEMMA HookInit == Init => HookInv
  BY DEF Init, HookInv, TypeOK, NoRecords, Tables, Indexes, Outcomes, Stages,
         Complete, Found, Prepared, Announced

(* The stages in which nothing is saved.                                   *)
LEMMA QuietStep ==
  ASSUME HookInv, NEW r \in Runs,
         \/ Start(r) \/ LoadCache(r) \/ Discover(r) \/ Analyze(r) \/ BuildPack(r)
         \/ WriteOutput(r) \/ Catch(r) \/ Kill(r)
  PROVE  HookInv'
  <1>. USE DEF HookInv, TypeOK, Goto, store, input, Stages
  <1>1. CASE Start(r)
    <2>1. TypeOK' /\ Found(r)' /\ Prepared(r)' /\ Announced(r)'
      BY <1>1 DEF Start, Found, Prepared, Announced
    <2>2. QED
      BY <1>1, <2>1, RunPreserves DEF Start
  <1>2. CASE LoadCache(r)
    <2>1. TypeOK' /\ Found(r)' /\ Prepared(r)' /\ Announced(r)' /\ Complete(view'[r])
      BY <1>2 DEF LoadCache, Opened, GotoUnlessAborted, Found, Prepared, Announced
    <2>2. QED
      BY <1>2, <2>1, RunPreserves DEF LoadCache, Opened, GotoUnlessAborted
  <1>3. CASE Discover(r)
    <2>1. TypeOK' /\ Found(r)' /\ Prepared(r)' /\ Announced(r)'
      BY <1>3 DEF Discover, GotoUnlessAborted, Found, Prepared, Announced, Indexes
    <2>2. QED
      BY <1>3, <2>1, RunPreserves DEF Discover, GotoUnlessAborted
  <1>4. CASE Analyze(r)
    <2>1. TypeOK' /\ Found(r)' /\ Prepared(r)' /\ Announced(r)'
      BY <1>4 DEF Analyze, GotoUnlessAborted, Found, Prepared, Announced
    <2>2. QED
      BY <1>4, <2>1, RunPreserves DEF Analyze, GotoUnlessAborted
  <1>5. CASE BuildPack(r)
    <2>1. TypeOK' /\ Found(r)' /\ Prepared(r)' /\ Announced(r)'
      BY <1>5 DEF BuildPack, GotoUnlessAborted, Found, Prepared, Announced
    <2>2. QED
      BY <1>5, <2>1, RunPreserves DEF BuildPack, GotoUnlessAborted
  <1>6. CASE WriteOutput(r)
    <2>1. TypeOK' /\ Found(r)' /\ Prepared(r)' /\ Announced(r)'
      BY <1>6 DEF WriteOutput, Found, Prepared, Announced
    <2>2. QED
      BY <1>6, <2>1, RunPreserves DEF WriteOutput
  <1>7. CASE Catch(r)
    <2>1. TypeOK' /\ Found(r)' /\ Prepared(r)' /\ Announced(r)'
      BY <1>7 DEF Catch, Found, Prepared, Announced
    <2>2. QED
      BY <1>7, <2>1, RunPreserves DEF Catch
  <1>8. CASE Kill(r)
    <2>1. TypeOK' /\ Found(r)' /\ Prepared(r)' /\ Announced(r)'
      BY <1>8 DEF Kill, Found, Prepared, Announced
    <2>2. QED
      BY <1>8, <2>1, RunPreserves DEF Kill
  <1>9. QED
    BY <1>1, <1>2, <1>3, <1>4, <1>5, <1>6, <1>7, <1>8

(* The stages that end in a save.                                          *)
LEMMA SavingStep ==
  ASSUME HookInv, NEW r \in Runs,
         \/ InitializeCache(r) \/ SetIndex(r) \/ SetAnalysis(r) \/ SetEvidence(r) \/ SetLedger(r)
  PROVE  HookInv'
  <1>. USE DEF HookInv, TypeOK, Goto, Stages
  <1>1. CASE InitializeCache(r)
    <2>1. Save(r, view[r], Opened(r))
      BY <1>1 DEF InitializeCache
    <2>2. view[r] \in Tables /\ Complete(view[r]) /\ cached[r] = TRUE
      BY <1>1 DEF InitializeCache, Found
    <2>3. /\ saved' \in Tables /\ damaged' \in BOOLEAN /\ Complete(saved')
          /\ view' = [view EXCEPT ![r] = view[r]]
          /\ cached' = cached /\ mode' = mode
          /\ index' = index /\ aborted' = aborted /\ answer' = answer
          /\ recorded \subseteq recorded' /\ recorded' \subseteq Runs
          /\ Opened(r) \/ Goto(r, "catch")
      BY <2>1, <2>2, SaveEffect
    <2>4. TypeOK' /\ Found(r)' /\ Prepared(r)' /\ Announced(r)' /\ Complete(view'[r])
      BY <2>2, <2>3 DEF Opened, GotoUnlessAborted, Found, Prepared, Announced
    <2>5. QED
      BY <2>3, <2>4, RunPreserves DEF Opened, GotoUnlessAborted
  <1>2. CASE SetIndex(r)
    <2>. DEFINE table == [view[r] EXCEPT !.index = index[r]]
    <2>1. Save(r, table, Goto(r, "set_analysis"))
      BY <1>2 DEF SetIndex
    <2>2. table \in Tables /\ Complete(table) /\ table.index = "whole"
      BY <1>2, TableOfIndex DEF SetIndex
    <2>. HIDE DEF table
    <2>3. /\ saved' \in Tables /\ damaged' \in BOOLEAN /\ Complete(saved')
          /\ view' = [view EXCEPT ![r] = table]
          /\ cached' = cached /\ mode' = mode
          /\ index' = index /\ aborted' = aborted /\ answer' = answer
          /\ recorded \subseteq recorded' /\ recorded' \subseteq Runs
          /\ Goto(r, "set_analysis") \/ Goto(r, "catch")
      BY <2>1, <2>2, SaveEffect
    <2>4. TypeOK' /\ Found(r)' /\ Prepared(r)' /\ Announced(r)' /\ Complete(view'[r])
      BY <1>2, <2>2, <2>3 DEF SetIndex, Found, Prepared, Announced
    <2>5. QED
      BY <2>3, <2>4, RunPreserves
  <1>3. CASE SetAnalysis(r)
    <2>. DEFINE table == [view[r] EXCEPT !.analysis = TRUE]
    <2>1. Save(r, table, Goto(r, "set_evidence"))
      BY <1>3 DEF SetAnalysis
    <2>2. table \in Tables /\ Complete(table) /\ table.analysis = TRUE /\ table.index = view[r].index
      BY TableOfAnalysis
    <2>. HIDE DEF table
    <2>3. /\ saved' \in Tables /\ damaged' \in BOOLEAN /\ Complete(saved')
          /\ view' = [view EXCEPT ![r] = table]
          /\ cached' = cached /\ mode' = mode
          /\ index' = index /\ aborted' = aborted /\ answer' = answer
          /\ recorded \subseteq recorded' /\ recorded' \subseteq Runs
          /\ Goto(r, "set_evidence") \/ Goto(r, "catch")
      BY <2>1, <2>2, SaveEffect
    <2>4. TypeOK' /\ Found(r)' /\ Prepared(r)' /\ Announced(r)' /\ Complete(view'[r])
      BY <1>3, <2>2, <2>3 DEF SetAnalysis, Found, Prepared, Announced
    <2>5. QED
      BY <2>3, <2>4, RunPreserves
  <1>4. CASE SetEvidence(r)
    <2>. DEFINE outcome == IF mode[r] = "skip" THEN "skipped" ELSE "context_injected"
                table == [view[r] EXCEPT !.evidence[r] = outcome]
    <2>1. Save(r, table, Goto(r, "set_ledger"))
      BY <1>4 DEF SetEvidence
    <2>2. /\ table \in Tables /\ Complete(table)
          /\ table.index = view[r].index /\ table.analysis = view[r].analysis
          /\ table.evidence[r] = outcome
      BY <1>4, TableOfEvidence DEF SetEvidence
    <2>. HIDE DEF table
    <2>3. /\ saved' \in Tables /\ damaged' \in BOOLEAN /\ Complete(saved')
          /\ view' = [view EXCEPT ![r] = table]
          /\ cached' = cached /\ mode' = mode
          /\ index' = index /\ aborted' = aborted /\ answer' = answer
          /\ recorded \subseteq recorded' /\ recorded' \subseteq Runs
          /\ Goto(r, "set_ledger") \/ Goto(r, "catch")
      BY <2>1, <2>2, SaveEffect
    <2>4. TypeOK' /\ Found(r)' /\ Prepared(r)' /\ Announced(r)' /\ Complete(view'[r])
      BY <1>4, <2>2, <2>3 DEF SetEvidence, Found, Prepared, Announced
    <2>5. QED
      BY <2>3, <2>4, RunPreserves
  <1>5. CASE SetLedger(r)
    <2>. DEFINE table == [view[r] EXCEPT !.ledger = @ \cup {r}]
                next == IF mode[r] = "skip" THEN "done" ELSE "write"
    <2>1. Save(r, table, Goto(r, next))
      BY <1>5 DEF SetLedger
    <2>2. /\ table \in Tables /\ Complete(table)
          /\ r \in table.ledger /\ table.evidence[r] = view[r].evidence[r]
      BY <1>5, TableOfLedger DEF SetLedger
    <2>. HIDE DEF table, next
    <2>3. /\ saved' \in Tables /\ damaged' \in BOOLEAN /\ Complete(saved')
          /\ view' = [view EXCEPT ![r] = table]
          /\ cached' = cached /\ mode' = mode
          /\ index' = index /\ aborted' = aborted /\ answer' = answer
          /\ recorded \subseteq recorded' /\ recorded' \subseteq Runs
          /\ \/ Goto(r, next) /\ (r \in table.ledger /\ table.evidence[r] = "context_injected" =>
                                    r \in recorded')
             \/ Goto(r, "catch")
      BY <2>1, <2>2, SaveEffect
    <2>4. mode[r] # "skip" => table.evidence[r] = "context_injected"
      BY <1>5, <2>2 DEF SetLedger, Prepared
    <2>5. TypeOK' /\ Found(r)' /\ Prepared(r)' /\ Announced(r)' /\ Complete(view'[r])
      BY <1>5, <2>2, <2>3, <2>4 DEF next, SetLedger, Found, Prepared, Announced
    <2>6. QED
      BY <2>3, <2>5, RunPreserves DEF next
  <1>6. QED
    BY <1>1, <1>2, <1>3, <1>4, <1>5

LEMMA HookNext == HookInv /\ [Next]_vars => HookInv'
  <1>. SUFFICES ASSUME HookInv, [Next]_vars
                PROVE  HookInv'
    OBVIOUS
  <1>1. ASSUME NEW r \in Runs, Start(r) \/ Step(r) \/ Kill(r)
        PROVE  HookInv'
    BY <1>1, QuietStep, SavingStep DEF Step
  <1>2. ASSUME NEW r \in Runs, Expire(r)
        PROVE  HookInv'
    BY <1>2 DEF Expire, HookInv, TypeOK, Found, Prepared, Announced, store, input
  <1>3. CASE RepairCache
    <2>1. Complete(NoRecords) /\ NoRecords \in Tables
      BY DEF NoRecords, Tables, Indexes, Outcomes, Complete
    <2>2. QED
      BY <1>3, <2>1 DEF RepairCache, HookInv, TypeOK, Found, Prepared, Announced, input
  <1>4. CASE UNCHANGED vars
    BY <1>4 DEF vars, HookInv, TypeOK, Found, Prepared, Announced
  <1>5. QED
    BY <1>1, <1>2, <1>3, <1>4 DEF Next

(* However runs of the hook overlap, expire, fail and are killed, what the *)
(* theorems below rest on holds (runUserPromptHook).                       *)
THEOREM HookInvariant == Spec => []HookInv
  BY HookInit, HookNext, PTL DEF Spec

-----------------------------------------------------------------------------
(* Every reachable state of the hook is well typed (runUserPromptHook).    *)
THEOREM HookTypeCorrect == Spec => []TypeOK
  BY HookInvariant, PTL DEF HookInv

(* What a run that was cut short has found is never saved as the index     *)
(* (throwIfAborted after discoverWorkspace), for any number of runs.       *)
THEOREM IndexesWhole == Spec => []OnlyWholeIndexes
  <1>1. HookInv => OnlyWholeIndexes
    BY DEF HookInv, Complete, OnlyWholeIndexes
  <1>2. QED
    BY <1>1, HookInvariant, PTL

(* Where there is the evidence of an injection in the file, there are a    *)
(* whole index and an analysis, and where there is a ledger there is       *)
(* evidence of its run, whichever run saves its copy of the cache last.    *)
THEOREM RecordsInOrder == Spec => []RecordsComeInOrder
  <1>1. HookInv => RecordsComeInOrder
    BY DEF HookInv, Complete, RecordsComeInOrder
  <1>2. QED
    BY <1>1, HookInvariant, PTL

(* No context reaches the host before its evidence and ledger were saved.  *)
THEOREM InjectionsRecorded == Spec => []ContextIsRecorded
  <1>1. HookInv => ContextIsRecorded
    BY DEF HookInv, Announced, ContextIsRecorded
  <1>2. QED
    BY <1>1, HookInvariant, PTL
=============================================================================
