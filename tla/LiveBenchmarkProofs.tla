------------------------ MODULE LiveBenchmarkProofs ------------------------
(***************************************************************************)
(* The theorems that a live benchmark counts as a success only what truly  *)
(* was one and that a release passes only on what truly were better runs,  *)
(* for any scenarios, repetitions, files, usages and prices, whatever      *)
(* hosts and validators do.  The argument: what a case counts as is made   *)
(* of the exit code of the host, the files that differ and the verdict of  *)
(* the validator; each of these, from the stage on at which it is found,   *)
(* stands for something that has happened in this case and that nothing    *)
(* undoes before the case is reported.  The list of the cases follows the  *)
(* plan, so that a reported run has each case once, as many with the       *)
(* optimizer as without it.  Then a lower cost per success is a lower cost *)
(* of the whole, and every case is compared with that of its own pair.     *)
(***************************************************************************)
EXTENDS LiveBenchmark, FiniteSetTheorems, SequenceTheorems, WellFoundedInduction, TLAPS

Working == Stages \ {"pair", "copy", "ended"}
Compared == {"spawn_validator", "validator", "ledgers", "warm", "report"}
Judged == {"ledgers", "warm", "report"}

(* Whether the files and the verdict are those of a true success.          *)
Done(scenario) ==
  scenario.expected # {} =>
    /\ "worked" \in fact
    /\ scenario.command = "fixed" => "validated" \in fact

(* What is known of the case, by its stage.                                *)
Grounded ==
  /\ stage \in Working /\ (\E f \in Files : workspace[f] # "fixture") => "worked" \in fact
  /\ stage \in Compared /\ changed # {} => "worked" \in fact
  /\ stage \in Compared \cup {"manifest"} /\ host.exitCode = 0 => "exited_well" \in fact
  /\ stage = "validator" /\ child.at = "exited" /\ child.code = 0 => "validated" \in fact
  /\ stage \in Judged /\ passed = TRUE => Done(Scenario)

Shaped ==
  /\ stage \in Stages
  /\ workspace \in [Files -> Versions]
  /\ child \in Children \cup {None}
  /\ stage \in {"host", "validator"} => child \in Children
  /\ cases \in Seq({cases[n] : n \in DOMAIN cases})

EarnInv == Shaped /\ Grounded /\ SuccessIsEarned

LEMMA EarnInit == Init => EarnInv
  <1>. SUFFICES ASSUME Init
                PROVE  EarnInv
    OBVIOUS
  <1>1. Shaped
    BY DEF Init, Shaped, Stages, Versions
  <1>2. Grounded
    BY DEF Init, Grounded, Working, Compared, Judged
  <1>3. SuccessIsEarned
    BY DEF Init, SuccessIsEarned
  <1>4. QED
    BY <1>1, <1>2, <1>3 DEF EarnInv

-----------------------------------------------------------------------------
(* The records of a process that the executor makes.                       *)
New == [at |-> "running", code |-> 0, timedOut |-> FALSE]
Ended(c, code) == [c EXCEPT !.at = "exited", !.code = code]
Signalled(c, at) == [c EXCEPT !.timedOut = TRUE, !.at = at]

LEMMA ProcessRecords ==
  /\ New \in Children
  /\ \A c \in Children :
       /\ \A code \in 0 .. 1 : Ended(c, code) \in Children /\ Ended(c, code).code = code
       /\ \A at \in {"running", "stubborn", "exited"} :
            /\ Signalled(c, at) \in Children
            /\ Signalled(c, at).code = c.code /\ Signalled(c, at).at = at
  <1>1. 0 \in 0 .. 1
    OBVIOUS
  <1>2. New \in Children
    BY <1>1, Zenon DEF New, Children
  <1>3. ASSUME NEW c \in Children, NEW code \in 0 .. 1
        PROVE  Ended(c, code) \in Children /\ Ended(c, code).code = code
    BY DEF Children, Ended
  <1>4. ASSUME NEW c \in Children, NEW at \in {"running", "stubborn", "exited"}
        PROVE  /\ Signalled(c, at) \in Children
               /\ Signalled(c, at).code = c.code /\ Signalled(c, at).at = at
    BY DEF Children, Signalled
  <1>5. QED
    BY <1>2, <1>3, <1>4

(* What a step leaves to show that reports no case.                        *)
LEMMA NothingReported ==
  ASSUME EarnInv, cases' = cases, Shaped', Grounded'
  PROVE  EarnInv'
  <1>1. SuccessIsEarned'
    BY DEF EarnInv, SuccessIsEarned, TrueSuccess
  <1>2. QED
    BY <1>1 DEF EarnInv

LEMMA FailsPreserves ==
  ASSUME EarnInv, Fails
  PROVE  EarnInv'
  <1>1. /\ stage' = "ended" /\ cases' = <<>> /\ child' = child
        /\ workspace' = [f \in Files |-> "fixture"]
    BY DEF Fails, Go
  <1>2. Shaped'
    BY <1>1 DEF EarnInv, Shaped, Stages, Versions
  <1>3. Grounded'
    BY <1>1 DEF Grounded, Working, Compared, Judged
  <1>4. SuccessIsEarned'
    BY <1>1 DEF SuccessIsEarned
  <1>5. QED
    BY <1>2, <1>3, <1>4 DEF EarnInv

(* The start of a case.                                                    *)
LEMMA AdapterPreserves ==
  ASSUME EarnInv, NextPair \/ Copy \/ Install \/ SpawnHost
  PROVE  EarnInv'
  <1>1. CASE Fails
    BY <1>1, FailsPreserves
  <1>2. CASE NextPair
    <2>1. Shaped'
      BY <1>2 DEF NextPair, Go, process, EarnInv, Shaped, Stages
    <2>2. Grounded'
      BY <1>2 DEF NextPair, Go, Grounded, Working, Compared, Judged
    <2>3. QED
      BY <1>2, <2>1, <2>2, NothingReported DEF NextPair
  <1>3. CASE Copy /\ ~Fails
    <2>1. /\ workspace' = [f \in Files |-> "fixture"] /\ stage' \in {"install", "spawn_host"}
          /\ child' = child /\ cases' = cases
      BY <1>3 DEF Copy, Go, process
    <2>2. Shaped'
      BY <2>1 DEF EarnInv, Shaped, Stages, Versions
    <2>3. Grounded'
      BY <2>1 DEF Grounded, Working, Compared, Judged
    <2>4. QED
      BY <2>1, <2>2, <2>3, NothingReported
  <1>4. CASE Install
    <2>1. /\ \/ stage' = "spawn_host"
             \/ stage' = "manifest" /\ host'.exitCode = 1
          /\ stage = "install" /\ UNCHANGED <<workspace, child, fact, cases>>
      BY <1>4 DEF Install, AdapterFailed, Go, process
    <2>2. Shaped'
      BY <2>1 DEF EarnInv, Shaped, Stages
    <2>3. Grounded'
      BY <2>1 DEF EarnInv, Grounded, Working, Compared, Judged, Stages
    <2>4. QED
      BY <2>1, <2>2, <2>3, NothingReported
  <1>5. CASE SpawnHost
    <2>1. /\ \/ stage' = "host" /\ child' = New
             \/ stage' = "manifest" /\ host'.exitCode = 1 /\ child' = child
          /\ stage = "spawn_host" /\ UNCHANGED <<workspace, fact, cases>>
      BY <1>5 DEF SpawnHost, AdapterFailed, Go, process, Started, New
    <2>2. Shaped'
      BY <2>1, ProcessRecords DEF EarnInv, Shaped, Stages
    <2>3. Grounded'
      BY <2>1 DEF EarnInv, Grounded, Working, Compared, Judged, Stages
    <2>4. QED
      BY <2>1, <2>2, <2>3, NothingReported
  <1>6. QED
    BY <1>1, <1>2, <1>3, <1>4, <1>5

(* The processes, and the executor that waits for them.                    *)
LEMMA ProcessPreserves ==
  ASSUME EarnInv, ProcessStep \/ Timeout \/ Terminate
  PROVE  EarnInv'
  <1>1. ASSUME NEW f \in Files, Edit(f)
        PROVE  EarnInv'
    <2>1. /\ workspace' \in [Files -> Versions] /\ fact' = fact \cup {"worked"}
          /\ UNCHANGED <<pair, stage, child, host, changed, passed, cases>>
      BY <1>1 DEF Edit, process, verdict, plan, EarnInv, Shaped
    <2>2. Shaped'
      BY <2>1 DEF EarnInv, Shaped
    <2>3. Grounded'
      BY <2>1 DEF EarnInv, Grounded, Done, Scenario
    <2>4. QED
      BY <2>1, <2>2, <2>3, NothingReported
  <1>2. ASSUME NEW code \in 0 .. 1, Exit(code)
        PROVE  EarnInv'
    <2>1. /\ child' = Ended(child, code) /\ stage \in {"host", "validator"}
          /\ fact \subseteq fact' /\ (stage = "validator" /\ code = 0 => "validated" \in fact')
          /\ UNCHANGED <<pair, stage, workspace, host, changed, passed, cases>>
      BY <1>2 DEF Exit, Ended, Waiting, verdict, plan
    <2>2. child \in Children
      BY <2>1 DEF EarnInv, Shaped
    <2>3. child' \in Children /\ child'.code = code
      BY <2>1, <2>2, ProcessRecords
    <2>4. Shaped'
      BY <2>1, <2>3 DEF EarnInv, Shaped
    <2>5. Grounded'
      BY <2>1, <2>3 DEF EarnInv, Grounded, Done, Scenario
    <2>6. QED
      BY <2>1, <2>4, <2>5, NothingReported
  <1>3. ASSUME Timeout
        PROVE  EarnInv'
    <2>1. /\ stage \in {"host", "validator"}
          /\ UNCHANGED <<pair, stage, workspace, fact, host, changed, passed, cases>>
      BY <1>3 DEF Timeout, Waiting, verdict, plan
    <2>2. PICK at \in IF Alive THEN {"running", "stubborn"} ELSE {"exited"} :
            child' = Signalled(child, at)
      BY <1>3 DEF Timeout, Signalled
    <2>3. at \in {"running", "stubborn", "exited"} /\ (at = "exited" => child.at = "exited")
      BY <2>1, <2>2, ChildrenAssumption DEF Alive, EarnInv, Shaped
    <2>4. child \in Children
      BY <2>1 DEF EarnInv, Shaped
    <2>5. child' \in Children /\ child'.code = child.code /\ (child'.at = "exited" => child.at = "exited")
      BY <2>2, <2>4, <2>3, ProcessRecords
    <2>6. Shaped'
      BY <2>1, <2>5 DEF EarnInv, Shaped
    <2>7. Grounded'
      BY <2>1, <2>5 DEF EarnInv, Grounded, Done, Scenario
    <2>8. QED
      BY <2>1, <2>6, <2>7, NothingReported
  <1>4. ASSUME Terminate
        PROVE  EarnInv'
    <2>1. /\ stage \in {"host", "validator"} /\ child' = Ended(child, 1)
          /\ UNCHANGED <<pair, stage, workspace, fact, host, changed, passed, cases>>
      BY <1>4 DEF Terminate, Ended, Waiting, verdict, plan
    <2>2. child \in Children
      BY <2>1 DEF EarnInv, Shaped
    <2>3. child' \in Children /\ child'.code = 1
      BY <2>1, <2>2, ProcessRecords
    <2>4. Shaped'
      BY <2>1, <2>3 DEF EarnInv, Shaped
    <2>5. Grounded'
      BY <2>1, <2>3 DEF EarnInv, Grounded, Done, Scenario
    <2>6. QED
      BY <2>1, <2>4, <2>5, NothingReported
  <1>5. CASE UNCHANGED <<pair, stage, workspace, child, fact, host, changed, passed, cases>>
    <2>1. Shaped'
      BY <1>5 DEF EarnInv, Shaped
    <2>2. Grounded'
      BY <1>5 DEF EarnInv, Grounded, Done, Scenario
    <2>3. QED
      BY <1>5, <2>1, <2>2, NothingReported
  <1>6. CASE LetGo \/ (\E u \in Usages : PrintUsage(u)) \/ (\E tokens \in HookTokens : RunHook(tokens))
    BY <1>5, <1>6 DEF LetGo, PrintUsage, RunHook, process, verdict, plan
  <1>7. QED
    BY <1>1, <1>2, <1>3, <1>4, <1>6 DEF ProcessStep

-----------------------------------------------------------------------------
(* The runner, once the host is done.                                      *)
LEMMA RunnerPreserves ==
  ASSUME EarnInv,
         HostClosed \/ Manifest \/ ManifestFails \/ SpawnValidator \/ ValidatorClosed \/ ReadLedgers
  PROVE  EarnInv'
  <1>1. CASE Fails
    BY <1>1, FailsPreserves
  <1>2. CASE HostClosed
    <2>1. /\ stage = "host" /\ stage' = "manifest" /\ child' = None /\ child \in Children
          /\ host' = [exitCode |-> ExitCode, usage |-> usage]
          /\ fact' = IF child.code = 0 /\ ~child.timedOut THEN fact \cup {"exited_well"} ELSE fact
          /\ UNCHANGED <<workspace, cases>>
      BY <1>2 DEF HostClosed, Go, EarnInv, Shaped
    <2>2. Shaped'
      BY <2>1 DEF EarnInv, Shaped, Stages
    <2>3. host'.exitCode = 0 => "exited_well" \in fact'
      BY <2>1 DEF ExitCode
    <2>4. Grounded'
      BY <2>1, <2>3 DEF EarnInv, Grounded, Working, Compared, Judged, Stages
    <2>5. QED
      BY <2>1, <2>2, <2>4, NothingReported
  <1>3. CASE Manifest
    <2>. DEFINE files == {f \in Files : workspace[f] # "fixture"}
    <2>1. /\ stage = "manifest" /\ changed' = files
          /\ \/ stage' = "spawn_validator"
             \/ /\ stage' \in {"ledgers", "report"}
                /\ passed' = (Scenario.command = "none" /\ AsExpected(TRUE, files))
          /\ UNCHANGED <<pair, workspace, child, host, fact, cases>>
      BY <1>3 DEF Manifest, Go, AfterValidation, process, plan
    <2>2. Shaped'
      BY <2>1 DEF EarnInv, Shaped, Stages
    <2>3. files # {} => "worked" \in fact
      BY <2>1 DEF EarnInv, Grounded, Working, Stages
    <2>4. ASSUME Scenario.command = "none", AsExpected(TRUE, files)
          PROVE  Done(Scenario)
      BY <2>3, <2>4 DEF AsExpected, Done
    <2>5. Scenario' = Scenario
      BY <2>1 DEF Scenario
    <2>. HIDE DEF files
    <2>6. stage' \in Judged /\ passed' = TRUE => Done(Scenario)'
      BY <2>1, <2>4, <2>5 DEF Judged, Done
    <2>7. Grounded'
      BY <2>1, <2>3, <2>6 DEF EarnInv, Grounded, Working, Compared, Stages
    <2>8. QED
      BY <2>1, <2>2, <2>7, NothingReported
  <1>4. CASE SpawnValidator /\ ~Fails
    <2>1. /\ stage = "spawn_validator" /\ stage' = "validator" /\ child' = New
          /\ UNCHANGED <<workspace, host, changed, fact, cases>>
      BY <1>4 DEF SpawnValidator, Started, New, Go, verdict
    <2>2. Shaped'
      BY <2>1, ProcessRecords DEF EarnInv, Shaped, Stages
    <2>3. New.at # "exited"
      BY DEF New
    <2>4. Grounded'
      BY <2>1, <2>3 DEF EarnInv, Grounded, Working, Compared, Judged, Stages
    <2>5. QED
      BY <2>1, <2>2, <2>4, NothingReported
  <1>5. CASE ValidatorClosed
    <2>1. /\ stage = "validator" /\ stage' \in {"ledgers", "report"} /\ child.at = "exited"
          /\ child' = None /\ passed' = AsExpected(ExitCode = 0, changed)
          /\ UNCHANGED <<pair, workspace, host, changed, fact, cases>>
      BY <1>5 DEF ValidatorClosed, Closed, Go, AfterValidation, plan
    <2>2. Shaped'
      BY <2>1 DEF EarnInv, Shaped, Stages
    <2>3. ExitCode = 0 => "validated" \in fact
      BY <2>1 DEF ExitCode, EarnInv, Grounded
    <2>4. changed # {} => "worked" \in fact
      BY <2>1 DEF EarnInv, Grounded, Compared
    <2>5. AsExpected(ExitCode = 0, changed) => Done(Scenario)
      BY <2>3, <2>4 DEF AsExpected, Done
    <2>6. Done(Scenario)' = Done(Scenario)
      BY <2>1 DEF Scenario, Done
    <2>7. Grounded'
      BY <2>1, <2>5, <2>6 DEF EarnInv, Grounded, Working, Compared, Judged, Stages
    <2>8. QED
      BY <2>1, <2>2, <2>7, NothingReported
  <1>6. CASE ReadLedgers /\ ~Fails
    <2>1. /\ stage = "ledgers" /\ stage' = "warm"
          /\ UNCHANGED <<pair, workspace, child, host, changed, passed, fact, cases>>
      BY <1>6 DEF ReadLedgers, Go, process, verdict, plan
    <2>2. Shaped'
      BY <2>1 DEF EarnInv, Shaped, Stages
    <2>3. Done(Scenario)' = Done(Scenario)
      BY <2>1 DEF Scenario, Done
    <2>4. Grounded'
      BY <2>1, <2>3 DEF EarnInv, Grounded, Working, Compared, Judged, Stages
    <2>5. QED
      BY <2>1, <2>2, <2>4, NothingReported
  <1>7. QED
    BY <1>1, <1>2, <1>3, <1>4, <1>5, <1>6 DEF ManifestFails

(* The case is reported with what is known of it.                          *)
LEMMA ReportPreserves ==
  ASSUME EarnInv, Report
  PROVE  EarnInv'
  <1>1. PICK reused : cases' = Append(cases, Result(reused))
    BY DEF Report
  <1>2. stage \in {"report", "warm"} /\ stage' \in {"copy", "ended", "pair"} /\ UNCHANGED <<workspace, child>>
    BY DEF Report, Go, Advance
  <1>. DEFINE T == {cases[n] : n \in DOMAIN cases} \cup {Result(reused)}
  <1>3. cases \in Seq(T) /\ Result(reused) \in T
    BY DEF EarnInv, Shaped
  <1>. HIDE DEF T
  <1>4. /\ Len(cases) \in Nat /\ DOMAIN cases = 1 .. Len(cases)
        /\ cases' \in Seq(T) /\ DOMAIN cases' = 1 .. Len(cases) + 1
        /\ \A n \in 1 .. Len(cases) + 1 :
             cases'[n] = IF n = Len(cases) + 1 THEN Result(reused) ELSE cases[n]
    BY <1>1, <1>3
  <1>5. Len(cases') = Len(cases) + 1
    BY <1>1, <1>3
  <1>6. cases' \in Seq({cases'[n] : n \in DOMAIN cases'})
    BY <1>4, <1>5
  <1>7. Shaped'
    BY <1>2, <1>6 DEF EarnInv, Shaped, Stages
  <1>8. Grounded'
    BY <1>2 DEF Grounded, Working, Compared, Judged
  <1>9. Result(reused).success => TrueSuccess(Result(reused))
    <2>1. /\ Result(reused).success = Success(reused) /\ Result(reused).pair = pair
          /\ Result(reused).truth = IF Success(reused) THEN fact ELSE {}
      BY DEF Result
    <2>2. Success(reused) => "exited_well" \in fact /\ Done(Scenario)
      BY <1>2 DEF Success, EarnInv, Grounded, Compared, Judged
    <2>3. QED
      BY <2>1, <2>2 DEF TrueSuccess, Done, Scenario
  <1>10. SuccessIsEarned'
    <2>1. ASSUME NEW n \in DOMAIN cases', cases'[n].success
          PROVE  TrueSuccess(cases'[n])
      <3>1. CASE n = Len(cases) + 1
        BY <1>4, <1>9, <2>1, <3>1
      <3>2. CASE n # Len(cases) + 1
        BY <1>4, <2>1, <3>2 DEF EarnInv, SuccessIsEarned
      <3>3. QED
        BY <3>1, <3>2
    <2>2. QED
      BY <2>1 DEF SuccessIsEarned, TrueSuccess
  <1>11. QED
    BY <1>7, <1>8, <1>10 DEF EarnInv

LEMMA EarnNext ==
  ASSUME EarnInv, [Next]_vars
  PROVE  EarnInv'
  <1>1. CASE UNCHANGED vars
    <2>1. UNCHANGED <<pair, stage, workspace, child, host, changed, passed, fact, cases>>
      BY <1>1 DEF vars, plan, process, verdict
    <2>2. Shaped'
      BY <2>1 DEF EarnInv, Shaped
    <2>3. Grounded'
      BY <2>1 DEF EarnInv, Grounded, Done, Scenario
    <2>4. QED
      BY <2>1, <2>2, <2>3, NothingReported
  <1>2. QED
    BY <1>1, AdapterPreserves, ProcessPreserves, RunnerPreserves, ReportPreserves
       DEF Next, RunnerStep

(* A live benchmark counts a case as a success only if the host of that    *)
(* case has exited with 0 in time and, where changes are expected, it has  *)
(* made some and the validator has passed (runLiveBenchmarkCase), for any  *)
(* scenarios and processes.                                                *)
THEOREM SuccessesAreEarned == Spec => []SuccessIsEarned
  <1>1. EarnInv => SuccessIsEarned
    BY DEF EarnInv
  <1>2. QED
    BY <1>1, EarnInit, EarnNext, PTL DEF Spec

-----------------------------------------------------------------------------
(* What is left of a pair: the modes that are not done, each once, and the *)
(* first of them is the one at hand.                                       *)
PairInv ==
  /\ modes \in Seq(Modes) /\ Len(modes) <= 2
  /\ stage \in {"pair", "ended"} <=> modes = <<>>
  /\ Len(modes) = 2 => modes[1] # modes[2]

TypeInv == EarnInv /\ TypeOK /\ PairInv

LEMMA TypeInit == Init => TypeOK /\ PairInv
  <1>. SUFFICES ASSUME Init
                PROVE  TypeOK /\ PairInv
    OBVIOUS
  <1>1. pair \in Pairs
    BY ScenariosAssumption, NumbersAssumption DEF Init, Pairs
  <1>2. host \in [exitCode: {0, 1, 124, None}, usage: ProviderUsages \cup {None}]
    BY DEF Init, NoResult
  <1>3. workspace \in [Files -> Versions] /\ stage \in Stages
    BY DEF Init, Stages, Versions
  <1>4. modes \in Seq(Modes) /\ cases \in Seq(Cases) /\ Len(modes) = 0
    BY DEF Init
  <1>5. TypeOK
    BY <1>1, <1>2, <1>3, <1>4 DEF Init, TypeOK
  <1>6. PairInv
    BY <1>4 DEF Init, PairInv
  <1>7. QED
    BY <1>5, <1>6

LEMMA TwoModes ==
  ASSUME NEW s \in SetToSeqs(Modes)
  PROVE  s \in Seq(Modes) /\ Len(s) = 2 /\ s[1] # s[2]
  <1>1. Cardinality(Modes) = 2
    <2>1. IsFiniteSet({"baseline"}) /\ Cardinality({"baseline"}) = 1
      BY FS_Singleton
    <2>2. Cardinality({"baseline"} \cup {"optimized"}) = 2
      BY <2>1, FS_AddElement
    <2>3. {"baseline"} \cup {"optimized"} = Modes
      BY DEF Modes
    <2>4. QED
      BY <2>2, <2>3
  <1>2. s \in [1 .. 2 -> Modes] /\ \A i, j \in 1 .. 2 : i # j => s[i] # s[j]
    BY <1>1 DEF SetToSeqs
  <1>3. s \in Seq(Modes)
    BY <1>2, SeqDef
  <1>4. Len(s) = 2
    BY <1>2, <1>3
  <1>5. QED
    BY <1>2, <1>3, <1>4

(* The mode at hand, and the modes after it.                               *)
LEMMA ModeAtHand ==
  ASSUME PairInv, stage \notin {"pair", "ended"}
  PROVE  /\ Len(modes) \in 1 .. 2 /\ Mode = modes[1] /\ Mode \in Modes
         /\ Tail(modes) \in Seq(Modes) /\ Len(Tail(modes)) = Len(modes) - 1
         /\ Tail(modes) = <<>> <=> Len(modes) = 1
         /\ Len(modes) = 2 => Tail(modes)[1] = modes[2]
  <1>1. modes \in Seq(Modes) /\ modes # <<>> /\ Len(modes) <= 2
    BY DEF PairInv
  <1>2. Len(modes) \in 1 .. 2
    BY <1>1
  <1>3. Mode = modes[1] /\ Mode \in Modes
    BY <1>1, <1>2 DEF Mode
  <1>4. /\ Tail(modes) \in Seq(Modes) /\ Len(Tail(modes)) = Len(modes) - 1
        /\ Len(modes) = 2 => Tail(modes)[1] = modes[2]
    BY <1>1, <1>2
  <1>5. Tail(modes) = <<>> <=> Len(modes) = 1
    BY <1>2, <1>4, <1>1
  <1>6. QED
    BY <1>2, <1>3, <1>4, <1>5

(* Where a step leaves the modes and is not the last of a case.            *)
LEMMA PairKept ==
  ASSUME PairInv, modes' = modes, stage \notin {"pair", "ended"}, stage' \notin {"pair", "ended"}
  PROVE  PairInv'
  BY DEF PairInv

LEMMA ClearTypes ==
  ASSUME Clear
  PROVE  /\ behind' \in {"nothing", "holding", "editing"}
         /\ usage' \in ProviderUsages \cup {None} /\ hooks' \in HookTokens \cup {None}
         /\ host' \in [exitCode: {0, 1, 124, None}, usage: ProviderUsages \cup {None}]
         /\ changed' \subseteq Files /\ passed' \in BOOLEAN
         /\ fact' \subseteq Facts
  BY DEF Clear, NoResult

LEMMA FailsTypes ==
  ASSUME TypeInv, Fails
  PROVE  TypeOK' /\ PairInv'
  <1>1. /\ modes' = <<>> /\ stage' = "ended" /\ cases' = <<>> /\ outcome' = "rejected"
        /\ workspace' = [f \in Files |-> "fixture"] /\ UNCHANGED <<pair, child>> /\ Clear
    BY DEF Fails, Go
  <1>2. TypeOK'
    BY <1>1, ClearTypes DEF TypeInv, TypeOK, Stages, Versions
  <1>3. PairInv'
    BY <1>1 DEF PairInv
  <1>4. QED
    BY <1>2, <1>3

LEMMA AdapterTypes ==
  ASSUME TypeInv, NextPair \/ Copy \/ Install \/ SpawnHost
  PROVE  TypeOK' /\ PairInv'
  <1>1. CASE Fails
    BY <1>1, FailsTypes
  <1>2. CASE NextPair
    <2>1. /\ modes' \in SetToSeqs(Modes) /\ stage' = "copy"
          /\ UNCHANGED <<pair, workspace, child, behind, usage, hooks, host, changed, passed,
                         fact, cases, outcome>>
      BY <1>2 DEF NextPair, Go, process, output, verdict
    <2>2. modes' \in Seq(Modes) /\ Len(modes') = 2 /\ modes'[1] # modes'[2]
      BY <2>1, TwoModes
    <2>3. PairInv'
      BY <2>1, <2>2 DEF PairInv
    <2>4. TypeOK'
      BY <2>1, <2>2 DEF TypeInv, TypeOK, Stages
    <2>5. QED
      BY <2>3, <2>4
  <1>3. CASE Copy /\ ~Fails
    <2>1. /\ workspace' = [f \in Files |-> "fixture"] /\ stage' \in {"install", "spawn_host"}
          /\ stage = "copy"
          /\ UNCHANGED <<pair, modes, child, behind, usage, hooks, host, changed, passed,
                         fact, cases, outcome>>
      BY <1>3 DEF Copy, Go, plan, process, output, verdict
    <2>2. PairInv'
      BY <2>1, PairKept DEF TypeInv
    <2>3. TypeOK'
      BY <2>1 DEF TypeInv, TypeOK, Stages, Versions
    <2>4. QED
      BY <2>2, <2>3
  <1>4. CASE Install \/ SpawnHost
    <2>1. /\ \/ stage' \in {"spawn_host", "host"} /\ UNCHANGED <<host, changed, passed>>
             \/ stage' = "manifest" /\ host' = [exitCode |-> 1, usage |-> None]
                /\ UNCHANGED <<changed, passed>>
          /\ child' \in {child, New} /\ behind' = behind
          /\ stage \in {"install", "spawn_host"}
          /\ UNCHANGED <<pair, modes, workspace, usage, hooks, fact, cases, outcome>>
      BY <1>4 DEF Install, SpawnHost, AdapterFailed, Started, New, Go, plan, process, output, verdict
    <2>2. PairInv'
      BY <2>1, PairKept DEF TypeInv
    <2>3. child' \in Children \cup {None}
      BY <2>1, ProcessRecords DEF TypeInv, TypeOK
    <2>4. host' \in [exitCode: {0, 1, 124, None}, usage: ProviderUsages \cup {None}]
      BY <2>1 DEF TypeInv, TypeOK
    <2>5. TypeOK'
      BY <2>1, <2>3, <2>4 DEF TypeInv, TypeOK, Stages
    <2>6. QED
      BY <2>2, <2>5
  <1>5. QED
    BY <1>1, <1>2, <1>3, <1>4

(* The processes leave the plan, the results and the verdict alone.        *)
Apart == UNCHANGED <<pair, modes, stage, host, changed, passed, cases, outcome>>

LEMMA ProcessTypes ==
  ASSUME TypeInv, ProcessStep \/ Timeout \/ Terminate
  PROVE  TypeOK' /\ PairInv'
  <1>1. ASSUME EarnInv', Apart,
               behind' \in {"nothing", "holding", "editing"},
               usage' \in ProviderUsages \cup {None}, hooks' \in HookTokens \cup {None},
               fact' \subseteq Facts
        PROVE  TypeOK' /\ PairInv'
    <2>1. workspace' \in [Files -> Versions] /\ child' \in Children \cup {None}
      BY <1>1 DEF EarnInv, Shaped
    <2>2. TypeOK'
      BY <1>1, <2>1 DEF TypeInv, TypeOK, Apart
    <2>3. PairInv'
      BY <1>1 DEF TypeInv, PairInv, Apart
    <2>4. QED
      BY <2>2, <2>3
  <1>2. EarnInv'
    BY ProcessPreserves DEF TypeInv
  <1>3. /\ behind \in {"nothing", "holding", "editing"}
        /\ usage \in ProviderUsages \cup {None} /\ hooks \in HookTokens \cup {None}
        /\ fact \subseteq Facts
    BY DEF TypeInv, TypeOK
  <1>4. ASSUME NEW f \in Files, Edit(f)
        PROVE  TypeOK' /\ PairInv'
    <2>1. Apart /\ UNCHANGED <<behind, usage, hooks>> /\ fact' = fact \cup {"worked"}
      BY <1>4 DEF Edit, Apart, plan, process, output, verdict
    <2>2. fact' \subseteq Facts
      BY <1>3, <2>1 DEF Facts
    <2>3. QED
      BY <1>1, <1>2, <1>3, <2>1, <2>2
  <1>5. ASSUME NEW u \in Usages, PrintUsage(u)
        PROVE  TypeOK' /\ PairInv'
    <2>1. Apart /\ UNCHANGED <<behind, hooks, fact>> /\ usage' = Parsed(u)
      BY <1>5 DEF PrintUsage, Apart, plan, process, verdict
    <2>2. usage' \in ProviderUsages \cup {None}
      BY <1>3, <2>1 DEF Parsed
    <2>3. QED
      BY <1>1, <1>2, <1>3, <2>1, <2>2
  <1>6. ASSUME NEW tokens \in HookTokens, RunHook(tokens)
        PROVE  TypeOK' /\ PairInv'
    <2>1. /\ Apart /\ UNCHANGED <<behind, usage, fact>>
          /\ hooks' = IF hooks = None THEN tokens ELSE Max({hooks, tokens})
      BY <1>6 DEF RunHook, Apart, plan, process, verdict
    <2>2. ASSUME hooks # None
          PROVE  Max({hooks, tokens}) \in HookTokens
      <3>1. hooks \in HookTokens /\ hooks \in Nat /\ tokens \in Nat
        BY <1>3, <2>2, NumbersAssumption
      <3>2. \E x \in {hooks, tokens} : \A y \in {hooks, tokens} : x >= y
        BY <3>1
      <3>3. Max({hooks, tokens}) \in {hooks, tokens}
        BY <3>2, Zenon DEF Max
      <3>4. QED
        BY <3>1, <3>3
    <2>3. hooks' \in HookTokens \cup {None}
      BY <2>1, <2>2
    <2>4. QED
      BY <1>1, <1>2, <1>3, <2>1, <2>3
  <1>7. ASSUME NEW code \in 0 .. 1, Exit(code)
        PROVE  TypeOK' /\ PairInv'
    <2>1. /\ Apart /\ UNCHANGED <<usage, hooks>>
          /\ behind' \in {"nothing", "holding", "editing", behind}
          /\ fact' \in {fact, fact \cup {"validated"}}
      BY <1>7 DEF Exit, Apart, plan, output, verdict
    <2>2. fact' \subseteq Facts /\ behind' \in {"nothing", "holding", "editing"}
      BY <1>3, <2>1 DEF Facts
    <2>3. QED
      BY <1>1, <1>2, <1>3, <2>1, <2>2
  <1>8. ASSUME LetGo
        PROVE  TypeOK' /\ PairInv'
    <2>1. Apart /\ UNCHANGED <<usage, hooks, fact>> /\ behind' \in {"nothing", "editing"}
      BY <1>8 DEF LetGo, Apart, plan, output, verdict
    <2>2. QED
      BY <1>1, <1>2, <1>3, <2>1
  <1>9. ASSUME Timeout \/ Terminate
        PROVE  TypeOK' /\ PairInv'
    <2>1. Apart /\ UNCHANGED <<behind, usage, hooks, fact>>
      BY <1>9 DEF Timeout, Terminate, Apart, plan, output, verdict
    <2>2. QED
      BY <1>1, <1>2, <1>3, <2>1
  <1>10. QED
    BY <1>4, <1>5, <1>6, <1>7, <1>8, <1>9 DEF ProcessStep

LEMMA RunnerTypes ==
  ASSUME TypeInv,
         HostClosed \/ Manifest \/ ManifestFails \/ SpawnValidator \/ ValidatorClosed \/ ReadLedgers
  PROVE  TypeOK' /\ PairInv'
  <1>1. CASE Fails
    BY <1>1, FailsTypes
  <1>2. ASSUME child' \in Children \cup {None},
               host' \in [exitCode: {0, 1, 124, None}, usage: ProviderUsages \cup {None}],
               changed' \subseteq Files, passed' \in BOOLEAN, fact' \subseteq Facts,
               stage' \in Stages \ {"pair", "ended"}, stage \notin {"pair", "ended"},
               UNCHANGED <<pair, modes, workspace, behind, usage, hooks, cases, outcome>>
        PROVE  TypeOK' /\ PairInv'
    <2>1. TypeOK'
      BY <1>2 DEF TypeInv, TypeOK
    <2>2. QED
      BY <1>2, <2>1, PairKept DEF TypeInv
  <1>3. /\ child \in Children \cup {None} /\ changed \subseteq Files /\ passed \in BOOLEAN
        /\ host \in [exitCode: {0, 1, 124, None}, usage: ProviderUsages \cup {None}]
        /\ fact \subseteq Facts /\ usage \in ProviderUsages \cup {None}
    BY DEF TypeInv, TypeOK
  <1>4. \A ok \in BOOLEAN : \A files : AsExpected(ok, files) \in BOOLEAN
    BY Zenon DEF AsExpected
  <1>5. CASE HostClosed
    <2>1. /\ stage = "host" /\ stage' = "manifest" /\ child \in Children /\ child' = None
          /\ host' = [exitCode |-> ExitCode, usage |-> usage]
          /\ fact' \in {fact, fact \cup {"exited_well"}}
          /\ UNCHANGED <<pair, modes, workspace, behind, usage, hooks, changed, passed, cases, outcome>>
      BY <1>5 DEF HostClosed, Go, plan, output, TypeInv, EarnInv, Shaped
    <2>2. ExitCode \in {0, 1, 124}
      BY <2>1 DEF ExitCode, Children
    <2>3. host' \in [exitCode: {0, 1, 124, None}, usage: ProviderUsages \cup {None}]
      BY <1>3, <2>1, <2>2
    <2>4. fact' \subseteq Facts /\ stage' \in Stages \ {"pair", "ended"}
      BY <1>3, <2>1 DEF Facts, Stages
    <2>5. QED
      BY <1>2, <1>3, <2>1, <2>3, <2>4
  <1>6. CASE Manifest
    <2>. DEFINE files == {f \in Files : workspace[f] # "fixture"}
    <2>1. /\ stage = "manifest" /\ changed' = files
          /\ stage' \in {"spawn_validator", "ledgers", "report"}
          /\ \/ passed' = passed
             \/ passed' = (Scenario.command = "none" /\ AsExpected(TRUE, files))
          /\ UNCHANGED <<pair, modes, workspace, child, behind, usage, hooks, host, fact, cases, outcome>>
      BY <1>6 DEF Manifest, Go, AfterValidation, process, output, plan
    <2>2. changed' \subseteq Files
      BY <2>1
    <2>. HIDE DEF files
    <2>3. passed' \in BOOLEAN
      BY <1>3, <2>1
    <2>4. stage' \in Stages \ {"pair", "ended"}
      BY <2>1 DEF Stages
    <2>5. QED
      BY <1>2, <1>3, <2>1, <2>2, <2>3, <2>4
  <1>7. CASE SpawnValidator /\ ~Fails
    <2>1. /\ stage = "spawn_validator" /\ stage' = "validator" /\ child' = New
          /\ UNCHANGED <<pair, modes, workspace, behind, usage, hooks, host, changed, passed,
                         fact, cases, outcome>>
      BY <1>7 DEF SpawnValidator, Started, New, Go, verdict, plan, output
    <2>2. stage' \in Stages \ {"pair", "ended"} /\ child' \in Children \cup {None}
      BY <2>1, ProcessRecords DEF Stages
    <2>3. QED
      BY <1>2, <1>3, <2>1, <2>2
  <1>8. CASE ValidatorClosed
    <2>1. /\ stage = "validator" /\ stage' \in {"ledgers", "report"} /\ child' = None
          /\ passed' = AsExpected(ExitCode = 0, changed)
          /\ UNCHANGED <<pair, modes, workspace, behind, usage, hooks, host, changed,
                         fact, cases, outcome>>
      BY <1>8 DEF ValidatorClosed, Go, AfterValidation, plan, output
    <2>2. stage' \in Stages \ {"pair", "ended"} /\ passed' \in BOOLEAN
      BY <1>4, <2>1 DEF Stages
    <2>3. QED
      BY <1>2, <1>3, <2>1, <2>2
  <1>9. CASE ReadLedgers /\ ~Fails
    <2>1. /\ stage = "ledgers" /\ stage' = "warm"
          /\ UNCHANGED <<pair, modes, workspace, child, behind, usage, hooks, host, changed, passed,
                         fact, cases, outcome>>
      BY <1>9 DEF ReadLedgers, Go, process, verdict, plan, output
    <2>2. stage' \in Stages \ {"pair", "ended"}
      BY <2>1 DEF Stages
    <2>3. QED
      BY <1>2, <1>3, <2>1, <2>2
  <1>10. QED
    BY <1>1, <1>5, <1>6, <1>7, <1>8, <1>9 DEF ManifestFails

(* The result of the case at hand.                                         *)
LEMMA ResultTypes ==
  ASSUME TypeInv, stage \notin {"pair", "ended"}, NEW reused \in BOOLEAN
  PROVE  Result(reused) \in Cases
  <1>1. /\ Len(modes) \in 1 .. 2 /\ Mode \in Modes
    BY ModeAtHand DEF TypeInv
  <1>2. pair \in Pairs /\ fact \subseteq Facts /\ passed \in BOOLEAN
        /\ host.usage \in ProviderUsages \cup {None}
    BY DEF TypeInv, TypeOK
  <1>3. Adhered \in BOOLEAN
    BY Zenon DEF Adhered
  <1>4. Success(reused) \in BOOLEAN /\ (Adhered /\ reused) \in BOOLEAN
    BY <1>2, <1>3, Zenon DEF Success
  <1>5. 3 - Len(modes) \in 1 .. 2
    <2>1. \A k \in 1 .. 2 : 3 - k \in 1 .. 2
      OBVIOUS
    <2>2. QED
      BY <1>1, <2>1
  <1>6. (IF Success(reused) THEN fact ELSE {}) \subseteq Facts
    BY <1>2
  <1>7. QED
    BY <1>1, <1>2, <1>4, <1>5, <1>6, Zenon DEF Result, Cases

(* The pair that comes next, if there is one.                              *)
LEMMA NextPairTypes ==
  ASSUME pair \in Pairs, Advance
  PROVE  /\ pair' \in Pairs /\ stage' \in {"pair", "ended"}
         /\ outcome' \in {outcome, "reported"}
  <1>1. /\ pair[1] \in 1 .. Len(Scenarios) /\ pair[2] \in 1 .. Repetitions
        /\ pair = <<pair[1], pair[2]>>
    BY ScenariosAssumption DEF Pairs
  <1>2. Len(Scenarios) \in Nat /\ Repetitions \in Nat /\ 1 \in 1 .. Repetitions
    BY ScenariosAssumption, NumbersAssumption
  <1>3. \A n \in 1 .. Len(Scenarios), r \in 1 .. Repetitions : <<n, r>> \in Pairs
    BY ScenariosAssumption DEF Pairs
  <1>4. CASE pair[2] < Repetitions /\ pair' = <<pair[1], pair[2] + 1>>
    <2>1. pair[2] + 1 \in 1 .. Repetitions
      BY <1>1, <1>2, <1>4
    <2>2. QED
      BY <1>1, <1>3, <1>4, <2>1 DEF Advance, Go
  <1>5. CASE pair[1] < Len(Scenarios) /\ pair' = <<pair[1] + 1, 1>>
    <2>1. pair[1] + 1 \in 1 .. Len(Scenarios)
      BY <1>1, <1>2, <1>5
    <2>2. QED
      BY <1>2, <1>3, <1>5, <2>1 DEF Advance, Go
  <1>6. CASE UNCHANGED pair
    BY <1>6 DEF Advance, Go
  <1>7. QED
    BY <1>4, <1>5, <1>6 DEF Advance

LEMMA ReportTypes ==
  ASSUME TypeInv, Report
  PROVE  TypeOK' /\ PairInv'
  <1>1. PICK reused \in BOOLEAN : cases' = Append(cases, Result(reused))
    BY DEF Report
  <1>2. /\ stage \in {"report", "warm"} /\ modes' = Tail(modes) /\ Clear
        /\ UNCHANGED <<workspace, child>>
        /\ \/ Len(modes) = 2 /\ stage' = "copy" /\ UNCHANGED <<pair, outcome>>
           \/ Len(modes) # 2 /\ Advance
    BY DEF Report, Go
  <1>3. /\ Len(modes) \in 1 .. 2 /\ modes' \in Seq(Modes) /\ Len(modes') = Len(modes) - 1
        /\ modes' = <<>> <=> Len(modes) = 1
    BY <1>2, ModeAtHand DEF TypeInv
  <1>4. pair \in Pairs /\ cases \in Seq(Cases) /\ outcome \in {"running", "reported", "rejected"}
        /\ workspace \in [Files -> Versions] /\ child \in Children \cup {None}
    BY DEF TypeInv, TypeOK
  <1>5. /\ pair' \in Pairs /\ outcome' \in {"running", "reported", "rejected"}
        /\ stage' \in {"copy", "pair", "ended"}
        /\ stage' \in {"pair", "ended"} <=> Len(modes) # 2
    BY <1>2, <1>4, NextPairTypes
  <1>6. cases' \in Seq(Cases)
    <2>1. Result(reused) \in Cases
      BY <1>2, ResultTypes
    <2>2. QED
      BY <1>1, <1>4, <2>1
  <1>7. TypeOK'
    BY <1>2, <1>3, <1>4, <1>5, <1>6, ClearTypes DEF TypeOK, Stages
  <1>8. PairInv'
    <2>1. \A k \in 1 .. 2 : k - 1 <= 2 /\ k - 1 # 2 /\ (k # 2 <=> k = 1)
      OBVIOUS
    <2>2. Len(modes') <= 2 /\ Len(modes') # 2 /\ (Len(modes) # 2 <=> Len(modes) = 1)
      BY <1>3, <2>1
    <2>3. QED
      BY <1>3, <1>5, <2>2, Zenon DEF PairInv
  <1>9. QED
    BY <1>7, <1>8

LEMMA TypeNext ==
  ASSUME TypeInv, [Next]_vars
  PROVE  TypeInv'
  <1>1. EarnInv'
    BY EarnNext DEF TypeInv
  <1>2. CASE UNCHANGED vars
    <2>1. UNCHANGED <<pair, modes, stage, workspace, child, behind, usage, hooks, host, changed,
                      passed, fact, cases, outcome>>
      BY <1>2 DEF vars, plan, process, output, verdict
    <2>2. TypeOK' /\ PairInv'
      BY <2>1 DEF TypeInv, TypeOK, PairInv
    <2>3. QED
      BY <1>1, <2>2 DEF TypeInv
  <1>3. CASE Next
    <2>1. TypeOK' /\ PairInv'
      BY <1>3, AdapterTypes, ProcessTypes, RunnerTypes, ReportTypes DEF Next, RunnerStep
    <2>2. QED
      BY <1>1, <2>1 DEF TypeInv
  <1>4. QED
    BY <1>2, <1>3

LEMMA TypeAlways == Spec => []TypeInv
  BY EarnInit, TypeInit, TypeNext, PTL DEF Spec, TypeInv

(* Every variable keeps its type: in particular the adapter's result is    *)
(* one of the exit codes that a case is judged by, a case is of a pair of  *)
(* the plan, and the usage of a case is one a provider can report          *)
(* (runLiveBenchmarks, createLiveProcessExecutor, parseUsageRecord).       *)
THEOREM Types == Spec => []TypeOK
  <1>1. TypeInv => TypeOK
    BY DEF TypeInv
  <1>2. QED
    BY <1>1, TypeAlways, PTL

-----------------------------------------------------------------------------
(* The order of the run: the pairs before the one at hand have both their  *)
(* cases, the pair at hand those of the modes that are done, and no other  *)
(* pair has any.                                                           *)
Before(p, q) == p[1] < q[1] \/ (p[1] = q[1] /\ p[2] < q[2])
Remaining == IF stage = "pair" THEN Modes ELSE {modes[i] : i \in DOMAIN modes}
Due(p, m) == Before(p, pair) \/ (p = pair /\ m \notin Remaining)
Listed(p, m) == \E n \in DOMAIN cases : cases[n].pair = p /\ cases[n].mode = m
LastPair == <<Len(Scenarios), Repetitions>>

EachOnce ==
  \A m, n \in DOMAIN cases : cases[m].pair = cases[n].pair /\ cases[m].mode = cases[n].mode => m = n
ListInv ==
  /\ stage = "ended" <=> outcome # "running"
  /\ outcome # "rejected" =>
       EachOnce /\ \A p \in Pairs, m \in Modes : Listed(p, m) <=> Due(p, m)
  /\ outcome = "reported" => pair = LastPair

LEMMA PairParts ==
  /\ \A p \in Pairs : p[1] \in 1 .. Len(Scenarios) /\ p[2] \in 1 .. Repetitions /\ p = <<p[1], p[2]>>
  /\ \A n \in 1 .. Len(Scenarios), r \in 1 .. Repetitions : <<n, r>> \in Pairs
  /\ Len(Scenarios) \in Nat \ {0} /\ Repetitions \in Nat \ {0}
  <1>1. Len(Scenarios) \in Nat \ {0} /\ DOMAIN Scenarios = 1 .. Len(Scenarios)
    BY ScenariosAssumption
  <1>2. QED
    BY <1>1, NumbersAssumption DEF Pairs

LEMMA ListInit == Init => ListInv
  <1>. SUFFICES ASSUME Init
                PROVE  ListInv
    OBVIOUS
  <1>1. cases = <<>> /\ stage = "pair" /\ outcome = "running" /\ pair = <<1, 1>>
    BY DEF Init
  <1>2. EachOnce /\ \A p, m : ~Listed(p, m)
    BY <1>1 DEF EachOnce, Listed
  <1>3. ASSUME NEW p \in Pairs
        PROVE  ~Before(p, pair)
    <2>1. p[1] \in 1 .. Len(Scenarios) /\ p[2] \in 1 .. Repetitions
      BY PairParts
    <2>2. pair[1] = 1 /\ pair[2] = 1
      BY <1>1
    <2>3. \A i, j \in Nat \ {0} : ~(i < 1) /\ ~(j < 1)
      OBVIOUS
    <2>4. p[1] \in Nat \ {0} /\ p[2] \in Nat \ {0}
      BY <2>1, PairParts
    <2>5. QED
      BY <2>2, <2>3, <2>4 DEF Before
  <1>4. \A p \in Pairs, m \in Modes : ~Due(p, m)
    BY <1>1, <1>3 DEF Due, Remaining
  <1>5. QED
    BY <1>1, <1>2, <1>4 DEF ListInv

(* A step that neither reports a case nor goes on to another.              *)
LEMMA SameList ==
  ASSUME ListInv, UNCHANGED <<pair, modes, cases, outcome>>,
         stage # "pair", stage' # "pair", stage # "ended", stage' # "ended"
  PROVE  ListInv'
  <1>1. Remaining' = Remaining
    BY DEF Remaining
  <1>2. \A p, m : Due(p, m)' <=> Due(p, m)
    BY <1>1 DEF Due, Before
  <1>3. \A p, m : Listed(p, m)' <=> Listed(p, m)
    BY DEF Listed
  <1>4. EachOnce' = EachOnce
    BY DEF EachOnce
  <1>5. QED
    BY <1>2, <1>3, <1>4 DEF ListInv

LEMMA FailsList ==
  ASSUME Fails
  PROVE  ListInv'
  BY DEF Fails, Go, ListInv

LEMMA NextPairList ==
  ASSUME ListInv, NextPair
  PROVE  ListInv'
  <1>1. /\ stage = "pair" /\ stage' = "copy" /\ modes' \in SetToSeqs(Modes)
        /\ UNCHANGED <<pair, cases, outcome>>
    BY DEF NextPair, Go
  <1>2. modes' \in Seq(Modes) /\ Len(modes') = 2 /\ modes'[1] # modes'[2]
    BY <1>1, TwoModes
  <1>3. {modes'[i] : i \in DOMAIN modes'} = Modes
    <2>1. DOMAIN modes' = {1, 2} /\ modes'[1] \in Modes /\ modes'[2] \in Modes
      BY <1>2
    <2>2. QED
      BY <1>2, <2>1 DEF Modes
  <1>4. Remaining' = Remaining
    BY <1>1, <1>3 DEF Remaining
  <1>5. \A p, m : Due(p, m)' <=> Due(p, m)
    BY <1>1, <1>4 DEF Due, Before
  <1>6. \A p, m : Listed(p, m)' <=> Listed(p, m)
    BY <1>1 DEF Listed
  <1>7. EachOnce' = EachOnce
    BY <1>1 DEF EachOnce
  <1>8. QED
    BY <1>1, <1>5, <1>6, <1>7 DEF ListInv

(* All the other steps but the report of a case.                           *)
LEMMA OtherList ==
  ASSUME ListInv, TypeInv,
         \/ Copy \/ Install \/ SpawnHost \/ HostClosed \/ Manifest \/ ManifestFails
         \/ SpawnValidator \/ ValidatorClosed \/ ReadLedgers \/ Timeout \/ Terminate
         \/ \E f \in Files : Edit(f)
         \/ \E u \in Usages : PrintUsage(u)
         \/ \E tokens \in HookTokens : RunHook(tokens)
         \/ \E code \in 0 .. 1 : Exit(code)
  PROVE  ListInv'
  <1>1. CASE Fails
    BY <1>1, FailsList
  <1>2. CASE ~Fails /\ (Copy \/ Install \/ SpawnHost)
    <2>1. UNCHANGED <<pair, modes, cases, outcome>>
      BY <1>2 DEF Copy, Install, SpawnHost, plan
    <2>2. stage \in {"copy", "install", "spawn_host"}
      BY <1>2 DEF Copy, Install, SpawnHost
    <2>3. stage' \in {"install", "spawn_host", "host", "manifest"}
      BY <1>2 DEF Copy, Install, SpawnHost, AdapterFailed, Go
    <2>4. QED
      BY <2>1, <2>2, <2>3, SameList
  <1>3. CASE ~Fails /\ (HostClosed \/ Manifest \/ ManifestFails \/ SpawnValidator
                        \/ ValidatorClosed \/ ReadLedgers)
    <2>1. UNCHANGED <<pair, modes, cases, outcome>>
      BY <1>3 DEF HostClosed, Manifest, ManifestFails, SpawnValidator, ValidatorClosed, ReadLedgers, plan
    <2>2. stage \in {"host", "manifest", "spawn_validator", "validator", "ledgers"}
      BY <1>3 DEF HostClosed, Manifest, ManifestFails, SpawnValidator, ValidatorClosed, ReadLedgers
    <2>3. stage' \in {"manifest", "spawn_validator", "validator", "ledgers", "report", "warm"}
      BY <1>3 DEF HostClosed, Manifest, ManifestFails, SpawnValidator, ValidatorClosed, ReadLedgers,
                  Go, AfterValidation
    <2>4. QED
      BY <2>1, <2>2, <2>3, SameList
  <1>4. CASE Timeout \/ Terminate \/ (\E code \in 0 .. 1 : Exit(code))
    <2>1. UNCHANGED <<pair, modes, stage, cases, outcome>> /\ stage \in {"host", "validator"}
      BY <1>4 DEF Timeout, Terminate, Exit, Waiting, plan
    <2>2. QED
      BY <2>1, SameList
  <1>5. CASE \/ \E f \in Files : Edit(f)
             \/ \E u \in Usages : PrintUsage(u)
             \/ \E tokens \in HookTokens : RunHook(tokens)
    <2>1. /\ UNCHANGED <<pair, modes, stage, cases, outcome>>
          /\ stage \in {"host", "manifest", "spawn_validator", "validator"}
      BY <1>5 DEF Edit, PrintUsage, RunHook, plan
    <2>2. QED
      BY <2>1, SameList
  <1>6. QED
    BY <1>1, <1>2, <1>3, <1>4, <1>5

(* What is left behind may let go at any time.                             *)
LEMMA StutterList ==
  ASSUME ListInv, UNCHANGED <<pair, modes, stage, cases, outcome>>
  PROVE  ListInv'
  <1>1. \A p, m : Due(p, m)' <=> Due(p, m)
    BY DEF Due, Before, Remaining
  <1>2. \A p, m : Listed(p, m)' <=> Listed(p, m)
    BY DEF Listed
  <1>3. EachOnce' = EachOnce
    BY DEF EachOnce
  <1>4. QED
    BY <1>1, <1>2, <1>3 DEF ListInv

(* The place of a new case at the end of the list.                         *)
LEMMA ReportedCase ==
  ASSUME TypeInv, TypeInv', NEW c, cases' = Append(cases, c)
  PROVE  /\ Len(cases) \in Nat /\ DOMAIN cases = 1 .. Len(cases)
         /\ DOMAIN cases' = DOMAIN cases \cup {Len(cases) + 1} /\ Len(cases) + 1 \notin DOMAIN cases
         /\ cases'[Len(cases) + 1] = c
         /\ \A n \in DOMAIN cases : cases'[n] = cases[n]
  <1>1. cases \in Seq(Cases) /\ cases' \in Seq(Cases)
    BY DEF TypeInv, TypeOK
  <1>2. Len(cases) \in Nat /\ DOMAIN cases = 1 .. Len(cases) /\ Len(cases') = Len(cases) + 1
    BY <1>1
  <1>3. DOMAIN cases' = 1 .. Len(cases) + 1
    BY <1>1, <1>2
  <1>4. \A k \in Nat : 1 .. k + 1 = (1 .. k) \cup {k + 1} /\ k + 1 \notin 1 .. k
    OBVIOUS
  <1>5. \A n \in DOMAIN cases : cases'[n] = cases[n]
    BY <1>1, <1>2
  <1>6. cases'[Len(cases) + 1] = c
    BY <1>1
  <1>7. QED
    BY <1>2, <1>3, <1>4, <1>5, <1>6

(* The pairs before the next one are those before and the one at hand.     *)
LEMMA NextPairOrder ==
  ASSUME pair \in Pairs, Advance, NEW p \in Pairs
  PROVE  /\ stage' \in {"pair", "ended"}
         /\ stage' = "pair" => /\ Before(p, pair') <=> Before(p, pair) \/ p = pair
                               /\ p = pair' => ~(Before(p, pair) \/ p = pair)
                               /\ outcome' = outcome
         /\ stage' = "ended" => outcome' = "reported" /\ pair' = pair /\ pair = LastPair
  <1>1. /\ p[1] \in Nat \ {0} /\ p[2] \in Nat \ {0} /\ p[1] <= Len(Scenarios) /\ p[2] <= Repetitions
        /\ pair[1] \in Nat \ {0} /\ pair[2] \in Nat \ {0}
        /\ pair[1] <= Len(Scenarios) /\ pair[2] <= Repetitions
        /\ p = <<p[1], p[2]>> /\ pair = <<pair[1], pair[2]>>
        /\ Len(Scenarios) \in Nat /\ Repetitions \in Nat
    BY PairParts
  <1>2. p = pair <=> p[1] = pair[1] /\ p[2] = pair[2]
    BY <1>1
  <1>3. CASE pair[2] < Repetitions /\ pair' = <<pair[1], pair[2] + 1>>
             /\ stage' = "pair" /\ outcome' = outcome
    <2>1. pair'[1] = pair[1] /\ pair'[2] = pair[2] + 1
      BY <1>3
    <2>2. \A i, j, k, l \in Nat :
            /\ (i < k \/ (i = k /\ j < l + 1)) <=> (i < k \/ (i = k /\ j < l)) \/ (i = k /\ j = l)
            /\ i = k /\ j = l + 1 => ~((i < k \/ (i = k /\ j < l)) \/ (i = k /\ j = l))
      OBVIOUS
    <2>3. QED
      BY <1>1, <1>2, <1>3, <2>1, <2>2 DEF Before
  <1>4. CASE pair[2] = Repetitions /\ pair' = <<pair[1] + 1, 1>>
             /\ stage' = "pair" /\ outcome' = outcome
    <2>1. pair'[1] = pair[1] + 1 /\ pair'[2] = 1
      BY <1>4
    <2>2. \A i, k \in Nat : \A j, l \in Nat \ {0} : j <= l =>
            /\ (i < k + 1 \/ (i = k + 1 /\ j < 1)) <=> (i < k \/ (i = k /\ j < l)) \/ (i = k /\ j = l)
            /\ i = k + 1 /\ j = 1 => ~((i < k \/ (i = k /\ j < l)) \/ (i = k /\ j = l))
      OBVIOUS
    <2>3. p[2] <= pair[2]
      BY <1>1, <1>4
    <2>4. QED
      BY <1>1, <1>2, <1>4, <2>1, <2>2, <2>3 DEF Before
  <1>5. CASE pair[2] = Repetitions /\ pair[1] = Len(Scenarios) /\ pair' = pair
             /\ stage' = "ended" /\ outcome' = "reported"
    BY <1>1, <1>5 DEF LastPair
  <1>6. QED
    BY <1>3, <1>4, <1>5 DEF Advance, Go

LEMMA ReportList ==
  ASSUME ListInv, TypeInv, TypeInv', Report
  PROVE  ListInv'
  <1>1. PICK reused \in BOOLEAN : cases' = Append(cases, Result(reused))
    BY DEF Report
  <1>2. /\ stage \in {"report", "warm"} /\ modes' = Tail(modes)
        /\ \/ Len(modes) = 2 /\ stage' = "copy" /\ UNCHANGED <<pair, outcome>>
           \/ Len(modes) # 2 /\ Advance
    BY DEF Report, Go
  <1>3. /\ Len(modes) \in 1 .. 2 /\ Mode = modes[1] /\ Mode \in Modes
        /\ modes' = <<>> <=> Len(modes) = 1
        /\ Len(modes') = Len(modes) - 1 /\ modes' \in Seq(Modes)
        /\ Len(modes) = 2 => modes'[1] = modes[2]
    BY <1>2, ModeAtHand DEF TypeInv
  <1>4. pair \in Pairs /\ modes \in Seq(Modes) /\ (Len(modes) = 2 => modes[1] # modes[2])
    BY DEF TypeInv, TypeOK, PairInv
  <1>5. /\ outcome = "running" /\ EachOnce
        /\ \A p \in Pairs, m \in Modes : Listed(p, m) <=> Due(p, m)
    BY <1>2 DEF ListInv
  <1>. DEFINE last == Len(cases) + 1
  <1>6. /\ DOMAIN cases' = DOMAIN cases \cup {last} /\ last \notin DOMAIN cases
        /\ cases'[last].pair = pair /\ cases'[last].mode = Mode
        /\ \A n \in DOMAIN cases : cases'[n] = cases[n]
    BY <1>1, ReportedCase DEF Result
  <1>. HIDE DEF last
  <1>7. ASSUME NEW p, NEW m
        PROVE  Listed(p, m)' <=> Listed(p, m) \/ (p = pair /\ m = Mode)
    BY <1>6 DEF Listed
  <1>8. Mode \in Remaining
    <2>1. 1 \in DOMAIN modes
      BY <1>3, <1>4
    <2>2. QED
      BY <1>2, <1>3, <2>1 DEF Remaining
  <1>9. ~Before(pair, pair)
    <2>1. pair[1] \in Nat /\ pair[2] \in Nat
      BY <1>4, PairParts
    <2>2. QED
      BY <2>1 DEF Before
  <1>10. ~Listed(pair, Mode)
    BY <1>3, <1>4, <1>5, <1>8, <1>9 DEF Due
  <1>11. EachOnce'
    <2>1. ASSUME NEW k \in DOMAIN cases', NEW n \in DOMAIN cases',
                 cases'[k].pair = cases'[n].pair, cases'[k].mode = cases'[n].mode
          PROVE  k = n
      <3>1. CASE k = last /\ n # last
        BY <1>6, <1>10, <2>1, <3>1 DEF Listed
      <3>2. CASE k # last /\ n = last
        BY <1>6, <1>10, <2>1, <3>2 DEF Listed
      <3>3. CASE k # last /\ n # last
        BY <1>5, <1>6, <2>1, <3>3 DEF EachOnce
      <3>4. QED
        BY <3>1, <3>2, <3>3
    <2>2. QED
      BY <2>1 DEF EachOnce
  <1>12. CASE Len(modes) = 2
    <2>1. stage' = "copy" /\ UNCHANGED <<pair, outcome>>
      BY <1>2, <1>12
    <2>2. Remaining = {modes[1], modes[2]} /\ Remaining' = {modes[2]}
      <3>1. DOMAIN modes = {1, 2} /\ DOMAIN modes' = {1}
        BY <1>3, <1>4, <1>12
      <3>2. QED
        BY <1>2, <1>3, <1>12, <2>1, <3>1 DEF Remaining
    <2>3. ASSUME NEW p \in Pairs, NEW m \in Modes
          PROVE  Due(p, m)' <=> Due(p, m) \/ (p = pair /\ m = Mode)
      <3>1. m \notin Remaining' <=> m \notin Remaining \/ m = Mode
        BY <1>3, <1>4, <1>12, <2>2
      <3>2. QED
        BY <2>1, <3>1 DEF Due, Before
    <2>4. \A p \in Pairs, m \in Modes : Listed(p, m)' <=> Due(p, m)'
      BY <1>5, <1>7, <2>3
    <2>5. QED
      BY <1>5, <1>11, <2>1, <2>4 DEF ListInv
  <1>13. CASE Len(modes) = 1
    <2>1. Advance /\ modes' = <<>>
      BY <1>2, <1>3, <1>13
    <2>2. Remaining = {Mode}
      <3>1. DOMAIN modes = {1}
        BY <1>4, <1>13
      <3>2. QED
        BY <1>2, <1>3, <3>1 DEF Remaining
    <2>3. ASSUME NEW p \in Pairs, NEW m \in Modes
          PROVE  Listed(p, m)' <=> Before(p, pair) \/ p = pair
      BY <1>5, <1>7, <2>2 DEF Due
    <2>4. CASE stage' = "pair"
      <3>1. Remaining' = Modes /\ outcome' = "running"
        BY <1>4, <1>5, <2>1, <2>4, NextPairOrder DEF Remaining
      <3>2. ASSUME NEW p \in Pairs, NEW m \in Modes
            PROVE  Due(p, m)' <=> Before(p, pair) \/ p = pair
        <4>1. Due(p, m)' <=> Before(p, pair')
          BY <3>1 DEF Due, Before
        <4>2. QED
          BY <1>4, <2>1, <2>4, <4>1, NextPairOrder
      <3>3. \A p \in Pairs, m \in Modes : Listed(p, m)' <=> Due(p, m)'
        BY <2>3, <3>2
      <3>4. QED
        BY <1>11, <2>4, <3>1, <3>3 DEF ListInv
    <2>5. CASE stage' = "ended"
      <3>1. outcome' = "reported" /\ pair' = pair /\ pair = LastPair
        BY <1>4, <2>1, <2>5, NextPairOrder
      <3>2. Remaining' = {}
        BY <2>1, <2>5 DEF Remaining
      <3>3. \A p \in Pairs, m \in Modes : Due(p, m)' <=> Before(p, pair) \/ p = pair
        BY <3>1, <3>2 DEF Due, Before
      <3>4. \A p \in Pairs, m \in Modes : Listed(p, m)' <=> Due(p, m)'
        BY <2>3, <3>3
      <3>5. pair' = LastPair
        BY <3>1
      <3>6. QED
        BY <1>11, <2>5, <3>1, <3>4, <3>5 DEF ListInv, LastPair
    <2>6. QED
      BY <1>4, <2>1, <2>4, <2>5, NextPairOrder
  <1>14. QED
    BY <1>3, <1>12, <1>13

LEMMA ListAlways == Spec => [](TypeInv /\ ListInv)
  <1>1. Init => TypeInv /\ ListInv
    BY EarnInit, TypeInit, ListInit DEF TypeInv
  <1>2. ASSUME TypeInv, ListInv, [Next]_vars
        PROVE  TypeInv' /\ ListInv'
    <2>1. TypeInv'
      BY <1>2, TypeNext
    <2>2. CASE UNCHANGED vars
      <3>1. UNCHANGED <<pair, modes, stage, cases, outcome>>
        BY <2>2 DEF vars, plan
      <3>2. QED
        BY <1>2, <2>1, <3>1, StutterList
    <2>3. CASE LetGo
      <3>1. UNCHANGED <<pair, modes, stage, cases, outcome>>
        BY <2>3 DEF LetGo, plan
      <3>2. QED
        BY <1>2, <2>1, <3>1, StutterList
    <2>4. CASE Next /\ ~LetGo
      BY <1>2, <2>1, <2>4, NextPairList, OtherList, ReportList DEF Next, RunnerStep, ProcessStep
    <2>5. QED
      BY <1>2, <2>2, <2>3, <2>4
  <1>3. QED
    BY <1>1, <1>2, PTL DEF Spec

-----------------------------------------------------------------------------
(* Induction and recursion over the numbers.                               *)
LEMMA SetInduction ==
  ASSUME NEW T, 0 \in T, \A n \in Nat : n \in T => n + 1 \in T
  PROVE  Nat \subseteq T
  <1>. DEFINE Bad == Nat \ T
              R == OpToRel(<, Nat)
  <1>1. SUFFICES ASSUME Bad # {}
                 PROVE  FALSE
    OBVIOUS
  <1>2. IsWellFoundedOn(R, Nat)
    BY NatLessThanWellFounded
  <1>3. \A x, y \in Nat : <<y, x>> \in R <=> y < x
    BY DEF OpToRel
  <1>. HIDE DEF R
  <1>4. PICK x \in Bad : \A y \in Bad : ~ (<<y, x>> \in R)
    BY <1>1, <1>2, WFMin
  <1>5. x # 0 /\ x \in Nat
    BY <1>4
  <1>6. x - 1 \in Nat /\ (x - 1) + 1 = x
    BY <1>5
  <1>7. x - 1 \in T
    <2>1. x - 1 < x
      BY <1>5
    <2>2. <<x - 1, x>> \in R
      BY <1>3, <1>5, <1>6, <2>1
    <2>3. QED
      BY <1>4, <1>6, <2>2
  <1>8. QED
    BY <1>4, <1>6, <1>7

(* A function that is defined by recursion over 0 .. n exists.             *)
Recurs(g, n, V, first, step) ==
  g \in [0 .. n -> V] /\ g[0] = first /\ \A i \in 1 .. n : g[i] = step[i][g[i - 1]]

LEMMA Recursion ==
  ASSUME NEW n \in Nat, NEW V, NEW first \in V, NEW step \in [1 .. n -> [V -> V]]
  PROVE  \E g : Recurs(g, n, V, first, step)
  <1>. DEFINE Solves(g, m) ==
                g[0] = first /\ \A i \in 1 .. m : g[i] = step[i][g[i - 1]]
              T == {m \in Nat : m <= n => \E g \in [0 .. m -> V] : Solves(g, m)}
  <1>1. 0 \in T
    <2>1. [i \in 0 .. 0 |-> first] \in [0 .. 0 -> V] /\ Solves([i \in 0 .. 0 |-> first], 0)
      OBVIOUS
    <2>2. QED
      BY <2>1
  <1>2. ASSUME NEW m \in Nat, m \in T
        PROVE  m + 1 \in T
    <2>1. SUFFICES ASSUME m + 1 <= n
                   PROVE  \E g \in [0 .. m + 1 -> V] : Solves(g, m + 1)
      OBVIOUS
    <2>2. PICK g \in [0 .. m -> V] : Solves(g, m)
      BY <1>2, <2>1
    <2>. DEFINE h == [i \in 0 .. m + 1 |-> IF i = m + 1 THEN step[m + 1][g[m]] ELSE g[i]]
    <2>3. step[m + 1][g[m]] \in V
      BY <2>1
    <2>4. h \in [0 .. m + 1 -> V]
      BY <2>3
    <2>5. \A i \in 0 .. m : h[i] = g[i]
      OBVIOUS
    <2>6. h[m + 1] = step[m + 1][g[m]]
      OBVIOUS
    <2>. HIDE DEF h
    <2>7. Solves(h, m + 1)
      <3>1. h[0] = first
        BY <2>2, <2>5
      <3>2. ASSUME NEW i \in 1 .. m + 1
            PROVE  h[i] = step[i][h[i - 1]]
        <4>1. CASE i = m + 1
          BY <2>5, <2>6, <4>1
        <4>2. CASE i # m + 1
          <5>1. i \in 1 .. m /\ i - 1 \in 0 .. m /\ i \in 0 .. m
            BY <4>2
          <5>2. QED
            BY <2>2, <2>5, <5>1
        <4>3. QED
          BY <4>1, <4>2
      <3>3. QED
        BY <3>1, <3>2
    <2>8. QED
      BY <2>4, <2>7
  <1>. HIDE DEF T
  <1>3. n \in T
    BY <1>1, <1>2, SetInduction
  <1>4. QED
    BY <1>3 DEF T, Recurs

-----------------------------------------------------------------------------
(* What finitely many cases cost is added up in whole numbers.             *)
Chosen(S) == CHOOSE n \in S : TRUE
SumRecurs(g, c, S) ==
  /\ g \in [SUBSET S -> Nat]
  /\ \A s \in SUBSET S : g[s] = IF s = {} THEN 0 ELSE c[Chosen(s)] + g[s \ {Chosen(s)}]

LEMMA ChosenIn ==
  ASSUME NEW S, S # {}
  PROVE  Chosen(S) \in S
  BY DEF Chosen

LEMMA SmallerCardinality ==
  ASSUME NEW S, IsFiniteSet(S), NEW e \in S
  PROVE  /\ IsFiniteSet(S \ {e}) /\ Cardinality(S) \in Nat /\ Cardinality(S \ {e}) \in Nat
         /\ Cardinality(S) = Cardinality(S \ {e}) + 1
  <1>1. IsFiniteSet(S \ {e}) /\ Cardinality(S \ {e}) = Cardinality(S) - 1
    BY FS_RemoveElement
  <1>2. Cardinality(S) \in Nat /\ Cardinality(S \ {e}) \in Nat
    BY <1>1, FS_CardinalityType
  <1>3. QED
    BY <1>1, <1>2

LEMMA SumExists ==
  ASSUME NEW S, IsFiniteSet(S), NEW c \in [S -> Nat]
  PROVE  \E g : SumRecurs(g, c, S)
  <1>. DEFINE V == [SUBSET S -> Nat]
              More(v) == [s \in SUBSET S |->
                 IF s = {} THEN 0 ELSE c[Chosen(s)] + v[s \ {Chosen(s)}]]
              first == [s \in SUBSET S |-> 0]
              n == Cardinality(S)
              step == [i \in 1 .. n + 1 |-> [v \in V |-> More(v)]]
  <1>1. n \in Nat
    BY FS_CardinalityType
  <1>2. \A s \in SUBSET S : s # {} =>
          Chosen(s) \in S /\ c[Chosen(s)] \in Nat /\ s \ {Chosen(s)} \in SUBSET S
    BY ChosenIn
  <1>3. \A v \in V : More(v) \in V
    BY <1>2
  <1>4. first \in V
    OBVIOUS
  <1>5. step \in [1 .. n + 1 -> [V -> V]]
    BY <1>3
  <1>6. \A i \in 1 .. n + 1 : \A v \in V : step[i][v] = More(v)
    OBVIOUS
  <1>7. \A v \in V : \A s \in SUBSET S :
          More(v)[s] = IF s = {} THEN 0 ELSE c[Chosen(s)] + v[s \ {Chosen(s)}]
    OBVIOUS
  <1>. HIDE DEF step, first, More
  <1>8a. \E g : Recurs(g, n + 1, V, first, step)
    <2>. HIDE DEF V, n
    <2>1. n + 1 \in Nat
      BY <1>1
    <2>2. QED
      BY <2>1, <1>4, <1>5, Recursion
  <1>8. PICK g : Recurs(g, n + 1, V, first, step)
    BY <1>8a
  <1>9. /\ \A i \in 0 .. n + 1 : g[i] \in V
        /\ \A i \in 1 .. n + 1 : g[i] = More(g[i - 1])
    <2>1. \A i \in 0 .. n + 1 : g[i] \in V
      BY <1>8 DEF Recurs
    <2>2. ASSUME NEW i \in 1 .. n + 1
          PROVE  g[i] = More(g[i - 1])
      <3>1. i - 1 \in 0 .. n + 1
        BY <1>1
      <3>2. g[i] = step[i][g[i - 1]]
        BY <1>8 DEF Recurs
      <3>3. QED
        BY <1>6, <2>1, <3>1, <3>2
    <2>3. QED
      BY <2>1, <2>2
  <1>. DEFINE T == {k \in Nat : k <= n => \A s \in SUBSET S :
                      Cardinality(s) <= k => g[k + 1][s] = g[k][s]}
  <1>10. \A s \in SUBSET S : IsFiniteSet(s) /\ Cardinality(s) \in Nat /\ Cardinality(s) <= n
    BY FS_Subset, FS_CardinalityType
  <1>11. 0 \in T
    <2>1. ASSUME NEW s \in SUBSET S, Cardinality(s) <= 0
          PROVE  g[1][s] = g[0][s]
      <3>1. s = {}
        BY <1>10, <2>1, FS_EmptySet
      <3>2. g[1][s] = 0
        <4>1. 1 \in 1 .. n + 1 /\ 0 \in 0 .. n + 1 /\ 1 - 1 = 0
          BY <1>1
        <4>2. g[1] = More(g[0]) /\ g[0] \in V
          BY <1>9, <4>1
        <4>3. QED
          BY <1>7, <3>1, <4>2
      <3>3. g[0][s] = 0
        BY <1>8 DEF Recurs, first
      <3>4. QED
        BY <3>2, <3>3
    <2>2. QED
      BY <2>1
  <1>12. ASSUME NEW k \in Nat, k \in T
         PROVE  k + 1 \in T
    <2>1. SUFFICES ASSUME k + 1 <= n, NEW s \in SUBSET S, Cardinality(s) <= k + 1
                   PROVE  g[(k + 1) + 1][s] = g[k + 1][s]
      OBVIOUS
    <2>2. /\ k \in 0 .. n + 1 /\ k + 1 \in 1 .. n + 1 /\ (k + 1) + 1 \in 1 .. n + 1
          /\ (k + 1) - 1 = k /\ ((k + 1) + 1) - 1 = k + 1 /\ k + 1 \in 0 .. n + 1
      BY <1>1, <2>1
    <2>3. g[k + 1] = More(g[k]) /\ g[(k + 1) + 1] = More(g[k + 1])
          /\ g[k] \in V /\ g[k + 1] \in V
      BY <1>9, <2>2
    <2>4. CASE s = {}
      BY <1>7, <2>3, <2>4
    <2>5. CASE s # {}
      <3>. DEFINE r == s \ {Chosen(s)}
      <3>1. r \in SUBSET S /\ Cardinality(r) <= k
        BY <1>10, <2>1, <2>5, ChosenIn, SmallerCardinality
      <3>2. g[k + 1][r] = g[k][r]
        <4>1. k <= n
          BY <1>1, <2>1
        <4>2. \A q \in SUBSET S : Cardinality(q) <= k => g[k + 1][q] = g[k][q]
          BY <1>12, <4>1
        <4>. HIDE DEF r
        <4>3. QED
          BY <3>1, <4>2
      <3>3. QED
        BY <1>7, <2>3, <2>5, <3>2
    <2>6. QED
      BY <2>4, <2>5
  <1>. HIDE DEF T
  <1>13. n \in T
    BY <1>1, <1>11, <1>12, SetInduction
  <1>14. \A s \in SUBSET S : g[n + 1][s] = g[n][s]
    BY <1>1, <1>10, <1>13 DEF T
  <1>15. SumRecurs(g[n], c, S)
    <2>1. n \in 0 .. n + 1 /\ n + 1 \in 1 .. n + 1 /\ (n + 1) - 1 = n
      BY <1>1
    <2>2. g[n] \in V /\ g[n + 1] = More(g[n])
      BY <1>9, <2>1
    <2>3. QED
      BY <1>7, <1>14, <2>2 DEF SumRecurs
  <1>16. QED
    BY <1>15

LEMMA CostOfType ==
  ASSUME NEW mode, IsFiniteSet(Of(mode)), \A n \in Of(mode) : CaseCost(n) \in Nat
  PROVE  CostOf(mode) \in Nat
  <1>. DEFINE S == Of(mode)
              c == [n \in S |-> CaseCost(n)]
              Def(f) == [s \in SUBSET S |->
                IF s = {} THEN 0 ELSE CaseCost(Chosen(s)) + f[s \ {Chosen(s)}]]
              iter == CHOOSE f : f = Def(f)
  <1>1. c \in [S -> Nat] /\ IsFiniteSet(S)
    OBVIOUS
  <1>2. \A s \in SUBSET S : s # {} => Chosen(s) \in s /\ CaseCost(Chosen(s)) = c[Chosen(s)]
    BY ChosenIn
  <1>3. PICK g : SumRecurs(g, c, S)
    <2>. HIDE DEF c, S
    <2>1. QED
      BY <1>1, SumExists
  <1>4. g = Def(g)
    BY <1>2, <1>3 DEF SumRecurs
  <1>5. iter = Def(iter)
    BY <1>4
  <1>6. CostOf(mode) = iter[S]
    BY DEF CostOf, MapThenSumSet, MapThenFoldSet, Chosen
  <1>. HIDE DEF iter
  <1>7. \A s \in SUBSET S :
          iter[s] = IF s = {} THEN 0 ELSE CaseCost(Chosen(s)) + iter[s \ {Chosen(s)}]
    BY <1>5
  <1>. DEFINE T == {k \in Nat : \A s \in SUBSET S : Cardinality(s) = k => iter[s] \in Nat}
  <1>8. \A s \in SUBSET S : IsFiniteSet(s) /\ Cardinality(s) \in Nat
    BY FS_Subset, FS_CardinalityType
  <1>9. \A n \in S : CaseCost(n) \in Nat
    OBVIOUS
  <1>. HIDE DEF S, c
  <1>10. 0 \in T
    BY <1>7, <1>8, FS_EmptySet
  <1>11. ASSUME NEW k \in Nat, k \in T
         PROVE  k + 1 \in T
    <2>1. SUFFICES ASSUME NEW s \in SUBSET S, Cardinality(s) = k + 1
                   PROVE  iter[s] \in Nat
      OBVIOUS
    <2>2. CASE s = {}
      BY <1>7, <2>2
    <2>3. CASE s # {}
      <3>1. Chosen(s) \in s /\ CaseCost(Chosen(s)) \in Nat
        BY <1>2, <1>9, <2>3
      <3>2. s \ {Chosen(s)} \in SUBSET S /\ Cardinality(s \ {Chosen(s)}) = k
        BY <1>8, <2>1, <3>1, SmallerCardinality
      <3>3. iter[s \ {Chosen(s)}] \in Nat
        BY <1>11, <3>2
      <3>4. QED
        BY <1>7, <2>3, <3>1, <3>3
    <2>4. QED
      BY <2>2, <2>3
  <1>. HIDE DEF T
  <1>12. Nat \subseteq T
    BY <1>10, <1>11, SetInduction
  <1>13. QED
    BY <1>6, <1>8, <1>12 DEF T

-----------------------------------------------------------------------------
(* Two pairs of the plan are two in the report.                            *)
LEMMA KeysDiffer ==
  ASSUME NEW p \in Pairs, NEW q \in Pairs, Key(p) = Key(q)
  PROVE  p = q
  <1>1. /\ p[1] \in DOMAIN Scenarios /\ q[1] \in DOMAIN Scenarios
        /\ p = <<p[1], p[2]>> /\ q = <<q[1], q[2]>>
    BY DEF Pairs
  <1>2. Scenarios[p[1]].id = Scenarios[q[1]].id /\ p[2] = q[2]
    BY DEF Key
  <1>3. p[1] = q[1]
    BY <1>1, <1>2, IdsAssumption
  <1>4. QED
    BY <1>1, <1>2, <1>3

(* A case of the list is of a pair of the plan and of one of the modes.    *)
LEMMA CaseParts ==
  ASSUME TypeInv, NEW n \in DOMAIN cases
  PROVE  /\ cases[n] \in Cases /\ cases[n] # None
         /\ cases[n].pair \in Pairs /\ cases[n].mode \in Modes
         /\ cases[n].usage \in ProviderUsages \cup {None}
  <1>1. cases \in Seq(Cases)
    BY DEF TypeInv, TypeOK
  <1>2. cases[n] \in Cases
    BY <1>1
  <1>3. QED
    BY <1>2, CasesAssumption DEF Cases

LEMMA UsageNumbers ==
  ASSUME NEW u \in ProviderUsages
  PROVE  Total(u) \in Nat /\ Cost(u) \in Nat
  <1>1. u.input \in Nat /\ u.cached \in Nat /\ u.output \in Nat /\ u.cached <= u.input
    BY UsagesAssumption DEF ProviderUsages
  <1>2. Price.input \in Nat /\ Price.cached \in Nat /\ Price.output \in Nat
    BY UsagesAssumption
  <1>3. \A i, j \in Nat : i * j \in Nat /\ i + j \in Nat
    OBVIOUS
  <1>4. u.input - u.cached \in Nat
    BY <1>1
  <1>5. Total(u) \in Nat
    BY <1>1, <1>3 DEF Total
  <1>6. Cost(u) \in Nat
    <2>1. /\ (u.input - u.cached) * Price.input \in Nat /\ u.cached * Price.cached \in Nat
          /\ u.output * Price.output \in Nat
      BY <1>1, <1>2, <1>3, <1>4
    <2>. DEFINE a == (u.input - u.cached) * Price.input
                b == u.cached * Price.cached
                d == u.output * Price.output
    <2>2. Cost(u) = a + b + d
      BY DEF Cost
    <2>3. a \in Nat /\ b \in Nat /\ d \in Nat
      BY <2>1
    <2>. HIDE DEF a, b, d
    <2>4. QED
      BY <2>2, <2>3
  <1>7. QED
    BY <1>5, <1>6

(* A reported run has the two cases of every pair.                         *)
LEMMA AllListed ==
  ASSUME TypeInv, ListInv, outcome = "reported"
  PROVE  EachOnce /\ \A p \in Pairs, m \in Modes : Listed(p, m)
  <1>1. /\ stage = "ended" /\ pair = LastPair /\ EachOnce
        /\ \A p \in Pairs, m \in Modes : Listed(p, m) <=> Due(p, m)
    BY DEF ListInv
  <1>2. Remaining = {}
    BY <1>1 DEF TypeInv, PairInv, Remaining
  <1>3. ASSUME NEW p \in Pairs
        PROVE  Before(p, LastPair) \/ p = LastPair
    <2>1. /\ p[1] \in 1 .. Len(Scenarios) /\ p[2] \in 1 .. Repetitions /\ p = <<p[1], p[2]>>
          /\ Len(Scenarios) \in Nat /\ Repetitions \in Nat
      BY PairParts
    <2>2. LastPair[1] = Len(Scenarios) /\ LastPair[2] = Repetitions
      BY DEF LastPair
    <2>3. \A a, b \in Nat : \A i \in 1 .. a, j \in 1 .. b :
            (i < a \/ (i = a /\ j < b)) \/ (i = a /\ j = b)
      OBVIOUS
    <2>4. Before(p, LastPair) \/ (p[1] = Len(Scenarios) /\ p[2] = Repetitions)
      BY <2>1, <2>2, <2>3 DEF Before
    <2>5. QED
      BY <2>1, <2>4 DEF LastPair
  <1>4. QED
    BY <1>1, <1>2, <1>3 DEF Due

LEMMA OfFinite ==
  ASSUME TypeInv, NEW mode
  PROVE  IsFiniteSet(Of(mode))
  <1>1. cases \in Seq(Cases)
    BY DEF TypeInv, TypeOK
  <1>2. Len(cases) \in Nat /\ DOMAIN cases = 1 .. Len(cases)
    BY <1>1
  <1>3. IsFiniteSet(1 .. Len(cases))
    BY <1>2, FS_Interval
  <1>4. Of(mode) \in SUBSET (1 .. Len(cases))
    BY <1>2 DEF Of
  <1>5. QED
    BY <1>3, <1>4, FS_Subset

(* There are as many cases with the optimizer as without it.               *)
LEMMA EvenModes ==
  ASSUME TypeInv, ListInv, outcome = "reported"
  PROVE  Cardinality(Of("optimized")) = Cardinality(Of("baseline"))
  <1>. DEFINE S == Of("baseline")
              R == Of("optimized")
              f == [n \in S |-> CHOOSE m \in R : cases[m].pair = cases[n].pair]
  <1>1. EachOnce /\ \A p \in Pairs, m \in Modes : Listed(p, m)
    BY AllListed
  <1>2. \A n \in DOMAIN cases : cases[n].pair \in Pairs
    BY CaseParts
  <1>3. "baseline" \in Modes /\ "optimized" \in Modes
    BY DEF Modes
  <1>4. ASSUME NEW n \in S
        PROVE  f[n] \in R /\ cases[f[n]].pair = cases[n].pair
    <2>1. n \in DOMAIN cases
      BY DEF Of
    <2>2. \E m \in R : cases[m].pair = cases[n].pair
      BY <1>1, <1>2, <1>3, <2>1 DEF Listed, Of
    <2>3. f[n] = CHOOSE m \in R : cases[m].pair = cases[n].pair
      OBVIOUS
    <2>4. QED
      BY <2>2, <2>3
  <1>5. ASSUME NEW m \in R
        PROVE  \E n \in S : f[n] = m
    <2>1. m \in DOMAIN cases /\ cases[m].mode = "optimized"
      BY DEF Of
    <2>2. PICK n \in S : cases[n].pair = cases[m].pair
      BY <1>1, <1>2, <1>3, <2>1 DEF Listed, Of
    <2>3. f[n] \in DOMAIN cases /\ cases[f[n]].mode = "optimized" /\ cases[f[n]].pair = cases[m].pair
      BY <1>4, <2>2 DEF Of
    <2>4. f[n] = m
      BY <1>1, <2>1, <2>3 DEF EachOnce
    <2>5. QED
      BY <2>2, <2>4
  <1>6. ASSUME NEW k \in S, NEW n \in S, f[k] = f[n]
        PROVE  k = n
    <2>1. /\ k \in DOMAIN cases /\ n \in DOMAIN cases
          /\ cases[k].mode = "baseline" /\ cases[n].mode = "baseline"
      BY DEF Of
    <2>2. cases[k].pair = cases[n].pair
      BY <1>4, <1>6
    <2>3. QED
      BY <1>1, <2>1, <2>2 DEF EachOnce
  <1>7. f \in [S -> R] /\ IsFiniteSet(S)
    BY <1>4, OfFinite
  <1>. HIDE DEF f, S, R
  <1>8. f \in Surjection(S, R)
    BY <1>5, <1>7 DEF Surjection
  <1>9. f \in Injection(S, R)
    BY <1>6, <1>7 DEF Injection, IsInjective
  <1>10. Cardinality(R) = Cardinality(S)
    BY <1>7, <1>8, <1>9, FS_Surjection
  <1>11. QED
    BY <1>10 DEF R, S

(* In a list with every case once, the report finds the case it looks for. *)
LEMMA FoundCase ==
  ASSUME TypeInv, EachOnce, NEW n \in DOMAIN cases
  PROVE  CaseOf(cases[n].pair, cases[n].mode) = cases[n]
  <1>. DEFINE of == {k \in Of(cases[n].mode) : Key(cases[k].pair) = Key(cases[n].pair)}
  <1>1. n \in of
    BY DEF Of
  <1>2. ASSUME NEW k \in of
        PROVE  k = n
    <2>1. k \in DOMAIN cases /\ cases[k].mode = cases[n].mode /\ Key(cases[k].pair) = Key(cases[n].pair)
      BY DEF Of
    <2>2. cases[k].pair = cases[n].pair
      BY <2>1, CaseParts, KeysDiffer
    <2>3. QED
      BY <2>1, <2>2 DEF EachOnce
  <1>3. of = {n}
    BY <1>1, <1>2
  <1>4. n \in Nat
    <2>1. cases \in Seq(Cases)
      BY DEF TypeInv, TypeOK
    <2>2. QED
      BY <2>1
  <1>5. Max({n}) = n
    <2>1. \E x \in {n} : \A y \in {n} : x >= y
      BY <1>4
    <2>2. Max({n}) \in {n}
      BY <2>1, Zenon DEF Max
    <2>3. QED
      BY <2>2
  <1>6. CaseOf(cases[n].pair, cases[n].mode) = IF of = {} THEN None ELSE cases[Max(of)]
    BY Zenon DEF CaseOf
  <1>. HIDE DEF of
  <1>7. QED
    BY <1>3, <1>5, <1>6

(* Where every case is a success, the cost per success is lower only if    *)
(* the whole cost is.                                                      *)
LEMMA LowerCost ==
  ASSUME TypeInv, ListInv, outcome = "reported", ReleasePassed
  PROVE  CostOf("optimized") < CostOf("baseline")
  <1>1. \A n \in DOMAIN cases : cases[n].success /\ cases[n].usage # None
    BY DEF ReleasePassed, AllCasesSuccessful
  <1>2. ASSUME NEW mode
        PROVE  CostOf(mode) \in Nat
    <2>1. ASSUME NEW n \in Of(mode)
          PROVE  CaseCost(n) \in Nat
      <3>1. n \in DOMAIN cases
        BY DEF Of
      <3>2. cases[n].usage \in ProviderUsages /\ cases[n].usage # None
        BY <1>1, <3>1, CaseParts
      <3>3. CaseCost(n) = Cost(cases[n].usage)
        BY <3>2 DEF CaseCost
      <3>4. QED
        BY <3>2, <3>3, UsageNumbers
    <2>2. QED
      BY <2>1, OfFinite, CostOfType
  <1>3. ASSUME NEW mode
        PROVE  Successes(mode) = Cardinality(Of(mode))
    <2>1. {n \in Of(mode) : cases[n].success} = Of(mode)
      BY <1>1 DEF Of
    <2>2. QED
      BY <2>1 DEF Successes
  <1>4. PICK k \in Nat : k = Cardinality(Of("baseline"))
    BY OfFinite, FS_CardinalityType
  <1>5. Successes("baseline") = k /\ Successes("optimized") = k
    BY <1>3, <1>4, EvenModes
  <1>6. k > 0 /\ CostOf("optimized") * k < CostOf("baseline") * k
    BY <1>5 DEF ReleasePassed, CostPerSuccessLower
  <1>7. \A a, b \in Nat : a * k < b * k => a < b
    <2>1. SUFFICES ASSUME NEW a \in Nat, NEW b \in Nat, b <= a
                   PROVE  b * k <= a * k
      OBVIOUS
    <2>2. PICK d \in Nat : a = b + d
      <3>1. a - b \in Nat /\ a = b + (a - b)
        BY <2>1
      <3>2. QED
        BY <3>1
    <2>3. a * k = b * k + d * k /\ d * k \in Nat /\ b * k \in Nat
      BY <2>2
    <2>4. QED
      BY <2>3
  <1>8. QED
    BY <1>2, <1>6, <1>7

LEMMA Released ==
  ASSUME TypeInv, ListInv
  PROVE  ReleaseIsEarned
  <1>. SUFFICES ASSUME outcome = "reported", ReleasePassed
                PROVE  /\ CostOf("optimized") < CostOf("baseline")
                       /\ \A n \in DOMAIN cases :
                            /\ TrueSuccess(cases[n])
                            /\ cases[n].mode = "optimized" =>
                                 Total(cases[n].usage) * 10
                                   <= Total(CaseOf(cases[n].pair, "baseline").usage) * 11
    BY DEF ReleaseIsEarned
  <1>1. CostOf("optimized") < CostOf("baseline")
    BY LowerCost
  <1>2. \A n \in DOMAIN cases :
          cases[n].success /\ cases[n].usage # None /\ ~Regressed(cases[n].pair)
    BY DEF ReleasePassed, AllCasesSuccessful
  <1>3. \A n \in DOMAIN cases : TrueSuccess(cases[n])
    BY <1>2 DEF TypeInv, EarnInv, SuccessIsEarned
  <1>4. ASSUME NEW n \in DOMAIN cases, cases[n].mode = "optimized"
        PROVE  Total(cases[n].usage) * 10 <= Total(CaseOf(cases[n].pair, "baseline").usage) * 11
    <2>1. EachOnce /\ Listed(cases[n].pair, "baseline")
      BY AllListed, CaseParts DEF Modes
    <2>2. PICK k \in DOMAIN cases : cases[k].pair = cases[n].pair /\ cases[k].mode = "baseline"
      BY <2>1 DEF Listed
    <2>3. CaseOf(cases[n].pair, "optimized") = cases[n]
      BY <1>4, <2>1, FoundCase
    <2>4. CaseOf(cases[n].pair, "baseline") = cases[k]
      BY <2>1, <2>2, FoundCase
    <2>5. ~(Total(cases[n].usage) * 10 > Total(cases[k].usage) * 11)
      BY <1>2, <2>3, <2>4, CaseParts DEF Regressed
    <2>6. Total(cases[n].usage) \in Nat /\ Total(cases[k].usage) \in Nat
      BY <1>2, CaseParts, UsageNumbers
    <2>7. \A a, b \in Nat : ~(a * 10 > b * 11) => a * 10 <= b * 11
      OBVIOUS
    <2>8. QED
      BY <2>4, <2>5, <2>6, <2>7
  <1>5. QED
    BY <1>1, <1>3, <1>4

(* A release passes only on a run in which every task was in truth done    *)
(* with and without the optimizer, in which the tasks together became      *)
(* cheaper and no task took over a tenth more tokens                       *)
(* (summarizeReleaseGates), for any scenarios and prices and however often *)
(* each is repeated.                                                       *)
THEOREM ReleasesAreEarned == Spec => []ReleaseIsEarned
  <1>1. TypeInv /\ ListInv => ReleaseIsEarned
    BY Released
  <1>2. QED
    BY <1>1, ListAlways, PTL

(* Every pair of a reported run is in its list once with the optimizer and *)
(* once without, and nothing is there twice: what the totals of the        *)
(* report compare (summarizeLiveBenchmarkReport) are as many cases on each *)
(* side, of the same pairs, however runLiveBenchmarks ordered the modes    *)
(* and whatever hosts and validators did.                                  *)
THEOREM RunsAreComplete ==
  Spec => [](outcome = "reported" =>
               /\ EachOnce
               /\ \A p \in Pairs, m \in Modes : Listed(p, m)
               /\ Cardinality(Of("optimized")) = Cardinality(Of("baseline")))
  <1>. DEFINE Complete == /\ EachOnce
                          /\ \A p \in Pairs, m \in Modes : Listed(p, m)
                          /\ Cardinality(Of("optimized")) = Cardinality(Of("baseline"))
  <1>1. TypeInv /\ ListInv => (outcome = "reported" => Complete)
    BY AllListed, EvenModes
  <1>2. QED
    BY <1>1, ListAlways, PTL
=============================================================================
