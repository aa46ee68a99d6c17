-------------------------- MODULE MCLiveBenchmark --------------------------
(* One file, two scenarios; a cheap, a dear and an impossible usage.       *)
EXTENDS LiveBenchmark

CONSTANT file

Scenario_(id, command, expected, skip) ==
  [id |-> id, command |-> command, expected |-> expected, skip |-> skip]
ScenariosDef == << Scenario_(1, "fixed", {file}, FALSE), Scenario_(2, "none", {}, TRUE) >>

OnlyReadingDef == << Scenario_(1, "fixed", {}, FALSE) >>

UsageOf(i, c, o) == [input |-> i, cached |-> c, output |-> o]
UsagesDef == { UsageOf(10, 0, 2), UsageOf(8, 4, 1), UsageOf(1, 2, 1) }
PriceDef == [input |-> 4, cached |-> 1, output |-> 12]
=============================================================================
