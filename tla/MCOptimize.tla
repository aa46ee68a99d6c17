----------------------------- MODULE MCOptimize -----------------------------
(* A module, its test, a module that imports it, a document and a          *)
(* generated file, all of one package.                                     *)
EXTENDS OptimizeRun

CONSTANTS doc, gen, a, aTest, b

MCOrder == <<doc, gen, a, aTest, b>>
MCKind == a :> "source" @@ aTest :> "test" @@ b :> "source" @@ doc :> "documentation" @@ gen :> "generated"
MCDirectory == a :> "src" @@ aTest :> "src" @@ b :> "src" @@ doc :> "docs" @@ gen :> "dist"
MCStem == a :> "a" @@ aTest :> "a" @@ b :> "b" @@ doc :> "doc" @@ gen :> "gen"
MCPackage == [f \in Files |-> "app"]
MCPathWords ==
  a :> {"parser"} @@ aTest :> {"parser", "test"} @@ b :> {"store"} @@ doc :> {"guide"} @@ gen :> {"bundle"}

File(symbols, terms, imports, tokens) ==
  [symbols |-> symbols, terms |-> terms, imports |-> imports, tokens |-> tokens]
MCContent ==
  [a1 |-> File({"parse"}, {"parse", "cache"}, {}, 400),
   a2 |-> File({"load", "AKIAKEY"}, {"load", "parse"}, {}, 2900),
   t1 |-> File({}, {"parse", "test"}, {a}, 300),
   b1 |-> File({"save"}, {"save", "cache"}, {a}, 900),
   b2 |-> File({"save", "parse"}, {"save", "load"}, {}, 500),
   d1 |-> File({}, {"cache", "load"}, {}, 2000),
   g1 |-> File({"parse"}, {"parse"}, {}, 9000)]
MCInitially == a :> "a1" @@ aTest :> "t1" @@ b :> "b1" @@ doc :> "d1" @@ gen :> "g1"
MCVersions ==
  a :> {"a1", "a2", None} @@ b :> {"b1", "b2"} @@ aTest :> {} @@ doc :> {} @@ gen :> {}
MCIdf(n, frequency) == 1 + (10 * (n - frequency)) \div n

Words(words, operation) ==
  [words |-> words, paths |-> {}, mentioned |-> {}, names |-> {}, symbols |-> {}, packages |-> {},
   operation |-> operation, risk |-> "low", errors |-> FALSE, tests |-> 0, length |-> 1,
   kinds |-> {}]
MCTasks ==
  [fix |-> Words({"fix", "parse", "cache"}, "fix"),
   cache |-> Words({"cache"}, "unknown"),
   load |-> [Words({"load"}, "unknown") EXCEPT !.symbols = {"load"}],
   remove |-> [Words({"remove", "store", "save"}, "remove")
                 EXCEPT !.paths = {b, doc}, !.mentioned = {b, doc}, !.names = {b, doc}]]

Call(caller, task, threshold, recent, includeSummaries) ==
  [caller |-> caller, task |-> task, includeSummaries |-> includeSummaries,
   options |-> [limit |-> 2, threshold |-> threshold, recent |-> recent]]
MCRequests ==
  {Call("hook", task, 250, {}, TRUE) : task \in {"cache", "load", "remove"}}
    \cup {Call(caller, "remove", 400, {}, TRUE) : caller \in {"optimize", "build_context_pack"}}
    \cup {Call("build_context_pack", "fix", 250, {doc}, FALSE),
          Call("analyze_task", "cache", 250, {}, FALSE)}
=============================================================================
