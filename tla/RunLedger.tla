----------------------------- MODULE RunLedger -----------------------------
(***************************************************************************)
(* record_run of packages/mcp-server/src/tools.ts, and the token ledgers   *)
(* of packages/core/src/token/ledger.ts that it keeps.                     *)
(*                                                                         *)
(* A host reports what a run of an agent has cost: the usage of the agent, *)
(* as far as it knows, and the overhead of the optimizer's tools that the  *)
(* run has called.  A call saves a metric of its own, merges what it was   *)
(* told into the ledger of the run, and saves that.  Calls overlap: the    *)
(* server answers several at once, and one that has exceeded its timeout   *)
(* goes on after the host was told that it failed, when the host may well  *)
(* have called again with the same report.                                 *)
(*                                                                         *)
(* The cache is the one that SnapshotCache specifies: a session loads a    *)
(* copy of the whole table, and every save publishes the whole copy.       *)
(* The other tools and the hook use the same file.  A session of theirs    *)
(* that only looks something up saves the table when it is opened, too.    *)
(***************************************************************************)
EXTENDS Naturals, Sequences, FiniteSets

CONSTANTS
  MaxCalls,    \* bound on the calls of the tools
  Runs,        \* the runIds
  Tasks,       \* the taskIds
  Operations,  \* the operationIds of optimizer calls, which hosts report
  Reports,     \* what the hosts report
  MaxFaults,   \* bound on failed saves, timeouts and crashes
  MaxEntries,  \* the entries that a ledger may have: 10000 in the code
  None         \* no task, unknown usage, no report

Calls == 1 .. MaxCalls    \* operationIds

Agent(c) == [kind |-> "agent_run", operation |-> c]
Optimizer(o) == [kind |-> "optimizer_call", operation |-> o]
EntryIds == {Agent(c) : c \in Calls} \cup {Optimizer(o) : o \in Operations}
Tokens == Nat \cup {None}

ASSUME ReportsAssumption ==
  \A r \in Reports : /\ r.run \in Runs /\ r.task \in Tasks \cup {None}
                     /\ r.accounting \in Tokens
                     /\ r.optimizerCalls \in Seq([operation : Operations, tokens : Tokens])
ASSUME NoneAssumption ==
  None \notin Nat /\ None \notin Tasks /\ None \notin Reports
ASSUME BoundsAssumption == {MaxCalls, MaxFaults, MaxEntries} \subseteq Nat

VARIABLES
  saved,      \* the table in the file
  view,       \* the copy of each call's session
  stage,      \* the await each call is at
  report,     \* what it was called with; None for another tool's session
  reply,      \* what its host has been answered
  faults,     \* how many there have been
  replayed,   \* one merge of all entries saved for each run, in order (history)
  disturbed   \* the calls whose sessions were open at once with another's (history)

vars == <<saved, view, stage, report, reply, faults, replayed, disturbed>>
history == <<replayed, disturbed>>

NoLedger == [task |-> None, entries |-> <<>>]
NoRecords == [metrics |-> {}, ledgers |-> [r \in Runs |-> NoLedger]]

Stages == {"idle", "load", "initialize", "set_metric", "set_ledger", "done"}
Open(c) == stage[c] \in {"initialize", "set_metric", "set_ledger"}
Recording(c) == stage[c] # "idle" /\ report[c] # None

Holds(ledger, i) == i \in DOMAIN ledger.entries
Knows(ledger, i) == Holds(ledger, i) /\ ledger.entries[i] # None

TableOK(table) ==
  /\ table.metrics \subseteq Calls
  /\ DOMAIN table.ledgers = Runs
  /\ \A r \in Runs :
       LET ledger == table.ledgers[r] IN
       /\ ledger.task \in Tasks \cup {None}
       /\ DOMAIN ledger.entries \subseteq EntryIds
       /\ \A i \in DOMAIN ledger.entries : ledger.entries[i] \in Tokens
       /\ Cardinality(DOMAIN ledger.entries) <= MaxEntries

(* A ledger is never larger than its schema allows.                        *)
TypeOK ==
  /\ TableOK(saved) /\ \A c \in Calls : TableOK(view[c])
  /\ stage \in [Calls -> Stages]
  /\ report \in [Calls -> Reports \cup {None}]
  /\ reply \in [Calls -> {"none", "persisted", "failed"}]
  /\ faults \in 0 .. MaxFaults
  /\ disturbed \subseteq Calls

Init ==
  /\ saved = NoRecords
  /\ view = [c \in Calls |-> NoRecords]
  /\ stage = [c \in Calls |-> "idle"]
  /\ report = [c \in Calls |-> None]
  /\ reply = [c \in Calls |-> "none"]
  /\ faults = 0
  /\ replayed = [r \in Runs |-> <<>>]
  /\ disturbed = {}

-----------------------------------------------------------------------------
(* createTokenLedgerEntries: an entry for each optimizer call, by its      *)
(* operationId, and one for the agent, by that of this call of record_run. *)
Entry(i, tokens) == [id |-> i, tokens |-> tokens]

LedgerEntries(c) ==
  [n \in DOMAIN report[c].optimizerCalls |->
     LET call == report[c].optimizerCalls[n] IN Entry(Optimizer(call.operation), call.tokens)]
    \o <<Entry(Agent(c), report[c].accounting)>>

Ids(new) == {new[n].id : n \in DOMAIN new}

(* The last that the new entries know of an id, if they know anything.     *)
KnownAt(new, i) == {n \in DOMAIN new : new[n].id = i /\ new[n].tokens # None}
Latest(new, i) ==
  IF KnownAt(new, i) = {} THEN None
  ELSE new[CHOOSE n \in KnownAt(new, i) : \A k \in KnownAt(new, i) : k <= n].tokens

(* Mutant: what comes last wins, although it is unknown.                   *)
MergedLast(entries, new) ==
  [i \in DOMAIN entries \cup Ids(new) |-> IF i \in Ids(new) THEN Latest(new, i) ELSE entries[i]]

(* Mutant: what is known already is kept.                                  *)
MergedFirst(entries, new) ==
  [i \in DOMAIN entries \cup Ids(new) |->
     IF i \in DOMAIN entries /\ entries[i] # None THEN entries[i] ELSE Latest(new, i)]

(* The entries of a ledger with new ones merged into them: an unknown      *)
(* usage never replaces a known one, otherwise the later one counts.  The  *)
(* ids of the two kinds differ, so that their kinds never conflict.        *)
Merged(entries, new) ==
  [i \in DOMAIN entries \cup Ids(new) |->
     IF KnownAt(new, i) # {} \/ i \notin DOMAIN entries THEN Latest(new, i) ELSE entries[i]]

(* Mutant: the task of the ledger is that of the latest call.              *)
MergedTaskOfCall(ledger, task) == task

MergedTask(ledger, task) == IF task # None THEN task ELSE ledger.task

OtherTask(ledger, task) == None \notin {ledger.task, task} /\ ledger.task # task

(* Mutant: the limit is looked at before the entries are merged.           *)
TooManyBefore(entries) == FALSE

TooMany(entries) == Cardinality(DOMAIN entries) > MaxEntries

-----------------------------------------------------------------------------
(* Mutant: a rejection is not answered.                                    *)
DoneSilently(c, answer) ==
  /\ stage' = [stage EXCEPT ![c] = "done"]
  /\ reply' = [reply EXCEPT ![c] = IF @ = "none" /\ answer = "persisted" THEN answer ELSE @]
  /\ view' = [view EXCEPT ![c] = NoRecords]

(* A call is done, its session closed, and its host is answered unless it  *)
(* has been already.                                                       *)
Done(c, answer) ==
  /\ stage' = [stage EXCEPT ![c] = "done"]
  /\ reply' = [reply EXCEPT ![c] = IF @ = "none" THEN answer ELSE @]
  /\ view' = [view EXCEPT ![c] = NoRecords]

(* It goes on with this copy.                                              *)
GoOn(c, next, table) ==
  /\ stage' = [stage EXCEPT ![c] = next]
  /\ view' = [view EXCEPT ![c] = table]
  /\ UNCHANGED reply

Fault == faults < MaxFaults /\ faults' = faults + 1

(* A host calls record_run, or any tool whose session only looks up.  The  *)
(* operationId is a new one.                                               *)
Call(c) ==
  /\ stage[c] = "idle" /\ \A d \in 1 .. c - 1 : stage[d] # "idle"
  /\ \E r \in Reports \cup {None} : report' = [report EXCEPT ![c] = r]
  /\ GoOn(c, "load", NoRecords)
  /\ UNCHANGED <<saved, faults, history>>

(* The session is opened on a copy of the file.                            *)
Load(c) ==
  LET others == {d \in Calls : Open(d)} IN
  /\ stage[c] = "load"
  /\ GoOn(c, "initialize", saved)
  /\ disturbed' = disturbed \cup (IF others = {} THEN {} ELSE others \cup {c})
  /\ UNCHANGED <<saved, report, faults, replayed>>

(* What a loop over new entries makes of a ledger's, one after the other   *)
(* as mergeTokenLedger does.                                               *)
Put(entry, entries) ==
  IF entry.tokens = None /\ entry.id \in DOMAIN entries /\ entries[entry.id] # None THEN entries
  ELSE [i \in DOMAIN entries \cup {entry.id} |-> IF i = entry.id THEN entry.tokens ELSE entries[i]]
Replay(entries, new) ==
  LET after[n \in 0 .. Len(new)] == IF n = 0 THEN entries ELSE Put(new[n], after[n - 1])
  IN after[Len(new)]

(* A save of the session's table: it may be rejected before the file is    *)
(* replaced, or after that, by the chmod.                                  *)
Save(c, table, replay, OnSaved) ==
  /\ \/ saved' = table /\ replayed' = replay /\ OnSaved /\ UNCHANGED faults
     \/ saved' = table /\ replayed' = replay /\ Fault /\ Done(c, "failed")
     \/ UNCHANGED <<saved, replayed>> /\ Fault /\ Done(c, "failed")
  /\ UNCHANGED <<report, disturbed>>

Initialize(c) ==
  /\ stage[c] = "initialize"
  /\ Save(c, view[c], replayed,
       IF report[c] = None THEN Done(c, "persisted") ELSE GoOn(c, "set_metric", view[c]))

(* Mutant: the metric is forgotten.                                        *)
SetMetricNever(c) ==
  /\ stage[c] = "set_metric"
  /\ Save(c, view[c], replayed, GoOn(c, "set_ledger", view[c]))

SetMetric(c) ==
  LET table == [view[c] EXCEPT !.metrics = @ \cup {c}] IN
  /\ stage[c] = "set_metric"
  /\ Save(c, table, replayed, GoOn(c, "set_ledger", table))

(* The ledger is looked up, merged and saved; the merge throws when the    *)
(* run is known for another task, and the schema when there are too many   *)
(* entries.  The metric has been saved by then.                            *)
SetLedger(c) ==
  LET r == report[c].run
      task == report[c].task
      existing == view[c].ledgers[r]
      new == LedgerEntries(c)
      entries == Merged(existing.entries, new)
      ledger == [task |-> MergedTask(existing, task), entries |-> entries] IN
  /\ stage[c] = "set_ledger"
  /\ IF OtherTask(existing, task) \/ TooMany(entries)
     THEN Done(c, "failed") /\ UNCHANGED <<saved, report, faults, history>>
     ELSE Save(c, [view[c] EXCEPT !.ledgers[r] = ledger],
               [replayed EXCEPT ![r] = Replay(@, new)],
               Done(c, "persisted"))

(* withOperationTimeout: the host is told that the call has failed.        *)
Timeout(c) ==
  /\ stage[c] \notin {"idle", "done"} /\ reply[c] = "none"
  /\ Fault
  /\ reply' = [reply EXCEPT ![c] = "failed"]
  /\ UNCHANGED <<saved, view, stage, report, history>>

(* The server dies, and with it the calls it was at.                       *)
Crash ==
  /\ \E c \in Calls : stage[c] \notin {"idle", "done"}
  /\ Fault
  /\ stage' = [c \in Calls |-> IF stage[c] = "idle" THEN "idle" ELSE "done"]
  /\ view' = [c \in Calls |-> NoRecords]
  /\ reply' = [c \in Calls |-> IF stage[c] # "idle" /\ reply[c] = "none" THEN "failed" ELSE reply[c]]
  /\ UNCHANGED <<saved, report, history>>

CallStep(c) == Load(c) \/ Initialize(c) \/ SetMetric(c) \/ SetLedger(c)

Next == (\E c \in Calls : Call(c) \/ CallStep(c) \/ Timeout(c)) \/ Crash

(* Reads and writes settle as long as there is a call to go on.            *)
Spec == Init /\ [][Next]_vars /\ WF_vars(\E c \in Calls : CallStep(c))

-----------------------------------------------------------------------------
(* Properties.                                                             *)

(* The agent's entry of a call is in no table without the call's metric,   *)
(* whatever fails in between and whichever session saves last.             *)
EntriesHaveMetrics(table) ==
  \A r \in Runs, c \in Calls : Holds(table.ledgers[r], Agent(c)) => c \in table.metrics
EveryEntryHasItsMetric ==
  EntriesHaveMetrics(saved) /\ \A c \in Calls : EntriesHaveMetrics(view[c])

(* ledger.test.ts:70 "rejects reuse of a run identifier for a different    *)
(* task": no ledger, in the file or in a session, has entries of calls     *)
(* that were made for different tasks, also if some named none.            *)
OneTask(table) ==
  \A r \in Runs, c \in Calls :
    Holds(table.ledgers[r], Agent(c)) =>
      /\ report[c] # None
      /\ report[c].task \in {None, table.ledgers[r].task}
OneTaskPerRun == OneTask(saved) /\ \A c \in Calls : OneTask(view[c])

(* A call that was answered with success, and that no other session was    *)
(* open with, has its metric and its entries in the file from then on, and *)
(* what it knew is still known.                                            *)
AcknowledgedIsRecorded ==
  \A c \in Calls \ disturbed :
    (Recording(c) /\ reply[c] = "persisted") =>
      LET ledger == saved.ledgers[report[c].run] IN
      /\ c \in saved.metrics
      /\ \A n \in DOMAIN LedgerEntries(c) :
           LET entry == LedgerEntries(c)[n] IN
           /\ Holds(ledger, entry.id)
           /\ entry.tokens # None => Knows(ledger, entry.id)

(* The ledger of a run whose calls had the file to themselves is what one  *)
(* merge of everything in order gives: timeouts, failed saves, retries and *)
(* crashes neither lose an entry nor bring back an older one.              *)
LedgerIsReplay ==
  \A r \in Runs :
    (\A c \in disturbed : Recording(c) => report[c].run # r) =>
      saved.ledgers[r].entries = replayed[r]

(* Every call is answered, and its session is closed in the end, also when *)
(* the answer was a timeout.                                               *)
Waiting(c) == stage[c] \notin {"idle", "done"} \/ (stage[c] = "done" /\ reply[c] = "none")
CallsEnd == (\E c \in Calls : Waiting(c)) ~> (\A c \in Calls : ~Waiting(c))
=============================================================================
