------------------------------ MODULE Indexing ------------------------------
(***************************************************************************)
(* The index and the analysis of one workspace, session after session:     *)
(* discoverWorkspace of packages/core/src/workspace/discover.ts and        *)
(* analyzeWorkspace of packages/core/src/workspace-analysis/index.ts, as   *)
(* the user-prompt hook, the MCP tools and the optimize command call them. *)
(*                                                                         *)
(* A session takes the index and the analysis that an earlier one saved,   *)
(* walks the directories, inspects the files with a few workers that share *)
(* the limits, analyzes what it found, and saves both.  A file whose size  *)
(* and time of modification are those of the saved index keeps its hash; a *)
(* file whose hash is that of the saved analysis keeps its analysis.  The  *)
(* user goes on editing all the while, and a timer may set a flag, which   *)
(* discovery looks at, at any moment.                                      *)
(*                                                                         *)
(* The workers belong to one JavaScript thread: what one of them does      *)
(* between two awaits is one step.  A hash is the content that it is of.   *)
(* Every edit changes the time of modification, as the code relies on.     *)
(***************************************************************************)
EXTENDS Naturals, FiniteSets, SequencesExt, FiniteSetsExt

CONSTANTS
  Directories,   \* the files of each directory in order, in order of the walk
  Links,         \* the paths that are symbolic links
  Contents,
  Initially,     \* the contents there may be at first
  SizeOf,        \* sizeBytes of a file with that content
  Binaries,      \* the contents with a zero byte in the sample
  Options,       \* what the sessions may be called with
  Concurrency,   \* how many workers there are
  MaxEdits,      \* bound on the edits
  MaxSessions,   \* bound on the sessions
  None

Order == FlattenSeq(Directories)
Paths == UNION {ToSet(Directories[d]) : d \in DOMAIN Directories}
Files == Paths \ Links

(* A path is at one place of one directory.                                *)
OnePlace ==
  \A d, e \in DOMAIN Directories :
    \A i \in DOMAIN Directories[d], j \in DOMAIN Directories[e] :
      Directories[d][i] = Directories[e][j] => d = e /\ i = j

ASSUME ConstantsAssumption ==
  /\ Directories \in Seq(Seq(Paths)) /\ OnePlace
  /\ Links \subseteq Paths /\ {"outside", "directory"} \cap Paths = {}
  /\ SizeOf \in [Contents -> Nat] /\ Binaries \subseteq Contents /\ Initially \subseteq Contents
  /\ Options \subseteq [caller: {"hook", "tool"}, ruled: SUBSET Paths,
                         linkTo: [Links -> Files \cup {"outside", "directory"}],
                         maxFiles: Nat \ {0}, maxFileSizeBytes: Nat,
                         maxTotalBytes: Nat] /\ Options # {}
  /\ {MaxEdits, MaxSessions} \subseteq Nat /\ Concurrency \in Nat \ {0}
  /\ None \notin Contents \cup {"ignored", "oversized", "binary", "outside_workspace"}

VARIABLES
  content,    \* what each file contains, None if there is no such file
  mtime,      \* when it was last written, in edits
  saved,      \* the index and the analysis in the cache
  sessions,   \* how many sessions there have been
  stage,      \* where the session is
  options,    \* the caller, ignore rules, links and limits of the session
  aborted,    \* its signal
  unread,     \* how many directories are not walked yet
  tasks,      \* inspectionTasks that no worker has taken, by path
  scheduled,  \* scheduledFiles
  inspected,  \* the inspections the workers are at, one per worker
  files,      \* what has been found
  reserved,   \* indexedBytes
  warnings,   \* the codes of the warnings
  pending,    \* the files that are still to be analyzed
  analysis,   \* the analyses made or reused so far
  touched,    \* the files edited since the session started (history)
  disturbed   \* the paths edited or unreadable in any session (history)

user == <<content, mtime>>
history == <<touched, disturbed>>
shared == <<files, reserved, warnings>>
discovery == <<unread, tasks, scheduled, inspected, shared>>
analyzing == <<pending, analysis>>
vars == <<user, saved, sessions, stage, options, aborted, discovery, analyzing, history>>

Sizes == {SizeOf[c] : c \in Contents}
Reasons == {None, "ignored", "oversized", "binary", "outside_workspace"}
Entries == [path: Paths, size: Sizes \cup {0}, mtime: Nat,
            hash: Contents \cup {None}, reason: Reasons]
Analyses(P) == [P -> [hash: Contents \cup {None}, reason: Reasons, of: Contents \cup {None}]]
Stages == {"idle", "walk", "inspect", "analyze", "save_index", "save_analysis"}
Codes == {"file_limit", "byte_limit", "cancelled", "outside_symlink", "symlink_directory"}

TypeOK ==
  /\ content \in [Files -> Contents \cup {None}]
  /\ mtime \in [Files -> 0 .. MaxEdits]
  /\ saved.index \subseteq Entries
  /\ \E P \in SUBSET Paths : saved.analysis \in Analyses(P)
  /\ sessions \in 0 .. MaxSessions
  /\ stage \in Stages
  /\ options \in Options
  /\ aborted \in BOOLEAN
  /\ unread \in 0 .. Len(Directories)
  /\ tasks \in Seq(Paths)
  /\ scheduled \in 0 .. options.maxFiles
  /\ inspected \subseteq [at: {"resolve", "stat"}, path: Paths]
                   \cup [at: {"sample", "read"}, path: Paths, size: Sizes, mtime: Nat]
  /\ Cardinality(inspected) <= Concurrency
  /\ files \subseteq Entries
  /\ reserved \in Nat
  /\ warnings \subseteq Codes
  /\ pending \in Seq(Paths)
  /\ \E P \in SUBSET Paths : analysis \in Analyses(P)
  /\ touched \subseteq Files /\ disturbed \subseteq Paths

Init ==
  /\ content \in [Files -> Initially]
  /\ mtime = [f \in Files |-> 0]
  /\ saved = [index |-> {}, analysis |-> <<>>]
  /\ sessions = 0
  /\ stage = "idle"
  /\ options = CHOOSE o \in Options : TRUE
  /\ aborted = FALSE
  /\ unread = 0 /\ tasks = <<>> /\ scheduled = 0
  /\ inspected = {}
  /\ files = {} /\ reserved = 0 /\ warnings = {}
  /\ pending = <<>> /\ analysis = <<>>
  /\ touched = {} /\ disturbed = {}

-----------------------------------------------------------------------------
(* The elements of a sequence that are in a set, in order.                 *)
Kept(s, S) ==
  LET kept[n \in 0 .. Len(s)] ==
        IF n = 0 THEN <<>>
        ELSE IF s[n] \in S THEN Append(kept[n - 1], s[n]) ELSE kept[n - 1]
  IN kept[Len(s)]

(* The file behind a path, what it contains, and what stat says of it.     *)
Referent(p) == IF p \in Links THEN options.linkTo[p] ELSE p
ContentOf(p) == content[Referent(p)]
Exists(p) == p \in Links \/ content[p] # None

(* The paths of one directory are in the order of their names, and its     *)
(* files come before its directories.                                      *)
Start ==
  /\ stage = "idle" /\ sessions < MaxSessions
  /\ sessions' = sessions + 1
  /\ stage' = "walk"
  /\ options' \in Options
  /\ unread' = Len(Directories)
  /\ UNCHANGED <<user, saved, aborted, tasks, scheduled, inspected, shared, analyzing, history>>

(* The session is over, and its variables are gone.                        *)
Leave ==
  /\ stage' = "idle"
  /\ options' = CHOOSE o \in Options : TRUE
  /\ aborted' = FALSE
  /\ unread' = 0 /\ tasks' = <<>> /\ scheduled' = 0
  /\ inspected' = {}
  /\ files' = {} /\ reserved' = 0 /\ warnings' = {}
  /\ pending' = <<>> /\ analysis' = <<>>
  /\ touched' = {}

(* A read fails, or the process is gone: nothing of the session remains.   *)
Fail ==
  /\ stage # "idle" /\ Leave
  /\ UNCHANGED <<user, saved, sessions, disturbed>>

Warned(code) == warnings' = warnings \cup {code}

(* Mutant: one file more than the limit.                                   *)
RoomAndOne == options.maxFiles + 1 - scheduled

Room == options.maxFiles - scheduled

(* walkDirectory: a directory is listed, and its files are scheduled until *)
(* there are maxFiles of them.                                             *)
ReadDirectory ==
  LET listed == Kept(Directories[1 + Len(Directories) - unread], {p \in Paths : Exists(p)})
      room == Room IN
  /\ stage = "walk" /\ unread > 0
  /\ ~aborted /\ "file_limit" \notin warnings
  /\ unread' = unread - 1
  /\ IF Len(listed) <= room
     THEN /\ tasks' = tasks \o listed
          /\ scheduled' = scheduled + Len(listed)
          /\ UNCHANGED warnings
     ELSE /\ tasks' = tasks \o SubSeq(listed, 1, room)
          /\ scheduled' = options.maxFiles
          /\ Warned("file_limit")
  /\ UNCHANGED <<user, saved, sessions, stage, options, aborted, inspected,
                 files, reserved, analyzing, history>>

Inspect ==
  /\ stage = "walk"
  /\ unread = 0 \/ aborted \/ "file_limit" \in warnings
  /\ stage' = "inspect"
  /\ UNCHANGED <<user, saved, sessions, options, aborted, discovery, analyzing, history>>

-----------------------------------------------------------------------------
(* The workers.                                                            *)

InspectionUnchanged ==
  UNCHANGED <<user, saved, sessions, stage, options, aborted, unread, scheduled,
              analyzing, history>>

(* runBounded: a worker that is free takes the next task, unless the       *)
(* signal is set.                                                          *)
TakeTask ==
  /\ stage = "inspect" /\ ~aborted /\ tasks # <<>>
  /\ Cardinality(inspected) < Concurrency
  /\ LET p == Head(tasks) IN
     inspected' = inspected \cup {[at |-> IF p \in Links THEN "resolve" ELSE "stat", path |-> p]}
  /\ tasks' = Tail(tasks)
  /\ UNCHANGED shared
  /\ InspectionUnchanged

Entry(p, size, time, hash, reason) ==
  [path |-> p, size |-> size, mtime |-> time, hash |-> hash, reason |-> reason]

(* An inspection goes on, or ends with an entry or without one.            *)
Becomes(i, next) == inspected' = (inspected \ {i}) \cup {next}

Found(i, entry) ==
  /\ files' = files \cup {entry}
  /\ inspected' = inspected \ {i}

Nothing(i) ==
  /\ inspected' = inspected \ {i}
  /\ UNCHANGED files

(* Mutant: whether the limit is reached already.                           *)
FitsBefore(size) == reserved < options.maxTotalBytes

Fits(size) == reserved + size <= options.maxTotalBytes

(* inspectSymbolicLink, up to the stat of a file in the workspace.         *)
Resolve(i) ==
  LET p == i.path IN
  /\ i.at = "resolve"
  /\ CASE Referent(p) = "outside" ->
            /\ Found(i, Entry(p, 0, 0, None, "outside_workspace"))
            /\ Warned("outside_symlink")
       [] Referent(p) = "directory" ->
            /\ Nothing(i)
            /\ Warned("symlink_directory")
       [] OTHER ->
            /\ Becomes(i, [i EXCEPT !.at = "stat"])
            /\ UNCHANGED <<files, warnings>>
  /\ UNCHANGED <<tasks, reserved>>
  /\ InspectionUnchanged

Ignored(p, size) ==
  IF p \in options.ruled THEN "ignored" ELSE IF size > options.maxFileSizeBytes THEN "oversized" ELSE None

(* Mutant: a file of the same size is taken for the same file.             *)
ReusableBySize(p, size, time) ==
  {e \in saved.index : e.path = p /\ e.size = size /\ e.reason \in {None, "binary"}}

(* canReuseIndexedFile, and canReuseIgnoredFile for a binary file.  Where  *)
(* the code reuses another ignored entry, it would make the same again.    *)
Reusable(p, size, time) ==
  {e \in saved.index : /\ e.path = p /\ e.size = size /\ e.mtime = time
                       /\ e.reason \in {None, "binary"}}

(* reserveIndexedBytes, and what is done with the bytes or without.        *)
Reserve(i, size, Then) ==
  IF Fits(size)
  THEN reserved' = reserved + size /\ Then
  ELSE Warned("byte_limit") /\ Nothing(i) /\ UNCHANGED reserved

(* The file is gone since it was listed: its inspection rejects, and with  *)
(* it the discovery.  The other workers still finish their inspections,    *)
(* which nobody looks at any more.                                         *)
Missing(i) ==
  /\ i.at # "resolve" /\ ContentOf(i.path) = None
  /\ Leave
  /\ UNCHANGED <<user, saved, sessions, disturbed>>

(* inspectFile after its stat, which follows a link.                       *)
Stat(i) ==
  LET p == i.path
      size == SizeOf[ContentOf(p)]
      time == mtime[Referent(p)]
      reason == Ignored(p, size) IN
  /\ i.at = "stat"
  /\ ContentOf(p) # None
  /\ \/ /\ p \in Links /\ aborted
        /\ Warned("cancelled") /\ Nothing(i) /\ UNCHANGED reserved
     \/ /\ ~(p \in Links /\ aborted) /\ reason # None
        /\ Found(i, Entry(p, size, time, None, reason))
        /\ UNCHANGED <<reserved, warnings>>
     \/ /\ ~(p \in Links /\ aborted) /\ reason = None
        /\ \E e \in Reusable(p, size, time) :
             \/ /\ e.reason = None
                /\ Reserve(i, size, Found(i, e) /\ UNCHANGED warnings)
             \/ e.reason = "binary" /\ Found(i, e) /\ UNCHANGED <<reserved, warnings>>
     \/ /\ ~(p \in Links /\ aborted) /\ reason = None
        /\ Reusable(p, size, time) = {}
        /\ Becomes(i, [at |-> "sample", path |-> p, size |-> size, mtime |-> time])
        /\ UNCHANGED shared
  /\ UNCHANGED tasks
  /\ InspectionUnchanged

(* isBinaryFile, and then the bytes are reserved.                          *)
Sample(i) ==
  LET p == i.path
      size == i.size IN
  /\ i.at = "sample"
  /\ ContentOf(p) # None
  /\ IF ContentOf(p) \in Binaries
     THEN /\ Found(i, Entry(p, size, i.mtime, None, "binary"))
          /\ UNCHANGED <<reserved, warnings>>
     ELSE Reserve(i, size,
            IF aborted
            THEN Warned("cancelled") /\ Nothing(i)
            ELSE Becomes(i, [i EXCEPT !.at = "read"]) /\ UNCHANGED <<files, warnings>>)
  /\ UNCHANGED tasks
  /\ InspectionUnchanged

(* The content is read and hashed.                                         *)
Read(i) ==
  LET p == i.path IN
  /\ i.at = "read"
  /\ ContentOf(p) # None
  /\ Found(i, Entry(p, i.size, i.mtime, ContentOf(p), None))
  /\ UNCHANGED <<tasks, reserved, warnings>>
  /\ InspectionUnchanged

(* The workers are done, and the files are sorted by path.  The hook looks *)
(* at the signal here, the tools do not.                                   *)
InOrder(P) == Kept(Order, P)
PathsOf(index) == {e.path : e \in index}

HookGivesUp == aborted /\ options.caller = "hook" /\ Leave

(* Mutant: the workers are done when every task is.                        *)
AllInspected == inspected = {} /\ tasks = <<>>

WorkersDone == inspected = {} /\ (tasks = <<>> \/ aborted)

EndDiscovery ==
  /\ stage = "inspect" /\ WorkersDone
  /\ \/ HookGivesUp
     \/ /\ ~(aborted /\ options.caller = "hook")
        /\ IF aborted THEN Warned("cancelled") ELSE UNCHANGED warnings
        /\ stage' = "analyze"
        /\ pending' = InOrder(PathsOf(files))
        /\ UNCHANGED <<options, aborted, unread, tasks, scheduled, inspected, files, reserved,
                       analysis, touched>>
  /\ UNCHANGED <<user, saved, sessions, disturbed>>

-----------------------------------------------------------------------------
(* analyzeWorkspace goes through the files one by one.                     *)
EntryOf(p) == CHOOSE e \in files : e.path = p

(* Mutant: an analysis is reused for the path.                             *)
AnalysisReusableByPath(e) ==
  e.path \in DOMAIN saved.analysis /\ saved.analysis[e.path].reason = e.reason

(* canReuseAnalysis.                                                       *)
AnalysisReusable(e) ==
  /\ e.path \in DOMAIN saved.analysis
  /\ saved.analysis[e.path].hash = e.hash
  /\ saved.analysis[e.path].reason = e.reason

Analyzed(e, of) ==
  /\ analysis' = [p \in DOMAIN analysis \cup {e.path} |->
       IF p = e.path THEN [hash |-> e.hash, reason |-> e.reason, of |-> of] ELSE analysis[p]]
  /\ pending' = Tail(pending)
  /\ UNCHANGED <<user, saved, sessions, stage, options, aborted, discovery, touched>>

(* An ignored file is skipped.                                             *)
ReuseOrSkip ==
  LET e == EntryOf(Head(pending)) IN
  /\ stage = "analyze" /\ pending # <<>>
  /\ \/ AnalysisReusable(e) /\ Analyzed(e, saved.analysis[e.path].of)
     \/ ~AnalysisReusable(e) /\ e.reason # None /\ Analyzed(e, None)
  /\ UNCHANGED disturbed

(* analyzeFile reads the file once more.  If it cannot, the file counts as *)
(* skipped, and keeps its hash.                                            *)
AnalyzeFile ==
  LET e == EntryOf(Head(pending)) IN
  /\ stage = "analyze" /\ pending # <<>>
  /\ ~AnalysisReusable(e) /\ e.reason = None
  /\ \/ ContentOf(e.path) # None /\ Analyzed(e, ContentOf(e.path)) /\ UNCHANGED disturbed
     \/ Analyzed(e, None) /\ disturbed' = disturbed \cup {e.path}

(* Between the stages of the hook the signal counts, and not in the tools. *)
EndAnalysis ==
  /\ stage = "analyze" /\ pending = <<>>
  /\ \/ HookGivesUp
     \/ /\ ~(aborted /\ options.caller = "hook")
        /\ stage' = "save_index"
        /\ UNCHANGED <<options, aborted, discovery, analyzing, touched>>
  /\ UNCHANGED <<user, saved, sessions, disturbed>>

SaveIndex ==
  /\ stage = "save_index"
  /\ saved' = [saved EXCEPT !.index = files]
  /\ stage' = "save_analysis"
  /\ UNCHANGED <<user, sessions, options, aborted, discovery, analyzing, history>>

SaveAnalysis ==
  /\ stage = "save_analysis"
  /\ saved' = [saved EXCEPT !.analysis = analysis]
  /\ Leave
  /\ UNCHANGED <<user, sessions, disturbed>>

-----------------------------------------------------------------------------
(* The user writes or deletes a file.                                      *)
Edit(f) ==
  \E c \in (Contents \cup {None}) \ {content[f]} :
    LET edits == Max({mtime[g] : g \in Files})
        during == IF stage = "idle" THEN {} ELSE {f} IN
    /\ edits < MaxEdits
    /\ content' = [content EXCEPT ![f] = c]
    /\ mtime' = [mtime EXCEPT ![f] = edits + 1]
    /\ touched' = touched \cup during
    /\ disturbed' = disturbed \cup {p \in Paths : Referent(p) \in during}
    /\ UNCHANGED <<saved, sessions, stage, options, aborted, discovery, analyzing>>

(* The timer of the hook or of the tool.                                   *)
Abort ==
  /\ stage # "idle" /\ ~aborted
  /\ aborted' = TRUE
  /\ UNCHANGED <<user, saved, sessions, stage, options, discovery, analyzing, history>>

SessionStep ==
  \/ ReadDirectory \/ Inspect
  \/ TakeTask
  \/ \E i \in inspected : Resolve(i) \/ Stat(i) \/ Sample(i) \/ Read(i) \/ Missing(i)
  \/ EndDiscovery \/ ReuseOrSkip \/ AnalyzeFile \/ EndAnalysis \/ SaveIndex \/ SaveAnalysis

Next ==
  \/ Start \/ SessionStep \/ Fail \/ Abort
  \/ \E f \in Files : Edit(f)

(* A started session goes on; the user edits and comes back at will.       *)
Spec == Init /\ [][Next]_vars /\ WF_vars(SessionStep)

-----------------------------------------------------------------------------
(* Properties.                                                             *)

(* The workers share the limits: however their awaits interleave, no more  *)
(* than maxFiles files and maxTotalBytes bytes are in the index, and every *)
(* path is there once.                                                     *)
WithinLimits ==
  /\ Cardinality(files) <= options.maxFiles
  /\ Cardinality(PathsOf(files)) = Cardinality(files)
  /\ MapThenSumSet(LAMBDA e : e.size, {e \in files : e.reason = None})
       <= options.maxTotalBytes

(* What a discovery of the present contents by one worker, without a saved *)
(* index or limits, makes of a path.                                       *)
ColdEntry(p) ==
  IF Referent(p) = "outside" THEN {Entry(p, 0, 0, None, "outside_workspace")}
  ELSE IF Referent(p) = "directory" \/ ~Exists(p) THEN {}
  ELSE LET size == SizeOf[ContentOf(p)]
           reason == IF Ignored(p, size) # None THEN Ignored(p, size)
                     ELSE IF ContentOf(p) \in Binaries THEN "binary" ELSE None
       IN {Entry(p, size, mtime[Referent(p)],
                 IF reason = None THEN ContentOf(p) ELSE None, reason)}

(* An index without a warning of a limit or of the signal has, for every   *)
(* file that was left alone during the session, what a discovery from      *)
(* nothing finds: whatever was reused from earlier sessions, and whatever  *)
(* happened to the files and to the sessions meanwhile.                    *)
WarmIsCold ==
  (stage = "save_index" /\ warnings \cap {"file_limit", "byte_limit", "cancelled"} = {})
    => \A p \in Paths : Referent(p) \notin touched =>
         {e \in files : e.path = p} = ColdEntry(p)

(* An analysis that a session saves is that of the content which its hash  *)
(* names, unless the file was edited during a session, or unreadable.      *)
AnalysisOfHash ==
  stage = "save_index" =>
    \A p \in DOMAIN analysis :
      (p \notin disturbed /\ analysis[p].reason = None) =>
        analysis[p].of = analysis[p].hash

(* What is reused is the analysis of an unchanged file, or of one that     *)
(* could not be read, never that of another content: index.test.ts:70      *)
(* "reuses unchanged analyses and records changed and deleted files".      *)
ReusesUnchanged ==
  [][(ReuseOrSkip /\ EntryOf(Head(pending)).reason = None)
       => analysis'[Head(pending)].of \in {EntryOf(Head(pending)).hash, None}]_vars

(* Every session ends.                                                     *)
SessionsEnd == (stage # "idle") ~> (stage = "idle")
=============================================================================
