----------------------------- MODULE HostConfig -----------------------------
(***************************************************************************)
(* Installing the hook into the configuration files of the hosts, and      *)
(* uninstalling it: packages/host-adapters/src/file-ops.ts, with the plans *)
(* of detect.ts and the two adapters.                                      *)
(*                                                                         *)
(* A command reads the file of every host and plans its new content, then  *)
(* goes through the plan: back the file up, write the new content next to  *)
(* it, rename, chmod.  When an operation fails, the changes already        *)
(* applied are rolled back, newest first.  The files belong to the user    *)
(* and to the hosts, which edit them as they like; nothing is locked.      *)
(*                                                                         *)
(* The temporary and the backup files have fresh names (both are created   *)
(* with "wx", so a clash is one of the failures), and a rename is atomic:  *)
(* a replacement is one step here, that may fail before or after it.       *)
(***************************************************************************)
EXTENDS Naturals, FiniteSets

CONSTANTS
  Commands,      \* install and uninstall commands
  Kind,          \* which of the two each of them is
  HookOf,        \* the hook command line each would install
  HostCount,     \* the hosts are 1 .. HostCount, in the order of a plan
  UserHooks,     \* hooks of the user's own
  UserTexts,     \* contents that the user, or the host, gives a file
  Failures,      \* the kinds of operations that may fail
  None,          \* no managed hook
  Absent,        \* there is no file
  Blank,         \* a file of white space only
  Invalid,       \* not a JSON object, or its hooks are not a list
  Nothing        \* no backup was made

(* A well-formed file: the managed hook, the user's hooks in groups of     *)
(* their own and in the group of the managed hook, and whose layout it is  *)
(* in (an unchanged object written in another layout is another text).     *)
Hooks == {HookOf[c] : c \in Commands}
Configs == [managed: Hooks \cup {None}, own: SUBSET UserHooks,
            shared: SUBSET UserHooks, layout: {"user", "program"}]
Texts == Configs \cup {Blank, Invalid}
Contents == Texts \cup {Absent}
Hosts == 1 .. HostCount

ASSUME HostAssumption ==
  /\ HostCount \in Nat \ {0}
  /\ Kind \in [Commands -> {"install", "uninstall"}]
  /\ DOMAIN HookOf = Commands
  /\ UserTexts \subseteq Contents
  /\ Failures \subseteq {"backup", "write", "chmod", "restore"}
  /\ None \notin Hooks
  /\ {Absent, Blank, Invalid} \cap Configs = {}
  /\ Absent # Blank /\ Absent # Invalid /\ Blank # Invalid
  /\ Nothing \notin Contents

VARIABLES
  file,       \* the content of each host's configuration file
  backups,    \* the contents each host's backup files hold
  written,    \* what the user has last made of each file (history)
  stage,      \* what each command does next
  at,         \* the host it does it for
  read,       \* what it has read when it planned
  kept,       \* what it has backed up
  applied     \* the changes it has applied

vars == <<file, backups, written, stage, at, read, kept, applied>>
plan == <<read, kept, applied>>

Running(c) == stage[c] \in {"plan", "apply", "replace", "rollback"}

TypeOK ==
  /\ file \in [Hosts -> Contents]
  /\ backups \in [Hosts -> SUBSET Texts]
  /\ written \in [Hosts -> Contents]
  /\ stage \in [Commands -> {"idle", "plan", "apply", "replace", "rollback",
                             "done", "failed", "killed"}]
  /\ at \in [Commands -> Hosts]
  /\ read \in [Commands -> [Hosts -> Contents]]
  /\ kept \in [Commands -> [Hosts -> Texts \cup {Nothing}]]
  /\ applied \in [Commands -> SUBSET Hosts]

Init ==
  /\ file \in [Hosts -> UserTexts]
  /\ backups = [h \in Hosts |-> {}]
  /\ written = file
  /\ stage = [c \in Commands |-> "idle"]
  /\ at = [c \in Commands |-> 1]
  /\ read = [c \in Commands |-> [h \in Hosts |-> Absent]]
  /\ kept = [c \in Commands |-> [h \in Hosts |-> Nothing]]
  /\ applied = [c \in Commands |-> {}]

-----------------------------------------------------------------------------
(* The new content, given the old one.                                     *)

Own(text) == IF text \in Configs THEN text.own ELSE {}
Shared(text) == IF text \in Configs THEN text.shared ELSE {}
Managed(text) == IF text \in Configs THEN text.managed ELSE None

(* Mutant: the groups of the user are replaced, too.                       *)
AddManagedOnly(hook, text) ==
  [managed |-> hook, own |-> {}, shared |-> {}, layout |-> "program"]

(* createManagedHookJsonConfig puts a new managed group after the groups   *)
(* without the managed hook, and drops every group that has it.            *)
AddManaged(hook, text) ==
  [managed |-> hook, own |-> Own(text), shared |-> {}, layout |-> "program"]

(* removeManagedHookJsonConfig hands back a text without a managed hook,   *)
(* one of white space only, too.  It is not asked about a missing file.    *)
RemoveManaged(text) ==
  IF text = Blank \/ (text \in Configs /\ Managed(text) = None) THEN text
  ELSE [managed |-> None, own |-> Own(text), shared |-> {}, layout |-> "program"]

NewContent(c, h) ==
  IF Kind[c] = "install" THEN AddManaged(HookOf[c], read[c][h])
  ELSE RemoveManaged(read[c][h])

(* Mutant: a managed hook counts as up to date whatever it runs.           *)
UnchangedIfManaged(c, h) ==
  \/ Kind[c] = "uninstall" /\ read[c][h] = Absent
  \/ Kind[c] = "install" /\ Managed(read[c][h]) # None
  \/ NewContent(c, h) = read[c][h]

Unchanged(c, h) ==
  \/ Kind[c] = "uninstall" /\ read[c][h] = Absent
  \/ NewContent(c, h) = read[c][h]

-----------------------------------------------------------------------------
Goto(c, next) == stage' = [stage EXCEPT ![c] = next]

Start(c) ==
  /\ stage[c] = "idle"
  /\ Goto(c, "plan")
  /\ UNCHANGED <<file, backups, written, at, plan>>

(* planInstall or planUninstall of one adapter: a file that cannot be      *)
(* parsed ends the command.                                                *)
Plan(c) ==
  LET h == at[c] IN
  /\ stage[c] = "plan"
  /\ \/ /\ file[h] = Invalid
        /\ Goto(c, "failed")
        /\ UNCHANGED <<at, read>>
     \/ /\ file[h] # Invalid
        /\ read' = [read EXCEPT ![c][h] = file[h]]
        /\ IF h = HostCount
           THEN Goto(c, "apply") /\ at' = [at EXCEPT ![c] = 1]
           ELSE at' = [at EXCEPT ![c] = h + 1] /\ UNCHANGED stage
  /\ UNCHANGED <<file, backups, written, kept, applied>>

(* Mutant: one change too many.                                            *)
AdvanceTooFar(c) ==
  IF at[c] > HostCount
  THEN Goto(c, "done") /\ UNCHANGED at
  ELSE Goto(c, "apply") /\ at' = [at EXCEPT ![c] = at[c] + 1]

(* On to the next change of the plan.                                      *)
Advance(c) ==
  IF at[c] = HostCount
  THEN Goto(c, "done") /\ UNCHANGED at
  ELSE Goto(c, "apply") /\ at' = [at EXCEPT ![c] = at[c] + 1]

Skip(c) ==
  /\ stage[c] = "apply"
  /\ Unchanged(c, at[c])
  /\ Advance(c)
  /\ UNCHANGED <<file, backups, written, plan>>

(* Mutant: only the first change of a plan is backed up.                   *)
BackupFirst(c) ==
  LET h == at[c] IN
  /\ stage[c] = "apply"
  /\ ~Unchanged(c, h)
  /\ IF read[c][h] = Absent \/ file[h] = Absent \/ applied[c] # {}
     THEN Goto(c, "replace") /\ UNCHANGED <<backups, kept>>
     ELSE /\ backups' = [backups EXCEPT ![h] = @ \cup {file[h]}]
          /\ kept' = [kept EXCEPT ![c][h] = file[h]]
          /\ Goto(c, "replace")
  /\ UNCHANGED <<file, written, at, read, applied>>

(* backupExistingFile: only when the plan saw a file, and it is there.     *)
Backup(c) ==
  LET h == at[c] IN
  /\ stage[c] = "apply"
  /\ ~Unchanged(c, h)
  /\ IF read[c][h] = Absent \/ file[h] = Absent
     THEN Goto(c, "replace") /\ UNCHANGED <<backups, kept>>
     ELSE \/ /\ backups' = [backups EXCEPT ![h] = @ \cup {file[h]}]
             /\ kept' = [kept EXCEPT ![c][h] = file[h]]
             /\ Goto(c, "replace")
          \/ /\ "backup" \in Failures
             /\ Goto(c, "rollback")
             /\ UNCHANGED <<backups, kept>>
  /\ UNCHANGED <<file, written, at, read, applied>>

(* atomicWriteFile: a failed chmod finds the file replaced already, and    *)
(* the change not yet among those applied.                                 *)
Replace(c) ==
  LET h == at[c] IN
  /\ stage[c] = "replace"
  /\ \/ /\ file' = [file EXCEPT ![h] = NewContent(c, h)]
        /\ applied' = [applied EXCEPT ![c] = @ \cup {h}]
        /\ Advance(c)
     \/ /\ "write" \in Failures
        /\ Goto(c, "rollback")
        /\ UNCHANGED <<file, at, applied>>
     \/ /\ "chmod" \in Failures
        /\ file' = [file EXCEPT ![h] = NewContent(c, h)]
        /\ Goto(c, "rollback")
        /\ UNCHANGED <<at, applied>>
  /\ UNCHANGED <<backups, written, read, kept>>

(* Mutant: a file that was created is not removed.                         *)
RestoredFromBackup(c, h) == IF kept[c][h] # Nothing THEN kept[c][h] ELSE file[h]

(* What the rollback of a change leaves in the file.                       *)
Restored(c, h) ==
  IF kept[c][h] # Nothing THEN kept[c][h]
  ELSE IF read[c][h] = Absent THEN Absent
  ELSE file[h]

(* rollbackHostConfigChanges, newest change first; a change that cannot be *)
(* undone ends it.                                                         *)
Rollback(c) ==
  /\ stage[c] = "rollback"
  /\ \/ /\ applied[c] = {}
        /\ Goto(c, "failed")
        /\ UNCHANGED <<file, applied>>
     \/ \E h \in applied[c] :
          /\ \A g \in applied[c] : g <= h
          /\ \/ /\ file' = [file EXCEPT ![h] = Restored(c, h)]
                /\ applied' = [applied EXCEPT ![c] = @ \ {h}]
                /\ UNCHANGED stage
             \/ /\ "restore" \in Failures
                /\ file' \in {file, [file EXCEPT ![h] = Restored(c, h)]}
                /\ Goto(c, "failed")
                /\ UNCHANGED applied
  /\ UNCHANGED <<backups, written, at, read, kept>>

(* The process is killed.                                                  *)
Kill(c) ==
  /\ Running(c)
  /\ Goto(c, "killed")
  /\ UNCHANGED <<file, backups, written, at, plan>>

(* The user or the host edits a file.                                      *)
UserWrites(h, text) ==
  /\ file' = [file EXCEPT ![h] = text]
  /\ written' = [written EXCEPT ![h] = text]
  /\ UNCHANGED <<backups, stage, at, plan>>

Step(c) ==
  \/ Start(c) \/ Plan(c) \/ Skip(c) \/ Backup(c)
  \/ Replace(c) \/ Rollback(c) \/ Kill(c)

CommandStep == \E c \in Commands : Step(c)
UserStep == \E h \in Hosts, text \in UserTexts : UserWrites(h, text)

Next == CommandStep \/ UserStep

Spec == Init /\ [][Next]_vars

-----------------------------------------------------------------------------
(* Nobody edits the files while a command runs; commands may overlap.      *)
Quiet == \A c \in Commands : ~Running(c)
QuietNext == CommandStep \/ (Quiet /\ UserStep)
QuietSpec == Init /\ [][QuietNext]_vars

(* And there is one command at a time.                                     *)
OneRunning == \A b, c \in Commands : Running(b) /\ Running(c) => b = c
SerialSpec == Init /\ [][QuietNext /\ OneRunning']_vars

-----------------------------------------------------------------------------
(* What the user has last made of a file is in the file, or in one of its  *)
(* backups: whatever fails, whoever is killed, however often hooks are     *)
(* installed, uninstalled and rolled back by commands that overlap.        *)
Recoverable ==
  \A h \in Hosts : written[h] \in {Absent, file[h]} \cup backups[h]

(* No step of a command changes the hooks the user has of his own.         *)
KeepsOwnHooks == [][CommandStep => \A h \in Hosts : Own(file'[h]) = Own(file[h])]_vars

(* The inductive strengthening of the two.  A command that has planned a   *)
(* change knows the user's own hooks, and its backups have them, too ...   *)
Planned(c, h) ==
  stage[c] \in {"apply", "replace", "rollback"} \/ (stage[c] = "plan" /\ h < at[c])
KnowsOwnHooks(c) ==
  \A h \in Hosts :
    /\ Planned(c, h) => Own(read[c][h]) = Own(file[h])
    /\ kept[c][h] # Nothing => Own(kept[c][h]) = Own(file[h])

(* ... and a file that it is about to create or replace, or has replaced,  *)
(* can be lost.                                                            *)
Expendable(h) == written[h] \in {Absent} \cup backups[h]
OnlyExpendable(c) ==
  \A h \in Hosts :
    \/ Planned(c, h) /\ read[c][h] = Absent
    \/ stage[c] = "replace" /\ h = at[c]
    \/ h \in applied[c]
    => Expendable(h)

HostInv ==
  /\ Recoverable
  /\ \A c \in Commands : Running(c) => KnowsOwnHooks(c) /\ OnlyExpendable(c)
  /\ \A c \in Commands : stage[c] \in {"idle", "plan"} =>
       applied[c] = {} /\ \A h \in Hosts : kept[c][h] = Nothing
  /\ \A c \in Commands : stage[c] = "idle" => at[c] = 1

(* A command that succeeds has put its own hook, or none, in every file:   *)
(* an older one, or one for another checkout, has been replaced.           *)
DoneAsAsked ==
  [][\A c \in Commands : stage[c] # "done" /\ stage'[c] = "done" =>
       \A h \in Hosts :
         Managed(file'[h]) = IF Kind[c] = "install" THEN HookOf[c] ELSE None]_vars

(* A command that fails leaves every file as it has found it.              *)
FailureRestores ==
  [][\A c \in Commands : stage[c] = "rollback" /\ stage'[c] = "failed" =>
       \A h \in Hosts : file'[h] = read[c][h]]_vars

(* "Uninstall preserves hooks not managed by this project."                *)
KeepsEveryHook ==
  [][\A c \in Commands, h \in Hosts : Replace(c) /\ Kind[c] = "uninstall" =>
       Own(file[h]) \cup Shared(file[h]) \subseteq Own(file'[h]) \cup Shared(file'[h])]_vars
=============================================================================
