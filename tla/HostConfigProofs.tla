-------------------------- MODULE HostConfigProofs --------------------------
(***************************************************************************)
(* The theorems about installing and uninstalling hooks, for any number of *)
(* commands that overlap, of hosts and of hooks.  The argument: a step of  *)
(* a command never changes the user's own hooks in a file, so whatever a   *)
(* command has read or backed up still has them; and it replaces a file    *)
(* only after the content the user gave it went into a backup.             *)
(***************************************************************************)
EXTENDS HostConfig, TLAPS

LEMMA HostsNat == Hosts \subseteq Nat /\ 1 \in Hosts /\ HostCount \in Hosts
  BY HostAssumption DEF Hosts

(* The two ways of computing a new content give a well-formed file with    *)
(* the same hooks of the user's own.                                       *)
LEMMA OwnType ==
  ASSUME NEW text \in Contents
  PROVE  Own(text) \in SUBSET UserHooks
  BY DEF Own, Configs

LEMMA AddManagedKeeps ==
  ASSUME NEW text \in Contents, NEW hook \in Hooks
  PROVE  AddManaged(hook, text) \in Configs /\ Own(AddManaged(hook, text)) = Own(text)
  <1>1. AddManaged(hook, text) \in Configs
    BY OwnType DEF AddManaged, Configs
  <1>2. QED
    BY <1>1 DEF AddManaged, Own

LEMMA RemoveManagedKeeps ==
  ASSUME NEW text \in Contents
  PROVE  RemoveManaged(text) \in Configs \cup {Blank} /\ Own(RemoveManaged(text)) = Own(text)
  <1>1. CASE text = Blank \/ (text \in Configs /\ Managed(text) = None)
    BY <1>1 DEF RemoveManaged
  <1>2. CASE ~(text = Blank \/ (text \in Configs /\ Managed(text) = None))
    <2>1. RemoveManaged(text) =
            [managed |-> None, own |-> Own(text), shared |-> {}, layout |-> "program"]
      BY <1>2 DEF RemoveManaged
    <2>2. RemoveManaged(text) \in Configs
      BY <2>1, OwnType DEF Configs
    <2>3. QED
      BY <2>1, <2>2 DEF Own
  <1>3. QED
    BY <1>1, <1>2

LEMMA NewContentKeeps ==
  ASSUME TypeOK, NEW c \in Commands, NEW h \in Hosts
  PROVE  /\ NewContent(c, h) \in Configs \cup {Blank}
         /\ Kind[c] = "install" => NewContent(c, h) \in Configs
         /\ Own(NewContent(c, h)) = Own(read[c][h])
  <1>1. read[c][h] \in Contents /\ HookOf[c] \in Hooks
    BY DEF TypeOK, Hooks
  <1>2. QED
    BY <1>1, AddManagedKeeps, RemoveManagedKeeps DEF NewContent

LEMMA RestoredType ==
  ASSUME TypeOK, NEW c \in Commands, NEW h \in Hosts
  PROVE  Restored(c, h) \in Contents
  BY DEF TypeOK, Restored, Contents

-----------------------------------------------------------------------------
LEMMA TypeInit == Init => TypeOK
  BY HostAssumption, HostsNat DEF Init, TypeOK, Contents

LEMMA AdvanceType ==
  ASSUME TypeOK, NEW c \in Commands, Advance(c)
  PROVE  /\ at' \in [Commands -> Hosts]
         /\ stage' = [stage EXCEPT ![c] = "done"]
              \/ stage' = [stage EXCEPT ![c] = "apply"]
  BY HostAssumption DEF TypeOK, Advance, Goto, Hosts

LEMMA TypeStep == TypeOK /\ [Next]_vars => TypeOK'
  <1> SUFFICES ASSUME TypeOK, [Next]_vars
               PROVE  TypeOK'
    OBVIOUS
  <1>1. ASSUME NEW c \in Commands, Start(c) \/ Kill(c)
        PROVE  TypeOK'
    BY <1>1 DEF Start, Kill, Goto, plan, TypeOK
  <1>2. ASSUME NEW c \in Commands, Plan(c)
        PROVE  TypeOK'
    <2>1. read' \in [Commands -> [Hosts -> Contents]]
      <3>1. at[c] \in Hosts /\ file[at[c]] \in Contents
        BY DEF TypeOK
      <3>2. read' = read \/ read' = [read EXCEPT ![c][at[c]] = file[at[c]]]
        BY <1>2 DEF Plan
      <3>3. [read[c] EXCEPT ![at[c]] = file[at[c]]] \in [Hosts -> Contents]
        BY <3>1 DEF TypeOK
      <3>4. [read EXCEPT ![c][at[c]] = file[at[c]]]
              = [read EXCEPT ![c] = [read[c] EXCEPT ![at[c]] = file[at[c]]]]
        OBVIOUS
      <3>5. QED
        BY <3>2, <3>3, <3>4 DEF TypeOK
    <2>2. at' \in [Commands -> Hosts]
      <3>1. at[c] \in Hosts /\ (at[c] # HostCount => at[c] + 1 \in Hosts)
        BY HostAssumption DEF TypeOK, Hosts
      <3>2. \/ UNCHANGED at
            \/ at' = [at EXCEPT ![c] = 1]
            \/ at[c] # HostCount /\ at' = [at EXCEPT ![c] = at[c] + 1]
        BY <1>2 DEF Plan
      <3>3. QED
        BY <3>1, <3>2, HostsNat DEF TypeOK
    <2>3. stage' \in [Commands -> {"idle", "plan", "apply", "replace", "rollback",
                                   "done", "failed", "killed"}]
      BY <1>2 DEF Plan, TypeOK, Goto
    <2>4. QED
      BY <1>2, <2>1, <2>2, <2>3 DEF Plan, TypeOK
  <1>3. ASSUME NEW c \in Commands, Skip(c)
        PROVE  TypeOK'
    BY <1>3, AdvanceType DEF Skip, plan, TypeOK
  <1>4. ASSUME NEW c \in Commands, Backup(c)
        PROVE  TypeOK'
    <2>1. CASE UNCHANGED <<backups, kept>>
      BY <1>4, <2>1 DEF Backup, Goto, TypeOK
    <2>2. CASE /\ file[at[c]] # Absent
               /\ backups' = [backups EXCEPT ![at[c]] = @ \cup {file[at[c]]}]
               /\ kept' = [kept EXCEPT ![c][at[c]] = file[at[c]]]
      <3>1. at[c] \in Hosts /\ file[at[c]] \in Texts
        BY <2>2 DEF TypeOK, Contents
      <3>2. backups' \in [Hosts -> SUBSET Texts]
        BY <2>2, <3>1 DEF TypeOK
      <3>3. kept' \in [Commands -> [Hosts -> Texts \cup {Nothing}]]
        BY <2>2, <3>1 DEF TypeOK
      <3>4. QED
        BY <1>4, <3>2, <3>3 DEF Backup, Goto, TypeOK
    <2>3. QED
      BY <1>4, <2>1, <2>2 DEF Backup
  <1>5. ASSUME NEW c \in Commands, Replace(c)
        PROVE  TypeOK'
    <2>0. at[c] \in Hosts
      BY DEF TypeOK
    <2>1. NewContent(c, at[c]) \in Contents
      BY <2>0, NewContentKeeps DEF Contents, Texts
    <2>2. file' \in [Hosts -> Contents] /\ applied' \in [Commands -> SUBSET Hosts]
      <3>1. \/ file' = file
            \/ file' = [file EXCEPT ![at[c]] = NewContent(c, at[c])]
        BY <1>5 DEF Replace
      <3>2. \/ applied' = applied
            \/ applied' = [applied EXCEPT ![c] = @ \cup {at[c]}]
        BY <1>5 DEF Replace
      <3>3. file' \in [Hosts -> Contents]
        BY <2>1, <3>1 DEF TypeOK
      <3>4. QED
        BY <2>0, <3>2, <3>3 DEF TypeOK
    <2>3. at' \in [Commands -> Hosts]
          /\ stage' \in [Commands -> {"idle", "plan", "apply", "replace",
                                      "rollback", "done", "failed", "killed"}]
      <3>1. CASE Advance(c)
        BY <3>1, AdvanceType DEF TypeOK
      <3>2. CASE Goto(c, "rollback") /\ UNCHANGED at
        BY <3>2 DEF Goto, TypeOK
      <3>3. QED
        BY <1>5, <3>1, <3>2 DEF Replace
    <2>4. QED
      BY <1>5, <2>2, <2>3 DEF Replace, TypeOK
  <1>6. ASSUME NEW c \in Commands, Rollback(c)
        PROVE  TypeOK'
    <2>1. ASSUME NEW h \in Hosts
          PROVE  [file EXCEPT ![h] = Restored(c, h)] \in [Hosts -> Contents]
      BY RestoredType DEF TypeOK
    <2>2. applied[c] \subseteq Hosts
      BY DEF TypeOK
    <2>3. file' \in [Hosts -> Contents]
      BY <1>6, <2>1, <2>2 DEF Rollback, TypeOK
    <2>4. applied' \in [Commands -> SUBSET Hosts]
      <3>1. \/ applied' = applied
            \/ \E h \in applied[c] : applied' = [applied EXCEPT ![c] = @ \ {h}]
        BY <1>6 DEF Rollback
      <3>2. QED
        BY <2>2, <3>1 DEF TypeOK
    <2>5. stage' = stage \/ stage' = [stage EXCEPT ![c] = "failed"]
      BY <1>6 DEF Rollback, Goto
    <2>6. QED
      BY <1>6, <2>3, <2>4, <2>5 DEF Rollback, TypeOK
  <1>7. CASE UserStep
    BY <1>7, HostAssumption DEF UserStep, UserWrites, plan, TypeOK
  <1>8. CASE UNCHANGED vars
    BY <1>8 DEF vars, TypeOK
  <1>9. QED
    BY <1>1, <1>2, <1>3, <1>4, <1>5, <1>6, <1>7, <1>8 DEF Next, CommandStep, Step

(* Every reachable state is well typed, with edits at any time and with    *)
(* every kind of failure.                                                  *)
THEOREM HostTypeCorrect == Spec => []TypeOK
  BY TypeInit, TypeStep, PTL DEF Spec

-----------------------------------------------------------------------------
(* A step of a command leaves the other commands' variables alone ...      *)
LEMMA OthersUnchanged ==
  ASSUME TypeOK, NEW c \in Commands, NEW d \in Commands \ {c}, Step(c)
  PROVE  /\ stage'[d] = stage[d] /\ at'[d] = at[d]
         /\ read'[d] = read[d] /\ kept'[d] = kept[d] /\ applied'[d] = applied[d]
  <1>1. CASE Start(c) \/ Kill(c)
    BY <1>1 DEF Start, Kill, Goto, plan, TypeOK
  <1>2. CASE Plan(c)
    BY <1>2 DEF Plan, Goto, TypeOK
  <1>3. CASE Skip(c)
    BY <1>3 DEF Skip, Advance, Goto, plan, TypeOK
  <1>4. CASE Backup(c)
    BY <1>4 DEF Backup, Goto, TypeOK
  <1>5. CASE Replace(c)
    <2>1. stage'[d] = stage[d] /\ at'[d] = at[d]
      BY <1>5 DEF Replace, Advance, Goto, TypeOK
    <2>2. QED
      BY <1>5, <2>1 DEF Replace, TypeOK
  <1>6. CASE Rollback(c)
    BY <1>6 DEF Rollback, Goto, TypeOK
  <1>7. QED
    BY <1>1, <1>2, <1>3, <1>4, <1>5, <1>6 DEF Step

(* ... keeps every backup and the user's own hooks, and takes away only    *)
(* contents that are backed up.                                            *)
LEMMA CommandEffect ==
  ASSUME TypeOK, HostInv, NEW c \in Commands, Step(c), NEW h \in Hosts
  PROVE  /\ written' = written
         /\ backups[h] \subseteq backups'[h]
         /\ Own(file'[h]) = Own(file[h])
         /\ file'[h] # file[h] => Expendable(h)
  <1>1. CASE Start(c) \/ Kill(c) \/ Plan(c) \/ Skip(c)
    BY <1>1 DEF Start, Kill, Plan, Skip
  <1>2. CASE Backup(c)
    <2>1. file' = file /\ written' = written
      BY <1>2 DEF Backup
    <2>2. \/ backups' = backups
          \/ backups' = [backups EXCEPT ![at[c]] = @ \cup {file[at[c]]}]
      BY <1>2 DEF Backup
    <2>3. backups[h] \subseteq backups'[h]
      BY <2>2 DEF TypeOK
    <2>4. QED
      BY <2>1, <2>3
  <1>3. CASE Replace(c)
    <2>1. at[c] \in Hosts /\ backups' = backups /\ written' = written
      BY <1>3 DEF Replace, TypeOK
    <2>2. file' = file \/ file' = [file EXCEPT ![at[c]] = NewContent(c, at[c])]
      BY <1>3 DEF Replace
    <2>3. Running(c) /\ Planned(c, at[c]) /\ stage[c] = "replace"
      BY <1>3 DEF Replace, Running, Planned
    <2>4. Expendable(at[c]) /\ Own(read[c][at[c]]) = Own(file[at[c]])
      BY <2>1, <2>3 DEF HostInv, KnowsOwnHooks, OnlyExpendable
    <2>5. Own(NewContent(c, at[c])) = Own(file[at[c]])
      BY <2>1, <2>4, NewContentKeeps
    <2>6. CASE h = at[c]
      BY <2>1, <2>2, <2>4, <2>5, <2>6 DEF TypeOK
    <2>7. CASE h # at[c]
      BY <2>1, <2>2, <2>7 DEF TypeOK
    <2>8. QED
      BY <2>6, <2>7
  <1>4. CASE Rollback(c)
    <2>1. backups' = backups /\ written' = written
          /\ Running(c) /\ Planned(c, h) /\ applied[c] \subseteq Hosts
      BY <1>4 DEF Rollback, Running, Planned, TypeOK
    <2>2. \/ file' = file
          \/ \E g \in applied[c] : file' = [file EXCEPT ![g] = Restored(c, g)]
      BY <1>4 DEF Rollback
    <2>3. CASE file'[h] = file[h]
      BY <2>1, <2>3
    <2>4. CASE file'[h] # file[h]
      <3>1. h \in applied[c] /\ file'[h] = Restored(c, h)
        BY <2>1, <2>2, <2>4 DEF TypeOK
      <3>2. Expendable(h)
        BY <2>1, <3>1 DEF HostInv, OnlyExpendable
      <3>3. /\ Own(read[c][h]) = Own(file[h])
            /\ kept[c][h] # Nothing => Own(kept[c][h]) = Own(file[h])
        BY <2>1 DEF HostInv, KnowsOwnHooks
      <3>4. Own(Restored(c, h)) = Own(file[h])
        BY <3>3 DEF Restored
      <3>5. QED
        BY <2>1, <3>1, <3>2, <3>4
    <2>5. QED
      BY <2>3, <2>4
  <1>5. QED
    BY <1>1, <1>2, <1>3, <1>4 DEF Step

-----------------------------------------------------------------------------
(* The parts of the invariant that concern one command.                    *)
CommandInv(c) ==
  /\ Running(c) => KnowsOwnHooks(c) /\ OnlyExpendable(c)
  /\ stage[c] \in {"idle", "plan"} =>
       applied[c] = {} /\ \A h \in Hosts : kept[c][h] = Nothing
  /\ stage[c] = "idle" => at[c] = 1

LEMMA OtherCommand ==
  ASSUME TypeOK, HostInv, NEW c \in Commands, NEW d \in Commands \ {c}, Step(c)
  PROVE  CommandInv(d)'
  <1>1. CommandInv(d)
    BY DEF HostInv, CommandInv
  <1>2. /\ stage'[d] = stage[d] /\ at'[d] = at[d]
        /\ read'[d] = read[d] /\ kept'[d] = kept[d] /\ applied'[d] = applied[d]
    BY OthersUnchanged
  <1>3. /\ Running(d)' = Running(d)
        /\ \A h \in Hosts : Planned(d, h)' = Planned(d, h)
    BY <1>2 DEF Running, Planned
  <1>4. ASSUME NEW h \in Hosts
        PROVE  Own(file'[h]) = Own(file[h]) /\ (Expendable(h) => Expendable(h)')
    BY CommandEffect DEF Expendable
  <1>5. KnowsOwnHooks(d) => KnowsOwnHooks(d)'
    BY <1>2, <1>3, <1>4 DEF KnowsOwnHooks
  <1>6. OnlyExpendable(d) => OnlyExpendable(d)'
    BY <1>2, <1>3, <1>4 DEF OnlyExpendable
  <1>7. QED
    BY <1>1, <1>2, <1>3, <1>5, <1>6 DEF CommandInv

LEMMA OwnCommand ==
  ASSUME TypeOK, HostInv, NEW c \in Commands, Step(c)
  PROVE  CommandInv(c)'
  <1>1. CommandInv(c)
    BY DEF HostInv, CommandInv
  <1>2. ASSUME NEW h \in Hosts
        PROVE  Own(file'[h]) = Own(file[h]) /\ (Expendable(h) => Expendable(h)')
    BY CommandEffect DEF Expendable
  <1>3. CASE Start(c)
    <2>1. stage'[c] = "plan" /\ UNCHANGED <<at, plan>> /\ stage[c] = "idle"
      BY <1>3 DEF Start, Goto, TypeOK
    <2>2. applied'[c] = {} /\ \A h \in Hosts : kept'[c][h] = Nothing
      BY <1>1, <2>1 DEF CommandInv, plan
    <2>3. \A h \in Hosts : ~Planned(c, h)'
      BY <1>1, <2>1 DEF CommandInv, Planned, Hosts
    <2>4. QED
      BY <2>1, <2>2, <2>3 DEF CommandInv, KnowsOwnHooks, OnlyExpendable
  <1>4. CASE Kill(c)
    <2>1. stage'[c] = "killed"
      BY <1>4 DEF Kill, Goto, TypeOK
    <2>2. QED
      BY <2>1 DEF CommandInv, Running
  <1>5. CASE Plan(c)
    <2>1. CASE Goto(c, "failed")
      BY <2>1 DEF CommandInv, Running, Goto, TypeOK
    <2>2. CASE ~Goto(c, "failed")
      <3>1. /\ stage[c] = "plan" /\ file' = file /\ kept' = kept /\ applied' = applied
            /\ backups' = backups /\ written' = written
            /\ read' = [read EXCEPT ![c][at[c]] = file[at[c]]]
        BY <1>5, <2>2 DEF Plan
      <3>2. \/ at[c] = HostCount /\ stage'[c] = "apply"
            \/ at'[c] = at[c] + 1 /\ stage'[c] = "plan"
        BY <1>5, <2>2 DEF Plan, Goto, TypeOK
      <3>3. applied[c] = {} /\ \A h \in Hosts : kept[c][h] = Nothing
        BY <1>1, <3>1 DEF CommandInv
      <3>4. ASSUME NEW h \in Hosts, Planned(c, h)'
            PROVE  \/ h = at[c] /\ read'[c][h] = file[h]
                   \/ Planned(c, h) /\ read'[c][h] = read[c][h]
        <4>1. at[c] \in Hosts
          BY DEF TypeOK
        <4>2. h = at[c] \/ h < at[c]
          BY <3>2, <3>4, <4>1 DEF Planned, Hosts
        <4>3. read'[c][h] = IF h = at[c] THEN file[h] ELSE read[c][h]
          BY <3>1, <4>1 DEF TypeOK
        <4>4. QED
          BY <3>1, <4>2, <4>3 DEF Planned
      <3>5. Running(c) /\ KnowsOwnHooks(c) /\ OnlyExpendable(c)
        BY <1>1, <3>1 DEF CommandInv, Running
      <3>6. KnowsOwnHooks(c)'
        BY <3>1, <3>3, <3>4, <3>5 DEF KnowsOwnHooks
      <3>7. ASSUME NEW h \in Hosts, Planned(c, h)', read'[c][h] = Absent
            PROVE  Expendable(h)
        <4>1. CASE h = at[c] /\ file[h] = Absent
          BY <4>1 DEF HostInv, Recoverable, Expendable
        <4>2. CASE Planned(c, h) /\ read[c][h] = Absent
          BY <4>2, <3>5 DEF OnlyExpendable
        <4>3. QED
          BY <3>4, <3>7, <4>1, <4>2
      <3>8. OnlyExpendable(c)'
        BY <1>2, <3>1, <3>2, <3>3, <3>7 DEF OnlyExpendable
      <3>9. QED
        BY <3>1, <3>2, <3>3, <3>6, <3>8 DEF CommandInv
    <2>3. QED
      BY <2>1, <2>2
  <1>6. CASE Skip(c)
    <2>1. /\ stage[c] = "apply" /\ stage'[c] \in {"apply", "done"}
          /\ UNCHANGED <<file, backups, written, plan>>
      BY <1>6 DEF Skip, Advance, Goto, TypeOK
    <2>2. Running(c) /\ \A h \in Hosts : Planned(c, h)
      BY <2>1 DEF Running, Planned
    <2>3. KnowsOwnHooks(c)' /\ OnlyExpendable(c)'
      BY <1>1, <1>2, <2>1, <2>2 DEF CommandInv, KnowsOwnHooks, OnlyExpendable, plan
    <2>4. QED
      BY <2>1, <2>3 DEF CommandInv
  <1>7. CASE Backup(c)
    <2>1. /\ stage[c] = "apply" /\ stage'[c] \in {"replace", "rollback"}
          /\ UNCHANGED <<file, written, at, read, applied>>
      BY <1>7 DEF Backup, Goto, TypeOK
    <2>2. Running(c) /\ at[c] \in Hosts /\ \A h \in Hosts : Planned(c, h)
      BY <2>1 DEF Running, Planned, TypeOK
    <2>3. KnowsOwnHooks(c) /\ OnlyExpendable(c)
      BY <1>1, <2>2 DEF CommandInv
    <2>4. \/ kept' = kept
          \/ kept' = [kept EXCEPT ![c][at[c]] = file[at[c]]]
      BY <1>7 DEF Backup
    <2>5. ASSUME NEW h \in Hosts
          PROVE  kept'[c][h] = kept[c][h] \/ kept'[c][h] = file[h]
      BY <2>2, <2>4 DEF TypeOK
    <2>6. KnowsOwnHooks(c)'
      BY <2>1, <2>2, <2>3, <2>5 DEF KnowsOwnHooks
    <2>7. stage'[c] = "replace" => Expendable(at[c])'
      <3>1. CASE read[c][at[c]] = Absent
        BY <1>2, <2>1, <2>2, <2>3, <3>1 DEF OnlyExpendable
      <3>2. CASE file[at[c]] = Absent
        <4>1. Expendable(at[c])
          BY <2>2, <3>2 DEF HostInv, Recoverable, Expendable
        <4>2. QED
          BY <1>2, <2>1, <2>2, <4>1
      <3>3. CASE backups' = [backups EXCEPT ![at[c]] = @ \cup {file[at[c]]}]
        <4>1. backups'[at[c]] = backups[at[c]] \cup {file[at[c]]}
          BY <2>2, <3>3 DEF TypeOK
        <4>2. written[at[c]] \in {Absent, file[at[c]]} \cup backups[at[c]]
          BY <2>2 DEF HostInv, Recoverable
        <4>3. QED
          BY <2>1, <4>1, <4>2 DEF Expendable
      <3>4. CASE Goto(c, "rollback")
        BY <3>4 DEF Goto, TypeOK
      <3>5. QED
        BY <1>7, <3>1, <3>2, <3>3, <3>4 DEF Backup
    <2>8. OnlyExpendable(c)'
      BY <1>2, <2>1, <2>2, <2>3, <2>7 DEF OnlyExpendable
    <2>9. QED
      BY <2>1, <2>6, <2>8 DEF CommandInv
  <1>8. CASE Replace(c)
    <2>1. /\ stage[c] = "replace" /\ stage'[c] \in {"apply", "done", "rollback"}
          /\ UNCHANGED <<backups, written, read, kept>>
      BY <1>8 DEF Replace, Advance, Goto, TypeOK
    <2>2. Running(c) /\ at[c] \in Hosts /\ \A h \in Hosts : Planned(c, h)
      BY <2>1 DEF Running, Planned, TypeOK
    <2>3. KnowsOwnHooks(c) /\ OnlyExpendable(c)
      BY <1>1, <2>2 DEF CommandInv
    <2>4. KnowsOwnHooks(c)'
      BY <1>2, <2>1, <2>2, <2>3 DEF KnowsOwnHooks
    <2>5. applied'[c] \subseteq applied[c] \cup {at[c]}
      BY <1>8 DEF Replace, TypeOK
    <2>6. OnlyExpendable(c)'
      BY <1>2, <2>1, <2>2, <2>3, <2>5 DEF OnlyExpendable
    <2>7. QED
      BY <2>1, <2>4, <2>6 DEF CommandInv
  <1>9. CASE Rollback(c)
    <2>1. /\ stage[c] = "rollback" /\ stage'[c] \in {"rollback", "failed"}
          /\ UNCHANGED <<backups, written, at, read, kept>>
      BY <1>9 DEF Rollback, Goto, TypeOK
    <2>2. Running(c) /\ \A h \in Hosts : Planned(c, h)
      BY <2>1 DEF Running, Planned
    <2>3. KnowsOwnHooks(c) /\ OnlyExpendable(c)
      BY <1>1, <2>2 DEF CommandInv
    <2>4. applied'[c] \subseteq applied[c]
      BY <1>9 DEF Rollback, TypeOK
    <2>5. KnowsOwnHooks(c)' /\ OnlyExpendable(c)'
      BY <1>2, <2>1, <2>2, <2>3, <2>4 DEF KnowsOwnHooks, OnlyExpendable
    <2>6. QED
      BY <2>1, <2>5 DEF CommandInv
  <1>10. QED
    BY <1>3, <1>4, <1>5, <1>6, <1>7, <1>8, <1>9 DEF Step

-----------------------------------------------------------------------------
LEMMA HostInvInit == Init => HostInv
  BY DEF Init, HostInv, Recoverable, Running

LEMMA HostInvStep == TypeOK /\ HostInv /\ [QuietNext]_vars => HostInv'
  <1> SUFFICES ASSUME TypeOK, HostInv, [QuietNext]_vars
               PROVE  HostInv'
    OBVIOUS
  <1>1. ASSUME NEW c \in Commands, Step(c)
        PROVE  HostInv'
    <2>1. ASSUME NEW h \in Hosts
          PROVE  (written[h] \in {Absent, file[h]} \cup backups[h])'
      BY <1>1, CommandEffect DEF HostInv, Recoverable, Expendable
    <2>2. \A d \in Commands : CommandInv(d)'
      BY <1>1, OwnCommand, OtherCommand
    <2>3. QED
      BY <2>1, <2>2 DEF HostInv, Recoverable, CommandInv
  <1>2. CASE Quiet /\ UserStep
    <2>1. PICK h \in Hosts, text \in UserTexts : UserWrites(h, text)
      BY <1>2 DEF UserStep
    <2>2. Recoverable'
      BY <2>1 DEF UserWrites, HostInv, Recoverable, TypeOK
    <2>3. \A c \in Commands : ~Running(c)'
      BY <1>2, <2>1 DEF Quiet, UserWrites, Running
    <2>4. QED
      BY <2>1, <2>2, <2>3 DEF HostInv, UserWrites, plan
  <1>3. CASE UNCHANGED vars
    BY <1>3 DEF vars, HostInv, Recoverable, Running, KnowsOwnHooks,
                OnlyExpendable, Planned, Expendable
  <1>4. QED
    BY <1>1, <1>2, <1>3 DEF QuietNext, CommandStep

LEMMA QuietType == QuietSpec => []TypeOK
  <1>1. [QuietNext]_vars => [Next]_vars
    BY DEF QuietNext, Next
  <1>2. QED
    BY <1>1, TypeInit, TypeStep, PTL DEF QuietSpec

LEMMA QuietInv == QuietSpec => []HostInv
  BY QuietType, HostInvInit, HostInvStep, PTL DEF QuietSpec

(* Nothing the user has put into a file is lost, for any number of hosts,  *)
(* of commands that overlap, fail, roll back or are killed.                *)
THEOREM NothingLost == QuietSpec => []Recoverable
  <1>1. HostInv => Recoverable
    BY DEF HostInv
  <1>2. QED
    BY <1>1, QuietInv, PTL

(* No step of a command changes the hooks the user has of his own.         *)
THEOREM OwnHooksKept == QuietSpec => KeepsOwnHooks
  <1>1. TypeOK /\ HostInv /\ [QuietNext]_vars =>
          [CommandStep => \A h \in Hosts : Own(file'[h]) = Own(file[h])]_vars
    BY CommandEffect DEF CommandStep
  <1>2. QED
    BY <1>1, QuietType, QuietInv, PTL DEF QuietSpec, KeepsOwnHooks

-----------------------------------------------------------------------------
(* With one command at a time, every file is as the command has read it or *)
(* as it has replaced it, what it has replaced can be put back, and what   *)
(* it has passed by was as it should be.  Only a failed chmod, of a file   *)
(* that has been replaced, leaves a change that is in no list.             *)
Working(c) ==
  \/ stage[c] \in {"apply", "replace"}
  \/ stage[c] = "rollback" /\ "chmod" \notin Failures
Accounted(c) ==
  \A h \in Hosts :
    file[h] = IF h \in applied[c] THEN NewContent(c, h) ELSE read[c][h]
Restorable(c, h) == read[c][h] = Absent \/ kept[c][h] = read[c][h]
Undoable(c) ==
  /\ \A h \in Hosts : kept[c][h] \in {Nothing, read[c][h]}
  /\ \A h \in applied[c] : Restorable(c, h)
  /\ stage[c] = "replace" => Restorable(c, at[c])
Passed(c) ==
  \A h \in Hosts : IF h < at[c] THEN h \in applied[c] \/ Unchanged(c, h)
                              ELSE h \notin applied[c]
Orderly(c) ==
  /\ stage[c] = "plan" => \A h \in Hosts : h < at[c] => file[h] = read[c][h]
  /\ Working(c) => Accounted(c)
  /\ stage[c] \in {"apply", "replace", "rollback"} => Undoable(c)
  /\ stage[c] \in {"apply", "replace"} => Passed(c)

SerialInv == OneRunning /\ \A c \in Commands : Orderly(c)

LEMMA ManagedOfNew ==
  ASSUME TypeOK, NEW c \in Commands, NEW h \in Hosts
  PROVE  Managed(NewContent(c, h)) = IF Kind[c] = "install" THEN HookOf[c] ELSE None
  <1>1. read[c][h] \in Contents /\ HookOf[c] \in Hooks
    BY DEF TypeOK, Hooks
  <1>2. /\ NewContent(c, h) \in Configs \cup {Blank}
        /\ Kind[c] = "install" => NewContent(c, h) \in Configs
    BY NewContentKeeps
  <1>3. CASE Kind[c] = "install"
    BY <1>2, <1>3 DEF NewContent, AddManaged, Managed
  <1>4. CASE Kind[c] # "install"
    <2>1. Blank \notin Configs
      BY HostAssumption
    <2>2. QED
      BY <1>2, <1>4, <2>1 DEF NewContent, RemoveManaged, Managed
  <1>5. QED
    BY <1>3, <1>4

(* A file as it is after its change, or passed by, is as was asked for.    *)
LEMMA AsAsked ==
  ASSUME TypeOK, NEW c \in Commands, NEW h \in Hosts,
         \/ file'[h] = NewContent(c, h)
         \/ Unchanged(c, h) /\ file'[h] = read[c][h]
  PROVE  Managed(file'[h]) = IF Kind[c] = "install" THEN HookOf[c] ELSE None
  <1>1. CASE file'[h] = NewContent(c, h)
    BY <1>1, ManagedOfNew
  <1>2. CASE Kind[c] = "uninstall" /\ file'[h] = Absent
    <2>1. Absent \notin Configs /\ "uninstall" # "install"
      BY HostAssumption
    <2>2. QED
      BY <1>2, <2>1 DEF Managed
  <1>3. QED
    BY <1>1, <1>2 DEF Unchanged

(* Where a command goes next, once it is done with one file.               *)
LEMMA AdvanceFrom ==
  ASSUME TypeOK, NEW c \in Commands, Advance(c)
  PROVE  \/ at[c] = HostCount /\ stage'[c] = "done" /\ at'[c] = at[c]
         \/ stage'[c] = "apply" /\ at'[c] = at[c] + 1
  BY DEF TypeOK, Advance, Goto

LEMMA OrderlyStep ==
  ASSUME TypeOK, HostInv, NEW c \in Commands, Orderly(c), Step(c)
  PROVE  Orderly(c)'
  <1>0. at[c] \in Hosts /\ applied[c] \subseteq Hosts
    BY DEF TypeOK
  <1>1. CASE Start(c)
    <2>1. stage'[c] = "plan" /\ at'[c] = 1
      BY <1>1 DEF Start, Goto, TypeOK, HostInv
    <2>2. QED
      BY <2>1 DEF Orderly, Working, Hosts
  <1>2. CASE Kill(c)
    <2>1. stage'[c] = "killed"
      BY <1>2 DEF Kill, Goto, TypeOK
    <2>2. QED
      BY <2>1 DEF Orderly, Working
  <1>3. CASE Plan(c)
    <2>1. CASE Goto(c, "failed")
      <3>1. stage'[c] = "failed"
        BY <2>1 DEF Goto, TypeOK
      <3>2. QED
        BY <3>1 DEF Orderly, Working
    <2>2. CASE ~Goto(c, "failed")
      <3>1. /\ stage[c] = "plan" /\ file' = file /\ kept' = kept /\ applied' = applied
            /\ read' = [read EXCEPT ![c][at[c]] = file[at[c]]]
        BY <1>3, <2>2 DEF Plan
      <3>2. \/ at[c] = HostCount /\ stage'[c] = "apply" /\ at'[c] = 1
            \/ at'[c] = at[c] + 1 /\ stage'[c] = "plan"
        BY <1>3, <2>2 DEF Plan, Goto, TypeOK
      <3>3. applied[c] = {} /\ \A h \in Hosts : kept[c][h] = Nothing
        BY <3>1 DEF HostInv
      <3>4. \A h \in Hosts : read'[c][h] = IF h = at[c] THEN file[h] ELSE read[c][h]
        BY <1>0, <3>1 DEF TypeOK
      <3>5. \A h \in Hosts : h <= at[c] => file[h] = read'[c][h]
        BY <1>0, <3>1, <3>4 DEF Orderly, Hosts
      <3>6. CASE at'[c] = at[c] + 1 /\ stage'[c] = "plan"
        BY <1>0, <3>1, <3>5, <3>6 DEF Orderly, Working, Hosts
      <3>7. CASE at[c] = HostCount /\ stage'[c] = "apply" /\ at'[c] = 1
        <4>1. Accounted(c)'
          BY <3>1, <3>3, <3>5, <3>7 DEF Accounted, Hosts
        <4>2. Undoable(c)' /\ Passed(c)'
          BY <3>1, <3>3, <3>7 DEF Undoable, Passed, Hosts
        <4>3. QED
          BY <3>7, <4>1, <4>2 DEF Orderly
      <3>8. QED
        BY <3>2, <3>6, <3>7
    <2>3. QED
      BY <2>1, <2>2
  <1>4. CASE Skip(c)
    <2>1. /\ stage[c] = "apply" /\ Unchanged(c, at[c]) /\ Advance(c)
          /\ UNCHANGED <<file, read, kept, applied>>
      BY <1>4 DEF Skip, plan
    <2>2. Accounted(c) /\ Undoable(c) /\ Passed(c)
      BY <2>1 DEF Orderly, Working
    <2>3. Accounted(c)'
      BY <2>1, <2>2 DEF Accounted, NewContent
    <2>4. stage'[c] \in {"apply", "done"}
      BY <2>1, AdvanceFrom
    <2>5. Undoable(c)'
      BY <2>1, <2>2, <2>4 DEF Undoable, Restorable
    <2>6. stage'[c] = "apply" => Passed(c)'
      BY <1>0, <2>1, <2>2, AdvanceFrom DEF Passed, Unchanged, NewContent, Hosts
    <2>7. QED
      BY <2>3, <2>4, <2>5, <2>6 DEF Orderly
  <1>5. CASE Backup(c)
    <2>1. /\ stage[c] = "apply" /\ stage'[c] \in {"replace", "rollback"}
          /\ UNCHANGED <<file, at, read, applied>>
      BY <1>5 DEF Backup, Goto, TypeOK
    <2>2. Accounted(c) /\ Undoable(c) /\ Passed(c)
      BY <2>1 DEF Orderly, Working
    <2>3. at[c] \notin applied[c] /\ file[at[c]] = read[c][at[c]]
      BY <1>0, <2>2 DEF Accounted, Passed, Hosts
    <2>4. kept' = kept \/ kept' = [kept EXCEPT ![c][at[c]] = file[at[c]]]
      BY <1>5 DEF Backup
    <2>5. \A h \in Hosts : kept'[c][h] = kept[c][h] \/ kept'[c][h] = read[c][h]
      BY <1>0, <2>3, <2>4 DEF TypeOK
    <2>6. stage'[c] = "replace" =>
            read[c][at[c]] = Absent \/ kept'[c][at[c]] = read[c][at[c]]
      <3>1. CASE read[c][at[c]] = Absent \/ file[at[c]] = Absent
        BY <2>3, <3>1
      <3>2. CASE kept' = [kept EXCEPT ![c][at[c]] = file[at[c]]]
        BY <1>0, <2>3, <3>2 DEF TypeOK
      <3>3. CASE Goto(c, "rollback")
        BY <3>3 DEF Goto, TypeOK
      <3>4. QED
        BY <1>5, <3>1, <3>2, <3>3 DEF Backup
    <2>7. Accounted(c)' /\ Passed(c)'
      BY <2>1, <2>2 DEF Accounted, Passed, Unchanged, NewContent
    <2>8. Undoable(c)'
      BY <1>0, <2>1, <2>2, <2>5, <2>6 DEF Undoable, Restorable
    <2>9. QED
      BY <2>1, <2>7, <2>8 DEF Orderly
  <1>6. CASE Replace(c)
    <2>1. stage[c] = "replace" /\ read' = read /\ kept' = kept
      BY <1>6 DEF Replace
    <2>2. Accounted(c) /\ Undoable(c) /\ Passed(c) /\ Restorable(c, at[c])
      BY <2>1 DEF Orderly, Working, Undoable
    <2>3. CASE /\ file' = [file EXCEPT ![at[c]] = NewContent(c, at[c])]
               /\ applied' = [applied EXCEPT ![c] = @ \cup {at[c]}]
               /\ Advance(c)
      <3>1. applied'[c] = applied[c] \cup {at[c]}
            /\ stage'[c] \in {"apply", "done"}
        BY <2>3, AdvanceFrom DEF TypeOK
      <3>2. \A h \in Hosts :
              file'[h] = IF h = at[c] THEN NewContent(c, h) ELSE file[h]
        BY <1>0, <2>3 DEF TypeOK
      <3>3. Accounted(c)'
        BY <2>1, <2>2, <3>1, <3>2 DEF Accounted, NewContent
      <3>4. Undoable(c)'
        BY <2>1, <2>2, <3>1 DEF Undoable, Restorable
      <3>5. stage'[c] = "apply" => Passed(c)'
        BY <1>0, <2>1, <2>2, <2>3, <3>1, AdvanceFrom
        DEF Passed, Unchanged, NewContent, Hosts
      <3>6. QED
        BY <3>1, <3>3, <3>4, <3>5 DEF Orderly
    <2>4. CASE Goto(c, "rollback") /\ UNCHANGED applied
      <3>1. stage'[c] = "rollback" /\ applied' = applied
        BY <2>4 DEF Goto, TypeOK
      <3>2. Undoable(c)'
        BY <2>1, <2>2, <3>1 DEF Undoable, Restorable
      <3>3. "chmod" \notin Failures => file' = file
        <4>1. stage'[c] # "done" /\ stage'[c] # "apply"
          BY <3>1
        <4>2. ~Advance(c)
          BY <4>1, AdvanceFrom
        <4>3. QED
          BY <1>6, <4>2 DEF Replace
      <3>4. Working(c)' => Accounted(c)'
        BY <2>1, <2>2, <3>1, <3>3 DEF Working, Accounted, NewContent
      <3>5. QED
        BY <3>1, <3>2, <3>4 DEF Orderly
    <2>5. QED
      BY <1>6, <2>3, <2>4 DEF Replace
  <1>7. CASE Rollback(c)
    <2>1. /\ stage[c] = "rollback" /\ stage'[c] \in {"rollback", "failed"}
          /\ UNCHANGED <<at, read, kept>>
      BY <1>7 DEF Rollback, Goto, TypeOK
    <2>2. Undoable(c) /\ ("chmod" \notin Failures => Accounted(c))
      BY <2>1 DEF Orderly, Working
    <2>3. CASE stage'[c] = "failed"
      BY <2>3 DEF Orderly, Working
    <2>4. CASE stage'[c] = "rollback"
      <3>1. ~Goto(c, "failed")
        BY <2>4 DEF Goto, TypeOK
      <3>2. PICK h \in applied[c] :
              /\ file' = [file EXCEPT ![h] = Restored(c, h)]
              /\ applied' = [applied EXCEPT ![c] = @ \ {h}]
        BY <1>7, <3>1 DEF Rollback
      <3>3. applied'[c] = applied[c] \ {h}
        BY <3>2 DEF TypeOK
      <3>4. Restored(c, h) = read[c][h]
        <4>1. h \in Hosts /\ read[c][h] # Nothing
          BY <1>0, HostAssumption DEF TypeOK
        <4>2. kept[c][h] \in {Nothing, read[c][h]} /\ Restorable(c, h)
          BY <2>2, <4>1 DEF Undoable
        <4>3. QED
          BY <4>1, <4>2 DEF Restorable, Restored
      <3>5. \A g \in Hosts : file'[g] = IF g = h THEN read[c][h] ELSE file[g]
        BY <1>0, <3>2, <3>4 DEF TypeOK
      <3>6. "chmod" \notin Failures => Accounted(c)'
        BY <2>1, <2>2, <3>3, <3>5 DEF Accounted, NewContent
      <3>7. Undoable(c)'
        BY <2>1, <2>2, <2>4, <3>3 DEF Undoable, Restorable
      <3>8. QED
        BY <2>4, <3>6, <3>7 DEF Orderly, Working
    <2>5. QED
      BY <2>1, <2>3, <2>4
  <1>8. QED
    BY <1>1, <1>2, <1>3, <1>4, <1>5, <1>6, <1>7 DEF Step

LEMMA IdleIsOrderly ==
  ASSUME NEW c \in Commands, ~Running(c)
  PROVE  Orderly(c)
  BY DEF Running, Orderly, Working

LEMMA SerialInvInit == Init => SerialInv
  <1>1. Init => \A c \in Commands : ~Running(c)
    BY DEF Init, Running
  <1>2. QED
    BY <1>1, IdleIsOrderly DEF SerialInv, OneRunning

LEMMA SerialInvStep ==
  TypeOK /\ HostInv /\ SerialInv /\ [QuietNext /\ OneRunning']_vars => SerialInv'
  <1> SUFFICES ASSUME TypeOK, HostInv, SerialInv, [QuietNext /\ OneRunning']_vars
               PROVE  SerialInv'
    OBVIOUS
  <1>0. \A d \in Commands : ~Running(d)' => Orderly(d)'
    BY DEF Running, Orderly, Working
  <1>1. ASSUME NEW c \in Commands, Step(c), OneRunning'
        PROVE  SerialInv'
    <2>1. Orderly(c)'
      BY <1>1, OrderlyStep DEF SerialInv
    <2>2. ASSUME NEW d \in Commands \ {c}
          PROVE  ~Running(d)'
      <3>1. Running(d)' = Running(d)
        BY <1>1, OthersUnchanged DEF Running
      <3>2. CASE Running(c)
        BY <2>2, <3>1, <3>2 DEF SerialInv, OneRunning
      <3>3. CASE ~Running(c)
        <4>1. Start(c)
          BY <1>1, <3>3 DEF Step, Running, Plan, Skip, Backup, Replace, Rollback, Kill
        <4>2. Running(c)'
          BY <4>1 DEF Start, Goto, Running, TypeOK
        <4>3. QED
          BY <1>1, <2>2, <4>2 DEF OneRunning
      <3>4. QED
        BY <3>2, <3>3
    <2>3. \A d \in Commands : Orderly(d)'
      BY <1>0, <2>1, <2>2
    <2>4. QED
      BY <1>1, <2>3 DEF SerialInv
  <1>2. ASSUME Quiet, UserStep, OneRunning'
        PROVE  SerialInv'
    <2>1. \A c \in Commands : ~Running(c)'
      BY <1>2 DEF Quiet, UserStep, UserWrites, Running
    <2>2. QED
      BY <1>0, <1>2, <2>1 DEF SerialInv
  <1>3. CASE UNCHANGED vars
    BY <1>3 DEF vars, SerialInv, OneRunning, Running, Orderly, Working, Accounted,
                Undoable, Restorable, Passed, Unchanged, NewContent
  <1>4. QED
    BY <1>1, <1>2, <1>3 DEF QuietNext, CommandStep

LEMMA SerialIsQuiet == SerialSpec => QuietSpec
  <1>1. [QuietNext /\ OneRunning']_vars => [QuietNext]_vars
    OBVIOUS
  <1>2. QED
    BY <1>1, PTL DEF SerialSpec, QuietSpec

LEMMA SerialInvariant == SerialSpec => []SerialInv
  BY SerialIsQuiet, QuietType, QuietInv, SerialInvInit, SerialInvStep, PTL
  DEF SerialSpec

(* A command that succeeds, while it is alone, has put its own hook or     *)
(* none into the file of every host, whatever it has found there.          *)
THEOREM SuccessIsComplete == SerialSpec => DoneAsAsked
  <1>1. ASSUME TypeOK, SerialInv, [QuietNext /\ OneRunning']_vars,
               NEW c \in Commands, stage[c] # "done", stage'[c] = "done",
               NEW h \in Hosts
        PROVE  Managed(file'[h]) = IF Kind[c] = "install" THEN HookOf[c] ELSE None
    <2>1. PICK d \in Commands : Step(d)
      BY <1>1 DEF vars, QuietNext, CommandStep, UserStep, UserWrites
    <2>2. d = c
      BY <1>1, <2>1, OthersUnchanged
    <2>3. Skip(c) \/ Replace(c)
      BY <1>1, <2>1, <2>2
      DEF Step, Start, Kill, Plan, Backup, Rollback, Goto, TypeOK
    <2>4. Advance(c) /\ at[c] = HostCount /\ stage[c] \in {"apply", "replace"}
      <3>1. Advance(c)
        BY <1>1, <2>3 DEF Skip, Replace, Goto, TypeOK
      <3>2. QED
        BY <1>1, <2>3, <3>1, AdvanceFrom DEF Skip, Replace
    <2>5. Accounted(c) /\ Passed(c)
      BY <1>1, <2>4 DEF SerialInv, Orderly, Working
    <2>6. CASE h = at[c]
      <3>1. CASE Skip(c)
        <4>1. Unchanged(c, h) /\ file' = file /\ h \notin applied[c]
          BY <2>5, <2>6, <3>1 DEF Skip, Passed, Hosts
        <4>2. file'[h] = read[c][h]
          BY <2>5, <4>1 DEF Accounted
        <4>3. QED
          BY <1>1, <4>1, <4>2, AsAsked
      <3>2. CASE Replace(c)
        <4>1. file'[h] = NewContent(c, h)
          BY <1>1, <2>6, <3>2 DEF Replace, Goto, TypeOK
        <4>2. QED
          BY <1>1, <4>1, AsAsked
      <3>3. QED
        BY <2>3, <3>1, <3>2
    <2>7. CASE h # at[c]
      <3>1. h < at[c]
        BY <2>4, <2>7, HostAssumption DEF Hosts
      <3>2. file'[h] = file[h]
        BY <1>1, <2>3, <2>7 DEF Skip, Replace, TypeOK
      <3>3. \/ file'[h] = NewContent(c, h)
            \/ Unchanged(c, h) /\ file'[h] = read[c][h]
        BY <2>5, <3>1, <3>2 DEF Accounted, Passed
      <3>4. QED
        BY <1>1, <3>3, AsAsked
    <2>8. QED
      BY <2>6, <2>7
  <1>2. TypeOK /\ SerialInv /\ [QuietNext /\ OneRunning']_vars =>
          [\A c \in Commands : stage[c] # "done" /\ stage'[c] = "done" =>
             \A h \in Hosts :
               Managed(file'[h]) = IF Kind[c] = "install" THEN HookOf[c] ELSE None]_vars
    BY <1>1
  <1>3. QED
    BY <1>2, SerialIsQuiet, QuietType, SerialInvariant, PTL DEF SerialSpec, DoneAsAsked

(* A command that fails, while it is alone and neither a chmod nor an undo *)
(* fails, leaves every file as it has found it.                            *)
THEOREM FailureUndone ==
  ASSUME "chmod" \notin Failures, "restore" \notin Failures
  PROVE  SerialSpec => FailureRestores
  <1>1. ASSUME TypeOK, SerialInv, [QuietNext /\ OneRunning']_vars,
               NEW c \in Commands, stage[c] = "rollback", stage'[c] = "failed",
               NEW h \in Hosts
        PROVE  file'[h] = read[c][h]
    <2>1. PICK d \in Commands : Step(d)
      BY <1>1 DEF vars, QuietNext, CommandStep, UserStep, UserWrites
    <2>2. d = c
      BY <1>1, <2>1, OthersUnchanged
    <2>3. Rollback(c)
      BY <1>1, <2>1, <2>2
      DEF Step, Start, Kill, Plan, Skip, Backup, Replace, Goto, TypeOK
    <2>4. applied[c] = {} /\ file' = file
      BY <1>1, <2>3 DEF Rollback, TypeOK
    <2>5. Accounted(c)
      BY <1>1 DEF SerialInv, Orderly, Working
    <2>6. QED
      BY <2>4, <2>5 DEF Accounted
  <1>2. TypeOK /\ SerialInv /\ [QuietNext /\ OneRunning']_vars =>
          [\A c \in Commands : stage[c] = "rollback" /\ stage'[c] = "failed" =>
             \A h \in Hosts : file'[h] = read[c][h]]_vars
    BY <1>1
  <1>3. QED
    BY <1>2, SerialIsQuiet, QuietType, SerialInvariant, PTL DEF SerialSpec, FailureRestores

-----------------------------------------------------------------------------
(* No file, and nothing a command has read of one or backed up, has a     *)
(* hook of the user's own in the group of the managed one.                 *)
NoneShared ==
  \A h \in Hosts :
    /\ Shared(file[h]) = {}
    /\ \A c \in Commands : Shared(read[c][h]) = {} /\ Shared(kept[c][h]) = {}

LEMMA NoneSharedStep ==
  ASSUME TypeOK, NoneShared, \A text \in UserTexts : Shared(text) = {}, [Next]_vars
  PROVE  NoneShared'
  <1>1. ASSUME NEW c \in Commands, NEW h \in Hosts
        PROVE  Shared(NewContent(c, h)) = {} /\ Shared(Restored(c, h)) = {}
    <2>1. NewContent(c, h) \in Configs \cup {Blank} /\ Shared(read[c][h]) = {} /\ Blank \notin Configs
      BY NewContentKeeps, HostAssumption DEF NoneShared
    <2>2. Shared(NewContent(c, h)) = {}
      BY <2>1 DEF NewContent, AddManaged, RemoveManaged, Shared
    <2>3. Shared(Restored(c, h)) = {}
      BY HostAssumption DEF Restored, NoneShared, Shared
    <2>4. QED
      BY <2>2, <2>3
  <1>2. ASSUME \A h \in Hosts : Shared(file'[h]) = {}, read' = read, kept' = kept
        PROVE  NoneShared'
    BY <1>2 DEF NoneShared
  <1>3. ASSUME NEW c \in Commands, Start(c) \/ Kill(c) \/ Skip(c)
        PROVE  NoneShared'
    BY <1>2, <1>3 DEF Start, Kill, Skip, plan, NoneShared
  <1>4. ASSUME NEW c \in Commands, Plan(c)
        PROVE  NoneShared'
    <2>1. file' = file /\ kept' = kept /\ (read' = read \/ read' = [read EXCEPT ![c][at[c]] = file[at[c]]])
      BY <1>4 DEF Plan
    <2>2. at[c] \in Hosts
      BY DEF TypeOK
    <2>3. \A d \in Commands, h \in Hosts : read'[d][h] \in {read[d][h], file[h]}
      BY <2>1, <2>2 DEF TypeOK
    <2>4. QED
      BY <2>1, <2>3 DEF NoneShared
  <1>5. ASSUME NEW c \in Commands, Backup(c)
        PROVE  NoneShared'
    <2>1. file' = file /\ read' = read /\ (kept' = kept \/ kept' = [kept EXCEPT ![c][at[c]] = file[at[c]]])
      BY <1>5 DEF Backup
    <2>2. at[c] \in Hosts
      BY DEF TypeOK
    <2>3. \A d \in Commands, h \in Hosts : kept'[d][h] \in {kept[d][h], file[h]}
      BY <2>1, <2>2 DEF TypeOK
    <2>4. QED
      BY <2>1, <2>3 DEF NoneShared
  <1>6. ASSUME NEW c \in Commands, Replace(c)
        PROVE  NoneShared'
    <2>1. /\ read' = read /\ kept' = kept
          /\ file' = file \/ file' = [file EXCEPT ![at[c]] = NewContent(c, at[c])]
      BY <1>6 DEF Replace
    <2>2. \A h \in Hosts : file'[h] = file[h] \/ file'[h] = NewContent(c, h)
      BY <2>1 DEF TypeOK
    <2>3. \A h \in Hosts : Shared(file'[h]) = {}
      BY <1>1, <2>2 DEF NoneShared
    <2>4. QED
      BY <1>2, <2>1, <2>3
  <1>7. ASSUME NEW c \in Commands, Rollback(c)
        PROVE  NoneShared'
    <2>1. /\ read' = read /\ kept' = kept
          /\ file' = file \/ \E g \in applied[c] : file' = [file EXCEPT ![g] = Restored(c, g)]
      BY <1>7 DEF Rollback
    <2>2. \A h \in Hosts : file'[h] = file[h] \/ file'[h] = Restored(c, h)
      BY <2>1 DEF TypeOK
    <2>3. \A h \in Hosts : Shared(file'[h]) = {}
      BY <1>1, <2>2 DEF NoneShared
    <2>4. QED
      BY <1>2, <2>1, <2>3
  <1>8. CASE UserStep
    <2>1. PICK g \in Hosts, text \in UserTexts : UserWrites(g, text)
      BY <1>8 DEF UserStep
    <2>2. read' = read /\ kept' = kept /\ \A h \in Hosts : file'[h] \in {file[h], text}
      BY <2>1 DEF UserWrites, plan, TypeOK
    <2>3. \A h \in Hosts : Shared(file'[h]) = {}
      BY <2>2 DEF NoneShared
    <2>4. QED
      BY <1>2, <2>2, <2>3
  <1>9. CASE UNCHANGED vars
    BY <1>2, <1>9 DEF vars, NoneShared
  <1>10. QED
    BY <1>3, <1>4, <1>5, <1>6, <1>7, <1>8, <1>9 DEF Next, CommandStep, Step

(* "Uninstall preserves hooks not managed by this project" holds, also of  *)
(* commands that overlap, as long as the user puts no hook of his own into *)
(* the group of the managed one: removeManagedHookJsonConfig can lose no   *)
(* other, whatever is installed, rolled back, killed or edited in between. *)
THEOREM EveryHookKept ==
  ASSUME \A text \in UserTexts : Shared(text) = {}
  PROVE  QuietSpec => KeepsEveryHook
  <1>1. Init => NoneShared
    <2>1. Shared(Absent) = {} /\ Shared(Nothing) = {}
      BY HostAssumption DEF Shared, Contents, Texts
    <2>2. QED
      BY <2>1 DEF Init, NoneShared
  <1>2. TypeOK /\ NoneShared /\ [QuietNext]_vars => NoneShared'
    BY NoneSharedStep DEF QuietNext, Next
  <1>3. TypeOK /\ HostInv /\ NoneShared /\ [QuietNext]_vars =>
          [\A c \in Commands, h \in Hosts : Replace(c) /\ Kind[c] = "uninstall" =>
             Own(file[h]) \cup Shared(file[h]) \subseteq Own(file'[h]) \cup Shared(file'[h])]_vars
    <2>1. SUFFICES ASSUME TypeOK, HostInv, NoneShared, NEW c \in Commands, NEW h \in Hosts, Replace(c)
                   PROVE  Own(file[h]) \cup Shared(file[h]) \subseteq Own(file'[h]) \cup Shared(file'[h])
      OBVIOUS
    <2>2. Own(file'[h]) = Own(file[h])
      BY <2>1, CommandEffect DEF Step
    <2>3. QED
      BY <2>1, <2>2 DEF NoneShared
  <1>4. QED
    BY <1>1, <1>2, <1>3, QuietType, QuietInv, PTL DEF QuietSpec, KeepsEveryHook

(* What one command has made of a file, another one that is asked the same *)
(* leaves as it is: a second install or uninstall makes no backup and no   *)
(* change, whatever the file was like before the first (file-ops.ts, the   *)
(* comparison of the new content with the old one).                        *)
THEOREM AskedAgain ==
  ASSUME TypeOK, NEW b \in Commands, NEW c \in Commands, NEW h \in Hosts,
         Kind[b] = Kind[c], HookOf[b] = HookOf[c], read[c][h] = NewContent(b, h)
  PROVE  Unchanged(c, h)
  <1>1. read[b][h] \in Contents /\ HookOf[c] \in Hooks
    BY DEF TypeOK, Hooks
  <1>2. /\ NewContent(b, h) \in Configs \cup {Blank}
        /\ Kind[b] = "install" => NewContent(b, h) \in Configs
        /\ Own(NewContent(b, h)) = Own(read[b][h])
    BY NewContentKeeps
  <1>3. CASE Kind[c] = "install"
    BY <1>2, <1>3 DEF Unchanged, NewContent, AddManaged
  <1>4. CASE Kind[c] # "install"
    <2>1. Managed(NewContent(b, h)) = None
      BY <1>4, ManagedOfNew
    <2>2. RemoveManaged(NewContent(b, h)) = NewContent(b, h)
      BY <1>2, <2>1 DEF RemoveManaged
    <2>3. QED
      BY <1>4, <2>2 DEF Unchanged, NewContent
  <1>5. QED
    BY <1>3, <1>4
=============================================================================
