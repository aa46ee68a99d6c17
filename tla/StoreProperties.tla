-------------------------- MODULE StoreProperties --------------------------
(***************************************************************************)
(* What must hold of the local cache, and the use of it under which each   *)
(* property holds.                                                         *)
(***************************************************************************)
EXTENDS SqliteStore

CONSTANTS Readers,                    \* sessions whose caller only reads
          Absent, Damaged, NotOpen    \* values of the abstract cache

ASSUME PropertyAssumption ==
  /\ Readers \subseteq Sessions
  /\ {Absent, Damaged, NotOpen} \cap (Tables \cup {Empty, Garbled}) = {}
  /\ Absent # Damaged

(* What a session that initializes now would load. *)
Saved ==
  IF dbFile = NoFile THEN Absent
  ELSE IF content[dbFile] \in Tables THEN content[dbFile] ELSE Damaged

-----------------------------------------------------------------------------
(* What the safety of the files rests on: no two persists under way have   *)
(* one name for their temporary file.                                      *)
UsesTempName(s) == phase[s] \in {"open", "write", "rename"}
NamesApart ==
  \A r, s \in Sessions :
    UsesTempName(r) /\ UsesTempName(s) /\ TempName(r) = TempName(s) => r = s

(* A file operation that was started ends.  Nothing forces a session to    *)
(* start a new operation.                                                  *)
Fairness == \A s \in Sessions :
  WF_vars(PersistStep(s)) /\ WF_vars(phase[s] = "reload" /\ Initialize(s))

ApartSpec == Init /\ [][Next /\ NamesApart']_vars
FairApartSpec == ApartSpec /\ Fairness

(* Two ways of using the cache that keep the names apart.                  *)
(* Every process has one session: the CLI and the hook.  (The MCP server   *)
(* has one per tool call in progress.)                                     *)
OneSessionPerProcess ==
  \A r, s \in Sessions : ProcessOf[r] = ProcessOf[s] => r = s

(* One session at a time: commands that do not overlap.                    *)
OneSessionOpen ==
  \A r, s \in Sessions : phase[r] # "closed" /\ phase[s] # "closed" => r = s
SerialSpec == Init /\ [][Next /\ OneSessionOpen']_vars

(* The sessions in Readers only initialize, get, list and close, as the    *)
(* MCP tools marked readOnlyHint do.  Nobody repairs the cache.            *)
ReaderSpec ==
  Init /\ [][/\ Next
             /\ \A s \in Sessions : ~Repair(s)
             /\ \A s \in Readers : ~Update(s)]_vars

-----------------------------------------------------------------------------
(* The database path never comes to name a file that is not whole: a       *)
(* reader, or the next process after a crash at any point, loads one       *)
(* session's complete export.  ("Cache files are rewritten atomically.")   *)
RewrittenAtomically == [][Saved' = Damaged => Saved = Damaged]_Saved

(* The store implements the abstract cache: whole tables replace whole     *)
(* tables, and only the export of the session that renames is ever saved.  *)
View == [s \in Sessions |->
  IF phase[s] \in {"closed", "reload"} THEN NotOpen ELSE mem[s]]
Abstract == INSTANCE SnapshotCache WITH saved <- Saved, view <- View
ImplementsSnapshotCache == Abstract!Spec

(* When commands run one at a time, an update that was acknowledged is on  *)
(* disk, and so is one whose rename is done: every later session finds it, *)
(* whatever operation fails and whenever the process dies.                 *)
AcknowledgedIsSaved ==
  \A s \in Sessions : phase[s] \in {"chmod", "ready"} => Saved = mem[s]

(* A call that only reads leaves the saved records as they are.            *)
SavedRecords == IF Saved = Absent THEN NoRecords ELSE Saved
ReadersSaveNothing ==
  [][\A s \in Readers : RenameTemp(s) => SavedRecords' = SavedRecords]_vars

(* The inductive strengthening of the three safety properties: the         *)
(* database is not a file just truncated, no file has two entries in the   *)
(* directory ...                                                           *)
NeverTruncated == dbFile # NoFile => content[dbFile] # Empty

EntriesApart ==
  /\ \A n \in TempNames : tmpFile[n] = dbFile => dbFile = NoFile
  /\ \A m, n \in TempNames : tmpFile[m] = tmpFile[n] => m = n \/ tmpFile[m] = NoFile

(* ... and the file under a session's temporary name is the one it writes, *)
(* then the one that holds its export.                                     *)
TempFileIsOwn ==
  \A s \in Sessions :
    /\ phase[s] = "write" => fd[s] # NoFile /\ tmpFile[TempName(s)] = fd[s]
    /\ phase[s] # "write" => fd[s] = NoFile
    /\ phase[s] = "rename" =>
         tmpFile[TempName(s)] # NoFile /\ content[tmpFile[TempName(s)]] = mem[s]

StoreInv == NeverTruncated /\ EntriesApart /\ TempFileIsOwn

(* Every call that was accepted comes to an end, also when another session *)
(* takes its temporary file or removes the database under it.              *)
CallsEnd ==
  \A s \in Sessions :
    phase[s] \in Persisting \cup {"reload"} ~> phase[s] \in Idle \cup {"closed"}
=============================================================================
