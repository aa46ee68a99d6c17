---------------------------- MODULE SqliteStore ----------------------------
(***************************************************************************)
(* The local cache of packages/core/src/store/sqlite-store.ts.             *)
(*                                                                         *)
(* A SqliteStore object (a session here) loads the whole database file     *)
(* into memory when it is initialized, answers every read from memory, and *)
(* after every change writes the whole database again: export, write to a  *)
(* temporary file named after the process id and the millisecond, rename   *)
(* it over the database, chmod.  There is no lock of any kind.             *)
(*                                                                         *)
(* Every CLI command, hook run and MCP tool call opens sessions of its own *)
(* on one file.  Sessions of one process share its process id, and the     *)
(* MCP server runs tool calls concurrently.  An action is what happens     *)
(* between two awaits of the code.  Directory entries and file contents    *)
(* are kept apart (inodes) because a rename moves the entry while another  *)
(* session may still be writing through its descriptor.                    *)
(***************************************************************************)
EXTENDS Integers, FiniteSets

CONSTANTS
  Sessions,     \* SqliteStore objects on one database path
  Processes,    \* process ids
  ProcessOf,    \* the process that runs each session
  Stamps,       \* values of Date.now() that persists may observe
  Inodes,       \* files of the directory the database lives in
  Keys,         \* keys of records
  Kinds,        \* kinds of records
  KindOf,       \* the kind of the record stored under each key
  Values,       \* record values
  NoRecord,     \* the key has no record
  NoFile,       \* no directory entry, or no open descriptor
  Empty,        \* content of a file just truncated: zero bytes
  Garbled       \* content of a partly written or otherwise damaged file

Tables == [Keys -> Values \cup {NoRecord}]    \* what a whole database holds
NoRecords == [k \in Keys |-> NoRecord]
TempNames == Processes \X Stamps

ASSUME StoreAssumption ==
  /\ ProcessOf \in [Sessions -> Processes]
  /\ KindOf \in [Keys -> Kinds]
  /\ NoRecord \notin Values
  /\ NoFile \notin Inodes
  /\ Empty \notin Tables /\ Garbled \notin Tables /\ Empty # Garbled

VARIABLES
  dbFile,       \* the inode the database path names
  tmpFile,      \* the inode each temporary name names
  content,      \* what each inode holds
  phase,        \* what each session does or awaits next
  caller,       \* the method a session's running persist belongs to
  mem,          \* the session's database in memory
  stamp,        \* the millisecond in the session's temporary name
  fd            \* the inode the session is writing to

vars == <<dbFile, tmpFile, content, phase, caller, mem, stamp, fd>>
disk == <<dbFile, tmpFile, content>>

-----------------------------------------------------------------------------
(* The phases.  "ready": open, the last persist succeeded; "ahead": open,  *)
(* the last persist was rejected after memory had changed; "reload": repair *)
(* removed the file and has not read it again.                             *)

Persisting == {"open", "write", "rename", "chmod"}
Idle == {"ready", "ahead"}
Phases == {"closed", "reload"} \cup Idle \cup Persisting

TempName(s) == <<ProcessOf[s], stamp[s]>>

Linked == {dbFile} \cup {tmpFile[n] : n \in TempNames}
FreeInodes == Inodes \ (Linked \cup {fd[s] : s \in Sessions})

TypeOK ==
  /\ dbFile \in Inodes \cup {NoFile}
  /\ tmpFile \in [TempNames -> Inodes \cup {NoFile}]
  /\ content \in [Inodes -> Tables \cup {Empty, Garbled}]
  /\ phase \in [Sessions -> Phases]
  /\ caller \in [Sessions -> {"initialize", "update"}]
  /\ mem \in [Sessions -> Tables]
  /\ stamp \in [Sessions -> Stamps]
  /\ fd \in [Sessions -> Inodes \cup {NoFile}]

(* The path names nothing, a whole database, or a file damaged by other    *)
(* means (the case the repair command exists for).  No session is open.    *)
Init ==
  /\ dbFile \in Inodes \cup {NoFile}
  /\ \E c \in Tables \cup {Garbled} : content = [i \in Inodes |-> c]
  /\ tmpFile = [n \in TempNames |-> NoFile]
  /\ phase = [s \in Sessions |-> "closed"]
  /\ caller = [s \in Sessions |-> "initialize"]
  /\ mem = [s \in Sessions |-> NoRecords]
  /\ stamp \in [Sessions -> Stamps]
  /\ fd = [s \in Sessions |-> NoFile]

-----------------------------------------------------------------------------
(* #persist up to its first await: export the database, name the file.     *)
BeginPersist(s, method, table) ==
  /\ phase' = [phase EXCEPT ![s] = "open"]
  /\ caller' = [caller EXCEPT ![s] = method]
  /\ mem' = [mem EXCEPT ![s] = table]
  /\ \E t \in Stamps : stamp' = [stamp EXCEPT ![s] = t]
  /\ UNCHANGED fd

(* Mutant: the failure of a persist is swallowed. *)
RejectSwallowed(s) ==
  /\ phase' = [phase EXCEPT ![s] = "ready"]
  /\ UNCHANGED <<caller, mem, stamp>>

(* Mutant: a persist that failed is tried again and again. *)
RejectRetried(s) ==
  /\ phase' = [phase EXCEPT ![s] = "open"]
  /\ UNCHANGED <<caller, mem, stamp>>

(* A rejected persist: initialize closes the database and throws, an       *)
(* update rejects and leaves memory as it is.                              *)
Reject(s) ==
  /\ IF caller[s] = "initialize"
     THEN /\ phase' = [phase EXCEPT ![s] = "closed"]
          /\ mem' = [mem EXCEPT ![s] = NoRecords]
     ELSE /\ phase' = [phase EXCEPT ![s] = "ahead"]
          /\ UNCHANGED mem
  /\ UNCHANGED <<caller, stamp>>

(* Mutant: whatever cannot be read opens as an empty database. *)
InitializeLenient(s) ==
  LET found == IF dbFile = NoFile THEN Empty ELSE content[dbFile] IN
  /\ phase[s] \in {"closed", "reload"}
  /\ BeginPersist(s, "initialize", IF found \in Tables THEN found ELSE NoRecords)
  /\ UNCHANGED disk

(* initialize: a missing file and a file of zero bytes both open as an     *)
(* empty database; anything else that is not whole fails the first query.  *)
Initialize(s) ==
  LET found == IF dbFile = NoFile THEN Empty ELSE content[dbFile] IN
  /\ phase[s] \in {"closed", "reload"}
  /\ \/ /\ found = Empty
        /\ BeginPersist(s, "initialize", NoRecords)
     \/ /\ found \in Tables
        /\ BeginPersist(s, "initialize", found)
     \/ /\ found = Garbled
        /\ phase' = [phase EXCEPT ![s] = "closed"]
        /\ UNCHANGED <<caller, mem, stamp, fd>>
  /\ UNCHANGED disk

(* Mutant: the database is written in place. *)
OpenInPlace(s) ==
  /\ phase[s] = "open"
  /\ dbFile # NoFile
  /\ tmpFile' = [tmpFile EXCEPT ![TempName(s)] = dbFile]
  /\ content' = [content EXCEPT ![dbFile] = Empty]
  /\ fd' = [fd EXCEPT ![s] = dbFile]
  /\ phase' = [phase EXCEPT ![s] = "write"]
  /\ UNCHANGED <<dbFile, caller, mem, stamp>>

(* writeFile opens the temporary file, truncating one that exists.         *)
OpenTemp(s) ==
  /\ phase[s] = "open"
  /\ \E i \in Inodes :
       /\ IF tmpFile[TempName(s)] = NoFile
          THEN i \in FreeInodes
          ELSE i = tmpFile[TempName(s)]
       /\ tmpFile' = [tmpFile EXCEPT ![TempName(s)] = i]
       /\ content' = [content EXCEPT ![i] = Empty]
       /\ fd' = [fd EXCEPT ![s] = i]
  /\ phase' = [phase EXCEPT ![s] = "write"]
  /\ UNCHANGED <<dbFile, caller, mem, stamp>>

(* writeFile has written some of the chunks of a large database.           *)
WriteChunk(s) ==
  /\ phase[s] = "write"
  /\ content[fd[s]] # Garbled
  /\ content' = [content EXCEPT ![fd[s]] = Garbled]
  /\ UNCHANGED <<dbFile, tmpFile, phase, caller, mem, stamp, fd>>

(* writeFile has written the last chunk.  If another session writes the    *)
(* same inode, the chunks of the two may be mixed.                         *)
WriteTemp(s) ==
  /\ phase[s] = "write"
  /\ \/ content' = [content EXCEPT ![fd[s]] = mem[s]]
     \/ /\ \E r \in Sessions \ {s} : fd[r] = fd[s]
        /\ content' = [content EXCEPT ![fd[s]] = Garbled]
  /\ phase' = [phase EXCEPT ![s] = "rename"]
  /\ fd' = [fd EXCEPT ![s] = NoFile]
  /\ UNCHANGED <<dbFile, tmpFile, caller, mem, stamp>>

(* rename replaces the database, or fails when the name is already gone.   *)
RenameTemp(s) ==
  /\ phase[s] = "rename"
  /\ \/ /\ tmpFile[TempName(s)] # NoFile
        /\ dbFile' = tmpFile[TempName(s)]
        /\ tmpFile' = [tmpFile EXCEPT ![TempName(s)] = NoFile]
        /\ phase' = [phase EXCEPT ![s] = "chmod"]
        /\ UNCHANGED <<content, caller, mem, stamp, fd>>
     \/ /\ tmpFile[TempName(s)] = NoFile
        /\ Reject(s)
        /\ UNCHANGED <<disk, fd>>

(* chmod of the database path ends the call, or fails when the file was    *)
(* removed in between.                                                     *)
ChmodDatabase(s) ==
  /\ phase[s] = "chmod"
  /\ \/ /\ dbFile # NoFile
        /\ phase' = [phase EXCEPT ![s] = "ready"]
        /\ UNCHANGED <<caller, mem, stamp>>
     \/ /\ dbFile = NoFile
        /\ Reject(s)
  /\ UNCHANGED <<disk, fd>>

-----------------------------------------------------------------------------
Set(s, k, v) ==
  /\ phase[s] \in Idle
  /\ BeginPersist(s, "update", [mem[s] EXCEPT ![k] = v])
  /\ UNCHANGED disk

(* Mutant: delete leaves an unparsable row behind. *)
DeleteGarbling(s, k) ==
  /\ phase[s] \in Idle
  /\ BeginPersist(s, "update", [mem[s] EXCEPT ![k] = Garbled])
  /\ UNCHANGED disk

(* delete of an absent key returns false without a persist.                *)
Delete(s, k) ==
  /\ phase[s] \in Idle
  /\ mem[s][k] # NoRecord
  /\ BeginPersist(s, "update", [mem[s] EXCEPT ![k] = NoRecord])
  /\ UNCHANGED disk

(* clear of the given kinds: of one, or of all of them.                    *)
Clear(s, kinds) ==
  /\ phase[s] \in Idle
  /\ BeginPersist(s, "update",
       [k \in Keys |-> IF KindOf[k] \in kinds THEN NoRecord ELSE mem[s][k]])
  /\ UNCHANGED disk

Close(s) ==
  /\ phase[s] \in Idle
  /\ phase' = [phase EXCEPT ![s] = "closed"]
  /\ mem' = [mem EXCEPT ![s] = NoRecords]
  /\ UNCHANGED <<disk, caller, stamp, fd>>

(* repair closes the session and removes the file, then initializes.       *)
Repair(s) ==
  /\ phase[s] \in Idle \cup {"closed"}
  /\ phase' = [phase EXCEPT ![s] = "reload"]
  /\ mem' = [mem EXCEPT ![s] = NoRecords]
  /\ dbFile' = NoFile
  /\ UNCHANGED <<tmpFile, content, caller, stamp, fd>>

-----------------------------------------------------------------------------
(* The environment: a file operation that fails, and a process that dies.  *)

IOError(s) ==
  /\ \/ /\ phase[s] = "reload"
        /\ phase' = [phase EXCEPT ![s] = "closed"]
        /\ UNCHANGED <<caller, mem, stamp>>
     \/ /\ phase[s] \in Persisting
        /\ Reject(s)
  /\ fd' = [fd EXCEPT ![s] = NoFile]
  /\ UNCHANGED disk

Crash(p) ==
  LET dead == {s \in Sessions : ProcessOf[s] = p} IN
  /\ \E s \in dead : phase[s] # "closed"
  /\ phase' = [s \in Sessions |-> IF s \in dead THEN "closed" ELSE phase[s]]
  /\ mem' = [s \in Sessions |-> IF s \in dead THEN NoRecords ELSE mem[s]]
  /\ fd' = [s \in Sessions |-> IF s \in dead THEN NoFile ELSE fd[s]]
  /\ UNCHANGED <<disk, caller, stamp>>

-----------------------------------------------------------------------------
Update(s) ==
  \/ \E k \in Keys, v \in Values : Set(s, k, v)
  \/ \E k \in Keys : Delete(s, k)
  \/ \E kinds \in {Kinds} \cup {{kind} : kind \in Kinds} : Clear(s, kinds)

PersistStep(s) ==
  OpenTemp(s) \/ WriteTemp(s) \/ RenameTemp(s) \/ ChmodDatabase(s)

Next ==
  \/ \E s \in Sessions :
       \/ Initialize(s) \/ Update(s) \/ Close(s) \/ Repair(s)
       \/ PersistStep(s) \/ WriteChunk(s) \/ IOError(s)
  \/ \E p \in Processes : Crash(p)

Spec == Init /\ [][Next]_vars
=============================================================================
