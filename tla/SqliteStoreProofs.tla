------------------------- MODULE SqliteStoreProofs -------------------------
(***************************************************************************)
(* The theorems about the local cache.  One inductive invariant carries    *)
(* them: as long as no two sessions that are about to open, write or       *)
(* rename a temporary file have the same name for it (NamesApart), a       *)
(* session's temporary file is its own from open to rename, and holds the  *)
(* session's whole export when it is renamed.  Two ways of using the cache *)
(* keep the names apart: one session per process, and one session at a     *)
(* time.                                                                   *)
(***************************************************************************)
EXTENDS StoreProperties, TLAPS

-----------------------------------------------------------------------------
(* Type correctness, for any number of sessions, processes and files.      *)
LEMMA TypeInit == Init => TypeOK
  BY StoreAssumption DEF Init, TypeOK, Phases, Tables, NoRecords

LEMMA BeginPersistType ==
  ASSUME TypeOK, NEW s \in Sessions, NEW table \in Tables,
         NEW method \in {"initialize", "update"},
         BeginPersist(s, method, table), UNCHANGED disk
  PROVE  TypeOK'
  BY DEF TypeOK, BeginPersist, disk, Phases, Persisting

LEMMA RejectType ==
  ASSUME TypeOK, NEW s \in Sessions, Reject(s)
  PROVE  /\ phase' \in [Sessions -> Phases]
         /\ mem' \in [Sessions -> Tables]
         /\ caller' = caller /\ stamp' = stamp
  <1>1. NoRecords \in Tables
    BY DEF NoRecords, Tables
  <1>2. QED
    BY <1>1 DEF TypeOK, Reject, Phases, Idle

LEMMA TypeStep == TypeOK /\ [Next]_vars => TypeOK'
  <1> SUFFICES ASSUME TypeOK, [Next]_vars
               PROVE  TypeOK'
    OBVIOUS
  <1>t. NoRecords \in Tables
    BY DEF NoRecords, Tables
  <1>1. ASSUME NEW s \in Sessions, Initialize(s)
        PROVE  TypeOK'
    <2> DEFINE found == IF dbFile = NoFile THEN Empty ELSE content[dbFile]
    <2>1. CASE found = Empty /\ BeginPersist(s, "initialize", NoRecords)
      BY <2>1, <1>1, <1>t, BeginPersistType DEF Initialize
    <2>2. CASE found \in Tables /\ BeginPersist(s, "initialize", found)
      BY <2>2, <1>1, BeginPersistType DEF Initialize
    <2>3. CASE phase' = [phase EXCEPT ![s] = "closed"]
               /\ UNCHANGED <<caller, mem, stamp, fd>>
      BY <2>3, <1>1 DEF Initialize, TypeOK, disk, Phases
    <2>4. QED
      BY <1>1, <2>1, <2>2, <2>3 DEF Initialize
  <1>2. ASSUME NEW s \in Sessions, Update(s)
        PROVE  TypeOK'
    <2>1. ASSUME NEW k \in Keys, NEW v \in Values, Set(s, k, v)
          PROVE  TypeOK'
      <3>1. [mem[s] EXCEPT ![k] = v] \in Tables
        BY DEF TypeOK, Tables
      <3>2. QED
        BY <3>1, <2>1, BeginPersistType DEF Set
    <2>2. ASSUME NEW k \in Keys, Delete(s, k)
          PROVE  TypeOK'
      <3>1. [mem[s] EXCEPT ![k] = NoRecord] \in Tables
        BY DEF TypeOK, Tables
      <3>2. QED
        BY <3>1, <2>2, BeginPersistType DEF Delete
    <2>3. ASSUME NEW kinds, Clear(s, kinds)
          PROVE  TypeOK'
      <3>1. [k \in Keys |-> IF KindOf[k] \in kinds THEN NoRecord ELSE mem[s][k]]
              \in Tables
        BY DEF TypeOK, Tables
      <3>2. QED
        BY <3>1, <2>3, BeginPersistType DEF Clear
    <2>4. QED
      BY <1>2, <2>1, <2>2, <2>3 DEF Update
  <1>3. ASSUME NEW s \in Sessions, Close(s) \/ Repair(s)
        PROVE  TypeOK'
    BY <1>3, <1>t DEF Close, Repair, TypeOK, disk, Phases
  <1>4. ASSUME NEW s \in Sessions, OpenTemp(s) \/ WriteChunk(s) \/ WriteTemp(s)
        PROVE  TypeOK'
    BY <1>4, StoreAssumption
    DEF OpenTemp, WriteChunk, WriteTemp, TypeOK, Phases, Persisting, TempName, TempNames
  <1>5. ASSUME NEW s \in Sessions, RenameTemp(s)
        PROVE  TypeOK'
    <2>1. CASE tmpFile[TempName(s)] = NoFile
      BY <2>1, <1>5, RejectType DEF RenameTemp, TypeOK, disk
    <2>2. CASE tmpFile[TempName(s)] # NoFile
      BY <2>2, <1>5, StoreAssumption
      DEF RenameTemp, TypeOK, Phases, Persisting, TempName, TempNames
    <2>3. QED
      BY <2>1, <2>2
  <1>6. ASSUME NEW s \in Sessions, ChmodDatabase(s)
        PROVE  TypeOK'
    <2>1. CASE dbFile = NoFile
      BY <2>1, <1>6, RejectType DEF ChmodDatabase, TypeOK, disk
    <2>2. CASE dbFile # NoFile
      BY <2>2, <1>6 DEF ChmodDatabase, TypeOK, disk, Phases, Idle
    <2>3. QED
      BY <2>1, <2>2
  <1>7. ASSUME NEW s \in Sessions, IOError(s)
        PROVE  TypeOK'
    <2>1. CASE Reject(s)
      BY <2>1, <1>7, RejectType DEF IOError, TypeOK, disk
    <2>2. CASE phase' = [phase EXCEPT ![s] = "closed"]
               /\ UNCHANGED <<caller, mem, stamp>>
      BY <2>2, <1>7 DEF IOError, TypeOK, disk, Phases
    <2>3. QED
      BY <1>7, <2>1, <2>2 DEF IOError
  <1>8. ASSUME NEW p \in Processes, Crash(p)
        PROVE  TypeOK'
    BY <1>8, <1>t DEF Crash, TypeOK, disk, Phases
  <1>9. CASE UNCHANGED vars
    BY <1>9 DEF vars, TypeOK
  <1>10. QED
    BY <1>1, <1>2, <1>3, <1>4, <1>5, <1>6, <1>7, <1>8, <1>9 DEF Next, PersistStep

(* The variables keep their types in every behaviour of the cache.         *)
THEOREM TypeCorrect == Spec => []TypeOK
  <1>1. QED
    BY TypeInit, TypeStep, PTL DEF Spec

-----------------------------------------------------------------------------
(* The invariant, while names are apart.                                   *)
LEMMA InvInit == Init => StoreInv
  BY StoreAssumption DEF Init, StoreInv, NeverTruncated, EntriesApart, TempFileIsOwn

LEMMA TempNameType ==
  ASSUME TypeOK, NEW s \in Sessions
  PROVE  TempName(s) \in TempNames
  BY StoreAssumption DEF TypeOK, TempName, TempNames

(* A step that leaves the directory and the file contents alone, starts or *)
(* ends calls, and drops descriptors only with the calls that held them.   *)
LEMMA InvMemoryStep ==
  ASSUME StoreInv, UNCHANGED disk,
         \A s \in Sessions :
           \/ /\ phase'[s] \notin {"write", "rename"}
              /\ fd'[s] = NoFile
           \/ /\ phase'[s] = phase[s] /\ fd'[s] = fd[s]
              /\ mem'[s] = mem[s] /\ stamp'[s] = stamp[s]
  PROVE  StoreInv'
  <1>1. NeverTruncated' /\ EntriesApart'
    BY DEF StoreInv, NeverTruncated, EntriesApart, disk
  <1>2. TempFileIsOwn'
    BY DEF StoreInv, TempFileIsOwn, TempName, disk
  <1>3. QED
    BY <1>1, <1>2 DEF StoreInv

LEMMA InvStep == TypeOK /\ NamesApart /\ StoreInv /\ [Next]_vars => StoreInv'
  <1> SUFFICES ASSUME TypeOK, NamesApart, StoreInv, [Next]_vars
               PROVE  StoreInv'
    OBVIOUS
  <1>n. \A s \in Sessions : TempName(s) \in TempNames
    BY TempNameType
  <1>b. ASSUME NEW s \in Sessions, NEW method, NEW table,
               phase[s] \in Idle \cup {"closed", "reload"},
               BeginPersist(s, method, table), UNCHANGED disk
        PROVE  StoreInv'
    BY <1>b, InvMemoryStep DEF BeginPersist, TypeOK, StoreInv, TempFileIsOwn, Idle
  <1>1. ASSUME NEW s \in Sessions, Initialize(s)
        PROVE  StoreInv'
    <2>1. CASE \E table : BeginPersist(s, "initialize", table)
      BY <2>1, <1>1, <1>b DEF Initialize
    <2>2. CASE phase' = [phase EXCEPT ![s] = "closed"]
               /\ UNCHANGED <<caller, mem, stamp, fd>>
      BY <2>2, <1>1, InvMemoryStep DEF Initialize, TypeOK, StoreInv, TempFileIsOwn
    <2>3. QED
      BY <1>1, <2>1, <2>2 DEF Initialize
  <1>2. ASSUME NEW s \in Sessions, Update(s)
        PROVE  StoreInv'
    BY <1>2, <1>b DEF Update, Set, Delete, Clear
  <1>3. ASSUME NEW s \in Sessions, Close(s)
        PROVE  StoreInv'
    BY <1>3, InvMemoryStep DEF Close, TypeOK, StoreInv, TempFileIsOwn, Idle
  <1>4. ASSUME NEW s \in Sessions, Repair(s)
        PROVE  StoreInv'
    <2>1. NeverTruncated' /\ EntriesApart'
      BY <1>4, StoreAssumption
      DEF Repair, StoreInv, NeverTruncated, EntriesApart, TypeOK
    <2>2. TempFileIsOwn'
      BY <1>4 DEF Repair, StoreInv, TempFileIsOwn, TypeOK, TempName, Idle
    <2>3. QED
      BY <2>1, <2>2 DEF StoreInv
  <1>5. ASSUME NEW s \in Sessions, OpenTemp(s)
        PROVE  StoreInv'
    <2>1. PICK i \in Inodes :
            /\ IF tmpFile[TempName(s)] = NoFile
               THEN i \in FreeInodes
               ELSE i = tmpFile[TempName(s)]
            /\ tmpFile' = [tmpFile EXCEPT ![TempName(s)] = i]
            /\ content' = [content EXCEPT ![i] = Empty]
            /\ fd' = [fd EXCEPT ![s] = i]
      BY <1>5 DEF OpenTemp
    <2>2. /\ i # NoFile /\ i # dbFile
          /\ \A n \in TempNames : tmpFile[n] = i => n = TempName(s)
      BY <2>1, <1>n, StoreAssumption DEF FreeInodes, Linked, StoreInv, EntriesApart
    <2>3. NeverTruncated' /\ EntriesApart'
      BY <2>1, <2>2, <1>5, <1>n
      DEF OpenTemp, StoreInv, NeverTruncated, EntriesApart, TypeOK
    <2>4. ASSUME NEW r \in Sessions, r # s, UsesTempName(r)
          PROVE  TempName(r) # TempName(s) /\ tmpFile'[TempName(r)] = tmpFile[TempName(r)]
      BY <2>1, <2>4, <1>5, <1>n DEF NamesApart, UsesTempName, OpenTemp, TypeOK
    <2>5. TempFileIsOwn'
      <3> SUFFICES ASSUME NEW r \in Sessions
                   PROVE  TempFileIsOwn!(r)'
        BY DEF TempFileIsOwn
      <3>1. CASE r = s
        BY <3>1, <2>1, <2>2, <1>5, <1>n DEF OpenTemp, TypeOK, TempName
      <3>2. CASE r # s
        <4>1. phase'[r] = phase[r] /\ fd'[r] = fd[r] /\ mem'[r] = mem[r]
              /\ TempName(r)' = TempName(r)
          BY <3>2, <2>1, <1>5 DEF OpenTemp, TypeOK, TempName
        <4>2. CASE phase[r] = "write"
          BY <4>1, <4>2, <2>4, <3>2 DEF StoreInv, TempFileIsOwn, UsesTempName
        <4>3. CASE phase[r] = "rename"
          <5>1. tmpFile[TempName(r)] # NoFile /\ content[tmpFile[TempName(r)]] = mem[r]
            BY <4>3 DEF StoreInv, TempFileIsOwn
          <5>2. tmpFile[TempName(r)] # i
            BY <2>2, <2>4, <3>2, <4>3, <1>n DEF UsesTempName
          <5>3. tmpFile[TempName(r)] \in Inodes
            BY <5>1, <1>n DEF TypeOK
          <5>4. content'[tmpFile[TempName(r)]] = content[tmpFile[TempName(r)]]
            BY <5>2, <5>3, <2>1 DEF TypeOK
          <5>5. fd[r] = NoFile
            BY <4>3 DEF StoreInv, TempFileIsOwn
          <5>6. QED
            BY <4>1, <4>3, <5>1, <5>4, <5>5, <2>4, <3>2 DEF UsesTempName
        <4>4. CASE phase[r] \notin {"write", "rename"}
          BY <4>1, <4>4 DEF StoreInv, TempFileIsOwn
        <4>5. QED
          BY <4>2, <4>3, <4>4
      <3>3. QED
        BY <3>1, <3>2
    <2>6. QED
      BY <2>3, <2>5 DEF StoreInv
  <1>6. ASSUME NEW s \in Sessions, NEW c, phase[s] = "write", fd[s] # NoFile,
               content' = [content EXCEPT ![fd[s]] = c],
               UNCHANGED <<dbFile, tmpFile, mem, stamp>>,
               \/ UNCHANGED <<phase, fd>>
               \/ /\ c = mem[s] /\ phase' = [phase EXCEPT ![s] = "rename"]
                  /\ fd' = [fd EXCEPT ![s] = NoFile]
        PROVE  StoreInv'
    <2>2. fd[s] \in Inodes /\ tmpFile[TempName(s)] = fd[s]
      BY <1>6 DEF StoreInv, TempFileIsOwn, TypeOK
    <2>1. NeverTruncated' /\ EntriesApart'
      BY <2>2, <1>6, <1>n, StoreAssumption
      DEF StoreInv, NeverTruncated, EntriesApart, TypeOK
    <2>3. ASSUME NEW r \in Sessions
          PROVE  TempFileIsOwn!(r)'
      <3>1. CASE r = s
        BY <3>1, <2>2, <1>6, StoreAssumption DEF TypeOK, TempName, StoreInv, TempFileIsOwn
      <3>2. CASE r # s
        <4>1. phase'[r] = phase[r] /\ fd'[r] = fd[r] /\ mem'[r] = mem[r]
              /\ TempName(r)' = TempName(r) /\ tmpFile' = tmpFile
          BY <3>2, <1>6 DEF TypeOK, TempName
        <4>2. CASE phase[r] = "rename"
          <5>1. tmpFile[TempName(r)] # NoFile /\ content[tmpFile[TempName(r)]] = mem[r]
            BY <4>2 DEF StoreInv, TempFileIsOwn
          <5>2. TempName(r) # TempName(s)
            BY <4>2, <3>2, <1>6 DEF NamesApart, UsesTempName
          <5>3. tmpFile[TempName(r)] # fd[s]
            BY <5>1, <5>2, <2>2, <1>n DEF StoreInv, EntriesApart
          <5>4. content'[tmpFile[TempName(r)]] = content[tmpFile[TempName(r)]]
            BY <5>3, <5>1, <1>n, <1>6 DEF TypeOK
          <5>5. QED
            BY <4>1, <4>2, <5>1, <5>4 DEF StoreInv, TempFileIsOwn
        <4>3. CASE phase[r] # "rename"
          BY <4>1, <4>3 DEF StoreInv, TempFileIsOwn
        <4>4. QED
          BY <4>2, <4>3
      <3>3. QED
        BY <3>1, <3>2
    <2>4. QED
      BY <2>1, <2>3 DEF StoreInv, TempFileIsOwn
  <1>7. ASSUME NEW s \in Sessions, WriteChunk(s)
        PROVE  StoreInv'
    <2>1. fd[s] # NoFile
      BY <1>7 DEF WriteChunk, StoreInv, TempFileIsOwn
    <2>2. QED
      BY <2>1, <1>7, <1>6 DEF WriteChunk
  <1>8. ASSUME NEW s \in Sessions, WriteTemp(s)
        PROVE  StoreInv'
    <2>1. fd[s] # NoFile
      BY <1>8 DEF WriteTemp, StoreInv, TempFileIsOwn
    <2>2. ASSUME NEW r \in Sessions \ {s}
          PROVE  fd[r] # fd[s]
      <3>1. SUFFICES ASSUME phase[r] = "write"
                     PROVE  fd[r] # fd[s]
        BY <2>1, <2>2 DEF StoreInv, TempFileIsOwn
      <3>2. TempName(r) # TempName(s)
        BY <2>2, <3>1, <1>8 DEF NamesApart, UsesTempName, WriteTemp
      <3>3. QED
        BY <2>1, <3>1, <3>2, <1>8, <1>n
        DEF WriteTemp, StoreInv, TempFileIsOwn, EntriesApart
    <2>3. content' = [content EXCEPT ![fd[s]] = mem[s]]
      BY <2>2, <1>8 DEF WriteTemp
    <2>4. QED
      BY <2>1, <2>3, <1>8, <1>6 DEF WriteTemp
  <1>9. ASSUME NEW s \in Sessions, RenameTemp(s)
        PROVE  StoreInv'
    <2>1. tmpFile[TempName(s)] # NoFile
      BY <1>9 DEF RenameTemp, StoreInv, TempFileIsOwn
    <2>2. /\ dbFile' = tmpFile[TempName(s)]
          /\ tmpFile' = [tmpFile EXCEPT ![TempName(s)] = NoFile]
          /\ phase' = [phase EXCEPT ![s] = "chmod"]
          /\ UNCHANGED <<content, caller, mem, stamp, fd>>
      BY <2>1, <1>9 DEF RenameTemp
    <2>3. NeverTruncated' /\ EntriesApart'
      BY <2>1, <2>2, <1>9, <1>n, StoreAssumption
      DEF RenameTemp, StoreInv, NeverTruncated, EntriesApart, TempFileIsOwn, TypeOK
    <2>4. ASSUME NEW r \in Sessions
          PROVE  TempFileIsOwn!(r)'
      <3>1. CASE r = s
        BY <3>1, <2>2, <1>9 DEF RenameTemp, TypeOK, StoreInv, TempFileIsOwn
      <3>2. CASE r # s /\ phase[r] \in {"write", "rename"}
        <4>1. TempName(r) # TempName(s)
          BY <3>2, <1>9 DEF NamesApart, UsesTempName, RenameTemp
        <4>2. QED
          BY <3>2, <4>1, <2>2, <1>n DEF TypeOK, TempName, StoreInv, TempFileIsOwn
      <3>3. CASE r # s /\ phase[r] \notin {"write", "rename"}
        BY <3>3, <2>2 DEF TypeOK, StoreInv, TempFileIsOwn
      <3>4. QED
        BY <3>1, <3>2, <3>3
    <2>5. QED
      BY <2>3, <2>4 DEF StoreInv, TempFileIsOwn
  <1>10. ASSUME NEW s \in Sessions, ChmodDatabase(s)
         PROVE  StoreInv'
    BY <1>10, InvMemoryStep
    DEF ChmodDatabase, Reject, TypeOK, StoreInv, TempFileIsOwn
  <1>11. ASSUME NEW s \in Sessions, IOError(s)
         PROVE  StoreInv'
    BY <1>11, InvMemoryStep
    DEF IOError, Reject, TypeOK, StoreInv, TempFileIsOwn
  <1>12. ASSUME NEW p \in Processes, Crash(p)
         PROVE  StoreInv'
    BY <1>12, InvMemoryStep DEF Crash, TypeOK
  <1>13. CASE UNCHANGED vars
    BY <1>13, InvMemoryStep DEF vars, disk
  <1>14. QED
    BY <1>1, <1>2, <1>3, <1>4, <1>5, <1>7, <1>8, <1>9, <1>10, <1>11, <1>12, <1>13
    DEF Next, PersistStep

-----------------------------------------------------------------------------
(* As long as the names stay apart, a temporary file belongs to one        *)
(* session, and holds its whole export when it is renamed.                 *)
LEMMA ApartAlways == ApartSpec => [](TypeOK /\ NamesApart)
  <1>1. Init => NamesApart
    BY DEF Init, NamesApart, UsesTempName
  <1>2. NamesApart /\ [Next /\ NamesApart']_vars => NamesApart'
    BY DEF NamesApart, UsesTempName, TempName, vars
  <1>3. TypeOK /\ [Next /\ NamesApart']_vars => TypeOK'
    BY TypeStep
  <1>4. QED
    BY <1>1, <1>2, <1>3, TypeInit, PTL DEF ApartSpec

THEOREM ApartInv == ApartSpec => []StoreInv
  <1>1. TypeOK /\ NamesApart /\ StoreInv /\ [Next /\ NamesApart']_vars => StoreInv'
    BY InvStep
  <1>2. QED
    BY <1>1, InvInit, ApartAlways, PTL DEF ApartSpec

(* Both ways of using the cache keep them apart: one session per process,  *)
(* and one session at a time.                                              *)
THEOREM ApartByProcess ==
  ASSUME OneSessionPerProcess
  PROVE  Spec => ApartSpec
  <1>1. NamesApart'
    BY DEF OneSessionPerProcess, NamesApart, TempName
  <1>2. [Next]_vars => [Next /\ NamesApart']_vars
    BY <1>1
  <1>3. QED
    BY <1>2, PTL DEF Spec, ApartSpec

LEMMA ApartSerially == OneSessionOpen => NamesApart
  BY DEF OneSessionOpen, NamesApart, UsesTempName

-----------------------------------------------------------------------------
(* What a step can do to the saved table.                                  *)
LEMMA RenameStep ==
  ASSUME TypeOK, StoreInv, NEW s \in Sessions, RenameTemp(s)
  PROVE  /\ Saved' = mem[s]
         /\ phase' = [phase EXCEPT ![s] = "chmod"]
         /\ UNCHANGED <<caller, mem, stamp, fd>>
  <1>1. /\ tmpFile[TempName(s)] \in Inodes /\ tmpFile[TempName(s)] # NoFile
        /\ content[tmpFile[TempName(s)]] = mem[s]
        /\ mem[s] \in Tables
    BY TempNameType DEF RenameTemp, StoreInv, TempFileIsOwn, TypeOK
  <1>2. /\ dbFile' = tmpFile[TempName(s)] /\ content' = content
        /\ phase' = [phase EXCEPT ![s] = "chmod"]
        /\ UNCHANGED <<caller, mem, stamp, fd>>
    BY <1>1 DEF RenameTemp
  <1>3. QED
    BY <1>1, <1>2, StoreAssumption DEF Saved

LEMMA SavedStep ==
  ASSUME TypeOK, NamesApart, StoreInv, [Next]_vars
  PROVE  \/ Saved' = Saved
         \/ \E s \in Sessions : RenameTemp(s) /\ Saved' = mem[s] /\ phase'[s] = "chmod"
         \/ \E s \in Sessions : Repair(s) /\ Saved' = Absent
  <1>n. \A s \in Sessions : TempName(s) \in TempNames
    BY TempNameType
  <1>1. CASE UNCHANGED <<dbFile, content>>
    BY <1>1 DEF Saved
  <1>2. ASSUME NEW s \in Sessions, NEW i \in Inodes, i # dbFile, NEW c,
               dbFile' = dbFile, content' = [content EXCEPT ![i] = c]
        PROVE  Saved' = Saved
    BY <1>2 DEF Saved, TypeOK
  <1>3. ASSUME NEW s \in Sessions, OpenTemp(s)
        PROVE  Saved' = Saved
    <2>1. PICK i \in Inodes : /\ IF tmpFile[TempName(s)] = NoFile
                                 THEN i \in FreeInodes
                                 ELSE i = tmpFile[TempName(s)]
                              /\ content' = [content EXCEPT ![i] = Empty]
      BY <1>3 DEF OpenTemp
    <2>2. i # dbFile
      BY <2>1, <1>n, StoreAssumption DEF FreeInodes, Linked, StoreInv, EntriesApart
    <2>3. QED
      BY <2>1, <2>2, <1>2, <1>3 DEF OpenTemp
  <1>4. ASSUME NEW s \in Sessions, WriteChunk(s) \/ WriteTemp(s)
        PROVE  Saved' = Saved
    <2>1. fd[s] \in Inodes /\ fd[s] = tmpFile[TempName(s)]
      BY <1>4 DEF WriteChunk, WriteTemp, StoreInv, TempFileIsOwn, TypeOK
    <2>2. fd[s] # dbFile
      BY <2>1, <1>n, StoreAssumption DEF StoreInv, EntriesApart
    <2>3. QED
      BY <2>1, <2>2, <1>2, <1>4 DEF WriteChunk, WriteTemp
  <1>5. ASSUME NEW s \in Sessions, RenameTemp(s)
        PROVE  Saved' = mem[s] /\ phase'[s] = "chmod"
    BY <1>5, RenameStep DEF TypeOK
  <1>6. ASSUME NEW s \in Sessions, Repair(s)
        PROVE  Saved' = Absent
    BY <1>6 DEF Repair, Saved
  <1>7. ASSUME NEW s \in Sessions,
               Initialize(s) \/ Update(s) \/ Close(s) \/ ChmodDatabase(s) \/ IOError(s)
        PROVE  UNCHANGED <<dbFile, content>>
    BY <1>7 DEF Initialize, Update, Set, Delete, Clear, Close, ChmodDatabase, IOError, disk
  <1>8. ASSUME NEW p \in Processes, Crash(p)
        PROVE  UNCHANGED <<dbFile, content>>
    BY <1>8 DEF Crash, disk
  <1>9. QED
    BY <1>1, <1>3, <1>4, <1>5, <1>6, <1>7, <1>8 DEF Next, PersistStep, vars

(* As long as the names stay apart the saved table never becomes damaged,  *)
(* whatever sessions do, fail or crash at any point of a persist.          *)
THEOREM AtomicRewrite == ApartSpec => RewrittenAtomically
  <1>1. TypeOK /\ NamesApart /\ StoreInv /\ [Next /\ NamesApart']_vars
          => [Saved' = Damaged => Saved = Damaged]_Saved
    BY SavedStep, PropertyAssumption DEF TypeOK
  <1>2. QED
    BY <1>1, ApartAlways, ApartInv, PTL DEF ApartSpec, RewrittenAtomically

-----------------------------------------------------------------------------
(* The refinement: what each step looks like in the abstract cache.        *)
LEMMA RefinementInit == Init => Abstract!Init
  BY StoreAssumption, PropertyAssumption
  DEF Init, Abstract!Init, Saved, View, Tables, Abstract!Tables

LEMMA RefinementStep ==
  TypeOK /\ NamesApart /\ StoreInv /\ [Next]_vars => [Abstract!Next]_Abstract!vars
  <1> SUFFICES ASSUME TypeOK, NamesApart, StoreInv, [Next]_vars
               PROVE  [Abstract!Next]_<<Saved, View>>
    BY DEF Abstract!vars
  <1>m. \A s \in Sessions : mem[s] # NotOpen
    BY PropertyAssumption DEF TypeOK
  <1>r. ASSUME NEW s \in Sessions, Reject(s), phase[s] \in Persisting, Saved' = Saved
        PROVE  Abstract!Leave({s}) \/ UNCHANGED <<Saved, View>>
    <2>1. CASE caller[s] = "initialize"
      BY <2>1, <1>r DEF Reject, Abstract!Leave, View, TypeOK
    <2>2. CASE caller[s] # "initialize"
      BY <2>2, <1>r DEF Reject, View, TypeOK, Persisting
    <2>3. QED
      BY <2>1, <2>2
  <1>o. ASSUME NEW s \in Sessions, phase[s] \in {"closed", "reload"}, Saved' = Saved,
               Saved # Damaged,
               BeginPersist(s, "initialize", IF Saved = Absent THEN NoRecords ELSE Saved)
        PROVE  Abstract!Open(s)
    BY <1>o DEF BeginPersist, Abstract!Open, Abstract!NoRecords, NoRecords, View, TypeOK
  <1>u. ASSUME NEW s \in Sessions, phase[s] \in Idle, NEW table, UNCHANGED disk,
               BeginPersist(s, "update", table)
        PROVE  Saved' = Saved /\ View[s] = mem[s] /\ View' = [View EXCEPT ![s] = table]
    BY <1>u DEF BeginPersist, Saved, View, TypeOK, Idle, disk
  <1>1. ASSUME NEW s \in Sessions, Initialize(s)
        PROVE  Abstract!Open(s) \/ UNCHANGED <<Saved, View>>
    <2> DEFINE found == IF dbFile = NoFile THEN Empty ELSE content[dbFile]
    <2>0. Saved' = Saved
      BY <1>1 DEF Initialize, Saved, disk
    <2>1. CASE found = Empty /\ BeginPersist(s, "initialize", NoRecords)
      \* A file of zero bytes is never under the database path.
      <3>1. CASE dbFile = NoFile
        BY <3>1, <2>0, <2>1, <1>1, <1>o, PropertyAssumption DEF Initialize, Saved
      <3>2. CASE dbFile # NoFile
        BY <3>2, <2>1 DEF StoreInv, NeverTruncated
      <3>3. QED
        BY <3>1, <3>2
    <2>2. CASE found \in Tables /\ BeginPersist(s, "initialize", found)
      <3>1. dbFile # NoFile /\ Saved = found
        BY <2>2, StoreAssumption DEF Saved
      <3>2. Saved # Absent /\ Saved # Damaged
        BY <3>1, <2>2, PropertyAssumption
      <3>3. QED
        BY <3>1, <3>2, <2>0, <2>2, <1>1, <1>o DEF Initialize
    <2>3. CASE phase' = [phase EXCEPT ![s] = "closed"]
               /\ UNCHANGED <<caller, mem, stamp, fd>>
      BY <2>0, <2>3, <1>1 DEF Initialize, View, TypeOK
    <2>4. QED
      BY <1>1, <2>1, <2>2, <2>3 DEF Initialize
  <1>2. ASSUME NEW s \in Sessions, Update(s)
        PROVE  \/ \E k \in Keys, v \in Values \cup {NoRecord} : Abstract!Put(s, k, v)
               \/ \E kinds \in SUBSET Kinds : Abstract!DropKinds(s, kinds)
    <2>1. ASSUME NEW k \in Keys, NEW v \in Values, Set(s, k, v)
          PROVE  Abstract!Put(s, k, v)
      BY <2>1, <1>u, <1>m DEF Set, Abstract!Put, View
    <2>2. ASSUME NEW k \in Keys, Delete(s, k)
          PROVE  Abstract!Put(s, k, NoRecord)
      BY <2>2, <1>u, <1>m DEF Delete, Abstract!Put, View
    <2>3. ASSUME NEW kinds \in {Kinds} \cup {{kind} : kind \in Kinds}, Clear(s, kinds)
          PROVE  kinds \in SUBSET Kinds /\ Abstract!DropKinds(s, kinds)
      BY <2>3, <1>u, <1>m DEF Clear, Abstract!DropKinds, View
    <2>4. QED
      BY <1>2, <2>1, <2>2, <2>3 DEF Update
  <1>3. ASSUME NEW s \in Sessions, Close(s)
        PROVE  Abstract!Leave({s})
    BY <1>3 DEF Close, Abstract!Leave, Saved, View, TypeOK, disk
  <1>4. ASSUME NEW s \in Sessions, Repair(s)
        PROVE  Abstract!Discard(s)
    BY <1>4 DEF Repair, Abstract!Discard, Saved, View, TypeOK
  <1>5. ASSUME NEW s \in Sessions, OpenTemp(s) \/ WriteChunk(s) \/ WriteTemp(s)
        PROVE  UNCHANGED <<Saved, View>>
    <2>1. UNCHANGED View
      BY <1>5 DEF OpenTemp, WriteChunk, WriteTemp, View, TypeOK
    <2>2. Saved' = Saved
      BY <1>5, SavedStep DEF OpenTemp, WriteChunk, WriteTemp, TypeOK, RenameTemp, Repair, Idle
    <2>3. QED
      BY <2>1, <2>2
  <1>6. ASSUME NEW s \in Sessions, RenameTemp(s)
        PROVE  Abstract!Publish(s)
    <2>1. phase[s] = "rename"
      BY <1>6 DEF RenameTemp
    <2>2. View' = View /\ View[s] = mem[s]
      BY <2>1, <1>6, RenameStep DEF View, TypeOK
    <2>3. QED
      BY <2>2, <1>6, <1>m, RenameStep DEF Abstract!Publish
  <1>7. ASSUME NEW s \in Sessions, ChmodDatabase(s)
        PROVE  Abstract!Leave({s}) \/ UNCHANGED <<Saved, View>>
    <2>1. Saved' = Saved
      BY <1>7 DEF ChmodDatabase, Saved, disk
    <2>2. CASE phase' = [phase EXCEPT ![s] = "ready"] /\ UNCHANGED mem
      BY <2>1, <2>2, <1>7 DEF ChmodDatabase, View, TypeOK
    <2>3. CASE Reject(s)
      BY <2>1, <2>3, <1>7, <1>r DEF ChmodDatabase, Persisting
    <2>4. QED
      BY <1>7, <2>2, <2>3 DEF ChmodDatabase
  <1>8. ASSUME NEW s \in Sessions, IOError(s)
        PROVE  Abstract!Leave({s}) \/ UNCHANGED <<Saved, View>>
    <2>1. Saved' = Saved
      BY <1>8 DEF IOError, Saved, disk
    <2>2. CASE phase[s] = "reload" /\ phase' = [phase EXCEPT ![s] = "closed"]
               /\ UNCHANGED mem
      BY <2>1, <2>2 DEF View, TypeOK
    <2>3. CASE phase[s] \in Persisting /\ Reject(s)
      BY <2>1, <2>3, <1>r
    <2>4. QED
      BY <1>8, <2>2, <2>3 DEF IOError
  <1>9. ASSUME NEW p \in Processes, Crash(p)
        PROVE  Abstract!Leave({s \in Sessions : ProcessOf[s] = p})
    BY <1>9 DEF Crash, Abstract!Leave, Saved, View, TypeOK, disk
  <1>10. CASE UNCHANGED vars
    BY <1>10 DEF vars, Saved, View
  <1>11. QED
    BY <1>1, <1>2, <1>3, <1>4, <1>5, <1>6, <1>7, <1>8, <1>9, <1>10
    DEF Next, PersistStep, Abstract!Next

(* As long as the names stay apart the store implements the abstract cache. *)
THEOREM StoreRefinesCache == ApartSpec => ImplementsSnapshotCache
  <1>1. TypeOK /\ NamesApart /\ StoreInv /\ [Next /\ NamesApart']_vars
          => [Abstract!Next]_Abstract!vars
    BY RefinementStep
  <1>2. QED
    BY <1>1, RefinementInit, ApartAlways, ApartInv, PTL
    DEF ApartSpec, ImplementsSnapshotCache, Abstract!Spec

-----------------------------------------------------------------------------
(* One session at a time: the invariant, and what was acknowledged is on   *)
(* disk.                                                                   *)
LEMMA SerialInv == SerialSpec => [](TypeOK /\ StoreInv /\ OneSessionOpen)
  <1>1. Init => OneSessionOpen
    BY DEF Init, OneSessionOpen
  <1>2. OneSessionOpen /\ [Next /\ OneSessionOpen']_vars => OneSessionOpen'
    BY DEF OneSessionOpen, vars
  <1>3. TypeOK /\ StoreInv /\ OneSessionOpen /\ [Next /\ OneSessionOpen']_vars
          => StoreInv'
    BY ApartSerially, InvStep
  <1>4. TypeOK /\ [Next /\ OneSessionOpen']_vars => TypeOK'
    BY TypeStep
  <1>5. QED
    BY <1>1, <1>2, <1>3, <1>4, TypeInit, InvInit, PTL DEF SerialSpec

(* When sessions do not overlap, a session whose last persist succeeded    *)
(* finds its memory on disk, in every state that failures and crashes can  *)
(* lead to.                                                                *)
THEOREM AcknowledgedDurable == SerialSpec => []AcknowledgedIsSaved
  <1>1. Init => AcknowledgedIsSaved
    BY DEF Init, AcknowledgedIsSaved
  <1>2. TypeOK /\ StoreInv /\ OneSessionOpen /\ AcknowledgedIsSaved
          /\ [Next /\ OneSessionOpen']_vars => AcknowledgedIsSaved'
    <2> SUFFICES ASSUME TypeOK, StoreInv, OneSessionOpen, AcknowledgedIsSaved,
                        [Next]_vars, [OneSessionOpen']_vars,
                        NEW s \in Sessions, phase'[s] \in {"chmod", "ready"}
                 PROVE  Saved' = mem'[s]
      BY DEF AcknowledgedIsSaved
    <2>0. NamesApart
      BY ApartSerially
    <2>1. ASSUME NEW r \in Sessions, RenameTemp(r)
          PROVE  Saved' = mem'[s]
      <3>1. r = s
        BY <2>1, RenameStep DEF OneSessionOpen, RenameTemp, TypeOK
      <3>2. QED
        BY <3>1, <2>1, RenameStep
    <2>2. ASSUME NEW r \in Sessions, Repair(r)
          PROVE  FALSE
      BY <2>2 DEF OneSessionOpen, Repair, TypeOK, Idle, vars
    <2>3. CASE /\ \A r \in Sessions : ~RenameTemp(r) /\ ~Repair(r)
               /\ Saved' = Saved
      <3>1. phase[s] \in {"chmod", "ready"} /\ mem'[s] = mem[s]
        <4>1. ASSUME NEW r \in Sessions, NEW method, NEW table,
                     BeginPersist(r, method, table)
              PROVE  r # s /\ phase'[s] = phase[s] /\ mem'[s] = mem[s]
          BY <4>1 DEF BeginPersist, TypeOK
        <4>2. ASSUME NEW r \in Sessions, Reject(r)
              PROVE  r # s /\ phase'[s] = phase[s] /\ mem'[s] = mem[s]
          BY <4>2 DEF Reject, TypeOK
        <4>3. ASSUME NEW r \in Sessions, Initialize(r) \/ Update(r) \/ Close(r)
              PROVE  phase'[s] = phase[s] /\ mem'[s] = mem[s]
          BY <4>1, <4>3 DEF Initialize, Update, Set, Delete, Clear, Close, TypeOK
        <4>4. ASSUME NEW r \in Sessions, OpenTemp(r) \/ WriteChunk(r) \/ WriteTemp(r)
              PROVE  phase'[s] = phase[s] /\ mem'[s] = mem[s]
          BY <4>4 DEF OpenTemp, WriteChunk, WriteTemp, TypeOK
        <4>5. ASSUME NEW r \in Sessions, ChmodDatabase(r) \/ IOError(r)
              PROVE  phase[s] \in {"chmod", "ready"} /\ mem'[s] = mem[s]
          BY <4>2, <4>5 DEF ChmodDatabase, IOError, TypeOK
        <4>6. ASSUME NEW p \in Processes, Crash(p)
              PROVE  phase'[s] = phase[s] /\ mem'[s] = mem[s]
          BY <4>6 DEF Crash
        <4>7. QED
          BY <2>3, <4>3, <4>4, <4>5, <4>6 DEF Next, PersistStep, vars
      <3>2. QED
        BY <2>3, <3>1 DEF AcknowledgedIsSaved
    <2>4. QED
      BY <2>0, <2>1, <2>2, <2>3, SavedStep
  <1>3. QED
    BY <1>1, <1>2, SerialInv, PTL DEF SerialSpec
=============================================================================
