--------------------------- MODULE SnapshotCache ---------------------------
(***************************************************************************)
(* What the local cache promises when no two of its writers can interfere  *)
(* below the level of whole files: a session opens on a copy of the saved  *)
(* table, changes its own copy, and publishes the whole copy atomically.   *)
(* Nothing else ever changes the saved table except a repair, which        *)
(* discards it.  The promise is deliberately weak: two sessions that are   *)
(* open at once can overwrite each other's published tables.               *)
(***************************************************************************)
CONSTANTS Sessions, Keys, Kinds, KindOf, Values, NoRecord,
          Absent,     \* nothing is saved
          Damaged,    \* what is saved cannot be loaded
          NotOpen     \* the session has no copy

Tables == [Keys -> Values \cup {NoRecord}]
NoRecords == [k \in Keys |-> NoRecord]

VARIABLES saved, view
vars == <<saved, view>>

Init ==
  /\ saved \in Tables \cup {Absent, Damaged}
  /\ view = [s \in Sessions |-> NotOpen]

(* A damaged table opens for nobody. *)
Open(s) ==
  /\ view[s] = NotOpen
  /\ saved # Damaged
  /\ view' = [view EXCEPT ![s] = IF saved = Absent THEN NoRecords ELSE saved]
  /\ UNCHANGED saved

Put(s, k, v) ==
  /\ view[s] # NotOpen
  /\ view' = [view EXCEPT ![s][k] = v]
  /\ UNCHANGED saved

DropKinds(s, kinds) ==
  /\ view[s] # NotOpen
  /\ view' = [view EXCEPT ![s] =
       [k \in Keys |-> IF KindOf[k] \in kinds THEN NoRecord ELSE view[s][k]]]
  /\ UNCHANGED saved

Publish(s) ==
  /\ view[s] # NotOpen
  /\ saved' = view[s]
  /\ UNCHANGED view

(* Sessions end together when their process dies. *)
Leave(gone) ==
  /\ view' = [s \in Sessions |-> IF s \in gone THEN NotOpen ELSE view[s]]
  /\ UNCHANGED saved

Discard(s) ==
  /\ saved' = Absent
  /\ view' = [view EXCEPT ![s] = NotOpen]

Next ==
  \/ \E s \in Sessions :
       \/ Open(s) \/ Publish(s) \/ Discard(s)
       \/ \E k \in Keys, v \in Values \cup {NoRecord} : Put(s, k, v)
       \/ \E kinds \in SUBSET Kinds : DropKinds(s, kinds)
  \/ \E gone \in SUBSET Sessions : Leave(gone)

Spec == Init /\ [][Next]_vars
=============================================================================
