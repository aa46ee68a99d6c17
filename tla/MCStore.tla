------------------------------ MODULE MCStore ------------------------------
(* Small instances of the local cache: two sessions, two kinds of records  *)
(* with one key each, and as many files as names and descriptors can hold. *)
EXTENDS StoreProperties, TLC

CONSTANTS s1, s2, p1, p2, k1, k2

MCSessions == {s1, s2}
MCKeys == {k1, k2}
OneKey == {k1}
MCKinds == {"workspace_index", "token_ledger"}
MCKindOf == [k \in Keys |-> IF k = k1 THEN "workspace_index" ELSE "token_ledger"]

(* Two processes with a session each, and one process with both sessions.  *)
TwoProcesses == s1 :> p1 @@ s2 :> p2
OneProcess == s1 :> p1 @@ s2 :> p1

FileSymmetry == Permutations(Inodes)
=============================================================================
