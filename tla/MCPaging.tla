------------------------------ MODULE MCPaging ------------------------------
(* ContextPaging for TLC: two builds, of which either may come first.      *)
EXTENDS ContextPaging, TLC

Symmetry == Permutations(Builds)
=============================================================================
