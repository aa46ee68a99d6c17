----------------------------- MODULE MCIndexing -----------------------------
(* A small workspace: two files in one directory and a link in another.    *)
EXTENDS Indexing

CONSTANTS a, b, link, old, new, binary

MCDirectories == <<<<a, link>>, <<b>>>>
OneFile == <<<<a>>>>

(* A small content, and two of one size.                                   *)
MCSizeOf == [c \in Contents |-> IF c = old THEN 1 ELSE 2]

Call(caller, ruled, target, maxFiles, maxFileSizeBytes, maxTotalBytes) ==
  [caller |-> caller, ruled |-> ruled, linkTo |-> [l \in Links |-> target],
   maxFiles |-> maxFiles, maxFileSizeBytes |-> maxFileSizeBytes,
   maxTotalBytes |-> maxTotalBytes]
MCOptions == {Call("hook", {}, a, 3, 2, 6), Call("tool", {b}, a, 3, 2, 3),
              Call("tool", {}, "outside", 2, 1, 1), Call("tool", {}, "directory", 3, 2, 6)}
Unlimited == {Call(caller, {}, a, 3, 2, 6) : caller \in {"hook", "tool"}}
=============================================================================
