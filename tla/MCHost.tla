------------------------------- MODULE MCHost -------------------------------
(* Small instances of the configuration of hosts: Claude Code and Codex,   *)
(* an install and an uninstall, or two installs from different checkouts.  *)
EXTENDS HostConfig, TLC

CONSTANTS c1, c2, u1, hook1, hook2

InstallAndUninstall == c1 :> "install" @@ c2 :> "uninstall"
TwoInstalls == [c \in Commands |-> "install"]
Checkouts == c1 :> hook1 @@ c2 :> hook2

Config(managed, own, shared) ==
  [managed |-> managed, own |-> own, shared |-> shared, layout |-> "user"]

(* No file, an empty one, one with a hook of the user's, and ones that     *)
(* cannot be parsed or that the user has edited after an install.          *)
UsualTexts == {Absent, Blank, Config(None, {u1}, {})}
EditedTexts == {Absent, Invalid, Config(None, {}, {}), Config(hook2, {u1}, {})}
SharedTexts == {Config(hook1, {}, {u1})}
=============================================================================
