----------------------------- MODULE MCWorkspace -----------------------------
(***************************************************************************)
(* Small instances of Workspace for TLC.                                   *)
(***************************************************************************)
EXTENDS Workspace, TLC

CONSTANTS s1, s2, s3

Strings == {"", "dir", "opus", "haiku", "plan", "edit", "tools"}

Fast == [default_model |-> "haiku", default_permission_mode |-> "plan", max_attached |-> 3]
Usual == [default_model |-> None, default_permission_mode |-> "edit", max_attached |-> 8]
Wide == [default_model |-> None, default_permission_mode |-> "", max_attached |-> 12]
OtherConfigs == {Fast, Wide}

Plain == [mode |-> "headless", cwd |-> "dir", model |-> None, permission_mode |-> None,
          allowed_tools |-> None, resume |-> None]
Careful == [Plain EXCEPT !.permission_mode = "plan", !.allowed_tools = "tools"]
Terminal == [Plain EXCEPT !.mode = "interactive"]
UserSpecs == {Careful, Terminal}

\* A worker in the shared directory with a mode of its own, a shell, and one that is passed over.
Team == [cwd |-> "dir", model |-> "opus", permission_mode |-> "plan",
         sessions |-> {[Plain EXCEPT !.cwd = None, !.permission_mode = "edit"],
                       [Plain EXCEPT !.mode = "shell"],
                       [Plain EXCEPT !.cwd = ""]}]
Teams == {Team}

SessionSymmetry == Permutations(Sessions)
=============================================================================
