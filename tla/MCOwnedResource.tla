--------------------------- MODULE MCOwnedResource ---------------------------
(* An instance of OwnedResource for TLC: a user with a project, and a         *)
(* Telegram workspace that is a directory of workspaces_root itself.          *)
EXTENDS OwnedResource

MCTopDir == [p \in Projects |-> IF p \in Flat THEN "telegram" ELSE "user"]
=============================================================================
