---------------------------- MODULE MCUsersPanel ----------------------------
(* UsersPanel for TLC: an admin or an editor, and another user. *)
EXTENDS UsersPanelProps, TLC

CONSTANTS ann, bob

MCInitAccounts == {[u \in Users |-> IF u = Me THEN r ELSE "viewer"] : r \in {"admin", "editor"}}
=============================================================================
