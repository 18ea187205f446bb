------------------------------- MODULE MCAuth -------------------------------
(* Auth for TLC: the admin and one other user, and one or two calls of each  *)
(* kind.                                                                     *)
EXTENDS AuthProps, TLC

CONSTANTS root, ann, old, fresh, q1, q2, q3

TheCall(k, u, p, x) == [kind |-> k, user |-> u, pass |-> p, role |-> x]

MCCalls ==
  { TheCall("login", root, old, None),
    TheCall("login", ann, old, None),
    TheCall("logout", root, None, None),
    TheCall("me", root, None, None),
    TheCall("edit", root, None, None),
    TheCall("create", ann, fresh, "viewer"),
    TheCall("update", ann, fresh, "editor"),
    TheCall("update", root, None, "viewer"),
    TheCall("update", root, fresh, None),
    TheCall("delete", ann, None, None),
    TheCall("delete", root, None, None) }

MCInitAccounts == {[pass |-> old, role |-> "admin"], [pass |-> old, role |-> "viewer"]}

Symmetry == Permutations(Requests)
=============================================================================
