------------------------------ MODULE MCFlagApi ------------------------------
(* FlagApi for TLC: one call of each kind on the flag f1, and a toggle of f2 *)
(* where there is one.                                                       *)
EXTENDS FlagApiProps, TLC

CONSTANTS f1, f2, r1, r2, r3

TheSpec(t, v, d, u) == [type |-> t, defaultValue |-> v, disabled |-> d, rules |-> u]

MCValues == {"true", "false", "blue"}
MCTypes == {"boolean", "string"}
MCRules == {"none", "beta"}

TheCall(k, f, sent, s) == [kind |-> k, flag |-> f, sent |-> sent, body |-> s]

Plain == TheSpec("boolean", "false", FALSE, "none")

AllCalls ==
  { TheCall("toggle", f1, {}, Plain),
    TheCall("toggle", f2, {}, Plain),
    TheCall("update", f1, {"disabled"}, TheSpec("boolean", "false", TRUE, "none")),
    TheCall("update", f1, {"defaultValue", "rules"}, TheSpec("boolean", "blue", FALSE, "beta")),
    TheCall("delete", f1, {}, Plain),
    TheCall("create", f1, {}, TheSpec("boolean", "true", TRUE, "beta")) }

MCCalls == {c \in AllCalls : c.flag \in Flags}

MCInitSpecs == {Plain}
MCEditSpecs == {TheSpec("string", "true", FALSE, "none"), Plain}

Symmetry == Permutations(Requests)
=============================================================================
