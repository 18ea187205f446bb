----------------------------- MODULE MCOperator -----------------------------
(* Operator for TLC: the specs that make a difference, by the workloads they *)
(* select.                                                                   *)
EXTENDS OperatorProps, TLC

CONSTANTS fa, fb, d1, d2

\* Two flags share the ConfigMap and the workloads, not the names.
MCEnvName == [f \in Flags |-> <<"FLAG", f>>]
MCKey == [f \in Flags |-> <<"key", f>>]

TheSpec(v, off, sel, c) == [value |-> v, disabled |-> off, select |-> sel, cm |-> c]

\* By variable in every workload.
EnvOn == TheSpec("on", FALSE, Workloads, FALSE)

\* Both ways, and the kill switch on a value that no other spec has.  One value is
\* empty, which is what an absent key of a ConfigMap reads as.
BothOn == TheSpec("on", FALSE, {d1}, TRUE)
BothEmpty == TheSpec("", FALSE, {d1}, TRUE)
BothKilled == TheSpec("dark", TRUE, {d1}, TRUE)

BothSpecs == {BothOn, BothEmpty}
MixedSpecs == {EnvOn, BothEmpty, BothKilled}

Symmetry == Permutations(Flags)
=============================================================================
