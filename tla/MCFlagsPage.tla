----------------------------- MODULE MCFlagsPage -----------------------------
(* FlagsPage for TLC: flags, writers and filters. *)
EXTENDS FlagsPageProps, TLC

CONSTANTS a, b, r1, r2, l1

TheFlag(t, v, d, rs, p) ==
  [type |-> t, value |-> v, disabled |-> FALSE, desc |-> "about",
   delivery |-> d, rules |-> rs, phase |-> p]

AllShown == [search |-> Names, type |-> "", phase |-> ""]

Labelled == [labels |-> l1, exprs |-> FALSE]
Expressed == [labels |-> None, exprs |-> TRUE]

\* By variable, to workloads with a label and of an expression, and by ConfigMap.
MCInitLists ==
  {[n \in Names |->
      TheFlag("boolean", "false",
              [NoDelivery EXCEPT !["envVar"] = [Labelled EXCEPT !.exprs = TRUE], !["configMap"] = Labelled],
              <<r1>>, "Active")]}

\* By ConfigMap, to workloads of an expression; no flag.
MCOutsideFlags ==
  {TheFlag("boolean", "true", [NoDelivery EXCEPT !["configMap"] = Expressed], <<r1>>, ""),
   None}

MCDeliveryInputs == {[method |-> "envVar", labels |-> Junk, cmName |-> FALSE]}

MCFilters == {AllShown, [AllShown EXCEPT !.phase = "Pending"]}
=============================================================================
