----------------------------- MODULE MCNodeSdk -----------------------------
(* NodeSdk for TLC: a word, a number, and a text that is no JSON. *)
EXTENDS NodeSdkProps, TLC

CONSTANTS i1, i2

On(v) == [value |-> v, disabled |-> FALSE]

MCInitFlags == {[n \in FlagNames |-> IF n = "a" THEN On("true") ELSE f] : f \in {On("blue"), None}}
MCGiven == {On("7"), On("blue"), [value |-> "7", disabled |-> TRUE], None}

Symmetry == Permutations(Ids)
=============================================================================
