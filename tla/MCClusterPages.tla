--------------------------- MODULE MCClusterPages ---------------------------
(* ClusterPages for TLC: clusters, workloads and what is entered. *)
EXTENDS ClusterPagesProps, TLC

CONSTANTS c1, c2, w, l1

MCInitClusters == {Ids}

\* The same name in both clusters.
MCWorkloads == [i \in Ids |-> {w}]

\* Labels, text that spells none, and none.
MCDeliveryInputs ==
  {[method |-> "configMap", labels |-> l, cmName |-> TRUE] : l \in LabelTexts}
=============================================================================
