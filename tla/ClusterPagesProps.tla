-------------------------- MODULE ClusterPagesProps --------------------------
(* What a user of the clusters page, the workloads page and the wizard may rely on. *)
EXTENDS ClusterPages

\* However often the user goes back and edits, and whatever the list of clusters
\* does meanwhile, the wizard sends no flag without name or delivery (a ConfigMap without
\* its name is none) and no boolean that is neither true nor false; a selector that is
\* empty, and matches every workload, only for a text that was entered and spells no
\* labels; and one wizard asks for one flag, unless it has shown an error in between
\* (CreateFlagModal.tsx:61-86, 105-112, 190-194, 440-457: Create itself checks nothing).
OneWholeFlagIsSent ==
  /\ \A c \in requests :
       c.kind = "create" =>
         /\ c.body.name # Blank
         /\ c.body.delivery # None
         /\ c.body.delivery.selector = None => c.flag.delivery.labels = Junk
         /\ c.body.type = "boolean" => c.body.value \in {"true", "false"}
  /\ \A c, d \in requests \cup answers :
       c.kind = "create" /\ c.visit = visit /\ d.kind = "create" /\ d.visit = visit =>
         wizard.step # 4 /\ c = d

\* "Flag created successfully": the last step is shown only when this very wizard has
\* created a flag; and the cluster, name, type, value and delivery it shows are those of
\* that flag, unless the form was edited while the create was on its way
\* (CreateFlagModal.tsx:99-102, 370-372: the step shows the form as it is by then).
SuccessIsTrue ==
  page = "wizard" /\ wizard.step = 4 =>
    \E f \in created :
      /\ f.visit = visit
      /\ ~wizard.touched => f.cluster = chosen /\ f.body = Sent(wizard.flag)

\* The workloads on the screen, and the open card, are of the cluster that is
\* selected, however slowly other scans answer (workloads/page.tsx:37, 57).
ShownIsOfSelection ==
  /\ ShownCluster \in {chosen, None}
  /\ expanded.workload # None => expanded.cluster = chosen

\* A cluster chosen, by the user or as the only one, stays chosen until the user
\* chooses again or leaves: no refreshed list takes a wizard to another cluster
\* (CreateFlagModal.tsx:39-44, workloads/page.tsx:23-28).
ChoiceIsKept ==
  [][chosen # None /\ chosen' # chosen =>
       \/ visit' # visit
       \/ UNCHANGED data /\ requests' = requests /\ answers' = answers]_vars
=============================================================================
