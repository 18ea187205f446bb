--------------------------- MODULE OperatorProps ---------------------------
(***************************************************************************)
(* What the reconciler of Operator guarantees.                             *)
(***************************************************************************)
EXTENDS Operator

\* A step of the worker, as opposed to one of a user or another controller.
Delivery == job # Idle /\ (deps' # deps \/ cm' # cm) /\ spent'.touches = spent.touches

\* The status speaks of one generation and speaks the truth about it: its value
\* and whether it says Disabled are those of the spec of observedGeneration,
\* although the flag is edited while a Reconcile works on an older copy.
StatusIsOfOneGeneration ==
  \A f \in Flags :
    flags[f] # None /\ flags[f].status # NoStatus =>
      LET st == flags[f].status IN
      /\ st.gen <= flags[f].gen
      /\ st.value = specAt[f][st.gen].value
      /\ (st.phase = "Disabled") <=> specAt[f][st.gen].disabled

\* updateStatus never reports on a generation that is not the stored one any
\* more: no slow Reconcile overwrites the status of a newer spec.
StatusIsWrittenFresh ==
  [][\A f \in Flags :
       flags[f] # None /\ flags'[f] # None /\ flags'[f].status # flags[f].status =>
         flags'[f].status.gen = flags[f].gen]_vars

\* Delivery touches nothing but its own: the worker changes only the variable of
\* the flag it reconciles, only in the workloads the flag selects, and only its
\* key of the ConfigMap.  In particular a whole-object Update from a stale cache
\* never puts back another flag's old value or what a pipeline has written.
DeliveryIsolated ==
  [][Delivery =>
       /\ \A d \in Workloads, n \in EnvNames :
            deps'[d].env[n] # deps[d].env[n] =>
              n = EnvName[job.flag] /\ d \in job.copy.spec.select
       /\ cm # None =>
            \A k \in Keys : cm'.data[k] # cm.data[k] => k = Key[job.flag]]_vars

\* Whatever is delivered was once asked for: every injected value, and every
\* value in the ConfigMap, is that of a generation that was not disabled and
\* selected this very target.
DeliveredWasAskedFor ==
  /\ \A d \in Workloads, n \in EnvNames :
       deps[d].env[n] # None =>
         \E f \in Flags, g \in 1..MaxGen :
           LET s == specAt[f][g] IN
           EnvName[f] = n /\ s.value = deps[d].env[n] /\ d \in s.select /\ ~s.disabled
  /\ cm # None =>
       \A k \in Keys :
         cm.data[k] # None =>
           \E f \in Flags, g \in 1..MaxGen :
             LET s == specAt[f][g] IN
             Key[f] = k /\ s.value = cm.data[k] /\ s.cm /\ ~s.disabled

\* No name in the queue or in the worker's hands is forgotten: a flag whose
\* cached copy differs from the store has an event to come, and any other flag
\* that has an unreported generation is queued or being reconciled.
NothingForgotten ==
  \A f \in Flags :
    flags[f] # None /\ flags[f].status.gen # flags[f].gen =>
      \/ cFlags[f] # flags[f]
      \/ f \in queue
      \/ job # Idle /\ job.flag = f

\* Every spec is reported on in the end: when edits stop, observedGeneration
\* reaches the generation, whatever conflicts and failures were on the way.
StatusCatchesUp ==
  \A f \in Flags : <>[](flags[f] = None \/ flags[f].status.gen = flags[f].gen)

=============================================================================
