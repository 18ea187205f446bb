------------------------------ MODULE Operator ------------------------------
(***************************************************************************)
(* The reconciler of the operator (internal/operator/controllers/          *)
(* featureflag_controller.go) and the controller-runtime machinery it runs *)
(* on: one worker, a work queue of flag names that holds each name once,   *)
(* and a client that reads from informer caches (Get, List) and writes to  *)
(* the Kubernetes API server (Update, Create, Status().Update).  Each kind *)
(* of object has an informer of its own, so the caches lag independently.  *)
(* Only FeatureFlag events enqueue: For(&FeatureFlag{}) without predicates,*)
(* Owns or Watches, so the operator's own status writes come back as       *)
(* events, and changes of Deployments and ConfigMaps do not.               *)
(*                                                                         *)
(* The values of a flag are its spec's defaultValue; rules and rollout are *)
(* never read by the reconciler.  A delivery selects workloads: the labels *)
(* of workloads do not change, so a selector is the set it matches.  All   *)
(* containers of a workload are treated alike and are one here.  An        *)
(* informer may skip versions, as it does after a relist.                  *)
(***************************************************************************)
EXTENDS Naturals, Functions

CONSTANTS
  Flags,          \* FeatureFlag names of one namespace
  Workloads,      \* Deployments, StatefulSets and DaemonSets of the namespace
  Deployments,    \* those of them that are Deployments
  EnvName,        \* flag -> the variable it is injected as
  Key,            \* flag -> its key in the one ConfigMap of the namespace
  Specs,          \* the specs flags are given
  InitSpecs,      \* the specs flags have when the operator starts
  None,           \* no object, no variable, no key, nobody
  MaxGen,         \* bound: spec edits of a flag, as its last generation
  MaxTouches,     \* bound: changes of Deployments by others
  MaxFaults,      \* bound: calls to the API server that fail for no reason here
  MaxRestarts,    \* bound: operator restarts
  MaxResyncs,     \* bound: periodic replays of the cache
  MaxTime         \* bound: seconds

EnvNames == {EnvName[f] : f \in Flags}
Keys == {Key[f] : f \in Flags}
Values == {s.value : s \in Specs}

ASSUME OperatorConstants ==
  /\ Deployments \subseteq Workloads
  /\ EnvName \in [Flags -> EnvNames]
  /\ Key \in [Flags -> Keys]
  /\ Specs \subseteq [value : Values, disabled : BOOLEAN, select : SUBSET Workloads,
                      cm : BOOLEAN]
  /\ InitSpecs \subseteq Specs
  /\ MaxGen \in Nat \ {0}
  /\ {MaxTouches, MaxFaults, MaxRestarts, MaxResyncs, MaxTime} \subseteq Nat

VARIABLES
  flags, deps, cm,     \* the API server's FeatureFlags, workloads and ConfigMap
  cFlags, cDeps, cCm,  \* the operator's informer caches of them
  queue,               \* flag names waiting for the worker
  job,                 \* the reconcile in progress
  now,                 \* the wall clock in seconds, metav1.Time's precision
  specAt,              \* flag -> generation -> the spec it stands for (history)
  spent                \* how much of each bound is used up

server == <<flags, deps, cm>>
caches == <<cFlags, cDeps, cCm>>
vars == <<flags, deps, cm, cFlags, cDeps, cCm, queue, job, now, specAt, spent>>

\* A status the operator has not written yet; times start at 1.
NoStatus == [phase |-> "", value |-> None, targeted |-> 0, updated |-> 0, gen |-> 0]

Phases == {"Active", "Disabled", "Failed"}

Statuses == [phase : Phases, value : Values, targeted : Nat, updated : 1..MaxTime + 1,
             gen : 1..MaxGen] \cup {NoStatus}

FlagObjects == [rv : Nat, gen : 1..MaxGen, spec : Specs, status : Statuses]

\* hash is the flag the annotation vexil.io/flags-hash names, with its value.
Notes == [flag : Flags, value : Values]
DepObjects == [rv : Nat, env : [EnvNames -> Values \cup {None}], hash : Notes \cup {None}]

ConfigMaps == [rv : Nat, data : [Keys -> Values \cup {None}]]

ASSUME NoneIsNoObject == None \notin Flags \cup FlagObjects \cup ConfigMaps

Idle == [at |-> "idle"]

NoItems == [d \in {} |-> None]

\* items: of the workloads List returned, the copies still to be delivered to.
Jobs == [at : {"list", "env", "cm", "status"}, flag : Flags, copy : FlagObjects,
         items : UNION {[S -> DepObjects] : S \in SUBSET Workloads},
         phase : Phases, targeted : Nat]

TypeOK ==
  /\ {flags, cFlags} \subseteq [Flags -> FlagObjects \cup {None}]
  /\ {deps, cDeps} \subseteq [Workloads -> DepObjects]
  /\ {cm, cCm} \subseteq ConfigMaps \cup {None}
  /\ queue \subseteq Flags
  /\ job \in Jobs \cup {Idle}
  /\ now \in 1..MaxTime + 1
  /\ specAt \in [Flags -> [1..MaxGen -> Specs]]
  /\ spent \in [touches : 0..MaxTouches, faults : 0..MaxFaults, restarts : 0..MaxRestarts,
                resyncs : 0..MaxResyncs]

-----------------------------------------------------------------------------
(* The API server *)

\* An update with copy's resourceVersion is accepted.
Current(obj, copy) == obj # None /\ obj.rv = copy.rv

Bump(obj) == [obj EXCEPT !.rv = @ + 1]

-----------------------------------------------------------------------------
(* The reconcile loop *)

Running(step) == job.at = step

\* Defect: disabled flags are delivered like the others.
Start_Undisabled(f) ==
  /\ Running("idle")
  /\ f \in queue
  /\ queue' = queue \ {f}
  /\ job' = IF cFlags[f] = None THEN Idle
            ELSE [at |-> "list", flag |-> f, copy |-> cFlags[f], items |-> NoItems,
                  phase |-> "Active", targeted |-> 0]
  /\ UNCHANGED <<server, caches, now, specAt, spent>>

\* The queue hands the worker a name, and Reconcile gets the cached flag.  One
\* that is gone is left at that; what was delivered for it stays.
Start(f) ==
  LET copy == cFlags[f] IN
  /\ Running("idle")
  /\ f \in queue
  /\ queue' = queue \ {f}
  /\ job' = IF copy = None THEN Idle
            ELSE [at |-> IF copy.spec.disabled THEN "status" ELSE "list",
                  flag |-> f, copy |-> copy, items |-> NoItems,
                  phase |-> IF copy.spec.disabled THEN "Disabled" ELSE "Active",
                  targeted |-> 0]
  /\ UNCHANGED <<server, caches, now, specAt, spent>>

\* deliverViaEnvVar lists the matching Deployments, and nothing else.
List ==
  /\ Running("list")
  /\ job' = [job EXCEPT !.at = "env",
                        !.items = Restrict(cDeps, job.copy.spec.select \cap Deployments)]
  /\ UNCHANGED <<server, caches, queue, now, specAt, spent>>

\* An error of a delivery is logged and becomes the status; it is not returned.
Failed == job' = [job EXCEPT !.at = "status", !.phase = "Failed", !.targeted = 0,
                               !.items = NoItems]

Fault == /\ spent.faults < MaxFaults
         /\ spent' = [spent EXCEPT !.faults = @ + 1]

Injected(old, f, v) ==
  [Bump(old) EXCEPT !.env[EnvName[f]] = v, !.hash = [flag |-> f, value |-> v]]

\* Defect: a conflict is overcome by giving the old copy the new version.
DeliverEnv_Forces(d) ==
  LET old == job.items[d] IN
  /\ Running("env") /\ d \in DOMAIN job.items
  /\ deps' = IF old.env[EnvName[job.flag]] = job.copy.spec.value THEN deps
             ELSE [deps EXCEPT ![d] = [Injected(old, job.flag, job.copy.spec.value)
                                         EXCEPT !.rv = deps[d].rv + 1]]
  /\ job' = [job EXCEPT !.items = Restrict(@, DOMAIN @ \ {d}), !.targeted = @ + 1]
  /\ UNCHANGED <<flags, cm, caches, queue, now, specAt, spent>>

\* One Deployment of the list: its variable is right in the listed copy, or the
\* copy is changed and written back.
DeliverEnv(d) ==
  LET old == job.items[d]
      v == job.copy.spec.value
      next == [job EXCEPT !.items = Restrict(@, DOMAIN @ \ {d}), !.targeted = @ + 1]
  IN
  /\ Running("env") /\ d \in DOMAIN job.items
  /\ \/ /\ old.env[EnvName[job.flag]] = v
        /\ job' = next
        /\ UNCHANGED <<deps, spent>>
     \/ /\ old.env[EnvName[job.flag]] # v
        /\ Current(deps[d], old)
        /\ deps' = [deps EXCEPT ![d] = Injected(old, job.flag, v)]
        /\ job' = next
        /\ UNCHANGED spent
     \/ /\ old.env[EnvName[job.flag]] # v
        /\ Failed
        /\ \/ ~Current(deps[d], old) /\ UNCHANGED spent
           \/ Fault
        /\ UNCHANGED deps
  /\ UNCHANGED <<flags, cm, caches, queue, now, specAt>>

EnvDone ==
  /\ Running("env") /\ DOMAIN job.items = {}
  /\ job' = [job EXCEPT !.at = IF job.copy.spec.cm THEN "cm" ELSE "status"]
  /\ UNCHANGED <<server, caches, queue, now, specAt, spent>>

\* What Go reads from the ConfigMap's map: an absent key reads as "".
Lookup(c, k) == IF c.data[k] = None THEN "" ELSE c.data[k]

\* deliverViaConfigMap creates the ConfigMap if the cache has none, else sets
\* its own key in the cached copy if that reads differently.
DeliverCm ==
  LET k == Key[job.flag]
      v == job.copy.spec.value
      right == cCm # None /\ Lookup(cCm, k) = v
      accepted == IF cCm = None THEN cm = None ELSE Current(cm, cCm)
      done == job' = [job EXCEPT !.at = "status"]
  IN
  /\ Running("cm")
  /\ \/ right /\ done /\ UNCHANGED <<cm, spent>>
     \/ /\ ~right /\ accepted
        /\ cm' = IF cCm = None
                 THEN [rv |-> 1, data |-> [j \in Keys |-> IF j = k THEN v ELSE None]]
                 ELSE [Bump(cCm) EXCEPT !.data[k] = v]
        /\ done /\ UNCHANGED spent
     \/ /\ ~right
        /\ Failed
        /\ \/ ~accepted /\ UNCHANGED spent
           \/ Fault
        /\ UNCHANGED cm
  /\ UNCHANGED <<flags, deps, caches, queue, now, specAt>>

NewStatus ==
  [phase |-> job.phase, value |-> job.copy.spec.value, targeted |-> job.targeted,
   updated |-> now, gen |-> job.copy.gen]

\* Defect: the error of the status write is logged, not returned.
WriteStatus_Swallows ==
  LET f == job.flag IN
  /\ Running("status")
  /\ job' = Idle
  /\ \/ /\ Current(flags[f], job.copy)
        /\ flags' = IF flags[f].status = NewStatus THEN flags
                    ELSE [flags EXCEPT ![f] = [Bump(@) EXCEPT !.status = NewStatus]]
        /\ UNCHANGED spent
     \/ /\ \/ ~Current(flags[f], job.copy) /\ UNCHANGED spent
           \/ Fault
        /\ UNCHANGED flags
  /\ UNCHANGED <<deps, cm, caches, queue, now, specAt>>

\* Defect: on a conflict the flag is read again and given the old outcome.
WriteStatus_Retries ==
  LET f == job.flag IN
  /\ Running("status")
  /\ job' = Idle
  /\ flags' = IF flags[f] = None THEN flags
              ELSE [flags EXCEPT ![f] = [Bump(@) EXCEPT
                      !.status = [NewStatus EXCEPT !.gen = flags[f].gen]]]
  /\ UNCHANGED <<deps, cm, caches, queue, now, specAt, spent>>

\* Defect: the status is patched, without a version to compare.
WriteStatus_Patches ==
  LET f == job.flag IN
  /\ Running("status")
  /\ job' = Idle
  /\ flags' = IF flags[f] = None THEN flags
              ELSE [flags EXCEPT ![f] = [Bump(@) EXCEPT !.status = NewStatus]]
  /\ UNCHANGED <<deps, cm, caches, queue, now, specAt, spent>>

\* updateStatus.  A write that changes nothing, because the same outcome was
\* written in the same second, makes no new version and so no event.  An error
\* is returned: the name goes back to the queue.
WriteStatus ==
  LET f == job.flag IN
  /\ Running("status")
  /\ job' = Idle
  /\ \/ /\ Current(flags[f], job.copy)
        /\ flags' = IF flags[f].status = NewStatus THEN flags
                    ELSE [flags EXCEPT ![f] = [Bump(@) EXCEPT !.status = NewStatus]]
        /\ UNCHANGED <<queue, spent>>
     \/ /\ \/ ~Current(flags[f], job.copy) /\ UNCHANGED spent
           \/ Fault
        /\ queue' = queue \cup {f}
        /\ UNCHANGED flags
  /\ UNCHANGED <<deps, cm, caches, now, specAt>>

Worker ==
  \/ \E f \in Flags : Start(f)
  \/ List
  \/ \E d \in Workloads : DeliverEnv(d)
  \/ EnvDone
  \/ DeliverCm
  \/ WriteStatus

-----------------------------------------------------------------------------
(* The informers *)

\* A FeatureFlag event reaches the cache and, through the handler, the queue.
SyncFlag(f) ==
  /\ cFlags[f] # flags[f]
  /\ cFlags' = [cFlags EXCEPT ![f] = flags[f]]
  /\ queue' = queue \cup {f}
  /\ UNCHANGED <<server, cDeps, cCm, job, now, specAt, spent>>

SyncDep(d) ==
  /\ cDeps[d] # deps[d]
  /\ cDeps' = [cDeps EXCEPT ![d] = deps[d]]
  /\ UNCHANGED <<server, cFlags, cCm, queue, job, now, specAt, spent>>

SyncCm ==
  /\ cCm # cm
  /\ cCm' = cm
  /\ UNCHANGED <<server, cFlags, cDeps, queue, job, now, specAt, spent>>

\* Every ten hours, controller-runtime's default, the cache replays its flags.
Resync ==
  /\ spent.resyncs < MaxResyncs
  /\ spent' = [spent EXCEPT !.resyncs = @ + 1]
  /\ queue' = queue \cup {f \in Flags : cFlags[f] # None}
  /\ UNCHANGED <<server, caches, job, now, specAt>>

-----------------------------------------------------------------------------
(* The environment *)

\* Someone writes another spec: a new version and a new generation.
EditFlag(f) ==
  /\ flags[f] # None /\ flags[f].gen < MaxGen
  /\ \E s \in Specs \ {flags[f].spec} :
       /\ flags' = [flags EXCEPT ![f] = [Bump(flags[f]) EXCEPT !.gen = @ + 1, !.spec = s]]
       /\ specAt' = [specAt EXCEPT ![f][flags[f].gen + 1] = s]
  /\ UNCHANGED <<deps, cm, caches, queue, job, now, spent>>

\* The flag is deleted.  Its name is not used again.
DeleteFlag(f) ==
  /\ flags[f] # None
  /\ flags' = [flags EXCEPT ![f] = None]
  /\ UNCHANGED <<deps, cm, caches, queue, job, now, specAt, spent>>

\* The Deployment controller writes a status, or a deploy pipeline puts back a
\* manifest without injected variables.
Touch(d) ==
  /\ spent.touches < MaxTouches
  /\ spent' = [spent EXCEPT !.touches = @ + 1]
  /\ \/ deps' = [deps EXCEPT ![d] = Bump(@)]
     \/ deps' = [deps EXCEPT ![d] = [Bump(@) EXCEPT !.env = [n \in EnvNames |-> None],
                                                    !.hash = None]]
  /\ UNCHANGED <<flags, cm, caches, queue, job, now, specAt>>

\* The operator dies and starts again: the caches are listed afresh, and each
\* flag listed is an event.
Restart ==
  /\ spent.restarts < MaxRestarts
  /\ spent' = [spent EXCEPT !.restarts = @ + 1]
  /\ cFlags' = flags /\ cDeps' = deps /\ cCm' = cm
  /\ queue' = {f \in Flags : flags[f] # None}
  /\ job' = Idle
  /\ UNCHANGED <<server, now, specAt>>

Tick ==
  /\ now <= MaxTime
  /\ now' = now + 1
  /\ UNCHANGED <<server, caches, queue, job, specAt, spent>>

-----------------------------------------------------------------------------
Init ==
  /\ \E init \in [Flags -> InitSpecs] :
       /\ flags = [f \in Flags |-> [rv |-> 1, gen |-> 1, spec |-> init[f],
                                    status |-> NoStatus]]
       /\ specAt = [f \in Flags |-> [g \in 1..MaxGen |-> init[f]]]
  /\ deps = [d \in Workloads |-> [rv |-> 1, env |-> [n \in EnvNames |-> None],
                                  hash |-> None]]
  /\ cm \in {None, [rv |-> 1, data |-> [k \in Keys |-> None]]}
  /\ cFlags = flags /\ cDeps = deps /\ cCm = cm
  /\ queue = Flags
  /\ job = Idle
  /\ now = 1
  /\ spent = [touches |-> 0, faults |-> 0, restarts |-> 0, resyncs |-> 0]

Next ==
  \/ Worker
  \/ \E f \in Flags : SyncFlag(f) \/ EditFlag(f) \/ DeleteFlag(f)
  \/ \E d \in Workloads : SyncDep(d) \/ Touch(d)
  \/ SyncCm
  \/ Resync
  \/ Restart
  \/ Tick

Spec == Init /\ [][Next]_vars

\* The worker takes the next name and runs each Reconcile to its end, and every
\* watch delivers.  Nobody has to edit, the clock may stand still, and the resync
\* is too rare to count on.
Fairness ==
  /\ WF_vars(Worker)
  /\ \A f \in Flags : WF_vars(SyncFlag(f))
  /\ \A d \in Workloads : WF_vars(SyncDep(d))
  /\ WF_vars(SyncCm)

FairSpec == Spec /\ Fairness
=============================================================================
