-------------------------- MODULE Operator_proofs --------------------------
(***************************************************************************)
(* Proofs about Operator: for any flags, workloads, specs and bounds.      *)
(***************************************************************************)
EXTENDS OperatorProps, TLAPS

\* Copy c is the object o or an older version of it: a version names one content.
Older(c, o) == c.rv <= o.rv /\ (c.rv = o.rv => c = o)

OlderFlag(c, o) == c # None /\ o # None => Older(c, o)

\* The copies of flags, workloads and the ConfigMap in the caches and in the worker's hands.
FlagCopies ==
  /\ \A f \in Flags : OlderFlag(cFlags[f], flags[f])
  /\ job # Idle => OlderFlag(job.copy, flags[job.flag])

DepCopies ==
  /\ \A d \in Workloads : Older(cDeps[d], deps[d])
  /\ job # Idle => \A d \in DOMAIN job.items : Older(job.items[d], deps[d])

CmCopies ==
  /\ cm = None => cCm = None
  /\ cCm # None => Older(cCm, cm)

\* A copy of flag f has the spec of its generation, which is no later one than the flag's.
OfGeneration(f, c) ==
  /\ c.spec = specAt[f][c.gen]
  /\ flags[f] # None => c.gen <= flags[f].gen

Generations ==
  /\ \A f \in Flags : flags[f] # None => OfGeneration(f, flags[f])
  /\ \A f \in Flags : cFlags[f] # None => OfGeneration(f, cFlags[f])
  /\ job # Idle => OfGeneration(job.flag, job.copy)

\* What a Reconcile has come to is in keeping with its copy of the flag.
JobAgrees ==
  job # Idle =>
    /\ job.phase = "Disabled" <=> job.copy.spec.disabled
    /\ job.at # "status" => ~job.copy.spec.disabled
    /\ DOMAIN job.items \subseteq job.copy.spec.select
    /\ job.at = "cm" => job.copy.spec.cm

\* Spec s is, or was, that of flag f.
WasGiven(f, s) ==
  \E g \in 1..MaxGen : specAt[f][g] = s /\ (flags[f] # None => g <= flags[f].gen)

AskedFor ==
  /\ \A d \in Workloads, n \in EnvNames :
       deps[d].env[n] # None =>
         \E f \in Flags, s \in Specs :
           /\ WasGiven(f, s) /\ ~s.disabled
           /\ EnvName[f] = n /\ s.value = deps[d].env[n] /\ d \in s.select
  /\ cm # None =>
       \A k \in Keys :
         cm.data[k] # None =>
           \E f \in Flags, s \in Specs :
             /\ WasGiven(f, s) /\ ~s.disabled
             /\ Key[f] = k /\ s.value = cm.data[k] /\ s.cm

\* The inductive invariant.
IInv ==
  /\ TypeOK
  /\ FlagCopies /\ DepCopies /\ CmCopies
  /\ Generations /\ JobAgrees /\ AskedFor
  /\ StatusIsOfOneGeneration /\ NothingForgotten

-----------------------------------------------------------------------------
(* Objects and their new versions *)

\* The types by themselves.
LEMMA Types ==
  ASSUME TypeOK
  PROVE  /\ flags \in [Flags -> FlagObjects \cup {None}]
         /\ cFlags \in [Flags -> FlagObjects \cup {None}]
         /\ deps \in [Workloads -> DepObjects] /\ cDeps \in [Workloads -> DepObjects]
         /\ cm \in ConfigMaps \cup {None} /\ cCm \in ConfigMaps \cup {None}
         /\ queue \subseteq Flags /\ job \in Jobs \cup {Idle} /\ now \in 1..MaxTime + 1
         /\ specAt \in [Flags -> [1..MaxGen -> Specs]]
  BY DEF TypeOK

LEMMA NoneIsNoThing == None \notin FlagObjects /\ None \notin ConfigMaps
  BY NoneIsNoObject

LEMMA SpecTyped ==
  ASSUME NEW s \in Specs
  PROVE  s.value \in Values /\ s.disabled \in BOOLEAN /\ s.select \in SUBSET Workloads /\ s.cm \in BOOLEAN
  BY OperatorConstants DEF Values

\* A job that is one.
LEMMA JobTyped ==
  ASSUME TypeOK, job # Idle
  PROVE  /\ job \in Jobs /\ job.at \in {"list", "env", "cm", "status"} /\ job.flag \in Flags
         /\ job.copy \in FlagObjects /\ DOMAIN job.items \subseteq Workloads
         /\ job.items \in [DOMAIN job.items -> DepObjects]
         /\ job.phase \in Phases /\ job.targeted \in Nat
         /\ job.copy.spec \in Specs /\ job.copy.gen \in 1..MaxGen /\ job.copy.rv \in Nat
  <1>1. job \in Jobs
    BY Types
  <1>2. PICK S \in SUBSET Workloads : job.items \in [S -> DepObjects]
    BY <1>1 DEF Jobs
  <1>3. job.copy \in FlagObjects
    BY <1>1 DEF Jobs
  <1> QED
    BY <1>1, <1>2, <1>3 DEF Jobs, FlagObjects

\* Running says that there is a job.
LEMMA RunningJob ==
  ASSUME NEW step \in {"list", "env", "cm", "status"}, Running(step)
  PROVE  job # Idle /\ job.at = step
  BY DEF Running, Idle

\* A flag in its next version.
LEMMA BumpedFlag ==
  ASSUME NEW o \in FlagObjects
  PROVE  /\ Bump(o) \in FlagObjects /\ Bump(o).rv = o.rv + 1 /\ Bump(o).gen = o.gen
         /\ Bump(o).spec = o.spec /\ Bump(o).status = o.status
  <1>1. Bump(o) = [o EXCEPT !.rv = o.rv + 1]
    BY DEF Bump, FlagObjects
  <1>2. o.rv + 1 \in Nat
    BY DEF FlagObjects
  <1> QED
    BY <1>1, <1>2 DEF FlagObjects

\* An edited flag.
LEMMA EditedFlag ==
  ASSUME NEW o \in FlagObjects, NEW s \in Specs, o.gen < MaxGen
  PROVE  LET e == [Bump(o) EXCEPT !.gen = @ + 1, !.spec = s] IN
         /\ e \in FlagObjects /\ e.rv = o.rv + 1 /\ e.gen = o.gen + 1 /\ e.spec = s
         /\ e.status = o.status
  <1>1. PICK b \in FlagObjects : /\ b = Bump(o) /\ b.rv = o.rv + 1 /\ b.gen = o.gen
                                 /\ b.spec = o.spec /\ b.status = o.status
    BY BumpedFlag
  <1>2. o.gen + 1 \in 1..MaxGen
    BY OperatorConstants DEF FlagObjects
  <1>3. [Bump(o) EXCEPT !.gen = @ + 1, !.spec = s] = [b EXCEPT !.gen = o.gen + 1, !.spec = s]
    BY <1>1
  <1> DEFINE e == [b EXCEPT !.gen = o.gen + 1, !.spec = s]
  <1>4. /\ e \in FlagObjects /\ e.rv = b.rv /\ e.gen = o.gen + 1 /\ e.spec = s
        /\ e.status = b.status
    BY <1>2 DEF FlagObjects
  <1> HIDE DEF e
  <1> QED
    BY <1>1, <1>3, <1>4 DEF e

\* A flag with a new status.
LEMMA ReportedFlag ==
  ASSUME NEW o \in FlagObjects, NEW st \in Statuses
  PROVE  LET e == [Bump(o) EXCEPT !.status = st] IN
         /\ e \in FlagObjects /\ e.rv = o.rv + 1 /\ e.gen = o.gen /\ e.spec = o.spec
         /\ e.status = st
  <1>1. PICK b \in FlagObjects : /\ b = Bump(o) /\ b.rv = o.rv + 1 /\ b.gen = o.gen
                                 /\ b.spec = o.spec
    BY BumpedFlag
  <1> DEFINE e == [b EXCEPT !.status = st]
  <1>2. /\ e \in FlagObjects /\ e.rv = b.rv /\ e.gen = b.gen /\ e.spec = b.spec
        /\ e.status = st
    BY DEF FlagObjects
  <1>3. [Bump(o) EXCEPT !.status = st] = e
    BY <1>1
  <1> HIDE DEF e
  <1> QED
    BY <1>1, <1>2, <1>3

\* A workload in its next version.
LEMMA BumpedDep ==
  ASSUME NEW o \in DepObjects
  PROVE  Bump(o) \in DepObjects /\ Bump(o).rv = o.rv + 1 /\ Bump(o).env = o.env
  <1>1. Bump(o) = [o EXCEPT !.rv = o.rv + 1]
    BY DEF Bump, DepObjects
  <1> QED
    BY <1>1 DEF DepObjects

\* A workload with a variable set.
LEMMA InjectedTyped ==
  ASSUME NEW o \in DepObjects, NEW f \in Flags, NEW v \in Values
  PROVE  /\ Injected(o, f, v) \in DepObjects /\ Injected(o, f, v).rv = o.rv + 1
         /\ EnvName[f] \in EnvNames /\ Injected(o, f, v).env[EnvName[f]] = v
         /\ \A n \in EnvNames \ {EnvName[f]} : Injected(o, f, v).env[n] = o.env[n]
  <1>1. EnvName[f] \in EnvNames
    BY DEF EnvNames
  <1>2. Bump(o) = [o EXCEPT !.rv = o.rv + 1] /\ Bump(o) \in DepObjects /\ Bump(o).env = o.env
        /\ Bump(o).rv = o.rv + 1
    BY DEF Bump, DepObjects
  <1>3. [flag |-> f, value |-> v] \in Notes
    BY DEF Notes
  <1>4. o.env \in [EnvNames -> Values \cup {None}]
    BY DEF DepObjects
  <1>5. [o.env EXCEPT ![EnvName[f]] = v] \in [EnvNames -> Values \cup {None}]
    BY <1>4
  <1>6. Injected(o, f, v) = [Bump(o) EXCEPT !.env = [o.env EXCEPT ![EnvName[f]] = v],
                                            !.hash = [flag |-> f, value |-> v]]
    BY <1>2 DEF Injected
  <1>7. Injected(o, f, v).env = [o.env EXCEPT ![EnvName[f]] = v]
    BY <1>2, <1>6 DEF DepObjects
  <1>8. Injected(o, f, v) \in DepObjects /\ Injected(o, f, v).rv = o.rv + 1
    BY <1>2, <1>3, <1>5, <1>6 DEF DepObjects
  <1> QED
    BY <1>1, <1>4, <1>7, <1>8

-----------------------------------------------------------------------------
(* What actions have in common *)

Counts == [touches : 0..MaxTouches, faults : 0..MaxFaults, restarts : 0..MaxRestarts,
           resyncs : 0..MaxResyncs]

LEMMA FaultCounted ==
  ASSUME TypeOK, UNCHANGED spent \/ Fault
  PROVE  spent' \in Counts /\ spent'.touches = spent.touches
  BY OperatorConstants DEF TypeOK, Counts, Fault

\* TypeOK from its parts.
LEMMA Typed ==
  ASSUME flags' \in [Flags -> FlagObjects \cup {None}],
         cFlags' \in [Flags -> FlagObjects \cup {None}],
         deps' \in [Workloads -> DepObjects], cDeps' \in [Workloads -> DepObjects],
         cm' \in ConfigMaps \cup {None}, cCm' \in ConfigMaps \cup {None},
         queue' \subseteq Flags, job' \in Jobs \cup {Idle}, now' \in 1..MaxTime + 1,
         specAt' \in [Flags -> [1..MaxGen -> Specs]], spent' \in Counts
  PROVE  TypeOK'
  BY DEF TypeOK, Counts

\* What was given stays so when nobody touches the flags.
LEMMA GivenStays ==
  ASSUME UNCHANGED <<flags, specAt>>, NEW f, NEW s, WasGiven(f, s)
  PROVE  WasGiven(f, s)'
  BY DEF WasGiven

\* What the job in hand and the flags say stays true when the flags stay, and the job
\* goes on with its flag or ends.
SameFlag == job' # Idle => job # Idle /\ job'.flag = job.flag /\ job'.copy = job.copy

LEMMA FlagsStay ==
  ASSUME IInv, UNCHANGED <<flags, cFlags, specAt>>, SameFlag
  PROVE  FlagCopies' /\ Generations' /\ StatusIsOfOneGeneration'
  <1>1. FlagCopies'
    BY DEF IInv, FlagCopies, OlderFlag, Older, SameFlag
  <1>2. Generations'
    BY DEF IInv, Generations, OfGeneration, SameFlag
  <1>3. StatusIsOfOneGeneration'
    BY DEF IInv, StatusIsOfOneGeneration
  <1> QED
    BY <1>1, <1>2, <1>3

\* Nothing is forgotten when names are only added to the queue, and the job in hand
\* stays.
LEMMA StillKnown ==
  ASSUME IInv, UNCHANGED <<flags, cFlags>>, queue \subseteq queue',
         job # Idle => job' # Idle /\ job'.flag = job.flag
  PROVE  NothingForgotten'
  BY DEF IInv, NothingForgotten

LEMMA DeliveredStays ==
  ASSUME IInv, UNCHANGED <<flags, specAt, deps, cm>>
  PROVE  AskedFor'
  BY GivenStays DEF IInv, AskedFor

-----------------------------------------------------------------------------
(* The worker *)

LEMMA StartKeeps ==
  ASSUME IInv, NEW f \in Flags, Start(f)
  PROVE  IInv'
  <1>1. /\ job = Idle \/ job.at = "idle"
        /\ f \in queue /\ queue' = queue \ {f}
        /\ UNCHANGED <<flags, deps, cm, cFlags, cDeps, cCm, now, specAt, spent>>
    BY DEF Start, server, caches, Running
  <1>2. job = Idle
    BY <1>1, JobTyped DEF IInv
  <1> DEFINE copy == cFlags[f]
             new == [at |-> IF copy.spec.disabled THEN "status" ELSE "list",
                     flag |-> f, copy |-> copy, items |-> NoItems,
                     phase |-> IF copy.spec.disabled THEN "Disabled" ELSE "Active",
                     targeted |-> 0]
  <1>3. job' = IF copy = None THEN Idle ELSE new
    BY DEF Start
  <1>4. NoItems \in [{} -> DepObjects] /\ DOMAIN NoItems = {}
    BY DEF NoItems
  <1>5. CASE copy = None
    <2>1. job' = Idle
      BY <1>3, <1>5
    <2>2. FlagCopies' /\ Generations' /\ StatusIsOfOneGeneration'
      BY <1>1, <2>1, FlagsStay DEF SameFlag
    <2>3. DepCopies' /\ CmCopies' /\ JobAgrees'
      BY <1>1, <2>1 DEF IInv, DepCopies, CmCopies, JobAgrees
    <2>4. AskedFor'
      BY <1>1, DeliveredStays
    <2>5. NothingForgotten'
      BY <1>1, <1>2, <1>5, <2>1 DEF IInv, NothingForgotten
    <2>6. TypeOK'
      BY <1>1, <2>1, Types, Typed DEF IInv, TypeOK, Counts
    <2> QED
      BY <2>2, <2>3, <2>4, <2>5, <2>6 DEF IInv
  <1>6. CASE copy # None
    <2>1. copy \in FlagObjects /\ copy.spec \in Specs /\ copy.spec.disabled \in BOOLEAN
      BY <1>6, Types, SpecTyped DEF IInv, FlagObjects
    <2>2. new \in Jobs /\ new # Idle
      <3>1. NoItems \in UNION {[S -> DepObjects] : S \in SUBSET Workloads}
        BY <1>4
      <3>2. new \in Jobs
        BY <2>1, <3>1 DEF Jobs, Phases
      <3>3. new.at # Idle.at
        BY DEF Idle
      <3> QED
        BY <3>2, <3>3
    <2>3. /\ new.at = (IF copy.spec.disabled THEN "status" ELSE "list")
          /\ new.flag = f /\ new.copy = copy /\ new.items = NoItems
          /\ new.phase = (IF copy.spec.disabled THEN "Disabled" ELSE "Active")
      OBVIOUS
    <2>4. job' = new
      BY <1>3, <1>6
    <2> HIDE DEF new
    <2>5. FlagCopies'
      BY <1>1, <2>3, <2>4 DEF IInv, FlagCopies, OlderFlag, Older
    <2>6. DepCopies'
      BY <1>1, <1>4, <2>3, <2>4 DEF IInv, DepCopies, Older
    <2>7. CmCopies'
      BY <1>1 DEF IInv, CmCopies, Older
    <2>8. Generations' /\ StatusIsOfOneGeneration'
      BY <1>1, <1>6, <2>3, <2>4 DEF IInv, Generations, OfGeneration, StatusIsOfOneGeneration
    <2>9. JobAgrees'
      BY <1>4, <2>1, <2>3, <2>4 DEF JobAgrees
    <2>10. AskedFor'
      BY <1>1, DeliveredStays
    <2>11. NothingForgotten'
      BY <1>1, <1>2, <2>2, <2>3, <2>4 DEF IInv, NothingForgotten
    <2>12. TypeOK'
      BY <1>1, <2>2, <2>4, Types, Typed DEF IInv, TypeOK, Counts
    <2> QED
      BY <2>5, <2>6, <2>7, <2>8, <2>9, <2>10, <2>11, <2>12 DEF IInv
  <1> QED
    BY <1>5, <1>6

\* Copies of listed workloads.
ItemSets == UNION {[T -> DepObjects] : T \in SUBSET Workloads}

\* The job goes on with the same copy of the same flag, at another step or with
\* another outcome.
LEMMA JobMoves ==
  ASSUME TypeOK, job # Idle,
         NEW at \in {"list", "env", "cm", "status"}, NEW items \in ItemSets, NEW ph \in Phases,
         NEW n \in Nat,
         job' = [job EXCEPT !.at = at, !.items = items, !.phase = ph, !.targeted = n]
  PROVE  /\ job' \in Jobs /\ job' # Idle /\ job'.flag = job.flag /\ job'.copy = job.copy
         /\ job'.at = at /\ job'.items = items /\ job'.phase = ph /\ job'.targeted = n
  <1>1. job \in Jobs
    BY JobTyped
  <1>2. items \in UNION {[T -> DepObjects] : T \in SUBSET Workloads}
    BY DEF ItemSets
  <1>3. /\ job' \in Jobs /\ job'.flag = job.flag /\ job'.copy = job.copy
        /\ job'.at = at /\ job'.items = items /\ job'.phase = ph /\ job'.targeted = n
    BY <1>1, <1>2 DEF Jobs
  <1>4. job'.at # Idle.at
    BY <1>3 DEF Idle
  <1> QED
    BY <1>3, <1>4

\* The failing branch of a delivery.
LEMMA FailedMoves ==
  ASSUME TypeOK, job # Idle, Failed
  PROVE  /\ job' \in Jobs /\ job' # Idle /\ job'.flag = job.flag /\ job'.copy = job.copy
         /\ job'.at = "status" /\ DOMAIN job'.items = {} /\ job'.phase = "Failed"
  <1>1. NoItems \in [{} -> DepObjects] /\ DOMAIN NoItems = {}
    BY DEF NoItems
  <1>2. job' = [job EXCEPT !.at = "status", !.items = NoItems, !.phase = "Failed", !.targeted = 0]
    BY JobTyped DEF Failed, Jobs
  <1>3. /\ job' \in Jobs /\ job' # Idle /\ job'.flag = job.flag /\ job'.copy = job.copy
        /\ job'.at = "status" /\ job'.items = NoItems /\ job'.phase = "Failed"
    <2>1. NoItems \in ItemSets
      BY <1>1 DEF ItemSets
    <2> QED
      BY <1>2, <2>1, JobMoves DEF Phases
  <1> QED
    BY <1>1, <1>3

LEMMA ListKeeps ==
  ASSUME IInv, List
  PROVE  IInv'
  <1>1. /\ job # Idle /\ job.at = "list"
        /\ UNCHANGED <<flags, deps, cm, cFlags, cDeps, cCm, queue, now, specAt, spent>>
    BY RunningJob DEF List, server, caches
  <1> DEFINE S == job.copy.spec.select \cap Deployments
             items == Restrict(cDeps, S)
  <1>2. S \in SUBSET Workloads /\ items \in [S -> DepObjects] /\ DOMAIN items = S
        /\ \A d \in S : items[d] = cDeps[d]
    BY <1>1, Types, OperatorConstants DEF IInv, Restrict
  <1>3. /\ job' \in Jobs /\ job' # Idle /\ job'.flag = job.flag /\ job'.copy = job.copy
        /\ job'.at = "env" /\ job'.items = items /\ job'.phase = job.phase
    <2>1. job' = [job EXCEPT !.at = "env", !.items = items]
      BY DEF List
    <2>2. PICK is \in ItemSets : is = items
      BY <1>2 DEF ItemSets
    <2>3. job' = [job EXCEPT !.at = "env", !.items = is]
      BY <2>1, <2>2
    <2>4. /\ job' \in Jobs /\ job'.flag = job.flag /\ job'.copy = job.copy
          /\ job'.at = "env" /\ job'.items = is /\ job'.phase = job.phase
      BY <1>1, <2>3, JobTyped DEF IInv, Jobs, ItemSets
    <2> QED
      BY <2>2, <2>4 DEF Idle
  <1> HIDE DEF items
  <1>4. FlagCopies' /\ Generations' /\ StatusIsOfOneGeneration'
    BY <1>1, <1>3, FlagsStay DEF SameFlag
  <1>5. DepCopies'
    BY <1>1, <1>2, <1>3 DEF IInv, DepCopies, Older
  <1>6. CmCopies'
    BY <1>1 DEF IInv, CmCopies, Older
  <1>7. JobAgrees'
    BY <1>1, <1>2, <1>3 DEF IInv, JobAgrees
  <1>8. AskedFor' /\ NothingForgotten'
    BY <1>1, <1>3, DeliveredStays, StillKnown
  <1>9. TypeOK'
    BY <1>1, <1>3, Types, Typed DEF IInv, TypeOK, Counts
  <1> QED
    BY <1>4, <1>5, <1>6, <1>7, <1>8, <1>9 DEF IInv

\* The spec a Reconcile works from was given to its flag.
LEMMA JobIsGiven ==
  ASSUME IInv, job # Idle
  PROVE  WasGiven(job.flag, job.copy.spec)
  BY JobTyped DEF IInv, Generations, OfGeneration, WasGiven

\* One workload of the list less, one target more.
LEMMA NextMoves ==
  ASSUME TypeOK, job # Idle, NEW d, d \in DOMAIN job.items,
         job' = [job EXCEPT !.items = Restrict(@, DOMAIN @ \ {d}), !.targeted = @ + 1]
  PROVE  /\ job' \in Jobs /\ job' # Idle /\ job'.flag = job.flag /\ job'.copy = job.copy
         /\ job'.at = job.at /\ job'.phase = job.phase
         /\ DOMAIN job'.items = DOMAIN job.items \ {d}
         /\ \A c \in DOMAIN job'.items : job'.items[c] = job.items[c]
  <1> DEFINE S == DOMAIN job.items \ {d}
             rest == Restrict(job.items, S)
  <1>1. DOMAIN rest = S /\ rest \in [S -> DepObjects] /\ S \in SUBSET Workloads
        /\ \A c \in S : rest[c] = job.items[c]
    BY JobTyped DEF Restrict
  <1>2. PICK is \in ItemSets : is = rest
    BY <1>1 DEF ItemSets
  <1>3. job \in Jobs /\ job.targeted + 1 \in Nat
    BY JobTyped
  <1>4. job' = [job EXCEPT !.items = is, !.targeted = job.targeted + 1]
    BY <1>2
  <1>5. /\ job' \in Jobs /\ job'.flag = job.flag /\ job'.copy = job.copy
        /\ job'.at = job.at /\ job'.phase = job.phase /\ job'.items = is
    BY <1>3, <1>4 DEF Jobs, ItemSets
  <1>6. job' # Idle
    BY <1>5, JobTyped DEF Idle
  <1> HIDE DEF rest
  <1> QED
    BY <1>1, <1>2, <1>5, <1>6

LEMMA DeliverEnvKeeps ==
  ASSUME IInv, NEW d \in Workloads, DeliverEnv(d)
  PROVE  IInv'
  <1> DEFINE old == job.items[d]
             v == job.copy.spec.value
             n == EnvName[job.flag]
             next == [job EXCEPT !.items = Restrict(@, DOMAIN @ \ {d}), !.targeted = @ + 1]
  <1>1. /\ job # Idle /\ job.at = "env" /\ d \in DOMAIN job.items
        /\ UNCHANGED <<flags, cm, cFlags, cDeps, cCm, queue, now, specAt>>
    BY RunningJob DEF DeliverEnv, caches
  <1>2. UNCHANGED spent \/ Fault
    BY DEF DeliverEnv
  <1>3. (Failed /\ deps' = deps) \/ job' = next
    BY DEF DeliverEnv
  <1>4. /\ job' \in Jobs /\ job' # Idle /\ job'.flag = job.flag /\ job'.copy = job.copy
        /\ job'.phase \in {job.phase, "Failed"}
        /\ job'.at \in {"env", "status"}
        /\ DOMAIN job'.items \subseteq DOMAIN job.items
        /\ \A c \in DOMAIN job'.items : job'.items[c] = job.items[c]
    BY <1>1, <1>3, FailedMoves, NextMoves DEF IInv
  <1>5. \/ deps' = deps
        \/ /\ Current(deps[d], old) /\ old.env[n] # v
           /\ deps' = [deps EXCEPT ![d] = Injected(old, job.flag, v)]
           /\ job' = next
    BY DEF DeliverEnv
  <1>6. FlagCopies' /\ Generations' /\ StatusIsOfOneGeneration'
    BY <1>1, <1>4, FlagsStay DEF SameFlag
  <1>7. CmCopies'
    BY <1>1 DEF IInv, CmCopies, Older
  <1>8. JobAgrees'
    BY <1>1, <1>4, JobTyped DEF IInv, JobAgrees
  <1>9. NothingForgotten'
    BY <1>1, <1>4, StillKnown
  <1>10. deps' \in [Workloads -> DepObjects] /\ DepCopies' /\ AskedFor'
    <2>1. CASE deps' = deps
      <3>1. deps' \in [Workloads -> DepObjects]
        BY <2>1, Types DEF IInv
      <3>2. DepCopies'
        BY <1>1, <1>4, <2>1 DEF IInv, DepCopies, Older
      <3> QED
        BY <1>1, <2>1, <3>1, <3>2, DeliveredStays
    <2>2. CASE /\ Current(deps[d], old) /\ old.env[n] # v
               /\ deps' = [deps EXCEPT ![d] = Injected(old, job.flag, v)]
               /\ job' = next
      <3>1. /\ deps \in [Workloads -> DepObjects] /\ cDeps \in [Workloads -> DepObjects]
            /\ old \in DepObjects /\ job.flag \in Flags /\ v \in Values
            /\ job.copy.spec \in Specs
        BY <1>1, Types, JobTyped, SpecTyped DEF IInv
      <3>2. deps[d] = old
        BY <1>1, <2>2 DEF IInv, DepCopies, Older, Current
      <3>3. PICK new \in DepObjects :
              /\ new = Injected(old, job.flag, v) /\ new.rv = old.rv + 1 /\ n \in EnvNames
              /\ new.env[n] = v
              /\ \A m \in EnvNames \ {n} : new.env[m] = old.env[m]
        <4> HIDE DEF old, v
        <4>1. /\ Injected(old, job.flag, v) \in DepObjects
              /\ Injected(old, job.flag, v).rv = old.rv + 1 /\ n \in EnvNames
              /\ Injected(old, job.flag, v).env[n] = v
              /\ \A m \in EnvNames \ {n} : Injected(old, job.flag, v).env[m] = old.env[m]
          BY <3>1, InjectedTyped
        <4> QED
          BY <4>1
      <3>4. deps' = [deps EXCEPT ![d] = new]
        BY <2>2, <3>3
      <3>5. deps' \in [Workloads -> DepObjects]
        BY <3>1, <3>4
      <3>6. DepCopies'
        <4>1. \A c \in Workloads : Older(cDeps[c], deps'[c])
          BY <3>1, <3>2, <3>3, <3>4 DEF IInv, DepCopies, Older, DepObjects
        <4>2. \A c \in DOMAIN job'.items : c # d /\ c \in Workloads
          BY <1>1, <2>2, NextMoves, JobTyped DEF IInv
        <4>3. \A c \in DOMAIN job'.items : Older(job'.items[c], deps'[c])
          BY <1>1, <1>4, <3>1, <3>4, <4>2 DEF IInv, DepCopies
        <4> QED
          BY <1>1, <4>1, <4>3 DEF DepCopies, Older
      <3>7. AskedFor'
        <4>1. ~job.copy.spec.disabled /\ d \in job.copy.spec.select
          BY <1>1 DEF IInv, JobAgrees
        <4>2. WasGiven(job.flag, job.copy.spec)'
          BY <1>1, <1>4, JobIsGiven, GivenStays
        <4>3. ASSUME NEW c \in Workloads, NEW m \in EnvNames, deps'[c].env[m] # None
              PROVE  \E f \in Flags, s \in Specs :
                       /\ WasGiven(f, s)' /\ ~s.disabled
                       /\ EnvName[f] = m /\ s.value = deps'[c].env[m] /\ c \in s.select
          <5>1. CASE c = d /\ m = n
            <6>1. deps'[c].env[m] = v
              BY <3>1, <3>3, <3>4, <5>1
            <6> QED
              BY <1>4, <3>1, <4>1, <4>2, <5>1, <6>1
          <5>2. CASE ~(c = d /\ m = n)
            <6>1. deps'[c].env[m] = deps[c].env[m]
              BY <3>1, <3>2, <3>3, <3>4, <5>2
            <6>2. PICK f \in Flags, s \in Specs :
                     /\ WasGiven(f, s) /\ ~s.disabled
                     /\ EnvName[f] = m /\ s.value = deps[c].env[m] /\ c \in s.select
              BY <4>3, <6>1 DEF IInv, AskedFor
            <6>3. WasGiven(f, s)'
              BY <1>1, <6>2, GivenStays
            <6> QED
              BY <6>1, <6>2, <6>3
          <5> QED
            BY <5>1, <5>2
        <4>4. cm' # None =>
                \A k \in Keys : cm'.data[k] # None =>
                  \E f \in Flags, s \in Specs :
                    /\ WasGiven(f, s)' /\ ~s.disabled
                    /\ Key[f] = k /\ s.value = cm'.data[k] /\ s.cm
          BY <1>1, GivenStays DEF IInv, AskedFor
        <4> QED
          BY <4>3, <4>4 DEF AskedFor
      <3> QED
        BY <3>5, <3>6, <3>7
    <2> QED
      BY <1>5, <2>1, <2>2
  <1>11. TypeOK'
    BY <1>1, <1>2, <1>4, <1>10, FaultCounted, Types, Typed DEF IInv
  <1> QED
    BY <1>6, <1>7, <1>8, <1>9, <1>10, <1>11 DEF IInv

LEMMA EnvDoneKeeps ==
  ASSUME IInv, EnvDone
  PROVE  IInv'
  <1>1. /\ job # Idle /\ job.at = "env"
        /\ UNCHANGED <<flags, deps, cm, cFlags, cDeps, cCm, queue, now, specAt, spent>>
    BY RunningJob DEF EnvDone, server, caches
  <1>2. job \in Jobs /\ job.copy.spec.cm \in BOOLEAN
    BY <1>1, JobTyped, SpecTyped DEF IInv
  <1>3. job' = [job EXCEPT !.at = IF job.copy.spec.cm THEN "cm" ELSE "status"]
    BY DEF EnvDone
  <1>4. /\ job' \in Jobs /\ job'.flag = job.flag /\ job'.copy = job.copy /\ job'.phase = job.phase
        /\ job'.items = job.items
        /\ job'.at = IF job.copy.spec.cm THEN "cm" ELSE "status"
    BY <1>2, <1>3 DEF Jobs
  <1>5. job' # Idle
    BY <1>2, <1>4 DEF Idle
  <1>6. FlagCopies' /\ Generations' /\ StatusIsOfOneGeneration'
    BY <1>1, <1>4, <1>5, FlagsStay DEF SameFlag
  <1>7. DepCopies'
    BY <1>1, <1>4, <1>5 DEF IInv, DepCopies, Older
  <1>8. CmCopies'
    BY <1>1 DEF IInv, CmCopies, Older
  <1>9. JobAgrees'
    BY <1>1, <1>2, <1>4, <1>5 DEF IInv, JobAgrees
  <1>10. AskedFor' /\ NothingForgotten'
    BY <1>1, <1>4, <1>5, DeliveredStays, StillKnown
  <1>11. TypeOK'
    BY <1>1, <1>4, Types, Typed DEF IInv, TypeOK, Counts
  <1> QED
    BY <1>6, <1>7, <1>8, <1>9, <1>10, <1>11 DEF IInv

LEMMA DeliverCmKeeps ==
  ASSUME IInv, DeliverCm
  PROVE  IInv'
  <1> DEFINE k == Key[job.flag]
             v == job.copy.spec.value
             done == job' = [job EXCEPT !.at = "status"]
  <1>1. /\ job # Idle /\ job.at = "cm"
        /\ UNCHANGED <<flags, deps, cFlags, cDeps, cCm, queue, now, specAt>>
    BY RunningJob DEF DeliverCm, caches
  <1>2. UNCHANGED spent \/ Fault
    BY DEF DeliverCm
  <1>3. Failed \/ done
    BY DEF DeliverCm
  <1>4. /\ job' \in Jobs /\ job' # Idle /\ job'.flag = job.flag /\ job'.copy = job.copy
        /\ job'.phase \in {job.phase, "Failed"} /\ job'.at = "status"
        /\ DOMAIN job'.items \subseteq DOMAIN job.items
        /\ \A d \in DOMAIN job'.items : job'.items[d] = job.items[d]
    <2>1. CASE Failed
      BY <1>1, <2>1, FailedMoves DEF IInv
    <2>2. CASE done
      <3>1. /\ job' \in Jobs /\ job'.flag = job.flag /\ job'.copy = job.copy
            /\ job'.phase = job.phase /\ job'.at = "status" /\ job'.items = job.items
        BY <1>1, <2>2, JobTyped DEF IInv, Jobs
      <3> QED
        BY <3>1 DEF Idle
    <2> QED
      BY <1>3, <2>1, <2>2
  <1>5. \/ cm' = cm
        \/ /\ cCm = None /\ cm = None
           /\ cm' = [rv |-> 1, data |-> [j \in Keys |-> IF j = k THEN v ELSE None]]
        \/ cCm # None /\ Current(cm, cCm) /\ cm' = [Bump(cCm) EXCEPT !.data[k] = v]
    BY DEF DeliverCm
  <1>6. FlagCopies' /\ Generations' /\ StatusIsOfOneGeneration'
    BY <1>1, <1>4, FlagsStay DEF SameFlag
  <1>7. DepCopies'
    BY <1>1, <1>4 DEF IInv, DepCopies, Older
  <1>8. JobAgrees'
    BY <1>1, <1>4, JobTyped DEF IInv, JobAgrees
  <1>9. NothingForgotten'
    BY <1>1, <1>4, StillKnown
  <1>10. cm' \in ConfigMaps \cup {None} /\ CmCopies' /\ AskedFor'
    <2>1. /\ v \in Values /\ job.flag \in Flags /\ job.copy.spec \in Specs /\ k \in Keys
          /\ job.copy.spec.cm /\ ~job.copy.spec.disabled
      BY <1>1, JobTyped, SpecTyped DEF IInv, JobAgrees, Keys
    <2>2. WasGiven(job.flag, job.copy.spec)'
      BY <1>1, <1>4, JobIsGiven, GivenStays
    <2>3. CASE cm' = cm
      BY <1>1, <2>3, DeliveredStays, Types DEF IInv, CmCopies, Older
    <2>4. CASE cm' # cm
      <3>1. /\ cm' \in ConfigMaps
            /\ cCm # None => cCm.rv + 1 = cm'.rv /\ cCm.rv \in Nat
            /\ \A j \in Keys \ {k} : cm'.data[j] # None => cm # None /\ cm'.data[j] = cm.data[j]
            /\ cm'.data[k] = v
        <4>1. CASE cCm = None
          <5>1. cm' = [rv |-> 1, data |-> [j \in Keys |-> IF j = k THEN v ELSE None]]
            BY <1>5, <2>4, <4>1
          <5> QED
            BY <2>1, <4>1, <5>1 DEF ConfigMaps
        <4>2. CASE cCm # None
          <5>1. Current(cm, cCm) /\ cm' = [Bump(cCm) EXCEPT !.data[k] = v] /\ cCm \in ConfigMaps
            BY <1>5, <2>4, <4>2, Types DEF IInv
          <5>2. cm = cCm /\ cm # None
            BY <4>2, <5>1 DEF IInv, CmCopies, Older, Current
          <5>3. PICK b \in ConfigMaps : b = Bump(cCm) /\ b.rv = cCm.rv + 1 /\ b.data = cCm.data
            <6>1. Bump(cCm) = [cCm EXCEPT !.rv = cCm.rv + 1]
              BY <5>1 DEF Bump
            <6>2. Bump(cCm) \in ConfigMaps /\ Bump(cCm).rv = cCm.rv + 1 /\ Bump(cCm).data = cCm.data
              BY <5>1, <6>1 DEF ConfigMaps
            <6> QED
              BY <6>2
          <5>4. b.data \in [Keys -> Values \cup {None}]
            BY DEF ConfigMaps
          <5>5. cm' = [b EXCEPT !.data = [b.data EXCEPT ![k] = v]]
            BY <5>1, <5>3
          <5>6. [b.data EXCEPT ![k] = v] \in [Keys -> Values \cup {None}]
            BY <2>1, <5>4
          <5>7. cm' \in ConfigMaps /\ cm'.rv = b.rv /\ cm'.data = [b.data EXCEPT ![k] = v]
            BY <5>5, <5>6 DEF ConfigMaps
          <5>8. cCm.rv \in Nat
            BY <5>1 DEF ConfigMaps
          <5> QED
            BY <2>1, <5>2, <5>3, <5>4, <5>7, <5>8
        <4> QED
          BY <4>1, <4>2
      <3>2. cm' # None
        BY <3>1, NoneIsNoThing
      <3>3. CmCopies'
        BY <1>1, <3>1, <3>2 DEF CmCopies, Older
      <3>4. ASSUME NEW j \in Keys, cm'.data[j] # None
            PROVE  \E f \in Flags, s \in Specs :
                     /\ WasGiven(f, s)' /\ ~s.disabled
                     /\ Key[f] = j /\ s.value = cm'.data[j] /\ s.cm
        <4>1. CASE j = k
          BY <1>4, <2>1, <2>2, <3>1, <4>1
        <4>2. CASE j # k
          <5>1. cm # None /\ cm'.data[j] = cm.data[j]
            BY <3>1, <3>4, <4>2
          <5>2. PICK f \in Flags, s \in Specs :
                   /\ WasGiven(f, s) /\ ~s.disabled
                   /\ Key[f] = j /\ s.value = cm.data[j] /\ s.cm
            BY <3>4, <5>1 DEF IInv, AskedFor
          <5>3. WasGiven(f, s)'
            BY <1>1, <5>2, GivenStays
          <5> QED
            BY <5>1, <5>2, <5>3
        <4> QED
          BY <4>1, <4>2
      <3>5. \A d \in Workloads, n \in EnvNames :
              deps'[d].env[n] # None =>
                \E f \in Flags, s \in Specs :
                  /\ WasGiven(f, s)' /\ ~s.disabled
                  /\ EnvName[f] = n /\ s.value = deps'[d].env[n] /\ d \in s.select
        BY <1>1, GivenStays DEF IInv, AskedFor
      <3>6. AskedFor'
        BY <3>4, <3>5 DEF AskedFor
      <3> QED
        BY <3>1, <3>3, <3>6
    <2> QED
      BY <2>3, <2>4
  <1>11. TypeOK'
    BY <1>1, <1>2, <1>4, <1>10, FaultCounted, Types, Typed DEF IInv
  <1> QED
    BY <1>6, <1>7, <1>8, <1>9, <1>10, <1>11 DEF IInv

\* What was given stays so while generations only grow and their specs stay.
LEMMA GivenKeeps ==
  ASSUME TypeOK, TypeOK', NEW f \in Flags, NEW s, WasGiven(f, s),
         flags'[f] # None => flags[f] # None /\ flags[f].gen <= flags'[f].gen,
         \A g \in 1..MaxGen :
           (flags[f] # None => g <= flags[f].gen) => specAt'[f][g] = specAt[f][g]
  PROVE  WasGiven(f, s)'
  <1>1. PICK g \in 1..MaxGen : specAt[f][g] = s /\ (flags[f] # None => g <= flags[f].gen)
    BY DEF WasGiven
  <1>2. specAt'[f][g] = s
    BY <1>1
  <1>3. ASSUME flags'[f] # None  PROVE g <= flags'[f].gen
    <2>1. flags[f] \in FlagObjects /\ flags'[f] \in FlagObjects
      BY <1>3, Types DEF TypeOK
    <2>2. flags[f].gen \in Nat /\ flags'[f].gen \in Nat
      BY <2>1, OperatorConstants DEF FlagObjects
    <2> QED
      BY <1>1, <1>3, <2>2
  <1> QED
    BY <1>2, <1>3 DEF WasGiven

LEMMA DeliveredKeeps ==
  ASSUME IInv, UNCHANGED <<deps, cm>>,
         \A f \in Flags, s \in Specs : WasGiven(f, s) => WasGiven(f, s)'
  PROVE  AskedFor'
  BY DEF IInv, AskedFor

\* One flag in a next version.
LEMMA FlagRenewed ==
  ASSUME IInv, NEW f \in Flags, flags[f] # None, NEW new \in FlagObjects,
         flags' = [flags EXCEPT ![f] = new], new.rv = flags[f].rv + 1
  PROVE  /\ flags' \in [Flags -> FlagObjects \cup {None}]
         /\ flags'[f] = new /\ \A e \in Flags \ {f} : flags'[e] = flags[e]
         /\ \A e \in Flags : OlderFlag(cFlags[e], flags'[e])
         /\ job # Idle => OlderFlag(job.copy, flags'[job.flag])
         /\ cFlags[f] # new
  <1>1. /\ flags \in [Flags -> FlagObjects \cup {None}] /\ flags[f] \in FlagObjects
        /\ cFlags \in [Flags -> FlagObjects \cup {None}]
    BY Types DEF IInv
  <1>2. /\ flags' \in [Flags -> FlagObjects \cup {None}]
        /\ flags'[f] = new /\ \A e \in Flags \ {f} : flags'[e] = flags[e]
    BY <1>1
  <1>3. flags[f].rv \in Nat /\ new # None
    BY <1>1, NoneIsNoThing DEF FlagObjects
  <1>4. cFlags[f] # None => cFlags[f].rv \in Nat /\ cFlags[f].rv <= flags[f].rv
    BY <1>1 DEF IInv, FlagCopies, OlderFlag, Older, FlagObjects
  <1>5. \A e \in Flags : OlderFlag(cFlags[e], flags'[e])
    BY <1>2, <1>3, <1>4 DEF IInv, FlagCopies, OlderFlag, Older
  <1>6. job # Idle => OlderFlag(job.copy, flags'[job.flag])
    <2> SUFFICES ASSUME job # Idle  PROVE OlderFlag(job.copy, flags'[job.flag])
      OBVIOUS
    <2>1. job.flag \in Flags /\ job.copy \in FlagObjects /\ job.copy.rv \in Nat
      BY JobTyped DEF IInv
    <2>2. OlderFlag(job.copy, flags[job.flag])
      BY DEF IInv, FlagCopies
    <2> QED
      BY <1>2, <1>3, <2>1, <2>2, NoneIsNoThing DEF OlderFlag, Older
  <1>7. cFlags[f] # new
    BY <1>3, <1>4
  <1> QED
    BY <1>2, <1>5, <1>6, <1>7

\* The copies of the other objects, when they stay.
LEMMA OthersStay ==
  ASSUME IInv, UNCHANGED <<deps, cm, cDeps, cCm>>,
         job' # Idle => job # Idle /\ job'.items = job.items
  PROVE  DepCopies' /\ CmCopies'
  <1>1. DepCopies'
    BY DEF IInv, DepCopies, Older
  <1>2. CmCopies'
    BY DEF IInv, CmCopies, Older
  <1> QED
    BY <1>1, <1>2

LEMMA WriteStatusKeeps ==
  ASSUME IInv, WriteStatus
  PROVE  IInv'
  <1> DEFINE f == job.flag
  <1>1. /\ job # Idle /\ job.at = "status" /\ job' = Idle
        /\ UNCHANGED <<deps, cm, cFlags, cDeps, cCm, now, specAt>>
    BY RunningJob DEF WriteStatus, caches
  <1>2. UNCHANGED spent \/ Fault
    BY DEF WriteStatus
  <1>3. /\ f \in Flags /\ job.copy \in FlagObjects /\ job.copy.spec \in Specs
        /\ job.copy.gen \in 1..MaxGen
    BY <1>1, JobTyped DEF IInv
  <1>4. DepCopies' /\ CmCopies' /\ JobAgrees'
    BY <1>1, OthersStay DEF JobAgrees
  <1>5. NewStatus \in Statuses /\ NewStatus.gen = job.copy.gen
        /\ NewStatus.value = job.copy.spec.value /\ NewStatus.phase = job.phase
    BY <1>1, <1>3, JobTyped, SpecTyped, Types DEF IInv, NewStatus, Statuses
  <1> HIDE DEF f
  <1>6. CASE /\ Current(flags[f], job.copy) /\ UNCHANGED <<queue, spent>>
             /\ flags' = [flags EXCEPT ![f] = [Bump(@) EXCEPT !.status = NewStatus]]
    <2>1. flags[f] = job.copy /\ flags[f] # None
      BY <1>1, <1>3, <1>6, NoneIsNoThing DEF f, IInv, FlagCopies, OlderFlag, Older, Current
    <2>2. PICK new \in FlagObjects :
            /\ new = [Bump(flags[f]) EXCEPT !.status = NewStatus] /\ new.rv = flags[f].rv + 1
            /\ new.gen = flags[f].gen /\ new.spec = flags[f].spec /\ new.status = NewStatus
      <3>1. flags[f] \in FlagObjects
        BY <1>3, <2>1
      <3> QED
        BY <1>5, <3>1, ReportedFlag
    <2>3. flags' = [flags EXCEPT ![f] = new]
      BY <1>6, <2>2
    <2>4. /\ flags' \in [Flags -> FlagObjects \cup {None}]
          /\ flags'[f] = new /\ \A e \in Flags \ {f} : flags'[e] = flags[e]
          /\ \A e \in Flags : OlderFlag(cFlags[e], flags'[e])
          /\ cFlags[f] # new
      BY <1>3, <2>1, <2>2, <2>3, FlagRenewed
    <2>5. TypeOK'
      BY <1>1, <1>6, <2>4, Types, Typed DEF IInv, TypeOK, Counts
    <2>6. FlagCopies'
      BY <1>1, <2>4 DEF FlagCopies, OlderFlag, Older
    <2>7. Generations'
      <3>1. ASSUME NEW e \in Flags, flags'[e] # None  PROVE OfGeneration(e, flags[e])'
        <4>1. flags[e] # None /\ OfGeneration(e, flags[e])
          BY <2>1, <2>4, <3>1 DEF IInv, Generations
        <4>2. flags'[e].gen = flags[e].gen /\ flags'[e].spec = flags[e].spec
          BY <2>2, <2>4
        <4> QED
          BY <1>1, <4>1, <4>2 DEF OfGeneration
      <3>2. ASSUME NEW e \in Flags, cFlags'[e] # None  PROVE OfGeneration(e, cFlags[e])'
        <4>1. OfGeneration(e, cFlags[e])
          BY <1>1, <3>2 DEF IInv, Generations
        <4>2. flags'[e] # None => flags[e] # None /\ flags'[e].gen = flags[e].gen
          BY <2>1, <2>2, <2>4
        <4> QED
          BY <1>1, <4>1, <4>2 DEF OfGeneration
      <3> QED
        BY <1>1, <3>1, <3>2 DEF Generations
    <2>8. AskedFor'
      <3>1. \A e \in Flags, s \in Specs : WasGiven(e, s) => WasGiven(e, s)'
        BY <1>1, <2>1, <2>2, <2>4, NoneIsNoThing DEF WasGiven
      <3> QED
        BY <1>1, <3>1, DeliveredKeeps
    <2>9. StatusIsOfOneGeneration'
      <3>1. /\ NewStatus.gen <= new.gen
            /\ NewStatus.value = specAt[f][NewStatus.gen].value
            /\ (NewStatus.phase = "Disabled") <=> specAt[f][NewStatus.gen].disabled
        <4>1. job.copy.spec = specAt[f][job.copy.gen]
          BY <1>1 DEF f, IInv, Generations, OfGeneration
        <4>2. (job.phase = "Disabled") <=> job.copy.spec.disabled
          BY <1>1 DEF IInv, JobAgrees
        <4>3. job.copy.gen <= job.copy.gen
          BY <1>3, OperatorConstants
        <4> QED
          BY <1>5, <2>1, <2>2, <4>1, <4>2, <4>3
      <3>2. ASSUME NEW e \in Flags, flags'[e] # None, flags'[e].status # NoStatus
            PROVE  LET st == flags'[e].status IN
                   /\ st.gen <= flags'[e].gen
                   /\ st.value = specAt[e][st.gen].value
                   /\ (st.phase = "Disabled") <=> specAt[e][st.gen].disabled
        <4>1. CASE e = f
          BY <2>2, <2>4, <3>1, <4>1
        <4>2. CASE e # f
          <5>1. flags'[e] = flags[e]
            BY <2>4, <4>2
          <5> QED
            BY <3>2, <5>1 DEF IInv, StatusIsOfOneGeneration
        <4> QED
          BY <4>1, <4>2
      <3> QED
        BY <1>1, <3>2 DEF StatusIsOfOneGeneration
    <2>10. NothingForgotten'
      BY <1>1, <1>5, <1>6, <2>1, <2>2, <2>4 DEF f, IInv, NothingForgotten
    <2> QED
      BY <1>4, <2>5, <2>6, <2>7, <2>8, <2>9, <2>10 DEF IInv
  <1>7. CASE /\ flags' = flags /\ queue \subseteq queue' /\ queue' \subseteq queue \cup {f}
             /\ f \notin queue' => flags[f] # None /\ flags[f].status.gen = flags[f].gen
    <2>1. FlagCopies' /\ Generations' /\ StatusIsOfOneGeneration'
      BY <1>1, <1>7, FlagsStay DEF SameFlag
    <2>2. AskedFor'
      BY <1>1, <1>7, DeliveredStays
    <2>3. NothingForgotten'
      BY <1>1, <1>7 DEF f, IInv, NothingForgotten
    <2>4. TypeOK'
      BY <1>1, <1>2, <1>3, <1>7, FaultCounted, Types, Typed DEF IInv
    <2> QED
      BY <1>4, <2>1, <2>2, <2>3, <2>4 DEF IInv
  <1>8. \/ /\ Current(flags[f], job.copy) /\ UNCHANGED <<queue, spent>>
           /\ flags' = [flags EXCEPT ![f] = [Bump(@) EXCEPT !.status = NewStatus]]
        \/ /\ flags' = flags /\ queue' = queue
           /\ Current(flags[f], job.copy) /\ flags[f].status = NewStatus
        \/ flags' = flags /\ queue' = queue \cup {f}
    BY DEF f, WriteStatus
  <1>9. ASSUME Current(flags[f], job.copy), flags[f].status = NewStatus
        PROVE  flags[f] # None /\ flags[f].status.gen = flags[f].gen
    <2>1. flags[f] = job.copy
      BY <1>1, <1>3, <1>9, NoneIsNoThing DEF f, IInv, FlagCopies, OlderFlag, Older, Current
    <2> QED
      BY <1>5, <1>9, <2>1 DEF Current
  <1> QED
    BY <1>6, <1>7, <1>8, <1>9

-----------------------------------------------------------------------------
(* The informers *)

LEMMA SyncFlagKeeps ==
  ASSUME IInv, NEW f \in Flags, SyncFlag(f)
  PROVE  IInv'
  <1>1. /\ cFlags' = [cFlags EXCEPT ![f] = flags[f]] /\ queue' = queue \cup {f}
        /\ UNCHANGED <<flags, deps, cm, cDeps, cCm, job, now, specAt, spent>>
    BY DEF SyncFlag, server
  <1>2. /\ flags \in [Flags -> FlagObjects \cup {None}]
        /\ cFlags \in [Flags -> FlagObjects \cup {None}]
    BY Types DEF IInv
  <1>3. /\ cFlags' \in [Flags -> FlagObjects \cup {None}]
        /\ \A e \in Flags : cFlags'[e] = IF e = f THEN flags[f] ELSE cFlags[e]
    BY <1>1, <1>2
  <1>4. FlagCopies'
    <2>1. \A e \in Flags : OlderFlag(cFlags'[e], flags[e])
      BY <1>2, <1>3 DEF IInv, FlagCopies, OlderFlag, Older, FlagObjects
    <2>2. job # Idle => OlderFlag(job.copy, flags[job.flag])
      BY DEF IInv, FlagCopies
    <2> QED
      BY <1>1, <2>1, <2>2 DEF FlagCopies, OlderFlag, Older
  <1>5. DepCopies' /\ CmCopies' /\ JobAgrees'
    BY <1>1, OthersStay DEF IInv, JobAgrees
  <1>6. Generations'
    BY <1>1, <1>3 DEF IInv, Generations, OfGeneration
  <1>7. AskedFor' /\ StatusIsOfOneGeneration'
    BY <1>1, DeliveredStays DEF IInv, StatusIsOfOneGeneration
  <1>8. NothingForgotten'
    BY <1>1, <1>3 DEF IInv, NothingForgotten
  <1>9. TypeOK'
    BY <1>1, <1>3, Types, Typed DEF IInv, TypeOK, Counts
  <1> QED
    BY <1>4, <1>5, <1>6, <1>7, <1>8, <1>9 DEF IInv

\* Nothing happens to the flags, the job and the queue but additions to the latter.
LEMMA AroundFlags ==
  ASSUME IInv, UNCHANGED <<flags, cFlags, specAt, job>>, queue \subseteq queue'
  PROVE  /\ FlagCopies' /\ Generations' /\ StatusIsOfOneGeneration' /\ JobAgrees'
         /\ NothingForgotten'
  <1>1. FlagCopies' /\ Generations' /\ StatusIsOfOneGeneration'
    BY FlagsStay DEF SameFlag
  <1>2. JobAgrees'
    BY DEF IInv, JobAgrees
  <1>3. NothingForgotten'
    BY StillKnown
  <1> QED
    BY <1>1, <1>2, <1>3

LEMMA SyncDepKeeps ==
  ASSUME IInv, NEW d \in Workloads, SyncDep(d)
  PROVE  IInv'
  <1>1. /\ cDeps' = [cDeps EXCEPT ![d] = deps[d]]
        /\ UNCHANGED <<flags, deps, cm, cFlags, cCm, queue, job, now, specAt, spent>>
    BY DEF SyncDep, server
  <1>2. deps \in [Workloads -> DepObjects] /\ cDeps \in [Workloads -> DepObjects]
    BY Types DEF IInv
  <1>3. /\ cDeps' \in [Workloads -> DepObjects]
        /\ \A e \in Workloads : cDeps'[e] = IF e = d THEN deps[d] ELSE cDeps[e]
    BY <1>1, <1>2
  <1>4. DepCopies'
    <2>1. \A e \in Workloads : Older(cDeps'[e], deps[e])
      BY <1>2, <1>3 DEF IInv, DepCopies, Older, DepObjects
    <2> QED
      BY <1>1, <2>1 DEF IInv, DepCopies, Older
  <1>5. CmCopies'
    BY <1>1 DEF IInv, CmCopies, Older
  <1>6. AskedFor'
    BY <1>1, DeliveredStays
  <1>7. TypeOK'
    BY <1>1, <1>3, Types, Typed DEF IInv, TypeOK, Counts
  <1> QED
    BY <1>1, <1>4, <1>5, <1>6, <1>7, AroundFlags DEF IInv

LEMMA SyncCmKeeps ==
  ASSUME IInv, SyncCm
  PROVE  IInv'
  <1>1. /\ cCm' = cm
        /\ UNCHANGED <<flags, deps, cm, cFlags, cDeps, queue, job, now, specAt, spent>>
    BY DEF SyncCm, server
  <1>2. DepCopies'
    BY <1>1 DEF IInv, DepCopies, Older
  <1>3. CmCopies'
    BY <1>1, Types DEF IInv, CmCopies, Older, ConfigMaps
  <1>4. AskedFor'
    BY <1>1, DeliveredStays
  <1>5. TypeOK'
    BY <1>1, Types, Typed DEF IInv, TypeOK, Counts
  <1> QED
    BY <1>1, <1>2, <1>3, <1>4, <1>5, AroundFlags DEF IInv

LEMMA ResyncKeeps ==
  ASSUME IInv, Resync
  PROVE  IInv'
  <1>1. /\ queue' = queue \cup {f \in Flags : cFlags[f] # None}
        /\ UNCHANGED <<flags, deps, cm, cFlags, cDeps, cCm, job, now, specAt>>
        /\ spent.resyncs < MaxResyncs /\ spent' = [spent EXCEPT !.resyncs = @ + 1]
    BY DEF Resync, server, caches
  <1>2. DepCopies' /\ CmCopies'
    BY <1>1, OthersStay
  <1>3. AskedFor'
    BY <1>1, DeliveredStays
  <1>4. spent' \in Counts
    <2>1. spent \in Counts /\ MaxResyncs \in Nat
      BY OperatorConstants DEF IInv, TypeOK, Counts
    <2>2. spent.resyncs + 1 \in 0..MaxResyncs
      BY <1>1, <2>1 DEF Counts
    <2> QED
      BY <1>1, <2>1, <2>2 DEF Counts
  <1>5. TypeOK'
    BY <1>1, <1>4, Types, Typed DEF IInv
  <1> QED
    BY <1>1, <1>2, <1>3, <1>5, AroundFlags DEF IInv

-----------------------------------------------------------------------------
(* The environment *)

LEMMA TouchKeeps ==
  ASSUME IInv, NEW d \in Workloads, Touch(d)
  PROVE  IInv'
  <1> DEFINE bare == [Bump(deps[d]) EXCEPT !.env = [n \in EnvNames |-> None], !.hash = None]
  <1>1. /\ UNCHANGED <<flags, cm, cFlags, cDeps, cCm, queue, job, now, specAt>>
        /\ spent.touches < MaxTouches /\ spent' = [spent EXCEPT !.touches = @ + 1]
        /\ \/ deps' = [deps EXCEPT ![d] = Bump(deps[d])]
           \/ deps' = [deps EXCEPT ![d] = bare]
    BY DEF Touch, caches
  <1>2. deps \in [Workloads -> DepObjects] /\ deps[d] \in DepObjects
    BY Types DEF IInv
  <1>3. /\ Bump(deps[d]) \in DepObjects /\ Bump(deps[d]).rv = deps[d].rv + 1
        /\ Bump(deps[d]).env = deps[d].env
    BY <1>2, BumpedDep
  <1>4. bare \in DepObjects /\ bare.rv = deps[d].rv + 1 /\ \A n \in EnvNames : bare.env[n] = None
    BY <1>3 DEF DepObjects
  <1>5. PICK new \in DepObjects :
          /\ deps' = [deps EXCEPT ![d] = new] /\ new.rv = deps[d].rv + 1
          /\ new.env = deps[d].env \/ \A n \in EnvNames : new.env[n] = None
    <2> HIDE DEF bare
    <2> QED
      BY <1>1, <1>3, <1>4
  <1>6. /\ deps' \in [Workloads -> DepObjects]
        /\ \A c \in Workloads : deps'[c] = IF c = d THEN new ELSE deps[c]
    BY <1>2, <1>5
  <1>7. DepCopies'
    <2>1. ASSUME NEW c, NEW e \in Workloads, Older(c, deps[e]), c \in DepObjects
          PROVE  Older(c, deps'[e])
      BY <1>2, <1>5, <1>6, <2>1 DEF Older, DepObjects
    <2>2. \A e \in Workloads : Older(cDeps[e], deps'[e])
      BY <2>1, Types DEF IInv, DepCopies
    <2>3. job # Idle => \A e \in DOMAIN job.items : Older(job.items[e], deps'[e])
      BY <2>1, JobTyped DEF IInv, DepCopies
    <2> QED
      BY <1>1, <2>2, <2>3 DEF DepCopies, Older
  <1>8. CmCopies'
    BY <1>1 DEF IInv, CmCopies, Older
  <1>9. AskedFor'
    <2>1. \A c \in Workloads, n \in EnvNames :
            deps'[c].env[n] # None => deps'[c].env[n] = deps[c].env[n]
      BY <1>5, <1>6
    <2>2. \A f \in Flags, s \in Specs : WasGiven(f, s) => WasGiven(f, s)'
      BY <1>1, GivenStays
    <2> QED
      BY <1>1, <2>1, <2>2 DEF IInv, AskedFor
  <1>10. spent' \in Counts
    BY <1>1, OperatorConstants DEF IInv, TypeOK, Counts
  <1>11. TypeOK'
    BY <1>1, <1>6, <1>10, Types, Typed DEF IInv
  <1> QED
    BY <1>1, <1>7, <1>8, <1>9, <1>11, AroundFlags DEF IInv

LEMMA RestartKeeps ==
  ASSUME IInv, Restart
  PROVE  IInv'
  <1>1. /\ UNCHANGED <<flags, deps, cm, now, specAt>>
        /\ spent.restarts < MaxRestarts /\ spent' = [spent EXCEPT !.restarts = @ + 1]
        /\ cFlags' = flags /\ cDeps' = deps /\ cCm' = cm
        /\ queue' = {f \in Flags : flags[f] # None} /\ job' = Idle
    BY DEF Restart, server
  <1>2. FlagCopies' /\ DepCopies' /\ CmCopies'
    <2>1. FlagCopies'
      BY <1>1, Types DEF IInv, FlagCopies, OlderFlag, Older, FlagObjects
    <2>2. DepCopies'
      BY <1>1, Types DEF IInv, DepCopies, Older, DepObjects
    <2>3. CmCopies'
      BY <1>1, Types DEF IInv, CmCopies, Older, ConfigMaps
    <2> QED
      BY <2>1, <2>2, <2>3
  <1>3. Generations' /\ JobAgrees' /\ StatusIsOfOneGeneration'
    BY <1>1 DEF IInv, Generations, OfGeneration, JobAgrees, StatusIsOfOneGeneration
  <1>4. AskedFor'
    BY <1>1, DeliveredStays
  <1>5. NothingForgotten'
    BY <1>1 DEF NothingForgotten
  <1>6. spent' \in Counts
    BY <1>1, OperatorConstants DEF IInv, TypeOK, Counts
  <1>7. TypeOK'
    BY <1>1, <1>6, Types, Typed DEF IInv
  <1> QED
    BY <1>2, <1>3, <1>4, <1>5, <1>7 DEF IInv

LEMMA TickKeeps ==
  ASSUME IInv, Tick
  PROVE  IInv'
  <1>1. /\ now <= MaxTime /\ now' = now + 1
        /\ UNCHANGED <<flags, deps, cm, cFlags, cDeps, cCm, queue, job, specAt, spent>>
    BY DEF Tick, server, caches
  <1>2. now' \in 1..MaxTime + 1
    BY <1>1, Types, OperatorConstants DEF IInv
  <1>3. DepCopies' /\ CmCopies' /\ AskedFor'
    BY <1>1, OthersStay, DeliveredStays
  <1>4. TypeOK'
    BY <1>1, <1>2, Types, Typed DEF IInv, TypeOK, Counts
  <1> QED
    BY <1>1, <1>3, <1>4, AroundFlags DEF IInv

LEMMA DeleteFlagKeeps ==
  ASSUME IInv, NEW f \in Flags, DeleteFlag(f)
  PROVE  IInv'
  <1>1. /\ flags' = [flags EXCEPT ![f] = None]
        /\ UNCHANGED <<deps, cm, cFlags, cDeps, cCm, queue, job, now, specAt, spent>>
    BY DEF DeleteFlag, caches
  <1>2. /\ flags' \in [Flags -> FlagObjects \cup {None}]
        /\ flags'[f] = None /\ \A e \in Flags \ {f} : flags'[e] = flags[e]
    BY <1>1, Types DEF IInv
  <1>3. FlagCopies'
    <2>1. \A e \in Flags : OlderFlag(cFlags[e], flags'[e])
      BY <1>2 DEF IInv, FlagCopies, OlderFlag
    <2>2. job # Idle => OlderFlag(job.copy, flags'[job.flag])
      BY <1>2, JobTyped DEF IInv, FlagCopies, OlderFlag
    <2> QED
      BY <1>1, <2>1, <2>2 DEF FlagCopies, OlderFlag, Older
  <1>4. DepCopies' /\ CmCopies' /\ JobAgrees'
    BY <1>1, OthersStay DEF IInv, JobAgrees
  <1>5. Generations'
    <2>1. \A e \in Flags : flags'[e] # None => OfGeneration(e, flags[e])'
      BY <1>1, <1>2 DEF IInv, Generations, OfGeneration
    <2>2. \A e \in Flags : cFlags[e] # None => OfGeneration(e, cFlags[e])'
      BY <1>1, <1>2 DEF IInv, Generations, OfGeneration
    <2>3. job # Idle => OfGeneration(job.flag, job.copy)'
      BY <1>1, <1>2, JobTyped DEF IInv, Generations, OfGeneration
    <2> QED
      BY <1>1, <2>1, <2>2, <2>3 DEF Generations
  <1>6. StatusIsOfOneGeneration'
    BY <1>1, <1>2 DEF IInv, StatusIsOfOneGeneration
  <1>7. AskedFor'
    <2>1. \A e \in Flags, s \in Specs : WasGiven(e, s) => WasGiven(e, s)'
      BY <1>1, <1>2 DEF WasGiven
    <2> QED
      BY <1>1, <2>1, DeliveredKeeps
  <1>8. NothingForgotten'
    BY <1>1, <1>2 DEF IInv, NothingForgotten
  <1>9. TypeOK'
    BY <1>1, <1>2, Types, Typed DEF IInv, TypeOK, Counts
  <1> QED
    BY <1>3, <1>4, <1>5, <1>6, <1>7, <1>8, <1>9 DEF IInv

LEMMA EditFlagKeeps ==
  ASSUME IInv, NEW f \in Flags, EditFlag(f)
  PROVE  IInv'
  <1> DEFINE edited(s) == [Bump(flags[f]) EXCEPT !.gen = @ + 1, !.spec = s]
  <1>1. /\ flags[f] # None /\ flags[f].gen < MaxGen
        /\ UNCHANGED <<deps, cm, cFlags, cDeps, cCm, queue, job, now, spent>>
    BY DEF EditFlag, caches
  <1>2. PICK s \in Specs :
          /\ flags' = [flags EXCEPT ![f] = edited(s)]
          /\ specAt' = [specAt EXCEPT ![f][flags[f].gen + 1] = s]
    BY DEF EditFlag
  <1>3. flags[f] \in FlagObjects /\ flags[f].gen \in 1..MaxGen /\ flags[f].gen + 1 \in 1..MaxGen
        /\ flags[f].status \in Statuses
    BY <1>1, Types, OperatorConstants DEF IInv, FlagObjects
  <1>4. PICK new \in FlagObjects :
          /\ new = edited(s) /\ new.rv = flags[f].rv + 1 /\ new.gen = flags[f].gen + 1
          /\ new.spec = s /\ new.status = flags[f].status
    BY <1>1, <1>3, EditedFlag
  <1>5. flags' = [flags EXCEPT ![f] = new]
    BY <1>2, <1>4
  <1> HIDE DEF edited
  <1>6. /\ flags' \in [Flags -> FlagObjects \cup {None}]
        /\ flags'[f] = new /\ \A e \in Flags \ {f} : flags'[e] = flags[e]
        /\ \A e \in Flags : OlderFlag(cFlags[e], flags'[e])
        /\ job # Idle => OlderFlag(job.copy, flags'[job.flag])
        /\ cFlags[f] # new
    BY <1>1, <1>4, <1>5, FlagRenewed
  <1>7. /\ specAt' \in [Flags -> [1..MaxGen -> Specs]]
        /\ specAt'[f][flags[f].gen + 1] = s
        /\ \A g \in 1..MaxGen : g <= flags[f].gen => specAt'[f][g] = specAt[f][g]
        /\ \A e \in Flags \ {f} : specAt'[e] = specAt[e]
    <2>1. specAt \in [Flags -> [1..MaxGen -> Specs]] /\ specAt[f] \in [1..MaxGen -> Specs]
      BY Types DEF IInv
    <2>2. specAt' = [specAt EXCEPT ![f] = [specAt[f] EXCEPT ![flags[f].gen + 1] = s]]
      BY <1>2
    <2>3. [specAt[f] EXCEPT ![flags[f].gen + 1] = s] \in [1..MaxGen -> Specs]
      BY <1>3, <2>1
    <2>4. specAt'[f] = [specAt[f] EXCEPT ![flags[f].gen + 1] = s]
      BY <2>1, <2>2
    <2>5. ASSUME NEW g \in 1..MaxGen, g <= flags[f].gen  PROVE specAt'[f][g] = specAt[f][g]
      BY <1>3, <2>1, <2>4, <2>5
    <2> QED
      BY <1>3, <2>1, <2>2, <2>3, <2>4, <2>5
  <1>8. FlagCopies'
    BY <1>1, <1>6 DEF FlagCopies, OlderFlag, Older
  <1>9. DepCopies' /\ CmCopies' /\ JobAgrees'
    BY <1>1, OthersStay DEF IInv, JobAgrees
  <1>10. ASSUME NEW e \in Flags, NEW c \in FlagObjects, OfGeneration(e, c)
         PROVE  c.spec = specAt'[e][c.gen] /\ (flags'[e] # None => c.gen <= flags'[e].gen)
    <2>1. c.gen \in 1..MaxGen
      BY DEF FlagObjects
    <2>2. CASE e = f
      <3>1. c.spec = specAt[f][c.gen] /\ c.gen <= flags[f].gen
        BY <1>1, <1>10, <2>2 DEF OfGeneration
      <3> QED
        BY <1>3, <1>4, <1>6, <1>7, <2>1, <2>2, <3>1
    <2>3. CASE e # f
      BY <1>6, <1>7, <1>10, <2>3 DEF OfGeneration
    <2> QED
      BY <2>2, <2>3
  <1>11. Generations'
    <2>1. ASSUME NEW e \in Flags, flags'[e] # None  PROVE OfGeneration(e, flags[e])'
      <3>1. CASE e = f
        BY <1>3, <1>4, <1>6, <1>7, <3>1 DEF OfGeneration
      <3>2. CASE e # f
        BY <1>6, <1>7, <2>1, <3>2 DEF IInv, Generations, OfGeneration
      <3> QED
        BY <3>1, <3>2
    <2>2. ASSUME NEW e \in Flags, cFlags'[e] # None  PROVE OfGeneration(e, cFlags[e])'
      <3>1. cFlags[e] \in FlagObjects /\ OfGeneration(e, cFlags[e])
        BY <1>1, <2>2, Types DEF IInv, Generations
      <3> QED
        BY <1>1, <1>10, <3>1 DEF OfGeneration
    <2>3. job # Idle => OfGeneration(job.flag, job.copy)'
      <3> SUFFICES ASSUME job # Idle  PROVE OfGeneration(job.flag, job.copy)'
        OBVIOUS
      <3>1. job.flag \in Flags /\ job.copy \in FlagObjects /\ OfGeneration(job.flag, job.copy)
        BY JobTyped DEF IInv, Generations
      <3> QED
        BY <1>1, <1>10, <3>1 DEF OfGeneration
    <2> QED
      BY <1>1, <2>1, <2>2, <2>3 DEF Generations
  <1>12. StatusIsOfOneGeneration'
    <2>1. ASSUME NEW e \in Flags, flags'[e] # None, flags'[e].status # NoStatus
          PROVE  LET st == flags'[e].status IN
                 /\ st.gen <= flags'[e].gen
                 /\ st.value = specAt'[e][st.gen].value
                 /\ (st.phase = "Disabled") <=> specAt'[e][st.gen].disabled
      <3>1. CASE e = f
        <4> DEFINE st == flags[f].status
        <4>1. flags'[e].status = st /\ st # NoStatus
          BY <1>4, <1>6, <2>1, <3>1
        <4>2. st.gen \in 1..MaxGen
          BY <1>3, <4>1 DEF Statuses
        <4>3. /\ st.gen <= flags[f].gen
              /\ st.value = specAt[f][st.gen].value
              /\ (st.phase = "Disabled") <=> specAt[f][st.gen].disabled
          BY <1>1, <4>1 DEF IInv, StatusIsOfOneGeneration
        <4> HIDE DEF st
        <4>4. st.gen <= flags'[e].gen /\ specAt'[e][st.gen] = specAt[f][st.gen]
          BY <1>3, <1>4, <1>6, <1>7, <3>1, <4>2, <4>3
        <4> QED
          BY <4>1, <4>3, <4>4
      <3>2. CASE e # f
        BY <1>6, <1>7, <2>1, <3>2 DEF IInv, StatusIsOfOneGeneration
      <3> QED
        BY <3>1, <3>2
    <2> QED
      BY <2>1 DEF StatusIsOfOneGeneration
  <1>13. TypeOK'
    BY <1>1, <1>6, <1>7, Types, Typed DEF IInv, TypeOK, Counts
  <1>14. AskedFor'
    <2>1. ASSUME NEW e \in Flags, NEW t \in Specs, WasGiven(e, t)  PROVE WasGiven(e, t)'
      <3>1. CASE e = f
        <4>1. flags[f].gen <= flags'[f].gen
          BY <1>3, <1>4, <1>6
        <4> QED
          BY <1>1, <1>7, <1>13, <2>1, <3>1, <4>1, GivenKeeps DEF IInv
      <3>2. CASE e # f
        BY <1>6, <1>7, <2>1, <3>2 DEF WasGiven
      <3> QED
        BY <3>1, <3>2
    <2> QED
      BY <1>1, <2>1, DeliveredKeeps
  <1>15. NothingForgotten'
    BY <1>1, <1>6 DEF IInv, NothingForgotten
  <1> QED
    BY <1>8, <1>9, <1>11, <1>12, <1>13, <1>14, <1>15 DEF IInv

-----------------------------------------------------------------------------
(* The theorems *)

LEMMA InitKeeps ==
  ASSUME Init
  PROVE  IInv
  <1>1. PICK init \in [Flags -> InitSpecs] :
          /\ flags = [f \in Flags |-> [rv |-> 1, gen |-> 1, spec |-> init[f],
                                       status |-> NoStatus]]
          /\ specAt = [f \in Flags |-> [g \in 1..MaxGen |-> init[f]]]
    BY DEF Init
  <1>2. /\ deps = [d \in Workloads |-> [rv |-> 1, env |-> [n \in EnvNames |-> None],
                                        hash |-> None]]
        /\ cm \in {None, [rv |-> 1, data |-> [k \in Keys |-> None]]}
        /\ cFlags = flags /\ cDeps = deps /\ cCm = cm
        /\ queue = Flags /\ job = Idle /\ now = 1
        /\ spent = [touches |-> 0, faults |-> 0, restarts |-> 0, resyncs |-> 0]
    BY DEF Init
  <1>3. 1 \in 1..MaxGen /\ \A f \in Flags : init[f] \in Specs
    BY OperatorConstants
  <1>4. \A f \in Flags : /\ flags[f] \in FlagObjects /\ flags[f].gen = 1 /\ flags[f].spec = init[f]
                         /\ flags[f].status = NoStatus
    BY <1>1, <1>3 DEF FlagObjects, Statuses
  <1>5. specAt \in [Flags -> [1..MaxGen -> Specs]] /\ \A f \in Flags : specAt[f][1] = init[f]
    BY <1>1, <1>3
  <1>6. deps \in [Workloads -> DepObjects] /\ \A d \in Workloads, n \in EnvNames : deps[d].env[n] = None
    BY <1>2 DEF DepObjects
  <1>7. cm \in ConfigMaps \cup {None} /\ (cm # None => \A k \in Keys : cm.data[k] = None)
    BY <1>2 DEF ConfigMaps
  <1>8. TypeOK
    <2>1. flags \in [Flags -> FlagObjects \cup {None}]
      BY <1>1, <1>4
    <2>2. spent \in [touches : 0..MaxTouches, faults : 0..MaxFaults, restarts : 0..MaxRestarts,
                     resyncs : 0..MaxResyncs]
      BY <1>2, OperatorConstants
    <2>3. now \in 1..MaxTime + 1
      BY <1>2, OperatorConstants
    <2> QED
      BY <1>2, <1>5, <1>6, <1>7, <2>1, <2>2, <2>3 DEF TypeOK
  <1>9. FlagCopies /\ DepCopies /\ CmCopies
    <2>1. FlagCopies
      BY <1>2, <1>4 DEF FlagCopies, OlderFlag, Older, FlagObjects
    <2>2. DepCopies
      BY <1>2, <1>6 DEF DepCopies, Older, DepObjects
    <2>3. CmCopies
      BY <1>2, <1>7 DEF CmCopies, Older, ConfigMaps
    <2> QED
      BY <2>1, <2>2, <2>3
  <1>10. Generations /\ JobAgrees
    BY <1>2, <1>4, <1>5 DEF Generations, OfGeneration, JobAgrees
  <1>11. AskedFor
    BY <1>6, <1>7 DEF AskedFor
  <1>12. StatusIsOfOneGeneration
    BY <1>4 DEF StatusIsOfOneGeneration
  <1>13. NothingForgotten
    BY <1>2 DEF NothingForgotten
  <1> QED
    BY <1>8, <1>9, <1>10, <1>11, <1>12, <1>13 DEF IInv

LEMMA StutterKeeps ==
  ASSUME IInv, UNCHANGED vars
  PROVE  IInv'
  <1>1. UNCHANGED <<flags, deps, cm, cFlags, cDeps, cCm, queue, job, now, specAt, spent>>
    BY DEF vars
  <1>2. DepCopies' /\ CmCopies' /\ AskedFor'
    BY <1>1, OthersStay, DeliveredStays
  <1>3. TypeOK'
    BY <1>1 DEF IInv, TypeOK
  <1> QED
    BY <1>1, <1>2, <1>3, AroundFlags DEF IInv

LEMMA NextKeeps ==
  ASSUME IInv, Next
  PROVE  IInv'
  <1>1. CASE Worker
    BY <1>1, StartKeeps, ListKeeps, DeliverEnvKeeps, EnvDoneKeeps, DeliverCmKeeps,
       WriteStatusKeeps DEF Worker
  <1>2. CASE \E f \in Flags : SyncFlag(f) \/ EditFlag(f) \/ DeleteFlag(f)
    BY <1>2, SyncFlagKeeps, EditFlagKeeps, DeleteFlagKeeps
  <1>3. CASE \E d \in Workloads : SyncDep(d) \/ Touch(d)
    BY <1>3, SyncDepKeeps, TouchKeeps
  <1>4. CASE SyncCm \/ Resync \/ Restart \/ Tick
    BY <1>4, SyncCmKeeps, ResyncKeeps, RestartKeeps, TickKeeps
  <1> QED
    BY <1>1, <1>2, <1>3, <1>4 DEF Next

\* The inductive invariant holds in every reachable state.
THEOREM Invariance == Spec => []IInv
  <1>1. Init => IInv
    BY InitKeeps
  <1>2. IInv /\ [Next]_vars => IInv'
    BY NextKeeps, StutterKeeps
  <1> QED
    BY <1>1, <1>2, PTL DEF Spec

\* Type correctness: objects, copies and the job in hand have their shapes, and no
\* bound is exceeded.
THEOREM Typing == Spec => []TypeOK
  <1>1. IInv => TypeOK
    BY DEF IInv
  <1> QED
    BY <1>1, Invariance, PTL

\* A status speaks of one generation of its flag and tells the truth about it
\* (updateStatus writes what its Reconcile read, on that very version).
THEOREM StatusOfOneGeneration == Spec => []StatusIsOfOneGeneration
  <1>1. IInv => StatusIsOfOneGeneration
    BY DEF IInv
  <1> QED
    BY <1>1, Invariance, PTL

\* No flag with an unreported generation is lost between event, queue and worker
\* (Reconcile returns the error of the status write, so the name is queued again).
THEOREM NothingIsForgotten == Spec => []NothingForgotten
  <1>1. IInv => NothingForgotten
    BY DEF IInv
  <1> QED
    BY <1>1, Invariance, PTL

\* Every delivered value was that of a generation that asked for just this delivery.
THEOREM DeliveredAsked == Spec => []DeliveredWasAskedFor
  <1>1. ASSUME IInv  PROVE DeliveredWasAskedFor
    <2>1. ASSUME NEW d \in Workloads, NEW n \in EnvNames, deps[d].env[n] # None
          PROVE  \E f \in Flags, g \in 1..MaxGen :
                   LET s == specAt[f][g] IN
                   EnvName[f] = n /\ s.value = deps[d].env[n] /\ d \in s.select /\ ~s.disabled
      <3>1. PICK f \in Flags, s \in Specs :
               /\ WasGiven(f, s) /\ ~s.disabled
               /\ EnvName[f] = n /\ s.value = deps[d].env[n] /\ d \in s.select
        BY <1>1, <2>1 DEF IInv, AskedFor
      <3>2. PICK g \in 1..MaxGen : specAt[f][g] = s
        BY <3>1 DEF WasGiven
      <3> QED
        BY <3>1, <3>2
    <2>2. ASSUME NEW k \in Keys, cm # None, cm.data[k] # None
          PROVE  \E f \in Flags, g \in 1..MaxGen :
                   LET s == specAt[f][g] IN
                   Key[f] = k /\ s.value = cm.data[k] /\ s.cm /\ ~s.disabled
      <3>1. PICK f \in Flags, s \in Specs :
               /\ WasGiven(f, s) /\ ~s.disabled
               /\ Key[f] = k /\ s.value = cm.data[k] /\ s.cm
        BY <1>1, <2>2 DEF IInv, AskedFor
      <3>2. PICK g \in 1..MaxGen : specAt[f][g] = s
        BY <3>1 DEF WasGiven
      <3> QED
        BY <3>1, <3>2
    <2> QED
      BY <2>1, <2>2 DEF DeliveredWasAskedFor
  <1> QED
    BY <1>1, Invariance, PTL

\* A status is never written over a version of the flag its Reconcile has not seen.
THEOREM StatusFresh == Spec => StatusIsWrittenFresh
  <1> DEFINE Fresh == \A f \in Flags :
               flags[f] # None /\ flags'[f] # None /\ flags'[f].status # flags[f].status =>
                 flags'[f].status.gen = flags[f].gen
  <1>1. ASSUME IInv, Next  PROVE Fresh
    <2>1. CASE WriteStatus
      <3> DEFINE f == job.flag
      <3>1. job # Idle /\ f \in Flags /\ job.copy \in FlagObjects
        BY <1>1, <2>1, RunningJob, JobTyped DEF IInv, WriteStatus
      <3>2. flags \in [Flags -> FlagObjects \cup {None}]
        BY <1>1, Types DEF IInv
      <3>3. CASE flags' = flags
        BY <3>3
      <3>4. CASE /\ Current(flags[f], job.copy)
                 /\ flags' = [flags EXCEPT ![f] = [Bump(@) EXCEPT !.status = NewStatus]]
        <4>1. flags[f] = job.copy
          BY <1>1, <3>1, <3>4, NoneIsNoThing DEF IInv, FlagCopies, OlderFlag, Older, Current
        <4>2. NewStatus.gen = job.copy.gen
          BY DEF NewStatus
        <4>3. flags'[f] = [Bump(flags[f]) EXCEPT !.status = NewStatus]
          BY <3>1, <3>2, <3>4
        <4>4. Bump(flags[f]) \in FlagObjects
          BY <3>1, <4>1, BumpedFlag
        <4>5. flags'[f].status = NewStatus
          BY <4>3, <4>4 DEF FlagObjects
        <4>6. \A e \in Flags \ {f} : flags'[e] = flags[e]
          BY <3>2, <3>4
        <4> HIDE DEF f
        <4> QED
          BY <4>1, <4>2, <4>5, <4>6
      <3> QED
        BY <2>1, <3>3, <3>4 DEF WriteStatus
    <2>2. ASSUME NEW f \in Flags, EditFlag(f)  PROVE Fresh
      <3>1. flags[f] \in FlagObjects /\ flags[f].gen < MaxGen
        BY <1>1, <2>2, Types DEF IInv, EditFlag
      <3>2. PICK s \in Specs :
              flags' = [flags EXCEPT ![f] = [Bump(flags[f]) EXCEPT !.gen = @ + 1, !.spec = s]]
        BY <2>2 DEF EditFlag
      <3>3. PICK new \in FlagObjects : flags' = [flags EXCEPT ![f] = new]
                                       /\ new.status = flags[f].status
        BY <3>1, <3>2, EditedFlag
      <3> QED
        BY <1>1, <3>3, Types DEF IInv
    <2>3. ASSUME NEW f \in Flags, DeleteFlag(f)  PROVE Fresh
      BY <1>1, <2>3, Types DEF IInv, DeleteFlag
    <2>4. flags' = flags \/ WriteStatus \/ \E f \in Flags : EditFlag(f) \/ DeleteFlag(f)
      BY <1>1 DEF Next, Worker, Start, List, DeliverEnv, EnvDone, DeliverCm, SyncFlag, SyncDep,
         SyncCm, Resync, Touch, Restart, Tick, server
    <2> QED
      BY <2>1, <2>2, <2>3, <2>4
  <1>2. IInv /\ [Next]_vars => [Fresh]_vars
    BY <1>1
  <1> QED
    BY <1>2, Invariance, PTL DEF Spec, StatusIsWrittenFresh

\* A delivery changes its own variable or key in its own targets only, although it
\* writes whole objects from copies that may be old.
THEOREM Isolated == Spec => DeliveryIsolated
  <1> DEFINE Env == \A d \in Workloads, n \in EnvNames :
                      deps'[d].env[n] # deps[d].env[n] =>
                        n = EnvName[job.flag] /\ d \in job.copy.spec.select
             Map == cm # None => \A k \in Keys : cm'.data[k] # cm.data[k] => k = Key[job.flag]
  <1>1. ASSUME IInv, Next, Delivery  PROVE Env /\ Map
    <2>1. CASE \E d \in Workloads : DeliverEnv(d)
      <3>1. PICK d \in Workloads : DeliverEnv(d)
        BY <2>1
      <3> DEFINE old == job.items[d]
                 v == job.copy.spec.value
                 n == EnvName[job.flag]
      <3>2. /\ job # Idle /\ d \in DOMAIN job.items /\ cm' = cm
            /\ \/ deps' = deps
               \/ Current(deps[d], old) /\ deps' = [deps EXCEPT ![d] = Injected(old, job.flag, v)]
        BY <3>1, RunningJob DEF DeliverEnv
      <3>3. /\ old \in DepObjects /\ job.flag \in Flags /\ v \in Values
            /\ d \in job.copy.spec.select /\ deps \in [Workloads -> DepObjects]
        BY <1>1, <3>2, Types, JobTyped, SpecTyped DEF IInv, JobAgrees
      <3>4. CASE Current(deps[d], old) /\ deps' = [deps EXCEPT ![d] = Injected(old, job.flag, v)]
        <4>1. deps[d] = old
          BY <1>1, <3>2, <3>4 DEF IInv, DepCopies, Older, Current
        <4>2. /\ deps'[d] = Injected(old, job.flag, v)
              /\ \A c \in Workloads \ {d} : deps'[c] = deps[c]
          BY <3>3, <3>4
        <4> HIDE DEF old, v
        <4>3. \A m \in EnvNames \ {n} : Injected(old, job.flag, v).env[m] = old.env[m]
          BY <3>3, InjectedTyped
        <4>4. Env
          BY <3>3, <4>1, <4>2, <4>3
        <4> QED
          BY <3>2, <4>4
      <3> QED
        BY <3>2, <3>4
    <2>2. CASE DeliverCm
      <3> DEFINE k == Key[job.flag]
                 v == job.copy.spec.value
      <3>1. deps' = deps
        BY <2>2 DEF DeliverCm
      <3>2. ASSUME cm # None, cm' # cm, NEW j \in Keys, j # k  PROVE cm'.data[j] = cm.data[j]
        <4>1. cCm # None /\ Current(cm, cCm) /\ cm' = [Bump(cCm) EXCEPT !.data[k] = v]
          BY <2>2, <3>2 DEF DeliverCm
        <4>2. cm = cCm /\ cCm \in ConfigMaps
          BY <1>1, <4>1, Types DEF IInv, CmCopies, Older, Current
        <4>3. Bump(cCm) = [cCm EXCEPT !.rv = cCm.rv + 1]
          BY DEF Bump
        <4>4. Bump(cCm) \in ConfigMaps /\ Bump(cCm).data = cCm.data
          BY <4>2, <4>3 DEF ConfigMaps
        <4> HIDE DEF k, v
        <4>5. cm'.data = [cCm.data EXCEPT ![k] = v]
          BY <4>1, <4>4 DEF ConfigMaps
        <4>6. cCm.data \in [Keys -> Values \cup {None}]
          BY <4>2 DEF ConfigMaps
        <4> QED
          BY <3>2, <4>2, <4>5, <4>6
      <3> QED
        BY <3>1, <3>2
    <2>3. CASE \E d \in Workloads : Touch(d)
      <3>1. spent.touches + 1 # spent.touches /\ spent'.touches = spent.touches + 1
        BY <1>1, <2>3 DEF IInv, TypeOK, Touch
      <3> QED
        BY <1>1, <3>1 DEF Delivery
    <2>4. CASE deps' = deps /\ cm' = cm
      BY <2>4
    <2>5. \/ \E d \in Workloads : DeliverEnv(d) \/ Touch(d)
          \/ DeliverCm
          \/ deps' = deps /\ cm' = cm
      BY <1>1 DEF Next, Worker, Start, List, EnvDone, WriteStatus, SyncFlag, SyncDep,
         SyncCm, Resync, Restart, Tick, EditFlag, DeleteFlag, server
    <2> QED
      BY <2>1, <2>2, <2>3, <2>4, <2>5
  <1>2. IInv /\ [Next]_vars => [Delivery => Env /\ Map]_vars
    BY <1>1
  <1> QED
    BY <1>2, Invariance, PTL DEF Spec, DeliveryIsolated
=============================================================================
