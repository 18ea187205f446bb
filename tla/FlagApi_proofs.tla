--------------------------- MODULE FlagApi_proofs ---------------------------
(***************************************************************************)
(* Proofs about FlagApi: for any flags, requests, calls and values, with   *)
(* either audit backend.                                                   *)
(***************************************************************************)
EXTENDS FlagApiProps, TLAPS

\* A request has a call once it has arrived; it has been applied only after the
\* handler was done with its copy; a running handler has not replied.
Progress ==
  \A r \in Requests :
    /\ pc[r] = "idle" <=> call[r] = NoCall
    /\ pc[r] \in {"idle", "held"} => r \notin applied
    /\ pc[r] = "audit" => r \in applied
    /\ pc[r] \in {"idle", "held", "audit"} => reply[r] = "none"

\* A handler in mid-flight holds a copy, and is not a create.
Holding ==
  \A r \in Requests :
    pc[r] = "held" => held[r] # None /\ call[r].kind # "create"

\* No object is newer than the counter its version came from.
VersionsIssued ==
  \A f \in Flags : store[f] # None => store[f].rv <= rv

\* The inductive invariant.
IInv ==
  /\ TypeOK
  /\ Progress
  /\ Holding
  /\ VersionsIssued
  /\ CopiesAreVersions

\* The specs the handlers compute are specs.
LEMMA DesiredType ==
  ASSUME NEW c \in CallType, NEW s \in Specs
  PROVE  Desired(c, s) \in Specs
  BY FlagApiConstants DEF Desired, Toggled, Patched, Flip, Specs, CallType

\* A new flag has a spec.
LEMMA NewSpecType ==
  ASSUME NEW c \in CallType
  PROVE  NewSpec(c) \in Specs
  BY FlagApiConstants DEF NewSpec, Specs, CallType

\* What Put does: a spec is stored, under a version that is not older than any
\* other; either nothing changes or the version is new.
LEMMA PutEffect ==
  ASSUME TypeOK, VersionsIssued, NEW f \in Flags, NEW s \in Specs, Put(f, s)
  PROVE  /\ store' \in [Flags -> Objects \cup {None}]
         /\ rv' \in Nat
         /\ rv <= rv'
         /\ store'[f] # None
         /\ store'[f].spec = s
         /\ \A g \in Flags \ {f} : store'[g] = store[g]
         /\ \/ store' = store /\ rv' = rv
            \/ store'[f].rv = rv + 1 /\ rv' = rv + 1
         /\ \A g \in Flags : store'[g] # None => store'[g].rv <= rv'
  <1>1. CASE store[f] # None /\ store[f].spec = s
    BY <1>1 DEF Put, TypeOK, VersionsIssued, Objects
  <1>2. CASE ~(store[f] # None /\ store[f].spec = s)
    <2>1. /\ rv' = rv + 1
          /\ store' = [store EXCEPT ![f] = [rv |-> rv + 1, spec |-> s]]
      BY <1>2 DEF Put
    <2>2. [rv |-> rv + 1, spec |-> s] \in Objects
      BY DEF TypeOK, Objects
    <2>3. [rv |-> rv + 1, spec |-> s] # None
      BY <2>2, FlagApiConstants DEF Objects
    <2> QED
      BY <2>1, <2>2, <2>3 DEF TypeOK, VersionsIssued, Objects
  <1> QED
    BY <1>1, <1>2

-----------------------------------------------------------------------------
(* The invariant *)

\* A stored object either stays, goes, or is replaced under a version nobody
\* has seen.
StoreMoves ==
  /\ rv <= rv'
  /\ \A f \in Flags : \/ store'[f] = store[f]
                      \/ store'[f] = None
                      \/ store'[f].rv = rv + 1

\* ... and stays well typed.
StoreSound ==
  /\ StoreMoves
  /\ store' \in [Flags -> Objects \cup {None}]
  /\ rv' \in Nat
  /\ VersionsIssued'

\* Put moves the store.
LEMMA PutMoves ==
  ASSUME TypeOK, VersionsIssued, NEW f \in Flags, NEW s \in Specs, Put(f, s)
  PROVE  StoreMoves
  <1>1. /\ rv <= rv'
        /\ \A g \in Flags \ {f} : store'[g] = store[g]
        /\ \/ store' = store /\ rv' = rv
           \/ store'[f].rv = rv + 1 /\ rv' = rv + 1
    BY PutEffect
  <1> QED
    BY <1>1 DEF StoreMoves

\* Remove moves the store, and leaves it well typed.
LEMMA RemoveEffect ==
  ASSUME TypeOK, VersionsIssued, NEW f \in Flags, Remove(f)
  PROVE  /\ StoreSound
         /\ store'[f] = None
         /\ \A g \in Flags \ {f} : store'[g] = store[g]
  BY DEF StoreSound, Remove, StoreMoves, TypeOK, VersionsIssued, Objects

\* A running handler's call is one of Calls.
LEMMA CallOf ==
  ASSUME TypeOK, Progress, NEW r \in Requests, pc[r] # "idle"
  PROVE  /\ call[r] \in Calls
         /\ call[r] \in CallType
         /\ call[r].flag \in Flags
         /\ call[r] # NoCall
  BY FlagApiConstants DEF TypeOK, Progress, CallType

\* Whatever happens to the store, the copies handlers go on holding stay good.
LEMMA CopiesStay ==
  ASSUME TypeOK, Progress, Holding, VersionsIssued, CopiesAreVersions,
         StoreMoves, rv' \in Nat,
         \A q \in Requests : pc'[q] = "held" =>
           pc[q] = "held" /\ held'[q] = held[q] /\ call'[q] = call[q]
  PROVE  CopiesAreVersions' /\ Holding'
  <1>1. Holding'
    BY DEF Holding
  <1>2. ASSUME NEW q \in Requests, pc'[q] = "held"
        PROVE  CopyIsVersion(q)'
    <2> DEFINE f == call[q].flag
    <2>1. pc[q] = "held" /\ held'[q] = held[q] /\ call'[q] = call[q]
      BY <1>2
    <2>2. f \in Flags
      BY <2>1, CallOf
    <2>3. held[q] \in Objects /\ held[q].rv \in Nat /\ held[q].rv <= rv
      BY <2>1 DEF Holding, CopiesAreVersions, CopyIsVersion, TypeOK, Objects
    <2>4. Current(f, held[q]) => store[f].spec = held[q].spec
      BY <2>1 DEF CopiesAreVersions, CopyIsVersion
    <2>5. call[q].kind = "toggle" => held[q].spec.type = "boolean"
      BY <2>1 DEF CopiesAreVersions, CopyIsVersion
    <2>6. held[q].rv <= rv'
      BY <2>3 DEF StoreMoves, TypeOK
    <2>7. (store'[f] # None /\ store'[f].rv = held[q].rv) => store'[f] = store[f]
      BY <2>2, <2>3 DEF StoreMoves, TypeOK
    <2>8. (store'[f] # None /\ store'[f].rv = held[q].rv) => store'[f].spec = held[q].spec
      BY <2>4, <2>7 DEF Current
    <2> QED
      BY <2>1, <2>5, <2>6, <2>8 DEF Current, CopyIsVersion
  <1>3. CopiesAreVersions'
    BY <1>2 DEF CopiesAreVersions
  <1> QED
    BY <1>1, <1>3

\* Leaving the cluster alone moves nothing.
LEMMA ClusterStays ==
  ASSUME TypeOK, VersionsIssued, UNCHANGED cluster
  PROVE  StoreSound /\ outside' \in [Flags -> 0..MaxOutside]
  BY DEF StoreSound, StoreMoves, TypeOK, VersionsIssued, cluster

\* The invariant holds at the start.
LEMMA InitInv == Init => IInv
  <1> SUFFICES ASSUME Init PROVE IInv
    OBVIOUS
  <1>1. TypeOK
    BY FlagApiConstants DEF Init, TypeOK, Objects, Specs
  <1>2. Progress /\ Holding /\ CopiesAreVersions
    <2>1. \A r \in Requests : pc[r] = "idle" /\ call[r] = NoCall /\ reply[r] = "none"
      BY DEF Init
    <2> QED
      BY <2>1 DEF Init, Progress, Holding, CopiesAreVersions
  <1>3. VersionsIssued
    <2> SUFFICES ASSUME NEW f \in Flags, store[f] # None
                 PROVE  store[f].rv <= rv
      BY DEF VersionsIssued
    <2>1. store[f] \in [rv : {1}, spec : InitSpecs]
      BY DEF Init
    <2> QED
      BY <2>1 DEF Init
  <1> QED
    BY <1>1, <1>2, <1>3 DEF IInv

\* Create keeps the invariant: it never holds a copy.
LEMMA CreateInv ==
  ASSUME IInv, NEW r \in Requests, NEW c \in Calls, Create(r, c)
  PROVE  IInv'
  <1>1. c \in CallType /\ c.flag \in Flags /\ c # NoCall
    BY FlagApiConstants DEF CallType
  <1>2. NewSpec(c) \in Specs
    BY <1>1, NewSpecType
  <1>3. StoreSound
    <2>1. CASE Put(c.flag, NewSpec(c))
      BY <1>1, <1>2, <2>1, PutEffect, PutMoves DEF IInv, StoreSound, VersionsIssued
    <2>2. CASE UNCHANGED <<store, rv>>
      BY <2>2 DEF IInv, TypeOK, StoreSound, StoreMoves, VersionsIssued
    <2> QED
      BY <2>1, <2>2 DEF Create
  <1>4. TypeOK'
    BY <1>1, <1>3 DEF IInv, StoreSound, TypeOK, Create, Arrive, Accepted, Answer
  <1>5. Progress'
    BY <1>1 DEF IInv, TypeOK, Progress, Create, Arrive, Accepted, Answer
  <1>6. \A q \in Requests : pc'[q] = "held" =>
          pc[q] = "held" /\ held'[q] = held[q] /\ call'[q] = call[q]
    BY DEF IInv, TypeOK, Create, Arrive, Accepted, Answer
  <1> QED
    BY <1>3, <1>4, <1>5, <1>6, CopiesStay DEF IInv, StoreSound

\* Get keeps the invariant: the copy it takes is the stored object.
LEMMA GetInv ==
  ASSUME IInv, NEW r \in Requests, NEW c \in Calls, Get(r, c)
  PROVE  IInv'
  <1>1. c \in CallType /\ c.flag \in Flags /\ c # NoCall
    BY FlagApiConstants DEF CallType
  <1>2. StoreMoves /\ VersionsIssued' /\ store' = store /\ rv' = rv
    BY ClusterStays DEF IInv, StoreSound, Get, cluster
  <1>3. TypeOK'
    BY <1>1 DEF IInv, TypeOK, Get, Arrive, Answer, cluster
  <1>4. Progress'
    BY <1>1 DEF IInv, TypeOK, Progress, Get, Arrive, Answer
  <1>5. ASSUME NEW q \in Requests, pc'[q] = "held"
        PROVE  CopyIsVersion(q)' /\ held'[q] # None /\ call'[q].kind # "create"
    <2>1. CASE q # r
      <3>1. pc[q] = "held" /\ held'[q] = held[q] /\ call'[q] = call[q]
        BY <2>1, <1>5 DEF IInv, TypeOK, Get, Arrive, Answer
      <3> QED
        BY <3>1, <1>2 DEF IInv, Holding, CopiesAreVersions, CopyIsVersion, Current
    <2>2. CASE q = r
      <3>1. /\ store[c.flag] # None
            /\ held'[r] = store[c.flag]
            /\ call'[r] = c
            /\ c.kind = "toggle" => store[c.flag].spec.type = "boolean"
        BY <2>2, <1>5 DEF IInv, TypeOK, Get, Arrive, Answer
      <3>2. store[c.flag].rv <= rv
        BY <3>1, <1>1 DEF IInv, VersionsIssued
      <3> QED
        BY <3>1, <3>2, <2>2, <1>2 DEF CopyIsVersion, Current, Get
    <2> QED
      BY <2>1, <2>2
  <1> QED
    BY <1>2, <1>3, <1>4, <1>5 DEF IInv, Holding, CopiesAreVersions

\* What Write does to the cluster.
LEMMA WriteEffect ==
  ASSUME IInv, NEW r \in Requests, Write(r)
  PROVE  StoreSound
  <1> DEFINE f == call[r].flag
  <1>1. /\ pc[r] = "held"
        /\ \/ Put(f, Desired(call[r], held[r].spec))
           \/ UNCHANGED <<store, rv>>
    BY DEF Write
  <1>2. f \in Flags /\ call[r] \in CallType
    BY <1>1, CallOf DEF IInv
  <1>3. held[r] \in Objects
    BY <1>1 DEF IInv, TypeOK, Holding
  <1>4. Desired(call[r], held[r].spec) \in Specs
    BY <1>2, <1>3, DesiredType DEF Objects
  <1>5. CASE Put(f, Desired(call[r], held[r].spec))
    <2> HIDE DEF f
    <2> QED
      BY <1>2, <1>4, <1>5, PutEffect, PutMoves DEF IInv, StoreSound, VersionsIssued
  <1>6. CASE UNCHANGED <<store, rv>>
    BY <1>6 DEF IInv, TypeOK, StoreSound, StoreMoves, VersionsIssued
  <1> QED
    BY <1>1, <1>5, <1>6

\* What Delete does to the cluster.
LEMMA DeleteEffect ==
  ASSUME IInv, NEW r \in Requests, Delete(r)
  PROVE  StoreSound
  <1>1. call[r].flag \in Flags
    BY CallOf DEF IInv, Delete
  <1>2. CASE Remove(call[r].flag)
    BY <1>1, <1>2, RemoveEffect DEF IInv
  <1>3. CASE UNCHANGED <<store, rv>>
    BY <1>3 DEF IInv, TypeOK, StoreSound, StoreMoves, VersionsIssued
  <1> QED
    BY <1>2, <1>3 DEF Delete

\* Every step of a running handler keeps the invariant.
LEMMA HandlerInv ==
  ASSUME IInv, NEW r \in Requests, Handler(r)
  PROVE  IInv'
  <1>1. StoreSound
    <2>1. CASE Write(r)
      BY <2>1, WriteEffect
    <2>2. CASE Delete(r)
      BY <2>2, DeleteEffect
    <2>3. CASE UNCHANGED cluster
      BY <2>3, ClusterStays DEF IInv
    <2> QED
      BY <2>1, <2>2, <2>3 DEF Handler, RefuseBody, CallFails, Audit
  <1>2. TypeOK'
    BY <1>1 DEF IInv, StoreSound, TypeOK, Handler, RefuseBody, Write, Delete, CallFails, Audit,
                Accepted, Answer, cluster
  <1>3. Progress'
    BY DEF IInv, TypeOK, Progress, Handler, RefuseBody, Write, Delete, CallFails,
           Audit, Accepted, Answer
  <1>4. \A q \in Requests : pc'[q] = "held" =>
          pc[q] = "held" /\ held'[q] = held[q] /\ call'[q] = call[q]
    BY DEF IInv, TypeOK, Handler, RefuseBody, Write, Delete, CallFails, Audit,
           Accepted, Answer
  <1> QED
    BY <1>1, <1>2, <1>3, <1>4, CopiesStay DEF IInv, StoreSound

\* A write from outside keeps the invariant.
LEMMA OutsideInv ==
  ASSUME IInv, NEW f \in Flags, StatusWrite(f) \/ Edit(f)
  PROVE  IInv'
  <1>1. StoreSound
    <2>1. CASE StatusWrite(f)
      BY <2>1 DEF IInv, TypeOK, VersionsIssued, StatusWrite,
                  StoreSound, StoreMoves, Objects
    <2>2. ASSUME NEW s \in EditSpecs, Put(f, s)
          PROVE  StoreSound
      <3>1. s \in Specs
        BY FlagApiConstants
      <3> QED
        BY <2>2, <3>1, PutEffect, PutMoves DEF IInv, StoreSound, VersionsIssued
    <2>3. CASE Remove(f)
      BY <2>3, RemoveEffect DEF IInv
    <2> QED
      BY <2>1, <2>2, <2>3 DEF Edit
  <1>2. outside' \in [Flags -> 0..MaxOutside]
    <2>1. outside[f] + 1 \in 0..MaxOutside
      BY FlagApiConstants DEF IInv, TypeOK, StatusWrite, Edit, OutsideWrite
    <2> QED
      BY <2>1 DEF IInv, TypeOK, StatusWrite, Edit, OutsideWrite
  <1>3. UNCHANGED <<pc, call, held, reply, applied, audited>>
    BY DEF StatusWrite, Edit, OutsideWrite
  <1>4. TypeOK' /\ Progress'
    BY <1>1, <1>2, <1>3 DEF IInv, StoreSound, TypeOK, Progress
  <1> QED
    BY <1>1, <1>3, <1>4, CopiesStay DEF IInv, StoreSound

\* A restart keeps the invariant: it leaves no handler running.
LEMMA RestartInv ==
  ASSUME IInv, Restart
  PROVE  IInv'
  <1>1. StoreMoves /\ VersionsIssued' /\ rv' \in Nat
    BY ClusterStays DEF IInv, StoreSound, Restart
  <1>2. TypeOK' /\ Progress'
    BY DEF IInv, TypeOK, Progress, Restart, cluster
  <1>3. \A q \in Requests : pc'[q] # "held"
    BY DEF Restart
  <1> QED
    BY <1>1, <1>2, <1>3 DEF IInv, Holding, CopiesAreVersions

\* The invariant is inductive.
LEMMA NextInv == IInv /\ [Next]_vars => IInv'
  <1> SUFFICES ASSUME IInv, [Next]_vars PROVE IInv'
    OBVIOUS
  <1>1. ASSUME NEW r \in Requests, NEW c \in Calls, Create(r, c) \/ Get(r, c)
        PROVE  IInv'
    BY <1>1, CreateInv, GetInv
  <1>2. ASSUME NEW r \in Requests, Handler(r)
        PROVE  IInv'
    BY <1>2, HandlerInv
  <1>3. ASSUME NEW f \in Flags, StatusWrite(f) \/ Edit(f)
        PROVE  IInv'
    BY <1>3, OutsideInv
  <1>4. CASE Restart
    BY <1>4, RestartInv
  <1>5. CASE UNCHANGED vars
    BY <1>5 DEF vars, IInv, TypeOK, Progress, Holding, VersionsIssued,
                CopiesAreVersions, CopyIsVersion, Current
  <1> QED
    BY <1>1, <1>2, <1>3, <1>4, <1>5 DEF Next

-----------------------------------------------------------------------------
(* The theorems *)

\* The inductive invariant holds throughout.
LEMMA Invariance == Spec => []IInv
  BY InitInv, NextInv, PTL DEF Spec

\* Type correctness of the handlers' state.
THEOREM Typing == Spec => []TypeOK
  BY Invariance, PTL DEF IInv

\* A version names one content (the optimistic check of flags.go is enough).
THEOREM CopiesSound == Spec => []CopiesAreVersions
  BY Invariance, PTL DEF IInv

\* Only Write commits an update or a toggle.
LEMMA CommitIsWrite ==
  ASSUME IInv, [Next]_vars, NEW r \in Requests,
         Commits(r), call[r] # NoCall, call[r].kind \in {"update", "toggle"}
  PROVE  Write(r) /\ Current(call[r].flag, held[r])
  <1>1. pc[r] # "idle"
    BY DEF IInv, Progress
  <1>2. ASSUME NEW q \in Requests, NEW c \in Calls, Create(q, c) \/ Get(q, c)
        PROVE  FALSE
    <2>1. q # r
      BY <1>1, <1>2 DEF Create, Get, Arrive
    <2> QED
      BY <1>2, <2>1 DEF Create, Get, Accepted, Commits
  <1>3. ASSUME NEW q \in Requests, Handler(q)
        PROVE  Write(r) /\ Current(call[r].flag, held[r])
    <2>1. CASE Write(q)
      <3>1. q = r
        BY <2>1 DEF Write, Accepted, Commits
      <3> QED
        BY <2>1, <3>1 DEF Write, Commits
    <2>2. CASE Delete(q)
      <3>1. q # r
        BY <2>2 DEF Delete
      <3> QED
        BY <2>2, <3>1 DEF Delete, Accepted, Commits
    <2> QED
      BY <1>3, <2>1, <2>2 DEF Handler, RefuseBody, CallFails, Audit, Commits
  <1>4. CASE \E f \in Flags : StatusWrite(f) \/ Edit(f)
    BY <1>4 DEF StatusWrite, Edit, OutsideWrite, Commits
  <1>5. CASE Restart \/ UNCHANGED vars
    BY <1>5 DEF Restart, vars, Commits
  <1> QED
    BY <1>2, <1>3, <1>4, <1>5 DEF Next

\* No PUT or toggle undoes a concurrent write (Update and Toggle, flags.go).
THEOREM NoLostUpdateHolds == Spec => NoLostUpdate
  <1> DEFINE Atomic(r) ==
        Commits(r) /\ call[r] # NoCall /\ call[r].kind \in {"update", "toggle"} =>
          LET f == call[r].flag IN
          /\ store[f] # None
          /\ store'[f] # None
          /\ store'[f].spec = Desired(call[r], store[f].spec)
  <1>1. ASSUME IInv, [Next]_vars, NEW r \in Requests PROVE Atomic(r)
    <2> SUFFICES ASSUME Commits(r), call[r] # NoCall, call[r].kind \in {"update", "toggle"},
                        NEW f, f = call[r].flag
                 PROVE  /\ store[f] # None
                        /\ store'[f] # None
                        /\ store'[f].spec = Desired(call[r], store[f].spec)
      OBVIOUS
    <2>1. Write(r) /\ Current(f, held[r])
      BY <1>1, CommitIsWrite
    <2>2. pc[r] = "held" /\ f \in Flags /\ call[r] \in CallType
      BY <1>1, <2>1, CallOf DEF Write, IInv
    <2>3. store[f] # None /\ store[f].spec = held[r].spec /\ held[r].spec \in Specs
      BY <1>1, <2>1, <2>2 DEF IInv, CopiesAreVersions, CopyIsVersion, Current,
                              TypeOK, Objects
    <2>4. Put(f, Desired(call[r], held[r].spec))
      BY <2>1 DEF Write
    <2>5. store'[f] # None /\ store'[f].spec = Desired(call[r], held[r].spec)
      BY <1>1, <2>2, <2>3, <2>4, DesiredType, PutEffect DEF IInv
    <2> QED
      BY <2>3, <2>5
  <1>2. IInv /\ [Next]_vars => [\A r \in Requests : Atomic(r)]_vars
    BY <1>1
  <1> QED
    BY <1>2, Invariance, PTL DEF Spec, NoLostUpdate

\* A 2xx means the change was made; a 400, a 404 or a conflict that it was not.
THEOREM HonestReplies == Spec => []RepliesAreHonest
  <1>1. Init => RepliesAreHonest
    BY DEF Init, RepliesAreHonest
  <1>2. ASSUME IInv, RepliesAreHonest, [Next]_vars
        PROVE  RepliesAreHonest'
    <2>1. ASSUME NEW r \in Requests, NEW c \in Calls, Create(r, c) \/ Get(r, c)
          PROVE  RepliesAreHonest'
      BY <1>2, <2>1 DEF IInv, TypeOK, Progress, RepliesAreHonest, Create, Get, Arrive,
                        Accepted, Answer
    <2>2. ASSUME NEW r \in Requests, Handler(r)
          PROVE  RepliesAreHonest'
      BY <1>2, <2>2 DEF IInv, TypeOK, Progress, RepliesAreHonest, Handler, RefuseBody,
                        Write, Delete, CallFails, Audit, Accepted, Answer
    <2>3. CASE UNCHANGED <<reply, applied>>
      BY <1>2, <2>3 DEF RepliesAreHonest
    <2> QED
      BY <1>2, <2>1, <2>2, <2>3 DEF Next, StatusWrite, Edit, OutsideWrite, Restart, vars
  <1> QED
    BY <1>1, <1>2, Invariance, PTL DEF Spec

\* The audit log names only changes that were made, and with the memory store
\* all those the running server has confirmed.
THEOREM ExactAudit == Spec => []AuditIsExact
  <1>1. Init => AuditIsExact
    BY DEF Init, AuditIsExact
  <1>2. ASSUME IInv, AuditIsExact, [Next]_vars
        PROVE  AuditIsExact'
    <2>1. ASSUME NEW r \in Requests, NEW c \in Calls, Create(r, c) \/ Get(r, c)
          PROVE  AuditIsExact'
      BY <1>2, <2>1 DEF IInv, TypeOK, AuditIsExact, Create, Get, Accepted, Answer
    <2>2. ASSUME NEW r \in Requests, Handler(r)
          PROVE  AuditIsExact'
      BY <1>2, <2>2 DEF IInv, TypeOK, Progress, AuditIsExact, Handler, RefuseBody,
                        Write, Delete, CallFails, Audit, Accepted, Answer
    <2>3. CASE Restart
      BY <1>2, <2>3 DEF AuditIsExact, Restart
    <2>4. CASE UNCHANGED <<pc, reply, applied, audited>>
      BY <1>2, <2>4 DEF AuditIsExact
    <2> QED
      BY <1>2, <2>1, <2>2, <2>3, <2>4 DEF Next, StatusWrite, Edit, OutsideWrite, vars
  <1> QED
    BY <1>1, <1>2, Invariance, PTL DEF Spec

-----------------------------------------------------------------------------
(* Conflicts *)

\* Someone else has written the flag of r.
Raced(r) ==
  \/ outside[call[r].flag] > 0
  \/ \E q \in Requests \ {r} : q \in applied /\ call[q].flag = call[r].flag

\* As long as nobody else writes its flag, a handler's copy stays current.
RaceInv ==
  /\ \A r \in Requests : reply[r] = "conflict" => Raced(r)
  /\ \A r \in Requests : pc[r] = "held" => Current(call[r].flag, held[r]) \/ Raced(r)

\* Nothing makes a race unhappen.
LEMMA RacedStays ==
  ASSUME IInv, [Next]_vars, NEW r \in Requests, call[r] # NoCall, Raced(r)
  PROVE  Raced(r)' /\ call'[r] = call[r]
  <1>1. \A q \in Requests : call[q] # NoCall => call'[q] = call[q]
    BY DEF IInv, TypeOK, Progress, Next, Create, Get, Arrive, Handler, RefuseBody, Write,
           Delete, CallFails, Audit, StatusWrite, Edit, OutsideWrite, Restart, vars
  <1>2. applied \subseteq applied'
    BY DEF Next, Create, Get, Accepted, Handler, RefuseBody, Write, Delete, CallFails,
           Audit, StatusWrite, Edit, OutsideWrite, Restart, vars
  <1>3. \A f \in Flags : outside[f] > 0 => outside'[f] > 0
    <2>1. CASE UNCHANGED outside
      BY <2>1
    <2>2. ASSUME NEW f \in Flags, OutsideWrite(f)
          PROVE  \A g \in Flags : outside[g] > 0 => outside'[g] > 0
      BY <2>2, FlagApiConstants DEF OutsideWrite, IInv, TypeOK
    <2> QED
      BY <2>1, <2>2 DEF Next, Create, Get, Handler, RefuseBody, Write, Delete, CallFails,
                        Audit, StatusWrite, Edit, Restart, vars, cluster
  <1>4. call[r].flag \in Flags
    BY CallOf DEF IInv, Progress
  <1>5. CASE outside[call[r].flag] > 0
    BY <1>1, <1>3, <1>4, <1>5 DEF Raced
  <1>6. ASSUME NEW q \in Requests \ {r}, q \in applied, call[q].flag = call[r].flag
        PROVE  Raced(r)'
    <2>1. call[q] # NoCall
      BY <1>6 DEF IInv, Progress
    <2> QED
      BY <1>1, <1>2, <1>6, <2>1 DEF Raced
  <1> QED
    BY <1>1, <1>5, <1>6 DEF Raced

\* Whoever changes a stored object is an outside writer or a request that is
\* applied from then on.
LEMMA WhoWrites ==
  ASSUME IInv, [Next]_vars, NEW f \in Flags, store'[f] # store[f]
  PROVE  \/ outside'[f] > 0
         \/ \E q \in Requests : q \in applied' /\ call'[q].flag = f /\ pc'[q] # "held"
  <1>1. ASSUME NEW r \in Requests, NEW c \in Calls, Create(r, c)
        PROVE  r \in applied' /\ call'[r].flag = f /\ pc'[r] # "held"
    <2>1. Put(c.flag, NewSpec(c)) /\ Accepted(r)
      BY <1>1 DEF Create
    <2>2. c.flag = f
      BY <2>1 DEF Put, IInv, TypeOK
    <2> QED
      BY <1>1, <2>1, <2>2 DEF Create, Arrive, Accepted, Answer, IInv, TypeOK
  <1>2. ASSUME NEW r \in Requests, Handler(r)
        PROVE  r \in applied' /\ call'[r].flag = f /\ pc'[r] # "held"
    <2>1. CASE Write(r)
      <3>1. Put(call[r].flag, Desired(call[r], held[r].spec)) /\ Accepted(r)
        BY <2>1 DEF Write
      <3>2. call[r].flag = f
        BY <3>1 DEF Put, IInv, TypeOK
      <3> QED
        BY <2>1, <3>1, <3>2 DEF Write, Accepted, Answer, IInv, TypeOK
    <2>2. CASE Delete(r)
      <3>1. Remove(call[r].flag) /\ Accepted(r)
        BY <2>2 DEF Delete
      <3>2. call[r].flag = f
        BY <3>1 DEF Remove, IInv, TypeOK
      <3> QED
        BY <2>2, <3>1, <3>2 DEF Delete, Accepted, Answer, IInv, TypeOK
    <2> QED
      BY <1>2, <2>1, <2>2 DEF Handler, RefuseBody, CallFails, Audit, cluster
  <1>3. ASSUME NEW g \in Flags, StatusWrite(g) \/ Edit(g)
        PROVE  outside'[f] > 0
    <2>1. f = g
      BY <1>3 DEF StatusWrite, Edit, Put, Remove, IInv, TypeOK
    <2> QED
      BY <1>3, <2>1, FlagApiConstants DEF StatusWrite, Edit, OutsideWrite, IInv, TypeOK
  <1>4. CASE UNCHANGED store
    BY <1>4
  <1> QED
    BY <1>1, <1>2, <1>3, <1>4 DEF Next, Get, Restart, vars, cluster

\* No write fails for want of a race.
THEOREM ConflictsAreRaces == Spec => []ConflictMeansRace
  <1>1. Init => RaceInv
    BY DEF Init, RaceInv
  <1>2. ASSUME IInv, IInv', RaceInv, [Next]_vars
        PROVE  RaceInv'
    <2>1. ASSUME NEW r \in Requests, reply'[r] = "conflict"
          PROVE  Raced(r)'
      <3>1. CASE reply[r] = "conflict"
        <4>1. Raced(r) /\ call[r] # NoCall
          BY <1>2, <3>1 DEF RaceInv, IInv, Progress
        <4> QED
          BY <1>2, <4>1, RacedStays
      <3>2. CASE reply[r] # "conflict"
        <4>1. Write(r) /\ ~Current(call[r].flag, held[r])
          BY <1>2, <2>1, <3>2 DEF Next, Create, Get, Arrive, Handler, RefuseBody, Write,
             Delete, CallFails, Audit, Accepted, Answer, StatusWrite, Edit, OutsideWrite,
             Restart, vars, IInv, TypeOK
        <4>2. Raced(r) /\ call[r] # NoCall
          BY <1>2, <4>1 DEF RaceInv, IInv, Progress, Write
        <4> QED
          BY <1>2, <4>2, RacedStays
      <3> QED
        BY <3>1, <3>2
    <2>2. ASSUME NEW r \in Requests, pc'[r] = "held"
          PROVE  Current(call[r].flag, held[r])' \/ Raced(r)'
      <3>1. CASE pc[r] = "held" /\ held'[r] = held[r] /\ call'[r] = call[r]
        <4>1. call[r] # NoCall /\ call[r].flag \in Flags
          BY <1>2, <3>1, CallOf DEF IInv
        <4>2. CASE Raced(r)
          BY <1>2, <4>1, <4>2, RacedStays
        <4>3. CASE Current(call[r].flag, held[r]) /\ store'[call[r].flag] = store[call[r].flag]
          BY <3>1, <4>3 DEF Current
        <4>4. CASE store'[call[r].flag] # store[call[r].flag]
          BY <1>2, <2>2, <3>1, <4>1, <4>4, WhoWrites DEF Raced
        <4> QED
          BY <1>2, <3>1, <4>2, <4>3, <4>4 DEF RaceInv
      <3>2. ASSUME NEW c \in Calls, Get(r, c)
            PROVE  Current(call[r].flag, held[r])'
        BY <1>2, <2>2, <3>2 DEF Get, Arrive, Answer, Current, IInv, TypeOK, cluster
      <3>3. \/ pc[r] = "held" /\ held'[r] = held[r] /\ call'[r] = call[r]
            \/ \E c \in Calls : Get(r, c)
        BY <1>2, <2>2 DEF Next, Create, Get, Arrive, Handler, RefuseBody, Write,
           Delete, CallFails, Audit, Accepted, Answer, StatusWrite, Edit, OutsideWrite,
           Restart, vars, IInv, TypeOK
      <3> QED
        BY <3>1, <3>2, <3>3
    <2> QED
      BY <2>1, <2>2 DEF RaceInv
  <1>3. RaceInv => ConflictMeansRace
    BY DEF RaceInv, Raced, ConflictMeansRace
  <1> QED
    BY <1>1, <1>2, <1>3, Invariance, PTL DEF Spec

-----------------------------------------------------------------------------
(* Refinement *)

\* The abstract view of a store in which only f may have changed.
LEMMA SpecsAfter ==
  ASSUME TypeOK, store' \in [Flags -> Objects \cup {None}], NEW f \in Flags,
         \A g \in Flags \ {f} : store'[g] = store[g]
  PROVE  StoredSpecs' =
           [StoredSpecs EXCEPT ![f] = IF store'[f] = None THEN None ELSE store'[f].spec]
  BY DEF StoredSpecs

\* The abstract view of the requests when r is applied.
LEMMA EffectsAfter ==
  ASSUME IInv, NEW r \in Requests, r \notin applied, applied' = applied \cup {r},
         \A q \in Requests : call[q] # NoCall => call'[q] = call[q]
  PROVE  /\ Effects[r] = NoCall
         /\ Effects' = [Effects EXCEPT ![r] = call'[r]]
  <1>1. \A q \in applied : call'[q] = call[q]
    BY DEF IInv, Progress, TypeOK
  <1> QED
    BY <1>1 DEF Effects

\* A create that is accepted performs itself in the register.
LEMMA CreateSimulates ==
  ASSUME IInv, NEW r \in Requests, NEW c \in Calls, Create(r, c)
  PROVE  Register!Perform(r, c) \/ UNCHANGED <<StoredSpecs, Effects>>
  <1>1. c \in CallType /\ c.flag \in Flags /\ NewSpec(c) \in Specs
    BY FlagApiConstants, NewSpecType DEF CallType
  <1>2. pc[r] = "idle" /\ call[r] = NoCall /\ r \notin applied
    BY DEF IInv, Progress, Create, Arrive
  <1>3. CASE store[c.flag] = None /\ Put(c.flag, NewSpec(c)) /\ Accepted(r)
    <2>1. /\ store'[c.flag] # None
          /\ store'[c.flag].spec = NewSpec(c)
          /\ store' \in [Flags -> Objects \cup {None}]
          /\ \A g \in Flags \ {c.flag} : store'[g] = store[g]
      BY <1>1, <1>3, PutEffect DEF IInv
    <2>2. StoredSpecs' = [StoredSpecs EXCEPT ![c.flag] = NewSpec(c)]
      BY <1>1, <2>1, SpecsAfter DEF IInv
    <2>3. StoredSpecs[c.flag] = None
      BY <1>1, <1>3 DEF StoredSpecs
    <2>4. /\ call'[r] = c
          /\ \A q \in Requests : call[q] # NoCall => call'[q] = call[q]
          /\ applied' = applied \cup {r}
      BY <1>2, <1>3 DEF Create, Arrive, Accepted, IInv, TypeOK
    <2>5. Effects[r] = NoCall /\ Effects' = [Effects EXCEPT ![r] = c]
      BY <1>2, <2>4, EffectsAfter
    <2> QED
      BY <2>2, <2>3, <2>5 DEF Create, Register!Perform, Register!Change
  <1>4. CASE UNCHANGED <<store, rv, applied>>
    <2>1. \A q \in applied : call'[q] = call[q]
      BY <1>2 DEF Create, Arrive, IInv, TypeOK
    <2> QED
      BY <1>4, <2>1 DEF StoredSpecs, Effects
  <1> QED
    BY <1>3, <1>4 DEF Create

\* An update or toggle that is accepted performs itself on the current flag.
LEMMA WriteSimulates ==
  ASSUME IInv, NEW r \in Requests, Write(r)
  PROVE  Register!Perform(r, call[r]) \/ UNCHANGED <<StoredSpecs, Effects>>
  <1> DEFINE c == call[r]  f == c.flag
  <1>1. c \in Calls /\ c \in CallType /\ f \in Flags /\ c # NoCall /\ r \notin applied
    BY CallOf DEF IInv, Progress, Write
  <1>2. CASE Current(f, held[r]) /\ Put(f, Desired(c, held[r].spec)) /\ Accepted(r)
    <2>1. /\ store[f] # None
          /\ store[f].spec = held[r].spec
          /\ held[r].spec \in Specs
          /\ c.kind = "toggle" => store[f].spec.type = "boolean"
      BY <1>1, <1>2 DEF IInv, CopiesAreVersions, CopyIsVersion, Current, Holding, Write,
                        TypeOK, Objects
    <2>2. /\ store'[f] # None
          /\ store'[f].spec = Desired(c, store[f].spec)
          /\ store' \in [Flags -> Objects \cup {None}]
          /\ \A g \in Flags \ {f} : store'[g] = store[g]
      <3>1. Desired(c, held[r].spec) \in Specs
        BY <1>1, <2>1, DesiredType
      <3> HIDE DEF f, c
      <3> QED
        BY <1>1, <1>2, <2>1, <3>1, PutEffect DEF IInv
    <2>3. /\ StoredSpecs[f] = store[f].spec
          /\ StoredSpecs[f] # None
          /\ StoredSpecs' = [StoredSpecs EXCEPT ![f] = Desired(c, store[f].spec)]
      <3>1. StoredSpecs[f] = store[f].spec /\ store[f].spec # None
        BY <1>1, <2>1, FlagApiConstants DEF StoredSpecs
      <3> QED
        BY <1>1, <2>2, <3>1, SpecsAfter DEF IInv
    <2>4. Effects[r] = NoCall /\ Effects' = [Effects EXCEPT ![r] = c]
      BY <1>1, <1>2, EffectsAfter DEF Write, Accepted
    <2>5. c.kind \in {"update", "toggle"}
      BY DEF Write
    <2>6. StoredSpecs' = [StoredSpecs EXCEPT ![f] = Desired(c, StoredSpecs[f])]
      BY <2>3
    <2>7. Register!Change(c)
      BY <2>1, <2>3, <2>5, <2>6 DEF Register!Change
    <2> QED
      BY <2>4, <2>7 DEF Register!Perform
  <1>3. CASE UNCHANGED <<store, rv, applied>>
    BY <1>3 DEF Write, StoredSpecs, Effects
  <1> QED
    BY <1>2, <1>3 DEF Write

\* A delete that is accepted performs itself on whatever bears the name.
LEMMA DeleteSimulates ==
  ASSUME IInv, NEW r \in Requests, Delete(r)
  PROVE  Register!Perform(r, call[r]) \/ UNCHANGED <<StoredSpecs, Effects>>
  <1> DEFINE c == call[r]  f == c.flag
  <1>1. c \in Calls /\ f \in Flags /\ c # NoCall /\ r \notin applied /\ c.kind = "delete"
    BY CallOf DEF IInv, Progress, Delete
  <1>2. CASE store[f] # None /\ Remove(f) /\ Accepted(r)
    <2>1. StoredSpecs[f] # None
      BY <1>1, <1>2, FlagApiConstants DEF StoredSpecs, IInv, TypeOK, Objects
    <2>2. StoredSpecs' = [StoredSpecs EXCEPT ![f] = None]
      <3> HIDE DEF f
      <3> QED
        BY <1>1, <1>2, RemoveEffect, SpecsAfter DEF IInv, StoreSound
    <2>3. Effects[r] = NoCall /\ Effects' = [Effects EXCEPT ![r] = c]
      BY <1>1, <1>2, EffectsAfter DEF Delete, Accepted
    <2> QED
      BY <1>1, <2>1, <2>2, <2>3 DEF Register!Perform, Register!Change
  <1>3. CASE UNCHANGED <<store, rv, applied>>
    BY <1>3 DEF Delete, StoredSpecs, Effects
  <1> QED
    BY <1>2, <1>3 DEF Delete

\* kubectl's writes are edits of the register; a status write is invisible.
LEMMA OutsideSimulates ==
  ASSUME IInv, NEW f \in Flags, StatusWrite(f) \/ Edit(f)
  PROVE  Register!Next \/ UNCHANGED <<StoredSpecs, Effects>>
  <1>1. UNCHANGED Effects
    BY DEF StatusWrite, Edit, OutsideWrite, Effects
  <1>2. CASE StatusWrite(f)
    <2>1. \A g \in Flags : /\ store'[g] = None <=> store[g] = None
                           /\ store[g] # None => store'[g].spec = store[g].spec
      <3>1. /\ store[f] \in Objects
            /\ store' = [store EXCEPT ![f].rv = rv + 1]
        BY <1>2 DEF StatusWrite, IInv, TypeOK
      <3>2. store'[f] \in Objects /\ store'[f].spec = store[f].spec
        BY <3>1 DEF IInv, TypeOK, Objects
      <3> QED
        BY <3>1, <3>2, FlagApiConstants DEF IInv, TypeOK, Objects
    <2> QED
      BY <1>1, <2>1 DEF StoredSpecs
  <1>3. ASSUME NEW s \in EditSpecs, Put(f, s)
        PROVE  Register!Edit(f, s)
    <2>1. s \in Specs
      BY FlagApiConstants
    <2> QED
      BY <1>1, <1>3, <2>1, PutEffect, SpecsAfter DEF IInv, Register!Edit
  <1>4. CASE Remove(f)
    <2>1. Register!Edit(f, None)
      BY <1>1, <1>4, RemoveEffect, SpecsAfter DEF IInv, StoreSound, Register!Edit
    <2> QED
      BY <2>1 DEF Register!Next
  <1> QED
    BY <1>2, <1>3, <1>4 DEF Edit, Register!Next

\* The handlers implement the register: each request takes effect at most once,
\* at one instant, on the flag as it is then.
THEOREM Refinement == Spec => RegisterSpec
  <1>1. Init => Register!Init
    <2> SUFFICES ASSUME Init PROVE Register!Init
      OBVIOUS
    <2>1. \A f \in Flags : StoredSpecs[f] \in InitSpecs \cup {None}
      BY DEF Init, StoredSpecs
    <2> QED
      BY <2>1 DEF Init, StoredSpecs, Effects, Register!Init
  <1>2. ASSUME IInv, [Next]_vars
        PROVE  [Register!Next]_<<StoredSpecs, Effects>>
    <2>1. ASSUME NEW r \in Requests, NEW c \in Calls, Create(r, c)
          PROVE  [Register!Next]_<<StoredSpecs, Effects>>
      BY <1>2, <2>1, CreateSimulates DEF Register!Next
    <2>2. ASSUME NEW r \in Requests, NEW c \in Calls, Get(r, c)
          PROVE  UNCHANGED <<StoredSpecs, Effects>>
      <3>1. r \notin applied
        BY <1>2, <2>2 DEF Get, Arrive, IInv, Progress
      <3>2. \A q \in applied : call'[q] = call[q]
        BY <2>2, <3>1 DEF Get, Arrive
      <3> QED
        BY <2>2, <3>2 DEF Get, StoredSpecs, Effects, cluster
    <2>3. ASSUME NEW r \in Requests, Handler(r)
          PROVE  [Register!Next]_<<StoredSpecs, Effects>>
      <3>1. CASE Write(r) \/ Delete(r)
        <4>1. call[r] \in Calls
          BY <1>2, <3>1, CallOf DEF IInv, Write, Delete
        <4> QED
          BY <1>2, <3>1, <4>1, WriteSimulates, DeleteSimulates DEF Register!Next
      <3>2. CASE UNCHANGED <<cluster, call, applied>>
        BY <3>2 DEF StoredSpecs, Effects, cluster
      <3> QED
        BY <2>3, <3>1, <3>2 DEF Handler, RefuseBody, CallFails, Audit
    <2>4. ASSUME NEW f \in Flags, StatusWrite(f) \/ Edit(f)
          PROVE  [Register!Next]_<<StoredSpecs, Effects>>
      BY <1>2, <2>4, OutsideSimulates
    <2>5. CASE Restart \/ UNCHANGED vars
      BY <2>5 DEF Restart, vars, cluster, StoredSpecs, Effects
    <2> QED
      BY <1>2, <2>1, <2>2, <2>3, <2>4, <2>5 DEF Next
  <1> QED
    BY <1>1, <1>2, Invariance, PTL DEF Spec, RegisterSpec, Register!Spec
=============================================================================
