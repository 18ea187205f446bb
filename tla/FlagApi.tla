------------------------------- MODULE FlagApi -------------------------------
(***************************************************************************)
(* The flag handlers of the API server (internal/apiserver/handlers/       *)
(* flags.go) working concurrently on the FeatureFlag objects of one        *)
(* cluster.                                                                *)
(*                                                                         *)
(* net/http runs every request in a goroutine of its own.  PUT, DELETE and *)
(* toggle first read the object (k8sClient.Get, an uncached client), then  *)
(* work on that private copy, then write, then record an audit event; any  *)
(* other request, the operator's status write, kubectl or a restart of the *)
(* server may come between two of those calls.  Kubernetes accepts an      *)
(* Update only when the copy's resourceVersion is the stored one; a Delete *)
(* is by name and carries no such precondition.                            *)
(*                                                                         *)
(* A flag spec keeps the fields the handlers treat differently: type (set  *)
(* by create only), defaultValue (also flipped by toggle), disabled and    *)
(* rules (not taken by create).  description and delivery go the way of    *)
(* defaultValue in create and in PUT and are left out.                     *)
(***************************************************************************)
EXTENDS Naturals, FiniteSets

CONSTANTS
  Flags,       \* the flag names (namespace/name) of the cluster
  Requests,    \* one identity per HTTP request ever received
  Values,      \* the strings a defaultValue may hold, "true" and "false" among them
  Types,       \* the flag types the CRD admits, "boolean" among them
  Rules,       \* the lists of targeting rules a flag may carry
  NoRules,     \* the empty list of targeting rules
  Calls,       \* the calls clients make
  InitSpecs,   \* the specs of flags that exist when the model starts
  EditSpecs,   \* the specs kubectl and other tools write
  Backend,     \* which store records the audit events: "memory" or "postgres"
  MaxOutside,  \* bound: writes to one flag by the operator, kubectl and others
  None,        \* no object of that name; no copy held
  NoCall       \* the request has not arrived

Kinds  == {"create", "update", "delete", "toggle"}
Fields == {"defaultValue", "disabled", "rules"}

Specs == [type : Types, defaultValue : Values, disabled : BOOLEAN, rules : Rules]

\* A request body: for "update", the fields the JSON names and their values in
\* body; for "create", body holds the new flag's type and defaultValue.
CallType == [kind : Kinds, flag : Flags, sent : SUBSET Fields, body : Specs]

ASSUME FlagApiConstants ==
  /\ {"true", "false"} \subseteq Values
  /\ NoRules \in Rules
  /\ Calls \subseteq CallType
  /\ InitSpecs \subseteq Specs
  /\ EditSpecs \subseteq Specs
  /\ Backend \in {"memory", "postgres"}
  /\ MaxOutside \in Nat
  /\ NoCall \notin CallType
  /\ None \notin Specs
  /\ None \notin [rv : Nat, spec : Specs]

VARIABLES
  store,    \* flag name -> the stored object, or None
  rv,       \* the cluster's last resourceVersion
  pc,       \* where each request's handler is
  call,     \* what each request asks for
  held,     \* the copy of the flag each handler works on
  reply,    \* what each request was answered
  applied,  \* the requests whose write Kubernetes accepted (history)
  audited,  \* the requests an audit event is stored for
  outside   \* writes per flag that no request made

cluster == <<store, rv, outside>>
vars == <<store, rv, pc, call, held, reply, applied, audited, outside>>

Objects == [rv : Nat, spec : Specs]

TypeOK ==
  /\ store \in [Flags -> Objects \cup {None}]
  /\ rv \in Nat
  /\ pc \in [Requests -> {"idle", "held", "audit", "done", "gone"}]
  /\ call \in [Requests -> Calls \cup {NoCall}]
  /\ held \in [Requests -> Objects \cup {None}]
  /\ reply \in [Requests -> {"none", "ok", "bad", "notfound", "conflict", "error"}]
  /\ applied \subseteq Requests
  /\ audited \subseteq Requests
  /\ outside \in [Flags -> 0..MaxOutside]

-----------------------------------------------------------------------------
(* What the handlers compute *)

\* CreateFlagRequest has neither disabled nor rules: a new flag has none.
NewSpec(c) == [c.body EXCEPT !.disabled = FALSE, !.rules = NoRules]

\* PUT replaces the fields the body names and keeps the copy's others.
Patched(c, s) ==
  [s EXCEPT !.defaultValue = IF "defaultValue" \in c.sent THEN c.body.defaultValue ELSE @,
            !.disabled     = IF "disabled" \in c.sent THEN c.body.disabled ELSE @,
            !.rules        = IF "rules" \in c.sent THEN c.body.rules ELSE @]

\* Defect: the wrong vocabulary.
Flip_OnOff(v) == IF v = "on" THEN "off" ELSE "on"

\* Toggle compares with "true": every other string becomes "true".
Flip(v) == IF v = "true" THEN "false" ELSE "true"

Toggled(s) == [s EXCEPT !.defaultValue = Flip(@)]

Desired(c, s) == IF c.kind = "toggle" THEN Toggled(s) ELSE Patched(c, s)

\* Kubernetes' optimistic concurrency: the copy is of the stored version.
Current(f, copy) == store[f] # None /\ store[f].rv = copy.rv

\* The API server of the cluster stores s under f; an update that changes
\* nothing keeps the version.
Put(f, s) ==
  IF store[f] # None /\ store[f].spec = s
  THEN UNCHANGED <<store, rv>>
  ELSE /\ rv' = rv + 1
       /\ store' = [store EXCEPT ![f] = [rv |-> rv + 1, spec |-> s]]

Remove(f) == store' = [store EXCEPT ![f] = None] /\ UNCHANGED rv

-----------------------------------------------------------------------------
(* The handlers *)

\* The handler returns; its copy goes with it.
Answer(r, status) ==
  /\ pc' = [pc EXCEPT ![r] = "done"]
  /\ reply' = [reply EXCEPT ![r] = status]
  /\ held' = [held EXCEPT ![r] = None]

\* Kubernetes accepted the write of r.  The handler hears of it and goes on to
\* the audit, or the answer is lost and the handler replies 500 without one.
Accepted(r) ==
  /\ applied' = applied \cup {r}
  /\ \/ /\ pc' = [pc EXCEPT ![r] = "audit"]
        /\ held' = [held EXCEPT ![r] = None]
        /\ UNCHANGED reply
     \/ Answer(r, "error")

Arrive(r, c) == pc[r] = "idle" /\ call' = [call EXCEPT ![r] = c]

\* Defect: creates like kubectl apply, over what is there.
Create_Overwrites(r, c) ==
  /\ c.kind = "create"
  /\ Arrive(r, c)
  /\ Put(c.flag, NewSpec(c)) /\ Accepted(r)
  /\ UNCHANGED <<audited, outside>>

\* Create: one call, which fails when the name is taken, and may fail anyway.
Create(r, c) ==
  /\ c.kind = "create"
  /\ Arrive(r, c)
  /\ \/ store[c.flag] = None /\ Put(c.flag, NewSpec(c)) /\ Accepted(r)
     \/ Answer(r, "error") /\ UNCHANGED <<store, rv, applied>>
  /\ UNCHANGED <<audited, outside>>

\* Defect: the type is not looked at.
Get_AnyType(r, c) ==
  /\ c.kind # "create"
  /\ Arrive(r, c)
  /\ \/ Answer(r, "notfound")
     \/ /\ store[c.flag] # None
        /\ held' = [held EXCEPT ![r] = store[c.flag]]
        /\ pc' = [pc EXCEPT ![r] = "held"]
        /\ UNCHANGED reply
  /\ UNCHANGED <<cluster, applied, audited>>

\* Update, Delete and Toggle begin with a Get, and answer 404 to every error of
\* it, an unreachable cluster included; Toggle then looks at the type.
Get(r, c) ==
  /\ c.kind # "create"
  /\ Arrive(r, c)
  /\ \/ Answer(r, "notfound")
     \/ /\ store[c.flag] # None
        /\ IF c.kind = "toggle" /\ store[c.flag].spec.type # "boolean"
           THEN Answer(r, "bad")
           ELSE /\ held' = [held EXCEPT ![r] = store[c.flag]]
                /\ pc' = [pc EXCEPT ![r] = "held"]
                /\ UNCHANGED reply
  /\ UNCHANGED <<cluster, applied, audited>>

\* Update decodes the body only after its Get and may refuse it then.
RefuseBody(r) ==
  /\ pc[r] = "held" /\ call[r].kind = "update"
  /\ Answer(r, "bad")
  /\ UNCHANGED <<cluster, call, applied, audited>>

\* Defect: no return after writeError.
Write_FallsThrough(r) ==
  LET f == call[r].flag IN
  /\ pc[r] = "held" /\ call[r].kind \in {"update", "toggle"}
  /\ \/ Current(f, held[r]) /\ Put(f, Desired(call[r], held[r].spec)) /\ Accepted(r)
     \/ /\ ~Current(f, held[r])
        /\ pc' = [pc EXCEPT ![r] = "audit"]
        /\ UNCHANGED <<store, rv, applied, held, reply>>
  /\ UNCHANGED <<call, audited, outside>>

\* Defect: a conflict is overcome by giving the old copy the new version.
Write_Forces(r) ==
  LET f == call[r].flag IN
  /\ pc[r] = "held" /\ call[r].kind \in {"update", "toggle"}
  /\ \/ store[f] # None /\ Put(f, Desired(call[r], held[r].spec)) /\ Accepted(r)
     \/ store[f] = None /\ Answer(r, "conflict") /\ UNCHANGED <<store, rv, applied>>
  /\ UNCHANGED <<call, audited, outside>>

\* Defect: a write whose answer was lost is sent again, with the version of before.
Write_Resends(r) ==
  LET f == call[r].flag IN
  /\ pc[r] = "held" /\ call[r].kind \in {"update", "toggle"}
  /\ \/ /\ Current(f, held[r]) /\ Put(f, Desired(call[r], held[r].spec))
        /\ applied' = applied \cup {r}
     \/ ~Current(f, held[r]) /\ UNCHANGED <<store, rv, applied>>
  /\ Answer(r, "conflict")
  /\ UNCHANGED <<call, audited, outside>>

\* Update and Toggle write the changed copy back.  A version that has moved on,
\* or an object that is gone, makes the write fail with a 500 ("conflict").
Write(r) ==
  LET f == call[r].flag IN
  /\ pc[r] = "held" /\ call[r].kind \in {"update", "toggle"}
  /\ \/ Current(f, held[r]) /\ Put(f, Desired(call[r], held[r].spec)) /\ Accepted(r)
     \/ ~Current(f, held[r]) /\ Answer(r, "conflict") /\ UNCHANGED <<store, rv, applied>>
  /\ UNCHANGED <<call, audited, outside>>

\* Delete removes whatever bears the name by now.
Delete(r) ==
  LET f == call[r].flag IN
  /\ pc[r] = "held" /\ call[r].kind = "delete"
  /\ \/ store[f] # None /\ Remove(f) /\ Accepted(r)
     \/ store[f] = None /\ Answer(r, "error") /\ UNCHANGED <<store, rv, applied>>
  /\ UNCHANGED <<call, audited, outside>>

\* A call to Kubernetes fails before it has any effect.
CallFails(r) ==
  /\ pc[r] = "held"
  /\ Answer(r, "error")
  /\ UNCHANGED <<cluster, call, applied, audited>>

\* RecordAudit, whose error no handler looks at: the reply is 2xx either way.
\* Only the database can fail (it is down, or the client went away and its
\* context with it); the memory store always appends.
Audit(r) ==
  /\ pc[r] = "audit"
  /\ Answer(r, "ok")
  /\ \/ audited' = audited \cup {r}
     \/ Backend = "postgres" /\ UNCHANGED audited
  /\ UNCHANGED <<cluster, call, applied>>

-----------------------------------------------------------------------------
(* The environment *)

OutsideWrite(f) ==
  /\ outside[f] < MaxOutside
  /\ outside' = [outside EXCEPT ![f] = @ + 1]
  /\ UNCHANGED <<pc, call, held, reply, applied, audited>>

\* The operator writes the status: a new version of the same spec.
StatusWrite(f) ==
  /\ OutsideWrite(f)
  /\ store[f] # None
  /\ rv' = rv + 1
  /\ store' = [store EXCEPT ![f].rv = rv + 1]

\* kubectl applies or deletes a flag.
Edit(f) ==
  /\ OutsideWrite(f)
  /\ \/ \E s \in EditSpecs : Put(f, s)
     \/ store[f] # None /\ Remove(f)

\* The server dies and starts again: its requests are gone, and with the
\* memory store so is its audit log.
Restart ==
  /\ pc' = [r \in Requests |-> IF pc[r] = "idle" THEN "idle" ELSE "gone"]
  /\ held' = [r \in Requests |-> None]
  /\ audited' = IF Backend = "memory" THEN {} ELSE audited
  /\ UNCHANGED <<cluster, call, reply, applied>>

-----------------------------------------------------------------------------
Init ==
  /\ store \in [Flags -> [rv : {1}, spec : InitSpecs] \cup {None}]
  /\ rv = 1
  /\ pc = [r \in Requests |-> "idle"]
  /\ call = [r \in Requests |-> NoCall]
  /\ held = [r \in Requests |-> None]
  /\ reply = [r \in Requests |-> "none"]
  /\ applied = {}
  /\ audited = {}
  /\ outside = [f \in Flags |-> 0]

Handler(r) == RefuseBody(r) \/ Write(r) \/ Delete(r) \/ CallFails(r) \/ Audit(r)

Next ==
  \/ \E r \in Requests : \/ \E c \in Calls : Create(r, c) \/ Get(r, c)
                         \/ Handler(r)
  \/ \E f \in Flags : StatusWrite(f) \/ Edit(f)
  \/ Restart

Spec == Init /\ [][Next]_vars

=============================================================================
