---------------------------- MODULE FlagApiProps ----------------------------
(***************************************************************************)
(* What the flag handlers of FlagApi guarantee.                            *)
(***************************************************************************)
EXTENDS FlagApi

\* The request r is one whose write Kubernetes accepts in this step.
Commits(r) == r \notin applied /\ r \in applied'

\* A handler writes back a copy read some steps ago, but the write it gets
\* accepted is always its change applied to the flag as stored at that moment:
\* no PUT or toggle undoes what a concurrent request, the operator or kubectl
\* wrote after the handler's Get (Update and Toggle, flags.go).
NoLostUpdate ==
  [][\A r \in Requests :
       Commits(r) /\ call[r] # NoCall /\ call[r].kind \in {"update", "toggle"} =>
         LET f == call[r].flag IN
         /\ store[f] # None
         /\ store'[f] # None
         /\ store'[f].spec = Desired(call[r], store[f].spec)]_vars

\* The copy r holds is no newer than the store, has the stored spec if it has the
\* stored version, and for a toggle is of a boolean flag.
CopyIsVersion(r) ==
  LET f == call[r].flag IN
  /\ held[r].rv <= rv
  /\ Current(f, held[r]) => store[f].spec = held[r].spec
  /\ call[r].kind = "toggle" => held[r].spec.type = "boolean"

\* A resourceVersion names one content: a copy of the stored version has the
\* stored spec, and a toggle works on a copy whose type it has found boolean.
\* It is what makes the version check of Update and Toggle sufficient.
CopiesAreVersions ==
  \A r \in Requests : pc[r] = "held" => CopyIsVersion(r)

\* The answers are honest: 2xx only after Kubernetes accepted the change, and
\* 400, 404 or a version conflict only when the flag is untouched by the
\* request.  Only a plain 500 leaves the client in doubt.
RepliesAreHonest ==
  \A r \in Requests :
    /\ reply[r] = "ok" => r \in applied
    /\ reply[r] \in {"bad", "notfound", "conflict"} => r \notin applied

\* The audit log names only changes that were made; and with the memory store
\* every change the present server process confirmed to a client is in it.
\* RecordAudit comes last, after the write, in every handler.
AuditIsExact ==
  /\ audited \subseteq applied
  /\ Backend = "memory" =>
       \A r \in Requests : pc[r] = "done" /\ reply[r] = "ok" => r \in audited

\* No PUT or toggle fails for want of a race: a conflict is always the work of
\* another writer of the same flag.  So of several toggles left alone with a
\* flag, not all can fail on each other.
ConflictMeansRace ==
  \A r \in Requests :
    reply[r] = "conflict" =>
      \/ outside[call[r].flag] > 0
      \/ \E q \in Requests \ {r} : q \in applied /\ call[q].flag = call[r].flag

\* What a client can tell of the store: the specs, without their versions.
StoredSpecs == [f \in Flags |-> IF store[f] = None THEN None ELSE store[f].spec]

\* The calls that have taken effect, each under its request.
Effects == [r \in Requests |-> IF r \in applied THEN call[r] ELSE NoCall]

\* Concurrent handlers look like a register that performs whole requests, one
\* at a time: the promise of FlagRegister.
Register == INSTANCE FlagRegister WITH flags <- StoredSpecs, effect <- Effects

RegisterSpec == Register!Spec
=============================================================================
