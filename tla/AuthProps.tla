----------------------------- MODULE AuthProps -----------------------------
(* What accounts and sessions promise. *)
EXTENDS Auth

-----------------------------------------------------------------------------
(* Whose authority a request acts on *)

\* The last time user u's account is known to have had role x; 0 for never.
HeldAt(u, x) == IF users[u] # None /\ users[u].role = x THEN now ELSE heldTill[u][x]

\* The user r acts for had one of these roles not longer ago, when r passed the
\* middleware, than a session lasts and its login took.
HadRole(r, roles) ==
  \E x \in roles : /\ who[r].role = x
                   /\ HeldAt(who[r].user, x) > 0
                   /\ since[r] <= HeldAt(who[r].user, x) + delay[bearer[r]] + Expiry

\* Accounts are created, deleted and given roles for admins, passwords are changed
\* for admins and for the account's own user, and the editors' routes are served
\* to editors (middleware.go:33-73, auth.go:136-258, server.go:56-95).  A role is
\* the copy the login took, so the user may have lost it since, but no longer ago
\* than tokenExpiry (auth.go:17, docs authentication.md: "Tokens expire after 24
\* hours"), whatever was demoted, deleted, created again or restarted meanwhile.
AuthorityIsRecent ==
  \A r \in Requests :
    /\ did[r] \cap {"create", "delete", "role"} # {} => HadRole(r, {"admin"})
    /\ "pass" \in did[r] =>
         HadRole(r, {"admin"}) \/ (who[r].user = call[r].user /\ HadRole(r, Roles))
    /\ reply[r] = "ok" /\ call[r].kind = "edit" => HadRole(r, {"admin", "editor"})

\* Once a logout has been answered its session is gone for good, so no later
\* request gets past the middleware with that token (auth.go:91-100, api.md:
\* "Invalidate the current session token"): requests already past it go on, and
\* none of them, nor a visit to me, brings the session back.  Said of the memory
\* store: with Postgres the DELETE may fail and the answer be the same.
LogoutIsFinal ==
  backend = "memory" =>
    \A r \in Requests :
      reply[r] = "ok" /\ call[r].kind = "logout" => sessions[bearer[r]] = None

-----------------------------------------------------------------------------
(* Accounts *)

\* The requests that made change e to the account of u.
Made(e, u) == {r \in Requests : e \in did[r] /\ call[r].user = u}

\* What each request has done, as a register of accounts would have it.
Effects == [r \in Requests |-> {[call |-> call[r], part |-> p] : p \in did[r]}]

Requested(c) == [pass |-> c.pass, role |-> c.role]
Changed(c, p, a) == [a EXCEPT ![p] = c[p]]

\* The accounts survive a start, or all are lost; then main sees to the admin.
StartedFrom(stored) == {Started(stored), Started([u \in Users |-> None])}

Register ==
  INSTANCE AccountRegister WITH accounts <- users, effect <- Effects,
    Initial <- InitAccounts \cup {Root}, Strangers <- {},
    NewAccount <- Requested, Updated <- Changed, Starts <- StartedFrom

\* The handlers implement a register of accounts (auth.go:136-258, memory.go:110-172,
\* postgres.go:195-257): whatever handlers read and wrote the accounts between their
\* calls of the store, each part of a request takes effect at most once, at one instant,
\* on the account as it is then, and leaves alone what it does not name and every
\* other account.
AccountsSpec == Register!Spec

\* An account is created once for every time it is gone, whichever handlers look
\* for it at the same time (memory.go:110-125, postgres.go:195-204): creations
\* less deletions are the accounts there are.
AccountsAddUp ==
  restarts = 0 =>
    \A u \in Users :
      LET more == Cardinality(Made("create", u))
          less == Cardinality(Made("delete", u))
      IN  IF users[u] # None THEN more - less \in {0, 1} ELSE less - more \in {0, 1}

\* What a client may conclude from an answer (auth.go:136-258).  2xx: everything
\* asked for was done, both halves of an update.  400, 401 and 403: nothing.  500:
\* nothing but the role of an update that was for both.  404 and 409 with the memory
\* store: nothing either, but for an update that had given the role when somebody
\* deleted the account under its hands.
AnswersAreHonest ==
  \A r \in Requests :
    /\ reply[r] = "ok" =>
         CASE call[r].kind \in {"create", "delete"} -> did[r] = {call[r].kind}
           [] call[r].kind = "update" ->
                did[r] = {e \in {"role", "pass"} : call[r][e] # None}
           [] OTHER -> did[r] = {}
    /\ reply[r] \in {"bad", "unauthorized", "forbidden"} => did[r] = {}
    /\ reply[r] = "error" => did[r] = {} \/ (did[r] = {"role"} /\ call[r].pass # None)
    /\ backend = "memory" /\ reply[r] \in {"notfound", "conflict"} =>
         \/ did[r] = {}
         \/ did[r] = {"role"} /\ Made("delete", call[r].user) # {}

\* Whoever holds the password the server was started with can log in as admin
\* until a request changes that account: every start sees to it, over whatever an
\* earlier process left in Postgres (main.go:51-84, authentication.md: "the
\* password is stored in the vexil-admin Kubernetes Secret").
AdminCanReturn ==
  Admin \notin touched => users[Admin] # None /\ users[Admin].pass = AdminPassword

=============================================================================
