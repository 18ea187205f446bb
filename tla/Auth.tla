-------------------------------- MODULE Auth --------------------------------
(***************************************************************************)
(* Accounts and sessions of the API server: the middleware that turns a    *)
(* bearer token into a user and a role (middleware/middleware.go), the     *)
(* handlers of handlers/auth.go, the two stores behind them, and what main *)
(* does to the accounts when the server starts.                            *)
(*                                                                         *)
(* A session is a copy: user name and role as the login read them, and the *)
(* time it ends.  Nothing later changes it.  Every request first looks its *)
(* token up and carries the answer in its context; the handler acts on     *)
(* that, some calls of the store later, while other requests run.  A login *)
(* reads the account and opens the session in two calls, and an update     *)
(* writes role and password in two.                                        *)
(*                                                                         *)
(* Memory calls happen under one lock and cannot fail.  A call to Postgres *)
(* may fail before it has an effect, or after, when the answer is lost.    *)
(* A token is the identity of the login that generated it.                 *)
(***************************************************************************)
EXTENDS Naturals, FiniteSets

CONSTANTS
  Users,         \* the user names
  Admin,         \* the name main creates: "admin"
  Passwords,     \* what an account's password may be
  AdminPassword, \* the one main is started with
  Requests,      \* one identity per HTTP request ever received
  Calls,         \* the calls clients make
  InitAccounts,  \* the accounts other users may have when the model starts
  Backends,      \* the stores looked at: "memory", "postgres"
  Expiry,        \* tokenExpiry, in ticks
  MaxTime,       \* bound: the last tick
  MaxRestarts,   \* bound: restarts of the server
  None           \* no account, no session, no token; a field the body lacks

Roles == {"admin", "editor", "viewer"}
Kinds == {"login", "logout", "me", "read", "edit", "create", "update", "delete"}

Account == [pass : Passwords, role : Roles]
Session == [user : Users, role : Roles, exp : Nat]
Context == [user : Users, role : Roles]

\* What a request names: for "update" either of pass and role may be missing.
CallType == [kind : Kinds, user : Users, pass : Passwords \cup {None}, role : Roles \cup {None}]

ASSUME AuthConstants ==
  /\ Admin \in Users
  /\ AdminPassword \in Passwords
  /\ Calls \subseteq CallType
  /\ \A c \in Calls : c.kind = "create" => c.pass # None /\ c.role # None
  /\ InitAccounts \subseteq Account
  /\ Backends \subseteq {"memory", "postgres"}
  /\ Expiry \in Nat /\ MaxTime \in Nat \ {0} /\ MaxRestarts \in Nat
  /\ None \notin Account /\ None \notin Session /\ None \notin Context
  /\ None \notin CallType /\ None \notin Requests
  /\ None \notin Roles /\ None \notin Passwords

VARIABLES
  backend,   \* the store this server was given
  users,     \* user name -> account, or None
  sessions,  \* token -> session, or None
  now,       \* the clock
  restarts,  \* starts of the server but the first
  pc,        \* where each request is
  call,      \* what it asks for
  bearer,    \* the token it bears
  who,       \* user and role: of its context, or as its login read them
  reply,     \* what it was answered
  since,     \* when who was read (history)
  delay,     \* how long each login took to open its session (history)
  did,       \* the changes to accounts each request has made (history)
  heldTill,  \* when a change of each user's account last found each role (history)
  touched    \* accounts a request has changed since the last start (history)

accounts == <<users, heldTill, touched>>
request == <<pc, call, bearer, who, reply, since, delay, did>>
server == <<backend, now, restarts>>
vars == <<server, accounts, sessions, request>>

Answers == {"none", "ok", "bad", "unauthorized", "forbidden", "notfound", "conflict", "error"}

TypeOK ==
  /\ backend \in Backends
  /\ users \in [Users -> Account \cup {None}]
  /\ sessions \in [Requests -> Session \cup {None}]
  /\ now \in 1..MaxTime /\ restarts \in 0..MaxRestarts
  /\ pc \in [Requests -> {"new", "grant", "passed", "half", "done", "gone"}]
  /\ call \in [Requests -> Calls \cup {None}]
  /\ bearer \in [Requests -> Requests \cup {None}]
  /\ who \in [Requests -> Context \cup {None}]
  /\ reply \in [Requests -> Answers]
  /\ since \in [Requests -> Nat] /\ delay \in [Requests -> Nat]
  /\ did \in [Requests -> SUBSET {"create", "delete", "role", "pass"}]
  /\ heldTill \in [Users -> [Roles -> Nat]]
  /\ touched \subseteq Users

-----------------------------------------------------------------------------
(* The stores *)

CanFail == backend = "postgres"

\* Memory refuses a session after its last moment, Postgres at it.
Live(s) == IF backend = "memory" THEN now <= s.exp ELSE now < s.exp

\* Defect: nobody looks at the time.
GetSession_Timeless(t) == t # None /\ sessions[t] # None

GetSession(t) == t # None /\ sessions[t] # None /\ Live(sessions[t])

\* Account u becomes a; until now it had the role it had.
SetAccount(u, a) ==
  /\ users' = [users EXCEPT ![u] = a]
  /\ heldTill' = IF users[u] = None THEN heldTill
                 ELSE [heldTill EXCEPT ![u][users[u].role] = now]
  /\ touched' = touched \cup {u}

-----------------------------------------------------------------------------
(* The middleware *)

Answer(r, status) ==
  /\ pc' = [pc EXCEPT ![r] = "done"]
  /\ reply' = [reply EXCEPT ![r] = status]

\* The store has done what it was asked, and answers; or that answer is lost.
Reported(r, failure) == \/ Answer(r, "ok")
                        \/ CanFail /\ Answer(r, failure)

\* What each route's RequireRole lets through.
Allowed(kind) ==
  CASE kind \in {"create", "delete"} -> {"admin"}
    [] kind = "edit" -> {"admin", "editor"}
    [] OTHER -> Roles

\* A client knows a token from the login's answer.
Known == {t \in Requests : reply[t] = "ok" /\ call[t].kind = "login"}

\* Auth and RequireRole: the session's user and role go into the context.
Authenticate(r, c, t) ==
  /\ pc[r] = "new" /\ c.kind # "login" /\ t \in Known \cup {None}
  /\ call' = [call EXCEPT ![r] = c]
  /\ bearer' = [bearer EXCEPT ![r] = t]
  /\ \/ /\ ~GetSession(t) \/ CanFail
        /\ Answer(r, "unauthorized") /\ UNCHANGED <<who, since>>
     \/ /\ GetSession(t)
        /\ who' = [who EXCEPT ![r] = [user |-> sessions[t].user, role |-> sessions[t].role]]
        /\ since' = [since EXCEPT ![r] = now]
        /\ IF sessions[t].role \in Allowed(c.kind)
           THEN pc' = [pc EXCEPT ![r] = "passed"] /\ UNCHANGED reply
           ELSE Answer(r, "forbidden")
  /\ UNCHANGED <<server, accounts, sessions, delay, did>>

-----------------------------------------------------------------------------
(* The handlers *)

\* A body that is not JSON, or lacks what the handler needs.
RefuseBody(r) ==
  /\ pc[r] = "passed" /\ call[r].kind \in {"create", "update"}
  /\ Answer(r, "bad")
  /\ UNCHANGED <<server, accounts, sessions, call, bearer, who, since, delay, did>>

Matches(c) == users[c.user] # None /\ users[c.user].pass = c.pass

\* Login's first half: the account is read and the password compared with it.
ReadAccount(r, c) ==
  /\ pc[r] = "new" /\ c.kind = "login"
  /\ call' = [call EXCEPT ![r] = c]
  /\ \/ /\ ~Matches(c) \/ CanFail
        /\ Answer(r, "unauthorized") /\ UNCHANGED <<who, since>>
     \/ /\ Matches(c)
        /\ who' = [who EXCEPT ![r] = [user |-> c.user, role |-> users[c.user].role]]
        /\ since' = [since EXCEPT ![r] = now]
        /\ pc' = [pc EXCEPT ![r] = "grant"] /\ UNCHANGED reply
  /\ UNCHANGED <<server, accounts, sessions, bearer, delay, did>>

\* Login's second half: the session is a copy of what was read.
OpenSession(r) ==
  /\ pc[r] = "grant"
  /\ \/ /\ sessions' = [sessions EXCEPT ![r] =
             [user |-> who[r].user, role |-> who[r].role, exp |-> now + Expiry]]
        /\ delay' = [delay EXCEPT ![r] = now - since[r]]
        /\ Reported(r, "error")
     \/ CanFail /\ Answer(r, "error") /\ UNCHANGED <<sessions, delay>>
  /\ UNCHANGED <<server, accounts, call, bearer, who, since, did>>

\* Logout: DeleteSession, whose error is not looked at.
Logout(r) ==
  /\ pc[r] = "passed" /\ call[r].kind = "logout"
  /\ Answer(r, "ok")
  /\ \/ sessions' = [sessions EXCEPT ![bearer[r]] = None]
     \/ CanFail /\ UNCHANGED sessions
  /\ UNCHANGED <<server, accounts, call, bearer, who, since, delay, did>>

\* Defect: a visit prolongs the session, from the context's copy of it.
Me_Prolongs(r) ==
  /\ pc[r] = "passed" /\ call[r].kind = "me"
  /\ Answer(r, "ok")
  /\ sessions' = [sessions EXCEPT ![bearer[r]] =
       [user |-> who[r].user, role |-> who[r].role, exp |-> now + Expiry]]
  /\ UNCHANGED <<server, accounts, call, bearer, who, since, delay, did>>

\* Me looks the session up a second time.
Me(r) ==
  /\ pc[r] = "passed" /\ call[r].kind = "me"
  /\ \/ GetSession(bearer[r]) /\ Answer(r, "ok")
     \/ (~GetSession(bearer[r]) \/ CanFail) /\ Answer(r, "unauthorized")
  /\ UNCHANGED <<server, accounts, sessions, call, bearer, who, since, delay, did>>

\* The routes that change neither accounts nor sessions: the user list, flags,
\* clusters, workloads, audit.
Serve(r) ==
  /\ pc[r] = "passed" /\ call[r].kind \in {"read", "edit"}
  /\ Answer(r, "ok")
  /\ UNCHANGED <<server, accounts, sessions, call, bearer, who, since, delay, did>>

Executed(r, e) == did' = [did EXCEPT ![r] = @ \cup {e}]

NothingExecuted == UNCHANGED <<accounts, did>>

\* bcrypt refuses the password, for one because it has more than 72 bytes.
HashFails(r) == NothingExecuted /\ Answer(r, "error")

Handler(r, kind) ==
  /\ pc[r] = "passed" /\ call[r].kind = kind
  /\ UNCHANGED <<server, sessions, call, bearer, who, since, delay>>

\* Defect: the store puts the account without looking whether it exists.
CreateUser_Overwrites(r) ==
  LET c == call[r] IN
  /\ Handler(r, "create")
  /\ SetAccount(c.user, [pass |-> c.pass, role |-> c.role])
  /\ Executed(r, "create") /\ Answer(r, "ok")

\* CreateUser answers 409 to every error of the store.
CreateUser(r) ==
  LET c == call[r] IN
  /\ Handler(r, "create")
  /\ \/ HashFails(r)
     \/ /\ users[c.user] = None
        /\ SetAccount(c.user, [pass |-> c.pass, role |-> c.role])
        /\ Executed(r, "create")
        /\ Reported(r, "conflict")
     \/ /\ users[c.user] # None \/ CanFail
        /\ NothingExecuted /\ Answer(r, "conflict")

\* An admin updates any account; others their own, and not its role.
MayUpdate(r) ==
  who[r].role = "admin" \/ (who[r].user = call[r].user /\ call[r].role = None)

ForbidUpdate(r) ==
  /\ Handler(r, "update")
  /\ ~MayUpdate(r)
  /\ NothingExecuted /\ Answer(r, "forbidden")

\* UpdateUser's first call of the store; 404 to every error of it.
UpdateRole(r) ==
  LET c == call[r] IN
  /\ Handler(r, "update") /\ MayUpdate(r) /\ c.role # None
  /\ \/ /\ users[c.user] # None
        /\ SetAccount(c.user, [users[c.user] EXCEPT !.role = c.role])
        /\ Executed(r, "role")
        /\ \/ pc' = [pc EXCEPT ![r] = "half"] /\ UNCHANGED reply
           \/ CanFail /\ Answer(r, "notfound")
     \/ /\ users[c.user] = None \/ CanFail
        /\ NothingExecuted /\ Answer(r, "notfound")

\* Defect: the store puts the account with the role this request has given it.
UpdatePassword_Puts(r) ==
  LET c == call[r] IN
  /\ pc[r] = "half"
  /\ \/ c.pass = None /\ NothingExecuted
     \/ /\ c.pass # None
        /\ SetAccount(c.user, [pass |-> c.pass, role |-> c.role])
        /\ Executed(r, "pass")
  /\ Answer(r, "ok")
  /\ UNCHANGED <<server, sessions, call, bearer, who, since, delay>>

\* UpdateUser's second call, and its end when no password was sent.  The password is
\* hashed after the role was written.
UpdatePassword(r) ==
  LET c == call[r] IN
  /\ \/ pc[r] = "half"
     \/ pc[r] = "passed" /\ c.kind = "update" /\ MayUpdate(r) /\ c.role = None
  /\ \/ c.pass = None /\ NothingExecuted /\ Answer(r, "ok")
     \/ /\ c.pass # None /\ users[c.user] # None
        /\ SetAccount(c.user, [users[c.user] EXCEPT !.pass = c.pass])
        /\ Executed(r, "pass")
        /\ Reported(r, "notfound")
     \/ c.pass # None /\ HashFails(r)
     \/ /\ c.pass # None /\ (users[c.user] = None \/ CanFail)
        /\ NothingExecuted /\ Answer(r, "notfound")
  /\ UNCHANGED <<server, sessions, call, bearer, who, since, delay>>

\* Defect: checkRowAffected is not called.
DeleteUser_Unchecked(r) ==
  LET c == call[r] IN
  /\ Handler(r, "delete") /\ c.user # who[r].user
  /\ \/ users[c.user] # None /\ SetAccount(c.user, None) /\ Executed(r, "delete")
     \/ users[c.user] = None /\ NothingExecuted
  /\ Answer(r, "ok")

\* DeleteUser leaves the sessions of the account alone.
DeleteUser(r) ==
  LET c == call[r] IN
  /\ Handler(r, "delete")
  /\ \/ c.user = who[r].user /\ NothingExecuted /\ Answer(r, "bad")
     \/ /\ c.user # who[r].user /\ users[c.user] # None
        /\ SetAccount(c.user, None) /\ Executed(r, "delete")
        /\ Reported(r, "notfound")
     \/ /\ c.user # who[r].user /\ (users[c.user] = None \/ CanFail)
        /\ NothingExecuted /\ Answer(r, "notfound")

-----------------------------------------------------------------------------
(* The server's starts, and the clock *)

Tick ==
  /\ now < MaxTime /\ now' = now + 1
  /\ UNCHANGED <<backend, restarts, accounts, sessions, request>>

Root == [pass |-> AdminPassword, role |-> "admin"]

\* Defect: an admin that already exists is good enough.
Started_AsFound(stored) == [stored EXCEPT ![Admin] = IF @ = None THEN Root ELSE @]

\* main creates the admin, or gives the one it finds the password it was
\* started with; role and everybody else stay as the store has them.
Started(stored) ==
  [stored EXCEPT ![Admin] = IF @ = None THEN Root ELSE [@ EXCEPT !.pass = AdminPassword]]

\* The process ends, with the requests it was serving and the memory store.
Restart ==
  /\ restarts < MaxRestarts /\ restarts' = restarts + 1
  /\ IF backend = "memory"
     THEN /\ users' = Started([u \in Users |-> None])
          /\ sessions' = [t \in Requests |-> None]
     ELSE users' = Started(users) /\ UNCHANGED sessions
  /\ heldTill' = [u \in Users |-> [x \in Roles |->
       IF users[u] # None /\ users[u].role = x THEN now ELSE heldTill[u][x]]]
  /\ touched' = {}
  /\ pc' = [r \in Requests |-> IF pc[r] \in {"new", "done"} THEN pc[r] ELSE "gone"]
  /\ UNCHANGED <<backend, now, call, bearer, who, reply, since, delay, did>>

-----------------------------------------------------------------------------
Init ==
  /\ backend \in Backends
  /\ users \in {f \in [Users -> InitAccounts \cup {None, Root}] :
                  \A u \in Users : u = Admin <=> f[u] = Root}
  /\ sessions = [t \in Requests |-> None]
  /\ now = 1 /\ restarts = 0
  /\ pc = [r \in Requests |-> "new"]
  /\ call = [r \in Requests |-> None]
  /\ bearer = [r \in Requests |-> None]
  /\ who = [r \in Requests |-> None]
  /\ reply = [r \in Requests |-> "none"]
  /\ since = [r \in Requests |-> 0]
  /\ delay = [r \in Requests |-> 0]
  /\ did = [r \in Requests |-> {}]
  /\ heldTill = [u \in Users |-> [x \in Roles |-> 0]]
  /\ touched = {}

Handling(r) ==
  \/ RefuseBody(r) \/ OpenSession(r) \/ Logout(r) \/ Me(r) \/ Serve(r)
  \/ CreateUser(r) \/ ForbidUpdate(r) \/ UpdateRole(r) \/ UpdatePassword(r) \/ DeleteUser(r)

Next ==
  \/ \E r \in Requests : \/ \E c \in Calls : \/ ReadAccount(r, c)
                                             \/ \E t \in Requests \cup {None} : Authenticate(r, c, t)
                         \/ Handling(r)
  \/ Tick
  \/ Restart

Spec == Init /\ [][Next]_vars

=============================================================================
