---------------------------- MODULE Auth_proofs ----------------------------
(***************************************************************************)
(* Proofs about Auth: for any users, requests, calls, stores and expiry.   *)
(***************************************************************************)
EXTENDS AuthProps, FiniteSetTheorems, TLAPS

\* Nothing has been read, held or opened later than now, and nothing at time 0.
TimesAgree ==
  /\ \A u \in Users, x \in Roles : heldTill[u][x] <= now
  /\ \A r \in Requests : since[r] <= now /\ (who[r] # None => since[r] > 0)

\* What is known of a request by where it is.
Sound(r) ==
  /\ pc[r] = "new" => call[r] = None /\ who[r] = None /\ bearer[r] = None
  /\ pc[r] # "new" => call[r] # None
  /\ pc[r] # "done" => reply[r] = "none"
  /\ pc[r] \in {"new", "grant", "passed"} => did[r] = {}
  /\ pc[r] = "grant" => call[r].kind = "login" /\ who[r] # None
  /\ pc[r] \in {"passed", "half"} =>
       call[r].kind # "login" /\ who[r] # None /\ who[r].role \in Allowed(call[r].kind)
  /\ pc[r] = "half" => call[r].kind = "update" /\ call[r].role # None /\ MayUpdate(r)
                       /\ did[r] = {"role"}
  /\ call[r] # None /\ call[r].kind = "login" => did[r] = {}
  /\ call[r] # None /\ call[r].kind # "login" /\ who[r] # None => bearer[r] # None

RequestsAreSound == \A r \in Requests : Sound(r)

\* A token that a request bears, and one that is good for a session, is that of a
\* login that is over.
TokensAreOfLogins ==
  /\ \A r \in Requests : bearer[r] # None =>
       pc[bearer[r]] = "done" /\ call[bearer[r]].kind = "login"
  /\ \A t \in Requests : sessions[t] # None => pc[t] = "done" /\ call[t].kind = "login"

\* The inductive invariant about where everything is.
Orderly == TypeOK /\ TimesAgree /\ RequestsAreSound /\ TokensAreOfLogins

-----------------------------------------------------------------------------
(* What steps have in common *)

\* None is nothing else.
LEMMA NoneIsNothing ==
  /\ None \notin Account /\ None \notin Session /\ None \notin Context
  /\ None \notin CallType /\ None \notin Requests /\ None \notin Roles /\ None \notin Passwords
  BY AuthConstants

\* The types of what a request has.
LEMMA RequestTyped ==
  ASSUME TypeOK, NEW r \in Requests
  PROVE  /\ call[r] # None => /\ call[r] \in CallType /\ call[r].kind \in Kinds
                              /\ call[r].user \in Users
                              /\ call[r].pass \in Passwords \cup {None}
                              /\ call[r].role \in Roles \cup {None}
                              /\ call[r].kind = "create" =>
                                   call[r].pass # None /\ call[r].role # None
         /\ who[r] # None => who[r] \in Context /\ who[r].user \in Users /\ who[r].role \in Roles
         /\ bearer[r] \in Requests \cup {None}
         /\ sessions[r] # None => /\ sessions[r] \in Session /\ sessions[r].user \in Users
                                  /\ sessions[r].role \in Roles /\ sessions[r].exp \in Nat
  <1>1. call[r] # None => call[r] \in Calls /\ call[r] \in CallType
    BY AuthConstants DEF TypeOK
  <1>2. who[r] # None => who[r] \in Context
    BY DEF TypeOK
  <1>3. sessions[r] # None => sessions[r] \in Session
    BY DEF TypeOK
  <1>4. call[r] # None /\ call[r].kind = "create" => call[r].pass # None /\ call[r].role # None
    BY <1>1, AuthConstants
  <1> QED
    BY <1>1, <1>2, <1>3, <1>4 DEF TypeOK, CallType, Context, Session

\* An account that is set is typed, and its role is not forgotten.
LEMMA AccountSet ==
  ASSUME TypeOK, NEW u \in Users, NEW a \in Account \cup {None}, SetAccount(u, a)
  PROVE  /\ users' \in [Users -> Account \cup {None}]
         /\ heldTill' \in [Users -> [Roles -> Nat]]
         /\ touched' \subseteq Users
         /\ users'[u] = a
         /\ \A v \in Users \ {u} : users'[v] = users[v] /\ heldTill'[v] = heldTill[v]
         /\ \A x \in Roles : \/ heldTill'[u][x] = heldTill[u][x]
                             \/ heldTill'[u][x] = now
         /\ users[u] # None => heldTill'[u][users[u].role] = now
  <1>1. /\ users' = [users EXCEPT ![u] = a]
        /\ touched' = touched \cup {u}
    BY DEF SetAccount
  <1>2. CASE users[u] = None
    <2>1. heldTill' = heldTill
      BY <1>2 DEF SetAccount
    <2> QED
      BY <1>1, <1>2, <2>1 DEF TypeOK
  <1>3. CASE users[u] # None
    <2> DEFINE x == users[u].role
    <2>1. x \in Roles /\ now \in Nat
      BY <1>3, AuthConstants DEF TypeOK, Account
    <2>2. heldTill' = [heldTill EXCEPT ![u] = [heldTill[u] EXCEPT ![x] = now]]
      BY <1>3 DEF SetAccount
    <2> HIDE DEF x
    <2>3. heldTill[u] \in [Roles -> Nat]
      BY DEF TypeOK
    <2>4. [heldTill[u] EXCEPT ![x] = now] \in [Roles -> Nat]
      BY <2>1, <2>3
    <2>5. heldTill'[u] = [heldTill[u] EXCEPT ![x] = now]
      BY <2>2 DEF TypeOK
    <2>6. heldTill'[u][x] = now /\ \A y \in Roles : y # x => heldTill'[u][y] = heldTill[u][y]
      BY <2>1, <2>3, <2>5
    <2>7. heldTill' \in [Users -> [Roles -> Nat]] /\ \A v \in Users \ {u} : heldTill'[v] = heldTill[v]
      BY <2>2, <2>4 DEF TypeOK
    <2> QED
      BY <1>1, <2>6, <2>7 DEF TypeOK, x
  <1> QED
    BY <1>2, <1>3

\* An answer is typed and is r's alone.
LEMMA Answered ==
  ASSUME TypeOK, NEW r \in Requests, NEW status \in Answers, Answer(r, status)
  PROVE  /\ pc' \in [Requests -> {"new", "grant", "passed", "half", "done", "gone"}]
         /\ reply' \in [Requests -> Answers]
         /\ pc'[r] = "done" /\ reply'[r] = status
         /\ \A q \in Requests \ {r} : pc'[q] = pc[q] /\ reply'[q] = reply[q]
  BY DEF Answer, TypeOK

\* What a step of request r leaves alone.
StepOf(r) ==
  /\ UNCHANGED server
  /\ \A q \in Requests \ {r} :
       /\ pc'[q] = pc[q] /\ call'[q] = call[q] /\ bearer'[q] = bearer[q]
       /\ who'[q] = who[q] /\ reply'[q] = reply[q] /\ since'[q] = since[q]
       /\ delay'[q] = delay[q] /\ did'[q] = did[q]

\* The accounts are left alone, or the one that r is about is set.
AccountStep(r) ==
  \/ UNCHANGED <<accounts, did>>
  \/ \E a \in Account \cup {None}, e \in {"create", "delete", "role", "pass"} :
       /\ SetAccount(call[r].user, a) /\ Executed(r, e)
       /\ a = None <=> e = "delete"
       /\ users[call[r].user] = None <=> e = "create"
       /\ e \in {"create", "delete"} => pc[r] = "passed"

\* The rest of a step of a handler that has passed the middleware: the request keeps
\* its context and goes on or is answered.
HandlerStep(r) ==
  /\ pc[r] \in {"passed", "half"}
  /\ UNCHANGED <<server, call, bearer, who, since, delay>>
  /\ \/ \E status \in Answers : Answer(r, status)
     \/ pc' = [pc EXCEPT ![r] = "half"] /\ UNCHANGED reply
  /\ \/ UNCHANGED sessions
     \/ call[r].kind = "logout" /\ sessions' = [sessions EXCEPT ![bearer[r]] = None]
  /\ AccountStep(r)

LEMMA HandlersStep ==
  ASSUME Orderly, NEW r \in Requests, Handling(r), pc[r] # "grant"
  PROVE  HandlerStep(r)
  <1> USE DEF HandlerStep
  <1>1. CASE RefuseBody(r)
    BY <1>1 DEF RefuseBody, Answers, AccountStep
  <1>2. CASE Logout(r)
    BY <1>2 DEF Logout, Answers, AccountStep
  <1>3. CASE Me(r)
    BY <1>3 DEF Me, Answers, AccountStep
  <1>4. CASE Serve(r)
    BY <1>4 DEF Serve, Answers, AccountStep
  <1>5. CASE CreateUser(r)
    <2>1. [pass |-> call[r].pass, role |-> call[r].role] \in Account
      BY <1>5, RequestTyped DEF CreateUser, Handler, Orderly, RequestsAreSound, Sound, Account
    <2>2. AccountStep(r)
      <3> DEFINE a == [pass |-> call[r].pass, role |-> call[r].role]
      <3>1. \/ UNCHANGED <<accounts, did>>
            \/ users[call[r].user] = None /\ SetAccount(call[r].user, a) /\ Executed(r, "create")
        BY <1>5 DEF CreateUser, HashFails, NothingExecuted
      <3>2. a \in Account /\ a # None /\ pc[r] = "passed"
        BY <1>5, <2>1, NoneIsNothing DEF CreateUser, Handler
      <3> HIDE DEF a
      <3> QED
        BY <3>1, <3>2 DEF AccountStep
    <2> QED
      BY <1>5, <2>2 DEF CreateUser, HashFails, Handler, Reported, Answers
  <1>6. CASE ForbidUpdate(r)
    BY <1>6 DEF ForbidUpdate, Handler, Answers, AccountStep, NothingExecuted
  <1>7. CASE UpdateRole(r)
    <2>1. users[call[r].user] # None =>
            [users[call[r].user] EXCEPT !.role = call[r].role] \in Account
      <3>1. call[r] # None /\ call[r].role # None /\ users \in [Users -> Account \cup {None}]
        BY <1>7 DEF UpdateRole, Handler, Orderly, TypeOK, RequestsAreSound, Sound
      <3>2. call[r].user \in Users /\ call[r].role \in Roles
        BY <3>1, RequestTyped DEF Orderly
      <3> QED
        BY <3>1, <3>2 DEF Account
    <2>2. AccountStep(r)
      <3> DEFINE a == [users[call[r].user] EXCEPT !.role = call[r].role]
      <3>1. \/ UNCHANGED <<accounts, did>>
            \/ users[call[r].user] # None /\ SetAccount(call[r].user, a) /\ Executed(r, "role")
        BY <1>7 DEF UpdateRole, NothingExecuted
      <3>2. users[call[r].user] # None => a \in Account /\ a # None
        BY <2>1, NoneIsNothing
      <3> HIDE DEF a
      <3> QED
        BY <3>1, <3>2 DEF AccountStep
    <2> QED
      BY <1>7, <2>2 DEF UpdateRole, Handler, Reported, Answers
  <1>8. CASE UpdatePassword(r)
    <2>1. users[call[r].user] # None /\ call[r].pass # None =>
            [users[call[r].user] EXCEPT !.pass = call[r].pass] \in Account
      <3>1. call[r] # None /\ users \in [Users -> Account \cup {None}]
        BY <1>8 DEF UpdatePassword, Orderly, TypeOK, RequestsAreSound, Sound
      <3>2. call[r].user \in Users /\ call[r].pass \in Passwords \cup {None}
        BY <3>1, RequestTyped DEF Orderly
      <3> QED
        BY <3>1, <3>2 DEF Account
    <2>2. AccountStep(r)
      <3> DEFINE a == [users[call[r].user] EXCEPT !.pass = call[r].pass]
      <3>1. \/ UNCHANGED <<accounts, did>>
            \/ /\ call[r].pass # None /\ users[call[r].user] # None
               /\ SetAccount(call[r].user, a) /\ Executed(r, "pass")
        BY <1>8 DEF UpdatePassword, HashFails, NothingExecuted
      <3>2. users[call[r].user] # None /\ call[r].pass # None => a \in Account /\ a # None
        BY <2>1, NoneIsNothing
      <3> HIDE DEF a
      <3> QED
        BY <3>1, <3>2 DEF AccountStep
    <2> QED
      BY <1>8, <2>2 DEF UpdatePassword, HashFails, Reported, Answers
  <1>9. CASE DeleteUser(r)
    BY <1>9 DEF DeleteUser, Handler, Reported, Answers, AccountStep, NothingExecuted
  <1> QED
    BY <1>1, <1>2, <1>3, <1>4, <1>5, <1>6, <1>7, <1>8, <1>9 DEF Handling, OpenSession

\* What a handler's step changes, typed.
LEMMA HandlerTyped ==
  ASSUME Orderly, NEW r \in Requests, HandlerStep(r)
  PROVE  /\ TypeOK'
         /\ StepOf(r)
         /\ pc'[r] \in {"half", "done"}
         /\ \A u \in Users, x \in Roles : heldTill'[u][x] <= now
         /\ did[r] \subseteq did'[r]
  <1>1. UNCHANGED <<backend, now, restarts, call, bearer, who, since, delay>>
    BY DEF HandlerStep, server
  <1>2. /\ pc' \in [Requests -> {"new", "grant", "passed", "half", "done", "gone"}]
        /\ reply' \in [Requests -> Answers]
        /\ pc'[r] \in {"half", "done"}
        /\ \A q \in Requests \ {r} : pc'[q] = pc[q] /\ reply'[q] = reply[q]
    <2>1. CASE \E status \in Answers : Answer(r, status)
      BY <2>1, Answered DEF Orderly
    <2>2. CASE pc' = [pc EXCEPT ![r] = "half"] /\ UNCHANGED reply
      BY <2>2 DEF Orderly, TypeOK
    <2> QED
      BY <2>1, <2>2 DEF HandlerStep
  <1>3. call[r] # None /\ call[r].user \in Users
    BY RequestTyped DEF HandlerStep, Orderly, RequestsAreSound, Sound
  <1>4. /\ users' \in [Users -> Account \cup {None}]
        /\ heldTill' \in [Users -> [Roles -> Nat]]
        /\ touched' \subseteq Users
        /\ \A u \in Users, x \in Roles : heldTill'[u][x] <= now
        /\ did' \in [Requests -> SUBSET {"create", "delete", "role", "pass"}]
        /\ did[r] \subseteq did'[r]
        /\ \A q \in Requests \ {r} : did'[q] = did[q]
    <2>1. CASE UNCHANGED <<accounts, did>>
      BY <2>1 DEF accounts, Orderly, TypeOK, TimesAgree
    <2>2. ASSUME NEW a \in Account \cup {None}, SetAccount(call[r].user, a),
                 NEW e \in {"create", "delete", "role", "pass"}, Executed(r, e)
          PROVE  /\ users' \in [Users -> Account \cup {None}]
                 /\ heldTill' \in [Users -> [Roles -> Nat]]
                 /\ touched' \subseteq Users
                 /\ \A u \in Users, x \in Roles : heldTill'[u][x] <= now
                 /\ did' \in [Requests -> SUBSET {"create", "delete", "role", "pass"}]
                 /\ did[r] \subseteq did'[r]
                 /\ \A q \in Requests \ {r} : did'[q] = did[q]
      <3>1. /\ users' \in [Users -> Account \cup {None}]
            /\ heldTill' \in [Users -> [Roles -> Nat]]
            /\ touched' \subseteq Users
        BY <2>2, <1>3, AccountSet DEF Orderly
      <3>2. ASSUME NEW u \in Users, NEW x \in Roles PROVE heldTill'[u][x] <= now
        <4>1. heldTill'[u][x] = heldTill[u][x] \/ heldTill'[u][x] = now
          BY <2>2, <1>3, AccountSet DEF Orderly
        <4> QED
          BY <4>1 DEF Orderly, TimesAgree, TypeOK
      <3>3. did' = [did EXCEPT ![r] = did[r] \cup {e}]
        BY <2>2 DEF Executed
      <3> QED
        BY <3>1, <3>2, <3>3 DEF Orderly, TypeOK
    <2> QED
      BY <2>1, <2>2 DEF HandlerStep, AccountStep
  <1>5. sessions' \in [Requests -> Session \cup {None}]
    BY DEF HandlerStep, Orderly, TypeOK
  <1>6. TypeOK'
    BY <1>1, <1>2, <1>4, <1>5 DEF Orderly, TypeOK
  <1>7. StepOf(r)
    BY <1>1, <1>2, <1>4 DEF StepOf, server
  <1> QED
    BY <1>2, <1>4, <1>6, <1>7

\* Halfway is where UpdateRole leaves an update.
LEMMA OnlyUpdatesAreHalfDone ==
  ASSUME Orderly, NEW r \in Requests, Handling(r), pc[r] # "grant", pc'[r] = "half"
  PROVE  /\ call[r].kind = "update" /\ call[r].role # None /\ MayUpdate(r)
         /\ did'[r] = {"role"}
         /\ users'[call[r].user] # None
  <1>1. \A status : ~Answer(r, status)
    BY DEF Answer, Orderly, TypeOK
  <1>2. UpdateRole(r)
    BY <1>1 DEF Handling, OpenSession, RefuseBody, Logout, Me, Serve, CreateUser, ForbidUpdate,
                UpdatePassword, HashFails, DeleteUser, Reported
  <1>3. /\ call[r].kind = "update" /\ call[r].role # None /\ MayUpdate(r) /\ pc[r] = "passed"
        /\ users[call[r].user] # None /\ Executed(r, "role")
        /\ SetAccount(call[r].user, [users[call[r].user] EXCEPT !.role = call[r].role])
    BY <1>1, <1>2 DEF UpdateRole, Handler
  <1>4. did[r] = {}
    BY <1>3 DEF Orderly, RequestsAreSound, Sound
  <1>5. did'[r] = {"role"}
    BY <1>3, <1>4 DEF Executed, Orderly, TypeOK
  <1>6. [users[call[r].user] EXCEPT !.role = call[r].role] \in Account /\ call[r].user \in Users
    <2>1. call[r] # None
      BY <1>3 DEF Orderly, RequestsAreSound, Sound
    <2>2. call[r].user \in Users /\ call[r].role \in Roles
      BY <1>3, <2>1, RequestTyped DEF Orderly
    <2>3. users[call[r].user] \in Account
      BY <1>3, <2>2 DEF Orderly, TypeOK
    <2> QED
      BY <2>2, <2>3 DEF Account
  <1>7. users'[call[r].user] # None
    BY <1>3, <1>6, NoneIsNothing DEF SetAccount, Orderly, TypeOK
  <1> QED
    BY <1>3, <1>5, <1>7

\* Another's step leaves a request sound.
LEMMA OthersStaySound ==
  ASSUME Orderly, NEW r \in Requests, StepOf(r), NEW q \in Requests \ {r}
  PROVE  Sound(q)'
  <1>1. Sound(q)
    BY DEF Orderly, RequestsAreSound
  <1>2. /\ pc'[q] = pc[q] /\ call'[q] = call[q] /\ bearer'[q] = bearer[q]
        /\ who'[q] = who[q] /\ reply'[q] = reply[q] /\ did'[q] = did[q]
    BY DEF StepOf
  <1> QED
    BY <1>1, <1>2 DEF Sound, MayUpdate

LEMMA HandlingOrderly ==
  ASSUME Orderly, NEW r \in Requests, Handling(r), pc[r] # "grant"
  PROVE  Orderly'
  <1>1. /\ HandlerStep(r) /\ TypeOK' /\ StepOf(r) /\ pc'[r] \in {"half", "done"}
        /\ \A u \in Users, x \in Roles : heldTill'[u][x] <= now
    BY HandlersStep, HandlerTyped
  <1>2. /\ UNCHANGED <<now, call, bearer, who, since>>
        /\ pc[r] \in {"passed", "half"}
    BY <1>1 DEF HandlerStep, server
  <1>3. TimesAgree'
    BY <1>1, <1>2 DEF Orderly, TimesAgree
  <1>4. Sound(r)'
    <2>1. Sound(r)
      BY DEF Orderly, RequestsAreSound
    <2>2. pc'[r] # "done" => reply'[r] = "none"
      <3>1. CASE \E status \in Answers : Answer(r, status)
        BY <3>1, Answered DEF Orderly
      <3>2. CASE UNCHANGED reply
        BY <3>2, <1>2, <2>1 DEF Sound
      <3> QED
        BY <1>1, <3>1, <3>2 DEF HandlerStep
    <2>3. pc'[r] = "half" => call[r].kind = "update" /\ call[r].role # None /\ MayUpdate(r)
                             /\ did'[r] = {"role"}
      BY OnlyUpdatesAreHalfDone
    <2>4. MayUpdate(r)' = MayUpdate(r)
      BY <1>2 DEF MayUpdate
    <2>5. call[r].kind # "login" /\ call[r] # None /\ who[r] # None
      BY <1>2, <2>1 DEF Sound
    <2>6. "editor" \in Roles /\ who[r].role \in Roles
      BY <2>5, RequestTyped DEF Roles, Orderly
    <2>7. pc'[r] = "half" => who[r].role \in Allowed(call[r].kind)
      BY <2>3, <2>6 DEF Allowed
    <2> QED
      BY <1>1, <1>2, <2>1, <2>2, <2>3, <2>4, <2>5, <2>7 DEF Sound
  <1>5. RequestsAreSound'
    BY <1>1, <1>4, OthersStaySound DEF RequestsAreSound
  <1>6. \A q \in Requests : pc[q] = "done" => pc'[q] = "done"
    BY <1>1, <1>2 DEF StepOf
  <1>7. bearer[r] \in Requests \cup {None}
    BY DEF Orderly, TypeOK
  <1>8. \A t \in Requests : sessions'[t] # None => sessions[t] # None
    BY <1>1, <1>7 DEF HandlerStep, Orderly, TypeOK
  <1>9. TokensAreOfLogins'
    BY <1>2, <1>6, <1>8 DEF Orderly, TokensAreOfLogins, TypeOK
  <1> QED
    BY <1>1, <1>3, <1>5, <1>9 DEF Orderly

LEMMA OpenSessionOrderly ==
  ASSUME Orderly, NEW r \in Requests, OpenSession(r)
  PROVE  /\ Orderly' /\ StepOf(r) /\ pc'[r] = "done" /\ UNCHANGED <<accounts, did, call, who>>
         /\ reply'[r] \in {"ok", "error"}
         /\ \/ UNCHANGED <<sessions, delay>>
            \/ /\ \A t \in Requests \ {r} : sessions'[t] = sessions[t]
               /\ sessions'[r] # None
               /\ sessions'[r].user = who[r].user /\ sessions'[r].role = who[r].role
               /\ sessions'[r].exp = since[r] + delay'[r] + Expiry
  <1>1. pc[r] = "grant" /\ UNCHANGED <<server, accounts, call, bearer, who, since, did>>
    BY DEF OpenSession
  <1>2. PICK status \in {"ok", "error"} : Answer(r, status)
    BY DEF OpenSession, Reported
  <1>3. status \in Answers
    BY DEF Answers
  <1>4. /\ pc' \in [Requests -> {"new", "grant", "passed", "half", "done", "gone"}]
        /\ reply' \in [Requests -> Answers]
        /\ pc'[r] = "done" /\ reply'[r] = status
        /\ \A q \in Requests \ {r} : pc'[q] = pc[q] /\ reply'[q] = reply[q]
    BY <1>2, <1>3, Answered DEF Orderly
  <1>5. /\ call[r] # None /\ call[r].kind = "login" /\ did[r] = {}
        /\ who[r] # None /\ who[r].user \in Users /\ who[r].role \in Roles
    BY <1>1, RequestTyped DEF Orderly, RequestsAreSound, Sound
  <1> DEFINE opened == [user |-> who[r].user, role |-> who[r].role, exp |-> now + Expiry]
  <1>6. \/ UNCHANGED <<sessions, delay>>
        \/ /\ sessions' = [sessions EXCEPT ![r] = opened]
           /\ delay' = [delay EXCEPT ![r] = now - since[r]]
    BY DEF OpenSession
  <1>7. now \in Nat /\ since[r] \in Nat /\ since[r] <= now /\ Expiry \in Nat
    BY AuthConstants DEF Orderly, TypeOK, TimesAgree
  <1>8. opened \in Session
    BY <1>5, <1>7 DEF Session
  <1>9. opened.user = who[r].user /\ opened.role = who[r].role /\ opened.exp = now + Expiry
    OBVIOUS
  <1> HIDE DEF opened
  <1>10. /\ sessions' \in [Requests -> Session \cup {None}]
         /\ delay' \in [Requests -> Nat]
         /\ \A q \in Requests \ {r} : sessions'[q] = sessions[q] /\ delay'[q] = delay[q]
         /\ \/ UNCHANGED <<sessions, delay>>
            \/ sessions'[r] = opened /\ delay'[r] = now - since[r]
    BY <1>6, <1>7, <1>8 DEF Orderly, TypeOK
  <1>11. TypeOK'
    BY <1>1, <1>4, <1>10 DEF Orderly, TypeOK, server, accounts
  <1>12. StepOf(r)
    BY <1>1, <1>4, <1>10 DEF StepOf
  <1>13. TimesAgree'
    BY <1>1 DEF Orderly, TimesAgree, server, accounts
  <1>14. Sound(r)'
    BY <1>1, <1>4, <1>5 DEF Orderly, RequestsAreSound, Sound
  <1>15. RequestsAreSound'
    BY <1>12, <1>14, OthersStaySound DEF RequestsAreSound
  <1>16. TokensAreOfLogins'
    <2>1. \A q \in Requests : pc[q] = "done" => pc'[q] = "done"
      BY <1>4
    <2> QED
      BY <1>1, <1>4, <1>5, <1>10, <2>1 DEF Orderly, TokensAreOfLogins, TypeOK
  <1>17. sessions'[r] = opened /\ delay'[r] = now - since[r] =>
           /\ sessions'[r] # None
           /\ sessions'[r].exp = since[r] + delay'[r] + Expiry
    BY <1>7, <1>8, <1>9, NoneIsNothing
  <1> QED
    BY <1>1, <1>4, <1>9, <1>10, <1>11, <1>12, <1>13, <1>15, <1>16, <1>17 DEF Orderly

LEMMA ReadAccountOrderly ==
  ASSUME Orderly, NEW r \in Requests, NEW c \in Calls, ReadAccount(r, c)
  PROVE  /\ Orderly' /\ StepOf(r) /\ UNCHANGED <<accounts, sessions, delay, did, bearer>>
         /\ pc'[r] \in {"grant", "done"} /\ pc[r] = "new" /\ call'[r] = c /\ c.kind = "login"
         /\ reply'[r] \in {"none", "unauthorized"}
         /\ \/ UNCHANGED <<who, since>> /\ pc'[r] = "done"
            \/ /\ who'[r] # None /\ since'[r] = now
               /\ who'[r].user \in Users /\ users[who'[r].user] # None
               /\ who'[r].role = users[who'[r].user].role
  <1>1. /\ pc[r] = "new" /\ c.kind = "login" /\ call' = [call EXCEPT ![r] = c]
        /\ UNCHANGED <<server, accounts, sessions, bearer, delay, did>>
    BY DEF ReadAccount
  <1>2. c \in CallType /\ c # None /\ c.user \in Users
    BY AuthConstants DEF CallType
  <1>3. Sound(r) /\ did[r] = {} /\ reply[r] = "none"
    BY <1>1 DEF Orderly, RequestsAreSound, Sound
  <1>4. call' \in [Requests -> Calls \cup {None}] /\ call'[r] = c
        /\ \A q \in Requests \ {r} : call'[q] = call[q]
    BY <1>1 DEF Orderly, TypeOK
  <1> DEFINE read == [user |-> c.user, role |-> users[c.user].role]
  <1>5. \/ Answer(r, "unauthorized") /\ UNCHANGED <<who, since>>
        \/ /\ Matches(c) /\ who' = [who EXCEPT ![r] = read] /\ since' = [since EXCEPT ![r] = now]
           /\ pc' = [pc EXCEPT ![r] = "grant"] /\ UNCHANGED reply
    BY DEF ReadAccount
  <1>6. Matches(c) => users[c.user] # None /\ read \in Context
    BY <1>2 DEF Matches, Orderly, TypeOK, Context, Account
  <1>7. read.user = c.user /\ read.role = users[c.user].role
    OBVIOUS
  <1> HIDE DEF read
  <1>8. now \in Nat /\ now > 0
    BY DEF Orderly, TypeOK
  <1>9. /\ pc' \in [Requests -> {"new", "grant", "passed", "half", "done", "gone"}]
        /\ reply' \in [Requests -> Answers]
        /\ who' \in [Requests -> Context \cup {None}] /\ since' \in [Requests -> Nat]
        /\ pc'[r] \in {"grant", "done"}
        /\ \A q \in Requests \ {r} : /\ pc'[q] = pc[q] /\ reply'[q] = reply[q]
                                     /\ who'[q] = who[q] /\ since'[q] = since[q]
        /\ \/ UNCHANGED <<who, since>> /\ pc'[r] = "done" /\ reply'[r] = "unauthorized"
           \/ /\ who'[r] = read /\ read # None /\ since'[r] = now /\ users[c.user] # None
              /\ pc'[r] = "grant" /\ reply'[r] = "none"
    <2>1. CASE Answer(r, "unauthorized") /\ UNCHANGED <<who, since>>
      <3>1. "unauthorized" \in Answers
        BY DEF Answers
      <3> QED
        BY <2>1, <3>1, Answered DEF Orderly, TypeOK
    <2>2. CASE /\ Matches(c) /\ who' = [who EXCEPT ![r] = read] /\ since' = [since EXCEPT ![r] = now]
               /\ pc' = [pc EXCEPT ![r] = "grant"] /\ UNCHANGED reply
      BY <2>2, <1>3, <1>6, <1>8, NoneIsNothing DEF Orderly, TypeOK
    <2> QED
      BY <1>5, <2>1, <2>2
  <1>10. TypeOK'
    BY <1>1, <1>4, <1>9 DEF Orderly, TypeOK, server, accounts
  <1>11. StepOf(r)
    BY <1>1, <1>4, <1>9 DEF StepOf
  <1>12. TimesAgree'
    <2>1. UNCHANGED <<now, heldTill>>
      BY <1>1 DEF server, accounts
    <2>2. ASSUME NEW q \in Requests
          PROVE  since'[q] <= now /\ (who'[q] # None => since'[q] > 0)
      <3>1. since[q] <= now /\ (who[q] # None => since[q] > 0)
        BY DEF Orderly, TimesAgree
      <3> QED
        BY <3>1, <1>8, <1>9
    <2> QED
      BY <2>1, <2>2 DEF Orderly, TimesAgree
  <1>13. Sound(r)'
    BY <1>1, <1>2, <1>3, <1>4, <1>9 DEF Sound
  <1>14. RequestsAreSound'
    BY <1>11, <1>13, OthersStaySound DEF RequestsAreSound
  <1>15. TokensAreOfLogins'
    <2>1. \A q \in Requests : pc[q] = "done" => pc'[q] = "done" /\ call'[q] = call[q]
      BY <1>1, <1>4, <1>9
    <2> QED
      BY <1>1, <2>1 DEF Orderly, TokensAreOfLogins, TypeOK
  <1> QED
    BY <1>1, <1>2, <1>4, <1>7, <1>9, <1>10, <1>11, <1>12, <1>14, <1>15 DEF Orderly

LEMMA AuthenticateOrderly ==
  ASSUME Orderly, NEW r \in Requests, NEW c \in Calls, NEW t \in Requests \cup {None},
         Authenticate(r, c, t)
  PROVE  /\ Orderly' /\ StepOf(r) /\ UNCHANGED <<accounts, sessions, delay, did>>
         /\ pc'[r] \in {"passed", "done"} /\ pc[r] = "new" /\ call'[r] = c /\ c.kind # "login"
         /\ bearer'[r] = t /\ reply'[r] \in {"none", "unauthorized", "forbidden"}
         /\ \/ UNCHANGED <<who, since>> /\ pc'[r] = "done"
            \/ /\ GetSession(t) /\ t \in Requests /\ since'[r] = now /\ who'[r] # None
               /\ who'[r].user = sessions[t].user /\ who'[r].role = sessions[t].role
  <1>1. /\ pc[r] = "new" /\ c.kind # "login" /\ t \in Known \cup {None}
        /\ call' = [call EXCEPT ![r] = c] /\ bearer' = [bearer EXCEPT ![r] = t]
        /\ UNCHANGED <<server, accounts, sessions, delay, did>>
    BY DEF Authenticate
  <1>2. c \in CallType /\ c # None
    BY AuthConstants
  <1>3. Sound(r) /\ did[r] = {} /\ reply[r] = "none" /\ who[r] = None
    BY <1>1 DEF Orderly, RequestsAreSound, Sound
  <1>4. /\ call' \in [Requests -> Calls \cup {None}] /\ call'[r] = c
        /\ bearer' \in [Requests -> Requests \cup {None}] /\ bearer'[r] = t
        /\ \A q \in Requests \ {r} : call'[q] = call[q] /\ bearer'[q] = bearer[q]
    BY <1>1 DEF Orderly, TypeOK
  <1> DEFINE context == [user |-> sessions[t].user, role |-> sessions[t].role]
  <1>5. \/ Answer(r, "unauthorized") /\ UNCHANGED <<who, since>>
        \/ /\ GetSession(t) /\ who' = [who EXCEPT ![r] = context]
           /\ since' = [since EXCEPT ![r] = now]
           /\ \/ Answer(r, "forbidden")
              \/ /\ sessions[t].role \in Allowed(c.kind)
                 /\ pc' = [pc EXCEPT ![r] = "passed"] /\ UNCHANGED reply
    BY DEF Authenticate
  <1>6. GetSession(t) => t \in Requests /\ t # None /\ context \in Context
    BY RequestTyped, NoneIsNothing DEF GetSession, Orderly, Context
  <1>7. context.user = sessions[t].user /\ context.role = sessions[t].role
    OBVIOUS
  <1> HIDE DEF context
  <1>8. now \in Nat /\ now > 0 /\ {"unauthorized", "forbidden"} \subseteq Answers
    BY DEF Orderly, TypeOK, Answers
  <1>9. /\ pc' \in [Requests -> {"new", "grant", "passed", "half", "done", "gone"}]
        /\ reply' \in [Requests -> Answers]
        /\ who' \in [Requests -> Context \cup {None}] /\ since' \in [Requests -> Nat]
        /\ \A q \in Requests \ {r} : /\ pc'[q] = pc[q] /\ reply'[q] = reply[q]
                                     /\ who'[q] = who[q] /\ since'[q] = since[q]
        /\ \/ UNCHANGED <<who, since>> /\ pc'[r] = "done" /\ reply'[r] = "unauthorized"
           \/ /\ GetSession(t) /\ who'[r] = context /\ since'[r] = now
              /\ \/ pc'[r] = "done" /\ reply'[r] = "forbidden"
                 \/ /\ pc'[r] = "passed" /\ reply'[r] = "none"
                    /\ sessions[t].role \in Allowed(c.kind)
    <2>1. CASE Answer(r, "unauthorized") /\ UNCHANGED <<who, since>>
      BY <2>1, <1>8, Answered DEF Orderly, TypeOK
    <2>2. CASE GetSession(t) /\ who' = [who EXCEPT ![r] = context]
               /\ since' = [since EXCEPT ![r] = now] /\ Answer(r, "forbidden")
      <3>1. /\ pc' \in [Requests -> {"new", "grant", "passed", "half", "done", "gone"}]
            /\ reply' \in [Requests -> Answers]
            /\ pc'[r] = "done" /\ reply'[r] = "forbidden"
            /\ \A q \in Requests \ {r} : pc'[q] = pc[q] /\ reply'[q] = reply[q]
        BY <2>2, <1>8, Answered DEF Orderly
      <3> QED
        BY <2>2, <3>1, <1>6, <1>8 DEF Orderly, TypeOK
    <2>3. CASE GetSession(t) /\ who' = [who EXCEPT ![r] = context]
               /\ since' = [since EXCEPT ![r] = now] /\ sessions[t].role \in Allowed(c.kind)
               /\ pc' = [pc EXCEPT ![r] = "passed"] /\ UNCHANGED reply
      BY <2>3, <1>3, <1>6, <1>8 DEF Orderly, TypeOK
    <2> QED
      BY <1>5, <2>1, <2>2, <2>3
  <1>10. TypeOK'
    BY <1>1, <1>4, <1>9 DEF Orderly, TypeOK, server, accounts
  <1>11. StepOf(r)
    BY <1>1, <1>4, <1>9 DEF StepOf
  <1>12. TimesAgree'
    <2>1. UNCHANGED <<now, heldTill>>
      BY <1>1 DEF server, accounts
    <2>2. ASSUME NEW q \in Requests
          PROVE  since'[q] <= now /\ (who'[q] # None => since'[q] > 0)
      <3>1. since[q] <= now /\ (who[q] # None => since[q] > 0)
        BY DEF Orderly, TimesAgree
      <3> QED
        BY <3>1, <1>8, <1>9
    <2> QED
      BY <2>1, <2>2 DEF Orderly, TimesAgree
  <1>13. GetSession(t) => context # None
    BY <1>6, NoneIsNothing
  <1>14. Sound(r)'
    BY <1>1, <1>2, <1>3, <1>4, <1>6, <1>7, <1>9, <1>13 DEF Sound
  <1>15. RequestsAreSound'
    BY <1>11, <1>14, OthersStaySound DEF RequestsAreSound
  <1>16. TokensAreOfLogins'
    <2>1. \A q \in Requests : pc[q] = "done" => pc'[q] = "done" /\ call'[q] = call[q]
      BY <1>1, <1>4, <1>9
    <2>2. t # None => t \in Requests /\ pc[t] = "done" /\ call[t].kind = "login"
      BY <1>1 DEF Known, Orderly, RequestsAreSound, Sound
    <2>3. ASSUME NEW q \in Requests, bearer'[q] # None
          PROVE  pc'[bearer'[q]] = "done" /\ call'[bearer'[q]].kind = "login"
      <3>1. CASE q = r
        BY <3>1, <2>1, <2>2, <2>3, <1>4
      <3>2. CASE q # r
        BY <3>2, <2>1, <2>3, <1>4 DEF Orderly, TokensAreOfLogins, TypeOK
      <3> QED
        BY <3>1, <3>2
    <2> QED
      BY <1>1, <2>1, <2>3 DEF Orderly, TokensAreOfLogins, TypeOK
  <1> QED
    BY <1>1, <1>4, <1>6, <1>7, <1>9, <1>10, <1>11, <1>12, <1>13, <1>15, <1>16 DEF Orderly

-----------------------------------------------------------------------------
(* Ticks, restarts, and every step *)

LEMMA InitOrderly == Init => Orderly
  <1> SUFFICES ASSUME Init PROVE Orderly
    OBVIOUS
  <1>1. Root \in Account
    BY AuthConstants DEF Root, Account, Roles
  <1>2. users \in [Users -> Account \cup {None}]
    BY <1>1, AuthConstants DEF Init
  <1>3. TypeOK
    BY <1>2, AuthConstants DEF Init, TypeOK, Answers
  <1>4. TimesAgree
    BY DEF Init, TimesAgree
  <1>5. RequestsAreSound
    BY DEF Init, RequestsAreSound, Sound
  <1>6. TokensAreOfLogins
    BY DEF Init, TokensAreOfLogins
  <1> QED
    BY <1>3, <1>4, <1>5, <1>6 DEF Orderly

LEMMA TickOrderly ==
  ASSUME Orderly, Tick
  PROVE  /\ Orderly' /\ now' = now + 1
         /\ UNCHANGED <<backend, restarts, accounts, sessions, request>>
  <1>1. /\ now < MaxTime /\ now' = now + 1
        /\ UNCHANGED <<backend, restarts, users, heldTill, touched, sessions>>
        /\ UNCHANGED <<pc, call, bearer, who, reply, since, delay, did>>
    BY DEF Tick, accounts, request
  <1>2. now' \in 1..MaxTime
    BY <1>1, AuthConstants DEF Orderly, TypeOK
  <1>3. TypeOK'
    BY <1>1, <1>2 DEF Orderly, TypeOK
  <1>4. TimesAgree'
    BY <1>1 DEF Orderly, TypeOK, TimesAgree
  <1>5. RequestsAreSound' /\ TokensAreOfLogins'
    BY <1>1 DEF Orderly, RequestsAreSound, Sound, MayUpdate, TokensAreOfLogins
  <1> QED
    BY <1>1, <1>3, <1>4, <1>5 DEF Orderly, accounts, request

\* What a start of the server finds in the store has an admin with the password afterwards.
LEMMA StartedTyped ==
  ASSUME NEW stored \in [Users -> Account \cup {None}]
  PROVE  /\ Started(stored) \in [Users -> Account \cup {None}]
         /\ Started(stored)[Admin] # None /\ Started(stored)[Admin].pass = AdminPassword
         /\ \A u \in Users : stored[u] # None =>
              Started(stored)[u] # None /\ Started(stored)[u].role = stored[u].role
  <1> DEFINE found == IF stored[Admin] = None THEN Root
                      ELSE [stored[Admin] EXCEPT !.pass = AdminPassword]
  <1>1. Started(stored) = [stored EXCEPT ![Admin] = found]
    BY DEF Started
  <1>2. Admin \in Users
    BY AuthConstants
  <1>3. /\ found \in Account /\ found.pass = AdminPassword
        /\ stored[Admin] # None => found.role = stored[Admin].role
    BY <1>2, AuthConstants DEF Root, Account, Roles
  <1> HIDE DEF found
  <1> QED
    BY <1>1, <1>2, <1>3, NoneIsNothing

LEMMA RestartOrderly ==
  ASSUME Orderly, Restart
  PROVE  /\ Orderly'
         /\ UNCHANGED <<backend, now, call, bearer, who, reply, since, delay, did>>
         /\ restarts' = restarts + 1 /\ touched' = {}
         /\ \A q \in Requests : pc'[q] = (IF pc[q] \in {"new", "done"} THEN pc[q] ELSE "gone")
         /\ \A t \in Requests : sessions'[t] # None => sessions'[t] = sessions[t]
         /\ users'[Admin] # None /\ users'[Admin].pass = AdminPassword
         /\ \A u \in Users, x \in Roles :
              heldTill'[u][x] = (IF users[u] # None /\ users[u].role = x THEN now ELSE heldTill[u][x])
  <1>1. /\ restarts < MaxRestarts /\ restarts' = restarts + 1 /\ touched' = {}
        /\ pc' = [r \in Requests |-> IF pc[r] \in {"new", "done"} THEN pc[r] ELSE "gone"]
        /\ UNCHANGED <<backend, now, call, bearer, who, reply, since, delay, did>>
    BY DEF Restart
  <1>2. \/ users' = Started([u \in Users |-> None]) /\ sessions' = [t \in Requests |-> None]
        \/ users' = Started(users) /\ sessions' = sessions
    <2>1. IF backend = "memory"
          THEN users' = Started([u \in Users |-> None]) /\ sessions' = [t \in Requests |-> None]
          ELSE users' = Started(users) /\ UNCHANGED sessions
      BY Zenon DEF Restart
    <2> QED
      BY <2>1, Zenon
  <1>3. /\ users' \in [Users -> Account \cup {None}]
        /\ users'[Admin] # None /\ users'[Admin].pass = AdminPassword
    <2>1. [u \in Users |-> None] \in [Users -> Account \cup {None}]
      OBVIOUS
    <2> QED
      BY <1>2, <2>1, StartedTyped DEF Orderly, TypeOK
  <1>4. /\ sessions' \in [Requests -> Session \cup {None}]
        /\ \A t \in Requests : sessions'[t] # None => sessions'[t] = sessions[t]
    BY <1>2 DEF Orderly, TypeOK
  <1>5. heldTill' = [u \in Users |-> [x \in Roles |->
          IF users[u] # None /\ users[u].role = x THEN now ELSE heldTill[u][x]]]
    BY DEF Restart
  <1>6. \A u \in Users, x \in Roles :
          heldTill'[u][x] = (IF users[u] # None /\ users[u].role = x THEN now ELSE heldTill[u][x])
    BY <1>5
  <1>7. now \in Nat /\ \A u \in Users, x \in Roles : heldTill[u][x] \in Nat /\ heldTill[u][x] <= now
    BY DEF Orderly, TypeOK, TimesAgree
  <1>8. heldTill' \in [Users -> [Roles -> Nat]]
    BY <1>5, <1>7
  <1>9. pc' \in [Requests -> {"new", "grant", "passed", "half", "done", "gone"}]
    BY <1>1 DEF Orderly, TypeOK
  <1>10. restarts' \in 0..MaxRestarts
    BY <1>1, AuthConstants DEF Orderly, TypeOK
  <1>11. TypeOK'
    BY <1>1, <1>3, <1>4, <1>8, <1>9, <1>10 DEF Orderly, TypeOK
  <1>12. TimesAgree'
    <2>1. \A u \in Users, x \in Roles : heldTill'[u][x] <= now
      BY <1>6, <1>7
    <2> QED
      BY <1>1, <2>1 DEF Orderly, TimesAgree
  <1>13. \A q \in Requests : pc'[q] = (IF pc[q] \in {"new", "done"} THEN pc[q] ELSE "gone")
    BY <1>1
  <1>14. ASSUME NEW q \in Requests PROVE Sound(q)'
    <2>1. Sound(q)
      BY DEF Orderly, RequestsAreSound
    <2> QED
      BY <1>1, <1>13, <2>1 DEF Sound
  <1>15. TokensAreOfLogins'
    BY <1>1, <1>4, <1>13 DEF Orderly, TokensAreOfLogins, TypeOK
  <1> QED
    BY <1>1, <1>3, <1>4, <1>6, <1>11, <1>12, <1>13, <1>14, <1>15 DEF Orderly, RequestsAreSound

\* The cases of a step.
LEMMA Steps ==
  ASSUME Orderly, Next
  PROVE  \/ \E r \in Requests, c \in Calls : ReadAccount(r, c)
         \/ \E r \in Requests, c \in Calls, t \in Requests \cup {None} : Authenticate(r, c, t)
         \/ \E r \in Requests : OpenSession(r)
         \/ \E r \in Requests : Handling(r) /\ pc[r] # "grant"
         \/ Tick
         \/ Restart
  <1>1. ASSUME NEW r \in Requests, Handling(r), pc[r] = "grant" PROVE OpenSession(r)
    BY <1>1 DEF Handling, RefuseBody, Logout, Me, Serve, CreateUser, ForbidUpdate, UpdateRole,
                UpdatePassword, DeleteUser, Handler
  <1> QED
    BY <1>1 DEF Next

LEMMA StaysOrderly ==
  ASSUME Orderly, [Next]_vars
  PROVE  Orderly'
  <1>1. CASE Next
    BY <1>1, Steps, ReadAccountOrderly, AuthenticateOrderly, OpenSessionOrderly,
       HandlingOrderly, TickOrderly, RestartOrderly
  <1>2. CASE UNCHANGED vars
    <2>1. /\ UNCHANGED <<backend, now, restarts, users, heldTill, touched, sessions>>
          /\ UNCHANGED <<pc, call, bearer, who, reply, since, delay, did>>
      BY <1>2 DEF vars, server, accounts, request
    <2>2. TypeOK'
      BY <2>1 DEF Orderly, TypeOK
    <2>3. TimesAgree' /\ TokensAreOfLogins'
      BY <2>1 DEF Orderly, TimesAgree, TokensAreOfLogins
    <2>4. RequestsAreSound'
      BY <2>1 DEF Orderly, RequestsAreSound, Sound, MayUpdate
    <2> QED
      BY <2>2, <2>3, <2>4 DEF Orderly
  <1> QED
    BY <1>1, <1>2

\* Every reachable state is orderly: what is known of requests, tokens and times.
THEOREM Order == Spec => []Orderly
  BY InitOrderly, StaysOrderly, PTL DEF Spec

\* Every variable keeps its type (the whole of Auth).
THEOREM Typing == Spec => []TypeOK
  <1>1. Orderly => TypeOK
    BY DEF Orderly
  <1> QED
    BY <1>1, Order, PTL

-----------------------------------------------------------------------------
(* Authority *)

\* That a role was held is not forgotten, and nothing is held in the future.
LEMMA HeldAtTyped ==
  ASSUME Orderly, NEW u \in Users, NEW x \in Roles
  PROVE  HeldAt(u, x) \in Nat /\ HeldAt(u, x) <= now
  BY DEF HeldAt, Orderly, TypeOK, TimesAgree

LEMMA HeldAtGrows ==
  ASSUME Orderly, Next, NEW u \in Users, NEW x \in Roles
  PROVE  HeldAt(u, x) <= HeldAt(u, x)'
  <1>1. HeldAt(u, x) \in Nat /\ HeldAt(u, x) <= now /\ now \in Nat
    BY HeldAtTyped DEF Orderly, TypeOK
  <1>2. UNCHANGED <<now, users, heldTill>> => HeldAt(u, x) <= HeldAt(u, x)'
    BY <1>1 DEF HeldAt
  <1>3. ASSUME NEW r \in Requests, StepOf(r), UNCHANGED accounts PROVE HeldAt(u, x) <= HeldAt(u, x)'
    BY <1>2, <1>3 DEF StepOf, server, accounts
  <1>4. ASSUME NEW r \in Requests, HandlerStep(r) PROVE HeldAt(u, x) <= HeldAt(u, x)'
    <2>1. UNCHANGED now
      BY <1>4 DEF HandlerStep, server
    <2>2. CASE UNCHANGED accounts
      BY <2>1, <2>2, <1>2 DEF accounts
    <2>3. ASSUME NEW a \in Account \cup {None}, SetAccount(call[r].user, a)
          PROVE  HeldAt(u, x) <= HeldAt(u, x)'
      <3>1. call[r].user \in Users
        BY <1>4, RequestTyped DEF HandlerStep, Orderly, RequestsAreSound, Sound
      <3>2. CASE u # call[r].user
        <4>1. users'[u] = users[u] /\ heldTill'[u] = heldTill[u]
          BY <2>3, <3>1, <3>2, AccountSet DEF Orderly
        <4> QED
          BY <2>1, <4>1, <1>1 DEF HeldAt
      <3>3. CASE u = call[r].user
        <4>1. /\ heldTill'[u][x] = heldTill[u][x] \/ heldTill'[u][x] = now
              /\ users[u] # None => heldTill'[u][users[u].role] = now
          BY <2>3, <3>1, <3>3, AccountSet DEF Orderly
        <4>2. heldTill[u][x] \in Nat /\ heldTill[u][x] <= now
          BY DEF Orderly, TypeOK, TimesAgree
        <4> QED
          BY <2>1, <4>1, <4>2, <1>1 DEF HeldAt
      <3> QED
        BY <3>2, <3>3
    <2> QED
      BY <1>4, <2>2, <2>3 DEF HandlerStep, AccountStep
  <1>5. CASE Tick
    <2>1. now' = now + 1 /\ UNCHANGED <<users, heldTill>>
      BY <1>5, TickOrderly DEF accounts
    <2> QED
      BY <1>1, <2>1 DEF HeldAt
  <1>6. CASE Restart
    <2>1. /\ now' = now
          /\ heldTill'[u][x] = (IF users[u] # None /\ users[u].role = x THEN now ELSE heldTill[u][x])
      BY <1>6, RestartOrderly
    <2> QED
      BY <1>1, <2>1 DEF HeldAt
  <1> QED
    BY <1>3, <1>4, <1>5, <1>6, Steps, ReadAccountOrderly, AuthenticateOrderly,
       OpenSessionOrderly, HandlersStep

\* The roles in sessions, in logins under way and in contexts were held.
RoleHeld(r) ==
  /\ pc[r] = "grant" => since[r] <= HeldAt(who[r].user, who[r].role)
  /\ sessions[r] # None =>
       /\ HeldAt(sessions[r].user, sessions[r].role) > 0
       /\ sessions[r].exp <= HeldAt(sessions[r].user, sessions[r].role) + delay[r] + Expiry
  /\ call[r] # None /\ call[r].kind # "login" /\ who[r] # None =>
       /\ HeldAt(who[r].user, who[r].role) > 0
       /\ since[r] <= HeldAt(who[r].user, who[r].role) + delay[bearer[r]] + Expiry

RolesWereHeld == \A r \in Requests : RoleHeld(r)

\* Of what a request has and keeps, the roles stay held.
LEMMA StaysHeld ==
  ASSUME Orderly, RolesWereHeld, Next, NEW q \in Requests,
         pc'[q] = "grant" => pc[q] = "grant",
         sessions'[q] # None => sessions'[q] = sessions[q] /\ delay'[q] = delay[q],
         UNCHANGED <<call[q], who[q], since[q], bearer[q]>>,
         bearer[q] # None => delay'[bearer[q]] = delay[bearer[q]]
  PROVE  RoleHeld(q)'
  <1>1. RoleHeld(q) /\ Sound(q)
    BY DEF RolesWereHeld, Orderly, RequestsAreSound
  <1>2. Expiry \in Nat /\ since[q] \in Nat /\ delay[q] \in Nat
        /\ (bearer[q] # None => delay[bearer[q]] \in Nat)
    BY AuthConstants DEF Orderly, TypeOK
  <1>3. ASSUME NEW u \in Users, NEW x \in Roles
        PROVE  HeldAt(u, x) \in Nat /\ HeldAt(u, x)' \in Nat /\ HeldAt(u, x) <= HeldAt(u, x)'
    <2>1. Orderly'
      BY StaysOrderly
    <2> QED
      BY <2>1, HeldAtTyped, HeldAtGrows DEF HeldAt, Orderly, TypeOK
  <1>4. (pc[q] = "grant" => since[q] <= HeldAt(who[q].user, who[q].role))'
    <2> SUFFICES ASSUME pc'[q] = "grant" PROVE (since[q] <= HeldAt(who[q].user, who[q].role))'
      OBVIOUS
    <2> DEFINE u == who[q].user
               x == who[q].role
    <2>1. u \in Users /\ x \in Roles
      BY <1>1, RequestTyped DEF Orderly, Sound
    <2>2. since[q] <= HeldAt(u, x)
      BY <1>1 DEF RoleHeld
    <2>3. who'[q].user = u /\ who'[q].role = x
      OBVIOUS
    <2> HIDE DEF u, x
    <2> QED
      BY <2>1, <2>2, <2>3, <1>2, <1>3 DEF HeldAt
  <1>5. (sessions[q] # None =>
           /\ HeldAt(sessions[q].user, sessions[q].role) > 0
           /\ sessions[q].exp <= HeldAt(sessions[q].user, sessions[q].role) + delay[q] + Expiry)'
    <2> SUFFICES ASSUME sessions'[q] # None
                 PROVE  /\ (HeldAt(sessions[q].user, sessions[q].role) > 0)'
                        /\ (sessions[q].exp <=
                              HeldAt(sessions[q].user, sessions[q].role) + delay[q] + Expiry)'
      OBVIOUS
    <2> DEFINE u == sessions[q].user
               x == sessions[q].role
               e == sessions[q].exp
    <2>1. u \in Users /\ x \in Roles /\ e \in Nat
      BY RequestTyped DEF Orderly
    <2>2. HeldAt(u, x) > 0 /\ e <= HeldAt(u, x) + delay[q] + Expiry
      BY <1>1 DEF RoleHeld
    <2>3. sessions'[q].user = u /\ sessions'[q].role = x /\ sessions'[q].exp = e /\ delay'[q] = delay[q]
      OBVIOUS
    <2> HIDE DEF u, x, e
    <2> QED
      BY <2>1, <2>2, <2>3, <1>2, <1>3 DEF HeldAt
  <1>6. (call[q] # None /\ call[q].kind # "login" /\ who[q] # None =>
           /\ HeldAt(who[q].user, who[q].role) > 0
           /\ since[q] <= HeldAt(who[q].user, who[q].role) + delay[bearer[q]] + Expiry)'
    <2> SUFFICES ASSUME call[q] # None, call[q].kind # "login", who[q] # None
                 PROVE  /\ (HeldAt(who[q].user, who[q].role) > 0)'
                        /\ (since[q] <=
                              HeldAt(who[q].user, who[q].role) + delay[bearer[q]] + Expiry)'
      OBVIOUS
    <2> DEFINE u == who[q].user
               x == who[q].role
               d == delay[bearer[q]]
    <2>1. u \in Users /\ x \in Roles /\ d \in Nat
      BY <1>1, <1>2, RequestTyped DEF Orderly, Sound
    <2>2. HeldAt(u, x) > 0 /\ since[q] <= HeldAt(u, x) + d + Expiry
      BY <1>1 DEF RoleHeld
    <2>3. who'[q].user = u /\ who'[q].role = x /\ delay'[bearer'[q]] = d
      BY <1>1 DEF Sound
    <2> HIDE DEF u, x, d
    <2> QED
      BY <2>1, <2>2, <2>3, <1>2, <1>3 DEF HeldAt
  <1> QED
    BY <1>4, <1>5, <1>6 DEF RoleHeld

\* A step of r that opens no session leaves the roles of all the others held.
LEMMA OthersStayHeld ==
  ASSUME Orderly, RolesWereHeld, Next, NEW r \in Requests, StepOf(r), NEW q \in Requests \ {r},
         \A t \in Requests \ {r} : sessions'[t] # None => sessions'[t] = sessions[t],
         pc[r] # "done"
  PROVE  RoleHeld(q)'
  <1>1. bearer[q] # None => bearer[q] \in Requests \ {r}
    BY DEF Orderly, TypeOK, TokensAreOfLogins
  <1>2. /\ pc'[q] = pc[q] /\ call'[q] = call[q] /\ bearer'[q] = bearer[q]
        /\ who'[q] = who[q] /\ since'[q] = since[q] /\ delay'[q] = delay[q]
        /\ bearer[q] # None => delay'[bearer[q]] = delay[bearer[q]]
    BY <1>1 DEF StepOf
  <1> QED
    BY <1>2, StaysHeld

LEMMA StayHeld ==
  ASSUME Orderly, RolesWereHeld, [Next]_vars
  PROVE  RolesWereHeld'
  <1>1. ASSUME Next, NEW r \in Requests, Handling(r), pc[r] # "grant" PROVE RolesWereHeld'
    <2>1. HandlerStep(r) /\ StepOf(r) /\ pc'[r] \in {"half", "done"}
      BY <1>1, HandlersStep, HandlerTyped
    <2>2. /\ pc[r] \in {"passed", "half"} /\ UNCHANGED <<call, bearer, who, since, delay>>
          /\ \A t \in Requests : sessions'[t] # None => sessions'[t] = sessions[t]
      BY <2>1 DEF HandlerStep, Orderly, TypeOK
    <2>3. RoleHeld(r)'
      BY <1>1, <2>1, <2>2, StaysHeld
    <2> QED
      BY <1>1, <2>1, <2>2, <2>3, OthersStayHeld DEF RolesWereHeld
  <1>2. ASSUME Next, NEW r \in Requests, NEW c \in Calls, ReadAccount(r, c) PROVE RolesWereHeld'
    <2>1. /\ StepOf(r) /\ UNCHANGED <<accounts, sessions>> /\ pc[r] = "new"
          /\ call'[r] = c /\ c.kind = "login" /\ pc'[r] \in {"grant", "done"}
          /\ \/ UNCHANGED <<who, since>> /\ pc'[r] = "done"
             \/ /\ who'[r] # None /\ since'[r] = now
                /\ who'[r].user \in Users /\ users[who'[r].user] # None
                /\ who'[r].role = users[who'[r].user].role
      BY <1>2, ReadAccountOrderly
    <2>2. UNCHANGED <<now, users, heldTill>>
      BY <2>1 DEF StepOf, server, accounts
    <2>3. sessions'[r] = None
      BY <2>1 DEF Orderly, TokensAreOfLogins
    <2>4. now \in Nat
      BY DEF Orderly, TypeOK
    <2>5. RoleHeld(r)'
      BY <2>1, <2>2, <2>3, <2>4 DEF RoleHeld, HeldAt
    <2> QED
      BY <1>2, <2>1, <2>5, OthersStayHeld DEF RolesWereHeld
  <1>3. ASSUME Next, NEW r \in Requests, NEW c \in Calls, NEW t \in Requests \cup {None},
               Authenticate(r, c, t)
        PROVE  RolesWereHeld'
    <2>1. /\ StepOf(r) /\ UNCHANGED <<accounts, sessions, delay>> /\ pc[r] = "new"
          /\ pc'[r] \in {"passed", "done"} /\ bearer'[r] = t
          /\ \/ UNCHANGED <<who, since>> /\ pc'[r] = "done"
             \/ /\ GetSession(t) /\ t \in Requests /\ since'[r] = now
                /\ who'[r].user = sessions[t].user /\ who'[r].role = sessions[t].role
      BY <1>3, AuthenticateOrderly
    <2>2. UNCHANGED <<now, users, heldTill>> /\ who[r] = None
      BY <2>1 DEF StepOf, server, accounts, Orderly, RequestsAreSound, Sound
    <2>3. sessions'[r] = None
      BY <2>1 DEF Orderly, TokensAreOfLogins
    <2>4. GetSession(t) /\ t \in Requests =>
            LET s == sessions[t] IN
            /\ HeldAt(s.user, s.role) > 0
            /\ now <= HeldAt(s.user, s.role) + delay[t] + Expiry
      <3> SUFFICES ASSUME GetSession(t), t \in Requests
                   PROVE  /\ HeldAt(sessions[t].user, sessions[t].role) > 0
                          /\ now <= HeldAt(sessions[t].user, sessions[t].role) + delay[t] + Expiry
        OBVIOUS
      <3>1. RoleHeld(t) /\ sessions[t] # None
        BY DEF RolesWereHeld, GetSession
      <3>2. sessions[t].exp \in Nat /\ sessions[t].user \in Users /\ sessions[t].role \in Roles
        BY <3>1, RequestTyped DEF Orderly
      <3>3. now \in Nat /\ delay[t] \in Nat /\ Expiry \in Nat
        BY AuthConstants DEF Orderly, TypeOK
      <3>4. now <= sessions[t].exp
        BY <3>2, <3>3 DEF GetSession, Live
      <3>5. HeldAt(sessions[t].user, sessions[t].role) \in Nat
        BY <3>2, HeldAtTyped
      <3> QED
        BY <3>1, <3>2, <3>3, <3>4, <3>5 DEF RoleHeld
    <2>5. RoleHeld(r)'
      BY <2>1, <2>2, <2>3, <2>4 DEF RoleHeld, HeldAt
    <2> QED
      BY <1>3, <2>1, <2>5, OthersStayHeld DEF RolesWereHeld
  <1>4. ASSUME Next, NEW r \in Requests, OpenSession(r) PROVE RolesWereHeld'
    <2>1. /\ StepOf(r) /\ pc'[r] = "done" /\ UNCHANGED <<accounts, call, who>>
          /\ \/ UNCHANGED <<sessions, delay>>
             \/ /\ \A t \in Requests \ {r} : sessions'[t] = sessions[t]
                /\ sessions'[r] # None
                /\ sessions'[r].user = who[r].user /\ sessions'[r].role = who[r].role
                /\ sessions'[r].exp = since[r] + delay'[r] + Expiry
      BY <1>4, OpenSessionOrderly
    <2>2. /\ pc[r] = "grant" /\ UNCHANGED <<now, users, heldTill>> /\ UNCHANGED <<bearer, since>>
          /\ call[r].kind = "login" /\ who[r] # None
      BY <1>4, <2>1 DEF OpenSession, StepOf, server, accounts, Orderly, RequestsAreSound, Sound
    <2>3. RoleHeld(r) /\ sessions[r] = None
      BY <2>2 DEF RolesWereHeld, Orderly, TokensAreOfLogins
    <2>4. since[r] \in Nat /\ since[r] > 0 /\ delay'[r] \in Nat /\ Expiry \in Nat
      <3>1. Orderly'
        BY StaysOrderly
      <3> QED
        BY <2>2, <3>1, AuthConstants DEF Orderly, TypeOK, TimesAgree
    <2>5. HeldAt(who[r].user, who[r].role) \in Nat
      BY <2>2, RequestTyped, HeldAtTyped DEF Orderly
    <2>6. since[r] <= HeldAt(who[r].user, who[r].role)
      BY <2>2, <2>3 DEF RoleHeld
    <2>7. sessions'[r] # None =>
            /\ HeldAt(who[r].user, who[r].role) > 0
            /\ sessions'[r].exp <= HeldAt(who[r].user, who[r].role) + delay'[r] + Expiry
      BY <2>1, <2>3, <2>4, <2>5, <2>6
    <2>8. RoleHeld(r)'
      BY <2>1, <2>2, <2>3, <2>7 DEF RoleHeld, HeldAt
    <2> QED
      BY <1>4, <2>1, <2>2, <2>8, OthersStayHeld DEF RolesWereHeld
  <1>5. ASSUME Next, Tick PROVE RolesWereHeld'
    <2>1. UNCHANGED <<sessions, pc, call, bearer, who, since, delay>>
      BY <1>5, TickOrderly DEF request
    <2> QED
      BY <1>5, <2>1, StaysHeld DEF RolesWereHeld
  <1>6. ASSUME Next, Restart PROVE RolesWereHeld'
    <2>1. /\ UNCHANGED <<call, bearer, who, since, delay>>
          /\ \A q \in Requests : pc'[q] = "grant" => pc[q] = "grant"
          /\ \A t \in Requests : sessions'[t] # None => sessions'[t] = sessions[t]
      BY <1>6, RestartOrderly
    <2> QED
      BY <1>6, <2>1, StaysHeld DEF RolesWereHeld
  <1>7. CASE UNCHANGED vars
    <2>1. UNCHANGED <<now, users, heldTill, sessions, pc, call, bearer, who, since, delay>>
      BY <1>7 DEF vars, server, accounts, request
    <2> QED
      BY <2>1 DEF RolesWereHeld, RoleHeld, HeldAt
  <1> QED
    BY <1>1, <1>2, <1>3, <1>4, <1>5, <1>6, <1>7, Steps

-----------------------------------------------------------------------------
(* What the handlers do and answer *)

\* What an update asks for.
Asked(r) == {e \in {"role", "pass"} : call[r][e] # None}

\* How the handler of r may end: did' and reply' by the kind of call.
Outcome(r) ==
  \/ call[r].kind \in {"logout", "me", "read", "edit"} /\ did'[r] = {}
     /\ reply'[r] \in {"ok", "unauthorized"}
  \/ call[r].kind \in {"create", "update", "delete"} /\ did'[r] = {}
     /\ reply'[r] \in {"bad", "forbidden", "conflict", "notfound", "error"}
  \/ call[r].kind \in {"create", "delete"} /\ did'[r] = {call[r].kind}
     /\ (reply'[r] = "ok" \/ (CanFail /\ reply'[r] \in {"conflict", "notfound"}))
  \/ call[r].kind = "update" /\ MayUpdate(r) /\ did'[r] = Asked(r) /\ reply'[r] = "ok"
  \/ call[r].kind = "update" /\ MayUpdate(r) /\ did'[r] \subseteq Asked(r)
     /\ reply'[r] = "notfound"
     /\ \/ CanFail
        \/ did'[r] = did[r] /\ users[call[r].user] = None
  \/ call[r].kind = "update" /\ MayUpdate(r) /\ did'[r] = {"role"} /\ did'[r] \subseteq Asked(r)
     /\ call[r].pass # None /\ reply'[r] = "error"

LEMMA AnswerIs ==
  ASSUME TypeOK, NEW r \in Requests, NEW status, Answer(r, status)
  PROVE  pc'[r] = "done" /\ reply'[r] = status
  BY DEF Answer, TypeOK

LEMMA ReportIs ==
  ASSUME TypeOK, NEW r \in Requests, NEW failure, Reported(r, failure)
  PROVE  pc'[r] = "done" /\ (reply'[r] = "ok" \/ (CanFail /\ reply'[r] = failure))
  BY AnswerIs DEF Reported

LEMMA Outcomes ==
  ASSUME Orderly, NEW r \in Requests, Handling(r), pc[r] # "grant", pc'[r] # "half"
  PROVE  Outcome(r)
  <1>1. TypeOK /\ Sound(r) /\ HandlerStep(r)
    BY HandlersStep DEF Orderly, RequestsAreSound
  <1>2. /\ call[r] # None /\ (pc[r] = "passed" => did[r] = {})
        /\ (pc[r] = "half" => call[r].kind = "update" /\ MayUpdate(r) /\ call[r].role # None
                              /\ did[r] = {"role"})
    BY <1>1 DEF Sound, HandlerStep
  <1>3. \A e : Executed(r, e) => did'[r] = did[r] \cup {e}
    BY <1>1 DEF Executed, TypeOK
  <1>4. NothingExecuted => did'[r] = did[r]
    BY DEF NothingExecuted
  <1>5. ("role" \in Asked(r) <=> call[r].role # None) /\ ("pass" \in Asked(r) <=> call[r].pass # None)
        /\ Asked(r) \subseteq {"role", "pass"}
    BY <1>2, RequestTyped DEF Asked, Orderly, CallType
  <1>7. CASE RefuseBody(r)
    BY <1>1, <1>2, <1>7, AnswerIs DEF RefuseBody, Outcome
  <1>8. CASE Logout(r)
    BY <1>1, <1>2, <1>8, AnswerIs DEF Logout, Outcome
  <1>9. CASE Me(r)
    BY <1>1, <1>2, <1>9, AnswerIs DEF Me, Outcome
  <1>10. CASE Serve(r)
    BY <1>1, <1>2, <1>10, AnswerIs DEF Serve, Outcome
  <1>11. CASE CreateUser(r)
    <2>1. call[r].kind = "create" /\ pc[r] = "passed"
      BY <1>11 DEF CreateUser, Handler
    <2>2. \/ Executed(r, "create") /\ Reported(r, "conflict")
          \/ NothingExecuted /\ Answer(r, "conflict")
          \/ NothingExecuted /\ Answer(r, "error")
      BY <1>11 DEF CreateUser, HashFails
    <2> QED
      BY <1>1, <1>2, <1>3, <1>4, <2>1, <2>2, AnswerIs, ReportIs DEF Outcome
  <1>12. CASE ForbidUpdate(r)
    BY <1>1, <1>2, <1>4, <1>12, AnswerIs DEF ForbidUpdate, Handler, Outcome
  <1>13. CASE UpdateRole(r)
    <2>1. call[r].kind = "update" /\ pc[r] = "passed" /\ MayUpdate(r) /\ call[r].role # None
      BY <1>13 DEF UpdateRole, Handler
    <2>2. pc' # [pc EXCEPT ![r] = "half"]
      BY <1>1 DEF TypeOK
    <2>3. \/ Executed(r, "role") /\ CanFail /\ Answer(r, "notfound")
          \/ /\ users[call[r].user] = None \/ CanFail
             /\ NothingExecuted /\ Answer(r, "notfound")
      BY <1>13, <2>2 DEF UpdateRole
    <2> QED
      BY <1>1, <1>2, <1>3, <1>4, <1>5, <2>1, <2>3, AnswerIs DEF Outcome
  <1>14. CASE UpdatePassword(r)
    <2>1. call[r].kind = "update" /\ MayUpdate(r) /\ (pc[r] = "half" \/ call[r].role = None)
      BY <1>2, <1>14 DEF UpdatePassword
    <2>2. \/ call[r].pass = None /\ NothingExecuted /\ Answer(r, "ok")
          \/ call[r].pass # None /\ Executed(r, "pass") /\ Reported(r, "notfound")
          \/ call[r].pass # None /\ NothingExecuted /\ Answer(r, "error")
          \/ /\ users[call[r].user] = None \/ CanFail
             /\ NothingExecuted /\ Answer(r, "notfound")
      BY <1>14 DEF UpdatePassword, HashFails
    <2>3. did[r] = {e \in {"role"} : call[r].role # None}
      BY <1>1, <1>2, <2>1, <1>14 DEF UpdatePassword
    <2>4. CASE call[r].pass # None /\ NothingExecuted /\ Answer(r, "error")
      <3>1. reply'[r] = "error" /\ did'[r] = did[r]
        BY <1>1, <1>4, <2>4, AnswerIs
      <3>2. did[r] = {} \/ (did[r] = {"role"} /\ "role" \in Asked(r))
        BY <1>5, <2>3
      <3> QED
        BY <2>1, <2>4, <3>1, <3>2 DEF Outcome
    <2>5. CASE \/ call[r].pass = None /\ NothingExecuted /\ Answer(r, "ok")
               \/ call[r].pass # None /\ Executed(r, "pass") /\ Reported(r, "notfound")
               \/ /\ users[call[r].user] = None \/ CanFail
                  /\ NothingExecuted /\ Answer(r, "notfound")
      BY <1>1, <1>3, <1>4, <1>5, <2>1, <2>3, <2>5, AnswerIs, ReportIs DEF Outcome
    <2> QED
      BY <2>2, <2>4, <2>5
  <1>15. CASE DeleteUser(r)
    <2>1. call[r].kind = "delete" /\ pc[r] = "passed"
      BY <1>15 DEF DeleteUser, Handler
    <2>2. \/ Executed(r, "delete") /\ Reported(r, "notfound")
          \/ NothingExecuted /\ Answer(r, "bad")
          \/ NothingExecuted /\ Answer(r, "notfound")
      BY <1>15 DEF DeleteUser
    <2> QED
      BY <1>1, <1>2, <1>3, <1>4, <2>1, <2>2, AnswerIs, ReportIs DEF Outcome
  <1> QED
    BY <1>7, <1>8, <1>9, <1>10, <1>11, <1>12, <1>13, <1>14, <1>15 DEF Handling, OpenSession

\* What a request has done it was allowed to do.
Entitled(r) ==
  /\ did[r] # {} => call[r] # None /\ who[r] # None
  /\ did[r] \cap {"create", "delete", "role"} # {} => who[r].role = "admin"
  /\ "pass" \in did[r] => who[r].role = "admin" \/ who[r].user = call[r].user
  /\ reply[r] = "ok" /\ call[r] # None /\ call[r].kind = "edit" =>
       who[r] # None /\ who[r].role \in {"admin", "editor"}

LEMMA HandlersEntitled ==
  ASSUME Orderly, NEW r \in Requests, Handling(r), pc[r] # "grant", Entitled(r)
  PROVE  Entitled(r)'
  <1>1. HandlerStep(r) /\ pc'[r] \in {"half", "done"}
    BY HandlersStep, HandlerTyped
  <1>2. /\ UNCHANGED <<call, who>> /\ call[r] # None /\ who[r] # None
        /\ who[r].role \in Allowed(call[r].kind)
    BY <1>1 DEF HandlerStep, Orderly, RequestsAreSound, Sound
  <1>3. CASE pc'[r] = "half"
    <2>1. call[r].kind = "update" /\ call[r].role # None /\ MayUpdate(r) /\ did'[r] = {"role"}
      BY <1>3, OnlyUpdatesAreHalfDone
    <2> QED
      BY <1>2, <2>1 DEF Entitled, MayUpdate
  <1>4. CASE pc'[r] = "done"
    <2>1. Outcome(r)
      BY <1>4, Outcomes
    <2>2. "role" \in Asked(r) => call[r].role # None
      BY DEF Asked
    <2>3. Asked(r) \subseteq {"role", "pass"}
      BY DEF Asked
    <2>4. call[r].kind \in {"create", "delete"} => who[r].role = "admin"
      BY <1>2 DEF Allowed
    <2>5. call[r].kind = "edit" => who[r].role \in {"admin", "editor"}
      BY <1>2 DEF Allowed
    <2>6. "role" \in Asked(r) /\ MayUpdate(r) => who[r].role = "admin"
      BY <2>2 DEF MayUpdate
    <2>7. MayUpdate(r) => who[r].role = "admin" \/ who[r].user = call[r].user
      BY DEF MayUpdate
    <2>8. did'[r] # {} => call[r].kind \in {"create", "delete", "update"}
      BY <2>1 DEF Outcome
    <2>9. did'[r] \cap {"create", "delete", "role"} # {} => who[r].role = "admin"
      BY <2>1, <2>3, <2>4, <2>6 DEF Outcome
    <2>10. "pass" \in did'[r] => who[r].role = "admin" \/ who[r].user = call[r].user
      BY <2>1, <2>7 DEF Outcome
    <2> QED
      BY <1>2, <2>5, <2>9, <2>10 DEF Entitled
  <1> QED
    BY <1>1, <1>3, <1>4

\* What was answered to a request is true of what it did.
Honest(r) ==
  /\ reply[r] = "ok" /\ call[r] # None =>
       CASE call[r].kind \in {"create", "delete"} -> did[r] = {call[r].kind}
         [] call[r].kind = "update" -> did[r] = Asked(r)
         [] OTHER -> did[r] = {}
  /\ reply[r] \in {"bad", "unauthorized", "forbidden"} => did[r] = {}
  /\ reply[r] = "error" => did[r] = {} \/ (did[r] = {"role"} /\ call[r].pass # None)
  /\ backend = "memory" /\ reply[r] \in {"notfound", "conflict"} =>
       did[r] = {} \/ (did[r] = {"role"} /\ Made("delete", call[r].user) # {})

\* Of an update that is half done the account is there, or has been deleted since.
HalfKnown(r) ==
  pc[r] = "half" =>
    users[call[r].user] # None \/ Made("delete", call[r].user) # {}

LEMMA HandlersHonest ==
  ASSUME Orderly, NEW r \in Requests, Handling(r), pc[r] # "grant", HalfKnown(r),
         Made("delete", call[r].user) \subseteq Made("delete", call[r].user)'
  PROVE  Honest(r)' /\ HalfKnown(r)'
  <1>1. HandlerStep(r) /\ pc'[r] \in {"half", "done"} /\ TypeOK'
    BY HandlersStep, HandlerTyped
  <1>2. UNCHANGED <<call, who, backend>> /\ call[r] # None
    BY <1>1 DEF HandlerStep, server, Orderly, RequestsAreSound, Sound
  <1>3. CASE pc'[r] = "half"
    <2>1. did'[r] = {"role"} /\ users'[call[r].user] # None
      BY <1>3, OnlyUpdatesAreHalfDone
    <2>2. reply'[r] = "none"
      <3>1. Orderly'
        BY HandlingOrderly
      <3> QED
        BY <1>3, <3>1 DEF Orderly, RequestsAreSound, Sound
    <2> QED
      BY <1>2, <2>1, <2>2 DEF Honest, HalfKnown
  <1>4. CASE pc'[r] = "done"
    <2>1. Outcome(r)
      BY <1>4, Outcomes
    <2>2. HalfKnown(r)'
      BY <1>4 DEF HalfKnown
    <2>3. (reply[r] = "ok" /\ call[r] # None =>
             CASE call[r].kind \in {"create", "delete"} -> did[r] = {call[r].kind}
               [] call[r].kind = "update" -> did[r] = Asked(r)
               [] OTHER -> did[r] = {})'
      BY <1>2, <2>1 DEF Outcome, Asked
    <2>4. reply'[r] \in {"bad", "unauthorized", "forbidden"} => did'[r] = {}
      BY <2>1 DEF Outcome
    <2>5. reply'[r] = "error" => did'[r] = {} \/ (did'[r] = {"role"} /\ call[r].pass # None)
      BY <2>1 DEF Outcome
    <2>6. ASSUME backend = "memory", reply'[r] \in {"notfound", "conflict"}, did'[r] # {}
          PROVE  did'[r] = {"role"} /\ (Made("delete", call[r].user) # {})'
      <3>1. did'[r] = did[r] /\ users[call[r].user] = None
        BY <2>1, <2>6 DEF Outcome, CanFail
      <3>2. pc[r] = "half" /\ did[r] = {"role"}
        BY <1>1, <2>6, <3>1 DEF HandlerStep, Orderly, RequestsAreSound, Sound
      <3>3. Made("delete", call[r].user) # {}
        BY <3>1, <3>2 DEF HalfKnown
      <3>4. (Made("delete", call[r].user))' # {}
        BY <3>3, <1>2
      <3> QED
        BY <3>1, <3>2, <3>4
    <2> QED
      BY <1>2, <2>2, <2>3, <2>4, <2>5, <2>6 DEF Honest
  <1> QED
    BY <1>1, <1>3, <1>4

\* What was done stays done, to the same account.
LEMMA MadeGrows ==
  ASSUME Orderly, Next, NEW e \in {"create", "delete", "role", "pass"}, NEW u \in Users
  PROVE  Made(e, u) \subseteq Made(e, u)'
  <1>1. ASSUME NEW q \in Requests, did[q] # {}
        PROVE  pc[q] \notin {"new", "grant", "passed"}
    BY <1>1 DEF Orderly, RequestsAreSound, Sound
  <1>2. ASSUME NEW q \in Requests, did[q] # {}
        PROVE  did[q] \subseteq did'[q] /\ call'[q] = call[q]
    <2>1. ASSUME NEW r \in Requests, StepOf(r), q # r PROVE did[q] \subseteq did'[q] /\ call'[q] = call[q]
      BY <2>1 DEF StepOf
    <2>2. ASSUME NEW r \in Requests, Handling(r), pc[r] # "grant" PROVE did[q] \subseteq did'[q] /\ call'[q] = call[q]
      BY <2>1, <2>2, HandlersStep, HandlerTyped DEF HandlerStep
    <2>3. ASSUME NEW r \in Requests, NEW c \in Calls, ReadAccount(r, c) PROVE did[q] \subseteq did'[q] /\ call'[q] = call[q]
      BY <1>1, <1>2, <2>1, <2>3, ReadAccountOrderly
    <2>4. ASSUME NEW r \in Requests, NEW c \in Calls, NEW t \in Requests \cup {None},
                 Authenticate(r, c, t)
          PROVE  did[q] \subseteq did'[q] /\ call'[q] = call[q]
      BY <1>1, <1>2, <2>1, <2>4, AuthenticateOrderly
    <2>5. ASSUME NEW r \in Requests, OpenSession(r) PROVE did[q] \subseteq did'[q] /\ call'[q] = call[q]
      BY <2>1, <2>5, OpenSessionOrderly
    <2>6. CASE Tick
      BY <2>6, TickOrderly DEF request
    <2>7. CASE Restart
      BY <2>7, RestartOrderly
    <2> QED
      BY <2>2, <2>3, <2>4, <2>5, <2>6, <2>7, Steps
  <1> QED
    BY <1>2 DEF Made

Entitlement == \A r \in Requests : Entitled(r)

Honesty == \A r \in Requests : Honest(r) /\ HalfKnown(r)

\* Steps that are no handler's end a request without effect, or not at all.
LEMMA NoEffect ==
  ASSUME Orderly, NEW q \in Requests, Entitled(q), Honest(q),
         UNCHANGED <<did[q], backend>>,
         \/ UNCHANGED <<call[q], who[q], reply[q]>>
         \/ did[q] = {} /\ reply'[q] \in {"none", "unauthorized", "forbidden"}
         \/ did[q] = {} /\ UNCHANGED call[q] /\ call[q].kind = "login",
         Made("delete", call[q].user) \subseteq Made("delete", call[q].user)'
  PROVE  Entitled(q)' /\ Honest(q)'
  BY DEF Entitled, Honest, Asked

LEMMA OthersHalfKnown ==
  ASSUME Orderly, Next, NEW r \in Requests, HandlerStep(r), NEW q \in Requests \ {r}, HalfKnown(q)
  PROVE  HalfKnown(q)'
  <1> SUFFICES ASSUME pc'[q] = "half"
               PROVE  users'[call'[q].user] # None \/ (Made("delete", call[q].user) # {})'
    BY DEF HalfKnown
  <1>1. StepOf(r) /\ TypeOK'
    BY HandlerTyped
  <1>2. pc[q] = "half" /\ call'[q] = call[q] /\ call'[r] = call[r]
    BY <1>1 DEF StepOf, HandlerStep
  <1>3. PICK u \in Users : u = call[q].user
    BY <1>2, RequestTyped DEF Orderly, RequestsAreSound, Sound
  <1>4. call[r].user \in Users
    BY RequestTyped DEF HandlerStep, Orderly, RequestsAreSound, Sound
  <1>5. Made("delete", u) \subseteq Made("delete", u)'
    BY <1>3, MadeGrows
  <1>6. CASE Made("delete", u) # {}
    BY <1>2, <1>3, <1>5, <1>6 DEF Made
  <1>7. CASE users[u] # None
    <2>1. CASE UNCHANGED <<accounts, did>>
      BY <1>2, <1>3, <1>7, <2>1 DEF accounts
    <2>2. ASSUME NEW a \in Account \cup {None}, NEW e \in {"create", "delete", "role", "pass"},
                 SetAccount(call[r].user, a), Executed(r, e), a = None <=> e = "delete"
          PROVE  users'[call'[q].user] # None \/ (Made("delete", call[q].user) # {})'
      <3>1. /\ users'[call[r].user] = a
            /\ \A v \in Users \ {call[r].user} : users'[v] = users[v]
        BY <1>4, <2>2, AccountSet DEF Orderly
      <3>2. e \in did'[r]
        BY <2>2 DEF Executed, Orderly, TypeOK
      <3>3. CASE u = call[r].user /\ e = "delete"
        <4>1. r \in {s \in Requests : "delete" \in did'[s] /\ call'[s].user = u}
          BY <1>2, <3>2, <3>3
        <4> QED
          BY <1>2, <1>3, <4>1 DEF Made
      <3>4. CASE u # call[r].user \/ e # "delete"
        BY <1>2, <1>3, <1>7, <2>2, <3>1, <3>4
      <3> QED
        BY <3>3, <3>4
    <2> QED
      BY <2>1, <2>2 DEF HandlerStep, AccountStep
  <1> QED
    BY <1>2, <1>3, <1>6, <1>7 DEF HalfKnown

LEMMA StayHonest ==
  ASSUME Orderly, Entitlement, Honesty, [Next]_vars
  PROVE  Entitlement' /\ Honesty'
  <1>1. ASSUME NEW q \in Requests PROVE Entitled(q) /\ Honest(q) /\ HalfKnown(q) /\ Sound(q)
    BY DEF Entitlement, Honesty, Orderly, RequestsAreSound
  <1>2. ASSUME Next, NEW u \in Users PROVE Made("delete", u) \subseteq Made("delete", u)'
    BY <1>2, MadeGrows
  <1>3. ASSUME Next, NEW q \in Requests, call[q] # None, UNCHANGED call[q]
        PROVE  Made("delete", call[q].user) \subseteq (Made("delete", call[q].user))'
    <2>1. PICK u \in Users : u = call[q].user
      BY <1>3, RequestTyped DEF Orderly
    <2> QED
      BY <1>2, <1>3, <2>1 DEF Made
  <1>4. ASSUME Next, NEW q \in Requests, UNCHANGED <<call[q], who[q], reply[q], did[q], backend>>
        PROVE  Entitled(q)' /\ Honest(q)'
    <2>1. CASE call[q] # None
      BY <1>1, <1>3, <1>4, <2>1, NoEffect
    <2>2. CASE call[q] = None
      <3>1. did[q] = {} /\ reply[q] = "none"
        BY <1>1, <2>2 DEF Sound
      <3> QED
        BY <1>4, <2>2, <3>1 DEF Entitled, Honest
    <2> QED
      BY <2>1, <2>2
  <1>5. ASSUME Next, NEW r \in Requests, StepOf(r), NEW q \in Requests \ {r}
        PROVE  Entitled(q)' /\ Honest(q)'
    BY <1>4, <1>5 DEF StepOf, server
  <1>6. ASSUME NEW r \in Requests, StepOf(r), UNCHANGED accounts, NEW q \in Requests \ {r}, Next
        PROVE  HalfKnown(q)'
    <2>1. /\ pc'[q] = pc[q] /\ call'[q] = call[q] /\ users' = users
      BY <1>6 DEF StepOf, accounts
    <2>2. pc[q] = "half" => call[q] # None
      BY <1>1 DEF Sound
    <2>3. pc[q] = "half" => Made("delete", call[q].user) \subseteq Made("delete", call[q].user)'
      BY <1>3, <1>6, <2>1, <2>2
    <2> QED
      BY <1>1, <2>1, <2>3 DEF HalfKnown, Made
  <1>7. ASSUME Next, NEW r \in Requests, Handling(r), pc[r] # "grant" PROVE Entitlement' /\ Honesty'
    <2>1. HandlerStep(r) /\ StepOf(r) /\ pc[r] \in {"passed", "half"}
      BY <1>7, HandlersStep, HandlerTyped DEF HandlerStep
    <2>2. call[r] # None
      BY <1>1, <2>1 DEF Sound
    <2>3. Entitled(r)' /\ Honest(r)' /\ HalfKnown(r)'
      BY <1>1, <1>3, <1>7, <2>1, <2>2, HandlersEntitled, HandlersHonest DEF HandlerStep
    <2>4. ASSUME NEW q \in Requests \ {r} PROVE Entitled(q)' /\ Honest(q)' /\ HalfKnown(q)'
      BY <1>1, <1>5, <1>7, <2>1, OthersHalfKnown
    <2> QED
      BY <2>3, <2>4 DEF Entitlement, Honesty
  <1>8. ASSUME Next, NEW r \in Requests, StepOf(r), UNCHANGED <<accounts, did>>,
               pc[r] \in {"new", "grant"},
               pc'[r] # "half",
               \/ reply'[r] \in {"none", "unauthorized", "forbidden"}
               \/ UNCHANGED call[r] /\ call[r].kind = "login"
        PROVE  Entitlement' /\ Honesty'
    <2>1. did'[r] = {} /\ did[r] = {}
      BY <1>1, <1>8 DEF Sound
    <2>2. Entitled(r)' /\ Honest(r)' /\ HalfKnown(r)'
      BY <1>8, <2>1 DEF Entitled, Honest, HalfKnown, Asked
    <2> QED
      BY <1>5, <1>6, <1>8, <2>2 DEF Entitlement, Honesty
  <1>9. ASSUME Next, NEW r \in Requests, NEW c \in Calls, ReadAccount(r, c)
        PROVE  Entitlement' /\ Honesty'
    BY <1>8, <1>9, ReadAccountOrderly
  <1>10. ASSUME Next, NEW r \in Requests, NEW c \in Calls, NEW t \in Requests \cup {None},
               Authenticate(r, c, t)
        PROVE  Entitlement' /\ Honesty'
    BY <1>8, <1>10, AuthenticateOrderly
  <1>11. ASSUME Next, NEW r \in Requests, OpenSession(r) PROVE Entitlement' /\ Honesty'
    <2>1. pc[r] = "grant" /\ call[r].kind = "login"
      BY <1>1, <1>11 DEF OpenSession, Sound
    <2> QED
      BY <1>8, <1>11, <2>1, OpenSessionOrderly
  <1>12. ASSUME Next, Tick PROVE Entitlement' /\ Honesty'
    <2>1. UNCHANGED <<backend, users, pc, call, who, reply, did>>
      BY <1>12, TickOrderly DEF accounts, request
    <2> QED
      BY <2>1 DEF Entitlement, Entitled, Honesty, Honest, HalfKnown, Made, Asked
  <1>13. ASSUME Next, Restart PROVE Entitlement' /\ Honesty'
    <2>1. /\ UNCHANGED <<backend, call, who, reply, did>>
          /\ \A q \in Requests : pc'[q] # "half"
      BY <1>13, RestartOrderly
    <2> QED
      BY <1>4, <1>13, <2>1 DEF Entitlement, Honesty, HalfKnown
  <1>14. CASE UNCHANGED vars
    <2>1. UNCHANGED <<backend, users, pc, call, who, reply, did>>
      BY <1>14 DEF vars, server, accounts, request
    <2> QED
      BY <2>1 DEF Entitlement, Entitled, Honesty, Honest, HalfKnown, Made, Asked
  <1> QED
    BY <1>7, <1>9, <1>10, <1>11, <1>12, <1>13, <1>14, Steps

\* The inductive invariant about authority and answers.
IInv == Orderly /\ RolesWereHeld /\ Entitlement /\ Honesty

LEMMA InitInvariant == Init => IInv
  <1> SUFFICES ASSUME Init PROVE IInv
    OBVIOUS
  <1>1. RolesWereHeld
    BY DEF Init, RolesWereHeld, RoleHeld
  <1>2. Entitlement /\ Honesty
    BY DEF Init, Entitlement, Entitled, Honesty, Honest, HalfKnown
  <1> QED
    BY <1>1, <1>2, InitOrderly DEF IInv

\* All that is known of accounts, sessions and requests holds in every reachable state.
THEOREM Invariance == Spec => []IInv
  <1>1. IInv /\ [Next]_vars => IInv'
    BY StaysOrderly, StayHeld, StayHonest DEF IInv
  <1> QED
    BY <1>1, InitInvariant, PTL DEF Spec

\* Every change of an account, and every editor's request, was made for somebody who
\* held the role it takes, no longer ago than a session lasts (middleware.go:33-73,
\* auth.go:136-258).
THEOREM AuthorityKept == Spec => []AuthorityIsRecent
  <1>1. IInv => AuthorityIsRecent
    <2> SUFFICES ASSUME IInv, NEW r \in Requests
                 PROVE  /\ did[r] \cap {"create", "delete", "role"} # {} => HadRole(r, {"admin"})
                        /\ "pass" \in did[r] =>
                             HadRole(r, {"admin"})
                             \/ (who[r].user = call[r].user /\ HadRole(r, Roles))
                        /\ reply[r] = "ok" /\ call[r].kind = "edit" =>
                             HadRole(r, {"admin", "editor"})
      BY DEF AuthorityIsRecent
    <2>1. Sound(r) /\ RoleHeld(r) /\ Entitled(r)
      BY DEF IInv, Orderly, RequestsAreSound, RolesWereHeld, Entitlement
    <2>2. ASSUME call[r] # None, who[r] # None, call[r].kind # "login",
                 NEW roles, who[r].role \in roles
          PROVE  HadRole(r, roles)
      BY <2>1, <2>2 DEF HadRole, RoleHeld
    <2>3. did[r] # {} => call[r] # None /\ who[r] # None /\ call[r].kind # "login"
      BY <2>1 DEF Sound, Entitled
    <2>4. who[r] # None => who[r].role \in Roles
      BY RequestTyped DEF IInv, Orderly
    <2>5. reply[r] = "ok" => call[r] # None
      BY <2>1 DEF Sound
    <2>6. did[r] \cap {"create", "delete", "role"} # {} => HadRole(r, {"admin"})
      BY <2>1, <2>2, <2>3 DEF Entitled
    <2>7. "pass" \in did[r] =>
            HadRole(r, {"admin"}) \/ (who[r].user = call[r].user /\ HadRole(r, Roles))
      BY <2>1, <2>2, <2>3, <2>4 DEF Entitled
    <2>8. reply[r] = "ok" /\ call[r].kind = "edit" => HadRole(r, {"admin", "editor"})
      BY <2>1, <2>2, <2>5 DEF Entitled
    <2> QED
      BY <2>6, <2>7, <2>8
  <1> QED
    BY <1>1, Invariance, PTL

\* What a request was answered is true of what it did to the accounts
\* (auth.go:136-258).
THEOREM HonestAnswers == Spec => []AnswersAreHonest
  <1>1. IInv => AnswersAreHonest
    <2> SUFFICES ASSUME IInv, NEW r \in Requests
                 PROVE  /\ reply[r] = "ok" =>
                             CASE call[r].kind \in {"create", "delete"} -> did[r] = {call[r].kind}
                               [] call[r].kind = "update" -> did[r] = Asked(r)
                               [] OTHER -> did[r] = {}
                        /\ reply[r] \in {"bad", "unauthorized", "forbidden"} => did[r] = {}
                        /\ reply[r] = "error" =>
                             did[r] = {} \/ (did[r] = {"role"} /\ call[r].pass # None)
                        /\ backend = "memory" /\ reply[r] \in {"notfound", "conflict"} =>
                             \/ did[r] = {}
                             \/ did[r] = {"role"} /\ Made("delete", call[r].user) # {}
      BY DEF AnswersAreHonest, Asked
    <2>1. Sound(r) /\ Honest(r)
      BY DEF IInv, Orderly, RequestsAreSound, Honesty
    <2>2. reply[r] = "ok" => call[r] # None
      BY <2>1 DEF Sound
    <2> QED
      BY <2>1, <2>2 DEF Honest
  <1> QED
    BY <1>1, Invariance, PTL

-----------------------------------------------------------------------------
(* Logouts *)

\* With the memory store a logout that was answered has removed its session.
LoggedOut(r) ==
  backend = "memory" /\ reply[r] = "ok" /\ call[r] # None /\ call[r].kind = "logout" =>
    bearer[r] # None /\ sessions[bearer[r]] = None

LogoutsLast == \A r \in Requests : LoggedOut(r)

LEMMA StayLoggedOut ==
  ASSUME Orderly, LogoutsLast, [Next]_vars
  PROVE  LogoutsLast'
  <1>1. ASSUME NEW q \in Requests PROVE LoggedOut(q) /\ Sound(q) /\ bearer[q] \in Requests \cup {None}
    BY DEF LogoutsLast, Orderly, RequestsAreSound, TypeOK
  <1>2. ASSUME NEW q \in Requests, UNCHANGED <<backend, reply[q], call[q], bearer[q]>>,
               bearer[q] # None => (sessions'[bearer[q]] # None => sessions[bearer[q]] # None)
        PROVE  LoggedOut(q)'
    BY <1>1, <1>2 DEF LoggedOut
  <1>3. ASSUME NEW r \in Requests, StepOf(r), NEW q \in Requests \ {r},
               \A t \in Requests : sessions'[t] # None => sessions[t] # None
        PROVE  LoggedOut(q)'
    BY <1>1, <1>2, <1>3 DEF StepOf, server
  <1>4. ASSUME NEW r \in Requests, Handling(r), pc[r] # "grant" PROVE LogoutsLast'
    <2>1. /\ HandlerStep(r) /\ StepOf(r) /\ pc'[r] \in {"half", "done"}
          /\ UNCHANGED <<backend, call, bearer>> /\ pc[r] \in {"passed", "half"}
      BY <1>4, HandlersStep, HandlerTyped DEF HandlerStep, server
    <2>2. \A t \in Requests : sessions'[t] # None => sessions[t] # None
      BY <1>1, <2>1 DEF HandlerStep, Orderly, TypeOK
    <2>3. CASE Logout(r)
      <3>1. bearer[r] # None
        BY <1>1, <2>1 DEF Sound
      <3>2. backend = "memory" => sessions' = [sessions EXCEPT ![bearer[r]] = None]
        BY <2>3 DEF Logout, CanFail
      <3>3. LoggedOut(r)'
        BY <1>1, <2>1, <3>1, <3>2 DEF LoggedOut, Orderly, TypeOK
      <3> QED
        BY <1>3, <2>1, <2>2, <3>3 DEF LogoutsLast
    <2>4. CASE call[r].kind # "logout"
      <3>1. LoggedOut(r)'
        BY <2>1, <2>4 DEF LoggedOut
      <3> QED
        BY <1>3, <2>1, <2>2, <3>1 DEF LogoutsLast
    <2>5. Logout(r) \/ call[r].kind # "logout"
      BY <1>1, <1>4, <2>1 DEF Handling, OpenSession, RefuseBody, Me, Serve, CreateUser,
         ForbidUpdate, UpdateRole, UpdatePassword, DeleteUser, Handler, Sound
    <2> QED
      BY <2>3, <2>4, <2>5
  <1>5. ASSUME NEW r \in Requests, NEW c \in Calls, ReadAccount(r, c) PROVE LogoutsLast'
    <2>1. StepOf(r) /\ UNCHANGED sessions /\ call'[r] = c /\ c.kind = "login"
      BY <1>5, ReadAccountOrderly
    <2>2. LoggedOut(r)'
      BY <2>1 DEF LoggedOut
    <2> QED
      BY <1>3, <2>1, <2>2 DEF LogoutsLast
  <1>6. ASSUME NEW r \in Requests, NEW c \in Calls, NEW t \in Requests \cup {None},
               Authenticate(r, c, t)
        PROVE  LogoutsLast'
    <2>1. StepOf(r) /\ UNCHANGED sessions /\ reply'[r] # "ok"
      BY <1>6, AuthenticateOrderly
    <2>2. LoggedOut(r)'
      BY <2>1 DEF LoggedOut
    <2> QED
      BY <1>3, <2>1, <2>2 DEF LogoutsLast
  <1>7. ASSUME NEW r \in Requests, OpenSession(r) PROVE LogoutsLast'
    <2>1. /\ StepOf(r) /\ UNCHANGED call /\ pc[r] = "grant"
          /\ \A t \in Requests \ {r} : sessions'[t] = sessions[t]
      BY <1>7, OpenSessionOrderly DEF OpenSession
    <2>2. call[r].kind = "login"
      BY <1>1, <2>1 DEF Sound
    <2>3. LoggedOut(r)'
      BY <2>1, <2>2 DEF LoggedOut
    <2>4. ASSUME NEW q \in Requests \ {r} PROVE LoggedOut(q)'
      <3>1. bearer[q] # None => bearer[q] \in Requests \ {r}
        BY <1>1, <2>1 DEF Orderly, TokensAreOfLogins
      <3> QED
        BY <1>2, <2>1, <3>1 DEF StepOf, server
    <2> QED
      BY <2>3, <2>4 DEF LogoutsLast
  <1>8. CASE Tick
    <2>1. UNCHANGED <<backend, sessions, call, bearer, reply>>
      BY <1>8, TickOrderly DEF request
    <2> QED
      BY <1>2, <2>1 DEF LogoutsLast
  <1>9. CASE Restart
    <2>1. /\ UNCHANGED <<backend, call, bearer, reply>>
          /\ \A t \in Requests : sessions'[t] # None => sessions'[t] = sessions[t]
      BY <1>9, RestartOrderly
    <2> QED
      BY <1>1, <1>2, <2>1 DEF LogoutsLast
  <1>10. CASE UNCHANGED vars
    <2>1. UNCHANGED <<backend, sessions, call, bearer, reply>>
      BY <1>10 DEF vars, server, request
    <2> QED
      BY <1>2, <2>1 DEF LogoutsLast
  <1> QED
    BY <1>4, <1>5, <1>6, <1>7, <1>8, <1>9, <1>10, Steps

\* A session that was logged out of does not come back (auth.go:91-100).
THEOREM LogoutsAreFinal == Spec => []LogoutIsFinal
  <1>1. Init => LogoutsLast
    BY DEF Init, LogoutsLast, LoggedOut
  <1>2. Orderly /\ LogoutsLast => LogoutIsFinal
    BY DEF LogoutsLast, LoggedOut, LogoutIsFinal, Orderly, RequestsAreSound, Sound
  <1> QED
    BY <1>1, <1>2, StayLoggedOut, Order, PTL DEF Spec

-----------------------------------------------------------------------------
(* Accounts *)

\* Creations and deletions can be counted, and account for the account of u.
Balanced(u) ==
  LET created == Made("create", u)
      deleted == Made("delete", u)
  IN  /\ IsFiniteSet(created) /\ IsFiniteSet(deleted)
      /\ restarts = 0 =>
           IF users[u] # None THEN Cardinality(created) - Cardinality(deleted) \in {0, 1}
           ELSE Cardinality(deleted) - Cardinality(created) \in {0, 1}

\* A step that does nothing to the account of u leaves it balanced.
LEMMA StaysBalanced ==
  ASSUME NEW u \in Users, Balanced(u), restarts' = 0 => restarts = 0 /\ (users'[u] = None <=> users[u] = None),
         \A e \in {"create", "delete"} : Made(e, u)' = Made(e, u)
  PROVE  Balanced(u)'
  <1>1. Made("create", u)' = Made("create", u) /\ Made("delete", u)' = Made("delete", u)
    OBVIOUS
  <1> QED
    BY <1>1 DEF Balanced

LEMMA StepsBalanced ==
  ASSUME Orderly, [Next]_vars, NEW u \in Users, Balanced(u)
  PROVE  Balanced(u)'
  <1>1. \A q \in Requests : pc[q] \in {"new", "grant", "passed"} => did[q] = {}
    BY DEF Orderly, RequestsAreSound, Sound
  <1>2. ASSUME UNCHANGED did, \A q \in Requests : did[q] # {} => call'[q] = call[q],
               NEW e \in {"create", "delete"}
        PROVE  Made(e, u)' = Made(e, u)
    BY <1>2 DEF Made
  <1>3. ASSUME NEW r \in Requests, HandlerStep(r) PROVE Balanced(u)'
    <2>1. UNCHANGED <<call, restarts>> /\ call[r].user \in Users
      BY <1>3, RequestTyped DEF HandlerStep, server, Orderly, RequestsAreSound, Sound
    <2>2. CASE UNCHANGED <<accounts, did>>
      BY <1>2, <2>1, <2>2, StaysBalanced DEF accounts
    <2>3. ASSUME NEW a \in Account \cup {None}, NEW e \in {"create", "delete", "role", "pass"},
                 SetAccount(call[r].user, a), Executed(r, e),
                 a = None <=> e = "delete",
                 users[call[r].user] = None <=> e = "create",
                 e \in {"create", "delete"} => pc[r] = "passed"
          PROVE  Balanced(u)'
      <3>1. /\ users'[call[r].user] = a
            /\ \A v \in Users \ {call[r].user} : users'[v] = users[v]
        BY <2>1, <2>3, AccountSet DEF Orderly
      <3>2. did'[r] = did[r] \cup {e} /\ \A q \in Requests \ {r} : did'[q] = did[q]
        BY <2>3 DEF Executed, Orderly, TypeOK
      <3>3. \A x \in {"create", "delete"} :
              x # e \/ u # call[r].user => Made(x, u)' = Made(x, u)
        BY <2>1, <3>2 DEF Made
      <3>4. CASE u # call[r].user
        BY <2>1, <3>1, <3>3, <3>4, StaysBalanced
      <3>5. CASE u = call[r].user /\ e \notin {"create", "delete"}
        BY <2>1, <2>3, <3>1, <3>3, <3>5, StaysBalanced
      <3>6. CASE u = call[r].user /\ e \in {"create", "delete"}
        <4>1. did[r] = {}
          BY <1>1, <2>3, <3>6
        <4>2. r \notin Made(e, u) /\ Made(e, u)' = Made(e, u) \cup {r}
          BY <2>1, <3>2, <3>6, <4>1 DEF Made
        <4>3. /\ IsFiniteSet(Made("create", u)) /\ IsFiniteSet(Made("delete", u))
              /\ Cardinality(Made("create", u)) \in Nat /\ Cardinality(Made("delete", u)) \in Nat
          BY FS_CardinalityType DEF Balanced
        <4>4. IsFiniteSet(Made(e, u)) /\ Cardinality(Made(e, u)) \in Nat
          BY <3>6, <4>3
        <4>5. /\ IsFiniteSet(Made(e, u) \cup {r})
              /\ Cardinality(Made(e, u) \cup {r}) = Cardinality(Made(e, u)) + 1
          BY <4>2, <4>4, FS_AddElement
        <4>6. CASE e = "create"
          <5>1. /\ Made("create", u)' = Made("create", u) \cup {r}
                /\ Made("delete", u)' = Made("delete", u)
            BY <3>3, <4>2, <4>6
          <5>2. users[u] = None /\ users'[u] # None
            BY <2>3, <3>1, <3>6, <4>6
          <5>3. /\ IsFiniteSet(Made("create", u)') /\ IsFiniteSet(Made("delete", u)')
                /\ Cardinality(Made("create", u)') = Cardinality(Made("create", u)) + 1
                /\ Cardinality(Made("delete", u)') = Cardinality(Made("delete", u))
            BY <4>3, <4>5, <4>6, <5>1
          <5>4. restarts' = 0 =>
                  Cardinality(Made("create", u)') - Cardinality(Made("delete", u)') \in {0, 1}
            BY <2>1, <4>3, <5>2, <5>3 DEF Balanced
          <5> QED
            BY <5>2, <5>3, <5>4 DEF Balanced
        <4>7. CASE e = "delete"
          <5>1. /\ Made("delete", u)' = Made("delete", u) \cup {r}
                /\ Made("create", u)' = Made("create", u)
            BY <3>3, <4>2, <4>7
          <5>2. users[u] # None /\ users'[u] = None
            BY <2>3, <3>1, <3>6, <4>7
          <5>3. /\ IsFiniteSet(Made("delete", u)') /\ IsFiniteSet(Made("create", u)')
                /\ Cardinality(Made("delete", u)') = Cardinality(Made("delete", u)) + 1
                /\ Cardinality(Made("create", u)') = Cardinality(Made("create", u))
            BY <4>3, <4>5, <4>7, <5>1
          <5>4. restarts' = 0 =>
                  Cardinality(Made("delete", u)') - Cardinality(Made("create", u)') \in {0, 1}
            BY <2>1, <4>3, <5>2, <5>3 DEF Balanced
          <5> QED
            BY <5>2, <5>3, <5>4 DEF Balanced
        <4> QED
          BY <3>6, <4>6, <4>7
      <3> QED
        BY <3>4, <3>5, <3>6
    <2> QED
      BY <1>3, <2>2, <2>3 DEF HandlerStep, AccountStep
  <1>4. ASSUME NEW r \in Requests, StepOf(r), UNCHANGED <<accounts, did>>, pc[r] \in {"new", "grant"}
        PROVE  Balanced(u)'
    <2>1. UNCHANGED <<restarts, users>> /\ \A q \in Requests : did[q] # {} => call'[q] = call[q]
      BY <1>1, <1>4 DEF StepOf, server, accounts
    <2> QED
      BY <1>2, <1>4, <2>1, StaysBalanced
  <1>5. ASSUME NEW r \in Requests, OpenSession(r) PROVE Balanced(u)'
    BY <1>4, <1>5, OpenSessionOrderly DEF OpenSession
  <1>6. CASE Tick
    <2>1. UNCHANGED <<restarts, users, did, call>>
      BY <1>6, TickOrderly DEF accounts, request
    <2> QED
      BY <1>2, <2>1, StaysBalanced
  <1>7. CASE Restart
    <2>1. UNCHANGED <<did, call>> /\ restarts' # 0
      BY <1>7, RestartOrderly DEF Orderly, TypeOK
    <2> QED
      BY <1>2, <2>1, StaysBalanced
  <1>8. CASE UNCHANGED vars
    <2>1. UNCHANGED <<restarts, users, did, call>>
      BY <1>8 DEF vars, server, accounts, request
    <2> QED
      BY <1>2, <2>1, StaysBalanced
  <1> QED
    BY <1>3, <1>4, <1>5, <1>6, <1>7, <1>8, Steps, ReadAccountOrderly, AuthenticateOrderly,
       HandlersStep

\* Creations less deletions are the accounts there are, whichever handlers look for an
\* account at the same time (memory.go:110-125, postgres.go:195-204).
THEOREM AccountsBalance == Spec => []AccountsAddUp
  <1> DEFINE AllBalanced == \A u \in Users : Balanced(u)
  <1>1. Init => AllBalanced
    <2> SUFFICES ASSUME Init, NEW u \in Users PROVE Balanced(u)
      OBVIOUS
    <2>1. Made("create", u) = {} /\ Made("delete", u) = {}
      BY DEF Init, Made
    <2> QED
      BY <2>1, FS_EmptySet DEF Balanced
  <1>2. Orderly /\ AllBalanced /\ [Next]_vars => AllBalanced'
    BY StepsBalanced
  <1>3. AllBalanced => AccountsAddUp
    BY DEF Balanced, AccountsAddUp
  <1> QED
    BY <1>1, <1>2, <1>3, Order, PTL DEF Spec

\* The admin has the password the server was started with until a request changes the
\* account (main.go:51-84).
THEOREM AdminReturns == Spec => []AdminCanReturn
  <1>1. Init => AdminCanReturn
    <2>1. Init => users[Admin] = Root
      BY AuthConstants DEF Init
    <2>2. Root # None /\ Root.pass = AdminPassword
      BY AuthConstants DEF Root, Account, Roles
    <2> QED
      BY <2>1, <2>2 DEF AdminCanReturn
  <1>2. ASSUME Orderly, AdminCanReturn, [Next]_vars PROVE AdminCanReturn'
    <2>1. CASE UNCHANGED accounts
      BY <1>2, <2>1 DEF accounts, AdminCanReturn
    <2>2. ASSUME NEW r \in Requests, HandlerStep(r) PROVE AdminCanReturn'
      <3>1. ASSUME NEW a \in Account \cup {None}, SetAccount(call[r].user, a)
            PROVE  AdminCanReturn'
        <4>1. call[r].user \in Users
          BY <1>2, <2>2, RequestTyped DEF HandlerStep, Orderly, RequestsAreSound, Sound
        <4>2. touched' = touched \cup {call[r].user}
          BY <3>1 DEF SetAccount
        <4>3. Admin \notin touched' => users'[Admin] = users[Admin]
          BY <1>2, <3>1, <4>1, <4>2, AccountSet, AuthConstants DEF Orderly
        <4> QED
          BY <1>2, <4>2, <4>3 DEF AdminCanReturn
      <3> QED
        BY <2>1, <2>2, <3>1 DEF HandlerStep, AccountStep, accounts
    <2>3. CASE Restart
      BY <1>2, <2>3, RestartOrderly DEF AdminCanReturn
    <2>4. CASE UNCHANGED vars
      BY <2>1, <2>4 DEF vars
    <2> QED
      BY <1>2, <2>1, <2>2, <2>3, <2>4, Steps, ReadAccountOrderly, AuthenticateOrderly,
         OpenSessionOrderly, HandlersStep, TickOrderly
  <1> QED
    BY <1>1, <1>2, Order, PTL DEF Spec
-----------------------------------------------------------------------------
(* The accounts as a register *)

\* Nothing is done, and what was done stays what it was.
LEMMA NothingDone ==
  ASSUME UNCHANGED <<users, did>>, \A q \in Requests : did[q] # {} => call'[q] = call[q]
  PROVE  UNCHANGED <<users, Effects>>
  <1>1. ASSUME NEW q \in Requests
        PROVE  {[call |-> call[q], part |-> p] : p \in did[q]}'
                 = {[call |-> call[q], part |-> p] : p \in did[q]}
    <2>1. did'[q] = did[q] /\ (did[q] # {} => call'[q] = call[q])
      OBVIOUS
    <2> QED
      BY <2>1
  <1> QED
    BY <1>1 DEF Effects

\* A change of the accounts, made for a part of a request, is the register's.
LEMMA PartPerformed ==
  ASSUME Orderly, NEW r \in Requests, NEW p \in {"create", "delete", "role", "pass"},
         call[r] # None, UNCHANGED call, Executed(r, p),
         did[r] = IF p = "pass" /\ call[r].role # None THEN {"role"} ELSE {},
         Register!Change(call[r], p)
  PROVE  Register!Next
  <1> DEFINE c == call[r]
  <1>1. c \in Calls
    BY DEF Orderly, TypeOK
  <1>2. did' = [did EXCEPT ![r] = did[r] \cup {p}] /\ r \in DOMAIN did
    BY DEF Executed, Orderly, TypeOK
  <1>3. Effects[r] = IF p = "pass" /\ c.role # None THEN {[call |-> c, part |-> "role"]} ELSE {}
    BY DEF Effects
  <1>4. Effects' = [Effects EXCEPT ![r] = @ \cup {[call |-> c, part |-> p]}]
    <2>1. \A q \in Requests : Effects'[q] = {[call |-> call[q], part |-> x] : x \in did'[q]}
      BY DEF Effects
    <2>2. \A q \in Requests \ {r} : did'[q] = did[q]
      BY <1>2 DEF Orderly, TypeOK
    <2>3. \A q \in Requests \ {r} : Effects'[q] = Effects[q]
      BY <2>1, <2>2 DEF Effects
    <2>4. did'[r] = did[r] \cup {p}
      BY <1>2
    <2>5. Effects'[r] = Effects[r] \cup {[call |-> c, part |-> p]}
      BY <2>1, <2>4 DEF Effects
    <2> QED
      BY <2>3, <2>5 DEF Effects
  <1>5. Register!Perform(r, c, p)
    BY <1>3, <1>4 DEF Register!Perform
  <1> QED
    BY <1>1, <1>5 DEF Register!Next

\* The handlers, one by one: what they do to the accounts the register does, too.
LEMMA HandlersPerform ==
  ASSUME Orderly, NEW r \in Requests, Handling(r), pc[r] # "grant"
  PROVE  [Register!Next]_<<users, Effects>>
  <1> DEFINE c == call[r]
  <1>1. /\ Sound(r) /\ UNCHANGED call /\ pc[r] \in {"passed", "half"}
        /\ c # None /\ c.user \in Users
    BY HandlersStep, RequestTyped DEF HandlerStep, Orderly, RequestsAreSound, Sound
  <1>2. users \in [Users -> Account \cup {None}]
    BY DEF Orderly, TypeOK
  <1>3. CASE UNCHANGED <<accounts, did>>
    BY <1>1, <1>3, NothingDone DEF accounts
  <1>4. CASE CreateUser(r)
    <2>1. ASSUME users[c.user] = None, Executed(r, "create"),
                 SetAccount(c.user, [pass |-> c.pass, role |-> c.role])
          PROVE  Register!Next
      <3>1. pc[r] = "passed" /\ c.kind = "create"
        BY <1>4 DEF CreateUser, Handler
      <3>2. did[r] = {}
        BY <1>1, <3>1 DEF Sound
      <3>3. Register!Change(c, "create")
        BY <2>1, <3>1 DEF SetAccount, Requested, Register!Change
      <3> QED
        BY <1>1, <2>1, <3>2, <3>3, PartPerformed
    <2> QED
      BY <1>3, <1>4, <2>1 DEF CreateUser, HashFails, NothingExecuted
  <1>5. CASE UpdateRole(r)
    <2>1. ASSUME users[c.user] # None, Executed(r, "role"),
                 SetAccount(c.user, [users[c.user] EXCEPT !.role = c.role])
          PROVE  Register!Next
      <3>1. pc[r] = "passed" /\ c.kind = "update" /\ c.role # None
        BY <1>5 DEF UpdateRole, Handler
      <3>2. did[r] = {}
        BY <1>1, <3>1 DEF Sound
      <3>3. Changed(c, "role", users[c.user]) = [users[c.user] EXCEPT !.role = c.role]
        BY <1>1, <1>2, <2>1 DEF Changed, Account
      <3>4. Register!Change(c, "role")
        BY <1>1, <1>2, <2>1, <3>1, <3>3 DEF SetAccount, Register!Change
      <3> QED
        BY <1>1, <2>1, <3>2, <3>4, PartPerformed
    <2> QED
      BY <1>3, <1>5, <2>1 DEF UpdateRole, NothingExecuted
  <1>6. CASE UpdatePassword(r)
    <2>1. ASSUME c.pass # None, users[c.user] # None, Executed(r, "pass"),
                 SetAccount(c.user, [users[c.user] EXCEPT !.pass = c.pass])
          PROVE  Register!Next
      <3>1. c.kind = "update"
        BY <1>1, <1>6 DEF UpdatePassword, Sound
      <3>2. did[r] = IF c.role # None THEN {"role"} ELSE {}
        BY <1>1, <1>6 DEF UpdatePassword, Sound
      <3>3. Changed(c, "pass", users[c.user]) = [users[c.user] EXCEPT !.pass = c.pass]
        BY <1>1, <1>2, <2>1 DEF Changed, Account
      <3>4. Register!Change(c, "pass")
        BY <1>1, <1>2, <2>1, <3>1, <3>3 DEF SetAccount, Register!Change
      <3> QED
        BY <1>1, <2>1, <3>2, <3>4, PartPerformed
    <2> QED
      BY <1>3, <1>6, <2>1 DEF UpdatePassword, HashFails, NothingExecuted
  <1>7. CASE DeleteUser(r)
    <2>1. ASSUME users[c.user] # None, Executed(r, "delete"), SetAccount(c.user, None)
          PROVE  Register!Next
      <3>1. pc[r] = "passed" /\ c.kind = "delete"
        BY <1>7 DEF DeleteUser, Handler
      <3>2. did[r] = {}
        BY <1>1, <3>1 DEF Sound
      <3>3. Register!Change(c, "delete")
        BY <2>1, <3>1 DEF SetAccount, Register!Change
      <3> QED
        BY <1>1, <2>1, <3>2, <3>3, PartPerformed
    <2> QED
      BY <1>3, <1>7, <2>1 DEF DeleteUser, NothingExecuted
  <1> QED
    BY <1>3, <1>4, <1>5, <1>6, <1>7 DEF Handling, OpenSession, RefuseBody, Logout, Me, Serve,
       ForbidUpdate, NothingExecuted

\* Every step is one of the register, or leaves it alone.
LEMMA StepsPerform ==
  ASSUME Orderly, [Next]_vars
  PROVE  [Register!Next]_<<users, Effects>>
  <1>1. ASSUME NEW r \in Requests, StepOf(r), UNCHANGED <<accounts, did>>, pc[r] \in {"new", "grant"}
        PROVE  UNCHANGED <<users, Effects>>
    <2>1. \A q \in Requests : did[q] # {} => call'[q] = call[q]
      BY <1>1 DEF StepOf, Orderly, RequestsAreSound, Sound
    <2> QED
      BY <1>1, <2>1, NothingDone DEF accounts
  <1>2. ASSUME NEW r \in Requests, OpenSession(r) PROVE UNCHANGED <<users, Effects>>
    BY <1>1, <1>2, OpenSessionOrderly DEF OpenSession
  <1>3. CASE Tick
    BY <1>3, TickOrderly, NothingDone DEF accounts, request
  <1>4. CASE Restart
    <2>1. UNCHANGED Effects
      BY <1>4 DEF Restart, Effects
    <2>2. users' \in StartedFrom(users)
      BY <1>4 DEF Restart, StartedFrom
    <2> QED
      BY <2>1, <2>2 DEF Register!Next, Register!Start
  <1>5. CASE UNCHANGED vars
    BY <1>5, NothingDone DEF vars, accounts, request
  <1> QED
    BY <1>1, <1>2, <1>3, <1>4, <1>5, Steps, ReadAccountOrderly, AuthenticateOrderly,
       HandlersPerform

\* The handlers and stores implement a register of accounts: each part of a request
\* takes effect at most once, at one instant, on the account as it is then
\* (auth.go:136-258, memory.go:110-172, postgres.go:195-257).
THEOREM AccountsRefined == Spec => AccountsSpec
  <1>1. Init => Register!Init
    <2> SUFFICES ASSUME Init PROVE Register!Init
      OBVIOUS
    <2>1. users \in [Users -> InitAccounts \cup {Root} \cup {None}]
      BY DEF Init
    <2>2. Effects = [r \in Requests |-> {}]
      BY DEF Init, Effects
    <2> QED
      BY <2>1, <2>2 DEF Register!Init
  <1> QED
    BY <1>1, StepsPerform, Order, PTL DEF Spec, AccountsSpec, Register!Spec
=============================================================================
