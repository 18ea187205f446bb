-------------------------- MODULE WebSession_proofs --------------------------
(***************************************************************************)
(* Proofs about WebSession: for any tabs, users and numbers of sign-ins.   *)
(***************************************************************************)
EXTENDS WebSessionProps, TLAPS

\* A token is somebody's.
Given(token) == token = None \/ owner[token] # None

\* A pair that was stored is a token and its owner.
IsPair(a) == a = NoAuth \/ (a.token # None /\ owner[a.token] = a.user /\ a.user # None)

PairsAgree ==
  /\ IsPair(stored)
  /\ \A t \in Tabs : IsPair(memory[t])

\* A tab that no other has overtaken has in memory what localStorage has, or is on its way
\* to the login page, with localStorage empty.
TabsAreCurrent ==
  \A t \in Tabs : ~foreign[t] => memory[t] = stored \/ (leaving[t] /\ stored = NoAuth)

\* What is known of a call that is under way: a login that succeeded has got a token of
\* its user, any other call carries one that was given out, and what was refused because
\* its session was not there is over.
CallIsSound(c) ==
  /\ c.kind = "login" /\ c.at = "ok" => c.token # None /\ owner[c.token] = c.user
  /\ c.kind = "login" => c.user # None
  /\ c.kind # "login" => Given(c.token)
  /\ c.kind = "data" /\ c.at = "401" => c.token \notin live

CallsAreSound == \A c \in calls : CallIsSound(c)

IInv == TypeOK /\ PairsAgree /\ TabsAreCurrent /\ CallsAreSound

\* None is no user and no token.
LEMMA NoneIsNoToken == None \notin Users /\ None \notin Tokens
  BY WebSessionConstants DEF Tokens

LEMMA NoAuthIsAuth == NoAuth \in Auth /\ IsPair(NoAuth) /\ NoAuth.token = None /\ NoAuth.user = None
  BY DEF NoAuth, Auth, IsPair

-----------------------------------------------------------------------------
(* What does not touch the server *)

\* Calls that are left stay sound as long as the server's sessions stay.
LEMMA CallsStaySound ==
  ASSUME IInv, calls' \subseteq calls, UNCHANGED <<owner, live>>
  PROVE  /\ calls' \subseteq Call
         /\ \A c, d \in calls' : c.tab = d.tab /\ c.kind = d.kind => c = d
         /\ CallsAreSound'
  <1>1. CallsAreSound'
    BY DEF IInv, CallsAreSound, CallIsSound, Given
  <1> QED
    BY <1>1 DEF IInv, TypeOK

\* A full load, with what localStorage has by then.
LEMMA LoadedSound ==
  ASSUME IInv, NEW t \in Tabs, NEW p \in {"login", "page"}, Reload(t, p),
         trouble' \in 0..MaxTrouble
  PROVE  IInv'
  <1>1. /\ memory' = [memory EXCEPT ![t] = stored] /\ path' = [path EXCEPT ![t] = p]
        /\ ready' = [ready EXCEPT ![t] = FALSE] /\ leaving' = [leaving EXCEPT ![t] = FALSE]
        /\ foreign' = [foreign EXCEPT ![t] = FALSE]
        /\ calls' = {c \in calls : c.tab # t} /\ UNCHANGED <<owner, live, stored>>
    BY DEF Reload, server
  <1>2. /\ calls' \subseteq Call /\ CallsAreSound'
        /\ \A c, d \in calls' : c.tab = d.tab /\ c.kind = d.kind => c = d
    BY <1>1, CallsStaySound
  <1>3. TypeOK'
    BY <1>1, <1>2 DEF IInv, TypeOK
  <1>4. PairsAgree'
    <2>1. ASSUME NEW u \in Tabs PROVE IsPair(memory'[u])
      BY <1>1 DEF IInv, TypeOK, PairsAgree
    <2> QED
      BY <1>1, <2>1 DEF IInv, PairsAgree, IsPair
  <1>5. TabsAreCurrent'
    <2> SUFFICES ASSUME NEW u \in Tabs, ~foreign'[u]
                 PROVE  memory'[u] = stored' \/ (leaving'[u] /\ stored' = NoAuth)
      BY DEF TabsAreCurrent
    <2>1. CASE u = t
      BY <2>1, <1>1 DEF IInv, TypeOK
    <2>2. CASE u # t
      BY <2>2, <1>1 DEF IInv, TypeOK, TabsAreCurrent
    <2> QED
      BY <2>1, <2>2
  <1> QED
    BY <1>2, <1>3, <1>4, <1>5 DEF IInv

LEMMA GuardStep ==
  ASSUME IInv, NEW t \in Tabs, Guard(t)
  PROVE  IInv'
  <1>1. UNCHANGED <<owner, live, stored, memory, leaving, foreign, calls, trouble>>
    BY DEF Guard, server
  <1>2. path' \in [Tabs -> {"login", "page"}] /\ ready' \in [Tabs -> BOOLEAN]
    BY DEF Guard, IInv, TypeOK
  <1>3. TypeOK'
    BY <1>1, <1>2 DEF IInv, TypeOK
  <1>4. PairsAgree' /\ TabsAreCurrent'
    BY <1>1 DEF IInv, PairsAgree, IsPair, TabsAreCurrent
  <1> QED
    BY <1>1, <1>3, <1>4, CallsStaySound DEF IInv

\* What a tab asks for.
LEMMA AsksStep ==
  ASSUME IInv, NEW t \in Tabs, NEW kind \in {"login", "logout", "data"},
         NEW token \in Tokens \cup {None}, NEW user \in Users \cup {None},
         Asks(t, kind, token, user),
         kind = "login" => user # None,
         kind # "login" => Given(token)
  PROVE  IInv'
  <1>1. PICK b \in Call :
          b = [tab |-> t, kind |-> kind, token |-> token, user |-> user, at |-> "sent"]
    BY DEF Call
  <1>2. /\ b.tab = t /\ b.kind = kind /\ b.token = token /\ b.user = user /\ b.at = "sent"
    BY <1>1
  <1>3. /\ calls' = calls \cup {b} /\ ~InFlight(t, kind)
        /\ UNCHANGED <<owner, live, stored, memory, path, ready, leaving, foreign, trouble>>
    BY <1>1 DEF Asks, server, tab
  <1>4. \A c, d \in calls' : c.tab = d.tab /\ c.kind = d.kind => c = d
    BY <1>2, <1>3 DEF InFlight, IInv, TypeOK
  <1>5. TypeOK'
    BY <1>3, <1>4 DEF IInv, TypeOK
  <1>6. PairsAgree' /\ TabsAreCurrent'
    BY <1>3 DEF IInv, PairsAgree, IsPair, TabsAreCurrent
  <1>7. CallIsSound(b)
    BY <1>2 DEF CallIsSound
  <1>8. CallsAreSound'
    BY <1>3, <1>7 DEF IInv, CallsAreSound, CallIsSound, Given
  <1> QED
    BY <1>5, <1>6, <1>8 DEF IInv

-----------------------------------------------------------------------------
(* The server *)

\* Tokens are given out once, and a session that is over is over for good.
ServerMovesOn ==
  /\ owner' \in [Tokens -> Users \cup {None}]
  /\ live' \subseteq {n \in Tokens : owner'[n] # None}
  /\ \A n \in Tokens : owner[n] # None => owner'[n] = owner[n]
  /\ \A n \in live' \ live : owner[n] = None

LEMMA ServerKeeps ==
  ASSUME IInv, ServerMovesOn, UNCHANGED <<stored, memory, leaving, foreign>>
  PROVE  /\ PairsAgree' /\ TabsAreCurrent'
         /\ \A c \in calls : CallIsSound(c)'
  <1>1. \A a \in Auth : IsPair(a) => IsPair(a)'
    BY NoneIsNoToken DEF ServerMovesOn, IsPair, Auth
  <1>2. PairsAgree' /\ TabsAreCurrent'
    <2>1. IsPair(stored) /\ stored \in Auth /\ \A t \in Tabs : IsPair(memory[t]) /\ memory[t] \in Auth
      BY DEF IInv, TypeOK, PairsAgree
    <2> QED
      BY <1>1, <2>1 DEF IInv, PairsAgree, TabsAreCurrent, IsPair
  <1>3. ASSUME NEW c \in calls PROVE CallIsSound(c)'
    <2>1. CallIsSound(c) /\ c \in Call
      BY DEF IInv, TypeOK, CallsAreSound
    <2>2. c.token \in Tokens \cup {None} /\ c.user \in Users \cup {None}
      BY <2>1 DEF Call
    <2>3. Given(c.token) => Given(c.token)'
      BY <2>2 DEF Given, ServerMovesOn
    <2>4. Given(c.token) /\ c.token \notin live => c.token \notin live'
      BY <2>2, NoneIsNoToken DEF Given, ServerMovesOn
    <2>5. c.token # None /\ owner[c.token] # None => owner'[c.token] = owner[c.token]
      BY <2>2 DEF ServerMovesOn
    <2> QED
      BY <2>1, <2>2, <2>3, <2>4, <2>5 DEF CallIsSound, Given
  <1> QED
    BY <1>2, <1>3

\* The answer to a call takes its place.
LEMMA AnsweredSound ==
  ASSUME IInv, ServerMovesOn,
         NEW c \in calls, NEW b \in Call, Answered(c, b),
         b.tab = c.tab, b.kind = c.kind, CallIsSound(b)', trouble' \in 0..MaxTrouble
  PROVE  IInv'
  <1>1. /\ calls' = (calls \ {c}) \cup {b}
        /\ UNCHANGED <<stored, memory, path, ready, leaving, foreign>>
    BY DEF Answered, tab
  <1>2. \A d, e \in calls' : d.tab = e.tab /\ d.kind = e.kind => d = e
    <2>1. \A d, e \in calls : d.tab = e.tab /\ d.kind = e.kind => d = e
      BY DEF IInv, TypeOK
    <2>2. \A d \in calls : d.tab = b.tab /\ d.kind = b.kind => d = c
      BY <2>1
    <2> QED
      BY <1>1, <2>1, <2>2
  <1>3. calls' \subseteq Call
    BY <1>1 DEF IInv, TypeOK
  <1>4. TypeOK'
    BY <1>1, <1>2, <1>3 DEF ServerMovesOn, IInv, TypeOK
  <1>5. PairsAgree' /\ TabsAreCurrent' /\ \A d \in calls : CallIsSound(d)'
    BY <1>1, ServerKeeps
  <1>6. ASSUME NEW d \in calls' PROVE CallIsSound(d)'
    BY <1>1, <1>5
  <1>7. CallsAreSound'
    BY <1>6 DEF CallsAreSound
  <1> QED
    BY <1>4, <1>5, <1>7 DEF IInv

\* So is it when there is nothing more to do.
LEMMA DisplayedSound ==
  ASSUME IInv, NEW c \in calls, Displayed(c), UNCHANGED <<owner, live>>,
         trouble' \in 0..MaxTrouble
  PROVE  IInv'
  <1>1. calls' = calls \ {c} /\ UNCHANGED <<stored, memory, path, ready, leaving, foreign>>
    BY DEF Displayed, tab
  <1>2. /\ calls' \subseteq Call /\ CallsAreSound'
        /\ \A d, e \in calls' : d.tab = e.tab /\ d.kind = e.kind => d = e
    BY <1>1, CallsStaySound
  <1>3. TypeOK'
    BY <1>1, <1>2 DEF IInv, TypeOK
  <1>4. PairsAgree' /\ TabsAreCurrent'
    BY <1>1 DEF IInv, PairsAgree, IsPair, TabsAreCurrent
  <1> QED
    BY <1>2, <1>3, <1>4 DEF IInv

LEMMA ServerStep ==
  ASSUME IInv, NEW c \in calls, Serves(c) \/ Fails(c)
  PROVE  IInv'
  <1>1. c \in Call /\ CallIsSound(c)
    BY DEF IInv, TypeOK, CallsAreSound
  <1>2. c.token \in Tokens \cup {None} /\ c.user \in Users \cup {None}
    BY <1>1 DEF Call
  <1>3. UNCHANGED <<owner, live>> => ServerMovesOn
    BY DEF ServerMovesOn, IInv, TypeOK
  <1>4. ASSUME ServeData(c) PROVE IInv'
    <2>1. c.kind = "data" /\ UNCHANGED <<owner, live, trouble>>
      BY <1>4 DEF ServeData, server
    <2>2. CASE c.token \in live
      BY <1>4, <2>1, <2>2, DisplayedSound DEF ServeData, IInv, TypeOK
    <2>3. CASE c.token \notin live
      <3>1. PICK b \in Call : b = [c EXCEPT !.at = "401"]
        BY <1>1 DEF Call
      <3>2. b.tab = c.tab /\ b.kind = c.kind /\ b.token = c.token /\ b.user = c.user /\ b.at = "401"
        BY <1>1, <3>1 DEF Call
      <3>3. CallIsSound(b)'
        BY <1>1, <2>1, <2>3, <3>2 DEF CallIsSound, Given
      <3>4. Answered(c, b) /\ trouble' \in 0..MaxTrouble
        BY <1>4, <2>1, <2>3, <3>1 DEF ServeData, IInv, TypeOK
      <3> QED
        BY <1>3, <2>1, <3>2, <3>3, <3>4, AnsweredSound
    <2> QED
      BY <2>2, <2>3
  <1>5. ASSUME ServeLogin(c) PROVE IInv'
    <2>1. PICK n \in Tokens :
            /\ owner[n] = None
            /\ owner' = [owner EXCEPT ![n] = c.user]
            /\ live' = live \cup {n}
            /\ Answered(c, [c EXCEPT !.at = "ok", !.token = n])
      BY <1>5 DEF ServeLogin
    <2>2. PICK b \in Call : b = [c EXCEPT !.at = "ok", !.token = n]
      <3>1. [c EXCEPT !.at = "ok", !.token = n] \in Call
        BY <1>1 DEF Call
      <3> QED
        BY <3>1
    <2>3. /\ b.tab = c.tab /\ b.kind = c.kind /\ b.token = n /\ b.user = c.user /\ b.at = "ok"
      BY <1>1, <2>2 DEF Call
    <2>4. c.kind = "login" /\ c.user # None /\ UNCHANGED trouble
      BY <1>1, <1>5 DEF ServeLogin, CallIsSound
    <2>5. owner'[n] = c.user
      BY <2>1 DEF IInv, TypeOK
    <2>6. CallIsSound(b)'
      BY <2>3, <2>4, <2>5, NoneIsNoToken DEF CallIsSound
    <2>7. ServerMovesOn
      BY <1>2, <2>1, <2>4 DEF ServerMovesOn, IInv, TypeOK
    <2>8. Answered(c, b) /\ trouble' \in 0..MaxTrouble
      BY <2>1, <2>2, <2>4 DEF IInv, TypeOK
    <2> QED
      BY <2>3, <2>6, <2>7, <2>8, AnsweredSound
  <1>6. ASSUME ServeLogout(c) PROVE IInv'
    <2>1. /\ c.kind = "logout" /\ live' = live \ {c.token} /\ UNCHANGED <<owner, trouble>>
          /\ Answered(c, [c EXCEPT !.at = "ok"])
      BY <1>6 DEF ServeLogout
    <2>2. PICK b \in Call : b = [c EXCEPT !.at = "ok"]
      BY <1>1 DEF Call
    <2>3. b.tab = c.tab /\ b.kind = c.kind /\ b.token = c.token
      BY <1>1, <2>2 DEF Call
    <2>4. CallIsSound(b)'
      BY <1>1, <2>1, <2>3 DEF CallIsSound, Given
    <2>5. ServerMovesOn
      BY <2>1 DEF ServerMovesOn, IInv, TypeOK
    <2>6. Answered(c, b) /\ trouble' \in 0..MaxTrouble
      BY <2>1, <2>2 DEF IInv, TypeOK
    <2> QED
      BY <2>3, <2>4, <2>5, <2>6, AnsweredSound
  <1>7. ASSUME Fails(c) PROVE IInv'
    <2>1. Trouble /\ c.at = "sent" /\ UNCHANGED <<owner, live>>
      BY <1>7 DEF Fails, server
    <2>2. trouble' \in 0..MaxTrouble
      BY <2>1, WebSessionConstants DEF Trouble, IInv, TypeOK
    <2>3. CASE Displayed(c)
      BY <2>1, <2>2, <2>3, DisplayedSound
    <2>4. ASSUME NEW at \in {"error", "unread"}, c.kind # "login", Answered(c, [c EXCEPT !.at = at])
          PROVE  IInv'
      <3>1. PICK b \in Call : b = [c EXCEPT !.at = at]
        BY <1>1 DEF Call
      <3>2. b.tab = c.tab /\ b.kind = c.kind /\ b.token = c.token /\ b.at = at
        BY <1>1, <3>1 DEF Call
      <3>3. CallIsSound(b)'
        BY <1>1, <2>1, <2>4, <3>2 DEF CallIsSound, Given
      <3>4. Answered(c, b)
        BY <2>4, <3>1
      <3> QED
        BY <1>3, <2>1, <2>2, <3>2, <3>3, <3>4, AnsweredSound
    <2> QED
      BY <1>7, <2>3, <2>4 DEF Fails
  <1> QED
    BY <1>4, <1>5, <1>6, <1>7 DEF Serves

LEMMA ExpireStep ==
  ASSUME IInv, NEW n \in Tokens, Expire(n)
  PROVE  IInv'
  <1>1. live' = live \ {n} /\ UNCHANGED <<owner, stored, memory, path, ready, leaving, foreign, calls, trouble>>
    BY DEF Expire, tab
  <1>2. ServerMovesOn
    BY <1>1 DEF ServerMovesOn, IInv, TypeOK
  <1>3. TypeOK'
    BY <1>1, <1>2 DEF ServerMovesOn, IInv, TypeOK
  <1>4. PairsAgree' /\ TabsAreCurrent' /\ \A d \in calls : CallIsSound(d)'
    BY <1>1, <1>2, ServerKeeps
  <1> QED
    BY <1>1, <1>3, <1>4 DEF IInv, CallsAreSound

-----------------------------------------------------------------------------
(* What the tab does with the answer *)

LEMMA AnswerStep ==
  ASSUME IInv, NEW c \in calls, Answers(c)
  PROVE  IInv'
  <1>1. c \in Call /\ CallIsSound(c) /\ c.tab \in Tabs
    BY DEF IInv, TypeOK, CallsAreSound, Call
  <1>2. ASSUME SignedIn(c) PROVE IInv'
    <2> DEFINE a == [token |-> c.token, user |-> c.user]
    <2>1. /\ c.kind = "login" /\ c.at = "ok" /\ stored' = a
          /\ memory' = [memory EXCEPT ![c.tab] = a]
          /\ foreign' = [Overtaken(c.tab) EXCEPT ![c.tab] = FALSE]
          /\ calls' = calls \ {c} /\ UNCHANGED <<owner, live, path, ready, leaving, trouble>>
      BY <1>2 DEF SignedIn, Saved, server
    <2>2. a \in Auth /\ IsPair(a)
      BY <1>1, <2>1 DEF Auth, IsPair, CallIsSound, Call
    <2> HIDE DEF a
    <2>3. foreign' \in [Tabs -> BOOLEAN]
      BY <2>1 DEF Overtaken, IInv, TypeOK
    <2>4. /\ calls' \subseteq Call /\ CallsAreSound'
          /\ \A d, e \in calls' : d.tab = e.tab /\ d.kind = e.kind => d = e
      BY <2>1, CallsStaySound
    <2>5. TypeOK'
      BY <2>1, <2>2, <2>3, <2>4 DEF IInv, TypeOK
    <2>6. PairsAgree'
      <3>1. ASSUME NEW u \in Tabs PROVE IsPair(memory'[u])
        BY <2>1, <2>2 DEF IInv, TypeOK, PairsAgree
      <3> QED
        BY <2>1, <2>2, <3>1 DEF PairsAgree, IsPair
    <2>7. TabsAreCurrent'
      <3> SUFFICES ASSUME NEW u \in Tabs, ~foreign'[u] 
                   PROVE  memory'[u] = stored' \/ (leaving'[u] /\ stored' = NoAuth)
        BY DEF TabsAreCurrent
      <3>1. u = c.tab
        BY <1>1, <2>1 DEF Overtaken, IInv, TypeOK
      <3> QED
        BY <2>1, <3>1 DEF IInv, TypeOK
    <2> QED
      BY <2>4, <2>5, <2>6, <2>7 DEF IInv
  <1>3. ASSUME SignedOut(c) PROVE IInv'
    <2>1. /\ stored' = NoAuth /\ memory' = [memory EXCEPT ![c.tab] = NoAuth]
          /\ foreign' = Overtaken(c.tab)
          /\ calls' = calls \ {c} /\ UNCHANGED <<owner, live, path, ready, leaving, trouble>>
      BY <1>3 DEF SignedOut, server
    <2>2. foreign' \in [Tabs -> BOOLEAN]
      BY <2>1 DEF Overtaken, IInv, TypeOK
    <2>3. /\ calls' \subseteq Call /\ CallsAreSound'
          /\ \A d, e \in calls' : d.tab = e.tab /\ d.kind = e.kind => d = e
      BY <2>1, CallsStaySound
    <2>4. TypeOK'
      BY <2>1, <2>2, <2>3, NoAuthIsAuth DEF IInv, TypeOK
    <2>5. PairsAgree'
      <3>1. ASSUME NEW u \in Tabs PROVE IsPair(memory'[u])
        BY <2>1, NoAuthIsAuth DEF IInv, TypeOK, PairsAgree
      <3> QED
        BY <2>1, <3>1, NoAuthIsAuth DEF PairsAgree, IsPair
    <2>6. TabsAreCurrent'
      <3> SUFFICES ASSUME NEW u \in Tabs, ~foreign'[u] 
                   PROVE  memory'[u] = stored' \/ (leaving'[u] /\ stored' = NoAuth)
        BY DEF TabsAreCurrent
      <3>1. u = c.tab
        BY <2>1 DEF Overtaken, IInv, TypeOK
      <3> QED
        BY <2>1, <3>1 DEF IInv, TypeOK
    <2> QED
      BY <2>3, <2>4, <2>5, <2>6 DEF IInv
  <1>4. ASSUME Unauthorized(c) PROVE IInv'
    <2>1. /\ stored' = NoAuth /\ leaving' = [leaving EXCEPT ![c.tab] = TRUE]
          /\ foreign' = Overtaken(c.tab)
          /\ calls' = calls \ {c} /\ UNCHANGED <<owner, live, memory, path, ready, trouble>>
      BY <1>4 DEF Unauthorized, Cleared, server
    <2>2. foreign' \in [Tabs -> BOOLEAN]
      BY <2>1 DEF Overtaken, IInv, TypeOK
    <2>3. /\ calls' \subseteq Call /\ CallsAreSound'
          /\ \A d, e \in calls' : d.tab = e.tab /\ d.kind = e.kind => d = e
      BY <2>1, CallsStaySound
    <2>4. TypeOK'
      BY <2>1, <2>2, <2>3, NoAuthIsAuth DEF IInv, TypeOK
    <2>5. PairsAgree'
      BY <2>1, NoAuthIsAuth DEF IInv, PairsAgree, IsPair
    <2>6. TabsAreCurrent'
      BY <1>1, <2>1 DEF Overtaken, IInv, TypeOK, TabsAreCurrent
    <2> QED
      BY <2>3, <2>4, <2>5, <2>6 DEF IInv
  <1>5. ASSUME Shown(c) PROVE IInv'
    BY <1>5, DisplayedSound DEF Shown, server, IInv, TypeOK
  <1> QED
    BY <1>2, <1>3, <1>4, <1>5 DEF Answers

-----------------------------------------------------------------------------
(* The theorems *)

LEMMA InitHolds == Init => IInv
  BY NoAuthIsAuth, WebSessionConstants
  DEF Init, IInv, TypeOK, PairsAgree, TabsAreCurrent, CallsAreSound

LEMMA StepHolds == IInv /\ [Next]_vars => IInv'
  <1> SUFFICES ASSUME IInv, [Next]_vars PROVE IInv'
    OBVIOUS
  <1>1. CASE UNCHANGED vars
    <2>1. UNCHANGED <<owner, live, stored, memory, path, ready, leaving, foreign, calls, trouble>>
      BY <1>1 DEF vars, server, tab
    <2>2. TypeOK'
      BY <2>1 DEF IInv, TypeOK
    <2>3. PairsAgree' /\ TabsAreCurrent'
      BY <2>1 DEF IInv, PairsAgree, IsPair, TabsAreCurrent
    <2> QED
      BY <2>1, <2>2, <2>3, CallsStaySound DEF IInv
  <1>2. ASSUME NEW t \in Tabs, NEW p \in {"login", "page"}, Load(t, p) PROVE IInv'
    <2>1. Trouble /\ Reload(t, p)
      BY <1>2 DEF Load
    <2>2. trouble' \in 0..MaxTrouble
      BY <2>1, WebSessionConstants DEF Trouble, IInv, TypeOK
    <2> QED
      BY <2>1, <2>2, LoadedSound
  <1>3. ASSUME NEW t \in Tabs, Guard(t) PROVE IInv'
    BY <1>3, GuardStep
  <1>4. ASSUME NEW t \in Tabs, Poll(t) PROVE IInv'
    <2>1. Asks(t, "data", stored.token, None)
      BY <1>4 DEF Poll, CallToken
    <2>2. stored.token \in Tokens \cup {None}
      BY DEF IInv, TypeOK, Auth
    <2>3. Given(stored.token)
      BY NoAuthIsAuth DEF IInv, PairsAgree, IsPair, Given
    <2> QED
      BY <2>1, <2>2, <2>3, AsksStep
  <1>5. ASSUME NEW t \in Tabs, Logout(t) PROVE IInv'
    <2>1. Asks(t, "logout", memory[t].token, None)
      BY <1>5 DEF Logout
    <2>2. memory[t].token \in Tokens \cup {None}
      BY DEF IInv, TypeOK, Auth
    <2>3. Given(memory[t].token)
      BY NoAuthIsAuth DEF IInv, PairsAgree, IsPair, Given
    <2> QED
      BY <2>1, <2>2, <2>3, AsksStep
  <1>6. ASSUME NEW t \in Tabs, NEW u \in Users, SubmitLogin(t, u) PROVE IInv'
    <2>1. Asks(t, "login", None, u) /\ u # None
      BY <1>6, NoneIsNoToken DEF SubmitLogin
    <2> QED
      BY <2>1, AsksStep
  <1>7. ASSUME NEW c \in calls, Serves(c) \/ Answers(c) \/ Fails(c) PROVE IInv'
    BY <1>7, ServerStep, AnswerStep
  <1>8. ASSUME NEW n \in Tokens, Expire(n) PROVE IInv'
    BY <1>8, ExpireStep
  <1>9. ASSUME NEW t \in Tabs, Navigate(t) PROVE IInv'
    BY <1>9, LoadedSound DEF Navigate, IInv, TypeOK
  <1> QED
    BY <1>1, <1>2, <1>3, <1>4, <1>5, <1>6, <1>7, <1>8, <1>9 DEF Next

THEOREM Invariance == Spec => []IInv
  BY InitHolds, StepHolds, PTL DEF Spec

\* Every variable keeps its type; a tab has one call of a kind under way at most.
THEOREM Typing == Spec => []TypeOK
  BY Invariance, PTL DEF IInv

\* Tokens stay with their users, and a tab that no other tab has overtaken acts as the user it
\* shows, or as nobody while the login page that it asked for is not there yet
\* (auth.ts:11-22, api-client.ts:6, 17-20).
THEOREM TabsActAsShown == Spec => ActsAsShown
  <1> DEFINE Pairs == \A a \in {stored} \cup {memory[t] : t \in Tabs} :
                        \/ a = NoAuth
                        \/ a.token # None /\ owner[a.token] = a.user
             AsShown(c) == IF c.token = None THEN memory[c.tab].user = None \/ leaving[c.tab]
                           ELSE memory[c.tab].user = owner[c.token]
             Calls == \A c \in calls' \ calls :
                        c.kind = "data" /\ c.at = "sent" /\ ~foreign[c.tab] => AsShown(c)
  <1>1. ASSUME IInv PROVE Pairs
    <2>1. \A a \in {stored} \cup {memory[t] : t \in Tabs} : IsPair(a)
      BY <1>1 DEF IInv, PairsAgree
    <2> QED
      BY <2>1 DEF IsPair
  <1>2. IInv /\ [Next]_vars => [Calls]_vars
    <2> SUFFICES ASSUME IInv, Next, NEW c \in calls' \ calls,
                        c.kind = "data", c.at = "sent", ~foreign[c.tab]
                 PROVE  AsShown(c)
      OBVIOUS
    <2>1. ASSUME NEW t \in Tabs, NEW kind, NEW token, NEW user, Asks(t, kind, token, user)
          PROVE  c.tab = t /\ c.kind = kind /\ c.token = token
      <3>1. c = [tab |-> t, kind |-> kind, token |-> token, user |-> user, at |-> "sent"]
        BY <2>1 DEF Asks
      <3> QED
        BY <3>1
    <2>2. ASSUME NEW t \in Tabs, Poll(t) PROVE AsShown(c)
      <3>1. c.tab = t /\ c.token = stored.token
        BY <2>1, <2>2 DEF Poll, CallToken
      <3>2. memory[t] = stored \/ (leaving[t] /\ stored = NoAuth)
        BY <3>1 DEF IInv, TabsAreCurrent
      <3>3. stored.token = None => stored = NoAuth
        BY DEF IInv, PairsAgree, IsPair
      <3>4. stored = NoAuth \/ owner[stored.token] = stored.user
        BY DEF IInv, PairsAgree, IsPair
      <3> QED
        BY <3>1, <3>2, <3>3, <3>4, NoAuthIsAuth
    <2>3. ASSUME NEW t \in Tabs, NEW u \in Users, Logout(t) \/ SubmitLogin(t, u) PROVE FALSE
      BY <2>1, <2>3 DEF Logout, SubmitLogin
    <2>4. ASSUME NEW b \in calls, NEW d, Answered(b, d), d.at # "sent" PROVE FALSE
      BY <2>4 DEF Answered
    <2>5. ASSUME NEW b \in calls, Serves(b) \/ Fails(b) PROVE FALSE
      <3>1. b \in Call
        BY DEF IInv, TypeOK
      <3>2. \A at \in {"ok", "401", "unread", "error"} : \A token :
              /\ [b EXCEPT !.at = at].at # "sent"
              /\ [b EXCEPT !.at = at, !.token = token].at # "sent"
        BY <3>1 DEF Call
      <3>3. CASE Displayed(b)
        BY <3>3 DEF Displayed
      <3>4. CASE ServeData(b)
        BY <2>4, <3>2, <3>3, <3>4 DEF ServeData
      <3>5. CASE ServeLogin(b)
        BY <2>4, <3>2, <3>5 DEF ServeLogin
      <3>6. CASE ServeLogout(b)
        BY <2>4, <3>2, <3>6 DEF ServeLogout
      <3>7. CASE Fails(b)
        BY <2>4, <3>2, <3>3, <3>7 DEF Fails
      <3> QED
        BY <2>5, <3>4, <3>5, <3>6, <3>7 DEF Serves
    <2>6. ASSUME NEW b \in calls, Answers(b) PROVE FALSE
      BY <2>6 DEF Answers, SignedIn, SignedOut, Unauthorized, Shown, Displayed
    <2>7. CASE \/ \E t \in Tabs, p \in {"login", "page"} : Load(t, p)
               \/ \E t \in Tabs : Guard(t) \/ Navigate(t)
               \/ \E n \in Tokens : Expire(n)
      BY <2>7 DEF Load, Guard, Navigate, Reload, Expire
    <2>8. CASE \E t \in Tabs : Logout(t)
      <3>1. PICK t \in Tabs : Asks(t, "logout", memory[t].token, None)
        BY <2>8 DEF Logout
      <3> QED
        BY <2>1, <3>1
    <2> HIDE DEF AsShown
    <2> QED
      BY <2>2, <2>3, <2>5, <2>6, <2>7, <2>8 DEF Next
  <1> HIDE DEF Pairs, Calls
  <1>3. ActsAsShown <=> []Pairs /\ [][Calls]_vars
    BY DEF ActsAsShown, Pairs, Calls
  <1> QED
    BY <1>1, <1>2, <1>3, Invariance, PTL DEF Spec

\* An open session is forgotten for a sign-out, a 401 to a call made without it, or one that
\* says only that it could not be looked up (api-client.ts:16-20, postgres.go:254-262).
THEOREM SessionsAreKept == Spec => OnlyLate401s
  <1> DEFINE Forgets(c) ==
        \/ c.kind = "logout"
        \/ c.kind = "data" /\ c.at = "401" /\ c.token # stored.token
        \/ c.kind = "data" /\ c.at = "unread"
  <1>1. IInv /\ [Next]_vars =>
          [stored.token \in live /\ stored' = NoAuth => \E c \in calls \ calls' : Forgets(c)]_vars
    <2> SUFFICES ASSUME IInv, Next, stored.token \in live, stored' = NoAuth
                 PROVE  \E c \in calls \ calls' : Forgets(c)
      OBVIOUS
    <2>1. stored # NoAuth
      BY NoneIsNoToken, NoAuthIsAuth DEF IInv, TypeOK
    <2>2. ASSUME NEW c \in calls, SignedIn(c) PROVE FALSE
      <3>1. stored'.token = c.token /\ c.token # None
        BY <2>2 DEF SignedIn, Saved, IInv, CallsAreSound, CallIsSound
      <3> QED
        BY <3>1, NoAuthIsAuth
    <2>3. ASSUME NEW c \in calls, SignedOut(c) PROVE Forgets(c) /\ c \notin calls'
      BY <2>3 DEF SignedOut
    <2>4. ASSUME NEW c \in calls, Unauthorized(c) PROVE Forgets(c) /\ c \notin calls'
      <3>1. c.kind = "data" /\ c.at \in {"401", "unread"} /\ c \notin calls'
        BY <2>4 DEF Unauthorized, SignsOut
      <3>2. c.at = "401" => c.token \notin live
        BY <3>1 DEF IInv, CallsAreSound, CallIsSound
      <3> QED
        BY <3>1, <3>2
    <2>5. ASSUME NEW c \in calls, Shown(c) \/ Serves(c) \/ Fails(c) PROVE FALSE
      BY <2>1, <2>5 DEF Shown, Serves, ServeData, ServeLogin, ServeLogout, Fails, Answered, Displayed
    <2>6. CASE \/ \E t \in Tabs, p \in {"login", "page"} : Load(t, p)
               \/ \E t \in Tabs : Guard(t) \/ Navigate(t) \/ Poll(t) \/ Logout(t)
               \/ \E t \in Tabs, u \in Users : SubmitLogin(t, u)
               \/ \E n \in Tokens : Expire(n)
      BY <2>1, <2>6 DEF Load, Guard, Navigate, Reload, Poll, Logout, SubmitLogin, Asks, Expire
    <2> HIDE DEF Forgets
    <2> QED
      BY <2>2, <2>3, <2>4, <2>5, <2>6 DEF Next, Answers
  <1> QED
    BY <1>1, Invariance, PTL DEF Spec, OnlyLate401s

-----------------------------------------------------------------------------
(* The login page in the end *)

\* What a tab's fair steps are taken on: its data call.
Handles(t) == \E c \in calls : c.tab = t /\ (ServeData(c) \/ Unauthorized(c) \/ Shown(c))

\* The data call of a tab, if there is one.
Data(t) == {c \in calls : c.tab = t /\ c.kind = "data"}

\* Running, with the conditions under which a tab's actions can be taken written out.
Runs(t) ==
  /\ []([](~ready[t] \/ ~(memory[t].token # None <=> path[t] = "page")) => <><<Guard(t)>>_vars)
  /\ []([]leaving[t] => <><<Navigate(t)>>_vars)
  /\ []([](Data(t) # {}) => <><<Handles(t)>>_vars)

\* A step in which the user loads nothing, no failure happens and no sign-in succeeds.
Calm == trouble' = trouble /\ \A c \in calls : ~SignedIn(c)

\* The browser has no session that is open.
Over == stored.token \notin live

\* If a tab is on its way to the login page, it will find no session there.
Free(t) == stored = NoAuth \/ ~leaving[t]

\* What a step may do to a tab when the session is over ...
StaysAsItIs(t) ==
  memory'[t] = memory[t] /\ path'[t] = path[t] /\ ready'[t] = ready[t] /\ leaving'[t] = leaving[t]
SignsOutOf(t) == memory'[t].token = None /\ path'[t] = path[t] /\ leaving'[t] = leaving[t]
Goes(t) == memory'[t] = memory[t] /\ path'[t] = path[t] /\ leaving'[t] /\ stored' = NoAuth

\* ... and to its data call.
Asked(t) == Data(t) = {} /\ \E c \in Data(t)' : Data(t)' = {c} /\ c.at = "sent" /\ c.token \notin live'
Served(t) ==
  \E c \in Data(t) :
    /\ c.at = "sent"
    /\ IF c.token \in live THEN Data(t)' = {}
                           ELSE \E d \in Data(t)' : Data(t)' = {d} /\ d.at = "401"
Told(t) == (\E c \in Data(t) : c.at \in {"ok", "error"}) /\ Data(t)' = {}

\* Data calls are one at most.
LEMMA OneDataCall ==
  ASSUME IInv, NEW t \in Tabs, NEW c \in calls, c.tab = t, c.kind = "data"
  PROVE  Data(t) = {c}
  BY DEF IInv, TypeOK, Data

\* What is over stays over, and tokens that are not live do not come to life.
LEMMA OverStays ==
  ASSUME IInv, [Next]_vars, [Calm]_vars
  PROVE  /\ \A token : Given(token) /\ token \notin live => token \notin live'
         /\ stored' = stored \/ stored' = NoAuth
         /\ Over => Over'
  <1>1. None \notin live /\ None \notin live'
    <2>1. IInv'
      BY StepHolds
    <2> QED
      BY <2>1, NoneIsNoToken DEF IInv, TypeOK
  <1>2. Given(stored.token)
    BY NoAuthIsAuth DEF IInv, PairsAgree, IsPair, Given
  <1>3. \A n \in live' \ live : owner[n] = None
    <2>1. ASSUME NEW c \in calls, Serves(c) \/ Answers(c) \/ Fails(c), NEW n \in live' \ live
          PROVE  owner[n] = None
      BY <2>1 DEF Serves, Answers, Fails, ServeData, ServeLogin, ServeLogout, SignedIn, SignedOut, Unauthorized,
                  Shown, server
    <2>2. CASE UNCHANGED vars
      BY <2>2 DEF vars, server
    <2>3. CASE \/ \E t \in Tabs, p \in {"login", "page"} : Load(t, p)
               \/ \E t \in Tabs : Guard(t) \/ Navigate(t) \/ Poll(t) \/ Logout(t)
               \/ \E t \in Tabs, u \in Users : SubmitLogin(t, u)
               \/ \E n \in Tokens : Expire(n)
      BY <2>3 DEF Load, Guard, Navigate, Reload, Poll, Logout, SubmitLogin, Asks, Expire, server
    <2> QED
      BY <2>1, <2>2, <2>3 DEF Next
  <1>4. \A token : Given(token) /\ token \notin live => token \notin live'
    BY <1>1, <1>3 DEF Given
  <1>5. stored' = stored \/ stored' = NoAuth
    <2>1. ASSUME NEW c \in calls, Serves(c) \/ Answers(c) \/ Fails(c), ~SignedIn(c)
          PROVE  stored' = stored \/ stored' = NoAuth
      BY <2>1 DEF Serves, Answers, Fails, ServeData, ServeLogin, ServeLogout, SignedOut, Unauthorized,
                  Shown, Answered, Displayed, Cleared
    <2>2. CASE UNCHANGED vars
      BY <2>2 DEF vars
    <2>3. CASE \/ \E t \in Tabs, p \in {"login", "page"} : Load(t, p)
               \/ \E t \in Tabs : Guard(t) \/ Navigate(t) \/ Poll(t) \/ Logout(t)
               \/ \E t \in Tabs, u \in Users : SubmitLogin(t, u)
               \/ \E n \in Tokens : Expire(n)
      BY <2>3 DEF Load, Guard, Navigate, Reload, Poll, Logout, SubmitLogin, Asks, Expire
    <2> QED
      BY <2>1, <2>2, <2>3 DEF Next, Calm, vars
  <1> QED
    BY <1>1, <1>2, <1>4, <1>5, NoAuthIsAuth DEF Over

\* Serving a data call answers it or is the end of it; serving another does nothing to data calls.
LEMMA ServedSteps ==
  ASSUME IInv, NEW t \in Tabs, NEW c \in calls, Serves(c)
  PROVE  /\ StaysAsItIs(t)
         /\ IF c.tab = t /\ c.kind = "data" THEN Served(t) ELSE Data(t)' = Data(t)
  <1>1. c \in Call
    BY DEF IInv, TypeOK
  <1>2. Data(t)' = {d \in calls' : d.tab = t /\ d.kind = "data"}
    BY DEF Data
  <1>3. StaysAsItIs(t)
    BY DEF Serves, ServeData, ServeLogin, ServeLogout, Answered, Displayed, tab, StaysAsItIs
  <1>4. ASSUME NEW b, b.tab = c.tab, b.kind = c.kind, calls' = (calls \ {c}) \cup {b},
               ~(c.tab = t /\ c.kind = "data")
        PROVE  Data(t)' = Data(t)
    BY <1>2, <1>4 DEF Data
  <1>5. CASE ServeData(c)
    <2>1. c.kind = "data" /\ c.at = "sent"
      BY <1>5 DEF ServeData
    <2>2. CASE c.token \in live
      <3>1. calls' = calls \ {c}
        BY <1>5, <2>2 DEF ServeData, Displayed
      <3>2. CASE c.tab = t
        BY <1>2, <1>3, <2>1, <2>2, <3>1, <3>2, OneDataCall DEF Served, Data
      <3>3. CASE c.tab # t
        BY <1>2, <1>3, <3>1, <3>3 DEF Data
      <3> QED
        BY <3>2, <3>3
    <2>3. CASE c.token \notin live
      <3>1. PICK b : b = [c EXCEPT !.at = "401"]
        OBVIOUS
      <3>2. b.tab = c.tab /\ b.kind = c.kind /\ b.at = "401"
        BY <1>1, <3>1 DEF Call
      <3>3. calls' = (calls \ {c}) \cup {b}
        BY <1>5, <2>3, <3>1 DEF ServeData, Answered
      <3>4. CASE c.tab = t
        <4>1. Data(t) = {c} /\ Data(t)' = {b}
          BY <1>2, <2>1, <3>2, <3>3, <3>4, OneDataCall DEF Data
        <4> QED
          BY <1>3, <2>1, <2>3, <3>2, <3>4, <4>1 DEF Served
      <3>5. CASE c.tab # t
        BY <1>3, <1>4, <3>2, <3>3, <3>5
      <3> QED
        BY <3>4, <3>5
    <2> QED
      BY <2>2, <2>3
  <1>6. CASE ServeLogin(c) \/ ServeLogout(c)
    <2>1. c.kind # "data"
      BY <1>6 DEF ServeLogin, ServeLogout
    <2>2. PICK token : calls' = (calls \ {c}) \cup {[c EXCEPT !.at = "ok", !.token = token]}
      <3>1. [c EXCEPT !.at = "ok", !.token = c.token] = [c EXCEPT !.at = "ok"]
        BY <1>1 DEF Call
      <3> QED
        BY <1>6, <3>1 DEF ServeLogin, ServeLogout, Answered
    <2>3. PICK b : b = [c EXCEPT !.at = "ok", !.token = token]
      OBVIOUS
    <2>4. b.tab = c.tab /\ b.kind = c.kind
      BY <1>1, <2>3 DEF Call
    <2> QED
      BY <1>3, <1>4, <2>1, <2>2, <2>3, <2>4
  <1> QED
    BY <1>5, <1>6 DEF Serves

\* A 401 is handled by going, and an error by showing it.
LEMMA RefusedSteps ==
  ASSUME IInv, NEW t \in Tabs, NEW c \in calls, Unauthorized(c) \/ Shown(c)
  PROVE  IF c.tab = t THEN Goes(t) \/ (StaysAsItIs(t) /\ Told(t))
                      ELSE StaysAsItIs(t) /\ Data(t)' = Data(t)
  <1>1. c \in Call /\ c.kind = "data" /\ calls' = calls \ {c}
    BY DEF Unauthorized, Shown, Displayed, IInv, TypeOK
  <1>2. c.tab # t => Data(t)' = Data(t)
    BY <1>1 DEF Data
  <1>3. CASE Unauthorized(c)
    BY <1>2, <1>3 DEF Unauthorized, Cleared, Goes, StaysAsItIs, IInv, TypeOK
  <1>4. CASE Shown(c)
    <2>1. c.at = "error" \/ c.at = "ok"
      BY <1>1, <1>4 DEF Shown, SignsOut, Call
    <2>2. StaysAsItIs(t)
      BY <1>4 DEF Shown, Displayed, tab, StaysAsItIs
    <2>3. CASE c.tab = t
      BY <1>1, <2>1, <2>2, <2>3, OneDataCall DEF Data, Told
    <2> QED
      BY <1>2, <2>2, <2>3
  <1> QED
    BY <1>3, <1>4

\* What a step that is calm does to a tab.
LEMMA CalmSteps ==
  ASSUME IInv, [Next]_vars, [Calm]_vars, Over, NEW t \in Tabs
  PROVE  /\ StaysAsItIs(t) \/ Guard(t) \/ SignsOutOf(t) \/ Goes(t) \/ Navigate(t)
         /\ Goes(t) \/ Navigate(t) \/ Data(t)' = Data(t) \/ Asked(t) \/ Served(t) \/ Told(t)
  <1> DEFINE G == /\ StaysAsItIs(t) \/ Guard(t) \/ SignsOutOf(t) \/ Goes(t) \/ Navigate(t)
                  /\ Goes(t) \/ Navigate(t) \/ Data(t)' = Data(t) \/ Asked(t) \/ Served(t) \/ Told(t)
  <1>1. CASE UNCHANGED <<memory, path, ready, leaving, calls>>
    BY <1>1 DEF StaysAsItIs, Data
  <1>2. ASSUME Trouble PROVE FALSE
    BY <1>2 DEF Trouble, Calm, vars, IInv, TypeOK
  <1>3. ASSUME NEW u \in Tabs, Guard(u) PROVE G
    <2>1. UNCHANGED <<memory, leaving, calls>>
      BY <1>3 DEF Guard
    <2>2. Data(t)' = Data(t)
      BY <2>1 DEF Data
    <2>3. CASE u # t
      BY <1>3, <2>1, <2>2, <2>3 DEF Guard, StaysAsItIs, IInv, TypeOK
    <2> QED
      BY <1>3, <2>2, <2>3
  <1>4. ASSUME NEW u \in Tabs, NEW kind, NEW token, NEW user, Asks(u, kind, token, user),
               kind = "data" => token = stored.token
        PROVE  G
    <2>1. PICK b : b = [tab |-> u, kind |-> kind, token |-> token, user |-> user, at |-> "sent"]
      OBVIOUS
    <2>2. /\ calls' = calls \cup {b} /\ ~InFlight(u, kind)
          /\ UNCHANGED <<server, memory, path, ready, leaving>>
      BY <1>4, <2>1 DEF Asks, tab
    <2>3. b.tab = u /\ b.kind = kind /\ b.token = token /\ b.at = "sent"
      BY <2>1
    <2>4. StaysAsItIs(t)
      BY <2>2 DEF StaysAsItIs
    <2>5. CASE ~(u = t /\ kind = "data")
      BY <2>2, <2>3, <2>4, <2>5 DEF Data
    <2>6. CASE u = t /\ kind = "data"
      <3>1. Data(t) = {} /\ Data(t)' = {b}
        BY <2>2, <2>3, <2>6 DEF Data, InFlight
      <3>2. b.token \notin live'
        BY <1>4, <2>2, <2>3, <2>6 DEF Over, server
      <3> QED
        BY <2>3, <2>4, <3>1, <3>2 DEF Asked
    <2> QED
      BY <2>5, <2>6
  <1>5. ASSUME NEW c \in calls, Serves(c) PROVE G
    BY <1>5, ServedSteps
  <1>6. ASSUME NEW c \in calls, SignedOut(c) PROVE G
    <2>1. /\ c.kind = "logout" /\ memory' = [memory EXCEPT ![c.tab] = NoAuth]
          /\ calls' = calls \ {c} /\ UNCHANGED <<path, ready, leaving>>
      BY <1>6 DEF SignedOut
    <2>2. Data(t)' = Data(t)
      BY <2>1 DEF Data
    <2>3. CASE c.tab = t
      BY <2>1, <2>2, <2>3, NoAuthIsAuth DEF SignsOutOf, IInv, TypeOK
    <2>4. CASE c.tab # t
      BY <2>1, <2>2, <2>4 DEF StaysAsItIs, IInv, TypeOK
    <2> QED
      BY <2>3, <2>4
  <1>7. ASSUME NEW c \in calls, Unauthorized(c) \/ Shown(c) PROVE G
    BY <1>7, RefusedSteps
  <1>8. ASSUME NEW u \in Tabs, Navigate(u) PROVE G
    <2>1. CASE u # t
      <3>1. calls' = {c \in calls : c.tab # u} /\ StaysAsItIs(t)
        BY <1>8, <2>1 DEF Navigate, Reload, StaysAsItIs, IInv, TypeOK
      <3>2. Data(t)' = Data(t)
        BY <2>1, <3>1 DEF Data
      <3> QED
        BY <3>1, <3>2
    <2> QED
      BY <1>8, <2>1
  <1>9. ASSUME NEW n \in Tokens, Expire(n) PROVE G
    BY <1>1, <1>9 DEF Expire, tab
  <1>10. CASE UNCHANGED vars
    BY <1>1, <1>10 DEF vars, tab
  <1>11. ASSUME Next, ~UNCHANGED vars PROVE G
    <2>1. \A c \in calls : ~SignedIn(c)
      BY <1>11 DEF Calm
    <2>2. ASSUME NEW u \in Tabs, Poll(u) \/ Logout(u) \/ \E v \in Users : SubmitLogin(u, v) PROVE G
      BY <1>4, <2>2 DEF Poll, Logout, SubmitLogin, CallToken
    <2>3. ASSUME NEW u \in Tabs, NEW p \in {"login", "page"}, Load(u, p) PROVE FALSE
      BY <1>2, <2>3 DEF Load
    <2>4. ASSUME NEW c \in calls, Fails(c) PROVE FALSE
      BY <1>2, <2>4 DEF Fails
    <2> HIDE DEF G
    <2>5. ASSUME NEW c \in calls, Serves(c) \/ Answers(c) \/ Fails(c) PROVE G
      BY <1>5, <1>6, <1>7, <2>1, <2>4, <2>5 DEF Answers
    <2> QED
      BY <1>3, <1>8, <1>9, <1>11, <2>2, <2>3, <2>5 DEF Next
  <1> QED
    BY <1>10, <1>11

\* What the fair step of a tab comes to.
LEMMA HandledSteps ==
  ASSUME IInv, NEW t \in Tabs, Handles(t)
  PROVE  Goes(t) \/ Served(t) \/ Told(t)
  <1>1. PICK c \in calls : c.tab = t /\ (ServeData(c) \/ Unauthorized(c) \/ Shown(c))
    BY DEF Handles
  <1>2. CASE ServeData(c)
    BY <1>1, <1>2, ServedSteps DEF Serves, ServeData
  <1>3. CASE Unauthorized(c) \/ Shown(c)
    BY <1>1, <1>3, RefusedSteps
  <1> QED
    BY <1>1, <1>2, <1>3

\* A 401 leaves nothing in localStorage, and nobody signs in.
LEMMA FreeStays ==
  ASSUME IInv, [Next]_vars, [Calm]_vars, Over, NEW t \in Tabs
  PROVE  /\ Free(t) => Free(t)'
         /\ <<Navigate(t)>>_vars => Free(t)'
  <1>1. StaysAsItIs(t) \/ Guard(t) \/ SignsOutOf(t) \/ Goes(t) \/ Navigate(t)
    BY CalmSteps
  <1>2. stored' = stored \/ stored' = NoAuth
    BY OverStays
  <1>3. Navigate(t) => ~leaving'[t]
    BY DEF Navigate, Reload, IInv, TypeOK
  <1> QED
    BY <1>1, <1>2, <1>3 DEF Free, StaysAsItIs, Guard, SignsOutOf, Goes

\* Where a tab may be on its way to the login page: it has nobody in memory, at the login page or
\* not yet; it has asked for the login page; or it has somebody, on the login page, on a page that
\* is not yet rendered, or on one that is.
Off(t) == memory[t].token = None
AtLogin(t) == Off(t) /\ path[t] = "login"
Stranded(t) == Off(t) /\ path[t] = "page"
Going(t) == ~Off(t) /\ leaving[t]
Away(t) == Off(t) \/ Going(t)
Returning(t) == ~Away(t) /\ path[t] = "login"
Loading(t) == ~Away(t) /\ path[t] = "page" /\ ~ready[t]
OnPage(t) == ~Away(t) /\ path[t] = "page" /\ ready[t]

\* How far the data call of a rendered page is; a doomed one will be refused.
Quiet(t) == OnPage(t) /\ Data(t) = {}
DataAt(t, at) == OnPage(t) /\ \E c \in Data(t) : c.at \in at
Doomed(t) == OnPage(t) /\ \E c \in Data(t) : c.at = "sent" /\ c.token \notin live

\* The tab stays where it is, or gets further.
LEMMA PlacesStep ==
  ASSUME IInv, [Next]_vars, [Calm]_vars, Over, NEW t \in Tabs, Free(t)
  PROVE  /\ AtLogin(t) => AtLogin(t)'
         /\ Stranded(t) => Stranded(t)' \/ AtLogin(t)'
         /\ Going(t) => Going(t)' \/ Off(t)'
         /\ Returning(t) => Returning(t)' \/ Loading(t)' \/ OnPage(t)' \/ Away(t)'
         /\ Loading(t) => Loading(t)' \/ OnPage(t)' \/ Away(t)'
         /\ OnPage(t) => OnPage(t)' \/ Away(t)'
  <1>1. StaysAsItIs(t) \/ Guard(t) \/ SignsOutOf(t) \/ Goes(t) \/ Navigate(t)
    BY CalmSteps
  <1> USE DEF AtLogin, Stranded, Going, Returning, Loading, OnPage, Off, Away
  <1>2. CASE StaysAsItIs(t)
    BY <1>2 DEF StaysAsItIs
  <1>3. CASE Guard(t)
    BY <1>3 DEF Guard, IInv, TypeOK
  <1>4. CASE SignsOutOf(t)
    BY <1>4 DEF SignsOutOf
  <1>5. CASE Goes(t)
    BY <1>5 DEF Goes
  <1>6. CASE Navigate(t)
    <2>1. AtLogin(t)'
      BY <1>6, NoAuthIsAuth DEF Navigate, Reload, Free, IInv, TypeOK
    <2> QED
      BY <2>1
  <1> QED
    BY <1>1, <1>2, <1>3, <1>4, <1>5, <1>6

\* And so does its data call.
LEMMA DataSteps ==
  ASSUME IInv, [Next]_vars, [Calm]_vars, Over, NEW t \in Tabs, Free(t)
  PROVE  /\ Quiet(t) => Quiet(t)' \/ Doomed(t)' \/ Away(t)'
         /\ Doomed(t) => Doomed(t)' \/ DataAt(t, {"401", "unread"})' \/ Away(t)'
         /\ DataAt(t, {"sent"}) =>
              DataAt(t, {"sent"})' \/ Quiet(t)' \/ DataAt(t, {"401", "unread"})' \/ Away(t)'
         /\ DataAt(t, {"ok", "error"}) => DataAt(t, {"ok", "error"})' \/ Quiet(t)' \/ Away(t)'
         /\ DataAt(t, {"401", "unread"}) => DataAt(t, {"401", "unread"})' \/ Away(t)'
  <1> SUFFICES ASSUME OnPage(t), OnPage(t)'
      PROVE /\ Data(t) = {} => Data(t)' = {} \/ Doomed(t)'
            /\ Doomed(t) => Doomed(t)' \/ DataAt(t, {"401", "unread"})'
            /\ DataAt(t, {"sent"}) => DataAt(t, {"sent"})' \/ Data(t)' = {} \/ DataAt(t, {"401", "unread"})'
            /\ DataAt(t, {"ok", "error"}) => DataAt(t, {"ok", "error"})' \/ Data(t)' = {}
            /\ DataAt(t, {"401", "unread"}) => DataAt(t, {"401", "unread"})'
    BY PlacesStep DEF Quiet, Doomed, DataAt
  <1>1. \A c, d \in Data(t) : c = d
    BY DEF Data, IInv, TypeOK
  <1>2. \A c \in Data(t) : c.token \notin live => c.token \notin live'
    <2>1. \A c \in Data(t) : Given(c.token)
      BY DEF Data, IInv, CallsAreSound, CallIsSound
    <2> QED
      BY <2>1, OverStays
  <1>3. ~Goes(t) /\ ~Navigate(t)
    BY DEF Goes, Navigate, OnPage, Away, Going, Off
  <1>4. CASE Data(t)' = Data(t)
    BY <1>2, <1>4 DEF Doomed, DataAt
  <1>5. CASE Asked(t)
    BY <1>5 DEF Asked, Doomed, DataAt
  <1>6. CASE Served(t)
    BY <1>1, <1>6 DEF Served, Doomed, DataAt
  <1>7. CASE Told(t)
    BY <1>1, <1>7 DEF Told, Doomed, DataAt
  <1> QED
    BY <1>3, <1>4, <1>5, <1>6, <1>7, CalmSteps

\* The fair steps of a tab take it further.
LEMMA PlacesProgress ==
  ASSUME IInv, [Next]_vars, [Calm]_vars, Over, NEW t \in Tabs, Free(t)
  PROVE  /\ Stranded(t) /\ <<Guard(t)>>_vars => AtLogin(t)'
         /\ Going(t) /\ <<Navigate(t)>>_vars => Off(t)'
         /\ Returning(t) /\ <<Guard(t)>>_vars => Loading(t)' \/ OnPage(t)'
         /\ Loading(t) /\ <<Guard(t)>>_vars => OnPage(t)'
  <1>1. Navigate(t) => Off(t)'
    BY NoAuthIsAuth DEF Navigate, Reload, Free, Off, IInv, TypeOK
  <1> QED
    BY <1>1 DEF Guard, AtLogin, Stranded, Returning, Loading, OnPage, Off, Away, Going, IInv, TypeOK

LEMMA DataProgress ==
  ASSUME IInv, [Next]_vars, [Calm]_vars, Over, NEW t \in Tabs, Free(t)
  PROVE  /\ Quiet(t) /\ <<Poll(t)>>_vars => Doomed(t)' \/ Away(t)'
         /\ <<Handles(t)>>_vars =>
              /\ Doomed(t) => DataAt(t, {"401", "unread"})' \/ Away(t)'
              /\ DataAt(t, {"sent"}) => Quiet(t)' \/ DataAt(t, {"401", "unread"})' \/ Away(t)'
              /\ DataAt(t, {"ok", "error"}) => Quiet(t)' \/ Away(t)'
              /\ DataAt(t, {"401", "unread"}) => Away(t)'
  <1>1. \A c, d \in Data(t) : c = d
    BY DEF Data, IInv, TypeOK
  <1>2. OnPage(t) => OnPage(t)' \/ Away(t)'
    BY PlacesStep
  <1>3. ASSUME Quiet(t), Poll(t) PROVE Doomed(t)' \/ Away(t)'
    <2>1. Data(t)' # {}
      <3>1. PICK b : b.tab = t /\ b.kind = "data" /\ calls' = calls \cup {b}
        BY <1>3 DEF Poll, Asks
      <3> QED
        BY <3>1 DEF Data
    <2>2. Quiet(t)' => Data(t)' = {}
      BY DEF Quiet
    <2> QED
      BY <1>3, <2>1, <2>2, DataSteps
  <1>4. OnPage(t) /\ Goes(t) => Away(t)'
    BY DEF Goes, OnPage, Away, Going, Off
  <1>5. ASSUME Served(t)
        PROVE  /\ Doomed(t) => DataAt(t, {"401", "unread"})' \/ Away(t)'
               /\ DataAt(t, {"sent"}) => Quiet(t)' \/ DataAt(t, {"401", "unread"})' \/ Away(t)'
               /\ ~DataAt(t, {"ok", "error"}) /\ ~DataAt(t, {"401", "unread"})
    BY <1>1, <1>2, <1>5 DEF Served, Doomed, DataAt, Quiet
  <1>6. ASSUME Told(t)
        PROVE  /\ DataAt(t, {"ok", "error"}) => Quiet(t)' \/ Away(t)'
               /\ ~Doomed(t) /\ ~DataAt(t, {"sent"}) /\ ~DataAt(t, {"401", "unread"})
    BY <1>1, <1>2, <1>6 DEF Told, Doomed, DataAt, Quiet
  <1>7. Doomed(t) \/ DataAt(t, {"sent"}) \/ DataAt(t, {"ok", "error"}) \/ DataAt(t, {"401", "unread"})
          => OnPage(t)
    BY DEF Doomed, DataAt
  <1> QED
    BY <1>3, <1>4, <1>5, <1>6, <1>7, HandledSteps

\* What a tab can be asked to do, or is, where it is.
LEMMA Places ==
  ASSUME IInv, NEW t \in Tabs
  PROVE  /\ Off(t) => AtLogin(t) \/ Stranded(t)
         /\ Away(t) => Off(t) \/ Going(t)
         /\ Away(t) \/ Returning(t) \/ Loading(t) \/ OnPage(t)
         /\ OnPage(t) =>
              Quiet(t) \/ DataAt(t, {"sent"}) \/ DataAt(t, {"ok", "error"}) \/ DataAt(t, {"401", "unread"})
         /\ Stranded(t) \/ Returning(t) \/ Loading(t) =>
              ~ready[t] \/ ~(memory[t].token # None <=> path[t] = "page")
         /\ Going(t) => leaving[t]
         /\ ~Free(t) => leaving[t]
         /\ Quiet(t) => path[t] = "page" /\ ready[t] /\ ~InFlight(t, "data")
         /\ Doomed(t) \/ DataAt(t, {"sent"}) \/ DataAt(t, {"ok", "error"}) \/ DataAt(t, {"401", "unread"})
              => Data(t) # {}
         /\ AtLogin(t) => path[t] = "login"
  <1>1. \A c \in Data(t) : c.at \in {"sent", "ok", "401", "unread", "error"}
    BY DEF Data, IInv, TypeOK, Call
  <1>2. Data(t) = {} => ~InFlight(t, "data")
    BY DEF Data, InFlight
  <1> QED
    BY <1>1, <1>2 DEF Off, Away, AtLogin, Stranded, Going, Returning, Loading, OnPage, Quiet, DataAt, Doomed,
                      Free, IInv, TypeOK

\* One tab in view: if the session is over, and stays so, it gets to the login page for good.
LEMMA TabSignsOut ==
  ASSUME NEW t \in Tabs
  PROVE  Spec /\ Runs(t) /\ InView(t) /\ <>[][Calm]_vars =>
           <>[](path[t] = "login" \/ stored.token \in live)
  <1> DEFINE Calmly == IInv /\ Over /\ [Next]_vars /\ [Calm]_vars
             Stays == Calmly /\ Free(t)
             CanGuard == ~ready[t] \/ ~(memory[t].token # None <=> path[t] = "page")
             CanGo == leaving[t]
             CanPoll == path[t] = "page" /\ ready[t] /\ ~InFlight(t, "data")
             CanHandle == Data(t) # {}
             Sent == DataAt(t, {"sent"})
             Back == DataAt(t, {"ok", "error"})
             Refused == DataAt(t, {"401", "unread"})
  <1>1. IInv /\ [Next]_vars /\ [Calm]_vars => (Over => Over')
    BY OverStays
  <1>2. /\ Calmly => (Free(t) => Free(t)')
        /\ Calmly /\ <<Navigate(t)>>_vars => Free(t)'
    BY FreeStays
  <1>3. /\ Stays /\ AtLogin(t) => AtLogin(t)'
        /\ Stays /\ Stranded(t) => Stranded(t)' \/ AtLogin(t)'
        /\ Stays /\ Going(t) => Going(t)' \/ Off(t)'
        /\ Stays /\ Returning(t) => Returning(t)' \/ Loading(t)' \/ OnPage(t)' \/ Away(t)'
        /\ Stays /\ Loading(t) => Loading(t)' \/ OnPage(t)' \/ Away(t)'
        /\ Stays /\ OnPage(t) => OnPage(t)' \/ Away(t)'
    BY PlacesStep
  <1>4. /\ Stays /\ Quiet(t) => Quiet(t)' \/ Doomed(t)' \/ Away(t)'
        /\ Stays /\ Doomed(t) => Doomed(t)' \/ Refused' \/ Away(t)'
        /\ Stays /\ Sent => Sent' \/ Quiet(t)' \/ Refused' \/ Away(t)'
        /\ Stays /\ Back => Back' \/ Quiet(t)' \/ Away(t)'
        /\ Stays /\ Refused => Refused' \/ Away(t)'
    BY DataSteps
  <1>5. /\ Stays /\ Stranded(t) /\ <<Guard(t)>>_vars => AtLogin(t)'
        /\ Stays /\ Going(t) /\ <<Navigate(t)>>_vars => Off(t)'
        /\ Stays /\ Returning(t) /\ <<Guard(t)>>_vars => Loading(t)' \/ OnPage(t)'
        /\ Stays /\ Loading(t) /\ <<Guard(t)>>_vars => OnPage(t)'
    BY PlacesProgress
  <1>6. /\ Stays /\ Quiet(t) /\ <<Poll(t)>>_vars => Doomed(t)' \/ Away(t)'
        /\ Stays /\ Doomed(t) /\ <<Handles(t)>>_vars => Refused' \/ Away(t)'
        /\ Stays /\ Sent /\ <<Handles(t)>>_vars => Quiet(t)' \/ Refused' \/ Away(t)'
        /\ Stays /\ Back /\ <<Handles(t)>>_vars => Quiet(t)' \/ Away(t)'
        /\ Stays /\ Refused /\ <<Handles(t)>>_vars => Away(t)'
    BY DataProgress
  <1>7. IInv => /\ Off(t) => AtLogin(t) \/ Stranded(t)
                /\ Away(t) => Off(t) \/ Going(t)
                /\ Away(t) \/ Returning(t) \/ Loading(t) \/ OnPage(t)
                /\ OnPage(t) => Quiet(t) \/ Sent \/ Back \/ Refused
                /\ Stranded(t) \/ Returning(t) \/ Loading(t) => CanGuard
                /\ Going(t) => CanGo
                /\ ~Free(t) => CanGo
                /\ Quiet(t) => CanPoll
                /\ Doomed(t) \/ Sent \/ Back \/ Refused => CanHandle
                /\ AtLogin(t) => path[t] = "login"
    BY Places
  <1>8. Over <=> ~(stored.token \in live)
    BY DEF Over
  <1>9. Runs(t) <=> /\ []([]CanGuard => <><<Guard(t)>>_vars)
                    /\ []([]CanGo => <><<Navigate(t)>>_vars)
                    /\ []([]CanHandle => <><<Handles(t)>>_vars)
    BY DEF Runs
  <1>10. InView(t) <=> []<>~CanPoll \/ []<><<Poll(t)>>_vars
    BY DEF InView
  <1>11. Spec => []IInv /\ [][Next]_vars
    BY Invariance, PTL DEF Spec
  <1> HIDE DEF Sent, Back, Refused, CanGuard, CanGo, CanPoll, CanHandle
  <1> QED
    BY <1>1, <1>2, <1>3, <1>4, <1>5, <1>6, <1>7, <1>8, <1>9, <1>10, <1>11, PTL

\* A session that is over is over in every tab that is kept in view, whatever the tabs have done
\* before: once the user loads no page, no call fails and no sign-in succeeds any more, the tab
\* ends up at the login page and stays there, by its guard, its polls and their 401s
\* (providers.tsx:35-43, api-client.ts:16-20).  A tab that is not in view is not claimed to.
THEOREM SignsOutWhenCalm ==
  Spec /\ (\A t \in Tabs : Runs(t)) /\ <>[][Calm]_vars => SignedOutInView
  <1>1. ASSUME NEW t \in Tabs
        PROVE  Spec /\ Runs(t) /\ InView(t) /\ <>[][Calm]_vars =>
                 <>[](path[t] = "login" \/ stored.token \in live)
    BY TabSignsOut
  <1> QED
    BY <1>1 DEF SignedOutInView
==============================================================================
