----------------------------- MODULE WebSession -----------------------------
(***************************************************************************)
(* Signing in and out of the dashboard, in several tabs of one browser:    *)
(* lib/auth.ts, the request function of lib/api-client.ts, the AuthGuard   *)
(* of app/providers.tsx, app/login/page.tsx and handleLogout of            *)
(* components/layout/Sidebar.tsx.                                          *)
(*                                                                         *)
(* The token and its user are kept twice: in localStorage, which all tabs  *)
(* share and from which each request takes the token, and in the memory of *)
(* each tab, which is read from localStorage when a page is loaded and     *)
(* decides what is shown and which token a logout ends.                    *)
(*                                                                         *)
(* A 401 empties localStorage at once, but only asks for the login page to *)
(* be loaded: until it is, the tab goes on with what it has in memory.     *)
(*                                                                         *)
(* Tokens are numbered in the order the server gives them out.  Of the     *)
(* pages there are two, the login page and any other.                      *)
(***************************************************************************)
EXTENDS Naturals, FiniteSets

CONSTANTS
  Tabs,       \* the browser's tabs
  Users,      \* who may sign in
  MaxLogins,  \* bound: sessions opened
  MaxTrouble, \* bound: loads by the user, and calls that fail
  None        \* no token, no user

ASSUME WebSessionConstants ==
  /\ {MaxLogins, MaxTrouble} \subseteq Nat
  /\ None \notin Users /\ None \notin 1..MaxLogins

Tokens == 1..MaxLogins

\* setAuth stores both halves, logout and a 401 remove both.
Auth == [token : Tokens \cup {None}, user : Users \cup {None}]
NoAuth == [token |-> None, user |-> None]

VARIABLES
  owner,    \* the user each token was given to
  live,     \* the tokens of sessions that are open
  stored,   \* localStorage
  memory,   \* each tab's useAuth state
  path,     \* the page each tab is at
  ready,    \* AuthGuard has let the tab render; it never takes that back
  leaving,  \* a 401 has asked for a load of the login page, which is not there yet
  calls,    \* calls of the tabs, on their way to the server or back
  foreign,  \* other tabs have signed in or out since this one was loaded (history)
  trouble   \* loads by the user and failures so far

server == <<owner, live>>
tab == <<memory, path, ready, leaving, foreign>>
vars == <<server, stored, tab, calls, trouble>>

\* token: what the call carries, or what a login has got; user: who signs in.  "unread" is
\* a 401 as well: the middleware answers it when the session could not be looked up.
Call == [tab : Tabs, kind : {"login", "logout", "data"}, token : Tokens \cup {None},
         user : Users \cup {None}, at : {"sent", "ok", "401", "unread", "error"}]

TypeOK ==
  /\ owner \in [Tokens -> Users \cup {None}]
  /\ live \subseteq {n \in Tokens : owner[n] # None}
  /\ stored \in Auth /\ memory \in [Tabs -> Auth]
  /\ path \in [Tabs -> {"login", "page"}] /\ ready \in [Tabs -> BOOLEAN]
  /\ calls \subseteq Call
  /\ leaving \in [Tabs -> BOOLEAN] /\ foreign \in [Tabs -> BOOLEAN]
  /\ trouble \in 0..MaxTrouble
  /\ \A c, d \in calls : c.tab = d.tab /\ c.kind = d.kind => c = d

InFlight(t, kind) == \E c \in calls : c.tab = t /\ c.kind = kind

\* The tabs whose memory another tab's sign-in or sign-out leaves behind.
Overtaken(t) == [u \in Tabs |-> foreign[u] \/ u # t]

-----------------------------------------------------------------------------
(* Loading a page, and the guard *)

\* A load by the user, or a failure, once more.
Trouble == trouble < MaxTrouble /\ trouble' = trouble + 1

\* A full load: what the tab had in memory and under way is gone.
Reload(t, p) ==
  /\ memory' = [memory EXCEPT ![t] = stored]
  /\ path' = [path EXCEPT ![t] = p]
  /\ ready' = [ready EXCEPT ![t] = FALSE]
  /\ leaving' = [leaving EXCEPT ![t] = FALSE]
  /\ foreign' = [foreign EXCEPT ![t] = FALSE]
  /\ calls' = {c \in calls : c.tab # t}
  /\ UNCHANGED <<server, stored>>

\* By the user, instead of one that is under way.
Load(t, p) == Trouble /\ Reload(t, p)

\* The load a 401 has asked for.
Navigate(t) ==
  /\ leaving[t]
  /\ Reload(t, "login")
  /\ UNCHANGED trouble

\* The effect of AuthGuard.
Guard(t) ==
  LET signedIn == memory[t].token # None IN
  /\ \/ ~signedIn /\ path[t] = "page"
        /\ path' = [path EXCEPT ![t] = "login"] /\ UNCHANGED ready
     \/ signedIn /\ path[t] = "login"
        /\ path' = [path EXCEPT ![t] = "page"] /\ UNCHANGED ready
     \/ (signedIn <=> path[t] = "page")
        /\ ~ready[t]
        /\ ready' = [ready EXCEPT ![t] = TRUE] /\ UNCHANGED path
  /\ UNCHANGED <<server, stored, memory, leaving, foreign, calls, trouble>>

-----------------------------------------------------------------------------
(* What a tab asks for *)

\* One login at a time (loading); of the sign-outs and the other calls that may be
\* under way in one tab, one of each is looked at.
Asks(t, kind, token, user) ==
  /\ ready[t] /\ ~InFlight(t, kind)
  /\ calls' = calls \cup {[tab |-> t, kind |-> kind, token |-> token, user |-> user,
                           at |-> "sent"]}
  /\ UNCHANGED <<server, stored, tab, trouble>>

\* The token of a request is read when it is made.
CallToken(t) == stored.token

\* Any query or change of a page, or a query that is tried again; each page has a query
\* that is polled while the tab is in view.
Poll(t) ==
  /\ path[t] = "page"
  /\ Asks(t, "data", CallToken(t), None)

SubmitLogin(t, u) ==
  /\ path[t] = "login"
  /\ Cardinality({n \in Tokens : owner[n] # None}) < MaxLogins
  /\ Asks(t, "login", None, u)

Logout(t) ==
  /\ path[t] = "page" /\ memory[t].token # None
  /\ Asks(t, "logout", memory[t].token, None)

-----------------------------------------------------------------------------
(* The server *)

Answered(c, answer) ==
  /\ calls' = (calls \ {c}) \cup {answer}
  /\ UNCHANGED <<stored, tab>>

\* What is answered is put on the page, and no more.
Displayed(c) ==
  /\ calls' = calls \ {c}
  /\ UNCHANGED <<stored, tab>>

ServeData(c) ==
  /\ c.kind = "data" /\ c.at = "sent"
  /\ IF c.token \in live THEN Displayed(c) ELSE Answered(c, [c EXCEPT !.at = "401"])
  /\ UNCHANGED <<server, trouble>>

ServeLogin(c) ==
  /\ c.kind = "login" /\ c.at = "sent"
  /\ \E n \in Tokens :
       /\ owner[n] = None /\ \A k \in 1..n - 1 : owner[k] # None
       /\ owner' = [owner EXCEPT ![n] = c.user]
       /\ live' = live \cup {n}
       /\ Answered(c, [c EXCEPT !.at = "ok", !.token = n])
  /\ UNCHANGED trouble

ServeLogout(c) ==
  /\ c.kind = "logout" /\ c.at = "sent"
  /\ live' = live \ {c.token}
  /\ Answered(c, [c EXCEPT !.at = "ok"])
  /\ UNCHANGED <<owner, trouble>>

\* No answer, a wrong password, a role that is not enough, or an error; and of a session
\* that Postgres could not be asked for, that it is not there.
Fails(c) ==
  /\ c.at = "sent" /\ Trouble
  /\ \/ c.kind = "login" /\ Displayed(c)
     \/ c.kind # "login" /\ Answered(c, [c EXCEPT !.at = "error"])
     \/ c.kind = "data" /\ c.token # None /\ Answered(c, [c EXCEPT !.at = "unread"])
  /\ UNCHANGED server

\* The session expires, or a server with the memory store is started again.
Expire(n) ==
  /\ n \in live
  /\ live' = live \ {n}
  /\ UNCHANGED <<owner, stored, tab, calls, trouble>>

-----------------------------------------------------------------------------
(* What the tab does with the answer *)

\* setAuth.
Saved(c) == [token |-> c.token, user |-> c.user]

\* Defect: the token stays.
Cleared_Not == stored

Cleared == NoAuth

\* Defect: any failure signs out.
SignsOut_Failures(c) == c.at \in {"401", "unread", "error"}

SignsOut(c) == c.at \in {"401", "unread"}

SignedIn(c) ==
  /\ c.kind = "login" /\ c.at = "ok"
  /\ stored' = Saved(c)
  /\ memory' = [memory EXCEPT ![c.tab] = [token |-> c.token, user |-> c.user]]
  /\ foreign' = [Overtaken(c.tab) EXCEPT ![c.tab] = FALSE]
  /\ calls' = calls \ {c}
  /\ UNCHANGED <<server, path, ready, leaving, trouble>>

\* Defect: localStorage is left as it is.
SignedOut_MemoryOnly(c) ==
  /\ c.kind = "logout" /\ c.at \in {"ok", "error"}
  /\ memory' = [memory EXCEPT ![c.tab] = NoAuth]
  /\ calls' = calls \ {c}
  /\ UNCHANGED <<server, stored, foreign, path, ready, leaving, trouble>>

\* Whatever the server answered; what is in localStorage may be another's by now.
SignedOut(c) ==
  /\ c.kind = "logout" /\ c.at \in {"ok", "error"}
  /\ stored' = NoAuth
  /\ memory' = [memory EXCEPT ![c.tab] = NoAuth]
  /\ foreign' = Overtaken(c.tab)
  /\ calls' = calls \ {c}
  /\ UNCHANGED <<server, path, ready, leaving, trouble>>

\* A 401 is not asked which token it is for.  The tab forgets nothing of its own: it asks
\* for the login page and goes on.
Unauthorized(c) ==
  /\ c.kind = "data" /\ SignsOut(c)
  /\ stored' = Cleared
  /\ leaving' = [leaving EXCEPT ![c.tab] = TRUE]
  /\ foreign' = Overtaken(c.tab)
  /\ calls' = calls \ {c}
  /\ UNCHANGED <<server, memory, path, ready, trouble>>

\* An error of another kind is shown.
Shown(c) ==
  /\ c.kind = "data" /\ c.at # "sent" /\ ~SignsOut(c)
  /\ Displayed(c)
  /\ UNCHANGED <<server, trouble>>

-----------------------------------------------------------------------------
Init ==
  /\ owner = [n \in Tokens |-> None] /\ live = {}
  /\ stored = NoAuth /\ memory = [t \in Tabs |-> NoAuth]
  /\ path \in [Tabs -> {"login", "page"}] /\ ready = [t \in Tabs |-> FALSE]
  /\ leaving = [t \in Tabs |-> FALSE]
  /\ calls = {} /\ foreign = [t \in Tabs |-> FALSE]
  /\ trouble = 0

Answers(c) == SignedIn(c) \/ SignedOut(c) \/ Unauthorized(c) \/ Shown(c)
Serves(c) == ServeData(c) \/ ServeLogin(c) \/ ServeLogout(c)

Next ==
  \/ \E t \in Tabs, p \in {"login", "page"} : Load(t, p)
  \/ \E t \in Tabs : Guard(t) \/ Navigate(t) \/ Poll(t) \/ Logout(t)
  \/ \E t \in Tabs, u \in Users : SubmitLogin(t, u)
  \/ \E c \in calls : Serves(c) \/ Answers(c) \/ Fails(c)
  \/ \E n \in Tokens : Expire(n)

Spec == Init /\ [][Next]_vars

\* React runs the effects, a load that was asked for gets through, and the calls of pages
\* are answered and their answers handled.  Nothing is asked of sign-ins and sign-outs, and
\* nothing of polls: in a tab that is not in view the interval is paused.
Running ==
  \A t \in Tabs :
    /\ WF_vars(Guard(t)) /\ WF_vars(Navigate(t))
    /\ WF_vars(\E c \in calls : c.tab = t /\ (ServeData(c) \/ Unauthorized(c) \/ Shown(c)))

FairSpec == Spec /\ Running
=============================================================================
