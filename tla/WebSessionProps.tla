--------------------------- MODULE WebSessionProps ---------------------------
(* What holds of a browser that is signed in to the dashboard, or was. *)
EXTENDS WebSession

\* A token is kept together with the user it was given to, in localStorage and in
\* every tab, however the sign-ins and sign-outs of several tabs interleave; and a tab
\* calls the API as the user it shows, unless another tab has signed in or out since
\* it was loaded: then it may act as somebody else, since the token is read from
\* localStorage for each call and the user is not (auth.ts:11-22, api-client.ts:6).  After
\* a 401 it may call as nobody while it shows a user, but only until the login page that
\* it asked for is there, and never as somebody else (api-client.ts:17-20).
ActsAsShown ==
  /\ []\A a \in {stored} \cup {memory[t] : t \in Tabs} :
        \/ a = NoAuth
        \/ a.token # None /\ owner[a.token] = a.user
  /\ [][\A c \in calls' \ calls :
          c.kind = "data" /\ c.at = "sent" /\ ~foreign[c.tab] =>
            IF c.token = None THEN memory[c.tab].user = None \/ leaving[c.tab]
            ELSE memory[c.tab].user = owner[c.token]]_vars

\* An open session is forgotten by the browser only if a tab signs out, or for a 401 to a
\* call that was made with another token or with none, before it was stored
\* (api-client.ts:16-20 does not compare), or for one that says no more than that Postgres
\* could not be asked for the session (postgres.go:254-262, middleware.go:60-66): whatever
\* else becomes of the calls it authorizes does not end it.
OnlyLate401s ==
  [][stored.token \in live /\ stored' = NoAuth =>
       \E c \in calls \ calls' :
         \/ c.kind = "logout"
         \/ c.kind = "data" /\ c.at = "401" /\ c.token # stored.token
         \/ c.kind = "data" /\ c.at = "unread"]_vars

\* A tab that is in view polls: whenever it can, or can not over and over.
InView(t) ==
  \/ []<>~(path[t] = "page" /\ ready[t] /\ ~InFlight(t, "data"))
  \/ []<><<Poll(t)>>_vars

\* When its session is over -- expired, or ended in any of the tabs -- a tab that is in
\* view ends up at the login page and stays there, until there is a session again: the
\* guard and the 401s do not send it to and fro (providers.tsx:35-43,
\* api-client.ts:16-20).  One that is not in view stays where it is, until it is.
SignedOutInView ==
  \A t \in Tabs : InView(t) => <>[](path[t] = "login" \/ stored.token \in live)
=============================================================================
