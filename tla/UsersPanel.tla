----------------------------- MODULE UsersPanel -----------------------------
(***************************************************************************)
(* User management in the dashboard: UsersPanel of app/settings/page.tsx,  *)
(* in one tab, with the calls it makes and other admins at work.           *)
(*                                                                         *)
(* The panel keeps one edit form for whichever row is being edited, one    *)
(* create form and one confirmation, none of them modal, and a mutation    *)
(* each.  All of that goes when another settings tab is opened, but not    *)
(* the calls on their way or the list in the query cache.  Its own user,   *)
(* with the role of its sign-in, does not change.                          *)
(*                                                                         *)
(* A password is the user it was typed for.                                *)
(***************************************************************************)
EXTENDS Naturals, FiniteSets

CONSTANTS
  Users,        \* names of users
  Me,           \* the user that is signed in
  InitAccounts, \* the accounts there may be
  MaxCalls,     \* bound: changes asked for
  MaxTouches,   \* bound: forms and confirmations opened, new users typed
  MaxTrouble,   \* bound: changes by other admins, and calls that fail
  None          \* no account, no list, no user, no password

Roles == {"admin", "editor", "viewer"}
Accounts == [Users -> Roles \cup {None}]

ASSUME UsersPanelConstants ==
  /\ Me \in Users /\ None \notin Users \cup Roles \cup Accounts
  /\ InitAccounts \subseteq {a \in Accounts : a[Me] # None}
  /\ {MaxCalls, MaxTouches, MaxTrouble} \subseteq Nat

VARIABLES
  accounts,  \* the accounts as the server has them, by their roles
  role,      \* the role of Me's sign-in
  shown,     \* the tab with the panel is open
  before,    \* the last call of the panels that were shown before this one
  users,     \* the list in the query cache, or None
  fetch,     \* the request for the list
  create,    \* the create form
  edit,      \* the edit form
  deleting,  \* the user the confirmation is about, or None
  attached,  \* the call each mutation shows the state of, or 0
  calls,     \* changes on their way, and answers
  sent,      \* changes asked for so far
  opened,    \* forms and confirmations opened, and new users typed, so far
  trouble    \* failures and changes by others so far

query == <<users, fetch>>
panel == <<shown, before>>
forms == <<create, edit, deleting>>
vars == <<accounts, role, panel, query, forms, attached, calls, sent, opened, trouble>>

Kinds == {"create", "update", "delete"}

CreateForm == [shown : BOOLEAN, name : Users \cup {None}, password : Users \cup {None},
               role : Roles]
NewForm == [shown |-> FALSE, name |-> None, password |-> None, role |-> "viewer"]

\* chosen: the user has selected a role in this form (history).
EditForm == [user : Users \cup {None}, password : Users \cup {None},
             role : Roles \cup {None}, original : Roles \cup {None}, chosen : BOOLEAN]
NoEdit == [user |-> None, password |-> None, role |-> None, original |-> None, chosen |-> FALSE]

\* role, password: what the body has, or None.
Call == [id : 1..MaxCalls, kind : Kinds, name : Users, role : Roles \cup {None},
         password : Users \cup {None}, chosen : BOOLEAN,
         at : {"sent", "ok", "error", "forbidden"}]

TypeOK ==
  /\ accounts \in Accounts /\ role \in Roles
  /\ shown \in BOOLEAN /\ before \in 0..MaxCalls /\ before <= sent
  /\ users \in Accounts \cup {None}
  /\ fetch \in [at : {"idle", "asked", "answered"}, list : Accounts \cup {None}]
  /\ create \in CreateForm /\ edit \in EditForm
  /\ deleting \in Users \cup {None}
  /\ attached \in [Kinds -> 0..MaxCalls]
  /\ calls \subseteq Call
  /\ sent \in 0..MaxCalls /\ opened \in 0..MaxTouches /\ trouble \in 0..MaxTrouble
  /\ \A c \in calls : c.id <= sent
  /\ \A c, d \in calls : c.id = d.id => c = d
  /\ edit.user # None => edit.original # None /\ edit.role # None

isAdmin == role = "admin"

\* The rows.
Listed == IF users = None THEN {} ELSE {u \in Users : users[u] # None}

\* isPending of a mutation.
Pending(kind) == \E c \in calls : c.kind = kind /\ c.id = attached[kind]

\* A change by another admin or a failure, once more.
Trouble == trouble < MaxTrouble /\ trouble' = trouble + 1

Open == opened < MaxTouches /\ opened' = opened + 1

\* The panel that is shown has made this call.
Mine(c) == c.id > before

-----------------------------------------------------------------------------
(* The list *)

Idle == [at |-> "idle", list |-> None]
Asked == [Idle EXCEPT !.at = "asked"]

\* Only for a panel that is shown.
Fetch ==
  /\ shown /\ fetch.at = "idle"
  /\ fetch' = Asked
  /\ UNCHANGED <<accounts, role, panel, users, forms, attached, calls, sent, opened, trouble>>

ServeList ==
  /\ fetch.at = "asked"
  /\ fetch' = [at |-> "answered", list |-> accounts]
  /\ UNCHANGED <<accounts, role, panel, users, forms, attached, calls, sent, opened, trouble>>

Arrive ==
  /\ fetch.at = "answered"
  /\ users' = fetch.list
  /\ fetch' = Idle
  /\ UNCHANGED <<accounts, role, panel, forms, attached, calls, sent, opened, trouble>>

\* The cache drops a list that nobody has shown for five minutes.
Forget ==
  /\ ~shown /\ fetch.at = "idle" /\ users # None
  /\ users' = None
  /\ UNCHANGED <<accounts, role, panel, fetch, forms, attached, calls, sent, opened, trouble>>

-----------------------------------------------------------------------------
(* The tabs of the settings page *)

Detached == [k \in Kinds |-> 0]

OpenTab ==
  /\ ~shown
  /\ shown' = TRUE
  /\ UNCHANGED <<accounts, role, before, query, forms, attached, calls, sent, opened, trouble>>

\* The panel is unmounted: the next one starts anew.  The calls go on.
LeaveTab ==
  /\ shown
  /\ Open
  /\ shown' = FALSE /\ before' = sent
  /\ create' = NewForm /\ edit' = NoEdit /\ deleting' = None /\ attached' = Detached
  /\ UNCHANGED <<accounts, role, query, calls, sent, trouble>>

-----------------------------------------------------------------------------
(* The forms *)

Mutate(kind, name, r, password, chosen) ==
  /\ sent < MaxCalls
  /\ sent' = sent + 1
  /\ attached' = [attached EXCEPT ![kind] = sent']
  /\ calls' = calls \cup {[id |-> sent', kind |-> kind, name |-> name, role |-> r,
                           password |-> password, chosen |-> chosen, at |-> "sent"]}
  /\ UNCHANGED <<accounts, role, panel, query, opened, trouble>>

\* The button shows or hides the form, keeps what is typed, and resets the mutation,
\* which is then no longer pending although its call goes on.
ToggleCreate ==
  /\ shown /\ isAdmin
  /\ Open
  /\ create' = [create EXCEPT !.shown = ~@]
  /\ attached' = [attached EXCEPT !["create"] = 0]
  /\ UNCHANGED <<accounts, role, panel, query, edit, deleting, calls, sent, trouble>>

TypeCreate(u, r) ==
  /\ create.shown
  /\ Open
  /\ create' = [create EXCEPT !.name = u, !.role = r]
  /\ UNCHANGED <<accounts, role, panel, query, edit, deleting, attached, calls, sent, trouble>>

\* For the user named by now; one typed first is for the user named then.
TypeCreatePassword ==
  /\ create.shown /\ create.name # None
  /\ create' = [create EXCEPT !.password = create.name]
  /\ UNCHANGED <<accounts, role, panel, query, edit, deleting, attached, calls, sent, opened, trouble>>

\* Both are required, and stay when the name is changed.
HandleCreate ==
  /\ create.shown /\ create.name # None /\ create.password # None
  /\ ~Pending("create")
  /\ Mutate("create", create.name, create.role, create.password, FALSE)
  /\ UNCHANGED forms

\* Defect: what was typed before stays.
StartEditing_KeepsPassword(u) ==
  [edit EXCEPT !.user = u, !.role = users[u], !.original = users[u], !.chosen = FALSE]

StartEditing(u) ==
  [user |-> u, password |-> None, role |-> users[u], original |-> users[u], chosen |-> FALSE]

\* The pencil: for an admin in every row, else in the own.
EditRow(u) ==
  /\ shown
  /\ u \in Listed /\ (isAdmin \/ u = Me)
  /\ Open
  /\ edit' = IF edit.user = u THEN [edit EXCEPT !.user = None] ELSE StartEditing(u)
  /\ UNCHANGED <<accounts, role, panel, query, create, deleting, attached, calls, sent, trouble>>

\* The form is below the row of its user, if there is one.
Editing == edit.user # None /\ edit.user \in Listed

TypePassword ==
  /\ Editing
  /\ edit' = [edit EXCEPT !.password = edit.user]
  /\ UNCHANGED <<accounts, role, panel, query, create, deleting, attached, calls, sent, opened, trouble>>

ErasePassword ==
  /\ Editing
  /\ edit' = [edit EXCEPT !.password = None]
  /\ UNCHANGED <<accounts, role, panel, query, create, deleting, attached, calls, sent, opened, trouble>>

SelectRole(r) ==
  /\ Editing /\ isAdmin /\ r # edit.role
  /\ edit' = [edit EXCEPT !.role = r, !.chosen = TRUE]
  /\ UNCHANGED <<accounts, role, panel, query, create, deleting, attached, calls, sent, opened, trouble>>

CancelEdit ==
  /\ Editing
  /\ edit' = [edit EXCEPT !.user = None]
  /\ UNCHANGED <<accounts, role, panel, query, create, deleting, attached, calls, sent, opened, trouble>>

\* Defect: the role is compared with the list as it is now.
RoleSent_Listed == IF edit.role = users[edit.user] THEN None ELSE edit.role

\* The role is sent if it is another than the list had when the form was opened.
RoleSent == IF edit.role = edit.original THEN None ELSE edit.role

\* Nothing is sent where nothing was entered.
HandleUpdate ==
  /\ Editing /\ ~Pending("update")
  /\ edit.password # None \/ RoleSent # None
  /\ Mutate("update", edit.user, RoleSent, edit.password, edit.chosen)
  /\ UNCHANGED forms

\* Defect: the own row has one, too.
Deletable_All == IF isAdmin THEN Listed ELSE {}

Deletable == IF isAdmin THEN Listed \ {Me} ELSE {}

AskDelete(u) ==
  /\ shown /\ u \in Deletable
  /\ Open
  /\ deleting' = u
  /\ UNCHANGED <<accounts, role, panel, query, create, edit, attached, calls, sent, trouble>>

CancelDelete ==
  /\ deleting # None
  /\ deleting' = None
  /\ attached' = [attached EXCEPT !["delete"] = 0]
  /\ UNCHANGED <<accounts, role, panel, query, create, edit, calls, sent, opened, trouble>>

ConfirmDelete ==
  /\ deleting # None /\ ~Pending("delete")
  /\ Mutate("delete", deleting, None, None, FALSE)
  /\ UNCHANGED forms

-----------------------------------------------------------------------------
(* The server, and its answers *)

Permitted(c) ==
  /\ isAdmin \/ (c.kind = "update" /\ c.name = Me /\ c.role = None)
  /\ c.kind = "delete" => c.name # Me

Accepted(c) == IF c.kind = "create" THEN accounts[c.name] = None ELSE accounts[c.name] # None

\* The role becomes that of the call, None of a deleted account; an update may have none.
Effect(c) ==
  accounts' = [accounts EXCEPT ![c.name] =
                 IF c.kind = "update" /\ c.role = None THEN @ ELSE c.role]

Answered(c, result) ==
  /\ calls' = (calls \ {c}) \cup {[c EXCEPT !.at = result]}
  /\ UNCHANGED <<role, panel, query, forms, attached, sent, opened>>

\* The answer may be lost; of an update the password may fail after the role.
Serve(c) ==
  /\ c.at = "sent" /\ Permitted(c) /\ Accepted(c)
  /\ Effect(c)
  /\ \/ Answered(c, "ok") /\ UNCHANGED trouble
     \/ Trouble /\ Answered(c, "error")

Refuse(c) ==
  /\ c.at = "sent"
  /\ \/ ~Permitted(c) /\ Answered(c, "forbidden") /\ UNCHANGED trouble
     \/ Permitted(c) /\ ~Accepted(c) /\ Answered(c, "error") /\ UNCHANGED trouble
     \/ Trouble /\ Answered(c, "error")
  /\ UNCHANGED accounts

\* onSuccess of an update, whichever user is being edited by now.
Saved == [edit EXCEPT !.user = None, !.password = None, !.role = None]

\* invalidateQueries drops a list that is on its way and asks again, but leaves the
\* first one alone, which may be from before the change, and one that nobody shows.
Refetched == IF ~shown \/ (users = None /\ fetch.at # "idle") THEN fetch ELSE Asked

\* onSuccess.  The forms of a panel that is gone are no others'.
Succeed(c) ==
  /\ c.at = "ok"
  /\ calls' = calls \ {c}
  /\ fetch' = Refetched
  /\ create' = IF Mine(c) /\ c.kind = "create" THEN NewForm ELSE create
  /\ edit' = IF Mine(c) /\ c.kind = "update" THEN Saved ELSE edit
  /\ deleting' = IF Mine(c) /\ c.kind = "delete" THEN None ELSE deleting
  /\ UNCHANGED <<accounts, role, panel, users, attached, sent, opened, trouble>>

\* The error is shown in the form, whomever that is for by now.
Fail(c) ==
  /\ c.at \in {"error", "forbidden"}
  /\ calls' = calls \ {c}
  /\ UNCHANGED <<accounts, role, panel, query, forms, attached, sent, opened, trouble>>

\* Another admin.
OutsideChange(u) ==
  /\ u # Me
  /\ Trouble
  /\ \E r \in (Roles \cup {None}) \ {accounts[u]} : accounts' = [accounts EXCEPT ![u] = r]
  /\ UNCHANGED <<role, panel, query, forms, attached, calls, sent, opened>>

-----------------------------------------------------------------------------
Init ==
  /\ accounts \in InitAccounts /\ role = accounts[Me]
  /\ shown = FALSE /\ before = 0
  /\ users = None /\ fetch = Idle
  /\ create = NewForm /\ edit = NoEdit /\ deleting = None /\ attached = Detached
  /\ calls = {} /\ sent = 0 /\ opened = 0 /\ trouble = 0

Next ==
  \/ Fetch \/ ServeList \/ Arrive \/ Forget
  \/ OpenTab \/ LeaveTab
  \/ ToggleCreate \/ TypeCreatePassword \/ HandleCreate
  \/ \E u \in Users, r \in Roles : TypeCreate(u, r)
  \/ \E u \in Users : EditRow(u) \/ AskDelete(u) \/ OutsideChange(u)
  \/ TypePassword \/ ErasePassword \/ CancelEdit \/ HandleUpdate
  \/ \E r \in Roles : SelectRole(r)
  \/ CancelDelete \/ ConfirmDelete
  \/ \E c \in calls : Serve(c) \/ Refuse(c) \/ Succeed(c) \/ Fail(c)

Spec == Init /\ [][Next]_vars
=============================================================================
