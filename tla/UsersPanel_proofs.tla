-------------------------- MODULE UsersPanel_proofs --------------------------
(***************************************************************************)
(* Proofs about UsersPanel: for any users, accounts and numbers of calls.  *)
(***************************************************************************)
EXTENDS UsersPanelProps, TLAPS

\* The fields of the edit form belong to the user it is open for.
FormIsOfUser ==
  edit.user # None =>
    /\ edit.password \in {None, edit.user}
    /\ edit.role # edit.original => edit.chosen

\* What is open or asked about is what the user may open or ask about.
FormsArePermitted ==
  /\ create.shown => isAdmin
  /\ deleting # None => isAdmin /\ deleting # Me
  /\ edit.user # None /\ ~isAdmin => edit.user = Me /\ edit.role = edit.original

\* What is on its way was permitted, entered for its user, and chosen.
CallIsSound(c) ==
  /\ Permitted(c) /\ c.at # "forbidden"
  /\ c.kind = "update" => c.password \in {None, c.name}
  /\ c.kind = "update" /\ c.role # None => c.chosen
  /\ c.kind = "update" /\ Mine(c) => attached["update"] = c.id

CallsAreSound == \A c \in calls : CallIsSound(c)

\* The inductive invariant.
IInv == TypeOK /\ FormIsOfUser /\ FormsArePermitted /\ CallsAreSound

\* None is no user, no role and no list of accounts.
LEMMA NoneIsNothing == None \notin Users /\ None \notin Roles /\ None \notin Accounts
  BY UsersPanelConstants

-----------------------------------------------------------------------------
(* Sending *)

\* A change that is asked for keeps the calls well typed, and is the only one with
\* its number.
LEMMA MutateTyped ==
  ASSUME TypeOK, NEW kind \in Kinds, NEW name \in Users, NEW r \in Roles \cup {None},
         NEW p \in Users \cup {None}, NEW chosen \in BOOLEAN,
         Mutate(kind, name, r, p, chosen), UNCHANGED forms
  PROVE  TypeOK'
  <1> DEFINE new == [id |-> sent', kind |-> kind, name |-> name, role |-> r,
                     password |-> p, chosen |-> chosen, at |-> "sent"]
  <1>1. sent' = sent + 1 /\ sent' \in 1..MaxCalls
    BY UsersPanelConstants DEF Mutate, TypeOK
  <1>2. new \in Call
    BY <1>1 DEF Call, Kinds
  <1>3. calls' = calls \cup {new}
    BY DEF Mutate
  <1>4. calls' \subseteq Call
    BY <1>2, <1>3 DEF TypeOK
  <1>5. \A c \in calls' : c.id <= sent'
    BY <1>1, <1>3 DEF TypeOK, Call
  <1>6. \A c, d \in calls' : c.id = d.id => c = d
    BY <1>1, <1>3 DEF TypeOK, Call
  <1>7. attached' \in [Kinds -> 0..MaxCalls]
    BY <1>1 DEF Mutate, TypeOK
  <1>8. UNCHANGED <<accounts, role, shown, before, query, forms, opened, trouble>>
    BY DEF Mutate, panel
  <1>9. /\ accounts' \in Accounts /\ role' \in Roles /\ users' \in Accounts \cup {None}
        /\ fetch' \in [at : {"idle", "asked", "answered"}, list : Accounts \cup {None}]
    BY <1>8 DEF TypeOK, query, panel
  <1>10. /\ create' \in CreateForm /\ edit' \in EditForm /\ deleting' \in Users \cup {None}
         /\ edit'.user # None => edit'.original # None /\ edit'.role # None
         /\ opened' \in 0..MaxTouches /\ trouble' \in 0..MaxTrouble
    BY <1>8 DEF TypeOK, forms
  <1>11. sent' \in 0..MaxCalls /\ shown' \in BOOLEAN /\ before' \in 0..MaxCalls /\ before' <= sent'
    BY <1>1, <1>8 DEF TypeOK
  <1> QED
    BY <1>4, <1>5, <1>6, <1>7, <1>9, <1>10, <1>11 DEF TypeOK

\* A sound change keeps them sound: no save is under way when one is sent.
LEMMA MutateSound ==
  ASSUME IInv, NEW kind \in Kinds, NEW name \in Users, NEW r \in Roles \cup {None},
         NEW p \in Users \cup {None}, NEW chosen \in BOOLEAN,
         Mutate(kind, name, r, p, chosen), UNCHANGED forms,
         kind = "update" => ~Pending("update"),
         kind = "update" => p \in {None, name},
         kind = "update" /\ r # None => chosen,
         isAdmin \/ (kind = "update" /\ name = Me /\ r = None),
         kind = "delete" => name # Me
  PROVE  IInv'
  <1> DEFINE new == [id |-> sent', kind |-> kind, name |-> name, role |-> r,
                     password |-> p, chosen |-> chosen, at |-> "sent"]
  <1>1. TypeOK'
    BY MutateTyped DEF IInv
  <1>2. calls' = calls \cup {new} /\ attached' = [attached EXCEPT ![kind] = sent']
    BY DEF Mutate
  <1>3. UNCHANGED <<role, before, create, edit, deleting>>
    BY DEF Mutate, forms, panel
  <1>4. FormIsOfUser' /\ FormsArePermitted'
    BY <1>3 DEF IInv, FormIsOfUser, FormsArePermitted, isAdmin
  <1>5. attached'[kind] = sent' /\ \A k \in Kinds \ {kind} : attached'[k] = attached[k]
    BY <1>2 DEF IInv, TypeOK
  <1>6. ASSUME NEW c \in calls', c = new PROVE CallIsSound(c)'
    <2>1. /\ c.id = sent' /\ c.kind = kind /\ c.name = name /\ c.role = r
          /\ c.password = p /\ c.chosen = chosen /\ c.at = "sent"
      BY <1>6
    <2>2. Permitted(c)'
      BY <2>1, <1>3 DEF Permitted, isAdmin
    <2> QED
      BY <2>1, <2>2, <1>5 DEF CallIsSound
  <1>7. ASSUME NEW c \in calls PROVE CallIsSound(c)'
    <2>1. CallIsSound(c)
      BY DEF IInv, CallsAreSound
    <2>2. Permitted(c)'
      BY <2>1, <1>3 DEF CallIsSound, Permitted, isAdmin
    <2>3. c.kind = "update" /\ Mine(c)' => kind # "update" /\ Mine(c)
      BY <2>1, <1>3 DEF CallIsSound, Pending, Mine
    <2>4. c.kind = "update" /\ Mine(c)' => attached'["update"] = c.id
      BY <2>1, <2>3, <1>5 DEF CallIsSound, Kinds
    <2> QED
      BY <2>1, <2>2, <2>4 DEF CallIsSound
  <1>8. CallsAreSound'
    BY <1>2, <1>6, <1>7 DEF CallsAreSound
  <1> QED
    BY <1>1, <1>4, <1>8 DEF IInv

-----------------------------------------------------------------------------
(* What most actions leave alone *)

\* As long as no form changes, the forms stay sound.
LEMMA FormsStaySound ==
  ASSUME IInv, UNCHANGED <<role, create, edit, deleting>>
  PROVE  FormIsOfUser' /\ FormsArePermitted'
  BY DEF IInv, FormIsOfUser, FormsArePermitted, isAdmin

\* Calls that are left stay sound as long as no other save is sent.
LEMMA CallsStaySound ==
  ASSUME IInv, calls' \subseteq calls, role' = role, before' = before,
         attached'["update"] = attached["update"]
  PROVE  CallsAreSound'
  <1> SUFFICES ASSUME NEW c \in calls' PROVE CallIsSound(c)'
    BY DEF CallsAreSound
  <1>1. CallIsSound(c)
    BY DEF IInv, CallsAreSound
  <1> QED
    BY <1>1 DEF CallIsSound, Permitted, isAdmin, Mine

\* A call that is answered, and not with a 403, stays sound.
LEMMA AnsweredSound ==
  ASSUME IInv, NEW c \in calls, NEW result \in {"ok", "error"}, Answered(c, result)
  PROVE  /\ calls' \subseteq Call
         /\ \A d \in calls' : d.id <= sent'
         /\ \A d, e \in calls' : d.id = e.id => d = e
         /\ FormIsOfUser' /\ FormsArePermitted' /\ CallsAreSound'
  <1>1. c \in Call /\ CallIsSound(c)
    BY DEF IInv, TypeOK, CallsAreSound
  <1>2. PICK b \in Call : b = [c EXCEPT !.at = result]
    <2>1. [c EXCEPT !.at = result] \in Call
      BY <1>1 DEF Call
    <2> QED
      BY <2>1
  <1>3. /\ b.id = c.id /\ b.kind = c.kind /\ b.name = c.name /\ b.role = c.role
        /\ b.password = c.password /\ b.chosen = c.chosen /\ b.at = result
    BY <1>1, <1>2 DEF Call
  <1>4. calls' = (calls \ {c}) \cup {b} /\ UNCHANGED <<role, before, create, edit, deleting, attached, sent>>
    BY <1>2 DEF Answered, forms, panel
  <1>5. calls' \subseteq Call
    BY <1>2, <1>3, <1>4 DEF IInv, TypeOK
  <1>6. \A d \in calls' : d.id <= sent'
    BY <1>2, <1>3, <1>4 DEF IInv, TypeOK
  <1>7. \A d, e \in calls' : d.id = e.id => d = e
    <2>1. \A d, e \in calls : d.id = e.id => d = e
      BY DEF IInv, TypeOK
    <2>2. \A d \in calls : d.id = b.id => d = c
      BY <1>3, <2>1
    <2> QED
      BY <1>4, <2>1, <2>2
  <1>8. ASSUME NEW d \in calls' PROVE CallIsSound(d)'
    <2>1. CASE d \in calls
      <3>1. CallIsSound(d)
        BY <2>1 DEF IInv, CallsAreSound
      <3> QED
        BY <3>1, <1>4 DEF CallIsSound, Permitted, isAdmin, Mine
    <2>2. CASE d = b
      <3>1. /\ d.id = c.id /\ d.kind = c.kind /\ d.name = c.name /\ d.role = c.role
            /\ d.password = c.password /\ d.chosen = c.chosen /\ d.at = result
        BY <1>2, <1>3, <2>2
      <3> QED
        BY <3>1, <1>1, <1>4 DEF CallIsSound, Permitted, isAdmin, Mine
    <2> QED
      BY <1>4, <2>1, <2>2
  <1>9. CallsAreSound'
    BY <1>8 DEF CallsAreSound
  <1> QED
    BY <1>4, <1>5, <1>6, <1>7, <1>9, FormsStaySound

-----------------------------------------------------------------------------
(* One lemma for the actions of each part of the panel *)

\* The list.
LEMMA ListStep ==
  ASSUME IInv, Fetch \/ ServeList \/ Arrive \/ Forget
  PROVE  IInv'
  <1>1. UNCHANGED <<accounts, role, shown, before, create, edit, deleting, attached, calls, sent,
                    opened, trouble>>
    BY DEF Fetch, ServeList, Arrive, Forget, forms, panel
  <1>2. /\ users' \in Accounts \cup {None}
        /\ fetch' \in [at : {"idle", "asked", "answered"}, list : Accounts \cup {None}]
    BY DEF Fetch, ServeList, Arrive, Forget, Idle, Asked, IInv, TypeOK
  <1>3. TypeOK'
    BY <1>1, <1>2 DEF IInv, TypeOK
  <1> QED
    BY <1>1, <1>3, FormsStaySound, CallsStaySound DEF IInv

\* The tabs: what a panel that is gone has sent is not of the next one.
LEMMA TabStep ==
  ASSUME IInv, OpenTab \/ LeaveTab
  PROVE  IInv'
  <1>1. CASE OpenTab
    <2>1. /\ shown' = TRUE
          /\ UNCHANGED <<accounts, role, before, users, fetch, create, edit, deleting, attached, calls,
                         sent, opened, trouble>>
      BY <1>1 DEF OpenTab, query, forms
    <2>2. TypeOK'
      BY <2>1 DEF IInv, TypeOK
    <2> QED
      BY <2>1, <2>2, FormsStaySound, CallsStaySound DEF IInv
  <1>2. CASE LeaveTab
    <2>1. /\ shown' = FALSE /\ before' = sent /\ opened' \in 0..MaxTouches
          /\ create' = NewForm /\ edit' = NoEdit /\ deleting' = None
          /\ attached' = [k \in Kinds |-> 0]
          /\ UNCHANGED <<accounts, role, users, fetch, calls, sent, trouble>>
      BY <1>2, UsersPanelConstants DEF LeaveTab, Detached, Open, IInv, TypeOK, query, panel
    <2>2. create' \in CreateForm /\ edit' \in EditForm /\ edit'.user = None /\ ~create'.shown
      BY <2>1 DEF NewForm, NoEdit, CreateForm, EditForm, Roles
    <2>3. attached' \in [Kinds -> 0..MaxCalls]
      BY <2>1, UsersPanelConstants
    <2>4. shown' \in BOOLEAN /\ before' \in 0..MaxCalls /\ before' <= sent'
      <3>1. before' \in 0..MaxCalls /\ before' <= sent'
        BY <2>1, UsersPanelConstants DEF IInv, TypeOK
      <3>2. shown' \in BOOLEAN
        BY <2>1, Zenon
      <3> QED
        BY <3>1, <3>2
    <2>5. TypeOK'
      BY <2>1, <2>2, <2>3, <2>4 DEF IInv, TypeOK
    <2>6. FormIsOfUser' /\ FormsArePermitted'
      BY <2>1, <2>2 DEF FormIsOfUser, FormsArePermitted
    <2>7. ASSUME NEW c \in calls PROVE CallIsSound(c)'
      <3>1. CallIsSound(c) /\ c.id \in Nat /\ c.id <= sent /\ sent \in Nat
        BY UsersPanelConstants DEF IInv, TypeOK, CallsAreSound, Call
      <3>2. ~Mine(c)'
        BY <2>1, <3>1 DEF Mine
      <3> QED
        BY <2>1, <3>1, <3>2 DEF CallIsSound, Permitted, isAdmin
    <2> QED
      BY <2>1, <2>5, <2>6, <2>7 DEF IInv, CallsAreSound
  <1> QED
    BY <1>1, <1>2

\* The create form.
LEMMA CreateStep ==
  ASSUME IInv,
         \/ ToggleCreate \/ TypeCreatePassword \/ HandleCreate
         \/ \E u \in Users, r \in Roles : TypeCreate(u, r)
  PROVE  IInv'
  <1>1. CASE ToggleCreate
    <2>1. /\ isAdmin /\ create' = [create EXCEPT !.shown = ~@] /\ opened' \in 0..MaxTouches
          /\ attached' = [attached EXCEPT !["create"] = 0]
          /\ UNCHANGED <<accounts, role, shown, before, users, fetch, edit, deleting, calls, sent, trouble>>
      BY <1>1, UsersPanelConstants DEF ToggleCreate, Open, IInv, TypeOK, query, panel
    <2>2. create' \in CreateForm
      BY <2>1 DEF IInv, TypeOK, CreateForm
    <2>3. attached' \in [Kinds -> 0..MaxCalls] /\ attached'["update"] = attached["update"]
      BY <2>1, UsersPanelConstants DEF IInv, TypeOK, Kinds
    <2>4. TypeOK'
      BY <2>1, <2>2, <2>3 DEF IInv, TypeOK
    <2>5. FormIsOfUser' /\ FormsArePermitted'
      BY <2>1 DEF IInv, FormIsOfUser, FormsArePermitted, isAdmin
    <2> QED
      BY <2>1, <2>3, <2>4, <2>5, CallsStaySound DEF IInv
  <1>2. ASSUME NEW u \in Users, NEW r \in Roles, TypeCreate(u, r) PROVE IInv'
    <2>1. /\ create.shown /\ Open /\ create' = [create EXCEPT !.name = u, !.role = r]
          /\ UNCHANGED <<accounts, role, shown, before, users, fetch, edit, deleting, attached, calls, sent, trouble>>
      BY <1>2 DEF TypeCreate, query, panel
    <2>2. create' \in CreateForm /\ create'.shown = create.shown
      BY <2>1 DEF IInv, TypeOK, CreateForm
    <2>3. opened' \in 0..MaxTouches
      BY <2>1, UsersPanelConstants DEF Open, IInv, TypeOK
    <2>4. TypeOK'
      BY <2>1, <2>2, <2>3 DEF IInv, TypeOK
    <2>5. FormIsOfUser' /\ FormsArePermitted'
      BY <2>1, <2>2 DEF IInv, FormIsOfUser, FormsArePermitted, isAdmin
    <2> QED
      BY <2>1, <2>4, <2>5, CallsStaySound DEF IInv
  <1>3. CASE HandleCreate
    <2>1. create.name \in Users /\ create.password \in Users /\ create.role \in Roles /\ isAdmin
      BY <1>3 DEF HandleCreate, IInv, TypeOK, CreateForm, FormsArePermitted
    <2>2. Mutate("create", create.name, create.role, create.password, FALSE) /\ UNCHANGED forms
      BY <1>3 DEF HandleCreate
    <2> QED
      BY <2>1, <2>2, MutateSound DEF Kinds
  <1>4. CASE TypeCreatePassword
    <2>1. /\ create.name \in Users /\ create' = [create EXCEPT !.password = create.name]
          /\ UNCHANGED <<accounts, role, shown, before, users, fetch, edit, deleting, attached, calls,
                         sent, opened, trouble>>
      BY <1>4 DEF TypeCreatePassword, IInv, TypeOK, CreateForm, query, panel
    <2>2. create' \in CreateForm /\ create'.shown = create.shown
      BY <2>1 DEF IInv, TypeOK, CreateForm
    <2>3. TypeOK'
      BY <2>1, <2>2 DEF IInv, TypeOK
    <2>4. FormIsOfUser' /\ FormsArePermitted'
      BY <2>1, <2>2 DEF IInv, FormIsOfUser, FormsArePermitted, isAdmin
    <2> QED
      BY <2>1, <2>3, <2>4, CallsStaySound DEF IInv
  <1> QED
    BY <1>1, <1>2, <1>3, <1>4

\* The edit form, whichever row it is open for.
LEMMA EditStep ==
  ASSUME IInv,
         \/ \E u \in Users : EditRow(u)
         \/ TypePassword \/ ErasePassword \/ CancelEdit
         \/ \E r \in Roles : SelectRole(r)
  PROVE  IInv'
  <1>1. /\ UNCHANGED <<accounts, role, shown, before, users, fetch, create, deleting, attached, calls, sent, trouble>>
        /\ opened' \in 0..MaxTouches
    <2>1. UNCHANGED <<accounts, role, shown, before, users, fetch, create, deleting, attached, calls, sent, trouble>>
      BY DEF EditRow, TypePassword, ErasePassword, CancelEdit, SelectRole, query, panel
    <2>2. Open \/ UNCHANGED opened
      BY DEF EditRow, TypePassword, ErasePassword, CancelEdit, SelectRole
    <2>3. opened' \in 0..MaxTouches
      BY <2>2, UsersPanelConstants DEF Open, IInv, TypeOK
    <2> QED
      BY <2>1, <2>3
  <1>2. /\ edit' \in EditForm
        /\ edit'.user # None =>
             /\ edit'.original # None /\ edit'.role # None
             /\ edit'.password \in {None, edit'.user}
             /\ edit'.role # edit'.original => edit'.chosen
             /\ ~isAdmin => edit'.user = Me /\ edit'.role = edit'.original
    <2>1. ASSUME NEW u \in Users, EditRow(u), edit.user # u PROVE <1>2
      <3>1. users \in Accounts /\ users[u] \in Roles /\ users[u] # None /\ (isAdmin \/ u = Me)
        BY <2>1 DEF EditRow, Listed, IInv, TypeOK, Accounts
      <3>2. edit' = [user |-> u, password |-> None, role |-> users[u], original |-> users[u],
                     chosen |-> FALSE]
        BY <2>1 DEF EditRow, StartEditing
      <3> QED
        BY <3>1, <3>2 DEF EditForm
    <2>2. CASE edit' = [edit EXCEPT !.user = None]
      BY <2>2 DEF IInv, TypeOK, EditForm
    <2>3. CASE TypePassword
      BY <2>3 DEF TypePassword, Editing, IInv, TypeOK, EditForm, FormIsOfUser, FormsArePermitted
    <2>4. CASE ErasePassword
      BY <2>4 DEF ErasePassword, Editing, IInv, TypeOK, EditForm, FormIsOfUser, FormsArePermitted
    <2>5. ASSUME NEW r \in Roles, SelectRole(r) PROVE <1>2
      BY <2>5, NoneIsNothing DEF SelectRole, Editing, IInv, TypeOK, EditForm, FormIsOfUser
    <2> QED
      BY <2>1, <2>2, <2>3, <2>4, <2>5 DEF EditRow, CancelEdit
  <1>3. TypeOK'
    BY <1>1, <1>2 DEF IInv, TypeOK
  <1>4. FormIsOfUser' /\ FormsArePermitted'
    BY <1>1, <1>2 DEF IInv, FormIsOfUser, FormsArePermitted, isAdmin
  <1> QED
    BY <1>1, <1>3, <1>4, CallsStaySound DEF IInv

\* Saving sends what belongs to the user of the form, and no role that was not chosen.
LEMMA SaveStep ==
  ASSUME IInv, HandleUpdate
  PROVE  IInv'
  <1>1. /\ edit.user \in Users /\ edit.password \in Users \cup {None}
        /\ RoleSent \in Roles \cup {None} /\ edit.chosen \in BOOLEAN
    BY DEF HandleUpdate, Editing, RoleSent, IInv, TypeOK, EditForm
  <1>2. /\ edit.password \in {None, edit.user}
        /\ RoleSent # None => edit.chosen
        /\ isAdmin \/ (edit.user = Me /\ RoleSent = None)
    BY DEF HandleUpdate, Editing, RoleSent, IInv, FormIsOfUser, FormsArePermitted
  <1>3. /\ Mutate("update", edit.user, RoleSent, edit.password, edit.chosen)
        /\ ~Pending("update") /\ UNCHANGED forms
    BY DEF HandleUpdate
  <1>4. PICK name \in Users, r \in Roles \cup {None}, p \in Users \cup {None}, chosen \in BOOLEAN :
          name = edit.user /\ r = RoleSent /\ p = edit.password /\ chosen = edit.chosen
    BY <1>1
  <1>5. /\ p \in {None, name} /\ (r # None => chosen) /\ (isAdmin \/ (name = Me /\ r = None))
        /\ Mutate("update", name, r, p, chosen)
    BY <1>2, <1>3, <1>4
  <1> QED
    BY <1>3, <1>5, MutateSound DEF Kinds

\* The confirmation.
LEMMA DeleteStep ==
  ASSUME IInv, CancelDelete \/ ConfirmDelete \/ \E u \in Users : AskDelete(u)
  PROVE  IInv'
  <1>1. CASE CancelDelete
    <2>1. /\ deleting' = None /\ attached' = [attached EXCEPT !["delete"] = 0]
          /\ UNCHANGED <<accounts, role, shown, before, users, fetch, create, edit, calls, sent, opened, trouble>>
      BY <1>1 DEF CancelDelete, query, panel
    <2>2. attached' \in [Kinds -> 0..MaxCalls] /\ attached'["update"] = attached["update"]
      BY <2>1, UsersPanelConstants DEF IInv, TypeOK, Kinds
    <2>3. TypeOK'
      BY <2>1, <2>2 DEF IInv, TypeOK
    <2>4. FormIsOfUser' /\ FormsArePermitted'
      BY <2>1 DEF IInv, FormIsOfUser, FormsArePermitted, isAdmin
    <2> QED
      BY <2>1, <2>2, <2>3, <2>4, CallsStaySound DEF IInv
  <1>2. ASSUME NEW u \in Users, AskDelete(u) PROVE IInv'
    <2>1. /\ deleting' = u /\ opened' \in 0..MaxTouches /\ isAdmin /\ u # Me
          /\ UNCHANGED <<accounts, role, shown, before, users, fetch, create, edit, attached, calls, sent, trouble>>
      BY <1>2, UsersPanelConstants DEF AskDelete, Deletable, Open, IInv, TypeOK, query, panel
    <2>2. TypeOK'
      BY <2>1 DEF IInv, TypeOK
    <2>3. FormIsOfUser' /\ FormsArePermitted'
      BY <2>1 DEF IInv, FormIsOfUser, FormsArePermitted, isAdmin
    <2> QED
      BY <2>1, <2>2, <2>3, CallsStaySound DEF IInv
  <1>3. CASE ConfirmDelete
    <2>1. deleting \in Users /\ isAdmin /\ deleting # Me
      BY <1>3 DEF ConfirmDelete, IInv, TypeOK, FormsArePermitted
    <2>2. Mutate("delete", deleting, None, None, FALSE) /\ UNCHANGED forms
      BY <1>3 DEF ConfirmDelete
    <2> QED
      BY <2>1, <2>2, MutateSound DEF Kinds
  <1> QED
    BY <1>1, <1>2, <1>3

\* The server: what was permitted when it was sent is not refused.
LEMMA ServerStep ==
  ASSUME IInv, NEW c \in calls, Serve(c) \/ Refuse(c)
  PROVE  IInv'
  <1>1. PICK result \in {"ok", "error"} : Answered(c, result)
    BY DEF Serve, Refuse, IInv, CallsAreSound, CallIsSound
  <1>2. /\ UNCHANGED <<role, shown, before, users, fetch, create, edit, deleting, attached, sent, opened>>
        /\ trouble' \in 0..MaxTrouble
    BY <1>1, UsersPanelConstants DEF Answered, Serve, Refuse, Trouble, IInv, TypeOK, query, panel, forms
  <1>3. accounts' \in Accounts
    <2>1. c.role \in Roles \cup {None}
      BY DEF IInv, TypeOK, Call
    <2> QED
      BY <2>1 DEF Serve, Refuse, Effect, IInv, TypeOK, Accounts
  <1>4. TypeOK'
    BY <1>1, <1>2, <1>3, AnsweredSound DEF IInv, TypeOK
  <1> QED
    BY <1>1, <1>4, AnsweredSound DEF IInv

\* The answers.
LEMMA AnswerStep ==
  ASSUME IInv, NEW c \in calls, Succeed(c) \/ Fail(c)
  PROVE  IInv'
  <1>1. calls' \subseteq calls /\ UNCHANGED <<accounts, role, shown, before, users, attached, sent, opened, trouble>>
    BY DEF Succeed, Fail, query, panel
  <1>2. fetch' \in [at : {"idle", "asked", "answered"}, list : Accounts \cup {None}]
    BY DEF Succeed, Fail, Refetched, Asked, Idle, query, IInv, TypeOK
  <1>3. create' \in CreateForm /\ (create'.shown => create.shown)
    <2>1. create' = NewForm \/ create' = create
      BY DEF Succeed, Fail, forms
    <2>2. NewForm \in CreateForm /\ ~NewForm.shown
      BY DEF NewForm, CreateForm, Roles
    <2> QED
      BY <2>1, <2>2 DEF IInv, TypeOK
  <1>4. edit' \in EditForm /\ (edit' = edit \/ edit'.user = None)
    BY DEF Succeed, Fail, Saved, EditForm, forms, IInv, TypeOK
  <1>5. deleting' \in {None, deleting}
    BY DEF Succeed, Fail, forms
  <1>6. TypeOK'
    BY <1>1, <1>2, <1>3, <1>4, <1>5 DEF IInv, TypeOK
  <1>7. FormIsOfUser' /\ FormsArePermitted'
    BY <1>1, <1>3, <1>4, <1>5 DEF IInv, FormIsOfUser, FormsArePermitted, isAdmin
  <1> QED
    BY <1>1, <1>6, <1>7, CallsStaySound DEF IInv

\* Another admin.
LEMMA OutsideStep ==
  ASSUME IInv, NEW u \in Users, OutsideChange(u)
  PROVE  IInv'
  <1>1. /\ UNCHANGED <<role, shown, before, users, fetch, create, edit, deleting, attached, calls, sent, opened>>
        /\ trouble' \in 0..MaxTrouble
    BY UsersPanelConstants DEF OutsideChange, Trouble, IInv, TypeOK, query, panel, forms
  <1>2. accounts' \in Accounts
    BY DEF OutsideChange, IInv, TypeOK, Accounts
  <1>3. TypeOK'
    BY <1>1, <1>2 DEF IInv, TypeOK
  <1> QED
    BY <1>1, <1>3, FormsStaySound, CallsStaySound DEF IInv

-----------------------------------------------------------------------------
(* The theorems *)

LEMMA InitHolds == Init => IInv
  <1> SUFFICES ASSUME Init PROVE IInv
    OBVIOUS
  <1>1. accounts \in Accounts /\ role \in Roles
    BY UsersPanelConstants DEF Init, Accounts
  <1>2. edit \in EditForm /\ create \in CreateForm
    BY DEF Init, NoEdit, NewForm, EditForm, CreateForm, Roles
  <1>3. attached \in [Kinds -> 0..MaxCalls]
    BY UsersPanelConstants DEF Init, Detached
  <1>4. /\ shown \in BOOLEAN /\ before \in 0..MaxCalls /\ before <= sent
        /\ sent \in 0..MaxCalls /\ opened \in 0..MaxTouches /\ trouble \in 0..MaxTrouble
    <2>1. shown \in BOOLEAN
      BY Zenon DEF Init
    <2>2. before = 0 /\ sent = 0 /\ opened = 0 /\ trouble = 0
      BY DEF Init
    <2> QED
      BY <2>1, <2>2, UsersPanelConstants
  <1>5. TypeOK
    BY <1>1, <1>2, <1>3, <1>4 DEF Init, TypeOK, Idle, NoEdit
  <1>6. FormIsOfUser /\ FormsArePermitted /\ CallsAreSound
    BY DEF Init, FormIsOfUser, FormsArePermitted, CallsAreSound, NoEdit, NewForm
  <1> QED
    BY <1>5, <1>6 DEF IInv

LEMMA StepHolds == IInv /\ [Next]_vars => IInv'
  <1> SUFFICES ASSUME IInv, [Next]_vars PROVE IInv'
    OBVIOUS
  <1>1. CASE UNCHANGED vars
    <2>1. UNCHANGED <<accounts, role, shown, before, users, fetch, create, edit, deleting, attached,
                      calls, sent, opened, trouble>>
      BY <1>1 DEF vars, query, panel, forms
    <2>2. TypeOK'
      BY <2>1 DEF IInv, TypeOK
    <2> QED
      BY <2>1, <2>2, FormsStaySound, CallsStaySound DEF IInv
  <1>2. CASE Fetch \/ ServeList \/ Arrive \/ Forget
    BY <1>2, ListStep
  <1>3. CASE \/ ToggleCreate \/ TypeCreatePassword \/ HandleCreate
             \/ \E u \in Users, r \in Roles : TypeCreate(u, r)
    BY <1>3, CreateStep
  <1>4. CASE OpenTab \/ LeaveTab
    BY <1>4, TabStep
  <1>5. CASE \/ \E u \in Users : EditRow(u)
             \/ TypePassword \/ ErasePassword \/ CancelEdit
             \/ \E r \in Roles : SelectRole(r)
    BY <1>5, EditStep
  <1>6. CASE HandleUpdate
    BY <1>6, SaveStep
  <1>7. CASE CancelDelete \/ ConfirmDelete \/ \E u \in Users : AskDelete(u)
    BY <1>7, DeleteStep
  <1>8. ASSUME NEW c \in calls, Serve(c) \/ Refuse(c) PROVE IInv'
    BY <1>8, ServerStep
  <1>9. ASSUME NEW c \in calls, Succeed(c) \/ Fail(c) PROVE IInv'
    BY <1>9, AnswerStep
  <1>10. ASSUME NEW u \in Users, OutsideChange(u) PROVE IInv'
    BY <1>10, OutsideStep
  <1> QED
    BY <1>1, <1>2, <1>3, <1>4, <1>5, <1>6, <1>7, <1>8, <1>9, <1>10 DEF Next

THEOREM Invariance == Spec => []IInv
  BY InitHolds, StepHolds, PTL DEF Spec

\* Every variable keeps its type, and numbers name one call each.
THEOREM Typing == Spec => []TypeOK
  BY Invariance, PTL DEF IInv

\* A save sends a password for the user whose form it was typed in (settings/page.tsx:195-253).
THEOREM PasswordsKept == Spec => []PasswordsAreTheirOwners
  <1>1. IInv => PasswordsAreTheirOwners
    BY DEF IInv, CallsAreSound, CallIsSound, PasswordsAreTheirOwners
  <1> QED
    BY <1>1, Invariance, PTL

\* Nothing that the panel offers is answered with a 403 (settings/page.tsx:263, 367-393,
\* 411; auth.go:198-210, 240-251).
THEOREM OffersPermitted == Spec => []OffersWhatIsPermitted
  <1>1. IInv => OffersWhatIsPermitted
    BY DEF IInv, CallsAreSound, CallIsSound, OffersWhatIsPermitted
  <1> QED
    BY <1>1, Invariance, PTL

\* At most one save of the panel that is shown is under way, so that no success closes
\* the form of another save.  One may still be from before its tab was left, which
\* closes no form of this one (settings/page.tsx:84, 215-224, 428-436).
OneSaveAtATime ==
  \A c, d \in calls :
    c.kind = "update" /\ d.kind = "update" /\ Mine(c) /\ Mine(d) => c = d

\* While a panel is shown, the mutation of its edit form is never reset, as the other
\* two are.
THEOREM SavesOneByOne == Spec => []OneSaveAtATime
  <1>1. IInv => OneSaveAtATime
    BY DEF IInv, TypeOK, CallsAreSound, CallIsSound, OneSaveAtATime
  <1> QED
    BY <1>1, Invariance, PTL

\* The step that serves a save without a role leaves the accounts as they are, and no
\* other step takes an unanswered save away (settings/page.tsx:242).
THEOREM RolesSelected == Spec => RolesAreSelected
  <1> DEFINE Selected == \A c \in calls :
        c.kind = "update" /\ c.at = "sent" /\ c \notin calls' /\ accounts' # accounts => c.chosen
  <1>1. IInv /\ [Next]_vars => [Selected]_vars
    <2> SUFFICES ASSUME IInv, Next, NEW c \in calls, c.kind = "update", c.at = "sent",
                        c \notin calls', accounts' # accounts
                 PROVE  c.chosen
      OBVIOUS
    <2>1. ASSUME NEW d \in calls, Serve(d) PROVE c.chosen
      <3>1. d = c /\ Effect(d)
        BY <2>1 DEF Serve, Answered
      <3>2. c.role # None
        BY <3>1 DEF Effect, IInv, TypeOK, Accounts
      <3> QED
        BY <3>2 DEF IInv, CallsAreSound, CallIsSound
    <2>2. ASSUME NEW d \in calls, Refuse(d) \/ Succeed(d) \/ Fail(d) PROVE FALSE
      BY <2>2 DEF Refuse, Succeed, Fail
    <2>3. ASSUME NEW u \in Users, OutsideChange(u) PROVE FALSE
      BY <2>3 DEF OutsideChange
    <2>4. CASE Fetch \/ ServeList \/ Arrive \/ Forget \/ OpenTab \/ LeaveTab \/ TypeCreatePassword
      BY <2>4 DEF Fetch, ServeList, Arrive, Forget, OpenTab, LeaveTab, TypeCreatePassword
    <2>5. CASE \/ ToggleCreate \/ HandleCreate \/ \E u \in Users, r \in Roles : TypeCreate(u, r)
               \/ HandleUpdate \/ ConfirmDelete \/ CancelDelete
               \/ \E u \in Users : EditRow(u) \/ AskDelete(u)
      BY <2>5 DEF ToggleCreate, HandleCreate, TypeCreate, HandleUpdate, ConfirmDelete, CancelDelete,
           EditRow, AskDelete, Mutate
    <2>6. CASE TypePassword \/ ErasePassword \/ CancelEdit \/ \E r \in Roles : SelectRole(r)
      BY <2>6 DEF TypePassword, ErasePassword, CancelEdit, SelectRole
    <2> QED
      BY <2>1, <2>2, <2>3, <2>4, <2>5, <2>6 DEF Next
  <1> QED
    BY <1>1, Invariance, PTL DEF Spec, RolesAreSelected
-----------------------------------------------------------------------------
(* The server behind the panel *)

\* The server's handlers implement AccountRegister (theorem AccountsRefined of
\* Auth_proofs).  The server the panel is given here keeps to that promise: with a record of
\* what took effect for each call, nothing happens that a register would not do.
VARIABLE effect  \* call -> what has taken effect of it (history)

\* Accounts are their roles here: a save of both is followed up to its role.
CallOf(c) == [kind |-> c.kind, user |-> c.name, role |-> c.role,
              pass |-> IF c.role = None THEN c.password ELSE None]

PartOf(c) ==
  IF c.kind = "update" THEN IF c.role = None THEN "pass" ELSE "role" ELSE c.kind

Done(c) == [call |-> CallOf(c), part |-> PartOf(c)]

PanelCalls == [kind : Kinds, user : Users, role : Roles \cup {None}, pass : Users \cup {None}]

\* Others leave the account alone that is signed in here.
OthersCalls == {c \in PanelCalls : c.user # Me}

RoleOf(c) == c.role
RoleAfter(c, p, r) == IF p = "role" THEN c.role ELSE r
NoStart(stored) == {stored}

Register ==
  INSTANCE AccountRegister WITH Initial <- Roles, Requests <- 1..MaxCalls, Calls <- PanelCalls,
    Strangers <- OthersCalls, NewAccount <- RoleOf, Updated <- RoleAfter, Starts <- NoStart

\* The call that a step serves.
Served == {c \in calls : Serve(c)}

Recorded ==
  effect' = [r \in 1..MaxCalls |-> effect[r] \cup {Done(c) : c \in {d \in Served : d.id = r}}]

RecordedSpec ==
  /\ Init /\ effect = [r \in 1..MaxCalls |-> {}]
  /\ [][Next /\ Recorded]_<<vars, effect>>

\* A call says what its kind takes: HandleUpdate sends nothing where nothing was entered.
Complete(c) ==
  CASE c.kind = "create" -> c.role # None
    [] c.kind = "update" -> c.role # None \/ c.password # None
    [] OTHER -> c.role = None

\* What is still on its way to the server has had no effect; a success that is reported to
\* the panel has.
Followed(c) ==
  /\ Complete(c)
  /\ c.at = "sent" => effect[c.id] = {}
  /\ c.at = "ok" => effect[c.id] # {}

RecordInv ==
  /\ IInv
  /\ effect = [r \in 1..MaxCalls |-> effect[r]]
  /\ \A r \in 1..MaxCalls : r > sent => effect[r] = {}
  /\ \A c \in calls : Followed(c)

\* A call is one that was there, a new one, or the answer to one that was there.
LEMMA CallsOfStep ==
  ASSUME RecordInv, [Next]_vars, NEW c \in calls'
  PROVE  \/ c \in calls
         \/ c.id = sent + 1 /\ sent' = sent + 1 /\ c.at = "sent" /\ Complete(c)
         \/ \E d \in calls : /\ d.at = "sent" /\ c.at \in {"ok", "error", "forbidden"}
                             /\ c.id = d.id /\ c.kind = d.kind /\ c.role = d.role
                             /\ c.password = d.password
                             /\ c.at = "ok" => Serve(d)
  <1> USE DEF RecordInv
  <1>1. ASSUME NEW d \in calls, Serve(d) \/ Refuse(d), c \notin calls
        PROVE  /\ d.at = "sent" /\ c.at \in {"ok", "error", "forbidden"}
               /\ c.id = d.id /\ c.kind = d.kind /\ c.role = d.role
               /\ c.password = d.password
               /\ c.at = "ok" => Serve(d)
    <2>1. d \in Call
      BY DEF IInv, TypeOK
    <2>2. \A result : Answered(d, result) => c = [d EXCEPT !.at = result]
      BY <1>1 DEF Answered
    <2>3. d.at = "sent"
      BY <1>1 DEF Serve, Refuse
    <2>4. CASE Serve(d)
      BY <2>1, <2>2, <2>3, <2>4 DEF Serve, Call
    <2>5. CASE Refuse(d)
      BY <2>1, <2>2, <2>3, <2>5 DEF Refuse, Call
    <2> QED
      BY <1>1, <2>4, <2>5
  <1>2. CASE HandleCreate
    <2>1. create.role # None
      BY <1>2, NoneIsNothing DEF IInv, TypeOK, CreateForm
    <2> QED
      BY <1>2, <2>1 DEF HandleCreate, Mutate, Complete
  <1>3. CASE HandleUpdate
    BY <1>3 DEF HandleUpdate, Mutate, Complete
  <1>4. CASE ConfirmDelete
    BY <1>4 DEF ConfirmDelete, Mutate, Complete
  <1>5. ASSUME NEW d \in calls, Succeed(d) \/ Fail(d) PROVE c \in calls
    BY <1>5 DEF Succeed, Fail
  <1>6. CASE \/ Fetch \/ ServeList \/ Arrive \/ Forget \/ OpenTab \/ LeaveTab
             \/ ToggleCreate \/ TypeCreatePassword \/ CancelDelete
             \/ \E u \in Users : EditRow(u) \/ AskDelete(u) \/ OutsideChange(u)
             \/ \E u \in Users, r \in Roles : TypeCreate(u, r)
    BY <1>6 DEF Fetch, ServeList, Arrive, Forget, OpenTab, LeaveTab, ToggleCreate,
       TypeCreatePassword, CancelDelete, EditRow, AskDelete, OutsideChange, TypeCreate
  <1>7. CASE TypePassword \/ ErasePassword \/ CancelEdit \/ \E r \in Roles : SelectRole(r)
    BY <1>7 DEF TypePassword, ErasePassword, CancelEdit, SelectRole
  <1>8. CASE UNCHANGED vars
    BY <1>8 DEF vars
  <1> QED
    BY <1>1, <1>2, <1>3, <1>4, <1>5, <1>6, <1>7, <1>8 DEF Next

\* Calls are numbered as they are sent.
LEMMA NumbersGrow ==
  ASSUME IInv, [Next]_vars
  PROVE  sent' = sent \/ sent' = sent + 1
  <1>1. CASE HandleCreate \/ HandleUpdate \/ ConfirmDelete
    BY <1>1 DEF HandleCreate, HandleUpdate, ConfirmDelete, Mutate
  <1>2. ASSUME NEW d \in calls, Serve(d) \/ Refuse(d) \/ Succeed(d) \/ Fail(d) PROVE sent' = sent
    BY <1>2 DEF Serve, Refuse, Succeed, Fail, Answered
  <1>3. CASE \/ Fetch \/ ServeList \/ Arrive \/ Forget \/ OpenTab \/ LeaveTab
             \/ ToggleCreate \/ TypeCreatePassword \/ CancelDelete
             \/ \E u \in Users : EditRow(u) \/ AskDelete(u) \/ OutsideChange(u)
             \/ \E u \in Users, r \in Roles : TypeCreate(u, r)
    BY <1>3 DEF Fetch, ServeList, Arrive, Forget, OpenTab, LeaveTab, ToggleCreate,
       TypeCreatePassword, CancelDelete, EditRow, AskDelete, OutsideChange, TypeCreate
  <1>4. CASE TypePassword \/ ErasePassword \/ CancelEdit \/ \E r \in Roles : SelectRole(r)
    BY <1>4 DEF TypePassword, ErasePassword, CancelEdit, SelectRole
  <1>5. CASE UNCHANGED vars
    BY <1>5 DEF vars
  <1> QED
    BY <1>1, <1>2, <1>3, <1>4, <1>5 DEF Next

\* A step serves one call at most, and that is what is recorded.
LEMMA RecordOfStep ==
  ASSUME RecordInv, Recorded
  PROVE  /\ Served = {} => effect' = effect
         /\ \A c \in Served :
              /\ c \in calls /\ Serve(c) /\ c \notin calls' /\ c.id \in 1..MaxCalls
              /\ effect' = [effect EXCEPT ![c.id] = @ \cup {Done(c)}]
  <1>1. effect = [r \in 1..MaxCalls |-> effect[r]]
    BY DEF RecordInv
  <1>2. CASE Served = {}
    <2>1. effect' = [r \in 1..MaxCalls |-> effect[r]]
      BY <1>2 DEF Recorded
    <2> QED
      BY <1>1, <1>2, <2>1
  <1>3. ASSUME NEW c \in Served
        PROVE  /\ c \in calls /\ Serve(c) /\ c \notin calls' /\ c.id \in 1..MaxCalls
               /\ effect' = [effect EXCEPT ![c.id] = @ \cup {Done(c)}]
    <2>1. c \in calls /\ Serve(c) /\ c.id \in 1..MaxCalls /\ c \in Call
      BY DEF Served, RecordInv, IInv, TypeOK, Call
    <2>2. ASSUME NEW d \in Served PROVE d \notin calls'
      <3>1. d \in Call /\ d.at = "sent" /\ \E result \in {"ok", "error"} : Answered(d, result)
        BY DEF Served, Serve, RecordInv, IInv, TypeOK
      <3> QED
        BY <3>1 DEF Answered, Call
    <2>3. ASSUME NEW d \in Served PROVE d = c
      <3>1. d \in calls /\ d \notin calls'
        BY <2>2 DEF Served
      <3> QED
        BY <2>1, <3>1 DEF Serve, Answered
    <2>4. ASSUME NEW r \in 1..MaxCalls
          PROVE  effect'[r] = IF r = c.id THEN effect[r] \cup {Done(c)} ELSE effect[r]
      <3>1. effect'[r] = effect[r] \cup {Done(d) : d \in {x \in Served : x.id = r}}
        BY DEF Recorded
      <3>2. {x \in Served : x.id = r} = IF r = c.id THEN {c} ELSE {}
        BY <2>3
      <3> QED
        BY <3>1, <3>2
    <2>5. effect' = [r \in 1..MaxCalls |-> effect'[r]]
      BY DEF Recorded
    <2> QED
      BY <1>1, <2>1, <2>2, <2>4, <2>5
  <1> QED
    BY <1>2, <1>3

LEMMA RecordStep == RecordInv /\ [Next /\ Recorded]_<<vars, effect>> => RecordInv'
  <1> SUFFICES ASSUME RecordInv, [Next /\ Recorded]_<<vars, effect>> PROVE RecordInv'
    OBVIOUS
  <1>1. IInv /\ [Next]_vars /\ IInv'
    BY StepHolds DEF RecordInv
  <1>2. CASE UNCHANGED <<vars, effect>>
    BY <1>1, <1>2 DEF RecordInv, Followed, Complete, vars
  <1>3. CASE Next /\ Recorded
    <2>1. effect' = [r \in 1..MaxCalls |-> effect'[r]]
      BY <1>3 DEF Recorded
    <2>2. ASSUME NEW r \in 1..MaxCalls, \A d \in Served : d.id # r PROVE effect'[r] = effect[r]
      BY <1>3, <2>2 DEF Recorded
    <2>3. sent \in Nat /\ sent' \in Nat /\ sent' >= sent
      BY <1>1, NumbersGrow, UsersPanelConstants DEF IInv, TypeOK
    <2>4. \A d \in calls : d.id \in 1..MaxCalls /\ d.id <= sent
      BY <1>1 DEF IInv, TypeOK, Call
    <2>5. ASSUME NEW r \in 1..MaxCalls, r > sent PROVE effect'[r] = {}
      BY <2>2, <2>3, <2>4, <2>5 DEF RecordInv, Served
    <2>6. ASSUME NEW c \in calls' PROVE Followed(c)'
      <3>0. c.id \in 1..MaxCalls
        BY <1>1 DEF IInv, TypeOK, Call
      <3>1. CASE c \in calls
        <4>1. \A d \in Served : d.id # c.id
          BY <1>1, <1>3, <2>6, <3>1, RecordOfStep DEF IInv, TypeOK
        <4>2. effect'[c.id] = effect[c.id]
          BY <2>2, <3>0, <4>1
        <4> QED
          BY <3>1, <4>2 DEF RecordInv, Followed, Complete
      <3>2. CASE c.id = sent + 1 /\ c.at = "sent" /\ Complete(c)
        <4>1. effect'[c.id] = {}
          BY <2>3, <2>5, <3>0, <3>2
        <4> QED
          BY <3>2, <4>1 DEF Followed, Complete
      <3>3. ASSUME NEW d \in calls, c.at \in {"ok", "error", "forbidden"}, c.id = d.id,
                   c.kind = d.kind, c.role = d.role, c.password = d.password,
                   c.at = "ok" => Serve(d)
            PROVE  Followed(c)'
        <4>1. Complete(c)'
          BY <3>3 DEF RecordInv, Followed, Complete
        <4>2. c.at = "ok" => effect'[c.id] # {}
          BY <1>3, <3>0, <3>3 DEF Recorded, Served
        <4> QED
          BY <3>3, <4>1, <4>2 DEF Followed
      <3> QED
        BY <1>1, <3>1, <3>2, <3>3, CallsOfStep
    <2> QED
      BY <1>1, <2>1, <2>3, <2>5, <2>6 DEF RecordInv
  <1> QED
    BY <1>2, <1>3

LEMMA RecordInit == Init /\ effect = [r \in 1..MaxCalls |-> {}] => RecordInv
  BY InitHolds DEF Init, RecordInv

\* What is served is performed by a register.
LEMMA ServePerforms ==
  ASSUME RecordInv, Recorded, NEW c \in Served
  PROVE  Register!Next
  <1> DEFINE p == PartOf(c)
             a == CallOf(c)
  <1>1. /\ c \in calls /\ Serve(c) /\ c.id \in 1..MaxCalls /\ c \in Call /\ Complete(c)
        /\ effect' = [effect EXCEPT ![c.id] = @ \cup {[call |-> a, part |-> p]}]
    BY RecordOfStep DEF RecordInv, IInv, TypeOK, Followed, Done
  <1>2. effect[c.id] = {}
    BY <1>1 DEF RecordInv, Followed, Serve
  <1>3. /\ c.kind \in Kinds /\ c.name \in Users /\ c.role \in Roles \cup {None}
        /\ c.password \in Users \cup {None}
        /\ accounts \in [Users -> Roles \cup {None}]
    BY <1>1 DEF Call, RecordInv, IInv, TypeOK, Accounts
  <1>4. /\ a \in PanelCalls /\ a.kind = c.kind /\ a.user = c.name /\ a.role = c.role
        /\ a["role"] = c.role /\ a["pass"] = (IF c.role = None THEN c.password ELSE None)
    BY <1>3 DEF CallOf, PanelCalls
  <1>5. Accepted(c) /\ Effect(c)
    BY <1>1 DEF Serve
  <1>6. p \in {"create", "delete", "role", "pass"} /\ ~(p = "pass" /\ a.role # None)
    BY <1>3, <1>4 DEF PartOf, Kinds
  <1>7. Register!Change(a, p)
    <2>1. CASE c.kind = "create"
      <3>1. accounts[c.name] = None /\ accounts' = [accounts EXCEPT ![c.name] = c.role]
        BY <1>5, <2>1 DEF Accepted, Effect
      <3> QED
        BY <1>4, <2>1, <3>1 DEF PartOf, RoleOf, Register!Change
    <2>2. CASE c.kind = "delete"
      <3>1. accounts[c.name] # None /\ accounts' = [accounts EXCEPT ![c.name] = None]
        BY <1>1, <1>5, <2>2 DEF Accepted, Effect, Complete
      <3> QED
        BY <1>4, <2>2, <3>1 DEF PartOf, Register!Change
    <2>3. CASE c.kind = "update" /\ c.role # None
      <3>1. accounts[c.name] # None /\ accounts' = [accounts EXCEPT ![c.name] = c.role]
        BY <1>5, <2>3 DEF Accepted, Effect
      <3>2. p = "role" /\ RoleAfter(a, p, accounts[c.name]) = c.role
        BY <1>4, <2>3 DEF PartOf, RoleAfter
      <3> QED
        BY <1>3, <1>4, <2>3, <3>1, <3>2 DEF Register!Change
    <2>4. CASE c.kind = "update" /\ c.role = None
      <3>1. /\ accounts[c.name] # None /\ accounts' = [accounts EXCEPT ![c.name] = @]
            /\ c.password # None
        BY <1>1, <1>5, <2>4 DEF Accepted, Effect, Complete
      <3>2. p = "pass" /\ RoleAfter(a, p, accounts[c.name]) = accounts[c.name]
        BY <2>4 DEF PartOf, RoleAfter
      <3> QED
        BY <1>3, <1>4, <2>4, <3>1, <3>2 DEF Register!Change
    <2> QED
      BY <1>3, <2>1, <2>2, <2>3, <2>4 DEF Kinds
  <1>8. Register!Perform(c.id, a, p)
    BY <1>1, <1>2, <1>6, <1>7 DEF Register!Perform
  <1> QED
    BY <1>1, <1>4, <1>6, <1>8 DEF Register!Next

\* What another admin does is a stranger's call.
LEMMA OthersPerform ==
  ASSUME IInv, NEW u \in Users, OutsideChange(u), UNCHANGED effect
  PROVE  Register!Next
  <1>1. PICK r \in Roles \cup {None} :
          r # accounts[u] /\ u # Me /\ accounts' = [accounts EXCEPT ![u] = r]
    BY DEF OutsideChange
  <1>2. accounts \in [Users -> Roles \cup {None}]
    BY DEF IInv, TypeOK, Accounts
  <1> DEFINE call(kind) == [kind |-> kind, user |-> u, role |-> r, pass |-> None]
  <1>3. \A kind \in Kinds : call(kind) \in OthersCalls
    BY <1>1 DEF OthersCalls, PanelCalls
  <1>4. CASE accounts[u] = None
    <2>1. Register!Change(call("create"), "create")
      BY <1>1, <1>4 DEF Register!Change, RoleOf
    <2> QED
      BY <1>3, <2>1 DEF Register!Next, Kinds
  <1>5. CASE accounts[u] # None /\ r = None
    <2>1. Register!Change(call("delete"), "delete")
      BY <1>1, <1>5 DEF Register!Change
    <2> QED
      BY <1>3, <2>1 DEF Register!Next, Kinds
  <1>6. CASE accounts[u] # None /\ r # None
    <2>1. RoleAfter(call("update"), "role", accounts[u]) = r
      BY DEF RoleAfter
    <2>2. Register!Change(call("update"), "role")
      BY <1>1, <1>2, <1>6, <2>1 DEF Register!Change
    <2> QED
      BY <1>3, <2>2 DEF Register!Next, Kinds
  <1> QED
    BY <1>4, <1>5, <1>6

\* The server that the panel is checked with is a register of accounts, as the handlers
\* are (auth.go:136-258).
THEOREM PanelUsesRegister == RecordedSpec => Register!Spec
  <1>1. Init /\ effect = [r \in 1..MaxCalls |-> {}] => Register!Init
    BY UsersPanelConstants DEF Init, Register!Init, Accounts
  <1>2. RecordInv /\ [Next /\ Recorded]_<<vars, effect>> => [Register!Next]_<<accounts, effect>>
    <2> SUFFICES ASSUME RecordInv, Next, Recorded PROVE [Register!Next]_<<accounts, effect>>
      BY DEF vars
    <2>1. CASE Served # {}
      BY <2>1, ServePerforms
    <2>2. CASE Served = {}
      <3>1. UNCHANGED effect /\ \A c \in calls : ~Serve(c)
        BY <2>2, RecordOfStep DEF Served
      <3>2. ASSUME NEW u \in Users, OutsideChange(u) PROVE Register!Next
        BY <3>1, <3>2, OthersPerform DEF RecordInv
      <3>3. ASSUME NEW c \in calls, Refuse(c) \/ Succeed(c) \/ Fail(c) PROVE UNCHANGED accounts
        BY <3>3 DEF Refuse, Succeed, Fail
      <3>4. CASE \/ Fetch \/ ServeList \/ Arrive \/ Forget \/ OpenTab \/ LeaveTab
                 \/ ToggleCreate \/ TypeCreatePassword \/ CancelDelete
                 \/ \E u \in Users : EditRow(u) \/ AskDelete(u)
                 \/ \E u \in Users, r \in Roles : TypeCreate(u, r)
        BY <3>1, <3>4 DEF Fetch, ServeList, Arrive, Forget, OpenTab, LeaveTab, ToggleCreate,
           TypeCreatePassword, CancelDelete, EditRow, AskDelete, TypeCreate
      <3>5. CASE \/ HandleCreate \/ HandleUpdate \/ ConfirmDelete
                 \/ TypePassword \/ ErasePassword \/ CancelEdit \/ \E r \in Roles : SelectRole(r)
        BY <3>1, <3>5 DEF HandleCreate, HandleUpdate, ConfirmDelete, Mutate, TypePassword,
           ErasePassword, CancelEdit, SelectRole
      <3> QED
        BY <3>1, <3>2, <3>3, <3>4, <3>5 DEF Next
    <2> QED
      BY <2>1, <2>2
  <1> QED
    BY <1>1, <1>2, RecordInit, RecordStep, PTL DEF RecordedSpec, Register!Spec

\* A success that is reported to the panel has had its effect.
SuccessHasEffect == \A c \in calls : c.at = "ok" => effect[c.id] # {}

\* What the panel says was done was done (settings/page.tsx:204-232).
THEOREM SuccessesHadEffect == RecordedSpec => []SuccessHasEffect
  <1>1. RecordInv => SuccessHasEffect
    BY DEF RecordInv, Followed, SuccessHasEffect
  <1> QED
    BY <1>1, RecordInit, RecordStep, PTL DEF RecordedSpec
=============================================================================
