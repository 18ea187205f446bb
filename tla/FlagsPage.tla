----------------------------- MODULE FlagsPage -----------------------------
(***************************************************************************)
(* The dashboard's flags page in one browser tab: app/flags/page.tsx, the  *)
(* edit form of components/flags/EditFlagModal.tsx, the confirmations of   *)
(* components/ui/ConfirmModal.tsx, the calls of lib/api-client.ts and the  *)
(* proxy app/api/v1/[...path]/route.ts they may go through.                *)
(*                                                                         *)
(* The page shows a cached list that React Query reads again every ten     *)
(* seconds, and that a successful change asks for at once.  A dialog works *)
(* on the flag as the list had it when it was opened; other writers and    *)
(* the page's own earlier calls go on meanwhile.                           *)
(*                                                                         *)
(* The API server is an atomic register of flags, which is what the        *)
(* theorem Refinement of FlagApi_proofs says its handlers are.  Of a label *)
(* selector the model has its matchLabels and whether it has               *)
(* matchExpressions; a ConfigMap name is there or is not, and a list of    *)
(* rules has at most one rule.                                             *)
(***************************************************************************)
EXTENDS Naturals, Sequences, FiniteSets

CONSTANTS
  Names,        \* names of flags
  Values,       \* values of flags
  Texts,        \* descriptions, Blank for none
  Rules,        \* what one targeting rule may say
  Labels,       \* matchLabels, and the texts key=value,... that spell them
  Junk,         \* a text that spells none, as `frontend` or a comma
  Phases,       \* what the operator may report, Blank for nothing yet
  InitLists,    \* the flags there may be when the page is opened
  OutsideFlags, \* the flags other writers store
  Editable,     \* the fields users edit, rules aside
  DeliveryInputs, \* what users enter as delivery method, labels and ConfigMap name
  Filters,      \* what the filter controls are set to
  Roles,        \* roles the user may have
  Routes,       \* how the API is reached: "proxy", "direct"
  MaxCalls,     \* bound: changes the page asks for
  MaxOpens,     \* bound: times the edit form is opened
  MaxEdits,     \* bound: fields touched in one form, carried-over rules among them
  MaxOutside,   \* bound: changes by other writers
  MaxFails,     \* bound: requests that fail, lists and changes
  Blank,        \* the empty text, ""
  None          \* no flag, no list, no form, no dialog

Methods == {"envVar", "configMap", "sidecar"}
RuleLists == {<<>>} \cup {<<r>> : r \in Rules}

\* matchLabels, or None; and whether there are matchExpressions.  With neither, a
\* selector matches every workload.
Selector == [labels : Labels \cup {None}, exprs : BOOLEAN]

Deliveries == [Methods -> Selector \cup {None}]
NoDelivery == [m \in Methods |-> None]

Flag == [type : {"boolean", "string"}, value : Values, disabled : BOOLEAN, desc : Texts,
         delivery : Deliveries, rules : RuleLists, phase : Phases]

List == [Names -> Flag \cup {None}]

\* What a PUT may change; the form has a control for each.
Fields == {"value", "disabled", "desc", "delivery", "rules"}

\* What may stand in the field for labels.
LabelTexts == Labels \cup {Junk, Blank}

Form == [value : Values, disabled : BOOLEAN, desc : Texts, method : Methods \cup {"none"},
         labels : LabelTexts, cmName : BOOLEAN, rules : RuleLists]

DeliveryInput == [method : Methods \cup {"none"}, labels : LabelTexts, cmName : BOOLEAN]

Body == [value : Values, disabled : BOOLEAN, desc : Texts,
         delivery : Deliveries, rules : RuleLists]

Filter == [search : SUBSET Names, type : {Blank, "boolean", "string"}, phase : Phases \cup {"Pending"}]

ASSUME FlagsPageConstants ==
  /\ {"true", "false"} \subseteq Values
  /\ Blank \in Texts /\ Blank \in Phases
  /\ InitLists \subseteq List
  /\ OutsideFlags \subseteq Flag \cup {None}
  /\ Editable \subseteq Fields \ {"rules"}
  /\ DeliveryInputs \subseteq DeliveryInput
  /\ Filters \subseteq Filter
  /\ Roles \subseteq {"admin", "editor", "viewer"}
  /\ Routes \subseteq {"proxy", "direct"}
  /\ {MaxCalls, MaxOpens, MaxEdits, MaxOutside, MaxFails} \subseteq Nat
  /\ Blank \notin Labels /\ Junk \notin Labels \cup {Blank}
  /\ None \notin Labels /\ None \notin Selector
  /\ None \notin Flag /\ None \notin List /\ None \notin Form /\ None \notin Body

VARIABLES
  flags,    \* the flags as the API server has them
  ver,      \* changes made to them so far (history)
  changed,  \* the change that last touched each flag (history)
  role,     \* the user's
  route,    \* how this deployment reaches the API
  data,     \* the list in the query cache, or None
  listed,   \* the list as it arrived, with the changes made before (history)
  fetch,    \* the list request, and the list it brings
  dialog,   \* the confirmation shown, or None
  form,     \* the edit form, or None
  target,   \* the flag the form is for
  shared,   \* the form's rule is the very object in the cache
  opened,   \* times the form was opened
  base,     \* the flag as it arrived in the list behind the form (history)
  edited,   \* fields the user has touched since, and "earlier" if the cache had
            \* rules in it by then that an earlier form had written there (history)
  requests, \* changes asked for, on their way to the API
  answers,  \* answers on their way back
  sent,     \* requests sent so far
  outside,  \* changes by other writers
  fails,    \* failures so far
  acked     \* the last change a success has been reported for (history)

server == <<flags, ver, changed>>
query == <<data, listed, fetch>>
editor == <<form, target, shared, opened, base, edited>>
network == <<requests, answers, sent>>
fixed == <<role, route>>
vars == <<server, fixed, query, dialog, editor, network, outside, fails, acked>>

Kinds == {"update", "toggle", "delete"}

Touches == Fields \cup {"earlier"}

\* id: its number; from: the form it was saved in.  History: of a toggle the value
\* announced and the age of the list behind it; the flag in that list; the edits.
Request == [id : 1..MaxCalls, kind : Kinds, name : Names, body : Body \cup {None}, from : Nat,
            to : Values \cup {None}, base : Flag, at : Nat, edits : SUBSET Touches]

\* did: the change it made, or 0 (history).
Answer == [id : 1..MaxCalls, kind : Kinds, from : Nat, result : {"ok", "error", "forbidden"}, did : Nat]

TypeOK ==
  /\ flags \in List /\ ver \in Nat /\ changed \in [Names -> Nat]
  /\ role \in Roles /\ route \in Routes
  /\ data \in List \cup {None}
  /\ listed \in [list : List \cup {None}, ver : Nat]
  /\ fetch \in [at : {"idle", "asked", "answered"}, list : List \cup {None}, ver : Nat]
  /\ dialog \in {None} \cup [kind : {"toggle", "delete", "update"}, name : Names,
                             to : Values \cup {None}, base : Flag, at : Nat]
  /\ form \in Form \cup {None} /\ target \in Names \cup {None}
  /\ shared \in BOOLEAN /\ opened \in 0..MaxOpens
  /\ base \in Flag \cup {None} /\ edited \subseteq Touches
  /\ requests \subseteq Request /\ answers \subseteq Answer /\ sent \in 0..MaxCalls
  /\ outside \in 0..MaxOutside /\ fails \in 0..MaxFails
  /\ acked \in 0..ver

-----------------------------------------------------------------------------
(* What the page computes *)

IsAdmin == role = "admin"
CanEdit == role # "viewer"

PhaseOf(f) == IF f.phase = Blank THEN "Pending" ELSE f.phase

\* The rows that pass every filter that is set.
Rows(g) ==
  {n \in g.search :
     /\ data # None /\ data[n] # None
     /\ g.type \in {Blank, data[n].type}
     /\ g.phase \in {Blank, PhaseOf(data[n])}}

\* The user may set the filters in any way before using a row.
Shown == UNION {Rows(g) : g \in Filters}

\* The server's flip of the value it has.
Flipped(v) == IF v = "true" THEN "false" ELSE "true"

\* Defect: the dialog announces the value shown.
Announced_Shown(v) == v

\* What the toggle dialog announces.
Announced(v) == IF v = "true" THEN "false" ELSE "true"

\* The first delivery there is, by the form's order, and the labels of the first that has
\* any: those of a sidecar delivery are not read, and matchExpressions of none.
FirstMethod(d) ==
  IF d["envVar"] # None THEN "envVar"
  ELSE IF d["configMap"] # None THEN "configMap"
  ELSE IF d["sidecar"] # None THEN "sidecar" ELSE "none"

HasLabels(d, m) == d[m] # None /\ d[m].labels # None

LabelText(d) ==
  IF HasLabels(d, "envVar") THEN d["envVar"].labels
  ELSE IF HasLabels(d, "configMap") THEN d["configMap"].labels ELSE Blank

\* Defect: every form starts from a fresh flag's value.
FormOf_Fresh(f) ==
  [value |-> "false", disabled |-> f.disabled, desc |-> f.desc,
   method |-> FirstMethod(f.delivery), labels |-> LabelText(f.delivery),
   cmName |-> f.delivery["configMap"] # None, rules |-> f.rules]

FormOf(f) ==
  [value |-> f.value, disabled |-> f.disabled, desc |-> f.desc,
   method |-> FirstMethod(f.delivery), labels |-> LabelText(f.delivery),
   cmName |-> f.delivery["configMap"] # None, rules |-> f.rules]

\* Split at commas and =; a key without a value is not sent.
Parsed(text) == IF text \in Labels THEN text ELSE None

\* One delivery, if what it takes has been entered, with the labels and nothing else in
\* its selector; and by no labels, or by junk, with nothing in it.
Delivery(m) ==
  IF \/ m.method \in {"envVar", "sidecar"} /\ m.labels # Blank
     \/ m.method = "configMap" /\ m.cmName
  THEN [NoDelivery EXCEPT ![m.method] = [labels |-> Parsed(m.labels), exprs |-> FALSE]]
  ELSE NoDelivery

\* The PUT's body: an empty description, delivery or list of rules is undefined
\* and left out.
Sent(m) == [value |-> m.value, disabled |-> m.disabled, desc |-> m.desc,
            delivery |-> Delivery(m), rules |-> m.rules]

\* The server replaces the fields it is sent.
Patched(f, b) ==
  [f EXCEPT !.value = b.value, !.disabled = b.disabled,
            !.desc = IF b.desc = Blank THEN @ ELSE b.desc,
            !.delivery = IF b.delivery = NoDelivery THEN @ ELSE b.delivery,
            !.rules = IF b.rules = <<>> THEN @ ELSE b.rules]

-----------------------------------------------------------------------------
(* The list *)

Idle == [at |-> "idle", list |-> None, ver |-> 0]
Asked == [Idle EXCEPT !.at = "asked"]

\* Defect: no refetchInterval.
Fetch_Once ==
  /\ fetch.at = "idle" /\ data = None
  /\ fetch' = Asked
  /\ UNCHANGED <<server, fixed, data, listed, dialog, editor, network, outside, fails, acked>>

\* Mounting, the interval of ten seconds, a focused window: any time.
Fetch ==
  /\ fetch.at = "idle"
  /\ fetch' = Asked
  /\ UNCHANGED <<server, fixed, data, listed, dialog, editor, network, outside, fails, acked>>

ServeList ==
  /\ fetch.at = "asked"
  /\ fetch' = [at |-> "answered", list |-> flags, ver |-> ver]
  /\ UNCHANGED <<server, fixed, data, listed, dialog, editor, network, outside, fails, acked>>

\* What is equal in the old list and in the new keeps its old object.
Arrive ==
  /\ fetch.at = "answered"
  /\ data' = fetch.list
  /\ listed' = [list |-> fetch.list, ver |-> fetch.ver]
  /\ shared' = (shared /\ fetch.list[target] # None /\ fetch.list[target].rules = data[target].rules)
  /\ fetch' = Idle
  /\ UNCHANGED <<server, fixed, dialog, form, target, opened, base, edited, network, outside, fails, acked>>

FetchFails ==
  /\ fetch.at = "asked"
  /\ fails < MaxFails
  /\ fails' = fails + 1
  /\ fetch' = Idle
  /\ UNCHANGED <<server, fixed, data, listed, dialog, editor, network, outside, acked>>

-----------------------------------------------------------------------------
(* Toggle and delete *)

\* The buttons of a row.
Offered(kind, n) == IF kind = "delete" THEN IsAdmin ELSE CanEdit /\ data[n].type = "boolean"

Ask(kind, n) ==
  /\ form = None /\ dialog = None
  /\ n \in Shown /\ Offered(kind, n)
  /\ sent < MaxCalls
  /\ dialog' = [kind |-> kind, name |-> n, to |-> Announced(data[n].value),
                base |-> listed.list[n], at |-> listed.ver]
  /\ UNCHANGED <<server, fixed, query, editor, network, outside, fails, acked>>

Dismiss ==
  /\ dialog # None
  /\ dialog' = None
  /\ UNCHANGED <<server, fixed, query, editor, network, outside, fails, acked>>

\* The mutation a confirmed dialog starts.
Send(body, f, e) ==
  /\ sent' = sent + 1
  /\ requests' = requests \cup
       {[id |-> sent', kind |-> dialog.kind, name |-> dialog.name, body |-> body, from |-> f,
         to |-> dialog.to, base |-> dialog.base, at |-> dialog.at, edits |-> e]}
  /\ UNCHANGED answers

Confirm ==
  /\ dialog # None /\ dialog.kind # "update"
  /\ dialog' = None
  /\ Send(None, 0, {})
  /\ UNCHANGED <<server, fixed, query, editor, outside, fails, acked>>

-----------------------------------------------------------------------------
(* The edit form *)

\* A row opens it for every role; the pencil is for those who may edit.  A rule that
\* was edited in an earlier form of this flag, since closed, may be so in the cache.
OpenForm(n) ==
  /\ form = None /\ dialog = None
  /\ n \in Shown /\ opened < MaxOpens
  /\ form' = FormOf(data[n])
  /\ target' = n
  /\ shared' = (data[n].rules # <<>>)
  /\ opened' = opened + 1
  /\ base' = listed.list[n]
  /\ edited' = IF data[n].rules = base'.rules THEN {} ELSE {"earlier"}
  /\ UNCHANGED <<server, fixed, query, dialog, network, outside, fails, acked>>

\* The form is on top and takes input.
Editing == form # None /\ dialog = None

NoForm == /\ form' = None
          /\ target' = None
          /\ shared' = FALSE
          /\ base' = None
          /\ edited' = {}
          /\ UNCHANGED opened

CloseForm ==
  /\ Editing
  /\ NoForm
  /\ UNCHANGED <<server, fixed, query, dialog, network, outside, fails, acked>>

\* By an edit of field f the form becomes m.
Becomes(m, f) ==
  /\ Cardinality(edited \cup {f}) <= MaxEdits
  /\ m # form
  /\ form' = m
  /\ edited' = edited \cup {f}
  /\ UNCHANGED <<server, fixed, listed, fetch, dialog, target, opened, base, network, outside, fails, acked>>

\* What the controls above the rules can make of the form.
Inputs(f) ==
  CASE f = "value" -> {[form EXCEPT !.value = v] : v \in Values}
    [] f = "disabled" -> {[form EXCEPT !.disabled = ~@]}
    [] f = "desc" -> {[form EXCEPT !.desc = t] : t \in Texts}
    [] f = "delivery" -> {[form EXCEPT !.method = d.method, !.labels = d.labels, !.cmName = d.cmName] :
                            d \in DeliveryInputs}

EditField ==
  /\ Editing
  /\ \E f \in Editable : \E m \in Inputs(f) : Becomes(m, f)
  /\ UNCHANGED <<data, shared>>

\* addRule and removeRule make a new array.
AddRule(r) ==
  /\ Editing /\ form.rules = <<>>
  /\ Becomes([form EXCEPT !.rules = <<r>>], "rules")
  /\ UNCHANGED <<data, shared>>

RemoveRule ==
  /\ Editing /\ form.rules # <<>>
  /\ Becomes([form EXCEPT !.rules = <<>>], "rules")
  /\ shared' = FALSE
  /\ UNCHANGED data

\* updateRule and the three functions for conditions copy the array and write to
\* the rule in it.
ChangeRule(r) ==
  /\ Editing /\ form.rules # <<>>
  /\ Becomes([form EXCEPT !.rules = <<r>>], "rules")
  /\ data' = IF shared THEN [data EXCEPT ![target].rules = <<r>>] ELSE data
  /\ UNCHANGED shared

\* This form's save has been sent and not answered.
Saving == \E c \in requests \cup answers : c.from = opened

Submit ==
  /\ Editing /\ ~Saving
  /\ sent < MaxCalls
  /\ dialog' = [kind |-> "update", name |-> target, to |-> None, base |-> base, at |-> 0]
  /\ UNCHANGED <<server, fixed, query, editor, network, outside, fails, acked>>

ConfirmSave ==
  /\ dialog # None /\ dialog.kind = "update"
  /\ dialog' = None
  /\ Send(Sent(form), opened, edited)
  /\ UNCHANGED <<server, fixed, query, editor, outside, fails, acked>>

-----------------------------------------------------------------------------
(* The API and its answers *)

\* The server's flag n becomes f.
Store(n, f) ==
  /\ flags' = [flags EXCEPT ![n] = f]
  /\ ver' = ver + 1
  /\ changed' = [changed EXCEPT ![n] = ver + 1]

Result(c) ==
  CASE c.kind = "delete" -> None
    [] c.kind = "toggle" -> [flags[c.name] EXCEPT !.value = Flipped(@)]
    [] c.kind = "update" -> Patched(flags[c.name], c.body)

\* RequireRole of the route.
Permitted(c) == IF c.kind = "delete" THEN role = "admin" ELSE role # "viewer"

Finds(c) == flags[c.name] # None /\ (c.kind = "toggle" => flags[c.name].type = "boolean")

\* A delete is answered 204 with no body; the proxy cannot build that response
\* and answers 502 in its place.
Relayed(c) == IF c.kind = "delete" /\ route = "proxy" THEN "error" ELSE "ok"

Answered(c, result, did) ==
  /\ requests' = requests \ {c}
  /\ answers' = answers \cup {[id |-> c.id, kind |-> c.kind, from |-> c.from,
                               result |-> result, did |-> did]}
  /\ UNCHANGED sent

\* The change is made; its answer may be lost.
Serve(c) ==
  /\ Permitted(c) /\ Finds(c)
  /\ Store(c.name, Result(c))
  /\ \/ Answered(c, Relayed(c), ver + 1) /\ UNCHANGED fails
     \/ fails < MaxFails /\ fails' = fails + 1 /\ Answered(c, "error", ver + 1)
  /\ UNCHANGED <<fixed, query, dialog, editor, outside, acked>>

\* It is not: no right to it, no such flag, a conflict, no connection.
Refuse(c) ==
  /\ \/ ~Permitted(c) /\ Answered(c, "forbidden", 0) /\ UNCHANGED fails
     \/ Permitted(c) /\ ~Finds(c) /\ Answered(c, "error", 0) /\ UNCHANGED fails
     \/ Permitted(c) /\ fails < MaxFails /\ fails' = fails + 1 /\ Answered(c, "error", 0)
  /\ UNCHANGED <<server, fixed, query, dialog, editor, outside, acked>>

\* Defect: a list that is already on its way is taken for the answer.
Invalidate_Joins == fetch' = IF fetch.at = "idle" THEN Asked ELSE fetch

\* invalidateQueries drops the list that is on its way and asks again.
Invalidate == fetch' = Asked

\* onSuccess; a save's closes the edit form, whichever one is open by now.
Succeed(a) ==
  /\ a.result = "ok"
  /\ answers' = answers \ {a}
  /\ acked' = IF a.did > acked THEN a.did ELSE acked
  /\ Invalidate
  /\ IF a.kind = "update" /\ form # None
     THEN NoForm /\ dialog' = None
     ELSE UNCHANGED <<editor, dialog>>
  /\ UNCHANGED <<server, fixed, data, listed, requests, sent, outside, fails>>

\* The edit form stays and shows the error; of a toggle or delete nothing is said.
Fail(a) ==
  /\ a.result # "ok"
  /\ answers' = answers \ {a}
  /\ UNCHANGED <<server, fixed, query, dialog, editor, requests, sent, outside, fails, acked>>

\* Another tab, another user, kubectl, the operator's status.
OutsideWrite(n) ==
  /\ outside < MaxOutside
  /\ \E f \in OutsideFlags \ {flags[n]} : Store(n, f)
  /\ outside' = outside + 1
  /\ UNCHANGED <<fixed, query, dialog, editor, network, fails, acked>>

-----------------------------------------------------------------------------
Init ==
  /\ flags \in InitLists /\ ver = 0 /\ changed = [n \in Names |-> 0]
  /\ role \in Roles /\ route \in Routes
  /\ data = None /\ listed = [list |-> None, ver |-> 0] /\ fetch = Idle
  /\ dialog = None /\ form = None /\ target = None /\ shared = FALSE
  /\ opened = 0 /\ base = None /\ edited = {}
  /\ requests = {} /\ answers = {} /\ sent = 0 /\ outside = 0 /\ fails = 0 /\ acked = 0

Next ==
  \/ Fetch \/ ServeList \/ Arrive \/ FetchFails
  \/ \E k \in {"toggle", "delete"}, n \in Names : Ask(k, n)
  \/ Dismiss \/ Confirm
  \/ \E n \in Names : OpenForm(n) \/ OutsideWrite(n)
  \/ CloseForm \/ EditField \/ RemoveRule
  \/ \E r \in Rules : AddRule(r) \/ ChangeRule(r)
  \/ Submit \/ ConfirmSave
  \/ \E c \in requests : Serve(c) \/ Refuse(c)
  \/ \E a \in answers : Succeed(a) \/ Fail(a)

Spec == Init /\ [][Next]_vars

\* While the page is open React Query goes on asking, and the API answers.
Polling == WF_vars(Fetch) /\ WF_vars(ServeList) /\ WF_vars(Arrive)

FairSpec == Spec /\ Polling
=============================================================================
