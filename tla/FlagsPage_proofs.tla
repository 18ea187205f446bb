-------------------------- MODULE FlagsPage_proofs --------------------------
(***************************************************************************)
(* Proofs about FlagsPage: for any flags, values, rules, inputs and        *)
(* filters, and any numbers of calls, forms, edits, other writers and      *)
(* failures.                                                               *)
(***************************************************************************)
EXTENDS FlagsPageProps, FiniteSetTheorems, TLAPS

\* The flags a list brought are those of its time: what was not changed since is so.
IsOfTime(l, v) == v <= ver /\ \A n \in Names : changed[n] <= v => flags[n] = l[n]

ListsAreOfTheirTime ==
  /\ \A n \in Names : changed[n] <= ver
  /\ listed.list # None => IsOfTime(listed.list, listed.ver)
  /\ fetch.at = "answered" => fetch.list # None /\ IsOfTime(fetch.list, fetch.ver)

\* The cached list is the one that arrived, but for rules that were written into it.
CacheIsOfList ==
  /\ data = None <=> listed.list = None
  /\ data # None => \A n \in Names :
       /\ data[n] = None <=> listed.list[n] = None
       /\ data[n] # None => data[n] = [listed.list[n] EXCEPT !.rules = data[n].rules]

\* A form belongs to a flag, and what was not edited in it is from the list behind it.
FormIsOfFlag ==
  /\ shared => form # None /\ data # None /\ data[target] # None
  /\ form # None =>
       /\ target \in Names /\ base # None
       /\ "value" \notin edited => form.value = base.value
       /\ "disabled" \notin edited => form.disabled = base.disabled
       /\ "desc" \notin edited => form.desc = base.desc
       /\ "delivery" \notin edited => Delivery(form) = Delivery(FormOf(base))
       /\ edited \cap {"rules", "earlier"} = {} => form.rules = base.rules

\* An announced toggle is of the value in its list, and that list of its time.
ToggleIsOfTime(t) ==
  t.kind = "toggle" =>
    /\ t.to = Announced(t.base.value)
    /\ t.at <= ver
    /\ changed[t.name] <= t.at => flags[t.name] = t.base

DialogIsOfPage ==
  dialog # None =>
    /\ sent < MaxCalls
    /\ ToggleIsOfTime(dialog)
    /\ dialog.kind = "update" => form # None /\ dialog.name = target /\ dialog.base = base

\* What a save carries although it was not edited is what its list had, or is left out.
SaveIsOfBase(c) ==
  c.kind = "update" =>
    /\ c.body # None
    /\ "value" \notin c.edits => c.body.value = c.base.value
    /\ "disabled" \notin c.edits => c.body.disabled = c.base.disabled
    /\ "desc" \notin c.edits => c.body.desc = c.base.desc
    /\ "delivery" \notin c.edits => c.body.delivery = Delivery(FormOf(c.base))
    /\ c.edits \cap {"rules", "earlier"} = {} => c.body.rules = c.base.rules

CallsAreSound ==
  /\ \A c \in requests : ToggleIsOfTime(c) /\ SaveIsOfBase(c)
  /\ \A answer \in answers : answer.did <= ver

\* The inductive invariant.
IInv ==
  /\ TypeOK
  /\ ListsAreOfTheirTime /\ CacheIsOfList
  /\ FormIsOfFlag /\ DialogIsOfPage /\ CallsAreSound
  /\ NoOldListAfterSuccess

-----------------------------------------------------------------------------
(* Flags, forms and bodies *)

\* A row that is shown is of a flag in the cached list, and in the list as it arrived.
LEMMA ShownAreFlags ==
  ASSUME IInv, NEW n \in Shown
  PROVE  /\ n \in Names /\ data # None /\ data[n] \in Flag
         /\ listed.list # None /\ listed.list[n] \in Flag
         /\ data[n] = [listed.list[n] EXCEPT !.rules = data[n].rules]
  <1>1. PICK g \in Filters : n \in Rows(g)
    BY DEF Shown
  <1>2. n \in Names /\ data # None /\ data[n] # None
    BY <1>1, FlagsPageConstants DEF Rows, Filter
  <1>3. data \in List /\ listed.list \in List /\ listed.list # None /\ listed.list[n] # None
    BY <1>2 DEF IInv, TypeOK, CacheIsOfList
  <1> QED
    BY <1>2, <1>3 DEF List, IInv, CacheIsOfList

\* A form may start from any flag.
LEMMA FormTyped == ASSUME NEW f \in Flag PROVE FormOf(f) \in Form
  <1>1. FirstMethod(f.delivery) \in Methods \cup {"none"}
    BY DEF FirstMethod, Methods
  <1>2. LabelText(f.delivery) \in LabelTexts
    <2>1. ASSUME NEW m \in Methods, HasLabels(f.delivery, m) PROVE f.delivery[m].labels \in Labels
      BY <2>1 DEF HasLabels, Flag, Deliveries, Selector
    <2> QED
      BY <2>1 DEF LabelText, LabelTexts, Methods
  <1> QED
    BY <1>1, <1>2 DEF FormOf, Form, Flag

\* Any form may be sent.
LEMMA SentTyped == ASSUME NEW m \in Form PROVE Sent(m) \in Body /\ Sent(m) # None
  <1>1. Delivery(m) \in Deliveries
    <2>1. NoDelivery \in Deliveries
      BY DEF NoDelivery, Deliveries
    <2>2. [labels |-> Parsed(m.labels), exprs |-> FALSE] \in Selector
      BY DEF Parsed, Selector
    <2>3. [NoDelivery EXCEPT ![m.method] = [labels |-> Parsed(m.labels), exprs |-> FALSE]] \in Deliveries
      BY <2>1, <2>2 DEF Deliveries
    <2> QED
      BY <2>1, <2>3 DEF Delivery
  <1>2. Sent(m) \in Body
    BY <1>1 DEF Sent, Body, Form
  <1> QED
    BY <1>2, FlagsPageConstants

\* What a change stores is a flag, or none.
LEMMA PatchedTyped == ASSUME NEW f \in Flag, NEW b \in Body PROVE Patched(f, b) \in Flag
  BY DEF Patched, Flag, Body

LEMMA FlippedTyped ==
  ASSUME NEW f \in Flag PROVE [f EXCEPT !.value = Flipped(@)] \in Flag
  BY FlagsPageConstants DEF Flag, Flipped

\* What a form that is saved as it was opened sends: no delivery, the flag's, or, of one
\* it does not show in full, a part.
LEMMA DeliveryOfForm ==
  ASSUME NEW f \in Flag
  PROVE  \/ Delivery(FormOf(f)) = NoDelivery
         \/ Delivery(FormOf(f)) = f.delivery
         \/ NotAllShown(f.delivery) /\ IsLeftOf(Delivery(FormOf(f)), f.delivery)
  <1> DEFINE d == f.delivery
             m == FirstMethod(d)
             sel == [labels |-> Parsed(LabelText(d)), exprs |-> FALSE]
  <1>1. d \in [Methods -> Selector \cup {None}]
    BY DEF Flag, Deliveries
  <1>2. SUFFICES ASSUME Delivery(FormOf(f)) # NoDelivery
                 PROVE  \/ Delivery(FormOf(f)) = d
                        \/ NotAllShown(d) /\ IsLeftOf(Delivery(FormOf(f)), d)
    OBVIOUS
  <1>3. /\ Delivery(FormOf(f)) = [NoDelivery EXCEPT ![m] = sel]
        /\ m \in {"envVar", "sidecar"} => LabelText(d) # Blank
        /\ m \in Methods
    BY <1>2 DEF Delivery, FormOf, Methods
  \* It is of the first delivery, whose labels are the ones shown.
  <1>4. /\ d[m] # None
        /\ d[m].labels # None => sel.labels = d[m].labels
    <2>1. \A k \in Methods : HasLabels(d, k) => d[k].labels \in Labels
      BY <1>1 DEF HasLabels, Selector
    <2>2. CASE m = "envVar"
      BY <2>1, <2>2 DEF FirstMethod, LabelText, HasLabels, Parsed, Methods
    <2>3. CASE m = "configMap"
      BY <2>1, <2>3 DEF FirstMethod, LabelText, HasLabels, Parsed, Methods
    <2>4. CASE m = "sidecar"
      <3>1. d["envVar"] = None /\ d["configMap"] = None
        BY <2>4 DEF FirstMethod
      <3> QED
        BY <1>3, <2>4, <3>1 DEF LabelText, HasLabels
    <2> QED
      BY <1>3, <2>2, <2>3, <2>4 DEF Methods
  <1>5. IsLeftOf(Delivery(FormOf(f)), d)
    <2> HIDE DEF m, sel
    <2>1. \A k \in Methods : k # m => [NoDelivery EXCEPT ![m] = sel][k] = None
      BY DEF NoDelivery
    <2>2. [NoDelivery EXCEPT ![m] = sel][m] = sel
      BY <1>3 DEF NoDelivery
    <2>3. ASSUME NEW k \in Methods, Delivery(FormOf(f))[k] # None
          PROVE  d[k] # None /\ (d[k].labels # None => Delivery(FormOf(f))[k].labels = d[k].labels)
      <3>1. k = m
        BY <1>3, <2>1, <2>3
      <3> QED
        BY <1>3, <1>4, <2>2, <3>1
    <2> QED
      BY <2>3 DEF IsLeftOf
  <1>6. ASSUME ~NotAllShown(d) PROVE Delivery(FormOf(f)) = d
    <2>1. \A k \in Methods : k # m => d[k] = None
      <3>1. ASSUME NEW k \in Methods, k # m, d[k] # None PROVE FALSE
        <4> HIDE DEF m
        <4> DEFINE there == {n \in Methods : d[n] # None}
        <4>1. IsFiniteSet(there)
          <5>1. Methods = ({"envVar"} \cup {"configMap"}) \cup {"sidecar"}
            BY DEF Methods
          <5>2. IsFiniteSet(Methods)
            BY <5>1, FS_Singleton, FS_AddElement
          <5> QED
            BY <5>2, FS_Subset
        <4>2. {m} \cup {k} \subseteq there
          BY <1>3, <1>4, <3>1
        <4>3. Cardinality({m} \cup {k}) = 2
          <5>1. IsFiniteSet({m}) /\ Cardinality({m}) = 1
            BY FS_Singleton
          <5>2. k \notin {m}
            BY <3>1
          <5> QED
            BY <5>1, <5>2, FS_AddElement
        <4>4. Cardinality({m} \cup {k}) <= Cardinality(there) /\ Cardinality(there) \in Nat
          BY <4>1, <4>2, FS_Subset, FS_CardinalityType
        <4> QED
          BY <1>6, <4>3, <4>4 DEF NotAllShown
      <3> QED
        BY <3>1
    <2>2. d[m] \in Selector /\ d[m].exprs = FALSE
      <3>1. d[m] \in Selector
        BY <1>1, <1>3, <1>4
      <3>2. ~d[m].exprs
        BY <1>3, <1>4, <1>6 DEF NotAllShown
      <3> QED
        BY <3>1, <3>2 DEF Selector
    <2>3. sel.labels = d[m].labels
      <3>1. SUFFICES ASSUME d[m].labels = None PROVE Parsed(LabelText(d)) = None
        BY <1>4
      <3>2. ~HasLabels(d, "envVar") /\ ~HasLabels(d, "configMap")
        BY <2>1, <3>1 DEF HasLabels, Methods
      <3>3. LabelText(d) = Blank
        BY <3>2 DEF LabelText
      <3> QED
        BY <3>3, FlagsPageConstants DEF Parsed
    <2>4. d[m] = sel
      BY <2>2, <2>3 DEF Selector
    <2>5. d = [NoDelivery EXCEPT ![m] = sel]
      <3> HIDE DEF m, sel
      <3> QED
        BY <1>1, <1>3, <2>1, <2>4 DEF NoDelivery
    <2> QED
      BY <1>3, <2>5
  <1> QED
    BY <1>5, <1>6

-----------------------------------------------------------------------------
(* What most actions leave alone *)

LEMMA ListsStay ==
  ASSUME IInv, UNCHANGED <<server, listed>>, UNCHANGED fetch \/ fetch'.at # "answered"
  PROVE  ListsAreOfTheirTime'
  BY DEF IInv, ListsAreOfTheirTime, IsOfTime, server

LEMMA CacheStays == ASSUME IInv, UNCHANGED <<data, listed>> PROVE CacheIsOfList'
  BY DEF IInv, CacheIsOfList

LEMMA FormStays == ASSUME IInv, UNCHANGED <<data, editor>> PROVE FormIsOfFlag'
  BY DEF IInv, FormIsOfFlag, editor, Delivery, FormOf, FirstMethod, LabelText, HasLabels

LEMMA DialogStays ==
  ASSUME IInv, UNCHANGED <<server, dialog, editor, sent>> PROVE DialogIsOfPage'
  BY DEF IInv, DialogIsOfPage, ToggleIsOfTime, Announced, server, editor

LEMMA CallsStay ==
  ASSUME IInv, UNCHANGED server, requests' \subseteq requests, answers' \subseteq answers
  PROVE  CallsAreSound'
  BY DEF IInv, CallsAreSound, ToggleIsOfTime, SaveIsOfBase, Announced, Delivery, FormOf, FirstMethod, LabelText, HasLabels, server

LEMMA ListStaysNew ==
  ASSUME IInv, UNCHANGED acked, UNCHANGED fetch \/ fetch'.at # "answered"
  PROVE  NoOldListAfterSuccess'
  BY DEF IInv, NoOldListAfterSuccess

-----------------------------------------------------------------------------
(* The list *)

LEMMA FetchesKeep == ASSUME IInv, Fetch \/ FetchFails PROVE IInv'
  <1>1. /\ UNCHANGED <<server, fixed, data, listed, dialog, editor, network, outside, acked>>
        /\ fetch' \in {Idle, Asked}
    BY DEF Fetch, FetchFails
  <1>2. fails' \in 0..MaxFails
    BY FlagsPageConstants DEF Fetch, FetchFails, IInv, TypeOK
  <1>3. TypeOK' /\ fetch'.at # "answered"
    BY <1>1, <1>2 DEF IInv, TypeOK, server, fixed, editor, network, Idle, Asked
  <1> QED
    BY <1>1, <1>3, ListsStay, CacheStays, FormStays, DialogStays, CallsStay, ListStaysNew
    DEF IInv, network

\* The list is read after every change, so after those the page was told of.
LEMMA ServeListKeeps == ASSUME IInv, ServeList PROVE IInv'
  <1>1. /\ UNCHANGED <<server, fixed, data, listed, dialog, editor, network, outside, fails, acked>>
        /\ fetch' = [at |-> "answered", list |-> flags, ver |-> ver]
    BY DEF ServeList
  <1>2. flags \in List /\ flags # None /\ ver \in Nat /\ acked \in 0..ver
    BY FlagsPageConstants DEF IInv, TypeOK
  <1>3. TypeOK'
    BY <1>1, <1>2 DEF IInv, TypeOK, server, fixed, editor, network
  <1>4. ListsAreOfTheirTime'
    BY <1>1, <1>2 DEF IInv, ListsAreOfTheirTime, IsOfTime, server
  <1>5. NoOldListAfterSuccess'
    BY <1>1, <1>2 DEF NoOldListAfterSuccess
  <1> QED
    BY <1>1, <1>3, <1>4, <1>5, CacheStays, FormStays, DialogStays, CallsStay DEF IInv, network

LEMMA ArriveKeeps == ASSUME IInv, Arrive PROVE IInv'
  <1>1. /\ UNCHANGED <<server, fixed, dialog, form, target, opened, base, edited, network, outside, fails, acked>>
        /\ data' = fetch.list /\ listed' = [list |-> fetch.list, ver |-> fetch.ver] /\ fetch' = Idle
        /\ shared' = (shared /\ fetch.list[target] # None /\ fetch.list[target].rules = data[target].rules)
    BY DEF Arrive
  <1>2. fetch.list \in List /\ fetch.list # None /\ fetch.ver \in Nat /\ IsOfTime(fetch.list, fetch.ver)
    BY DEF Arrive, IInv, TypeOK, ListsAreOfTheirTime
  <1>3. TypeOK'
    BY <1>1, <1>2 DEF IInv, TypeOK, server, fixed, network, Idle
  <1>4. ListsAreOfTheirTime'
    BY <1>1, <1>2 DEF IInv, ListsAreOfTheirTime, IsOfTime, server, Idle
  <1>5. CacheIsOfList'
    <2>1. ASSUME NEW n \in Names, data'[n] # None
          PROVE  data'[n] = [listed'.list[n] EXCEPT !.rules = data'[n].rules]
      BY <1>1, <1>2, <2>1 DEF List, Flag
    <2> QED
      BY <1>1, <1>2, <2>1 DEF CacheIsOfList
  <1>6. FormIsOfFlag'
    BY <1>1, <1>2 DEF IInv, FormIsOfFlag, Delivery, FormOf, FirstMethod, LabelText, HasLabels
  <1>7. DialogIsOfPage'
    BY <1>1 DEF IInv, DialogIsOfPage, ToggleIsOfTime, Announced, server, network
  <1> QED
    BY <1>1, <1>3, <1>4, <1>5, <1>6, <1>7, CallsStay, ListStaysNew DEF IInv, network, Idle

-----------------------------------------------------------------------------
(* Toggle and delete *)

LEMMA AskKeeps == ASSUME IInv, NEW kind \in {"toggle", "delete"}, NEW n \in Names, Ask(kind, n) PROVE IInv'
  <1>1. /\ UNCHANGED <<server, fixed, query, editor, network, outside, fails, acked>>
        /\ n \in Shown /\ sent < MaxCalls
        /\ dialog' = [kind |-> kind, name |-> n, to |-> Announced(data[n].value),
                      base |-> listed.list[n], at |-> listed.ver]
    BY DEF Ask
  <1>2. /\ listed.list # None /\ listed.list[n] \in Flag
        /\ data[n] = [listed.list[n] EXCEPT !.rules = data[n].rules]
    BY <1>1, ShownAreFlags
  <1>3. data[n].value = listed.list[n].value
    BY <1>2 DEF Flag
  <1>4. Announced(data[n].value) \in Values
    BY FlagsPageConstants DEF Announced
  <1>5. listed.ver \in Nat
    BY DEF IInv, TypeOK
  <1>6. TypeOK'
    BY <1>1, <1>2, <1>4, <1>5 DEF IInv, TypeOK, server, fixed, query, editor, network
  <1>7. ToggleIsOfTime(dialog)'
    BY <1>1, <1>2, <1>3 DEF ToggleIsOfTime, IInv, ListsAreOfTheirTime, IsOfTime, server, Announced
  <1>8. DialogIsOfPage'
    BY <1>1, <1>7 DEF DialogIsOfPage, network
  <1> QED
    BY <1>1, <1>6, <1>8, ListsStay, CacheStays, FormStays, CallsStay, ListStaysNew DEF IInv, query, network

LEMMA DismissKeeps == ASSUME IInv, Dismiss PROVE IInv'
  <1>1. UNCHANGED <<server, fixed, query, editor, network, outside, fails, acked>> /\ dialog' = None
    BY DEF Dismiss
  <1>2. TypeOK'
    BY <1>1 DEF IInv, TypeOK, server, fixed, query, editor, network
  <1>3. DialogIsOfPage'
    BY <1>1 DEF DialogIsOfPage
  <1> QED
    BY <1>1, <1>2, <1>3, ListsStay, CacheStays, FormStays, CallsStay, ListStaysNew DEF IInv, query, network

\* What a confirmed dialog sends is well typed, and a toggle is of its time.
LEMMA SendTyped ==
  ASSUME IInv, dialog # None, NEW body \in Body \cup {None}, NEW f \in Nat, NEW e \in SUBSET Touches,
         Send(body, f, e)
  PROVE  /\ sent' \in 0..MaxCalls /\ requests' \subseteq Request /\ answers' \subseteq Answer
         /\ \E c \in Request :
              /\ requests' = requests \cup {c}
              /\ c.kind = dialog.kind /\ c.body = body /\ c.base = dialog.base /\ c.edits = e
              /\ ToggleIsOfTime(c)
  <1> DEFINE c == [id |-> sent', kind |-> dialog.kind, name |-> dialog.name, body |-> body, from |-> f,
                   to |-> dialog.to, base |-> dialog.base, at |-> dialog.at, edits |-> e]
  <1>1. sent \in 0..MaxCalls /\ sent < MaxCalls /\ sent' = sent + 1 /\ MaxCalls \in Nat
    BY FlagsPageConstants DEF Send, IInv, TypeOK, DialogIsOfPage
  <1>2. sent' \in 0..MaxCalls /\ sent' \in 1..MaxCalls
    BY <1>1
  <1>3. dialog \in [kind : {"toggle", "delete", "update"}, name : Names,
                    to : Values \cup {None}, base : Flag, at : Nat]
    BY DEF IInv, TypeOK
  <1>4. c \in Request
    BY <1>2, <1>3 DEF Request, Kinds
  <1>5. requests' = requests \cup {c} /\ answers' = answers
    BY DEF Send
  <1>6. ToggleIsOfTime(c)
    BY DEF IInv, DialogIsOfPage, ToggleIsOfTime, Announced
  <1>7. c.kind = dialog.kind /\ c.body = body /\ c.base = dialog.base /\ c.edits = e
    OBVIOUS
  <1> HIDE DEF c
  <1>8. requests \subseteq Request /\ answers \subseteq Answer
    BY DEF IInv, TypeOK
  <1> QED
    BY <1>2, <1>4, <1>5, <1>6, <1>7, <1>8

\* Sending keeps the invariant if a save carries what it should.
LEMMA SendKeeps ==
  ASSUME IInv, dialog # None, dialog' = None, NEW body \in Body \cup {None}, NEW f \in Nat, NEW e \in SUBSET Touches,
         Send(body, f, e), UNCHANGED <<server, fixed, query, editor, outside, fails, acked>>,
         \A c \in Request : c.kind = dialog.kind /\ c.body = body /\ c.base = dialog.base /\ c.edits = e
                              => SaveIsOfBase(c)
  PROVE  IInv'
  <1>1. /\ sent' \in 0..MaxCalls /\ requests' \subseteq Request /\ answers' \subseteq Answer
        /\ \E c \in Request :
              /\ requests' = requests \cup {c}
              /\ c.kind = dialog.kind /\ c.body = body /\ c.base = dialog.base /\ c.edits = e
              /\ ToggleIsOfTime(c)
    BY SendTyped
  <1>2. PICK c \in Request : requests' = requests \cup {c} /\ ToggleIsOfTime(c) /\ SaveIsOfBase(c)
    BY <1>1
  <1>3. TypeOK'
    BY <1>1 DEF IInv, TypeOK, server, fixed, query, editor
  <1>4. CallsAreSound'
    <2>1. ASSUME NEW d \in requests' PROVE ToggleIsOfTime(d) /\ SaveIsOfBase(d)
      BY <1>2 DEF IInv, CallsAreSound
    <2>2. answers' = answers
      BY DEF Send
    <2> QED
      BY <2>1, <2>2 DEF IInv, CallsAreSound, ToggleIsOfTime, SaveIsOfBase, Announced, Delivery, FormOf, FirstMethod, LabelText, HasLabels, server
  <1>5. DialogIsOfPage'
    BY DEF DialogIsOfPage
  <1> QED
    BY <1>3, <1>4, <1>5, ListsStay, CacheStays, FormStays, ListStaysNew DEF IInv, query

LEMMA ConfirmKeeps == ASSUME IInv, Confirm PROVE IInv'
  <1>1. /\ dialog # None /\ dialog.kind # "update" /\ dialog' = None /\ Send(None, 0, {})
        /\ UNCHANGED <<server, fixed, query, editor, outside, fails, acked>>
    BY DEF Confirm
  <1>2. \A c \in Request : c.kind = dialog.kind => SaveIsOfBase(c)
    BY <1>1 DEF SaveIsOfBase
  <1> QED
    BY <1>1, <1>2, SendKeeps

-----------------------------------------------------------------------------
(* The edit form *)

LEMMA OpenFormKeeps == ASSUME IInv, NEW n \in Names, OpenForm(n) PROVE IInv'
  <1>1. /\ UNCHANGED <<server, fixed, query, dialog, network, outside, fails, acked>>
        /\ dialog = None /\ n \in Shown /\ opened < MaxOpens /\ opened' = opened + 1
        /\ form' = FormOf(data[n]) /\ target' = n /\ shared' = (data[n].rules # <<>>)
        /\ base' = listed.list[n] /\ edited' = IF data[n].rules = base'.rules THEN {} ELSE {"earlier"}
    BY DEF OpenForm
  <1>2. /\ data # None /\ data[n] \in Flag /\ listed.list[n] \in Flag
        /\ data[n] = [listed.list[n] EXCEPT !.rules = data[n].rules]
    BY <1>1, ShownAreFlags
  <1>3. form' \in Form
    BY <1>1, <1>2, FormTyped
  <1>4. opened' \in 0..MaxOpens
    BY <1>1, FlagsPageConstants DEF IInv, TypeOK
  <1>5. edited' \subseteq Touches /\ data[n] # None /\ base' # None
    BY <1>1, <1>2, FlagsPageConstants DEF Touches
  <1>6. TypeOK'
    BY <1>1, <1>2, <1>3, <1>4, <1>5 DEF IInv, TypeOK, server, fixed, query, network
  <1>7. FormIsOfFlag'
    <2>1. /\ data[n].value = base'.value /\ data[n].disabled = base'.disabled
          /\ data[n].desc = base'.desc /\ data[n].delivery = base'.delivery
      BY <1>1, <1>2 DEF Flag
    <2>2. /\ form'.value = base'.value /\ form'.disabled = base'.disabled /\ form'.desc = base'.desc
          /\ form'.rules = data[n].rules
      BY <1>1, <2>1 DEF FormOf
    <2>3. Delivery(form') = Delivery(FormOf(base'))
      BY <1>1, <2>1 DEF Delivery, FormOf, FirstMethod, LabelText, HasLabels
    <2>4. edited' \cap {"rules", "earlier"} = {} => data[n].rules = base'.rules
      BY <1>1
    <2>5. data' = data /\ form' # None
      BY <1>1, <1>3, FlagsPageConstants DEF query
    <2> QED
      BY <1>1, <1>2, <1>5, <2>2, <2>3, <2>4, <2>5 DEF FormIsOfFlag, Delivery, FormOf, FirstMethod, LabelText, HasLabels
  <1>8. DialogIsOfPage'
    BY <1>1 DEF DialogIsOfPage
  <1> QED
    BY <1>1, <1>6, <1>7, <1>8, ListsStay, CacheStays, CallsStay, ListStaysNew DEF IInv, query, network

LEMMA CloseFormKeeps == ASSUME IInv, CloseForm PROVE IInv'
  <1>1. /\ UNCHANGED <<server, fixed, query, dialog, network, outside, fails, acked, opened>>
        /\ dialog = None /\ form' = None /\ target' = None /\ ~shared' /\ base' = None /\ edited' = {}
    BY DEF CloseForm, Editing, NoForm
  <1>2. TypeOK' /\ shared' = FALSE
    BY <1>1 DEF CloseForm, NoForm, IInv, TypeOK, server, fixed, query, network
  <1>3. FormIsOfFlag' /\ DialogIsOfPage'
    BY <1>1 DEF FormIsOfFlag, DialogIsOfPage
  <1> QED
    BY <1>1, <1>2, <1>3, ListsStay, CacheStays, CallsStay, ListStaysNew DEF IInv, query, network

\* An edit keeps the invariant if the form keeps its type and what was not edited, and
\* if what it does to the cache is to rules.
LEMMA BecomesKeeps ==
  ASSUME IInv, Editing, NEW m \in Form, NEW f \in Fields, Becomes(m, f),
         f # "value" => m.value = form.value,
         f # "disabled" => m.disabled = form.disabled,
         f # "desc" => m.desc = form.desc,
         f # "delivery" => Delivery(m) = Delivery(form),
         f # "rules" => m.rules = form.rules,
         shared' \in BOOLEAN, shared' => shared,
         data' \in List \cup {None}, CacheIsOfList',
         shared => data' # None /\ data'[target] # None
  PROVE  IInv'
  <1>1. /\ UNCHANGED <<server, fixed, listed, fetch, dialog, target, opened, base, network, outside, fails, acked>>
        /\ form' = m /\ edited' = edited \cup {f} /\ form # None /\ dialog = None
    BY DEF Becomes, Editing
  <1>2. m # None
    BY FlagsPageConstants
  <1>3. TypeOK'
    <2>1. edited' \subseteq Touches
      BY <1>1 DEF IInv, TypeOK, Touches
    <2> QED
      BY <1>1, <2>1 DEF IInv, TypeOK, server, fixed, network
  <1>4. FormIsOfFlag'
    <2>1. /\ target' \in Names /\ base' # None
      BY <1>1 DEF IInv, FormIsOfFlag
    <2>2. /\ "value" \notin edited' => form'.value = base'.value
          /\ "disabled" \notin edited' => form'.disabled = base'.disabled
          /\ "desc" \notin edited' => form'.desc = base'.desc
          /\ edited' \cap {"rules", "earlier"} = {} => form'.rules = base'.rules
      BY <1>1 DEF IInv, FormIsOfFlag
    <2>3. "delivery" \notin edited' => Delivery(form') = Delivery(FormOf(base'))
      BY <1>1 DEF IInv, FormIsOfFlag
    <2>4. shared' => form' # None /\ data' # None /\ data'[target'] # None
      BY <1>1, <1>2
    <2> QED
      BY <2>1, <2>2, <2>3, <2>4 DEF FormIsOfFlag, Delivery, FormOf, FirstMethod, LabelText, HasLabels
  <1>5. DialogIsOfPage'
    BY <1>1 DEF DialogIsOfPage
  <1> QED
    BY <1>1, <1>3, <1>4, <1>5, ListsStay, CallsStay, ListStaysNew DEF IInv, network

LEMMA EditFieldKeeps == ASSUME IInv, EditField PROVE IInv'
  <1>1. PICK f \in Editable : \E m \in Inputs(f) : Becomes(m, f)
    BY DEF EditField
  <1>0. PICK m \in Inputs(f) : Becomes(m, f)
    BY <1>1
  <1>2. f \in {"value", "disabled", "desc", "delivery"} /\ f \in Fields
    BY FlagsPageConstants DEF Fields
  <1>3. Editing /\ UNCHANGED <<data, shared>> /\ form \in Form
    BY DEF EditField, Editing, IInv, TypeOK
  <1>4. /\ m \in Form
        /\ f # "value" => m.value = form.value
        /\ f # "disabled" => m.disabled = form.disabled
        /\ f # "desc" => m.desc = form.desc
        /\ f # "delivery" => /\ m.method = form.method
                             /\ m.labels = form.labels
                             /\ m.cmName = form.cmName
        /\ m.rules = form.rules
    <2>1. CASE f = "value"
      <3>1. PICK v \in Values : m = [form EXCEPT !.value = v]
        BY <1>0, <2>1 DEF Inputs
      <3> QED
        BY <1>3, <2>1, <3>1 DEF Form
    <2>2. CASE f = "disabled"
      <3>1. m = [form EXCEPT !.disabled = ~form.disabled]
        BY <1>0, <2>2 DEF Inputs
      <3> QED
        BY <1>3, <2>2, <3>1 DEF Form
    <2>3. CASE f = "desc"
      <3>1. PICK t \in Texts : m = [form EXCEPT !.desc = t]
        BY <1>0, <2>3 DEF Inputs
      <3> QED
        BY <1>3, <2>3, <3>1 DEF Form
    <2>4. CASE f = "delivery"
      <3>1. PICK d \in DeliveryInputs :
              m = [form EXCEPT !.method = d.method, !.labels = d.labels, !.cmName = d.cmName]
        BY <1>0, <2>4 DEF Inputs
      <3>2. d \in DeliveryInput
        BY FlagsPageConstants
      <3> QED
        BY <1>3, <2>4, <3>1, <3>2 DEF Form, DeliveryInput
    <2> QED
      BY <1>2, <2>1, <2>2, <2>3, <2>4
  <1>5. f # "delivery" => Delivery(m) = Delivery(form)
    BY <1>4 DEF Delivery
  <1>6. /\ shared' \in BOOLEAN /\ (shared' => shared)
        /\ data' \in List \cup {None}
        /\ shared => data' # None /\ data'[target] # None
    BY <1>3 DEF IInv, TypeOK, FormIsOfFlag
  <1>7. CacheIsOfList'
    BY <1>0, <1>3, CacheStays DEF Becomes
  <1> QED
    BY <1>0, <1>2, <1>3, <1>4, <1>5, <1>6, <1>7, BecomesKeeps

\* Rules of the form's own.
LEMMA OwnRulesKeep == ASSUME IInv, RemoveRule \/ \E r \in Rules : AddRule(r) PROVE IInv'
  <1>1. PICK rs \in RuleLists : Becomes([form EXCEPT !.rules = rs], "rules")
    BY DEF RemoveRule, AddRule, RuleLists
  <1>2. /\ Editing /\ data' = data /\ form \in Form
        /\ shared' \in BOOLEAN /\ (shared' => shared)
    <2>1. Editing /\ data' = data /\ form \in Form
      BY DEF RemoveRule, AddRule, Editing, IInv, TypeOK
    <2>2. shared \in BOOLEAN
      BY DEF IInv, TypeOK
    <2>3. shared' = FALSE \/ shared' = shared
      BY DEF RemoveRule, AddRule
    <2>4. shared' \in BOOLEAN
      BY <2>2, <2>3
    <2>5. shared' => shared
      BY <2>3
    <2> QED
      BY <2>1, <2>4, <2>5
  <1> DEFINE m == [form EXCEPT !.rules = rs]
  <1>3. /\ m \in Form /\ m.value = form.value /\ m.disabled = form.disabled /\ m.desc = form.desc
        /\ Delivery(m) = Delivery(form)
    BY <1>2 DEF Form, Delivery
  <1>4. /\ data' \in List \cup {None}
        /\ shared => data' # None /\ data'[target] # None
    BY <1>2 DEF IInv, TypeOK, FormIsOfFlag
  <1>5. CacheIsOfList'
    BY <1>1, <1>2, CacheStays DEF Becomes
  <1>6. "rules" \in Fields
    BY DEF Fields
  <1> HIDE DEF m
  <1> QED
    BY <1>1, <1>2, <1>3, <1>4, <1>5, <1>6, BecomesKeeps DEF m

\* Rules written into the object that the form shares with the cache.
LEMMA ChangeRuleKeeps == ASSUME IInv, NEW r \in Rules, ChangeRule(r) PROVE IInv'
  <1> DEFINE m == [form EXCEPT !.rules = <<r>>]
  <1>1. /\ Editing /\ Becomes(m, "rules") /\ shared' = shared /\ form \in Form /\ shared \in BOOLEAN
        /\ data' = IF shared THEN [data EXCEPT ![target].rules = <<r>>] ELSE data
    BY DEF ChangeRule, Editing, IInv, TypeOK
  <1>2. /\ m \in Form /\ m.value = form.value /\ m.disabled = form.disabled /\ m.desc = form.desc
        /\ Delivery(m) = Delivery(form)
    BY <1>1 DEF Form, Delivery, RuleLists
  <1>3. "rules" \in Fields
    BY DEF Fields
  <1> HIDE DEF m
  <1>4. CASE ~shared
    <2>1. data' = data /\ listed' = listed
      BY <1>1, <1>4 DEF Becomes
    <2>2. CacheIsOfList'
      BY <2>1, CacheStays
    <2>3. data' \in List \cup {None}
      BY <2>1 DEF IInv, TypeOK
    <2> QED
      BY <1>1, <1>2, <1>3, <1>4, <2>2, <2>3, BecomesKeeps
  <1>5. CASE shared
    <2>1. /\ target \in Names /\ data \in List /\ data[target] \in Flag /\ listed' = listed
          /\ listed.list \in List /\ listed.list # None
      BY <1>1, <1>5 DEF IInv, TypeOK, FormIsOfFlag, CacheIsOfList, List, Editing, Becomes
    <2> DEFINE g == [data[target] EXCEPT !.rules = <<r>>]
    <2>2. g \in Flag /\ g # None /\ g = [data[target] EXCEPT !.rules = g.rules]
      BY <2>1, FlagsPageConstants DEF Flag, RuleLists
    <2>3. data' = [data EXCEPT ![target] = g]
      BY <1>1, <1>5
    <2>4. data[target] = [listed.list[target] EXCEPT !.rules = data[target].rules]
          /\ listed.list[target] \in Flag
      BY <2>1, FlagsPageConstants DEF IInv, CacheIsOfList, List
    <2>5. g = [listed.list[target] EXCEPT !.rules = g.rules]
      BY <2>2, <2>4 DEF Flag
    <2> HIDE DEF g
    <2>6. data' \in List /\ data' # None /\ data'[target] = g
      BY <2>1, <2>2, <2>3, FlagsPageConstants DEF List
    <2>7. CacheIsOfList'
      <3>1. \A n \in Names : n # target => data'[n] = data[n]
        BY <2>1, <2>3 DEF List
      <3>2. data # None
        BY <2>1, FlagsPageConstants
      <3>3. \A n \in Names : /\ data'[n] = None <=> listed.list[n] = None
                             /\ data'[n] # None => data'[n] = [listed.list[n] EXCEPT !.rules = data'[n].rules]
        <4> TAKE n \in Names
        <4>1. CASE n = target
          BY <4>1, <2>2, <2>4, <2>5, <2>6, FlagsPageConstants
        <4>2. CASE n # target
          BY <4>2, <3>1, <3>2 DEF IInv, CacheIsOfList
        <4> QED
          BY <4>1, <4>2
      <3> QED
        BY <2>1, <2>6, <3>3 DEF CacheIsOfList
    <2> QED
      BY <1>1, <1>2, <1>3, <2>2, <2>6, <2>7, BecomesKeeps
  <1> QED
    BY <1>1, <1>4, <1>5

LEMMA SubmitKeeps == ASSUME IInv, Submit PROVE IInv'
  <1>1. /\ UNCHANGED <<server, fixed, query, editor, network, outside, fails, acked>>
        /\ form # None /\ sent < MaxCalls
        /\ dialog' = [kind |-> "update", name |-> target, to |-> None, base |-> base, at |-> 0]
    BY DEF Submit, Editing
  <1>2. target \in Names /\ base \in Flag
    BY <1>1 DEF IInv, TypeOK, FormIsOfFlag
  <1>3. TypeOK'
    BY <1>1, <1>2 DEF IInv, TypeOK, server, fixed, query, editor, network
  <1>4. DialogIsOfPage'
    BY <1>1 DEF DialogIsOfPage, ToggleIsOfTime, editor, network
  <1> QED
    BY <1>1, <1>3, <1>4, ListsStay, CacheStays, FormStays, CallsStay, ListStaysNew DEF IInv, query, network

LEMMA ConfirmSaveKeeps == ASSUME IInv, ConfirmSave PROVE IInv'
  <1>1. /\ dialog # None /\ dialog.kind = "update" /\ dialog' = None /\ Send(Sent(form), opened, edited)
        /\ UNCHANGED <<server, fixed, query, editor, outside, fails, acked>>
    BY DEF ConfirmSave
  <1>2. form \in Form /\ form # None /\ dialog.base = base /\ opened \in Nat /\ edited \in SUBSET Touches
    BY <1>1, FlagsPageConstants DEF IInv, TypeOK, DialogIsOfPage
  <1>3. Sent(form) \in Body /\ Sent(form) # None
    BY <1>2, SentTyped
  <1>4. ASSUME NEW c \in Request, c.body = Sent(form), c.base = base, c.edits = edited
        PROVE  SaveIsOfBase(c)
    <2>1. /\ c.body.value = form.value /\ c.body.disabled = form.disabled /\ c.body.desc = form.desc
          /\ c.body.delivery = Delivery(form) /\ c.body.rules = form.rules
      BY <1>4 DEF Sent
    <2> QED
      BY <1>2, <1>3, <1>4, <2>1 DEF SaveIsOfBase, IInv, FormIsOfFlag
  <1> QED
    BY <1>1, <1>2, <1>3, <1>4, SendKeeps

-----------------------------------------------------------------------------
(* The API *)

\* A change keeps every statement about lists and toggles of earlier times: it makes
\* its flag newer than all of them.
LEMMA StoreKeeps ==
  ASSUME IInv, NEW n \in Names, NEW f \in Flag \cup {None}, Store(n, f)
  PROVE  /\ flags' \in List /\ ver' = ver + 1 /\ changed' \in [Names -> Nat]
         /\ ver \in Nat /\ ver' \in Nat /\ \A v \in 0..ver : v \in 0..ver'
         /\ flags'[n] = f
         /\ UNCHANGED <<listed, fetch>> => ListsAreOfTheirTime'
         /\ \A t : t.name \in Names /\ t.at \in Nat /\ ToggleIsOfTime(t) => ToggleIsOfTime(t)'
  <1>1. /\ flags' = [flags EXCEPT ![n] = f] /\ ver' = ver + 1 /\ changed' = [changed EXCEPT ![n] = ver + 1]
        /\ flags \in List /\ ver \in Nat /\ changed \in [Names -> Nat]
    BY DEF Store, IInv, TypeOK
  <1>2. /\ flags' \in List /\ changed' \in [Names -> Nat]
        /\ flags'[n] = f /\ changed'[n] = ver + 1
        /\ \A m \in Names : m # n => flags'[m] = flags[m] /\ changed'[m] = changed[m]
    BY <1>1 DEF List
  <1>3. ASSUME NEW l, NEW v \in Nat, IsOfTime(l, v) PROVE IsOfTime(l, v)'
    BY <1>1, <1>2, <1>3 DEF IsOfTime
  <1>4. ASSUME UNCHANGED <<listed, fetch>> PROVE ListsAreOfTheirTime'
    <2>1. listed.ver \in Nat /\ fetch.ver \in Nat
      BY DEF IInv, TypeOK
    <2>2. \A m \in Names : changed'[m] <= ver'
      BY <1>1, <1>2 DEF IInv, ListsAreOfTheirTime
    <2>3. listed.list # None => IsOfTime(listed.list, listed.ver)'
      BY <1>3, <1>4, <2>1 DEF IInv, ListsAreOfTheirTime
    <2>4. fetch.at = "answered" => fetch.list # None /\ IsOfTime(fetch.list, fetch.ver)'
      BY <1>3, <1>4, <2>1 DEF IInv, ListsAreOfTheirTime
    <2> QED
      BY <1>4, <2>2, <2>3, <2>4 DEF ListsAreOfTheirTime
  <1>5. ASSUME NEW t, t.name \in Names, t.at \in Nat, ToggleIsOfTime(t) PROVE ToggleIsOfTime(t)'
    BY <1>1, <1>2, <1>5 DEF ToggleIsOfTime, Announced
  <1> QED
    BY <1>1, <1>2, <1>4, <1>5

\* The same for the page around it.
LEMMA StoreKeepsPage ==
  ASSUME IInv, NEW n \in Names, NEW f \in Flag \cup {None}, Store(n, f),
         UNCHANGED <<fixed, query, dialog, editor, sent, acked>>
  PROVE  /\ ListsAreOfTheirTime' /\ CacheIsOfList' /\ FormIsOfFlag' /\ DialogIsOfPage' /\ NoOldListAfterSuccess'
         /\ \A c \in requests : ToggleIsOfTime(c)' /\ SaveIsOfBase(c)
  <1>1. \A t : t.name \in Names /\ t.at \in Nat /\ ToggleIsOfTime(t) => ToggleIsOfTime(t)'
    BY StoreKeeps
  <1>2. ListsAreOfTheirTime'
    BY StoreKeeps DEF query
  <1>3. DialogIsOfPage'
    <2>1. dialog # None => dialog.name \in Names /\ dialog.at \in Nat /\ ToggleIsOfTime(dialog)
      BY DEF IInv, TypeOK, DialogIsOfPage
    <2>2. \A t : dialog' = t => (dialog # None => ToggleIsOfTime(dialog)')
      BY <1>1, <2>1 DEF ToggleIsOfTime, Announced
    <2> QED
      BY <2>1, <2>2 DEF IInv, DialogIsOfPage, editor
  <1>4. \A c \in requests : ToggleIsOfTime(c)' /\ SaveIsOfBase(c)
    BY <1>1 DEF IInv, TypeOK, CallsAreSound, Request
  <1> QED
    BY <1>2, <1>3, <1>4, CacheStays, FormStays, ListStaysNew DEF query

LEMMA OutsideWriteKeeps == ASSUME IInv, NEW n \in Names, OutsideWrite(n) PROVE IInv'
  <1>1. PICK f \in OutsideFlags \ {flags[n]} : Store(n, f)
    BY DEF OutsideWrite
  <1>2. f \in Flag \cup {None}
    BY FlagsPageConstants
  <1>3. UNCHANGED <<fixed, query, dialog, editor, network, fails, acked>>
    BY DEF OutsideWrite
  <1>4. outside' \in 0..MaxOutside
    BY FlagsPageConstants DEF OutsideWrite, IInv, TypeOK
  <1>5. /\ flags' \in List /\ ver' \in Nat /\ changed' \in [Names -> Nat]
        /\ \A v \in 0..ver : v \in 0..ver'
    BY <1>1, <1>2, StoreKeeps
  <1>6. TypeOK'
    BY <1>3, <1>4, <1>5 DEF IInv, TypeOK, fixed, query, editor, network
  <1>7. /\ ListsAreOfTheirTime' /\ CacheIsOfList' /\ FormIsOfFlag' /\ DialogIsOfPage' /\ NoOldListAfterSuccess'
        /\ \A c \in requests : ToggleIsOfTime(c)' /\ SaveIsOfBase(c)
    BY <1>1, <1>2, <1>3, StoreKeepsPage DEF network
  <1>8. CallsAreSound'
    <2>1. \A answer \in answers : answer.did <= ver'
      BY <1>1 DEF IInv, TypeOK, CallsAreSound, Answer, Store
    <2> QED
      BY <1>3, <1>7, <2>1 DEF CallsAreSound, ToggleIsOfTime, SaveIsOfBase, Announced, Delivery, FormOf, FirstMethod, LabelText, HasLabels, network
  <1> QED
    BY <1>6, <1>7, <1>8 DEF IInv

\* What a served change stores is a flag, or none.
LEMMA ResultTyped == ASSUME IInv, NEW c \in requests, Finds(c) PROVE Result(c) \in Flag \cup {None}
  <1>1. c \in Request /\ flags[c.name] \in Flag
    BY DEF IInv, TypeOK, Request, List, Finds
  <1>2. CASE c.kind = "delete"
    BY <1>2 DEF Result
  <1>3. CASE c.kind = "toggle"
    BY <1>1, <1>3, FlippedTyped DEF Result
  <1>4. CASE c.kind = "update"
    <2>1. c.body \in Body
      BY <1>1, <1>4 DEF Request, IInv, CallsAreSound, SaveIsOfBase
    <2> QED
      BY <1>1, <1>4, <2>1, PatchedTyped DEF Result
  <1> QED
    BY <1>1, <1>2, <1>3, <1>4 DEF Request, Kinds

\* An answer is well typed, and of a change that was made.
LEMMA AnsweredTyped ==
  ASSUME IInv, NEW c \in requests, NEW result \in {"ok", "error", "forbidden"}, NEW did \in Nat,
         Answered(c, result, did)
  PROVE  /\ requests' \subseteq requests /\ requests' \subseteq Request /\ answers' \subseteq Answer
         /\ sent' = sent
         /\ \A answer \in answers' : answer \in answers \/ answer.did = did
  <1>1. c \in Request
    BY DEF IInv, TypeOK
  <1>2. [id |-> c.id, kind |-> c.kind, from |-> c.from, result |-> result, did |-> did] \in Answer
    BY <1>1 DEF Request, Answer
  <1> QED
    BY <1>2 DEF Answered, IInv, TypeOK

LEMMA ServeKeeps == ASSUME IInv, NEW c \in requests, Serve(c) PROVE IInv'
  <1>1. /\ Finds(c) /\ Store(c.name, Result(c))
        /\ UNCHANGED <<fixed, query, dialog, editor, outside, acked>>
    BY DEF Serve
  <1>2. c.name \in Names /\ Result(c) \in Flag \cup {None}
    BY <1>1, ResultTyped DEF IInv, TypeOK, Request
  <1>3. PICK result \in {"ok", "error"} : Answered(c, result, ver + 1)
    BY DEF Serve, Relayed
  <1>4. fails' \in 0..MaxFails
    BY FlagsPageConstants DEF Serve, IInv, TypeOK
  <1>5. /\ flags' \in List /\ ver \in Nat /\ ver' = ver + 1 /\ ver' \in Nat /\ changed' \in [Names -> Nat]
        /\ \A v \in 0..ver : v \in 0..ver'
    BY <1>1, <1>2, StoreKeeps
  <1>6. /\ requests' \subseteq requests /\ requests' \subseteq Request /\ answers' \subseteq Answer
        /\ sent' = sent
        /\ \A answer \in answers' : answer \in answers \/ answer.did = ver + 1
    BY <1>3, <1>5, AnsweredTyped
  <1>7. TypeOK'
    BY <1>1, <1>4, <1>5, <1>6 DEF IInv, TypeOK, fixed, query, editor
  <1>8. /\ ListsAreOfTheirTime' /\ CacheIsOfList' /\ FormIsOfFlag' /\ DialogIsOfPage' /\ NoOldListAfterSuccess'
        /\ \A d \in requests : ToggleIsOfTime(d)' /\ SaveIsOfBase(d)
    BY <1>1, <1>2, <1>6, StoreKeepsPage
  <1>9. CallsAreSound'
    <2>1. \A answer \in answers : answer.did <= ver /\ answer.did \in Nat
      BY DEF IInv, TypeOK, CallsAreSound, Answer
    <2>2. \A answer \in answers' : answer.did <= ver'
      BY <1>5, <1>6, <2>1
    <2> QED
      BY <1>6, <1>8, <2>2 DEF CallsAreSound, ToggleIsOfTime, SaveIsOfBase, Announced, Delivery, FormOf, FirstMethod, LabelText, HasLabels
  <1> QED
    BY <1>7, <1>8, <1>9 DEF IInv

LEMMA RefuseKeeps == ASSUME IInv, NEW c \in requests, Refuse(c) PROVE IInv'
  <1>1. UNCHANGED <<server, fixed, query, dialog, editor, outside, acked>>
    BY DEF Refuse
  <1>2. PICK result \in {"error", "forbidden"} : Answered(c, result, 0)
    BY DEF Refuse
  <1>3. fails' \in 0..MaxFails
    BY FlagsPageConstants DEF Refuse, IInv, TypeOK
  <1>4. /\ requests' \subseteq requests /\ requests' \subseteq Request /\ answers' \subseteq Answer
        /\ sent' = sent
        /\ \A answer \in answers' : answer \in answers \/ answer.did = 0
    BY <1>2, AnsweredTyped
  <1>5. TypeOK'
    BY <1>1, <1>3, <1>4 DEF IInv, TypeOK, server, fixed, query, editor
  <1>6. CallsAreSound'
    <2>1. \A answer \in answers' : answer.did <= ver'
      BY <1>1, <1>4 DEF IInv, TypeOK, CallsAreSound, server
    <2> QED
      BY <1>1, <1>4, <2>1
      DEF IInv, CallsAreSound, ToggleIsOfTime, SaveIsOfBase, Announced, Delivery, FormOf, FirstMethod, LabelText, HasLabels, server
  <1> QED
    BY <1>1, <1>4, <1>5, <1>6, ListsStay, CacheStays, FormStays, DialogStays, ListStaysNew DEF IInv, query

\* The list that a success asks for will be read later than the change it is about.
LEMMA SucceedKeeps == ASSUME IInv, NEW answer \in answers, Succeed(answer) PROVE IInv'
  <1>1. /\ UNCHANGED <<server, fixed, data, listed, requests, sent, outside, fails>>
        /\ fetch' = Asked /\ answers' \subseteq answers
        /\ acked' = IF answer.did > acked THEN answer.did ELSE acked
    BY DEF Succeed, Invalidate
  <1>2. \/ form' = None /\ target' = None /\ shared' = FALSE /\ base' = None /\ edited' = {}
           /\ opened' = opened /\ dialog' = None
        \/ UNCHANGED <<editor, dialog>>
    BY DEF Succeed, NoForm
  <1>3. acked' \in 0..ver'
    <2>1. answer.did \in Nat /\ answer.did <= ver /\ acked \in 0..ver /\ ver \in Nat /\ ver' = ver
      BY <1>1 DEF IInv, TypeOK, Answer, CallsAreSound, server
    <2> QED
      BY <1>1, <2>1
  <1>4. TypeOK'
    <2>1. /\ form' \in Form \cup {None} /\ target' \in Names \cup {None}
          /\ shared' \in BOOLEAN /\ opened' \in 0..MaxOpens
          /\ base' \in Flag \cup {None} /\ edited' \subseteq Touches
          /\ dialog' \in {None} \cup [kind : {"toggle", "delete", "update"}, name : Names,
                                      to : Values \cup {None}, base : Flag, at : Nat]
      BY <1>2 DEF IInv, TypeOK, editor
    <2> QED
      BY <1>1, <1>3, <2>1 DEF IInv, TypeOK, server, fixed, Asked, Idle
  <1>5. FormIsOfFlag'
    BY <1>1, <1>2, FormStays DEF FormIsOfFlag
  <1>6. DialogIsOfPage'
    BY <1>1, <1>2, DialogStays DEF DialogIsOfPage
  <1>7. ListsAreOfTheirTime' /\ NoOldListAfterSuccess'
    BY <1>1, ListsStay DEF NoOldListAfterSuccess, Asked, Idle
  <1> QED
    BY <1>1, <1>4, <1>5, <1>6, <1>7, CacheStays, CallsStay DEF IInv

LEMMA FailKeeps == ASSUME IInv, NEW answer \in answers, Fail(answer) PROVE IInv'
  <1>1. /\ UNCHANGED <<server, fixed, query, dialog, editor, requests, sent, outside, fails, acked>>
        /\ answers' \subseteq answers
    BY DEF Fail
  <1>2. TypeOK'
    BY <1>1 DEF IInv, TypeOK, server, fixed, query, editor
  <1> QED
    BY <1>1, <1>2, ListsStay, CacheStays, FormStays, DialogStays, CallsStay, ListStaysNew DEF IInv, query

-----------------------------------------------------------------------------
(* The theorems *)

LEMMA InitSound == Init => IInv
  <1> SUFFICES ASSUME Init PROVE IInv
    OBVIOUS
  <1>1. TypeOK
    <2>1. 0 \in 0..MaxOpens /\ 0 \in 0..MaxCalls /\ 0 \in 0..MaxOutside /\ 0 \in 0..MaxFails
      BY FlagsPageConstants
    <2>2. flags \in List /\ changed \in [Names -> Nat]
      BY FlagsPageConstants DEF Init
    <2>3. ver \in Nat /\ acked \in 0..ver
      BY DEF Init
    <2>4. /\ listed \in [list : List \cup {None}, ver : Nat]
          /\ fetch \in [at : {"idle", "asked", "answered"}, list : List \cup {None}, ver : Nat]
      BY DEF Init, Idle
    <2>5. /\ form \in Form \cup {None} /\ target \in Names \cup {None} /\ shared \in BOOLEAN
          /\ base \in Flag \cup {None} /\ edited \subseteq Touches
          /\ requests \subseteq Request /\ answers \subseteq Answer
      BY DEF Init
    <2> QED
      BY <2>1, <2>2, <2>3, <2>4, <2>5 DEF Init, TypeOK
  <1>2. ListsAreOfTheirTime /\ CacheIsOfList /\ NoOldListAfterSuccess
    BY DEF Init, ListsAreOfTheirTime, CacheIsOfList, NoOldListAfterSuccess, Idle
  <1>3. FormIsOfFlag /\ DialogIsOfPage /\ CallsAreSound
    BY DEF Init, FormIsOfFlag, DialogIsOfPage, CallsAreSound
  <1> QED
    BY <1>1, <1>2, <1>3 DEF IInv

LEMMA NextSound == IInv /\ [Next]_vars => IInv'
  <1> SUFFICES ASSUME IInv, [Next]_vars PROVE IInv'
    OBVIOUS
  <1>1. CASE Fetch \/ FetchFails \/ ServeList \/ Arrive
    BY <1>1, FetchesKeep, ServeListKeeps, ArriveKeeps
  <1>2. ASSUME NEW k \in {"toggle", "delete"}, NEW n \in Names, Ask(k, n) PROVE IInv'
    BY <1>2, AskKeeps
  <1>3. CASE Dismiss \/ Confirm
    BY <1>3, DismissKeeps, ConfirmKeeps
  <1>4. ASSUME NEW n \in Names, OpenForm(n) \/ OutsideWrite(n) PROVE IInv'
    BY <1>4, OpenFormKeeps, OutsideWriteKeeps
  <1>5. CASE CloseForm \/ EditField
    BY <1>5, CloseFormKeeps, EditFieldKeeps
  <1>6. CASE RemoveRule \/ \E r \in Rules : AddRule(r)
    BY <1>6, OwnRulesKeep
  <1>7. ASSUME NEW r \in Rules, ChangeRule(r) PROVE IInv'
    BY <1>7, ChangeRuleKeeps
  <1>8. CASE Submit \/ ConfirmSave
    BY <1>8, SubmitKeeps, ConfirmSaveKeeps
  <1>9. ASSUME NEW c \in requests, Serve(c) \/ Refuse(c) PROVE IInv'
    BY <1>9, ServeKeeps, RefuseKeeps
  <1>10. ASSUME NEW answer \in answers, Succeed(answer) \/ Fail(answer) PROVE IInv'
    BY <1>10, SucceedKeeps, FailKeeps
  <1>11. CASE UNCHANGED vars
    <2>1. UNCHANGED <<server, fixed, query, dialog, editor, network, outside, fails, acked>>
      BY <1>11 DEF vars
    <2>2. TypeOK'
      BY <2>1 DEF IInv, TypeOK, server, fixed, query, editor, network
    <2> QED
      BY <2>1, <2>2, ListsStay, CacheStays, FormStays, DialogStays, CallsStay, ListStaysNew
      DEF IInv, query, network
  <1> QED
    BY <1>1, <1>2, <1>3, <1>4, <1>5, <1>6, <1>7, <1>8, <1>9, <1>10, <1>11 DEF Next

LEMMA Invariance == Spec => []IInv
  BY InitSound, NextSound, PTL DEF Spec

\* Only served changes are made, one by each step.
LEMMA MadeIsServed ==
  ASSUME IInv, [Next]_vars, NEW c \in Made
  PROVE  /\ c \in requests /\ Serve(c)
         /\ c \in Request /\ c.name \in Names /\ flags[c.name] \in Flag
         /\ flags'[c.name] = Result(c)
  <1>1. c \in requests /\ c \notin requests' /\ ver' # ver
    BY DEF Made
  <1>2. ASSUME NEW d \in requests, Serve(d) PROVE c = d
    BY <1>1, <1>2 DEF Serve, Answered
  <1>3. ASSUME NEW d \in requests, Refuse(d) PROVE FALSE
    BY <1>1, <1>3 DEF Refuse, server
  <1>4. CASE \/ Fetch \/ ServeList \/ Arrive \/ FetchFails \/ CloseForm \/ Dismiss \/ Submit
    BY <1>1, <1>4 DEF Fetch, ServeList, Arrive, FetchFails, CloseForm, Dismiss, Submit, server
  <1>5. CASE \/ Confirm \/ ConfirmSave
    BY <1>1, <1>5 DEF Confirm, ConfirmSave, server
  <1>6. CASE \/ EditField \/ RemoveRule \/ \E r \in Rules : AddRule(r) \/ ChangeRule(r)
    BY <1>1, <1>6 DEF EditField, RemoveRule, AddRule, ChangeRule, Becomes, server
  <1>7. ASSUME NEW n \in Names, NEW k \in {"toggle", "delete"}, OpenForm(n) \/ OutsideWrite(n) \/ Ask(k, n) PROVE FALSE
    BY <1>1, <1>7 DEF OpenForm, OutsideWrite, Ask, server, network
  <1>8. ASSUME NEW answer \in answers, Succeed(answer) \/ Fail(answer) PROVE FALSE
    BY <1>1, <1>8 DEF Succeed, Fail, server
  <1>9. CASE UNCHANGED vars
    BY <1>1, <1>9 DEF vars, server
  <1>10. Serve(c)
    BY <1>2, <1>3, <1>4, <1>5, <1>6, <1>7, <1>8, <1>9 DEF Next
  <1>11. c \in Request /\ c.name \in Names /\ flags[c.name] \in Flag
    BY <1>1, <1>10 DEF IInv, TypeOK, Request, List, Serve, Finds
  <1>12. flags'[c.name] = Result(c)
    BY <1>10, <1>11 DEF Serve, Store, IInv, TypeOK, List
  <1> QED
    BY <1>1, <1>10, <1>11, <1>12

\* Everything the page and its calls hold keeps its type (flags/page.tsx:14-34,
\* EditFlagModal.tsx:36-49).
THEOREM Typing == Spec => []TypeOK
  <1>1. IInv => TypeOK
    BY DEF IInv
  <1> QED
    BY <1>1, Invariance, PTL

\* The list that arrives after a success has the change, whatever lists were on their
\* way (flags/page.tsx:46, 51, EditFlagModal.tsx:95).
THEOREM ListsAreNew == Spec => []NoOldListAfterSuccess
  <1>1. IInv => NoOldListAfterSuccess
    BY DEF IInv
  <1> QED
    BY <1>1, Invariance, PTL

\* A confirmed toggle does what it said, unless somebody else was there in between
\* (flags/page.tsx:274-279).
THEOREM TogglesAnnounced == Spec => TogglesAsAnnounced
  <1> DEFINE AsAnnounced(c) ==
        c.kind = "toggle" =>
          \/ flags'[c.name].value = c.to
          \/ changed[c.name] > c.at
  <1>1. ASSUME IInv, [Next]_vars, NEW c \in Made PROVE AsAnnounced(c)
    <2> SUFFICES ASSUME c.kind = "toggle", ~(changed[c.name] > c.at)
                 PROVE  flags'[c.name].value = c.to
      OBVIOUS
    <2>1. /\ c \in requests /\ c \in Request /\ c.name \in Names /\ flags[c.name] \in Flag
          /\ flags'[c.name] = Result(c)
      BY <1>1, MadeIsServed
    <2>2. changed[c.name] <= c.at
      BY <1>1, <2>1 DEF IInv, TypeOK, Request
    <2>3. flags[c.name] = c.base /\ c.to = Announced(c.base.value)
      BY <1>1, <2>1, <2>2 DEF IInv, CallsAreSound, ToggleIsOfTime
    <2>4. flags'[c.name].value = Flipped(flags[c.name].value)
      BY <2>1 DEF Result, Flag
    <2> QED
      BY <2>3, <2>4 DEF Announced, Flipped
  <1>2. IInv /\ [Next]_vars => [\A c \in Made : AsAnnounced(c)]_vars
    BY <1>1
  <1> QED
    BY <1>2, Invariance, PTL DEF Spec, TogglesAsAnnounced

\* A save writes what was edited in its form and nothing else that others have left alone,
\* but for the two exceptions: a delivery the form does not show in full is reduced to a
\* part with the same labels, and rules an earlier form left in the cache are sent
\* (EditFlagModal.tsx:36-49, 86-92, 118-122).
THEOREM SavesEdits == Spec => SavesWhatWasEdited
  <1> DEFINE Kept(c, field) ==
        Differs(flags[c.name], flags'[c.name], field) =>
          \/ field \in c.edits
          \/ Differs(flags[c.name], c.base, field)
          \/ /\ field = "delivery" /\ NotAllShown(c.base.delivery)
             /\ IsLeftOf(flags'[c.name].delivery, c.base.delivery)
          \/ field = "rules" /\ "earlier" \in c.edits
  <1>1. ASSUME IInv, [Next]_vars, NEW c \in Made, c.kind = "update", NEW field \in Fields PROVE Kept(c, field)
    <2> DEFINE f == flags[c.name]
               b == c.body
    <2>1. /\ c \in requests /\ c \in Request /\ f \in Flag
          /\ flags'[c.name] = Result(c)
      BY <1>1, MadeIsServed
    <2>2. SaveIsOfBase(c) /\ c.base \in Flag
      BY <1>1, <2>1 DEF IInv, CallsAreSound, Request
    <2>3. b \in Body
      BY <1>1, <2>1, <2>2 DEF SaveIsOfBase, Request
    <2>4. flags'[c.name] = Patched(f, b)
      BY <1>1, <2>1 DEF Result
    <2>5. CASE field = "value"
      BY <1>1, <2>1, <2>2, <2>3, <2>4, <2>5 DEF Differs, Patched, SaveIsOfBase, Flag
    <2>6. CASE field = "disabled"
      BY <1>1, <2>1, <2>2, <2>3, <2>4, <2>6 DEF Differs, Patched, SaveIsOfBase, Flag
    <2>7. CASE field = "desc"
      BY <1>1, <2>1, <2>2, <2>3, <2>4, <2>7 DEF Differs, Patched, SaveIsOfBase, Flag
    <2>8. CASE field = "rules"
      BY <1>1, <2>1, <2>2, <2>3, <2>4, <2>8 DEF Differs, Patched, SaveIsOfBase, Flag
    <2>9. CASE field = "delivery"
      <3>1. flags'[c.name].delivery = IF b.delivery = NoDelivery THEN f.delivery ELSE b.delivery
        BY <2>1, <2>4 DEF Patched, Flag
      <3>2. field \notin c.edits => b.delivery = Delivery(FormOf(c.base))
        BY <1>1, <2>2, <2>9 DEF SaveIsOfBase
      <3>3. \/ Delivery(FormOf(c.base)) = NoDelivery
            \/ Delivery(FormOf(c.base)) = c.base.delivery
            \/ NotAllShown(c.base.delivery) /\ IsLeftOf(Delivery(FormOf(c.base)), c.base.delivery)
        BY <2>2, DeliveryOfForm
      <3> QED
        BY <2>9, <3>1, <3>2, <3>3 DEF Differs
    <2> QED
      BY <2>5, <2>6, <2>7, <2>8, <2>9 DEF Fields
  <1>2. IInv /\ [Next]_vars =>
          [\A c \in Made : c.kind = "update" => \A field \in Fields : Kept(c, field)]_vars
    BY <1>1
  <1> QED
    BY <1>2, Invariance, PTL DEF Spec, SavesWhatWasEdited

-----------------------------------------------------------------------------
(* The API behind the page *)

\* FlagApi's handlers implement FlagRegister (theorem Refinement of FlagApi_proofs), and
\* their answers are honest.  The API the page is given here keeps to that promise: with a
\* record of what took effect for each request, nothing happens that a register would not do.
VARIABLE effect  \* request -> the call that took effect for it, or NoCall (history)

CallOf(c) == [kind |-> c.kind, flag |-> c.name, body |-> c.body]

PageCalls == [kind : Kinds, flag : Names, body : Body \cup {None}]

NoCall == [kind |-> "none", flag |-> None, body |-> None]

\* What the flag f becomes by call c; the page makes no flags.
Becoming(c, f) == IF c.kind = "toggle" THEN [f EXCEPT !.value = Flipped(@)] ELSE Patched(f, c.body)
Created(c) == None

Register ==
  INSTANCE FlagRegister WITH Flags <- Names, Requests <- 1..MaxCalls, Calls <- PageCalls,
    EditSpecs <- Flag, InitSpecs <- Flag, NewSpec <- Created, Desired <- Becoming

Recorded ==
  effect' = [r \in 1..MaxCalls |->
               IF \E c \in Made : c.id = r THEN CallOf(CHOOSE c \in Made : c.id = r) ELSE effect[r]]

RecordedSpec ==
  /\ Init /\ effect = [r \in 1..MaxCalls |-> NoCall]
  /\ [][Next /\ Recorded]_<<vars, effect>>

\* Numbers name one request, or the answer to it, and what is still on its way to the
\* server has had no effect.
NumbersNameOne ==
  /\ \A c \in requests : c.id <= sent /\ effect[c.id] = NoCall
  /\ \A c, d \in requests : c.id = d.id => c = d
  /\ \A r \in 1..MaxCalls : effect[r] # NoCall => r <= sent

\* A success that is reported to the page is of a change that was made.
SuccessHasEffect == \A answer \in answers : answer.result = "ok" => effect[answer.id] # NoCall

RecordInv ==
  /\ IInv
  /\ effect \in [1..MaxCalls -> PageCalls \cup {NoCall}]
  /\ NumbersNameOne /\ SuccessHasEffect

LEMMA CallOfTyped == ASSUME NEW c \in Request PROVE CallOf(c) \in PageCalls /\ CallOf(c) # NoCall
  BY DEF CallOf, PageCalls, NoCall, Request, Kinds

\* What a step leaves in effect, and what the one it serves gets.
LEMMA RecordedEffect ==
  ASSUME RecordInv, [Next]_vars, Recorded
  PROVE  /\ Made = {} => effect' = effect
         /\ \A c \in Made : /\ c \in requests /\ Serve(c) /\ c \in Request
                            /\ c.id \in 1..MaxCalls
                            /\ effect' = [effect EXCEPT ![c.id] = CallOf(c)]
  <1>1. effect \in [1..MaxCalls -> PageCalls \cup {NoCall}] /\ IInv
    BY DEF RecordInv
  <1>2. CASE Made = {}
    <2>1. effect' = [r \in 1..MaxCalls |-> effect[r]]
      BY <1>2 DEF Recorded
    <2> QED
      BY <1>1, <1>2, <2>1
  <1>3. ASSUME NEW c \in Made
        PROVE  /\ c \in requests /\ Serve(c) /\ c \in Request /\ c.id \in 1..MaxCalls
               /\ effect' = [effect EXCEPT ![c.id] = CallOf(c)]
    <2>1. c \in requests /\ Serve(c) /\ c \in Request /\ c.id \in 1..MaxCalls
      BY <1>1, MadeIsServed DEF Request
    <2>2. \A d \in Made : d = c
      BY <2>1 DEF Made, Serve, Answered
    <2>3. ASSUME NEW r \in 1..MaxCalls
          PROVE  effect'[r] = IF r = c.id THEN CallOf(c) ELSE effect[r]
      <3>1. effect'[r] = IF \E d \in Made : d.id = r THEN CallOf(CHOOSE d \in Made : d.id = r)
                                                     ELSE effect[r]
        BY DEF Recorded
      <3>2. CASE r = c.id
        <4>1. (CHOOSE d \in Made : d.id = r) = c
          BY <2>2, <3>2
        <4> QED
          BY <3>1, <3>2, <4>1
      <3>3. CASE r # c.id
        BY <2>2, <3>1, <3>3
      <3> QED
        BY <3>2, <3>3
    <2>4. effect' = [r \in 1..MaxCalls |-> effect'[r]]
      BY DEF Recorded
    <2> QED
      BY <1>1, <2>1, <2>3, <2>4
  <1> QED
    BY <1>2, <1>3

\* What a step does to the calls on their way: one is sent, with a new number, or some
\* are taken away.
LEMMA CallsOnTheirWay ==
  ASSUME IInv, [Next]_vars
  PROVE  \/ /\ sent' = sent /\ requests' \subseteq requests
         \/ /\ sent' = sent + 1
            /\ \E c \in Request : c.id = sent' /\ requests' = requests \cup {c}
  <1>1. ASSUME dialog # None, NEW body \in Body \cup {None}, NEW f \in Nat, NEW e \in SUBSET Touches, Send(body, f, e)
        PROVE  /\ sent' = sent + 1
               /\ \E c \in Request : c.id = sent' /\ requests' = requests \cup {c}
    <2> DEFINE new == [id |-> sent', kind |-> dialog.kind, name |-> dialog.name, body |-> body, from |-> f,
                       to |-> dialog.to, base |-> dialog.base, at |-> dialog.at, edits |-> e]
    <2>1. sent' = sent + 1 /\ requests' = requests \cup {new} /\ new.id = sent'
      BY <1>1 DEF Send
    <2>2. requests' \subseteq Request
      BY <1>1, SendTyped
    <2> HIDE DEF new
    <2> QED
      BY <2>1, <2>2
  <1>2. CASE Confirm
    BY <1>1, <1>2 DEF Confirm
  <1>3. CASE ConfirmSave
    <2>1. form \in Form /\ opened \in Nat /\ edited \in SUBSET Touches /\ dialog # None
      BY <1>3 DEF ConfirmSave, IInv, TypeOK, DialogIsOfPage
    <2>2. Sent(form) \in Body
      BY <2>1, SentTyped
    <2> QED
      BY <1>1, <1>3, <2>1, <2>2 DEF ConfirmSave
  <1>4. CASE Fetch \/ ServeList \/ Arrive \/ FetchFails \/ CloseForm \/ Dismiss \/ Submit
    BY <1>4 DEF Fetch, ServeList, Arrive, FetchFails, CloseForm, Dismiss, Submit, network
  <1>5. CASE EditField \/ RemoveRule \/ \E r \in Rules : AddRule(r) \/ ChangeRule(r)
    BY <1>5 DEF EditField, RemoveRule, AddRule, ChangeRule, Becomes, network
  <1>6. ASSUME NEW n \in Names, NEW k \in {"toggle", "delete"}, OpenForm(n) \/ OutsideWrite(n) \/ Ask(k, n)
        PROVE  sent' = sent /\ requests' \subseteq requests
    BY <1>6 DEF OpenForm, OutsideWrite, Ask, network
  <1>7. ASSUME NEW c \in requests, Serve(c) \/ Refuse(c)
        PROVE  sent' = sent /\ requests' \subseteq requests
    BY <1>7 DEF Serve, Refuse, Answered
  <1>8. ASSUME NEW answer \in answers, Succeed(answer) \/ Fail(answer)
        PROVE  sent' = sent /\ requests' \subseteq requests
    BY <1>8 DEF Succeed, Fail
  <1>9. CASE UNCHANGED vars
    BY <1>9 DEF vars, network
  <1> QED
    BY <1>2, <1>3, <1>4, <1>5, <1>6, <1>7, <1>8, <1>9 DEF Next

\* A new success is of the change that the step has made.
LEMMA NewSuccesses ==
  ASSUME IInv, [Next]_vars, NEW answer \in answers' \ answers, answer.result = "ok"
  PROVE  \E c \in Made : c.id = answer.id
  <1>1. ASSUME NEW c \in requests, Serve(c) PROVE \E d \in Made : d.id = answer.id
    <2>1. answer.id = c.id
      BY <1>1 DEF Serve, Answered
    <2>2. c \in Made
      BY <1>1 DEF Made, Serve, Answered, Store, IInv, TypeOK
    <2> QED
      BY <2>1, <2>2
  <1>2. ASSUME NEW c \in requests, Refuse(c) PROVE FALSE
    BY <1>2 DEF Refuse, Answered
  <1>3. CASE Confirm \/ ConfirmSave
    BY <1>3 DEF Confirm, ConfirmSave, Send
  <1>4. CASE Fetch \/ ServeList \/ Arrive \/ FetchFails \/ CloseForm \/ Dismiss \/ Submit
    BY <1>4 DEF Fetch, ServeList, Arrive, FetchFails, CloseForm, Dismiss, Submit, network
  <1>5. CASE EditField \/ RemoveRule \/ \E r \in Rules : AddRule(r) \/ ChangeRule(r)
    BY <1>5 DEF EditField, RemoveRule, AddRule, ChangeRule, Becomes, network
  <1>6. ASSUME NEW n \in Names, NEW k \in {"toggle", "delete"}, OpenForm(n) \/ OutsideWrite(n) \/ Ask(k, n)
        PROVE  FALSE
    BY <1>6 DEF OpenForm, OutsideWrite, Ask, network
  <1>7. ASSUME NEW a \in answers, Succeed(a) \/ Fail(a) PROVE FALSE
    BY <1>7 DEF Succeed, Fail
  <1>8. CASE UNCHANGED vars
    BY <1>8 DEF vars, network
  <1> QED
    BY <1>1, <1>2, <1>3, <1>4, <1>5, <1>6, <1>7, <1>8 DEF Next

LEMMA RecordInit == Init /\ effect = [r \in 1..MaxCalls |-> NoCall] => RecordInv
  BY InitSound DEF Init, RecordInv, NumbersNameOne, SuccessHasEffect

LEMMA RecordStep == RecordInv /\ [Next /\ Recorded]_<<vars, effect>> => RecordInv'
  <1> SUFFICES ASSUME RecordInv, [Next /\ Recorded]_<<vars, effect>> PROVE RecordInv'
    OBVIOUS
  <1>1. IInv /\ [Next]_vars
    BY DEF RecordInv
  <1>2. IInv'
    BY <1>1, NextSound
  <1>3. CASE UNCHANGED <<vars, effect>>
    BY <1>2, <1>3 DEF vars, network, RecordInv, NumbersNameOne, SuccessHasEffect
  <1>4. CASE Next /\ Recorded
    <2>1. effect \in [1..MaxCalls -> PageCalls \cup {NoCall}] /\ NumbersNameOne /\ SuccessHasEffect
      BY DEF RecordInv
    <2>2. requests \subseteq Request /\ requests' \subseteq Request /\ answers \subseteq Answer
          /\ answers' \subseteq Answer /\ sent \in Nat /\ sent' \in Nat /\ MaxCalls \in Nat
      BY <1>1, <1>2, FlagsPageConstants DEF IInv, TypeOK
    <2>3. \/ effect' = effect
          \/ \E c \in Made : /\ c \in requests /\ c \notin requests' /\ c.id \in 1..MaxCalls
                             /\ effect' = [effect EXCEPT ![c.id] = CallOf(c)]
                             /\ CallOf(c) \in PageCalls
      BY <1>1, <1>4, RecordedEffect, CallOfTyped DEF Made
    <2>4. effect' \in [1..MaxCalls -> PageCalls \cup {NoCall}]
      BY <2>1, <2>3
    <2>5. \A r \in 1..MaxCalls : effect[r] # NoCall => effect'[r] # NoCall
      <3>1. NoCall \notin PageCalls
        BY DEF NoCall, PageCalls, Kinds
      <3> QED
        BY <2>1, <2>3, <3>1
    <2>6. \A r \in 1..MaxCalls : effect'[r] # effect[r] =>
            r <= sent /\ \A d \in requests' \cap requests : d.id # r
      BY <2>1, <2>2, <2>3 DEF NumbersNameOne
    <2>7. NumbersNameOne'
      <3>1. CASE sent' = sent /\ requests' \subseteq requests
        BY <2>1, <2>2, <2>6, <3>1 DEF NumbersNameOne, Request
      <3>2. CASE sent' = sent + 1 /\ \E c \in Request : c.id = sent' /\ requests' = requests \cup {c}
        <4> PICK c \in Request : c.id = sent' /\ requests' = requests \cup {c}
          BY <3>2
        <4>1. \A d \in requests : d.id < c.id
          BY <2>1, <2>2, <3>2 DEF NumbersNameOne, Request
        <4>2. effect' = effect
          BY <2>3
        <4>3. effect[c.id] = NoCall
          BY <2>1, <2>2, <3>2 DEF NumbersNameOne, Request
        <4>4. \A d \in requests' : d.id <= sent' /\ effect'[d.id] = NoCall
          BY <2>1, <2>2, <3>2, <4>2, <4>3 DEF NumbersNameOne, Request
        <4>5. \A d, e \in requests' : d.id = e.id => d = e
          BY <2>1, <2>2, <4>1 DEF NumbersNameOne, Request
        <4>6. \A r \in 1..MaxCalls : effect'[r] # NoCall => r <= sent'
          BY <2>1, <2>2, <3>2, <4>2 DEF NumbersNameOne
        <4> QED
          BY <4>4, <4>5, <4>6 DEF NumbersNameOne
      <3> QED
        BY <1>1, <3>1, <3>2, CallsOnTheirWay
    <2>8. SuccessHasEffect'
      <3> SUFFICES ASSUME NEW answer \in answers', answer.result = "ok"
                   PROVE  effect'[answer.id] # NoCall
        BY DEF SuccessHasEffect
      <3>1. CASE answer \in answers
        BY <2>1, <2>2, <2>5, <3>1 DEF SuccessHasEffect, Answer
      <3>2. CASE answer \notin answers
        <4>1. PICK c \in Made : c.id = answer.id
          BY <1>1, <3>2, NewSuccesses
        <4>2. effect' = [effect EXCEPT ![c.id] = CallOf(c)] /\ c.id \in 1..MaxCalls /\ c \in Request
          BY <1>1, <1>4, RecordedEffect
        <4>3. effect'[c.id] = CallOf(c)
          BY <2>1, <4>2
        <4> QED
          BY <4>1, <4>2, <4>3, CallOfTyped
      <3> QED
        BY <3>1, <3>2
    <2> QED
      BY <1>2, <2>4, <2>7, <2>8 DEF RecordInv
  <1> QED
    BY <1>3, <1>4

LEMMA RecordInvariance == RecordedSpec => []RecordInv
  BY RecordInit, RecordStep, PTL DEF RecordedSpec

\* A step that makes none of the page's changes leaves the flags, or is another writer's.
LEMMA OthersEdit ==
  ASSUME IInv, [Next]_vars, Made = {}
  PROVE  \/ flags' = flags
         \/ \E n \in Names, f \in Flag \cup {None} : flags' = [flags EXCEPT ![n] = f]
  <1>1. ASSUME NEW c \in requests, Serve(c) PROVE FALSE
    BY <1>1 DEF Made, Serve, Answered, Store, IInv, TypeOK
  <1>2. ASSUME NEW n \in Names, OutsideWrite(n)
        PROVE  \E f \in Flag \cup {None} : flags' = [flags EXCEPT ![n] = f]
    BY <1>2, FlagsPageConstants DEF OutsideWrite, Store
  <1>3. CASE \/ Fetch \/ ServeList \/ Arrive \/ FetchFails \/ CloseForm \/ Dismiss \/ Submit
    BY <1>3 DEF Fetch, ServeList, Arrive, FetchFails, CloseForm, Dismiss, Submit, server
  <1>4. CASE \/ Confirm \/ ConfirmSave
    BY <1>4 DEF Confirm, ConfirmSave, server
  <1>5. CASE \/ EditField \/ RemoveRule \/ \E r \in Rules : AddRule(r) \/ ChangeRule(r)
    BY <1>5 DEF EditField, RemoveRule, AddRule, ChangeRule, Becomes, server
  <1>6. ASSUME NEW n \in Names, NEW k \in {"toggle", "delete"}, OpenForm(n) \/ Ask(k, n)
        PROVE  flags' = flags
    BY <1>6 DEF OpenForm, Ask, server
  <1>7. ASSUME NEW c \in requests, Refuse(c) PROVE flags' = flags
    BY <1>7 DEF Refuse, server
  <1>8. ASSUME NEW answer \in answers, Succeed(answer) \/ Fail(answer) PROVE flags' = flags
    BY <1>8 DEF Succeed, Fail, server
  <1>9. CASE UNCHANGED vars
    BY <1>9 DEF vars, server
  <1> QED
    BY <1>1, <1>2, <1>3, <1>4, <1>5, <1>6, <1>7, <1>8, <1>9 DEF Next

\* The page's calls, lost answers, refusals and retries included, are calls of the
\* register the API implements: each takes effect at most once, on the flag as it is at
\* that instant and not as the page shows it (flags/page.tsx:43-53, EditFlagModal.tsx:86-97,
\* handlers/flags.go behind them).
THEOREM PageUsesRegister == RecordedSpec => Register!Spec
  <1>1. Init /\ effect = [r \in 1..MaxCalls |-> NoCall] => Register!Init
    BY FlagsPageConstants DEF Init, Register!Init, List
  <1>2. RecordInv /\ [Next /\ Recorded]_<<vars, effect>> => [Register!Next]_<<flags, effect>>
    <2> SUFFICES ASSUME RecordInv, Next /\ Recorded PROVE [Register!Next]_<<flags, effect>>
      BY DEF vars, server
    <2>1. IInv /\ [Next]_vars /\ flags \in List /\ NumbersNameOne
      BY DEF RecordInv, IInv, TypeOK
    <2>2. CASE Made = {}
      <3>1. effect' = effect
        BY <2>1, <2>2, RecordedEffect
      <3>2. CASE flags' = flags
        BY <3>1, <3>2
      <3>3. ASSUME NEW n \in Names, NEW f \in Flag \cup {None}, flags' = [flags EXCEPT ![n] = f]
            PROVE  Register!Next
        BY <3>1, <3>3 DEF Register!Next, Register!Edit
      <3> QED
        BY <2>1, <2>2, <3>2, <3>3, OthersEdit
    <2>3. ASSUME NEW c \in Made PROVE Register!Next
      <3>1. /\ c \in requests /\ Serve(c) /\ c \in Request /\ c.id \in 1..MaxCalls
            /\ effect' = [effect EXCEPT ![c.id] = CallOf(c)]
        BY <2>1, RecordedEffect
      <3>2. CallOf(c) \in PageCalls /\ effect[c.id] = NoCall
        BY <2>1, <3>1, CallOfTyped DEF NumbersNameOne
      <3>3. c.name \in Names /\ c.kind \in Kinds /\ Finds(c) /\ flags' = [flags EXCEPT ![c.name] = Result(c)]
        BY <3>1 DEF Serve, Store, Request
      <3>4. Register!Change(CallOf(c))
        <4>1. CASE c.kind = "delete"
          BY <3>3, <4>1 DEF Register!Change, CallOf, Result, Finds
        <4>2. CASE c.kind = "toggle"
          <5>1. Result(c) = Becoming(CallOf(c), flags[c.name])
            BY <4>2 DEF Result, Becoming, CallOf
          <5> QED
            BY <2>1, <3>3, <4>2, <5>1 DEF Register!Change, CallOf, Finds, List
        <4>3. CASE c.kind = "update"
          <5>1. Result(c) = Becoming(CallOf(c), flags[c.name])
            BY <4>3 DEF Result, Becoming, CallOf
          <5> QED
            BY <2>1, <3>3, <4>3, <5>1 DEF Register!Change, CallOf, Finds, List
        <4> QED
          BY <3>3, <4>1, <4>2, <4>3 DEF Kinds
      <3> QED
        BY <3>1, <3>2, <3>4 DEF Register!Next, Register!Perform
    <2> QED
      BY <2>2, <2>3
  <1> QED
    BY <1>1, <1>2, RecordInvariance, PTL DEF RecordedSpec, Register!Spec

\* A success the page shows is of a change that was made, though a change that was made
\* may be shown as failed (flags/page.tsx:45-46, 50-51, EditFlagModal.tsx:93-97).
THEOREM SuccessesHadEffect == RecordedSpec => []SuccessHasEffect
  <1>1. RecordInv => SuccessHasEffect
    BY DEF RecordInv
  <1> QED
    BY <1>1, RecordInvariance, PTL

-----------------------------------------------------------------------------
(* The list in the end *)

\* Polling, with the conditions under which its actions can be taken written out.
Polled ==
  /\ []([](fetch.at = "idle") => <><<Fetch>>_vars)
  /\ []([](fetch.at = "asked") => <><<ServeList>>_vars)
  /\ []([](fetch.at = "answered") => <><<Arrive>>_vars)

\* A step that changes no flag, fails no request for the list and reports no success.
Calm == flags' = flags /\ ~FetchFails /\ \A answer \in answers : ~Succeed(answer)

\* What such a step does to the list and to its request.
LEMMA CalmSteps ==
  ASSUME form = None, [Next]_vars, [Calm]_vars
  PROVE  /\ flags' = flags
         /\ \/ UNCHANGED <<data, fetch>>
            \/ Fetch \/ ServeList \/ Arrive
  <1>1. CASE UNCHANGED vars
    BY <1>1 DEF vars, server, query
  <1>2. CASE Next /\ Calm
    <2>1. flags' = flags
      BY <1>2 DEF Calm
    <2>2. CASE \/ Dismiss \/ Confirm \/ ConfirmSave
      BY <2>1, <2>2 DEF Dismiss, Confirm, ConfirmSave, query
    <2>3. CASE \/ CloseForm \/ Submit \/ EditField \/ RemoveRule \/ \E r \in Rules : AddRule(r) \/ ChangeRule(r)
      BY <2>3 DEF CloseForm, Submit, EditField, RemoveRule, AddRule, ChangeRule, Editing
    <2>4. ASSUME NEW n \in Names, NEW k \in {"toggle", "delete"}, OpenForm(n) \/ OutsideWrite(n) \/ Ask(k, n)
          PROVE  UNCHANGED <<data, fetch>>
      BY <2>4 DEF OpenForm, OutsideWrite, Ask, query
    <2>5. ASSUME NEW c \in requests, Serve(c) \/ Refuse(c) PROVE UNCHANGED <<data, fetch>>
      BY <2>5 DEF Serve, Refuse, query
    <2>6. ASSUME NEW answer \in answers, Succeed(answer) \/ Fail(answer) PROVE UNCHANGED <<data, fetch>>
      BY <1>2, <2>6 DEF Calm, Fail, query
    <2> QED
      BY <1>2, <2>1, <2>2, <2>3, <2>4, <2>5, <2>6 DEF Next, Calm
  <1> QED
    BY <1>1, <1>2

\* The answer on its way is the flags as they are, and so is the list when it is there.
Answering == fetch.at = "answered" /\ fetch.list = flags
CaughtUp == data = flags /\ (fetch.at = "answered" => fetch.list = flags)

\* However the list, forms and answers have interleaved before: once the flags stay as
\* they are, the list requests are answered and nothing is left to be reported, a page
\* on which nobody edits shows the flags as they are (providers.tsx:14-21, the interval
\* of ten seconds; flags/page.tsx:26-29).
THEOREM CatchesUpWhenCalm == Spec /\ Polled /\ <>[][Calm]_vars => ListCatchesUp
  <1> DEFINE Stays == form = None /\ [Next]_vars /\ [Calm]_vars
  <1>1. TypeOK => fetch.at = "idle" \/ fetch.at = "asked" \/ fetch.at = "answered"
    BY DEF TypeOK
  <1>2. Stays /\ fetch.at = "idle" => (fetch.at = "idle")' \/ (fetch.at = "asked")'
    BY CalmSteps DEF Fetch, ServeList, Arrive, Asked, Idle
  <1>3. Stays /\ fetch.at = "asked" => (fetch.at = "asked")' \/ Answering'
    BY CalmSteps DEF Fetch, ServeList, Arrive, Answering
  <1>4. Stays /\ fetch.at = "answered" => (fetch.at = "answered")' \/ (fetch.at = "idle")'
    BY CalmSteps DEF Fetch, ServeList, Arrive, Idle
  <1>5. Stays /\ Answering => Answering' \/ CaughtUp'
    BY CalmSteps DEF Fetch, ServeList, Arrive, Answering, CaughtUp, Idle
  <1>6. Stays /\ CaughtUp => CaughtUp'
    BY CalmSteps DEF Fetch, ServeList, Arrive, CaughtUp, Idle, Asked
  <1>7. Stays /\ <<Fetch>>_vars => (fetch.at = "asked")'
    BY DEF Fetch, Asked, Idle
  <1>8. Stays /\ <<ServeList>>_vars => Answering'
    BY CalmSteps DEF ServeList, Answering
  <1>9. Stays /\ <<Arrive>>_vars => (fetch.at = "idle")'
    BY DEF Arrive, Idle
  <1>10. Stays /\ Answering /\ <<Arrive>>_vars => CaughtUp'
    BY CalmSteps DEF Arrive, Answering, CaughtUp, Idle
  <1>11. Answering => fetch.at = "answered"
    BY DEF Answering
  <1>12. CaughtUp => data = flags
    BY DEF CaughtUp
  <1>13. Spec => []TypeOK
    BY Typing
  <1> QED
    BY <1>1, <1>2, <1>3, <1>4, <1>5, <1>6, <1>7, <1>8, <1>9, <1>10, <1>11, <1>12, <1>13, PTL
       DEF Spec, Polled, ListCatchesUp
=============================================================================
