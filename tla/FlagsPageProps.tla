--------------------------- MODULE FlagsPageProps ---------------------------
(* What a user of the flags page may rely on. *)
EXTENDS FlagsPage

-----------------------------------------------------------------------------
(* The list *)

\* A list on its way to the page was read after every change the page has been
\* told of: a row that was just changed does not show its old value again once
\* the refreshed list is there.  The invalidation in onSuccess has to drop a list
\* that was asked for before (flags/page.tsx:46, 51, EditFlagModal.tsx:95).
NoOldListAfterSuccess ==
  fetch.at = "answered" => fetch.ver >= acked

\* However the lists, the answers, the form's edits of cached objects and other
\* writers interleave, and although nothing refreshes the list after a failure or
\* after a delete the proxy reports as failed, a page on which nobody edits any more
\* ends up showing the flags as they are (providers.tsx:17, the interval).
ListCatchesUp == <>[](form = None) => <>[](data = flags)

-----------------------------------------------------------------------------
(* Changes *)

\* The request that a step makes the change of.
Made == {c \in requests : c \notin requests' /\ ver' # ver}

Differs(f, g, field) ==
  CASE field = "value" -> f.value # g.value
    [] field = "disabled" -> f.disabled # g.disabled
    [] field = "desc" -> f.desc # g.desc
    [] field = "delivery" -> f.delivery # g.delivery
    [] field = "rules" -> f.rules # g.rules

\* There is more to a delivery than the form reads (EditFlagModal.tsx:39-46): several of
\* them, or matchExpressions.
NotAllShown(d) ==
  \/ Cardinality({m \in Methods : d[m] # None}) > 1
  \/ \E m \in Methods : d[m] # None /\ d[m].exprs

\* What is left of d is of d, with the labels it had.
IsLeftOf(e, d) ==
  \A m \in Methods :
    e[m] # None => d[m] # None /\ (d[m].labels # None => e[m].labels = d[m].labels)

\* A save writes no field the user has not touched, unless another writer has
\* changed it since the list behind the form was read; then the form's old value
\* wins (EditFlagModal.tsx:36-49, 86-92).  There are two exceptions.  A delivery that the
\* form does not show in full is reduced by it: of several the others than one are lost,
\* and of that one the matchExpressions (a ConfigMap's without labels matches every
\* workload then, lines 66-75), but neither its method nor its labels become others.  And
\* rules that an earlier form wrote into the cached flag before it was cancelled are sent
\* (updateRule, lines 118-122).
SavesWhatWasEdited ==
  [][\A c \in Made :
       c.kind = "update" =>
         \A field \in Fields :
           Differs(flags[c.name], flags'[c.name], field) =>
             \/ field \in c.edits
             \/ Differs(flags[c.name], c.base, field)
             \/ /\ field = "delivery" /\ NotAllShown(c.base.delivery)
                /\ IsLeftOf(flags'[c.name].delivery, c.base.delivery)
             \/ field = "rules" /\ "earlier" \in c.edits]_vars

\* A confirmed toggle sets the value its dialog announced ("Set to true"), unless
\* the flag has been changed since the list behind the dialog was read
\* (flags/page.tsx:274-279; the server flips what it has).
TogglesAsAnnounced ==
  [][\A c \in Made :
       c.kind = "toggle" =>
         \/ flags'[c.name].value = c.to
         \/ changed[c.name] > c.at]_vars

-----------------------------------------------------------------------------
(* What the form says *)

\* "No rules -- all workloads get the default value" (EditFlagModal.tsx:342): a save
\* from a form that says so leaves the flag without rules.  The code leaves the
\* empty list out of the request, and the server keeps the rules.
NoRulesIsSaved ==
  [][\A c \in Made :
       c.kind = "update" /\ c.body.rules = <<>> =>
         flags'[c.name].rules = <<>>]_vars
=============================================================================
