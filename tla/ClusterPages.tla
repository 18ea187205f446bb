---------------------------- MODULE ClusterPages ----------------------------
(***************************************************************************)
(* The pages of the dashboard that show clusters, in one browser tab:      *)
(* registering and removing them (app/clusters/page.tsx), the workloads of *)
(* one of them (app/workloads/page.tsx) and the wizard that creates a flag *)
(* in one of them (components/flags/CreateFlagModal.tsx).                  *)
(*                                                                         *)
(* One page is shown at a time.  Leaving it, or closing the wizard, drops  *)
(* what was typed and chosen, but not the query cache and not the calls    *)
(* that are on their way: the list of clusters is shared by all of them.   *)
(*                                                                         *)
(* Namespaces are not chosen in the model: both pages ask for them without *)
(* the Authorization header, are refused, and take an empty list and       *)
(* "default" for the answer.                                               *)
(***************************************************************************)
EXTENDS Naturals, FiniteSets

CONSTANTS
  Ids,            \* ids of clusters
  InitClusters,   \* the clusters there may be when the tab is opened
  Workloads,      \* the workloads of each cluster, by namespace and name
  FlagNames,      \* names of flags, Blank for nothing typed
  Values,         \* initial values that may be typed or selected
  Labels,         \* texts key=value,... and the matchLabels they spell
  Junk,           \* a text that spells none, as `frontend` or a comma
  DeliveryInputs, \* what users enter in the wizard's second step
  Typed,          \* ids users type to register
  FirstPages,     \* where the tab may be opened
  Roles,          \* roles the user may have
  MaxVisits,      \* bound: pages and wizards opened
  MaxCalls,       \* bound: changes asked for
  MaxTrouble,     \* bound: calls that fail, and clusters registered or removed by others
  Blank,          \* the empty text, ""
  None            \* no cluster, no list, no workload

Pages == {"clusters", "workloads", "wizard"}
Methods == {"envVar", "configMap", "sidecar"}
Types == {"boolean", "string"}
LabelTexts == Labels \cup {Junk, Blank}
DeliveryInput == [method : Methods, labels : LabelTexts, cmName : BOOLEAN]

\* A selector of None is one with nothing in it, which every workload matches.
Delivery == [method : Methods, selector : Labels \cup {None}]

ASSUME ClusterPagesConstants ==
  /\ IsFiniteSet(Ids) /\ None \notin Ids
  /\ InitClusters \subseteq SUBSET Ids
  /\ DOMAIN Workloads = Ids
  /\ Typed \subseteq Ids /\ FirstPages \subseteq Pages
  /\ Blank \in FlagNames
  /\ {Blank, "false"} \subseteq Values
  /\ Blank \notin Labels /\ Junk \notin Labels \cup {Blank}
  /\ None \notin Labels /\ None \notin Delivery
  /\ DeliveryInputs \subseteq DeliveryInput
  /\ Roles \subseteq {"admin", "editor", "viewer"}
  /\ {MaxVisits, MaxCalls, MaxTrouble} \subseteq Nat

VARIABLES
  clusters,  \* the clusters the API server manages
  created,   \* the flags created through the wizard: cluster, visit (history), body
  role,      \* the user's
  data,      \* the list of clusters in the query cache, or None
  fetch,     \* the request for that list
  page,      \* the page shown
  visit,     \* its number: an answer tells the page that asked from a later one
  chosen,    \* selectedCluster of the workloads page, form.clusterId of the wizard
  expanded,  \* the workload whose card is open, and the cluster it is of (history)
  scans,     \* the workloads in the query cache, by key
  scanning,  \* scans on their way
  register,  \* the register form: the id with its display name, and the kubeconfig
  removing,  \* the cluster the open confirmation is about
  wizard,    \* the wizard
  requests,  \* changes asked for, on their way to the API
  answers,   \* answers on their way back
  sent,      \* changes asked for so far
  trouble    \* failures and changes by others so far

server == <<clusters, created>>
query == <<data, fetch>>
scan == <<scans, scanning>>
local == <<chosen, expanded, register, removing, wizard>>
network == <<requests, answers, sent>>
vars == <<server, role, query, page, visit, local, scan, network, trouble>>

IsAdmin == role = "admin"
CanEdit == role # "viewer"

Kinds == {"register", "remove", "create"}

NewFlag == [name : FlagNames, type : Types, value : Values, delivery : DeliveryInput]

\* What is sent of it.
Body == [name : FlagNames, type : Types, value : Values, delivery : Delivery \cup {None}]

\* flag: the form a create was sent from (history), and its body; good: of a registration,
\* whether the kubeconfig can be used.
Request == [kind : Kinds, visit : Nat, cluster : Ids, flag : NewFlag, body : Body \cup {None},
            good : BOOLEAN, n : Nat]
Answer == [kind : Kinds, visit : Nat, cluster : Ids, flag : NewFlag, result : {"ok", "error"},
           n : Nat]

\* touched: it was edited with the create on its way (history).
Wizard == [step : 1..4, flag : NewFlag, touched : BOOLEAN]

TypeOK ==
  /\ clusters \subseteq Ids /\ created \subseteq [cluster : Ids, visit : Nat, body : Body]
  /\ role \in Roles
  /\ data \in {None} \cup SUBSET Ids
  /\ fetch \in [at : {"idle", "asked", "answered"}, list : {None} \cup SUBSET Ids]
  /\ page \in Pages /\ visit \in 0..MaxVisits
  /\ chosen \in Ids \cup {None}
  /\ expanded \in [workload : (UNION {Workloads[i] : i \in Ids}) \cup {None}, cluster : Ids \cup {None}]
  /\ scans \in [Ids -> [state : {"none", "ok", "error"}, cluster : Ids \cup {None}]]
  /\ scanning \subseteq [key : Ids, cluster : Ids, tries : 0..1]
  /\ register \in [shown : BOOLEAN, id : Ids \cup {None}, good : BOOLEAN]
  /\ removing \in Ids \cup {None}
  /\ wizard \in Wizard
  /\ requests \subseteq Request /\ answers \subseteq Answer
  /\ sent \in 0..MaxCalls /\ trouble \in 0..MaxTrouble
  /\ page # "wizard" => wizard.step = 1
  /\ page = "wizard" => register.id = None /\ removing = None

-----------------------------------------------------------------------------
\* A call fails or another admin acts, once more.
Trouble == trouble < MaxTrouble /\ trouble' = trouble + 1

(* Pages and what they start with *)

NoCard == [workload |-> None, cluster |-> None]
EmptyForm == [shown |-> FALSE, id |-> None, good |-> FALSE]
EmptyFlag == [name |-> Blank, type |-> "boolean", value |-> "false",
              delivery |-> [method |-> "envVar", labels |-> Blank, cmName |-> FALSE]]
NewWizard == [step |-> 1, flag |-> EmptyFlag, touched |-> FALSE]

\* Defect: the choice is not looked at.
AutoSelect_Always(c, list) ==
  IF list # None /\ Cardinality(list) = 1 THEN CHOOSE i \in list : TRUE ELSE c

\* The effect that runs after each change of the list or the choice: the only
\* cluster is selected where none is.
AutoSelect(c, list) ==
  IF c = None /\ list # None /\ Cardinality(list) = 1 THEN CHOOSE i \in list : TRUE ELSE c

ChoiceOn(p, c, list) == IF p = "clusters" THEN None ELSE AutoSelect(c, list)

\* Leaving a page for another, or for the same anew.
Navigate(p) ==
  /\ visit < MaxVisits
  /\ p = "wizard" => CanEdit
  /\ page' = p /\ visit' = visit + 1
  /\ chosen' = ChoiceOn(p, None, data)
  /\ expanded' = NoCard /\ register' = EmptyForm /\ removing' = None /\ wizard' = NewWizard
  /\ UNCHANGED <<server, role, query, scan, network, trouble>>

\* A call of this very page is on its way.
Pending(kind) == \E c \in requests \cup answers : c.kind = kind /\ c.visit = visit

-----------------------------------------------------------------------------
(* The list of clusters *)

Idle == [at |-> "idle", list |-> None]
Asked == [Idle EXCEPT !.at = "asked"]

\* Mounting, the interval of ten seconds, a focused window: any time.
Fetch ==
  /\ fetch.at = "idle"
  /\ fetch' = Asked
  /\ UNCHANGED <<server, role, data, page, visit, local, scan, network, trouble>>

ServeList ==
  /\ fetch.at = "asked"
  /\ fetch' = [at |-> "answered", list |-> clusters]
  /\ UNCHANGED <<server, role, data, page, visit, local, scan, network, trouble>>

Arrive ==
  /\ fetch.at = "answered"
  /\ data' = fetch.list
  /\ fetch' = Idle
  /\ chosen' = ChoiceOn(page, chosen, data')
  /\ UNCHANGED <<server, role, page, visit, expanded, register, removing, wizard, scan, network, trouble>>

FetchFails ==
  /\ fetch.at = "asked" /\ Trouble
  /\ fetch' = Idle
  /\ UNCHANGED <<server, role, data, page, visit, local, scan, network>>

Listed == IF data = None THEN {} ELSE data

-----------------------------------------------------------------------------
(* The clusters page *)

\* A change is sent; calls carry a number, so that two alike stay two.
Send(kind, c, flag, body, good) ==
  /\ sent < MaxCalls
  /\ sent' = sent + 1
  /\ requests' = requests \cup
       {[kind |-> kind, visit |-> visit, cluster |-> c, flag |-> flag, body |-> body,
         good |-> good, n |-> sent']}
  /\ UNCHANGED answers

\* The button above the form, its cross and Cancel: what is typed stays in it.
ShowRegister ==
  /\ page = "clusters" /\ IsAdmin /\ removing = None
  /\ register' = [register EXCEPT !.shown = ~@]
  /\ UNCHANGED <<server, role, query, page, visit, chosen, expanded, removing, wizard, scan, network, trouble>>

TypeRegister(id, good) ==
  /\ register.shown /\ removing = None
  /\ register' = [shown |-> TRUE, id |-> id, good |-> good]
  /\ UNCHANGED <<server, role, query, page, visit, chosen, expanded, removing, wizard, scan, network, trouble>>

SubmitRegister ==
  /\ register.shown /\ removing = None /\ ~Pending("register")
  /\ register.id # None
  /\ Send("register", register.id, EmptyFlag, None, register.good)
  /\ UNCHANGED <<server, role, query, page, visit, local, scan, trouble>>

AskRemove(c) ==
  /\ page = "clusters" /\ removing = None
  /\ IsAdmin /\ c \in Listed
  /\ removing' = c
  /\ UNCHANGED <<server, role, query, page, visit, chosen, expanded, register, wizard, scan, network, trouble>>

DismissRemove ==
  /\ removing # None
  /\ removing' = None
  /\ UNCHANGED <<server, role, query, page, visit, chosen, expanded, register, wizard, scan, network, trouble>>

ConfirmRemove ==
  /\ removing # None
  /\ Send("remove", removing, EmptyFlag, None, FALSE)
  /\ removing' = None
  /\ UNCHANGED <<server, role, query, page, visit, chosen, expanded, register, wizard, scan, trouble>>

-----------------------------------------------------------------------------
(* The workloads page *)

Select(c) ==
  /\ page = "workloads" /\ c \in Listed \cup {None} /\ c # chosen
  /\ chosen' = AutoSelect(c, data)
  /\ expanded' = NoCard
  /\ UNCHANGED <<server, role, query, page, visit, register, removing, wizard, scan, network, trouble>>

\* Defect: the key does not name the cluster.
Key_Constant(c) == CHOOSE i \in Ids : TRUE

\* The query's key.
Key(c) == c

\* Selecting, the interval, a focused window; one request per key.
Scan ==
  /\ page = "workloads" /\ chosen # None
  /\ \A s \in scanning : s.key # Key(chosen)
  /\ scanning' = scanning \cup {[key |-> Key(chosen), cluster |-> chosen, tries |-> 0]}
  /\ UNCHANGED <<server, role, query, page, visit, local, scans, network, trouble>>

ScanArrives(s) ==
  /\ CanEdit /\ s.cluster \in clusters
  /\ scanning' = scanning \ {s}
  /\ scans' = [scans EXCEPT ![s.key] = [state |-> "ok", cluster |-> s.cluster]]
  /\ UNCHANGED <<server, role, query, page, visit, local, network, trouble>>

\* One retry, then the error takes the place of the workloads, which stay in the cache.
ScanFails(s) ==
  /\ \/ ~(CanEdit /\ s.cluster \in clusters) /\ UNCHANGED trouble
     \/ Trouble
  /\ IF s.tries = 0
     THEN scanning' = (scanning \ {s}) \cup {[s EXCEPT !.tries = 1]} /\ UNCHANGED scans
     ELSE scanning' = scanning \ {s} /\ scans' = [scans EXCEPT ![s.key].state = "error"]
  /\ UNCHANGED <<server, role, query, page, visit, local, network>>

\* The cluster whose workloads are on the screen.
ShownCluster ==
  IF chosen # None /\ scans[Key(chosen)].state = "ok" THEN scans[Key(chosen)].cluster ELSE None

ToggleCard(w) ==
  /\ page = "workloads" /\ ShownCluster # None /\ w \in Workloads[ShownCluster]
  /\ expanded' = IF expanded.workload = w THEN NoCard
                 ELSE [workload |-> w, cluster |-> ShownCluster]
  /\ UNCHANGED <<server, role, query, page, visit, chosen, register, removing, wizard, scan, network, trouble>>

-----------------------------------------------------------------------------
(* The wizard *)

CanProceed1(flag) == flag.name # Blank /\ chosen # None

\* Defect: a ConfigMap needs no labels.
CanProceed2_NoLabels(flag) ==
  IF flag.delivery.method = "configMap" THEN flag.delivery.cmName ELSE flag.delivery.labels # Blank

\* Some text has been entered, whatever it spells.
CanProceed2(flag) ==
  /\ flag.delivery.labels # Blank
  /\ flag.delivery.method = "configMap" => flag.delivery.cmName

Edits(flag) ==
  /\ flag # wizard.flag
  /\ wizard' = [wizard EXCEPT !.flag = flag, !.touched = @ \/ Pending("create")]
  /\ UNCHANGED <<server, role, query, page, visit, expanded, register, removing, scan, network, trouble>>

\* The cluster is asked for only where there is a choice.
ChooseCluster(c) ==
  /\ page = "wizard" /\ wizard.step = 1
  /\ Cardinality(Listed) > 1 /\ c \in Listed \cup {None}
  /\ chosen' = c
  /\ wizard' = [wizard EXCEPT !.touched = @ \/ Pending("create")]
  /\ UNCHANGED <<server, role, query, page, visit, expanded, register, removing, scan, network, trouble>>

NameFlag(name) ==
  /\ page = "wizard" /\ wizard.step = 1
  /\ Edits([wizard.flag EXCEPT !.name = name])
  /\ UNCHANGED chosen

ChooseType(type) ==
  /\ page = "wizard" /\ wizard.step = 1 /\ type # wizard.flag.type
  /\ Edits([wizard.flag EXCEPT !.type = type, !.value = IF type = "boolean" THEN "false" ELSE Blank])
  /\ UNCHANGED chosen

GiveValue(v) ==
  /\ page = "wizard" /\ wizard.step = 1
  /\ wizard.flag.type = "boolean" => v \in {"true", "false"}
  /\ Edits([wizard.flag EXCEPT !.value = v])
  /\ UNCHANGED chosen

EnterDelivery ==
  /\ page = "wizard" /\ wizard.step = 2
  /\ \E d \in DeliveryInputs : Edits([wizard.flag EXCEPT !.delivery = d])
  /\ UNCHANGED chosen

NextStep ==
  /\ page = "wizard"
  /\ \/ wizard.step = 1 /\ CanProceed1(wizard.flag)
     \/ wizard.step = 2 /\ CanProceed2(wizard.flag)
  /\ wizard' = [wizard EXCEPT !.step = @ + 1]
  /\ UNCHANGED <<server, role, query, page, visit, chosen, expanded, register, removing, scan, network, trouble>>

\* Offered while the create is on its way, too.
Back ==
  /\ page = "wizard" /\ wizard.step \in {2, 3}
  /\ wizard' = [wizard EXCEPT !.step = @ - 1]
  /\ UNCHANGED <<server, role, query, page, visit, chosen, expanded, register, removing, scan, network, trouble>>

\* Split at commas and =; a key without a value is not sent.
Parsed(text) == IF text \in Labels THEN text ELSE None

\* The delivery, if what it takes has been entered.
Built(d) ==
  IF \/ d.method \in {"envVar", "sidecar"} /\ d.labels # Blank
     \/ d.method = "configMap" /\ d.cmName
  THEN [method |-> d.method, selector |-> Parsed(d.labels)]
  ELSE None

Sent(flag) == [name |-> flag.name, type |-> flag.type, value |-> flag.value,
               delivery |-> Built(flag.delivery)]

Create ==
  /\ page = "wizard" /\ wizard.step = 3 /\ ~Pending("create")
  /\ Send("create", chosen, wizard.flag, Sent(wizard.flag), FALSE)
  /\ wizard' = [wizard EXCEPT !.touched = FALSE]
  /\ UNCHANGED <<server, role, query, page, visit, chosen, expanded, register, removing, scan, trouble>>

-----------------------------------------------------------------------------
(* The API and its answers *)

\* AddCluster, RemoveCluster, and the create of a flag, when they succeed.
Accepted(c) ==
  CASE c.kind = "register" -> c.cluster \notin clusters /\ c.good
    [] c.kind = "remove" -> c.cluster \in clusters
    [] c.kind = "create" -> /\ c.cluster \in clusters
                            /\ \A f \in created : f.cluster = c.cluster => f.body.name # c.body.name

Effect(c) ==
  /\ clusters' = CASE c.kind = "register" -> clusters \cup {c.cluster}
                   [] c.kind = "remove" -> clusters \ {c.cluster}
                   [] c.kind = "create" -> clusters
  /\ created' = IF c.kind = "create"
                THEN created \cup {[cluster |-> c.cluster, visit |-> c.visit, body |-> c.body]}
                ELSE created

Answered(c, result) ==
  /\ requests' = requests \ {c}
  /\ answers' = answers \cup {[kind |-> c.kind, visit |-> c.visit, cluster |-> c.cluster,
                               flag |-> c.flag, result |-> result, n |-> c.n]}
  /\ UNCHANGED <<sent, role, query, page, visit, local, scan>>

\* A removal is answered 204, which the proxy turns into an error.
Serve(c) ==
  /\ Accepted(c)
  /\ Effect(c)
  /\ \/ Answered(c, IF c.kind = "remove" THEN "error" ELSE "ok") /\ UNCHANGED trouble
     \/ Trouble /\ Answered(c, "error")

Refuse(c) ==
  /\ \/ ~Accepted(c) /\ UNCHANGED trouble
     \/ Trouble
  /\ Answered(c, "error")
  /\ UNCHANGED server

\* The register form once the answer a is there.
RegisterAfter(a) == IF a.result = "ok" THEN EmptyForm ELSE register

\* Defect: the last step is shown whatever the answer.
WizardAfter_Settled(a) == [wizard EXCEPT !.step = 4]

\* An error is shown below the step the wizard is at.
WizardAfter(a) == IF a.result = "ok" THEN [wizard EXCEPT !.step = 4] ELSE wizard

\* invalidateQueries drops a list that is on its way and asks again, but leaves the
\* first one alone, which may be from before the change.
Refetched == IF data = None /\ fetch.at # "idle" THEN fetch ELSE Asked

\* The answer changes the page that asked, if it is still there; a success has the
\* list of clusters read again in any case.
Settle(a) ==
  /\ answers' = answers \ {a}
  /\ register' = IF a.kind = "register" /\ a.visit = visit THEN RegisterAfter(a) ELSE register
  /\ wizard' = IF a.kind = "create" /\ a.visit = visit THEN WizardAfter(a) ELSE wizard
  /\ fetch' = IF a.kind # "create" /\ a.result = "ok" THEN Refetched ELSE fetch
  /\ UNCHANGED <<server, role, data, page, visit, chosen, expanded, removing, scan, requests, sent, trouble>>

\* Another admin registers or removes a cluster.
OutsideChange(c) ==
  /\ Trouble
  /\ clusters' = IF c \in clusters THEN clusters \ {c} ELSE clusters \cup {c}
  /\ UNCHANGED <<created, role, query, page, visit, local, scan, network>>

-----------------------------------------------------------------------------
Init ==
  /\ clusters \in InitClusters /\ created = {}
  /\ role \in Roles
  /\ data = None /\ fetch = Idle
  /\ page \in FirstPages \ {"wizard"} /\ visit = 0
  /\ chosen = None /\ expanded = NoCard
  /\ scans = [i \in Ids |-> [state |-> "none", cluster |-> None]] /\ scanning = {}
  /\ register = EmptyForm /\ removing = None /\ wizard = NewWizard
  /\ requests = {} /\ answers = {} /\ sent = 0 /\ trouble = 0

ClustersPage ==
  \/ ShowRegister \/ SubmitRegister \/ DismissRemove \/ ConfirmRemove
  \/ \E c \in Ids : AskRemove(c)
  \/ \E c \in Typed, good \in BOOLEAN : TypeRegister(c, good)

WorkloadsPage ==
  \/ Scan
  \/ \E c \in Ids \cup {None} : Select(c)
  \/ \E s \in scanning : ScanArrives(s) \/ ScanFails(s)
  \/ \E w \in UNION {Workloads[i] : i \in Ids} : ToggleCard(w)

CreateFlagModal ==
  \/ EnterDelivery \/ NextStep \/ Back \/ Create
  \/ \E c \in Ids \cup {None} : ChooseCluster(c)
  \/ \E name \in FlagNames : NameFlag(name)
  \/ \E type \in Types : ChooseType(type)
  \/ \E v \in Values : GiveValue(v)

Next ==
  \/ Fetch \/ ServeList \/ Arrive \/ FetchFails
  \/ \E p \in Pages : Navigate(p)
  \/ ClustersPage \/ WorkloadsPage \/ CreateFlagModal
  \/ \E c \in requests : Serve(c) \/ Refuse(c)
  \/ \E a \in answers : Settle(a)
  \/ \E c \in Ids : OutsideChange(c)

Spec == Init /\ [][Next]_vars
=============================================================================
