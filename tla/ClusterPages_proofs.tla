------------------------- MODULE ClusterPages_proofs -------------------------
(***************************************************************************)
(* Proofs about ClusterPages: for any clusters, workloads, inputs and      *)
(* numbers of visits, changes and failures.                                *)
(***************************************************************************)
EXTENDS ClusterPagesProps, FiniteSetTheorems, TLAPS

\* A flag that the wizard may send.
Whole(f) == f.name # Blank /\ CanProceed2(f) /\ (f.type = "boolean" => f.value \in {"true", "false"})

\* Only the page that is shown has something typed, chosen or open.
PagesAgree ==
  /\ page = "clusters" => chosen = None
  /\ page # "clusters" => ~register.shown /\ register.id = None /\ removing = None
  /\ page # "workloads" => expanded.workload = None
  /\ expanded.workload # None => chosen # None /\ expanded.cluster = chosen

\* This wizard has created a flag: the one it shows, if it has not been edited since.
HasCreated ==
  \E f \in created :
    /\ f.visit = visit
    /\ ~wizard.touched => f.cluster = chosen /\ f.body = Sent(wizard.flag)

\* What each step of the wizard has made sure of.
StepsAreEarned ==
  /\ wizard.flag.type = "boolean" => wizard.flag.value \in {"true", "false"}
  /\ wizard.step \in {2, 3} => wizard.flag.name # Blank /\ chosen # None
  /\ wizard.step = 3 => CanProceed2(wizard.flag)
  /\ wizard.step = 4 => HasCreated

Calls == requests \cup answers

\* A create is of this wizard, and of what it shows, or of an earlier one.
CreateIsSound(c) ==
  c.kind = "create" =>
    /\ Whole(c.flag)
    /\ c.visit = visit =>
         /\ page = "wizard" /\ wizard.step # 4
         /\ ~wizard.touched => c.cluster = chosen /\ c.flag = wizard.flag

\* A success is of a flag that was created.
Told(a) ==
  a.kind = "create" /\ a.result = "ok" =>
    [cluster |-> a.cluster, visit |-> a.visit, body |-> Sent(a.flag)] \in created

CallsAreSound ==
  /\ \A c \in Calls : c.visit <= visit /\ CreateIsSound(c)
  /\ \A c, d \in Calls : c.kind = "create" /\ d.kind = "create" /\ c.visit = visit /\ d.visit = visit => c = d
  /\ \A c \in requests : c.kind = "create" => c.body = Sent(c.flag)
  /\ \A a \in answers : Told(a)

\* Scans are kept under the cluster they are of.
ScansAreOfTheirKeys ==
  /\ \A s \in scanning : s.key = s.cluster
  /\ \A i \in Ids : scans[i].state = "ok" => scans[i].cluster = i

\* The inductive invariant.
IInv == TypeOK /\ PagesAgree /\ StepsAreEarned /\ CallsAreSound /\ ScansAreOfTheirKeys

-----------------------------------------------------------------------------
(* What the effect chooses, and what the pages start with *)

\* None is no cluster.
LEMMA NoneIsNoId == None \notin Ids
  BY ClusterPagesConstants

\* The effect chooses a cluster or leaves the choice, and never takes one back.
LEMMA AutoChoice ==
  ASSUME NEW c \in Ids \cup {None}, NEW list \in {None} \cup SUBSET Ids
  PROVE  /\ AutoSelect(c, list) \in Ids \cup {None}
         /\ c # None => AutoSelect(c, list) = c
  <1>1. CASE c = None /\ list # None /\ Cardinality(list) = 1
    <2>1. list \in SUBSET Ids /\ IsFiniteSet(list)
      BY <1>1, ClusterPagesConstants, FS_Subset
    <2>2. \E i : list = {i}
      BY <1>1, <2>1, FS_Singleton
    <2>3. (CHOOSE i \in list : TRUE) \in list
      BY <2>2
    <2> QED
      BY <1>1, <2>1, <2>3 DEF AutoSelect
  <1>2. CASE ~(c = None /\ list # None /\ Cardinality(list) = 1)
    BY <1>2 DEF AutoSelect
  <1> QED
    BY <1>1, <1>2

\* The same on any page.
LEMMA ChoiceOnPage ==
  ASSUME NEW p, NEW c \in Ids \cup {None}, NEW list \in {None} \cup SUBSET Ids
  PROVE  /\ ChoiceOn(p, c, list) \in Ids \cup {None}
         /\ p = "clusters" => ChoiceOn(p, c, list) = None
         /\ p # "clusters" /\ c # None => ChoiceOn(p, c, list) = c
  BY AutoChoice DEF ChoiceOn

\* What a page starts with is well typed.
LEMMA FreshTyped ==
  /\ EmptyFlag \in NewFlag
  /\ NewWizard \in Wizard
  /\ EmptyForm \in [shown : BOOLEAN, id : Ids \cup {None}, good : BOOLEAN]
  /\ NoCard \in [workload : (UNION {Workloads[i] : i \in Ids}) \cup {None}, cluster : Ids \cup {None}]
  <1>1. EmptyFlag \in NewFlag
    BY ClusterPagesConstants DEF EmptyFlag, NewFlag, Types, DeliveryInput, Methods, LabelTexts
  <1>2. NewWizard \in Wizard
    BY <1>1 DEF NewWizard, Wizard
  <1>3. EmptyForm \in [shown : BOOLEAN, id : Ids \cup {None}, good : BOOLEAN]
    BY DEF EmptyForm
  <1>4. NoCard \in [workload : (UNION {Workloads[i] : i \in Ids}) \cup {None}, cluster : Ids \cup {None}]
    BY DEF NoCard
  <1> QED
    BY <1>1, <1>2, <1>3, <1>4

\* Any form may be sent, and one that has passed step 2 is sent with a delivery.
LEMMA SentTyped ==
  ASSUME NEW f \in NewFlag
  PROVE  /\ Sent(f) \in Body
         /\ CanProceed2(f) =>
              /\ Sent(f).delivery # None
              /\ Sent(f).delivery.selector = None => f.delivery.labels = Junk
  <1>1. f.delivery \in DeliveryInput
    BY DEF NewFlag
  <1> DEFINE d == f.delivery
             built == [method |-> d.method, selector |-> Parsed(d.labels)]
  <1>2. built \in Delivery /\ built # None
    <2>1. Parsed(d.labels) \in Labels \cup {None}
      BY DEF Parsed
    <2>2. built \in Delivery
      BY <1>1, <2>1 DEF DeliveryInput, Delivery
    <2> QED
      BY <2>2, ClusterPagesConstants
  <1>3. Sent(f) \in Body /\ Sent(f).delivery = Built(d)
    BY <1>2 DEF Sent, Body, Built, NewFlag
  <1>4. CanProceed2(f) => Built(d) = built
    BY <1>1 DEF CanProceed2, Built, DeliveryInput, Methods
  <1>5. CanProceed2(f) /\ built.selector = None => d.labels = Junk
    BY <1>1, ClusterPagesConstants DEF CanProceed2, Parsed, DeliveryInput, LabelTexts
  <1> QED
    BY <1>2, <1>3, <1>4, <1>5

-----------------------------------------------------------------------------
(* What most actions leave alone *)

\* One more failure, or one more change by others, is within the bound.
LEMMA TroubleTyped == ASSUME TypeOK, Trouble PROVE trouble' \in 0..MaxTrouble
  BY ClusterPagesConstants DEF TypeOK, Trouble

LEMMA PagesStay ==
  ASSUME IInv, UNCHANGED <<page, chosen, expanded, register, removing>>
  PROVE  PagesAgree'
  BY DEF IInv, PagesAgree

LEMMA StepsStay ==
  ASSUME IInv, UNCHANGED <<chosen, wizard, visit>>, created \subseteq created'
  PROVE  StepsAreEarned'
  BY DEF IInv, StepsAreEarned, HasCreated, CanProceed2, Sent, Built, Parsed

LEMMA ScansStay ==
  ASSUME IInv, UNCHANGED scan
  PROVE  ScansAreOfTheirKeys'
  BY DEF IInv, ScansAreOfTheirKeys, scan

\* Calls stay sound as long as the wizard they are of shows what it did, or is touched.
LEMMA CallsStay ==
  ASSUME IInv, UNCHANGED <<requests, answers, visit, page>>, created \subseteq created',
         Pending("create") =>
           /\ wizard.step # 4 => wizard'.step # 4
           /\ wizard'.touched \/ /\ ~wizard.touched /\ wizard'.flag = wizard.flag
                                 /\ chosen # None => chosen' = chosen
  PROVE  CallsAreSound'
  <1>1. \A c \in Calls : c.cluster \in Ids
    BY DEF IInv, TypeOK, Calls, Request, Answer
  <1>2. ASSUME NEW c \in Calls PROVE CreateIsSound(c)'
    <2>1. CreateIsSound(c)
      BY DEF IInv, CallsAreSound
    <2>2. c.kind = "create" /\ c.visit = visit => Pending("create")
      BY DEF Pending, Calls
    <2> QED
      BY <1>1, <2>1, <2>2, NoneIsNoId DEF CreateIsSound, Whole, CanProceed2
  <1> QED
    BY <1>2 DEF IInv, CallsAreSound, Calls, Told, Sent, Built, Parsed

-----------------------------------------------------------------------------
(* Pages and the list *)

LEMMA NavigateKeeps == ASSUME IInv, NEW p \in Pages, Navigate(p) PROVE IInv'
  <1>1. visit' = visit + 1 /\ visit \in Nat /\ visit' \in 0..MaxVisits
    BY ClusterPagesConstants DEF Navigate, IInv, TypeOK
  <1>2. data \in {None} \cup SUBSET Ids
    BY DEF IInv, TypeOK
  <1>3. /\ chosen' \in Ids \cup {None}
        /\ page' = "clusters" => chosen' = None
    BY <1>2, ChoiceOnPage DEF Navigate
  <1>4. TypeOK'
    BY <1>1, <1>3, FreshTyped
    DEF Navigate, IInv, TypeOK, server, query, scan, network, NewWizard, EmptyForm
  <1>5. PagesAgree'
    BY <1>3 DEF Navigate, PagesAgree, NoCard, EmptyForm
  <1>6. StepsAreEarned'
    BY DEF Navigate, StepsAreEarned, NewWizard, EmptyFlag
  <1>7. CallsAreSound'
    <2>1. \A c \in Calls : c.visit \in Nat
      BY DEF IInv, TypeOK, Calls, Request, Answer
    <2>2. \A c \in Calls : c.visit < visit'
      BY <1>1, <2>1 DEF IInv, CallsAreSound
    <2>3. UNCHANGED <<requests, answers, created>>
      BY DEF Navigate, network, server
    <2>4. ASSUME NEW c \in Calls PROVE c.visit <= visit' /\ c.visit # visit' /\ CreateIsSound(c)'
      BY <1>1, <2>1, <2>2 DEF CreateIsSound, Whole, CanProceed2, IInv, CallsAreSound
    <2> QED
      BY <2>3, <2>4 DEF IInv, CallsAreSound, Calls, Told, Sent, Built, Parsed
  <1>8. ScansAreOfTheirKeys'
    BY ScansStay DEF Navigate
  <1> QED
    BY <1>4, <1>5, <1>6, <1>7, <1>8 DEF IInv

LEMMA FetchesKeep == ASSUME IInv, Fetch \/ ServeList \/ FetchFails PROVE IInv'
  <1>1. UNCHANGED <<server, role, data, page, visit, local, scan, network>>
    BY DEF Fetch, ServeList, FetchFails
  <1>2. trouble' \in 0..MaxTrouble
    BY TroubleTyped DEF Fetch, ServeList, FetchFails, IInv, TypeOK
  <1>3. fetch' \in [at : {"idle", "asked", "answered"}, list : {None} \cup SUBSET Ids]
    BY DEF Fetch, ServeList, FetchFails, IInv, TypeOK, Idle, Asked
  <1>4. TypeOK'
    BY <1>1, <1>2, <1>3 DEF IInv, TypeOK, server, local, scan, network
  <1> QED
    BY <1>1, <1>4, PagesStay, StepsStay, ScansStay, CallsStay DEF IInv, server, local, scan, network

LEMMA ArriveKeeps == ASSUME IInv, Arrive PROVE IInv'
  <1>1. data' \in {None} \cup SUBSET Ids /\ fetch' = Idle
    BY DEF Arrive, IInv, TypeOK
  <1>2. /\ chosen' \in Ids \cup {None}
        /\ page = "clusters" => chosen' = None
        /\ page # "clusters" /\ chosen # None => chosen' = chosen
    BY <1>1, ChoiceOnPage DEF Arrive, IInv, TypeOK
  <1>3. TypeOK'
    BY <1>1, <1>2 DEF Arrive, IInv, TypeOK, server, scan, network, Idle
  <1>4. PagesAgree'
    BY <1>2 DEF Arrive, IInv, PagesAgree
  <1>5. StepsAreEarned'
    <2>1. UNCHANGED <<wizard, visit, page, created>>
      BY DEF Arrive, server
    <2>2. HasCreated /\ page = "wizard" => HasCreated'
      <3>1. \A f \in created : f.cluster # None
        BY NoneIsNoId DEF IInv, TypeOK
      <3> QED
        BY <1>2, <2>1, <3>1 DEF HasCreated, Sent, Built, Parsed
    <2>3. wizard.step \in {2, 3, 4} => page = "wizard"
      BY DEF IInv, TypeOK
    <2>4. wizard.step \in {2, 3} => chosen' # None
      BY <1>2, <2>3 DEF IInv, StepsAreEarned
    <2> QED
      BY <2>1, <2>2, <2>3, <2>4 DEF IInv, StepsAreEarned, CanProceed2
  <1>6. CallsAreSound'
    <2>1. chosen # None => chosen' = chosen
      BY <1>2 DEF IInv, PagesAgree
    <2>2. Pending("create") => wizard.touched \in BOOLEAN
      BY DEF IInv, TypeOK, Wizard
    <2> QED
      BY <2>1, <2>2, CallsStay DEF Arrive, server, network
  <1>7. ScansAreOfTheirKeys'
    BY ScansStay DEF Arrive
  <1> QED
    BY <1>3, <1>4, <1>5, <1>6, <1>7 DEF IInv

-----------------------------------------------------------------------------
(* The clusters page *)

\* Sending: the call is well typed.
LEMMA SendTyped ==
  ASSUME TypeOK, NEW kind \in Kinds, NEW c \in Ids, NEW flag \in NewFlag, NEW body \in Body \cup {None},
         NEW good \in BOOLEAN, Send(kind, c, flag, body, good)
  PROVE  /\ sent' \in 0..MaxCalls
         /\ requests' \subseteq Request /\ answers' \subseteq Answer
  <1>1. sent' \in 0..MaxCalls /\ sent' \in Nat /\ visit \in Nat
    BY ClusterPagesConstants DEF Send, TypeOK
  <1> QED
    BY <1>1 DEF Send, TypeOK, Request

\* A change of the list of clusters sent from the page leaves the creates alone.
LEMMA SendKeepsCalls ==
  ASSUME IInv, NEW kind \in Kinds \ {"create"}, NEW c, NEW flag, NEW body, NEW good,
         Send(kind, c, flag, body, good), UNCHANGED <<visit, page, wizard, chosen, created>>
  PROVE  CallsAreSound'
  <1> DEFINE new == [kind |-> kind, visit |-> visit, cluster |-> c, flag |-> flag, body |-> body,
                     good |-> good, n |-> sent']
  <1>1. Calls' = Calls \cup {new} /\ answers' = answers
    BY DEF Send, Calls
  <1>2. new.kind # "create" /\ new.visit = visit /\ visit <= visit
    BY DEF IInv, TypeOK
  <1>3. ASSUME NEW d \in Calls PROVE d.visit <= visit /\ CreateIsSound(d)'
    BY DEF IInv, CallsAreSound, CreateIsSound, Whole, CanProceed2
  <1>4. \A d \in Calls' : d.visit <= visit' /\ CreateIsSound(d)'
    BY <1>1, <1>2, <1>3 DEF CreateIsSound
  <1>5. \A d, e \in Calls' : d.kind = "create" /\ e.kind = "create" /\ d.visit = visit' /\ e.visit = visit' => d = e
    BY <1>1, <1>2 DEF IInv, CallsAreSound
  <1>6. \A d \in requests' : d.kind = "create" => d.body = Sent(d.flag)
    BY <1>2 DEF Send, IInv, CallsAreSound
  <1>7. \A a \in answers' : Told(a)'
    BY <1>1 DEF IInv, CallsAreSound, Told, Sent, Built, Parsed
  <1>8. (\A d \in requests : d.kind = "create" => d.body = Sent(d.flag))'
    BY <1>6 DEF Sent, Built, Parsed
  <1> QED
    BY <1>4, <1>5, <1>7, <1>8 DEF CallsAreSound

\* What is typed, and what is asked about, on the clusters page.
LEMMA ClusterFormsKeep ==
  ASSUME IInv,
         \/ ShowRegister \/ DismissRemove
         \/ \E c \in Ids : AskRemove(c)
         \/ \E c \in Typed, good \in BOOLEAN : TypeRegister(c, good)
  PROVE  IInv'
  <1>1. UNCHANGED <<server, role, query, page, visit, chosen, expanded, wizard, scan, network, trouble>>
    BY DEF ShowRegister, DismissRemove, AskRemove, TypeRegister
  <1>2. register' \in [shown : BOOLEAN, id : Ids \cup {None}, good : BOOLEAN]
    <2>1. register \in [shown : BOOLEAN, id : Ids \cup {None}, good : BOOLEAN]
      BY DEF IInv, TypeOK
    <2>2. CASE ShowRegister
      BY <2>1, <2>2 DEF ShowRegister
    <2>3. ASSUME NEW c \in Typed, NEW good \in BOOLEAN, TypeRegister(c, good)
          PROVE  register' \in [shown : BOOLEAN, id : Ids \cup {None}, good : BOOLEAN]
      BY <2>3, ClusterPagesConstants DEF TypeRegister
    <2>4. CASE DismissRemove \/ \E c \in Ids : AskRemove(c)
      BY <2>1, <2>4 DEF DismissRemove, AskRemove
    <2> QED
      BY <2>2, <2>3, <2>4
  <1>3. removing' \in Ids \cup {None}
    BY DEF ShowRegister, DismissRemove, AskRemove, TypeRegister, IInv, TypeOK
  <1>4. page # "clusters" => ~register'.shown /\ register'.id = None /\ removing' = None
    BY DEF ShowRegister, DismissRemove, AskRemove, TypeRegister, IInv, PagesAgree
  <1>5. TypeOK'
    BY <1>1, <1>2, <1>3, <1>4 DEF IInv, TypeOK, server, query, scan, network
  <1>6. PagesAgree'
    BY <1>1, <1>4 DEF IInv, PagesAgree
  <1> QED
    BY <1>1, <1>5, <1>6, StepsStay, ScansStay, CallsStay DEF IInv, server, network

LEMMA SubmitRegisterKeeps == ASSUME IInv, SubmitRegister PROVE IInv'
  <1>1. /\ Send("register", register.id, EmptyFlag, None, register.good)
        /\ UNCHANGED <<server, role, query, page, visit, local, scan, trouble>>
    BY DEF SubmitRegister
  <1>2. register.id \in Ids /\ register.good \in BOOLEAN
    BY DEF SubmitRegister, IInv, TypeOK
  <1>3. sent' \in 0..MaxCalls /\ requests' \subseteq Request /\ answers' \subseteq Answer
    BY <1>1, <1>2, FreshTyped, SendTyped DEF IInv, Kinds
  <1>4. TypeOK'
    BY <1>1, <1>3 DEF IInv, TypeOK, server, query, local, scan
  <1>5. CallsAreSound'
    BY <1>1, SendKeepsCalls DEF Kinds, server, local
  <1> QED
    BY <1>1, <1>4, <1>5, PagesStay, StepsStay, ScansStay DEF IInv, server, local

LEMMA ConfirmRemoveKeeps == ASSUME IInv, ConfirmRemove PROVE IInv'
  <1>1. /\ Send("remove", removing, EmptyFlag, None, FALSE) /\ removing' = None
        /\ UNCHANGED <<server, role, query, page, visit, chosen, expanded, register, wizard, scan, trouble>>
    BY DEF ConfirmRemove
  <1>2. removing \in Ids
    BY DEF ConfirmRemove, IInv, TypeOK
  <1>3. sent' \in 0..MaxCalls /\ requests' \subseteq Request /\ answers' \subseteq Answer
    BY <1>1, <1>2, FreshTyped, SendTyped DEF IInv, Kinds
  <1>4. TypeOK'
    BY <1>1, <1>3 DEF IInv, TypeOK, server, query, scan
  <1>5. CallsAreSound'
    BY <1>1, SendKeepsCalls DEF Kinds, server
  <1>6. PagesAgree'
    BY <1>1 DEF IInv, PagesAgree
  <1> QED
    BY <1>1, <1>4, <1>5, <1>6, StepsStay, ScansStay DEF IInv, server

-----------------------------------------------------------------------------
(* The workloads page *)

\* The wizard is not open: nothing that is chosen here is of a create.
LEMMA SelectKeeps == ASSUME IInv, NEW c \in Ids \cup {None}, Select(c) PROVE IInv'
  <1>1. /\ page = "workloads" /\ expanded' = NoCard
        /\ UNCHANGED <<server, role, query, page, visit, register, removing, wizard, scan, network, trouble>>
    BY DEF Select
  <1>2. chosen' \in Ids \cup {None}
    BY AutoChoice DEF Select, IInv, TypeOK
  <1>3. TypeOK'
    BY <1>1, <1>2, FreshTyped DEF IInv, TypeOK, server, query, scan, network
  <1>4. PagesAgree'
    BY <1>1 DEF IInv, PagesAgree, NoCard
  <1>5. StepsAreEarned'
    BY <1>1 DEF IInv, TypeOK, StepsAreEarned, server
  <1>6. ~Pending("create")
    BY <1>1 DEF Pending, IInv, CallsAreSound, CreateIsSound, Calls
  <1>7. CallsAreSound'
    BY <1>1, <1>6, CallsStay DEF server, network
  <1> QED
    BY <1>1, <1>3, <1>4, <1>5, <1>7, ScansStay DEF IInv

LEMMA ScanKeeps == ASSUME IInv, Scan PROVE IInv'
  <1>1. /\ scanning' = scanning \cup {[key |-> chosen, cluster |-> chosen, tries |-> 0]}
        /\ UNCHANGED <<server, role, query, page, visit, local, scans, network, trouble>>
    BY DEF Scan, Key
  <1>2. chosen \in Ids
    BY DEF Scan, IInv, TypeOK
  <1>3. TypeOK'
    BY <1>1, <1>2 DEF IInv, TypeOK, server, query, local, network
  <1>4. ScansAreOfTheirKeys'
    BY <1>1 DEF IInv, ScansAreOfTheirKeys
  <1> QED
    BY <1>1, <1>3, <1>4, PagesStay, StepsStay, CallsStay DEF IInv, server, local, network

LEMMA ScanAnswersKeep ==
  ASSUME IInv, NEW s \in scanning, ScanArrives(s) \/ ScanFails(s)
  PROVE  IInv'
  <1>1. UNCHANGED <<server, role, query, page, visit, local, network>>
    BY DEF ScanArrives, ScanFails
  <1>2. s \in [key : Ids, cluster : Ids, tries : 0..1] /\ s.key = s.cluster
    BY DEF IInv, TypeOK, ScansAreOfTheirKeys
  <1>3. trouble' \in 0..MaxTrouble
    BY TroubleTyped DEF ScanArrives, ScanFails, IInv, TypeOK
  <1> DEFINE again == [s EXCEPT !.tries = 1]
  <1>4. again \in [key : Ids, cluster : Ids, tries : 0..1] /\ again.key = again.cluster
    BY <1>2
  <1>5. scanning' \subseteq scanning \cup {again}
    BY DEF ScanArrives, ScanFails
  <1>6. /\ scans' \in [Ids -> [state : {"none", "ok", "error"}, cluster : Ids \cup {None}]]
        /\ \A i \in Ids : scans'[i].state = "ok" => scans'[i].cluster = i
    <2>1. CASE ScanArrives(s)
      BY <1>2, <2>1 DEF ScanArrives, IInv, TypeOK, ScansAreOfTheirKeys
    <2>2. CASE ScanFails(s)
      <3>1. scans' = scans \/ scans' = [scans EXCEPT ![s.key].state = "error"]
        BY <2>2 DEF ScanFails
      <3> QED
        BY <1>2, <3>1 DEF IInv, TypeOK, ScansAreOfTheirKeys
    <2> QED
      BY <2>1, <2>2
  <1> HIDE DEF again
  <1>7. TypeOK'
    BY <1>1, <1>3, <1>4, <1>5, <1>6 DEF IInv, TypeOK, server, query, local, network
  <1>8. ScansAreOfTheirKeys'
    BY <1>4, <1>5, <1>6 DEF IInv, ScansAreOfTheirKeys
  <1> QED
    BY <1>1, <1>7, <1>8, PagesStay, StepsStay, CallsStay DEF IInv, server, local, network

\* What is on the screen is of the cluster that is selected.
LEMMA ShownIsChosen == ASSUME IInv PROVE ShownCluster \in {chosen, None}
  BY DEF IInv, TypeOK, ScansAreOfTheirKeys, ShownCluster, Key

LEMMA ToggleCardKeeps ==
  ASSUME IInv, NEW w \in UNION {Workloads[i] : i \in Ids}, ToggleCard(w)
  PROVE  IInv'
  <1>1. UNCHANGED <<server, role, query, page, visit, chosen, register, removing, wizard, scan, network, trouble>>
    BY DEF ToggleCard
  <1>2. ShownCluster = chosen /\ chosen \in Ids /\ page = "workloads" /\ chosen # None
    BY ShownIsChosen DEF ToggleCard, IInv, TypeOK
  <1>3. expanded' = NoCard \/ expanded' = [workload |-> w, cluster |-> chosen]
    BY <1>2 DEF ToggleCard
  <1>4. TypeOK'
    BY <1>1, <1>2, <1>3, FreshTyped DEF IInv, TypeOK, server, query, scan, network
  <1>5. PagesAgree'
    BY <1>1, <1>2, <1>3 DEF IInv, PagesAgree, NoCard
  <1> QED
    BY <1>1, <1>4, <1>5, StepsStay, ScansStay, CallsStay DEF IInv, server, network

-----------------------------------------------------------------------------
(* The wizard *)

\* An edit of the flag in step 1 or 2 marks what is on its way.
LEMMA EditsKeep ==
  ASSUME IInv, NEW f \in NewFlag, Edits(f), chosen' = chosen, page = "wizard",
         f.type = "boolean" => f.value \in {"true", "false"},
         \/ wizard.step = 1
         \/ wizard.step = 2 /\ f.name = wizard.flag.name
  PROVE  IInv'
  <1>1. /\ wizard' = [wizard EXCEPT !.flag = f, !.touched = wizard.touched \/ Pending("create")]
        /\ UNCHANGED <<server, role, query, page, visit, expanded, register, removing, scan, network, trouble>>
    BY DEF Edits
  <1>2. wizard \in Wizard
    BY DEF IInv, TypeOK
  <1>3. /\ wizard'.flag = f /\ wizard'.step = wizard.step
        /\ wizard'.touched = (wizard.touched \/ Pending("create"))
    BY <1>1, <1>2 DEF Wizard
  <1>4. wizard' \in Wizard
    BY <1>1, <1>2 DEF Wizard, Pending
  <1>5. TypeOK'
    BY <1>1, <1>3, <1>4 DEF IInv, TypeOK, server, query, scan, network
  <1>6. StepsAreEarned'
    BY <1>3 DEF IInv, StepsAreEarned
  <1>7. CallsAreSound'
    BY <1>1, <1>3, CallsStay DEF server, network
  <1> QED
    BY <1>1, <1>5, <1>6, <1>7, PagesStay, ScansStay DEF IInv

LEMMA FlagInputsKeep ==
  ASSUME IInv,
         \/ EnterDelivery
         \/ \E name \in FlagNames : NameFlag(name)
         \/ \E type \in Types : ChooseType(type)
         \/ \E v \in Values : GiveValue(v)
  PROVE  IInv'
  <1>1. /\ wizard.flag \in NewFlag
        /\ wizard.flag.type = "boolean" => wizard.flag.value \in {"true", "false"}
    BY DEF IInv, TypeOK, Wizard, StepsAreEarned
  <1>2. CASE EnterDelivery
    <2>1. PICK d \in DeliveryInputs : Edits([wizard.flag EXCEPT !.delivery = d])
      BY <1>2 DEF EnterDelivery
    <2> DEFINE f == [wizard.flag EXCEPT !.delivery = d]
    <2>2. /\ f \in NewFlag /\ f.type = wizard.flag.type /\ f.value = wizard.flag.value
          /\ f.name = wizard.flag.name
      BY <1>1, ClusterPagesConstants DEF NewFlag
    <2> HIDE DEF f
    <2> QED
      BY <1>1, <1>2, <2>1, <2>2, EditsKeep DEF EnterDelivery, f
  <1>3. ASSUME NEW name \in FlagNames, NameFlag(name) PROVE IInv'
    <2> DEFINE f == [wizard.flag EXCEPT !.name = name]
    <2>1. f \in NewFlag /\ f.type = wizard.flag.type /\ f.value = wizard.flag.value
      BY <1>1 DEF NewFlag
    <2>2. Edits(f) /\ chosen' = chosen /\ page = "wizard" /\ wizard.step = 1
      BY <1>3 DEF NameFlag
    <2> HIDE DEF f
    <2> QED
      BY <1>1, <2>1, <2>2, EditsKeep
  <1>4. ASSUME NEW type \in Types, ChooseType(type) PROVE IInv'
    <2> DEFINE f == [wizard.flag EXCEPT !.type = type,
                                        !.value = IF type = "boolean" THEN "false" ELSE Blank]
    <2>1. f \in NewFlag /\ (f.type = "boolean" => f.value = "false")
      BY <1>1, ClusterPagesConstants DEF NewFlag
    <2>2. Edits(f) /\ chosen' = chosen /\ page = "wizard" /\ wizard.step = 1
      BY <1>4 DEF ChooseType
    <2> HIDE DEF f
    <2> QED
      BY <2>1, <2>2, EditsKeep
  <1>5. ASSUME NEW v \in Values, GiveValue(v) PROVE IInv'
    <2> DEFINE f == [wizard.flag EXCEPT !.value = v]
    <2>1. f \in NewFlag /\ f.type = wizard.flag.type /\ f.value = v
      BY <1>1 DEF NewFlag
    <2>2. /\ Edits(f) /\ chosen' = chosen /\ page = "wizard" /\ wizard.step = 1
          /\ wizard.flag.type = "boolean" => v \in {"true", "false"}
      BY <1>5 DEF GiveValue
    <2> HIDE DEF f
    <2> QED
      BY <2>1, <2>2, EditsKeep
  <1> QED
    BY <1>2, <1>3, <1>4, <1>5

LEMMA ChooseClusterKeeps ==
  ASSUME IInv, NEW c \in Ids \cup {None}, ChooseCluster(c)
  PROVE  IInv'
  <1>1. /\ page = "wizard" /\ wizard.step = 1 /\ chosen' = c
        /\ wizard' = [wizard EXCEPT !.touched = wizard.touched \/ Pending("create")]
        /\ UNCHANGED <<server, role, query, page, visit, expanded, register, removing, scan, network, trouble>>
    BY DEF ChooseCluster
  <1>2. wizard \in Wizard
    BY DEF IInv, TypeOK
  <1>3. /\ wizard'.flag = wizard.flag /\ wizard'.step = 1
        /\ wizard'.touched = (wizard.touched \/ Pending("create"))
    BY <1>1, <1>2 DEF Wizard
  <1>4. wizard' \in Wizard
    BY <1>1, <1>2 DEF Wizard, Pending
  <1>5. TypeOK'
    BY <1>1, <1>3, <1>4 DEF IInv, TypeOK, server, query, scan, network
  <1>6. StepsAreEarned'
    BY <1>3 DEF IInv, StepsAreEarned
  <1>7. CallsAreSound'
    BY <1>1, <1>3, CallsStay DEF server, network
  <1>8. PagesAgree'
    BY <1>1 DEF IInv, PagesAgree
  <1> QED
    BY <1>1, <1>5, <1>6, <1>7, <1>8, ScansStay DEF IInv

LEMMA StepsOfWizardKeep == ASSUME IInv, NextStep \/ Back PROVE IInv'
  <1>1. UNCHANGED <<server, role, query, page, visit, chosen, expanded, register, removing, scan, network, trouble>>
    BY DEF NextStep, Back
  <1>2. wizard \in Wizard /\ page = "wizard"
    BY DEF NextStep, Back, IInv, TypeOK
  <1>3. /\ wizard' \in Wizard /\ wizard'.flag = wizard.flag /\ wizard'.touched = wizard.touched
        /\ wizard'.step \in 1..3
        /\ wizard'.step = 2 => (wizard.step = 1 /\ CanProceed1(wizard.flag)) \/ wizard.step = 3
        /\ wizard'.step = 3 => wizard.step = 2 /\ CanProceed2(wizard.flag)
    BY <1>2 DEF NextStep, Back, Wizard
  <1>4. TypeOK'
    BY <1>1, <1>2, <1>3 DEF IInv, TypeOK, server, query, scan, network
  <1>5. StepsAreEarned'
    BY <1>1, <1>3 DEF IInv, StepsAreEarned, CanProceed1, CanProceed2
  <1>6. CallsAreSound'
    BY <1>1, <1>2, <1>3, CallsStay DEF server, network, Wizard
  <1> QED
    BY <1>1, <1>4, <1>5, <1>6, PagesStay, ScansStay DEF IInv

\* A create is sent from step 3, and is the only one of this wizard.
LEMMA CreateKeeps == ASSUME IInv, Create PROVE IInv'
  <1> PICK new : new = [kind |-> "create", visit |-> visit, cluster |-> chosen, flag |-> wizard.flag,
                        body |-> Sent(wizard.flag), good |-> FALSE, n |-> sent']
    OBVIOUS
  <1>1. /\ page = "wizard" /\ wizard.step = 3 /\ ~Pending("create")
        /\ Send("create", chosen, wizard.flag, Sent(wizard.flag), FALSE)
        /\ wizard' = [wizard EXCEPT !.touched = FALSE]
        /\ UNCHANGED <<server, role, query, page, visit, chosen, expanded, register, removing, scan, trouble>>
    BY DEF Create
  <1>2. wizard \in Wizard /\ wizard.flag \in NewFlag
    BY DEF IInv, TypeOK, Wizard
  <1>3. chosen \in Ids
    BY <1>1 DEF IInv, TypeOK, StepsAreEarned
  <1>4. wizard' \in Wizard /\ wizard'.flag = wizard.flag /\ wizard'.step = 3
    BY <1>1, <1>2 DEF Wizard
  <1>5. sent' \in 0..MaxCalls /\ requests' \subseteq Request /\ answers' \subseteq Answer
    BY <1>1, <1>2, <1>3, SentTyped, SendTyped DEF IInv, Kinds
  <1>6. TypeOK'
    BY <1>1, <1>4, <1>5 DEF IInv, TypeOK, server, query, scan
  <1>7. StepsAreEarned'
    BY <1>1, <1>4 DEF IInv, StepsAreEarned, CanProceed2
  <1>8. CallsAreSound'
    <2>1. Calls' = Calls \cup {new} /\ answers' = answers /\ created' = created
      BY <1>1 DEF Send, Calls, server
    <2>2. /\ new.kind = "create" /\ new.visit = visit /\ new.cluster = chosen
          /\ new.flag = wizard.flag /\ new.body = Sent(wizard.flag) /\ visit <= visit
      BY DEF IInv, TypeOK
    <2>3. Whole(wizard.flag)
      BY <1>1 DEF IInv, StepsAreEarned, Whole
    <2>4. CreateIsSound(new)'
      BY <1>1, <1>4, <2>2, <2>3 DEF CreateIsSound, Whole, CanProceed2
    <2>5. ASSUME NEW d \in Calls PROVE d.visit <= visit /\ CreateIsSound(d)'
                                       /\ ~(d.kind = "create" /\ d.visit = visit)
      BY <1>1 DEF IInv, CallsAreSound, CreateIsSound, Whole, CanProceed2, Pending, Calls
    <2>6. \A d \in Calls' : d.visit <= visit' /\ CreateIsSound(d)'
      BY <1>1, <2>1, <2>2, <2>4, <2>5
    <2>7. \A d, e \in Calls' : d.kind = "create" /\ e.kind = "create" /\ d.visit = visit' /\ e.visit = visit' => d = e
      BY <1>1, <2>1, <2>5
    <2>8. \A a \in answers' : Told(a)'
      BY <2>1 DEF IInv, CallsAreSound, Told, Sent, Built, Parsed
    <2>9. requests' = requests \cup {new}
      BY <1>1 DEF Send
    <2>10. (\A d \in requests : d.kind = "create" => d.body = Sent(d.flag))'
      BY <2>2, <2>9 DEF IInv, CallsAreSound, Sent, Built, Parsed
    <2> QED
      BY <2>6, <2>7, <2>8, <2>10 DEF CallsAreSound
  <1> QED
    BY <1>1, <1>6, <1>7, <1>8, PagesStay, ScansStay DEF IInv

-----------------------------------------------------------------------------
(* The API and its answers *)

\* The answer takes the place of the request: what is said of creates stays true if
\* a success is one.
LEMMA AnsweredKeeps ==
  ASSUME IInv, NEW c \in requests, NEW result \in {"ok", "error"}, Answered(c, result),
         created \subseteq created', created' \subseteq [cluster : Ids, visit : Nat, body : Body],
         clusters' \subseteq Ids, trouble' \in 0..MaxTrouble,
         c.kind = "create" /\ result = "ok" =>
           [cluster |-> c.cluster, visit |-> c.visit, body |-> c.body] \in created'
  PROVE  IInv'
  <1> DEFINE a == [kind |-> c.kind, visit |-> c.visit, cluster |-> c.cluster,
                   flag |-> c.flag, result |-> result, n |-> c.n]
  <1>1. /\ requests' = requests \ {c} /\ answers' = answers \cup {a}
        /\ UNCHANGED <<sent, role, query, page, visit, local, scan>>
    BY DEF Answered
  <1>2. c \in Request
    BY DEF IInv, TypeOK
  <1>3. /\ a \in Answer /\ a.kind = c.kind /\ a.visit = c.visit /\ a.cluster = c.cluster
        /\ a.flag = c.flag /\ a.result = result
    BY <1>2 DEF Request, Answer
  <1> HIDE DEF a
  <1>4. TypeOK'
    BY <1>1, <1>3 DEF IInv, TypeOK, query, local, scan
  <1>5. CallsAreSound'
    <2>1. Calls' = (requests \ {c}) \cup answers \cup {a} /\ c \in Calls
      BY <1>1 DEF Calls
    <2>2. UNCHANGED <<page, visit, chosen, wizard>>
      BY <1>1 DEF local
    <2>3. ASSUME NEW d \in Calls PROVE d.visit <= visit /\ CreateIsSound(d)'
      BY <2>2 DEF IInv, CallsAreSound, CreateIsSound, Whole, CanProceed2
    <2>4. a.visit <= visit /\ CreateIsSound(a)'
      BY <1>3, <2>1, <2>3 DEF CreateIsSound
    <2>5. \A d \in Calls' : d.visit <= visit' /\ CreateIsSound(d)'
      BY <2>1, <2>2, <2>3, <2>4 DEF Calls
    <2>6. \A d, e \in Calls' :
            d.kind = "create" /\ e.kind = "create" /\ d.visit = visit' /\ e.visit = visit' => d = e
      <3>1. \A d \in Calls : d.kind = "create" /\ c.kind = "create" /\ d.visit = visit /\ c.visit = visit
                             => d = c
        BY <2>1 DEF IInv, CallsAreSound
      <3>2. \A d \in answers : d # c \/ c.kind # "create" \/ c.visit # visit
        BY <1>2 DEF IInv, TypeOK, Request, Answer
      <3>3. \A d, e \in Calls : d.kind = "create" /\ e.kind = "create" /\ d.visit = visit /\ e.visit = visit
                                => d = e
        BY DEF IInv, CallsAreSound
      <3> QED
        BY <1>3, <2>1, <2>2, <3>1, <3>2, <3>3 DEF Calls
    <2>7. \A d \in answers' : Told(d)'
      <3>1. c.kind = "create" => c.body = Sent(c.flag)
        BY DEF IInv, CallsAreSound
      <3>2. Told(a)'
        BY <1>3, <3>1 DEF Told, Sent, Built, Parsed
      <3>3. \A d \in answers : Told(d)'
        BY DEF IInv, CallsAreSound, Told, Sent, Built, Parsed
      <3> QED
        BY <1>1, <3>2, <3>3
    <2>8. (\A d \in requests : d.kind = "create" => d.body = Sent(d.flag))'
      BY <1>1 DEF IInv, CallsAreSound, Sent, Built, Parsed
    <2> QED
      BY <2>5, <2>6, <2>7, <2>8 DEF CallsAreSound
  <1> QED
    BY <1>1, <1>4, <1>5, PagesStay, StepsStay, ScansStay DEF IInv, local

LEMMA ServeKeeps == ASSUME IInv, NEW c \in requests, Serve(c) PROVE IInv'
  <1>1. c \in Request
    BY DEF IInv, TypeOK
  <1> DEFINE made == [cluster |-> c.cluster, visit |-> c.visit, body |-> c.body]
  <1>2. /\ created' = IF c.kind = "create" THEN created \cup {made} ELSE created
        /\ clusters' \in {clusters, clusters \cup {c.cluster}, clusters \ {c.cluster}}
    BY <1>1 DEF Serve, Effect, Request, Kinds
  <1>3. /\ created \subseteq created' /\ created' \subseteq [cluster : Ids, visit : Nat, body : Body]
        /\ clusters' \subseteq Ids
    <2>1. c.kind = "create" => c.body \in Body
      BY <1>1, SentTyped DEF IInv, CallsAreSound, Request
    <2>2. c.kind = "create" => made \in [cluster : Ids, visit : Nat, body : Body]
      BY <1>1, <2>1 DEF Request
    <2> QED
      BY <1>1, <1>2, <2>2 DEF IInv, TypeOK, Request
  <1>4. trouble' \in 0..MaxTrouble
    BY TroubleTyped DEF Serve, IInv, TypeOK
  <1>5. \E result \in {"ok", "error"} : Answered(c, result)
    BY DEF Serve
  <1> QED
    BY <1>2, <1>3, <1>4, <1>5, AnsweredKeeps

LEMMA RefuseKeeps == ASSUME IInv, NEW c \in requests, Refuse(c) PROVE IInv'
  <1>1. Answered(c, "error") /\ UNCHANGED server
    BY DEF Refuse
  <1>2. trouble' \in 0..MaxTrouble
    BY TroubleTyped DEF Refuse, IInv, TypeOK
  <1> QED
    BY <1>1, <1>2, AnsweredKeeps DEF server, IInv, TypeOK

\* The answer of a create of this wizard is that of the flag it shows.
LEMMA SettleKeeps == ASSUME IInv, NEW a \in answers, Settle(a) PROVE IInv'
  <1>1. /\ answers' = answers \ {a}
        /\ UNCHANGED <<server, role, data, page, visit, chosen, expanded, removing, scan, requests, sent, trouble>>
    BY DEF Settle
  <1>2. a \in Answer /\ a \in Calls /\ wizard \in Wizard
    BY DEF IInv, TypeOK, Calls
  <1> DEFINE done == a.kind = "create" /\ a.visit = visit /\ a.result = "ok"
  <1>3. register' = register \/ register' = EmptyForm
    BY DEF Settle, RegisterAfter
  <1>4. wizard' = IF done THEN [wizard EXCEPT !.step = 4] ELSE wizard
    BY DEF Settle, WizardAfter
  <1>5. /\ wizard' \in Wizard /\ wizard'.flag = wizard.flag /\ wizard'.touched = wizard.touched
        /\ wizard'.step = IF done THEN 4 ELSE wizard.step
    BY <1>2, <1>4 DEF Wizard
  <1>6. fetch' \in [at : {"idle", "asked", "answered"}, list : {None} \cup SUBSET Ids]
    BY DEF Settle, Refetched, IInv, TypeOK, Asked, Idle
  <1>7. done => /\ page = "wizard" /\ (~wizard.touched => a.cluster = chosen /\ a.flag = wizard.flag)
                /\ a.visit = visit
                /\ [cluster |-> a.cluster, visit |-> a.visit, body |-> Sent(a.flag)] \in created
    BY <1>2 DEF IInv, CallsAreSound, CreateIsSound, Told
  <1> HIDE DEF done
  <1>8. TypeOK'
    <2>1. /\ register' \in [shown : BOOLEAN, id : Ids \cup {None}, good : BOOLEAN]
          /\ register.id = None => register'.id = None
      <3>1. EmptyForm \in [shown : BOOLEAN, id : Ids \cup {None}, good : BOOLEAN] /\ EmptyForm.id = None
        BY DEF EmptyForm
      <3>2. register \in [shown : BOOLEAN, id : Ids \cup {None}, good : BOOLEAN]
        BY DEF IInv, TypeOK
      <3> QED
        BY <1>3, <3>1, <3>2
    <2>2. page # "wizard" => wizard'.step = 1
      BY <1>5, <1>7 DEF IInv, TypeOK
    <2>3. answers' \subseteq Answer
      BY <1>1 DEF IInv, TypeOK
    <2> QED
      BY <1>1, <1>5, <1>6, <2>1, <2>2, <2>3 DEF IInv, TypeOK, server, scan
  <1>9. PagesAgree'
    BY <1>1, <1>3 DEF IInv, PagesAgree, EmptyForm
  <1>10. StepsAreEarned'
    <2>1. HasCreated => HasCreated'
      BY <1>1, <1>5 DEF HasCreated, server, Sent, Built, Parsed
    <2>2. done => HasCreated
      BY <1>7 DEF HasCreated
    <2> QED
      BY <1>1, <1>5, <2>1, <2>2 DEF IInv, StepsAreEarned, CanProceed2
  <1>11. CallsAreSound'
    <2>1. Calls' \subseteq Calls
      BY <1>1 DEF Calls
    <2>2. ASSUME NEW d \in Calls', done, d.kind = "create", d.visit = visit PROVE FALSE
      <3>1. d = a
        BY <1>2, <2>1, <2>2 DEF done, IInv, CallsAreSound
      <3>2. a \notin requests
        BY <1>2, <2>2 DEF IInv, TypeOK, Request, Answer, done
      <3> QED
        BY <1>1, <3>1, <3>2 DEF Calls
    <2>3. ASSUME NEW d \in Calls' PROVE d.visit <= visit' /\ CreateIsSound(d)'
      <3>1. d.visit <= visit /\ CreateIsSound(d)
        BY <2>1 DEF IInv, CallsAreSound
      <3> QED
        BY <1>1, <1>5, <2>2, <3>1 DEF CreateIsSound, Whole, CanProceed2
    <2> QED
      BY <1>1, <2>1, <2>3 DEF IInv, CallsAreSound, server, Told, Sent, Built, Parsed
  <1>12. ScansAreOfTheirKeys'
    BY <1>1, ScansStay
  <1> QED
    BY <1>8, <1>9, <1>10, <1>11, <1>12 DEF IInv

LEMMA OutsideKeeps == ASSUME IInv, NEW c \in Ids, OutsideChange(c) PROVE IInv'
  <1>1. /\ UNCHANGED <<created, role, query, page, visit, local, scan, network>>
        /\ clusters' \subseteq Ids
    BY DEF OutsideChange, IInv, TypeOK
  <1>2. trouble' \in 0..MaxTrouble
    BY TroubleTyped DEF OutsideChange, IInv
  <1>3. TypeOK'
    BY <1>1, <1>2 DEF IInv, TypeOK, query, local, scan, network
  <1> QED
    BY <1>1, <1>3, PagesStay, StepsStay, ScansStay, CallsStay DEF IInv, local, network

-----------------------------------------------------------------------------
(* The theorems *)

LEMMA InitSound == Init => IInv
  <1> SUFFICES ASSUME Init PROVE IInv
    OBVIOUS
  <1>1. TypeOK
    BY ClusterPagesConstants, FreshTyped DEF Init, TypeOK, Idle, NewWizard, EmptyForm
  <1>2. PagesAgree /\ StepsAreEarned
    BY DEF Init, PagesAgree, StepsAreEarned, NoCard, EmptyForm, NewWizard, EmptyFlag
  <1>3. CallsAreSound /\ ScansAreOfTheirKeys
    BY DEF Init, CallsAreSound, Calls, ScansAreOfTheirKeys
  <1> QED
    BY <1>1, <1>2, <1>3 DEF IInv

LEMMA NextSound == IInv /\ [Next]_vars => IInv'
  <1> SUFFICES ASSUME IInv, [Next]_vars PROVE IInv'
    OBVIOUS
  <1>1. ASSUME NEW p \in Pages, Navigate(p) PROVE IInv'
    BY <1>1, NavigateKeeps
  <1>2. CASE Fetch \/ ServeList \/ FetchFails
    BY <1>2, FetchesKeep
  <1>3. CASE Arrive
    BY <1>3, ArriveKeeps
  <1>4. CASE ClustersPage
    BY <1>4, ClusterFormsKeep, SubmitRegisterKeeps, ConfirmRemoveKeeps DEF ClustersPage
  <1>5. CASE WorkloadsPage
    BY <1>5, ScanKeeps, SelectKeeps, ScanAnswersKeep, ToggleCardKeeps DEF WorkloadsPage
  <1>6. CASE CreateFlagModal
    BY <1>6, FlagInputsKeep, ChooseClusterKeeps, StepsOfWizardKeep, CreateKeeps DEF CreateFlagModal
  <1>7. ASSUME NEW c \in requests, Serve(c) \/ Refuse(c) PROVE IInv'
    BY <1>7, ServeKeeps, RefuseKeeps
  <1>8. ASSUME NEW a \in answers, Settle(a) PROVE IInv'
    BY <1>8, SettleKeeps
  <1>9. ASSUME NEW c \in Ids, OutsideChange(c) PROVE IInv'
    BY <1>9, OutsideKeeps
  <1>10. CASE UNCHANGED vars
    <2>1. UNCHANGED <<server, role, query, page, visit, local, scan, network, trouble>>
      BY <1>10 DEF vars
    <2>2. TypeOK'
      BY <2>1 DEF IInv, TypeOK, server, query, local, scan, network
    <2> QED
      BY <2>1, <2>2, PagesStay, StepsStay, ScansStay, CallsStay DEF IInv, server, local, network
  <1> QED
    BY <1>1, <1>2, <1>3, <1>4, <1>5, <1>6, <1>7, <1>8, <1>9, <1>10 DEF Next

LEMMA Invariance == Spec => []IInv
  BY InitSound, NextSound, PTL DEF Spec

\* The pages and the wizard keep their types, and only the wizard leaves step 1
\* (CreateFlagModal.tsx:23-37).
THEOREM Typing == Spec => []TypeOK
  <1>1. IInv => TypeOK
    BY DEF IInv
  <1> QED
    BY <1>1, Invariance, PTL

\* No incomplete flag is sent, and no selector that matches everything unless the text
\* typed for labels spells none; and no second flag by the same wizard before an error
\* was shown, however the user goes back and forth (CreateFlagModal.tsx:61-86, 105-112,
\* 440-457).
THEOREM WholeFlags == Spec => []OneWholeFlagIsSent
  <1>1. IInv => OneWholeFlagIsSent
    <2> SUFFICES ASSUME IInv PROVE OneWholeFlagIsSent
      OBVIOUS
    <2>1. ASSUME NEW c \in requests, c.kind = "create"
          PROVE  /\ c.body.name # Blank
                 /\ c.body.delivery # None
                 /\ c.body.delivery.selector = None => c.flag.delivery.labels = Junk
                 /\ c.body.type = "boolean" => c.body.value \in {"true", "false"}
      <3>1. c.body = Sent(c.flag) /\ Whole(c.flag) /\ c.flag \in NewFlag
        BY <2>1 DEF IInv, TypeOK, Request, CallsAreSound, CreateIsSound, Calls
      <3>2. Sent(c.flag).name = c.flag.name /\ Sent(c.flag).type = c.flag.type /\ Sent(c.flag).value = c.flag.value
        BY DEF Sent
      <3> QED
        BY <3>1, <3>2, SentTyped DEF Whole
    <2>2. ASSUME NEW c \in requests \cup answers, NEW d \in requests \cup answers,
                 c.kind = "create", c.visit = visit, d.kind = "create", d.visit = visit
          PROVE  wizard.step # 4 /\ c = d
      BY <2>2 DEF IInv, CallsAreSound, CreateIsSound, Calls
    <2> QED
      BY <2>1, <2>2 DEF OneWholeFlagIsSent
  <1> QED
    BY <1>1, Invariance, PTL

\* The success step is shown of a flag this wizard has created, and shows that flag unless
\* it was edited while the create was on its way (CreateFlagModal.tsx:99-102, 370-372).
THEOREM TrueSuccess == Spec => []SuccessIsTrue
  <1>1. IInv => SuccessIsTrue
    BY DEF IInv, StepsAreEarned, HasCreated, SuccessIsTrue
  <1> QED
    BY <1>1, Invariance, PTL

\* No late scan shows the workloads of another cluster (workloads/page.tsx:37, 57).
THEOREM ShownOfSelection == Spec => []ShownIsOfSelection
  <1>1. IInv => ShownIsOfSelection
    BY ShownIsChosen DEF IInv, PagesAgree, ShownIsOfSelection
  <1> QED
    BY <1>1, Invariance, PTL

\* Only the user, or leaving the page, takes a choice back: the step that brings a list
\* leaves it (CreateFlagModal.tsx:39-44, workloads/page.tsx:23-28).
THEOREM ChoicesAreKept == Spec => ChoiceIsKept
  <1> DEFINE Kept == chosen # None /\ chosen' # chosen =>
                       \/ visit' # visit
                       \/ UNCHANGED data /\ requests' = requests /\ answers' = answers
  <1>1. IInv /\ [Next]_vars => [Kept]_vars
    <2> SUFFICES ASSUME IInv, Next, chosen # None, chosen' # chosen PROVE Kept
      OBVIOUS
    <2>1. ASSUME NEW p \in Pages, Navigate(p) PROVE Kept
      BY <2>1 DEF Navigate, IInv, TypeOK
    <2>2. CASE Fetch \/ ServeList \/ FetchFails
      BY <2>2 DEF Fetch, ServeList, FetchFails, local
    <2>3. CASE Arrive
      <3>1. chosen' = ChoiceOn(page, chosen, data') /\ data' \in {None} \cup SUBSET Ids
        BY <2>3 DEF Arrive, IInv, TypeOK
      <3> QED
        BY <3>1, ChoiceOnPage DEF IInv, TypeOK, PagesAgree
    <2>4. CASE ClustersPage
      BY <2>4 DEF ClustersPage, ShowRegister, SubmitRegister, DismissRemove, ConfirmRemove, AskRemove,
           TypeRegister, local
    <2>5. CASE WorkloadsPage
      BY <2>5 DEF WorkloadsPage, Scan, Select, ScanArrives, ScanFails, ToggleCard, local, query, network
    <2>6. CASE CreateFlagModal
      BY <2>6 DEF CreateFlagModal, EnterDelivery, NextStep, Back, Create, ChooseCluster, NameFlag,
           ChooseType, GiveValue, Edits, query, network
    <2>7. ASSUME NEW c \in requests, Serve(c) \/ Refuse(c) PROVE FALSE
      BY <2>7 DEF Serve, Refuse, Answered, local
    <2>8. ASSUME NEW a \in answers, Settle(a) PROVE FALSE
      BY <2>8 DEF Settle
    <2>9. ASSUME NEW c \in Ids, OutsideChange(c) PROVE FALSE
      BY <2>9 DEF OutsideChange, local
    <2> QED
      BY <2>1, <2>2, <2>3, <2>4, <2>5, <2>6, <2>7, <2>8, <2>9 DEF Next
  <1> QED
    BY <1>1, Invariance, PTL DEF Spec, ChoiceIsKept
=============================================================================
