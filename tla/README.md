# Vexil in TLA+

Vexil manages feature flags as Kubernetes objects (`FeatureFlag`). This directory
holds TLA+ modules translated from its source, TLC configurations that check
them on small instances, and TLAPS proofs. Paths are relative to the repository
root; `flags.go` and `auth.go` are in `internal/apiserver/handlers/`,
`featureflag_controller.go` in `internal/operator/controllers/`,
`sidecar/main.go` is the whole sidecar, and the pages of the dashboard are in
`web/src/app` and `web/src/components`.

## 1. The system

| Component | State | Operations | What is hard | What makes it correct |
|---|---|---|---|---|
| **API server, flag handlers** (`flags.go`) | none of its own; the flags are in Kubernetes | list, get, create, PUT, delete, toggle: Get, change the private copy, Update, audit | concurrent requests, other writers, lost answers, restarts | no lost update, honest replies, exact audit |
| **Operator** (`featureflag_controller.go`) | informer caches, work queue, one reconcile in progress | Reconcile: deliver to Deployments, deliver to a ConfigMap, write the status | caches that lag, whole-object writes, swallowed errors, its own writes as events | truthful status, nothing forgotten, delivery touches only its own |
| **Sidecar** (`sidecar/main.go`) | flag store, subscriber list, a buffered channel per SSE client | list and watch, Set, Delete, broadcast, Subscribe, Unsubscribe, HTTP reads | watch gaps, two locks in Set, full channels, closing | no change lost or reordered, no send on a closed channel |
| **Audit log** (`internal/apiserver/store`) | list in memory or a Postgres table | RecordAudit, ListAuditEvents | the insert fails after the change was made | what is in the log happened |
| **Users and sessions** (`auth.go`, `middleware`, `store`, `cmd/apiserver`) | users; sessions with a role and an expiry | login, logout, me, create, update and delete user, role checks | a session's role is a snapshot; two store calls in one update; expiry | authority no older than a session, a logout is final, accounts and answers agree |
| **Dashboard: flags page** (`flags/page.tsx`, `EditFlagModal.tsx`, proxy `route.ts`) | query cache, dialog, edit form, calls on their way | list, filter, toggle, delete, edit | stale lists, a form that shares objects with the cache, a proxy that cannot relay a 204 | a save writes what was edited, a toggle does what it said, the list catches up |
| **Dashboard: clusters, workloads, wizard** (`clusters/page.tsx`, `workloads/page.tsx`, `CreateFlagModal.tsx`) | cluster list, scans by cluster, choice, wizard steps | register, remove, scan, create a flag in three steps | late answers to a page that is gone or a form that has changed | one whole flag is sent, success is true, a choice is kept |
| **Dashboard: sign-in** (`lib/auth.ts`, `api-client.ts`, `providers.tsx`, `login/page.tsx`) | localStorage shared by tabs, a store per tab | login, logout, guard, 401s | several tabs, late 401s, expiry | token and user belong together, only a sign-out or a 401 ends a session, no tab in view is left behind |
| **Dashboard: user management** (`settings/page.tsx`) | one edit form for all rows, create form, confirmation | create, update, delete users | forms switched, and the panel unmounted, under way; other admins | passwords and roles go where they were entered |
| **Node SDK** (`sdks/node/src/index.ts`) | the provider's configuration | getFlag, allFlags, bool, string, int, json | a kubelet that swaps the volume between two reads | an answer was right at some moment of the call |
| **Clusters** (`internal/multicluster/manager.go`, `handlers/clusters.go`) | map from ID to client and info | add, remove, get client, list | a request holds the client of a cluster removed meanwhile | one entry per ID |
| **Workload discovery** (`internal/discovery/scanner.go`) | none | scan namespaces, enrich with ConfigMap values | values of one namespace shown in another | equals a reference definition |
| **Go, Python and .NET SDKs** (`sdks/`) | provider cache fed by HTTP and SSE (Go) | typed getters, stream | a slow answer overwrites a newer event | a cached value is not older than one seen |
| **API types, Helm, docs, examples** | - | - | - | - |

How they interact: the dashboard calls the API server over HTTP, directly or
through its own proxy; the API server reads and writes `FeatureFlag` objects
through a client without cache; the operator sees every change of a flag as an
event and writes Deployments, ConfigMaps and the flag's status; the sidecar
watches flags and pushes them to SDKs over SSE; the Node SDK reads variables, a
mounted ConfigMap or the sidecar. The operator's status write moves the same
`resourceVersion` that the API server's version check looks at.

`PROJECT.json` lists the hazards found in the code, each at its line, with the
properties that would notice one going wrong.

## 2. Modules

| Module | Models |
|---|---|
| `FlagApi`, `FlagApiProps` | the flag handlers, any number of concurrent requests |
| `FlagRegister` | abstract: whole requests, one at a time, that `FlagApi` and the page of `FlagsPage` refine |
| `Operator`, `OperatorProps` | the reconciler with queue and caches |
| `Sidecar`, `SidecarProps` | watcher, store and SSE handlers |
| `AccountRegister` | abstract: parts of requests, one at a time, that `Auth` and the server of `UsersPanel` refine |
| `Auth`, `AuthProps` | accounts, sessions, middleware, user administration, start of the server |
| `FlagsPage`, `FlagsPageProps` | flags page, edit form and proxy against an atomic register of flags |
| `ClusterPages`, `ClusterPagesProps` | clusters page, workloads page and wizard |
| `WebSession`, `WebSessionProps` | sign-in of the tabs of one browser |
| `UsersPanel`, `UsersPanelProps` | user management |
| `NodeSdk`, `NodeSdkProps` | calls of one Node.js client, and what they read |
| `FlagApi_proofs`, `Operator_proofs`, `SidecarAndSdk_proofs`, `Auth_proofs`, `FlagsPage_proofs`, `ClusterPages_proofs`, `UsersPanel_proofs`, `WebSession_proofs` | TLAPS proofs; `SidecarAndSdk_proofs` has those of `Sidecar` and those of `NodeSdk`, whose specification is called `SdkSpec` |
| `MC...` | constants for TLC |

Definitions named `X_Something` under a comment `Defect:` are wrong variants of
`X`. No specification uses them. Each property is violated when one of them takes
the place of the original (list in `PROJECT.json`), which shows that the property
says something about the code.

The composition: the dashboard's modules take from `FlagApi` and `Auth` what those
are shown to promise. `FlagsPage` has the API as an atomic register of flags: the
handlers implement `FlagRegister` (theorem `Refinement`), and what the page's API does
is a behaviour of the same specification (theorem `PageUsesRegister`). In the same way
the handlers of `Auth` implement `AccountRegister` (`AccountsRefined`), and the server that
`UsersPanel` is given, with the other admins, is a behaviour of it (`PanelUsesRegister`).
`WebSession` and `UsersPanel` have a server that checks token and role at one instant.

### FlagApi

One handler goroutine per request, with a program counter: `idle`, `held` (after
the Get, with a private copy), `audit` (Kubernetes accepted the write), `done`,
`gone` (the server died). Every call to Kubernetes or to the audit store is one
step, and anything may happen between two steps.

| Action | Code |
|---|---|
| `Create` | `flags.go:94-131`, one call |
| `Get` | the Get of Update, Delete and Toggle, with Toggle's type check (`flags.go:296-304`) |
| `RefuseBody` | Update decodes its body after the Get (`flags.go:202-205`) |
| `Write` | field assignments and Update (`flags.go:207-226`, `306-316`) |
| `Delete` | `flags.go:262-265`, by name, no precondition |
| `CallFails`, second branch of `Accepted` | a call fails without effect; a call took effect and its answer is lost |
| `Audit` | `RecordAudit`, error ignored (`flags.go:134`, `228`, `267`, `318`) |
| `StatusWrite`, `Edit` | the operator's status update; kubectl |
| `Restart` | the process dies; the memory store dies with it |

The version check (`Current`) and the write that changes nothing and therefore
makes no new version (`Put`) are Kubernetes' behaviour and marked external. A
flag is reduced to the fields the handlers treat differently: `type` (set by
create only), `defaultValue`, `disabled` and `rules` (not accepted by create).
Lookup of the cluster and 400s that come before any call are left out.

### Operator

One worker (controller-runtime's default), a queue that holds each name once, and
informer caches of flags, Deployments and the ConfigMap that lag independently of
each other.

| Action | Code |
|---|---|
| `Start` | Get from the cache; a flag that is gone is left at that; disabled goes straight to the status (`featureflag_controller.go:34-52`) |
| `List` | the Deployments of the selector, as the cache has them (`:90-102`) |
| `DeliverEnv` | one Deployment: skip, or write the whole copy back (`:104-149`) |
| `EnvDone` | on to the ConfigMap or the status |
| `DeliverCm` | create the ConfigMap or write its copy back (`:155-207`) |
| `WriteStatus` | `updateStatus`; its error requeues the name (`:210-228`) |
| `SyncFlag`, `SyncDep`, `SyncCm` | informer events; only those of flags enqueue |
| `Resync`, `Restart` | the ten-hour replay of the cache; the operator dies |
| `EditFlag`, `DeleteFlag`, `Touch`, `Tick` | users, pipelines, the clock |

Each write carries the `resourceVersion` of the cached copy. Errors of a delivery
turn into the status `Failed` and are not returned. `LastUpdated` has a precision
of one second, so a repeated status within the same second is a write without
effect and without event. Labels of workloads are fixed, so a selector is a set of
workloads; a workload has one container. A deleted flag's name is not used again.
Rollout, which the reconciler never reads, is left out.

### Sidecar

The watcher goroutine: `Connect` (a watch without resourceVersion starts with an
Added event per existing flag, from the most recent state), `Handle` (store under
one lock), `Broadcast` (send under the other, passing over full channels),
`Drained` (the result channel is closed: sleep and reconnect). `Break` loses the
connection with any part of the events still to be read. An SSE handler is
`Flush` (headers), `Subscribe`, `Forward`, `Unsubscribe`, `Close`. A flag is the
version of its object. Set's two halves are separate steps, and so are
Unsubscribe's.

### Auth

A request is a process again: `Authenticate` is `Auth` and `RequireRole`
(`middleware.go:33-73`, `125-142`), which puts the session's user and role into the
context; the handler acts on that later, in one or two calls of the store, each a
step. `ReadAccount` and `OpenSession` are the halves of a login, `UpdateRole` and
`UpdatePassword` those of an update. `Serve` stands for the routes that change
neither accounts nor sessions; what they do to flags is `FlagApi`. The store is
chosen in `Init`: the memory store never fails and forgets everything at a
`Restart`; a call to Postgres may fail before or after its effect, and at a
`Restart` only the admin's account changes (`cmd/apiserver/main.go:69-84`).
Passwords are compared, not hashed, but the hash may fail (`HashFails`: bcrypt refuses
more than 72 bytes), in an update only after the role was written (`auth.go:212-226`);
a token is the identity of the login that generated it; bodies refused before any call of the store are one answer
(`RefuseBody`). Requests of an old process that outlive it (two pods during a
rolling update) are not modelled. The histories `since`, `delay`, `did`,
`heldTill` and `touched` are read by properties only.

### FlagsPage

One tab. `Fetch`, `ServeList`, `Arrive` are React Query's polling of the list;
`Arrive` keeps the objects that are equal in the old list and the new, which is why
`shared` may outlive it. `Ask`, `Confirm`, `Dismiss` are the confirmations of
toggle and delete, `OpenForm` ... `Submit`, `ConfirmSave` the edit form with one
action per kind of input. `ChangeRule` writes into the cached flag while the form's
rule is the very object of the cache (`EditFlagModal.tsx`, `updateRule`); the history
variable `edited` says of a form opened on such rules that they are of an earlier one.
A delivery is a selector for each method: its `matchLabels`, and whether it has
`matchExpressions`. `FormOf` reads the first delivery and the first labels of a variable
or ConfigMap, as text; `Delivery` parses the text and sends the labels alone, so that a
round trip through the form is not the identity. `Sent` and `Patched` are the body of the PUT and the server's use of it: what is empty is
left out, what is left out stays. `Serve` and `Refuse` answer, `Relayed` is the
proxy, `Succeed` and `Fail` are `onSuccess` and its absence. A success closes
whichever form is open by then.

### ClusterPages

One page is shown at a time, with the number `visit`, by which an answer is told
for the page that asked or for one that has been left. The list of clusters is shared by
the pages and survives them. `AutoSelect` is the effect that selects the only cluster.
The wizard is `NameFlag`, `ChooseType`, `GiveValue`, `ChooseCluster`,
`EnterDelivery`, `NextStep`, `Back`, `Create`; `Settle` is the answer to any of
the three mutations. What is entered for labels is a text (`LabelTexts`: nothing, pairs, or
`Junk` that spells none); step 2 looks at the text, `Sent` is what is made of it, and
`created` keeps what was sent. Namespaces are not chosen: both pages ask for them without the
Authorization header, are refused, and use `default`.

### WebSession

`stored` is localStorage, `memory[t]` the store of tab `t`. `Guard` is the effect
of `AuthGuard`, `Poll` any query of a page (the token is read when the call is
made), `SubmitLogin`/`SignedIn`, `Logout`/`SignedOut` the two mutations, `Load` a full
load by the user. `Unauthorized` is the reaction to a 401: it empties `stored`, marks the
tab as `leaving` and is done; the tab keeps its memory and goes on calling, without a
token, until `Navigate`, the load of the login page that was asked for
(`api-client.ts:17-21`). `Expire` ends a session on the server. A call may be answered 401
although its session is open, when Postgres cannot be asked for it (`Fails`, "unread";
`postgres.go:254-262`, `middleware.go:58-66`). Data that is shown changes nothing here, so
that serving and showing it is one step.

### UsersPanel

Forms are not modal: rows can be switched while a save is on its way. `attached`
is the call a mutation object shows the state of; `ToggleCreate` and `CancelDelete`
reset it while the call goes on. `Permitted` and `Accepted` are the server's part
(`auth.go:136-258`). A password is the user it was typed for, so that the model
tells whose it is. `LeaveTab` is the switch to another settings tab, or away from the page:
the panel is unmounted with its forms and mutations (`settings/page.tsx:84`), while calls
(those up to `before`) and the cached list go on. A success of theirs marks the list as
outdated, which nobody fetches again before `OpenTab`, and closes no form (`Mine`).

### NodeSdk

The functions that read files are synchronous (`Idle`: no call is between two of
them when another begins), but the kubelet works between any two reads: `Swap`
replaces the directory behind the links at one stroke, `Relink` adds or removes one
name. `Exists`, `List`, `Read` are `existsSync`, `readdirSync`, `readFileSync`;
`Served` and `ServeFails` the sidecar's answer or its absence; `Return` the typed
result. `seen` records what there was to be seen of each flag while a call was
under way.

## 3. Runs

All on small sets; bounds are constants named `Max...`, and the actions that would
exceed one are disabled.

| Run | Instance | Shows |
|---|---|---|
| `FlagApiOneFlag` | 1 flag, 3 requests, Postgres, 1 foreign write | `TypeOK`, `CopiesAreVersions`, `RepliesAreHonest`, `NoLostUpdate`, `RegisterSpec` |
| `FlagApiTwoFlags` | 2 flags, 2 requests, memory store | `AuditIsExact`, `ConflictMeansRace` |
| `OperatorStatus` | 1 flag in 3 specs, 2 generations, 1 fault, 1 restart, 1 resync, 2 s; fair | `StatusIsOfOneGeneration`, `NothingForgotten`, `DeliveredWasAskedFor`, `StatusIsWrittenFresh`, `StatusCatchesUp` |
| `OperatorShared` | 2 flags, both deliveries, 1 foreign change | `DeliveryIsolated` |
| `SidecarStream` | 1 flag with 3 versions, 2 clients, channels of 2, 1 lost watch; fair | `NoSendOnClosed`, `SubscribersFollow`, `WatchLosesNoFlag`, `StoreMovesForward`, `StoreCatchesUp` |
| `AuthSessions` | 2 users, 3 requests, both stores, sessions of 1 tick in 3, 1 restart | `AuthorityIsRecent`, `LogoutIsFinal`, `AccountsAddUp`, `AnswersAreHonest`, `AdminCanReturn`, `AccountsSpec` |
| `FlagsPageForms` | 1 flag with a rule, admin and viewer, proxy, 2 changes, 2 forms with 1 field touched, 1 foreign change, 1 failure; fair | `NoOldListAfterSuccess`, `SavesWhatWasEdited`, `TogglesAsAnnounced`, `ListCatchesUp` |
| `ClustersAndWizard` | 2 clusters with a workload of one name, admin and viewer, from the clusters page to one other page, 2 changes, 1 failure or foreign change | `OneWholeFlagIsSent`, `SuccessIsTrue`, `ShownIsOfSelection`, `ChoiceIsKept` |
| `WebSessions` | 2 tabs, 2 users, 2 sign-ins, 1 reload or failure; fair | `ActsAsShown`, `OnlyLate401s`, `SignedOutInView` |
| `UserManagement` | 2 users, an admin or an editor signed in, 2 changes, 3 forms or confirmations opened, new users typed or settings tabs left, 1 failure or change by another | `PasswordsAreTheirOwners`, `OffersWhatIsPermitted`, `RolesAreSelected` |
| `NodeSdk` | 2 flags, 2 calls of any kind, all four providers, 2 changes, 1 failure | `ListsAreWhole`, `AnswersAreOfTheirTime` |
| `EditFormRulesDoc` | as `FlagsPageForms`, without fairness | finds `NoRulesIsSaved` violated |

Why these bounds are enough to be interesting: a lost update needs two requests
and an object, a third request makes delete-and-recreate possible under a handler
in flight; the status races need one edit during one Reconcile; isolation needs two
flags on one object; a drop needs a channel that is full, for which one or two
places do what 64 do; two watches are enough to have a gap and a replay. The
sidecar's properties speak of one flag at a time, which is why its run has one; the
proof has any number. A role outlives its loss with one login, one change of the
role and one more request; two creations of one account need one login. On the
flags page an old list, an answer and a foreign change can pass each other with two
changes asked for, and a shared rule is edited, cancelled and sent with two forms. Its
flag starts with two deliveries, one with labels and an expression, and another writer
may replace it by one with a ConfigMap for an expression only; the text entered for
labels spells none. Rules carried over from an earlier form count towards the one field
touched.
The wizard needs one visit to be left and entered with the list on its way, and two
changes for a create that is sent twice; all three kinds of text are entered for labels. Two tabs with a sign-in each are all that can
overtake one another; a third form opened is what it takes to come back to the
first row. Two changes let a file vanish, or two files be of different times,
within one call of the SDK. Where two model values are interchangeable and only
safety is checked, the runs use symmetry.

`CHECK_DEADLOCK FALSE`: the operator and the sidecar come to rest when nobody
edits; `Auth` stops when its requests are answered and its clock and restarts are
used up; the SDK has no loop of its own, and stops when its calls have returned. The
dashboard's modules would go on polling for ever, but their bounds on
failures, forms and changes can be used up in states where the user is the only one
to move, which is not wrong.

### Fairness

`Operator!Fairness`: the worker takes the next name and finishes each Reconcile,
and every watch delivers what it has. That is what controller-runtime's worker loop
and reflectors do; a rate-limited requeue delays a name and does not drop it. No
fairness for edits, the clock, faults (bounded), restarts or the resync.
`Sidecar!Fairness`: the watcher goroutine runs. Nothing is assumed of clients: one
may stay connected and never read, which is why `Broadcast` must not wait.
`FlagsPage!Polling`: React Query asks again every ten seconds (`providers.tsx:17`),
the server answers and the answer arrives; nothing is assumed of users, and
`ListCatchesUp` is about runs where the form is closed in the end, because a form may
write into the cached list. `WebSession!Running`: React runs the guard's effect, a load
that was asked for gets through, and a call of a page is answered and its answer handled;
nothing is assumed of sign-ins and sign-outs, and nothing of polls: React Query pauses the
interval in a tab that is not in view (`providers.tsx:12-18` does not set
`refetchIntervalInBackground`). So `SignedOutInView` is about each tab that is in view
(`InView`: it polls whenever it can), and says nothing of the others.

### A run that finds a disagreement

`EditFormRulesDoc`. The edit form says "No rules — all workloads get the default
value" (`EditFlagModal.tsx:342`) when the last rule has been removed. An empty list is
sent as `undefined` (`EditFlagModal.tsx:91`), which the server reads as no change
(`flags.go:219-221`): the save succeeds and the rules stay.

### Seen while modelling

These are behaviours of the models, described here without a run of their own.

API server: toggle flips `defaultValue`, not the disabled state that
`docs/reference/api.md:187` names. A failed audit insert is ignored although
`docs/index.html:285` promises a full trail. With Postgres a logout whose DELETE
fails is answered like one that succeeds (`auth.go:98`, `docs/reference/api.md:41`),
and sessions survive a restart (`docs/getting-started/authentication.md:85-87` says
they are in memory and end with it).

Operator: a delivery that fails twice in one second leaves no event behind, since the
same `Failed` status is a write without effect; the flag stays undelivered until the
resync (`docs/guides/delivery-methods.md:32` has a changed value lead to a rolling
update). Whether a Deployment has the value is read from the cache: after values v, w,
v it may be counted in `targetedWorkloads` and keep w (`featureflag_types.go:204`). A
disabled flag's variables stay in the Deployments (`EditFlagModal.tsx:184`: "No
workload receives it"). An empty value is never written to a ConfigMap that lacks the
key (`featureflag_controller.go:195`). StatefulSets and DaemonSets are never injected
(`:99`, `delivery-methods.md:29`). `lastUpdated` moves at every Reconcile
(`featureflag_types.go:207`), and the annotation `vexil.io/flags-hash` names the last
flag injected only.

Sidecar: SSE headers are sent before the subscription, and full channels drop, so
not every change is an event to every client (`docs/reference/sidecar.md:49`). A flag
deleted while no watch is up is served on (`docs/sdks/index.md:14` has a flag that is
gone not found).

Dashboard: the proxy cannot build a 204 and answers a delete that succeeded with
502 (`route.ts:39`). Saving a flag untouched keeps the first of several deliveries and of
its selector the `matchLabels` (`EditFlagModal.tsx:39-46, 60-76`): the
`matchExpressions` are gone, and a ConfigMap that was chosen by expressions only matches
every workload then (`featureflag_controller.go:91`). An edit of a rule stays in the
cached list when the form is cancelled (`EditFlagModal.tsx:115-122`), and a later save of
anything else sends it. `SavesWhatWasEdited` has both as its exceptions. The wizard's second step asks for some
text in the field for labels (`CreateFlagModal.tsx:106-112`): one that spells none, as
`frontend` or a comma, is sent as `matchLabels: {}` (`:64-69`), and every workload
matches, although the hint below the field says that only workloads with all these labels receive
the flag (`:270`). Its last step names the flag as it is in the form by then, also
where that was edited while the create was on its way (`:99-102, 370-372`). A success that arrives late closes another user's or flag's form.
Leaving the settings tab while a save is on its way and coming back gives a mutation that
is not pending, so that two saves can be under way (`settings/page.tsx:84, 428-436`). The
form for a new user keeps what was typed over Cancel, and the password when the name is
changed (`:187-192, 265`): what was typed for one user is sent for the other.
A failed list of clusters shows "No clusters connected". Namespaces are asked for
without the Authorization header (`CreateFlagModal.tsx:14`, `workloads/page.tsx:10`).
A logout in one tab leaves the other its user until its next call, and a tab out of view
makes none. A failing look-up of a session in Postgres signs the browser out of it
(`postgres.go:254-262`, `api-client.ts:16-19`). After a sign-in in
another tab, a tab calls with the new token and shows the old user.

Node SDK: only the sidecar says that a flag is disabled, so the default for a disabled
flag (`docs/sdks/index.md:14`) is given with that provider only. Requests have no
timeout.

## 4. Proofs

| Module | Theorem | Property |
|---|---|---|
| `FlagApi_proofs` | `Typing` | `TypeOK` |
| | `CopiesSound` | `CopiesAreVersions` |
| | `NoLostUpdateHolds` | `NoLostUpdate` |
| | `HonestReplies` | `RepliesAreHonest` |
| | `ExactAudit` | `AuditIsExact` |
| | `ConflictsAreRaces` | `ConflictMeansRace` |
| | `Refinement` | `RegisterSpec` |
| `Operator_proofs` | `Typing` | `TypeOK` |
| | `StatusOfOneGeneration` | `StatusIsOfOneGeneration` |
| | `NothingIsForgotten` | `NothingForgotten` |
| | `DeliveredAsked` | `DeliveredWasAskedFor` |
| | `StatusFresh` | `StatusIsWrittenFresh` |
| | `Isolated` | `DeliveryIsolated` |
| `SidecarAndSdk_proofs` | `Typing` | `TypeOK`, of `Sidecar` |
| | `NeverSendsOnClosed` | `NoSendOnClosed` |
| | `WatchIsComplete` | `WatchLosesNoFlag` |
| | `SubscribersAreTold` | `SubscribersFollow` |
| | `StoreGoesForward` | `StoreMovesForward` |
| | `SdkTyping` | `SdkTypeOK`, of `NodeSdk` |
| | `AnswersOfTheirTime` | `AnswersAreOfTheirTime` |
| | `WholeLists` | `ListsAreWhole` |
| `Auth_proofs` | `Typing` | `TypeOK` |
| | `AuthorityKept` | `AuthorityIsRecent` |
| | `LogoutsAreFinal` | `LogoutIsFinal` |
| | `AccountsBalance` | `AccountsAddUp` |
| | `HonestAnswers` | `AnswersAreHonest` |
| | `AdminReturns` | `AdminCanReturn` |
| | `AccountsRefined` | `AccountsSpec` |
| `FlagsPage_proofs` | `Typing` | `TypeOK` |
| | `ListsAreNew` | `NoOldListAfterSuccess` |
| | `TogglesAnnounced` | `TogglesAsAnnounced` |
| | `SavesEdits` | `SavesWhatWasEdited` |
| | `PageUsesRegister` | `Register!Spec`, of `FlagRegister` |
| | `SuccessesHadEffect` | a reported success is of a change that was made |
| | `CatchesUpWhenCalm` | `ListCatchesUp` |
| `ClusterPages_proofs` | `Typing` | `TypeOK` |
| | `WholeFlags` | `OneWholeFlagIsSent` |
| | `TrueSuccess` | `SuccessIsTrue` |
| | `ShownOfSelection` | `ShownIsOfSelection` |
| | `ChoicesAreKept` | `ChoiceIsKept` |
| `UsersPanel_proofs` | `Typing` | `TypeOK` |
| | `PasswordsKept` | `PasswordsAreTheirOwners` |
| | `OffersPermitted` | `OffersWhatIsPermitted` |
| | `RolesSelected` | `RolesAreSelected` |
| | `SavesOneByOne` | at most one save of the panel that is shown is under way |
| | `PanelUsesRegister` | `Register!Spec`, of `AccountRegister` |
| | `SuccessesHadEffect` | a reported success is of a change that was made |
| `WebSession_proofs` | `Typing` | `TypeOK` |
| | `TabsActAsShown` | `ActsAsShown` |
| | `SessionsAreKept` | `OnlyLate401s` |
| | `SignsOutWhenCalm` | `SignedOutInView` |

Each is a theorem `Spec => ...` for all values of the constants that satisfy the
module's named assumptions: any sets of flags, requests, workloads, clients, tabs
or users, any specs and calls, and any bounds. The assumptions type the constants
and keep `None` apart from what it stands beside. In each module one
lemma per action shows that the inductive invariant is preserved, and the temporal
steps are in the last lines. The arguments:

**FlagApi.** The version check compares numbers; that it protects contents needs
the fact that a version names one content. That is `CopiesAreVersions`, and to be
inductive it needs that no object has a version above the counter
(`VersionsIssued`), that a handler in state `held` has a copy and is not a create
(`Holding`), and how the history variables follow the program counter
(`Progress`). `NoLostUpdate` follows at the step of `Write`: the copy has the stored
version, so the change was computed from the stored spec. The refinement maps each
accepted write to `Perform` of the register, `Edit` to itself and everything else to
a stutter. `ConflictsAreRaces` has an invariant of its own (`RaceInv`): as long as no
other writer has touched the flag, the copy's version is the stored one.

**Operator.** The same idea, for six kinds of copies: every flag, workload and
ConfigMap in a cache or in the worker's hands is `Older` than the stored object, and
equal to it when the versions are (`FlagCopies`, `DepCopies`, `CmCopies`). An
accepted write therefore starts from the stored object, which gives
`DeliveryIsolated` and `StatusIsWrittenFresh`. That what is written is also right
needs that a copy has the spec of its generation (`Generations`) and that what a
Reconcile has decided so far is in keeping with its copy (`JobAgrees`).
`DeliveredWasAskedFor` is not inductive as stated, since `EditFlag` overwrites the
later entries of `specAt`; `AskedFor` adds that the generation is one the flag
has had.

**Sidecar.** Versions grow from store over pipe to cluster (`VersionsGrow`); while a
watch is up the last event of a flag says what has become of it
(`EventsAreUpToDate`), whichever part of the events a break has lost; what a client
was sent is no newer than what is still to come (`StreamsAreBehind`). A channel is
on the list exactly while its handler streams (`ConnectionsAgree`), and Set is at one
flag at a time (`OneSet`).

**Auth.** `Orderly` says where everything is: a request's fields by its program
counter (`RequestsAreSound`), tokens belong to finished logins
(`TokensAreOfLogins`), nothing was read later than now (`TimesAgree`).
`RolesWereHeld` carries a role from the account over a login's reading and the
session to the context of a request, each with the time it was held; entitlement
and honesty of a request follow per handler. `LogoutIsFinal` and `AccountsAddUp`,
which counts requests by what they did, have invariants of their own. For
`AccountsRefined` the accounts are mapped to themselves and a request to the parts of its
call that `did` has. A handler changes an account in one call of the store, and `Orderly`
knows which parts its request had done by then: none, or the role when only the password
is left (`PartPerformed`, `HandlersPerform`). What the handler knows from before that call
(its context) decides whether it is made, never what it makes of the account, which is
what the register demands; a restart is the register's `Start`.

**FlagsPage.** The lists that were read, the one that arrived and an announced toggle
are each of their time: what has not been changed since is as they say
(`ListsAreOfTheirTime`, `ToggleIsOfTime`). Every change makes its flag newer than all
of them (`StoreKeeps`), so a toggle of an unchanged flag flips the value announced.
The cached list is the one that arrived, but for rules that a form has written into it
(`CacheIsOfList`); hence what was not edited in a form is from the list behind it
(`FormIsOfFlag`), and what a save carries unedited is from there or left out
(`SaveIsOfBase`). `DeliveryOfForm` says what is left of a delivery that goes through the
form untouched: nothing, itself, or, where the form does not show it in full, a part
under the same labels. `NoOldListAfterSuccess` needs that no answer is about a
change not yet made (`CallsAreSound`). For `PageUsesRegister` the history variable
`effect` records which call took effect for each request, without restricting a step
(`Recorded`). `RecordInv` adds that a number names one request and that what is still on
its way has had no effect, so each takes effect at most once; another writer's change is
the register's `Edit`. The other direction, that the page meets everything a register
may do, is by the model: `Serve` and `Refuse` have no guard but role and `Finds`.

**ClusterPages.** A step of the wizard knows what the steps before have made sure of
(`StepsAreEarned`), and Back and edits take nothing of that away that step 3 does not
ask for again. A create under way is of this wizard, which then shows what it sent or is
marked as touched, or of one that has been left (`CreateIsSound`); two of one wizard
are one (`CallsAreSound`). `SentTyped` says what a form that has passed step 2 is sent as;
from the answer of a create the last step has the flag it was created as (`HasCreated`).
Only the page that is shown has something chosen or open
(`PagesAgree`), and a scan is kept under the cluster it is of (`ScansAreOfTheirKeys`).

**WebSession.** `PairsAgree`: what is stored anywhere is a token with its owner;
`TabsAreCurrent`: a tab not overtaken has what localStorage has, or localStorage is empty
and the tab has asked for the login page; `CallsAreSound`: a 401 for a session that is not
there was given to a token that is not live, so it can take away a live session only if
the two tokens differ. The same invariant carries `SignsOutWhenCalm`: a token that is
over never comes back to life, so a data call that a tab makes then is `Doomed`, and
its 401 empties localStorage and has the tab leave for the login page, if no sign-out and
no guard has done so before. An older leave may still find the session that is over in
localStorage (`Free` rules that out), so that one round more is needed.

**UsersPanel.** The fields of the one form belong to the user it is open for
(`FormIsOfUser`), although Cancel and a late success leave some of them behind; what
is open is permitted (`FormsArePermitted`); a call keeps what the form guaranteed
(`CallsAreSound`), and only for one of the panel that is shown (`Mine`) is its mutation
there to keep a second save back. `PanelUsesRegister` follows the calls by the history variable `effect`,
which restricts no step. An account is its role here, so a save of both is followed up to
its role, and what another admin does is a call of the register's `Strangers`. That a call
has what its kind takes (`Complete`) is the panel's doing: `HandleUpdate` sends nothing
where nothing was entered.

**NodeSdk.** What is visible now has been seen by every call under way (`SeesTheLast`);
what a call has read was so at its time, and a listed file whose link has gone since
was gone before the link (`IsReading`), because the kubelet removes a link only after
the swap that takes its file.

**Liveness.** Two of the four liveness properties are proved, each from three
hypotheses: `Spec`; the fairness that the runs check it under, with the condition under
which each fair action can be taken written in place of ENABLED, which the prover does
not know (`Polled` for `Polling`, `Runs` for `Running`); and `<>[][Calm]_vars`, that from
some moment on there are no more of the steps the models bound: changes, failures,
loads and successes still to be reported. On the instances of `FlagsPageForms` and
`WebSessions`, TLC finds the conditions equal to ENABLED in every reachable state, and
`<>[][Calm]_vars` true of every behaviour, because each such step uses up one of a
bounded number. The proofs say where a page or a tab may be on its way (`Answering` and
`CaughtUp`; `Returning`, `Loading`, `OnPage`, `Going`, `Stranded`, `AtLogin`), that no calm step
takes it back, and that each fair step takes it further.

Only model-checked are `StatusCatchesUp` and `StoreCatchesUp`: the operator works off a
queue and the sidecar a pipe of any length, and it takes an induction over that length,
which is out of the prover's reach, to say that they come to their end. For the same
reason `<>[][Calm]_vars` is a hypothesis and no lemma. Every invariant and action
property of the runs is proved.

`FlagsPage` and `ClusterPages` write `Blank` for the empty string: the prover's SMT
translation cannot express it. The configurations set `Blank = ""`.

## 5. Not modelled

- The multi-cluster manager: its operations are one map update under one lock
  each; `FlagApi` has one cluster that stays registered, `ClusterPages` has
  registration and removal as the dashboard sees them. A handler that holds the
  client of a cluster removed meanwhile goes on with it, which is `FlagApi` unchanged.
- Workload discovery and the listing of audit events: one read-only pass each.
- Go, Python and .NET SDKs. The first is a client of the sidecar's stream and would
  compose with `Sidecar`; the others read what the Node SDK reads.
- Sidecar: shutdown, and which value `resolveFlag` picks.
- Dashboard: overview, audit page, layout, and the settings page's other tabs show
  lists or constants and change nothing.
- Helm charts, manifests, generated deep copies, the demo application, and
  `ClusterConnection`, which no controller reads. Two operators under leader election,
  and two API server pods over one Postgres.

## 6. What is left

1. `GoSdk`: the sidecar provider composed with `Sidecar` (stream, GetFlag's cache fill,
   reconnect, Close), against a register whose reads never go back.
2. `Clusters` composed with `FlagApi`; the value picked by `resolveFlag`, composed with
   `Operator`.
