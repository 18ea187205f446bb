------------------------------- MODULE NodeSdk -------------------------------
(***************************************************************************)
(* The Node.js SDK (sdks/node/src/index.ts): calls of one Client in a pod, *)
(* and what they read: the variables the process was started with, the     *)
(* sidecar, a ConfigMap that the kubelet keeps mounted as a directory, or  *)
(* a file of JSON.                                                         *)
(*                                                                         *)
(* The functions that read files are synchronous, so no two calls are at   *)
(* it together, but the kubelet may do its work between any two of them.   *)
(***************************************************************************)
EXTENDS Naturals

CONSTANTS
  FlagNames,  \* names of flags
  Values,     \* values of flags, as text
  Truthy,     \* the values that bool takes for true
  Numbers,    \* the values that begin with a number
  Jsons,      \* the values that are JSON
  InitFlags,  \* the flags there may be in the beginning
  Given,      \* what a flag may be changed to, None included
  Ids,        \* calls, each made once
  MaxChanges, \* bound: changes of flags
  MaxTrouble, \* bound: requests that fail
  None        \* no flag, no name

Providers == {"env", "sidecar", "directory", "file"}
Kinds == {"bool", "string", "int", "json", "getFlag", "allFlags"}

\* The text of name and type is left out: outside the sidecar the type is "string".
Flag == [value : Values, disabled : BOOLEAN]
Flags == [FlagNames -> Flag \cup {None}]

\* A link in the directory whose file is gone.
Dangling == [value |-> None, disabled |-> FALSE]

\* What a call comes to: a value as such, a boolean, the default, or an exception.
\* read: what it has found; open: the listed files it has not read yet; seen: what
\* there was to be seen of each flag while the call was under way (history).
Call == [kind : Kinds \cup {None}, name : FlagNames \cup {None},
         at : {"new", "asked", "found", "listed", "read", "done"},
         read : Flags, open : SUBSET FlagNames, failed : BOOLEAN,
         seen : [FlagNames -> SUBSET (Flag \cup {None, Dangling})],
         answer : {"none", "value", "true", "false", "default", "throws"}]

ASSUME NodeSdkConstants ==
  /\ InitFlags \subseteq Flags /\ Given \subseteq Flag \cup {None}
  /\ Truthy \subseteq Values /\ Numbers \subseteq Values /\ Jsons \subseteq Values
  /\ MaxChanges \in Nat /\ MaxTrouble \in Nat
  /\ None \notin FlagNames \cup Values \cup Flag \cup Kinds

VARIABLES
  provider,  \* of the client
  flags,     \* the flags as they are delivered
  mounted,   \* the content of the variables, of the mounted file or directory
  links,     \* the names that are in the directory
  changes,   \* changes of flags so far
  calls,     \* id -> call
  trouble    \* requests that failed so far

sdkVars == <<provider, flags, mounted, links, changes, calls, trouble>>

NewCall == [kind |-> None, name |-> None, at |-> "new", read |-> [n \in FlagNames |-> None],
            open |-> {}, failed |-> FALSE, seen |-> [n \in FlagNames |-> {}], answer |-> "none"]

Named(content) == {n \in FlagNames : content[n] # None}

SdkTypeOK ==
  /\ provider \in Providers
  /\ flags \in Flags /\ mounted \in Flags
  /\ links \subseteq FlagNames
  /\ changes \in 0..MaxChanges /\ trouble \in 0..MaxTrouble
  /\ calls \in [Ids -> Call]
  /\ \A i \in Ids : calls[i].at = "done" =>
       CASE calls[i].kind = "bool" -> calls[i].answer \in {"true", "false", "default"}
         [] calls[i].kind = "int" ->
              calls[i].answer = "value" => calls[i].read[calls[i].name].value \in Numbers
         [] OTHER -> calls[i].answer \in {"value", "default", "throws"}

-----------------------------------------------------------------------------
(* What is there to be read *)

\* Of flag n, from the content c and the links l.
Visible(n, c, l) ==
  IF provider # "directory" THEN c[n]
  ELSE IF n \notin l THEN None
  ELSE IF c[n] = None THEN Dangling
  ELSE c[n]

\* The flags that a call is about.
About(c) == IF c.kind = "allFlags" THEN FlagNames ELSE {c.name}

\* The content or the links change before the eyes of the calls under way.
Show(c, l) ==
  /\ mounted' = c /\ links' = l
  /\ calls' = [i \in Ids |->
       IF calls[i].at \in {"new", "done"} THEN calls[i]
       ELSE [calls[i] EXCEPT !.seen = [n \in FlagNames |->
               IF n \in About(calls[i]) THEN @[n] \cup {Visible(n, c, l)} ELSE {}]]]

\* The operator changes the ConfigMap, somebody removes a key of it, or the sidecar
\* learns of a change.  Only the sidecar says that a flag is disabled.  A process keeps
\* its variables.
Change(n, f) ==
  /\ provider # "env"
  /\ changes < MaxChanges /\ f # flags[n]
  /\ f # None => (f.disabled => provider = "sidecar")
  /\ changes' = changes + 1
  /\ flags' = [flags EXCEPT ![n] = f]
  /\ IF provider = "sidecar" THEN Show(flags', links) ELSE UNCHANGED <<mounted, links, calls>>
  /\ UNCHANGED <<provider, trouble>>

\* The kubelet: all files of the directory are links into another one, which is
\* replaced at one stroke; the names follow one by one.  A file is just replaced.
Swap ==
  /\ provider \in {"directory", "file"} /\ links = Named(mounted) /\ mounted # flags
  /\ Show(flags, IF provider = "file" THEN Named(flags) ELSE links)
  /\ UNCHANGED <<provider, flags, changes, trouble>>

Relink(n) ==
  /\ provider = "directory"
  /\ n \in links <=> n \notin Named(mounted)
  /\ Show(mounted, IF n \in links THEN links \ {n} ELSE links \cup {n})
  /\ UNCHANGED <<provider, flags, changes, trouble>>

-----------------------------------------------------------------------------
(* The calls *)

\* No call is between two functions that read files.
Idle == \A i \in Ids : provider # "sidecar" => calls[i].at \in {"new", "read", "done"}

Step(i, c) ==
  /\ calls' = [calls EXCEPT ![i] = c]
  /\ UNCHANGED <<provider, flags, mounted, links, changes>>

\* getFlag or allFlags; bool, string, int and json begin with getFlag.
Begin(i, kind, n) ==
  /\ calls[i].at = "new" /\ Idle
  /\ n = None <=> kind = "allFlags"
  /\ LET c == [NewCall EXCEPT !.kind = kind, !.name = n, !.at = "asked"] IN
     Step(i, [c EXCEPT !.seen = [m \in FlagNames |->
                IF m \in About(c) THEN {Visible(m, mounted, links)} ELSE {}]])
  /\ UNCHANGED trouble

\* The call reads everything it is about in one go.
Take(c) ==
  [c EXCEPT !.at = "read",
            !.read = [n \in FlagNames |-> IF n \in About(c) THEN mounted[n] ELSE None]]

\* null, or an empty list.
Nothing(c) == [c EXCEPT !.at = "read", !.read = NewCall.read, !.open = {}]

\* Defect: getFlag looks into the list that allFlags has read before.
ReadOnce_Kept(i) ==
  /\ calls[i].at = "asked" /\ provider \in {"env", "file"}
  /\ LET kept == {j \in Ids : calls[j].kind = "allFlags" /\ calls[j].at = "done"}
         list == IF kept = {} \/ calls[i].kind = "allFlags" THEN mounted
                 ELSE calls[CHOOSE j \in kept : TRUE].read IN
     Step(i, [Take(calls[i]) EXCEPT !.read =
                [n \in FlagNames |-> IF n \in About(calls[i]) THEN list[n] ELSE None]])
  /\ UNCHANGED trouble

\* The environment, and the file of JSON.
ReadOnce(i) ==
  /\ calls[i].at = "asked" /\ provider \in {"env", "file"}
  /\ Step(i, Take(calls[i]))
  /\ UNCHANGED trouble

\* The sidecar answers, with what it has when it does.
Served(i) ==
  /\ calls[i].at = "asked" /\ provider = "sidecar"
  /\ Step(i, Take(calls[i]))
  /\ UNCHANGED trouble

\* It cannot be reached, or its answer cannot be read: nothing is found.
ServeFails(i) ==
  /\ calls[i].at = "asked" /\ provider = "sidecar"
  /\ trouble < MaxTrouble /\ trouble' = trouble + 1
  /\ Step(i, [Nothing(calls[i]) EXCEPT !.failed = TRUE])

\* existsSync, which follows the link.
Exists(i) ==
  LET c == calls[i] IN
  /\ c.at = "asked" /\ provider = "directory" /\ c.name # None
  /\ Step(i, IF Visible(c.name, mounted, links) \in {None, Dangling} THEN Nothing(c)
             ELSE [c EXCEPT !.at = "found", !.open = {c.name}])
  /\ UNCHANGED trouble

\* readdirSync, without the kubelet's own entries, which begin with a dot.
List(i) ==
  LET c == calls[i] IN
  /\ c.at = "asked" /\ provider = "directory" /\ c.name = None
  /\ Step(i, [c EXCEPT !.at = IF links = {} THEN "read" ELSE "listed", !.open = links])
  /\ UNCHANGED trouble

\* A file that is gone by now: whatever has been read is dropped.
Vanished(c) == Nothing(c)

\* Defect: the real path of the file is opened, which is gone after a swap.
Read_RealPath(i, n) ==
  LET c == calls[i] IN
  /\ c.at \in {"found", "listed"} /\ n \in c.open
  /\ Step(i, IF c.seen[n] # {mounted[n]} THEN Vanished(c)
             ELSE [c EXCEPT !.read[n] = mounted[n], !.open = @ \ {n},
                            !.at = IF c.open = {n} THEN "read" ELSE @])
  /\ UNCHANGED trouble

\* readFileSync of one file, in any order.
Read(i, n) ==
  LET c == calls[i] IN
  /\ c.at \in {"found", "listed"} /\ n \in c.open
  /\ Step(i, IF Visible(n, mounted, links) \in {None, Dangling} THEN Vanished(c)
             ELSE [c EXCEPT !.read[n] = mounted[n], !.open = @ \ {n},
                            !.at = IF c.open = {n} THEN "read" ELSE @])
  /\ UNCHANGED trouble

\* What the method makes of the flag it got.  The default of json is null.
Typed(kind, f) ==
  IF kind \in {"getFlag", "allFlags"} THEN "value"
  ELSE IF f = None \/ f.disabled THEN "default"
  ELSE CASE kind = "bool" -> IF f.value \in Truthy THEN "true" ELSE "false"
         [] kind = "int" -> IF f.value \in Numbers THEN "value" ELSE "default"
         [] kind = "string" -> "value"
         [] kind = "json" -> IF f.value \in Jsons THEN "value" ELSE "throws"

Return(i) ==
  LET c == calls[i] IN
  /\ c.at = "read"
  /\ Step(i, [c EXCEPT !.at = "done",
                !.answer = IF @ # "none" THEN @
                           ELSE IF c.name = None THEN "value"
                           ELSE Typed(c.kind, c.read[c.name])])
  /\ UNCHANGED trouble

-----------------------------------------------------------------------------
SdkInit ==
  /\ provider \in Providers
  /\ flags \in InitFlags
  /\ mounted = flags /\ links = Named(flags)
  /\ changes = 0 /\ trouble = 0
  /\ calls = [i \in Ids |-> NewCall]

SdkNext ==
  \/ \E n \in FlagNames, f \in Given : Change(n, f)
  \/ Swap
  \/ \E n \in FlagNames : Relink(n)
  \/ \E i \in Ids :
       \/ \E kind \in Kinds, n \in FlagNames \cup {None} : Begin(i, kind, n)
       \/ ReadOnce(i) \/ Served(i) \/ ServeFails(i) \/ Exists(i) \/ List(i)
       \/ \E n \in FlagNames : Read(i, n)
       \/ Return(i)

SdkSpec == SdkInit /\ [][SdkNext]_sdkVars
=============================================================================
