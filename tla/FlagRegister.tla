---------------------------- MODULE FlagRegister ----------------------------
(***************************************************************************)
(* What the flag endpoints promise their clients, without handlers, copies *)
(* or versions: each request takes effect at most once, at one instant, on *)
(* the flag as it is at that instant.  A toggle flips the value the flag   *)
(* has then, a PUT leaves alone every field it does not name, a create     *)
(* finds the name free.  Other tools may change flags at any time.         *)
(***************************************************************************)
CONSTANTS Flags, Requests, Calls, EditSpecs, InitSpecs, None, NoCall,
          NewSpec(_), Desired(_, _)

VARIABLES
  flags,   \* flag name -> its spec, or None
  effect   \* request -> the call that took effect for it, or NoCall

Init ==
  /\ flags \in [Flags -> InitSpecs \cup {None}]
  /\ effect = [r \in Requests |-> NoCall]

\* What the flag of call c becomes.
Change(c) ==
  \/ /\ c.kind = "create" /\ flags[c.flag] = None
     /\ flags' = [flags EXCEPT ![c.flag] = NewSpec(c)]
  \/ /\ c.kind = "update" /\ flags[c.flag] # None
     /\ flags' = [flags EXCEPT ![c.flag] = Desired(c, @)]
  \/ /\ c.kind = "toggle" /\ flags[c.flag] # None /\ flags[c.flag].type = "boolean"
     /\ flags' = [flags EXCEPT ![c.flag] = Desired(c, @)]
  \/ /\ c.kind = "delete" /\ flags[c.flag] # None
     /\ flags' = [flags EXCEPT ![c.flag] = None]

Perform(r, c) ==
  /\ effect[r] = NoCall
  /\ Change(c)
  /\ effect' = [effect EXCEPT ![r] = c]

Edit(f, s) ==
  /\ flags' = [flags EXCEPT ![f] = s]
  /\ UNCHANGED effect

Next ==
  \/ \E r \in Requests, c \in Calls : Perform(r, c)
  \/ \E f \in Flags, s \in EditSpecs \cup {None} : Edit(f, s)

Spec == Init /\ [][Next]_<<flags, effect>>
=============================================================================
