--------------------------- MODULE AccountRegister ---------------------------
(***************************************************************************)
(* What the user administration promises, without handlers, contexts or    *)
(* stores: whatever a request asks for -- an account made or deleted, a    *)
(* role, a password -- takes effect at most once, at one instant, on the   *)
(* account as it is at that instant, and touches no other.  Of an update   *)
(* the role comes before the password.  A start of the server may change   *)
(* the accounts, too.                                                      *)
(***************************************************************************)
CONSTANTS
  Users, Initial,  \* the names, and the accounts they may have in the beginning
  Requests, Calls, \* the requests that are followed, and what they may ask for
  Strangers,       \* what requests that are not followed may ask for
  None,            \* no account, or a part of a call that is missing
  NewAccount(_),   \* the account that a call makes
  Updated(_, _, _),\* what a part of a call makes of an account
  Starts(_)        \* what a start of the server may make of the accounts

VARIABLES
  accounts,  \* user name -> account, or None
  effect     \* request -> the parts of its call that have taken effect

Init ==
  /\ accounts \in [Users -> Initial \cup {None}]
  /\ effect = [r \in Requests |-> {}]

\* Part p of call c takes effect.
Change(c, p) ==
  \/ /\ p = "create" /\ c.kind = "create" /\ accounts[c.user] = None
     /\ accounts' = [accounts EXCEPT ![c.user] = NewAccount(c)]
  \/ /\ p = "delete" /\ c.kind = "delete" /\ accounts[c.user] # None
     /\ accounts' = [accounts EXCEPT ![c.user] = None]
  \/ /\ p \in {"role", "pass"} /\ c.kind = "update" /\ c[p] # None /\ accounts[c.user] # None
     /\ accounts' = [accounts EXCEPT ![c.user] = Updated(c, p, @)]

Perform(r, c, p) ==
  /\ effect[r] = IF p = "pass" /\ c.role # None THEN {[call |-> c, part |-> "role"]} ELSE {}
  /\ Change(c, p)
  /\ effect' = [effect EXCEPT ![r] = @ \cup {[call |-> c, part |-> p]}]

Start ==
  /\ accounts' \in Starts(accounts)
  /\ UNCHANGED effect

Next ==
  \/ \E p \in {"create", "delete", "role", "pass"} :
       \/ \E r \in Requests, c \in Calls : Perform(r, c, p)
       \/ \E c \in Strangers : Change(c, p) /\ UNCHANGED effect
  \/ Start

Spec == Init /\ [][Next]_<<accounts, effect>>
=============================================================================
