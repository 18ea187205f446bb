--------------------------- MODULE UsersPanelProps ---------------------------
(* What an admin, or a user who changes a password, may rely on. *)
EXTENDS UsersPanel

\* A save sets a password for no other user than the one whose form it was typed in,
\* although all rows share one form, answers close it at any moment, and Cancel
\* leaves what was typed in the state (settings/page.tsx:195-197, 239-253).
PasswordsAreTheirOwners ==
  \A c \in calls : c.kind = "update" => c.password \in {None, c.name}

\* Saving changes the role of an account only if a role was selected in the form: a
\* new password does not take back what another admin has made of the role since
\* the list was read (settings/page.tsx:242).
RolesAreSelected ==
  [][\A c \in calls :
       c.kind = "update" /\ c.at = "sent" /\ c \notin calls' /\ accounts' # accounts =>
         c.chosen]_vars

\* The panel offers nothing that the server forbids its user, be it for the role or
\* because it would be the own account that is deleted (settings/page.tsx:263,
\* 367-393, 411; auth.go:198-210, 240-251).
OffersWhatIsPermitted ==
  \A c \in calls : c.at # "forbidden"

=============================================================================
