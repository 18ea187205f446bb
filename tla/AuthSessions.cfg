SPECIFICATION Spec
CONSTANTS
  root = root
  ann = ann
  old = old
  fresh = fresh
  q1 = q1
  q2 = q2
  q3 = q3
  None = None
  Users = {root, ann}
  Admin = root
  Passwords = {old, fresh}
  AdminPassword = old
  Requests = {q1, q2, q3}
  Calls <- MCCalls
  InitAccounts <- MCInitAccounts
  Backends = {"memory", "postgres"}
  Expiry = 1
  MaxTime = 3
  MaxRestarts = 1
SYMMETRY Symmetry
INVARIANTS AuthorityIsRecent LogoutIsFinal AccountsAddUp AnswersAreHonest AdminCanReturn
PROPERTY AccountsSpec
CHECK_DEADLOCK FALSE
