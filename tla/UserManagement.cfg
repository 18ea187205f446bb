SPECIFICATION Spec
CONSTANTS
  ann = ann
  bob = bob
  None = None
  Users = {ann, bob}
  Me = ann
  InitAccounts <- MCInitAccounts
  MaxCalls = 2
  MaxTouches = 3
  MaxTrouble = 1
INVARIANTS PasswordsAreTheirOwners OffersWhatIsPermitted
PROPERTY RolesAreSelected
CHECK_DEADLOCK FALSE
