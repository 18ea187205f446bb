SPECIFICATION FairSpec
CONSTANTS
  t1 = t1
  t2 = t2
  ann = ann
  bob = bob
  None = None
  Tabs = {t1, t2}
  Users = {ann, bob}
  MaxLogins = 2
  MaxTrouble = 1
PROPERTIES ActsAsShown OnlyLate401s SignedOutInView
CHECK_DEADLOCK FALSE
