SPECIFICATION Spec
CONSTANTS
  a = a
  b = b
  r1 = r1
  r2 = r2
  l1 = l1
  None = None
  Names = {a}
  Values = {"true", "false"}
  Texts = {"", "about"}
  Blank = ""
  Rules = {r1, r2}
  Labels = {l1}
  Junk = Junk
  Phases = {"", "Active"}
  InitLists <- MCInitLists
  OutsideFlags <- MCOutsideFlags
  Editable = {"delivery"}
  DeliveryInputs <- MCDeliveryInputs
  Filters <- MCFilters
  Roles = {"admin", "viewer"}
  Routes = {"proxy"}
  MaxCalls = 2
  MaxOpens = 2
  MaxEdits = 1
  MaxOutside = 1
  MaxFails = 1
PROPERTY NoRulesIsSaved
CHECK_DEADLOCK FALSE
