SPECIFICATION Spec
CONSTANTS
  c1 = c1
  c2 = c2
  w = w
  l1 = l1
  None = None
  Ids = {c1, c2}
  InitClusters <- MCInitClusters
  Workloads <- MCWorkloads
  FlagNames = {"", "f"}
  Values = {"", "false"}
  Blank = ""
  Labels = {l1}
  Junk = Junk
  DeliveryInputs <- MCDeliveryInputs
  Typed = {c2}
  FirstPages = {"clusters"}
  Roles = {"admin", "viewer"}
  MaxVisits = 1
  MaxCalls = 2
  MaxTrouble = 1
INVARIANTS OneWholeFlagIsSent SuccessIsTrue ShownIsOfSelection
PROPERTY ChoiceIsKept
CHECK_DEADLOCK FALSE
