SPECIFICATION FairSpec
CONSTANTS
  fa = fa
  fb = fb
  d1 = d1
  d2 = d2
  None = None
  Flags = {fa}
  Workloads = {d1}
  Deployments = {d1}
  EnvName <- MCEnvName
  Key <- MCKey
  Specs <- MixedSpecs
  InitSpecs <- MixedSpecs
  MaxGen = 2
  MaxTouches = 0
  MaxFaults = 1
  MaxRestarts = 1
  MaxTime = 1
  MaxResyncs = 1
INVARIANTS StatusIsOfOneGeneration NothingForgotten DeliveredWasAskedFor
PROPERTIES StatusIsWrittenFresh StatusCatchesUp
CHECK_DEADLOCK FALSE
