SPECIFICATION Spec
CONSTANTS
  fa = fa
  fb = fb
  d1 = d1
  d2 = d2
  None = None
  Flags = {fa, fb}
  Workloads = {d1}
  Deployments = {d1}
  EnvName <- MCEnvName
  Key <- MCKey
  Specs <- BothSpecs
  InitSpecs <- BothSpecs
  MaxGen = 1
  MaxTouches = 1
  MaxFaults = 0
  MaxRestarts = 0
  MaxTime = 0
  MaxResyncs = 0
PROPERTY DeliveryIsolated
SYMMETRY Symmetry
CHECK_DEADLOCK FALSE
