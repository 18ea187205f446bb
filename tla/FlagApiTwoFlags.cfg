SPECIFICATION Spec
CONSTANTS
  f1 = f1
  f2 = f2
  r1 = r1
  r2 = r2
  r3 = r3
  None = None
  NoCall = NoCall
  Flags = {f1, f2}
  Requests = {r1, r2}
  Values <- MCValues
  Types <- MCTypes
  Rules <- MCRules
  NoRules = "none"
  Calls <- MCCalls
  InitSpecs <- MCInitSpecs
  EditSpecs <- MCEditSpecs
  Backend = "memory"
  MaxOutside = 1
SYMMETRY Symmetry
INVARIANTS AuditIsExact ConflictMeansRace
