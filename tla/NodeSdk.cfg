SPECIFICATION SdkSpec
CONSTANTS
  i1 = i1
  i2 = i2
  None = None
  FlagNames = {"a", "b"}
  Values = {"true", "7", "blue"}
  Truthy = {"true"}
  Numbers = {"7"}
  Jsons = {"true", "7"}
  InitFlags <- MCInitFlags
  Given <- MCGiven
  Ids = {i1, i2}
  MaxChanges = 2
  MaxTrouble = 1
INVARIANTS ListsAreWhole AnswersAreOfTheirTime
SYMMETRY Symmetry
CHECK_DEADLOCK FALSE
