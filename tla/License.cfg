CONSTANTS
  Keys <- MCKeys
  Modes = {"warn", "enforce", "off", "unset"}
  Legacies = {"0", "1", "unset"}
  Graces <- MCGraces
  ModelNames <- MCModelNames
  Category = "text"
  MaxTime = 14
SPECIFICATION Spec
INVARIANTS TypeOK FailOpen EnforceDecides  WarnsOnce
PROPERTY ExpiryIsFinal
