\* One failed deletion of an Update.
SPECIFICATION Spec
CONSTANTS
  Groups <- TwoGroups
  Roles <- TwoRoles
  Configs <- TwoConfigs
  NumOfAttempts = 2
  MaxEvents = 2
  MaxFaults = 1
  MaxLate = 0
INVARIANTS UpdateInSync
CHECK_DEADLOCK FALSE
