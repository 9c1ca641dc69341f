\* Two groups, two configurations, users that ask all the while.
SPECIFICATION FairAccess
CONSTANTS
  Groups <- TwoGroups
  Roles <- TwoRoles
  Configs <- TwoConfigs
  NumOfAttempts = 2
  MaxEvents = 2
  MaxFaults = 1
  MaxLate = 1
  GroupClaim = TRUE
  Logins <- SomeLogins
  Wanted <- Writing
INVARIANTS TypeOK AllowJustified DenyJustified CreateComplete UpdateSynced
PROPERTIES EventsAnswered
