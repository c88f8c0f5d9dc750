SPECIFICATION FairSpec
CONSTANTS
  ann = ann
  bob = bob
  eve = eve
  x = x
  y = y
  Row = {1, 2, 3}
  Login = {ann, bob, eve}
  LdapId = {x, y}
  NoLogin = NoLogin
  NoId = NoId
  Names <- OwnNames
  CutOff = FALSE
  Sync = {s1}
  SignIn = {t1}
  AdminActions = {"active", "type"}
  MaxChanges = 4
CHECK_DEADLOCK FALSE
INVARIANTS
  AloneBatchCommits
PROPERTIES
  AbsentAreDeactivated
  OnlyAbsentAreDeactivated
  EveryEntryHasRow
  LeaversAreDeactivated
