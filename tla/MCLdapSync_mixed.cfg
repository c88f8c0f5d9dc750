SPECIFICATION Spec
CONSTANTS
  ann = ann
  bob = bob
  eve = eve
  x = x
  y = y
  Row = {1, 2, 3}
  Login = {ann, bob}
  LdapId = {x, y}
  NoLogin = NoLogin
  NoId = NoId
  Names <- SharedNames
  CutOff = TRUE
  Sync = {s1}
  SignIn = {t1}
  AdminActions = {"create", "active", "delete"}
  MaxChanges = 4
CHECK_DEADLOCK FALSE
INVARIANTS
  Inv
PROPERTIES
  DeactivationHolds
  LocalUsersAreSpared
