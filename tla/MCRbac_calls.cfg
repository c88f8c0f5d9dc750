SPECIFICATION Spec
CONSTANTS
  admins = admins
  ops = ops
  admin = admin
  viewer = viewer
  root = root
  ann = ann
  read = read
  Group = {admins, ops}
  Role = {admin}
  User = {root, ann}
  Permission = {read}
  Admins = admins
  AdminRole = admin
  Root = root
  Nobody = Nobody
  Tx = {t1, t2}
  MaxTimes = 2
  MaxCalls = 3
CHECK_DEADLOCK FALSE
SYMMETRY Symmetry
INVARIANTS
  WholeInv
  RootKeepsPermissions
  OnlyRenamesDeadlock
  CopiesAreBounded
PROPERTIES
  ReplacementIsExact
