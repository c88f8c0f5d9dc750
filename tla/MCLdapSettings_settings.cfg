SPECIFICATION Spec
CONSTANTS
  ad = ad
  open = open
  dn = dn
  s1 = s1
  s2 = s2
  base = base
  filter = filter
  odd = odd
  p1 = p1
  p2 = p2
  t1 = t1
  t2 = t2
  Uri = {ad, open}
  Dn = {dn}
  Secret = {s1, s2}
  Base = {base}
  Filter = {filter, odd}
  Whole = {filter, odd}
  Joined = {filter}
  Person = {p1, p2}
  Empty = Empty
  Null = Null
  Mask = Mask
  Unread = Unread
  On = On
  Off = Off
  Directory <- directory
  Environment <- environments
  Ask <- asks
  Form <- forms
  Tx = {t1, t2}
  Reader = {r1}
  MaxCalls = 2
CHECK_DEADLOCK FALSE
SYMMETRY Symmetry
INVARIANTS
  Inv
  TestedSettingsWork
  SyncedPeopleAreFound
PROPERTIES
  SavesAreExact
