SPECIFICATION FairSpec
CONSTANTS
  m0 = m0
  m30 = m30
  h0 = h0
  h4 = h4
  s300 = s300
  s600 = s600
  Minute = {m0, m30}
  Hour = {h0, h4}
  Midnight <- midnight
  Unparsable = Unparsable
  Empty = Empty
  Absent = Absent
  Null = Null
  Timeout = {s300, s600}
  Environment <- environments
  Ask <- asks
  Tx = {t1, t2}
  MaxCalls = 2
  MaxCrashes = 2
CHECK_DEADLOCK FALSE
INVARIANTS
  WholeInv
  FlagMatchesTask
  StartIsComplete
PROPERTIES
  RestartsKeepSettings
  UndisturbedIsExact
  BeatLearns
