SPECIFICATION Spec
CONSTANTS
  sync = sync
  nightly = nightly
  sweep = sweep
  p1 = p1
  p2 = p2
  Execution = {sync, nightly, sweep}
  Scheduled = {nightly, sweep}
  Cleanup = {sweep}
  Process = {p1, p2}
  NoExecution = NoExecution
  FaultKinds = {"crash"}
  MaxFaults = 1
  HeartbeatClient = FALSE
CHECK_DEADLOCK FALSE
PROPERTIES
  StaleListIsComplete
