SPECIFICATION Spec
CONSTANTS
  sync = sync
  nightly = nightly
  sweep = sweep
  p1 = p1
  p2 = p2
  Execution = {sync, sweep}
  Scheduled = {sweep}
  Cleanup = {sweep}
  Process = {p1, p2}
  NoExecution = NoExecution
  FaultKinds = {"broker", "timeout", "reset", "crash", "badresult", "dberror", "redeliver"}
  MaxFaults = 1
  HeartbeatClient = TRUE
CHECK_DEADLOCK FALSE
SYMMETRY Symmetry
INVARIANTS
  ZombiesAreNotForgotten
