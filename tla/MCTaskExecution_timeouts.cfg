SPECIFICATION Spec
CONSTANTS
  sync = sync
  nightly = nightly
  sweep = sweep
  p1 = p1
  p2 = p2
  Execution = {sync, nightly, sweep}
  Scheduled = {}
  Cleanup = {sweep}
  Process = {p1, p2}
  NoExecution = NoExecution
  FaultKinds = {"timeout", "badresult"}
  MaxFaults = 2
  HeartbeatClient = FALSE
CHECK_DEADLOCK FALSE
SYMMETRY Symmetry
INVARIANTS
  AbandonedIsFinished
  ResultMatchesStatus
  SingleHolder
  AppliedOnce
