SPECIFICATION Spec
CONSTANTS
  Parts = {"revisions", "checks", "functions"}
  Projectors = {p1, p2}
  Survivor = p1
  Specs = {s1, s2, bad}
  Incomplete = {bad}
  MaxGeneration = 2
  MaxRevFaults = 1
  CheckInputs <- MCCheckInputs
  SLIList <- MCSLIList
  Timings = {1}
  Period = 1
  MaxTime = 2
  MaxVersion = 3
  MaxCheckFaults = 1
  Callers = {c1, c2}
  Leaders = {e1, e2}
  Requests <- MCRequests
  TimeoutOf <- MCTimeoutOf
  FnOutcomes = {"Succeeded", "Canceled"}
  MaxFnVersion = 2
  MaxCalls = 1
  MaxFnFaults = 1
INVARIANTS
  ActiveIsDeclared
  OneRunPerInstant
  OutcomesCountedOnce
  
PROPERTIES
  NewestBecomesActive
  CursorFollowsRun
  
  SyncCatchesUp
CHECK_DEADLOCK FALSE
