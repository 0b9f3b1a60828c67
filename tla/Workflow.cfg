SPECIFICATION WorkflowSpec
CONSTANTS
  Specs <- AllSpecs
  Triggered <- WalkedSpecs
  Definitions = {"job"}
  Scheduled = {"job"}
  StepMs = 5
  Revived <- RevivedSpecs
  MaxFaults = 1
CHECK_DEADLOCK FALSE
INVARIANTS AdmissionAndOrderAgree  SkippedNeverRuns VerdictIsEarned
PROPERTIES DecisionsStick WorkflowSettles WorkflowStatusCatchesUp
