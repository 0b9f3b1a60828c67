SPECIFICATION WorkflowSpec
CONSTANTS
  Specs <- WalkedSpecs
  Triggered <- WalkedSpecs
  Definitions = {"job"}
  Scheduled = {}
  StepMs = 5
  Revived = {}
  MaxFaults = 1
CHECK_DEADLOCK FALSE
PROPERTY StrandedStepRepublished
