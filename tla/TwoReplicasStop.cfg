CONSTANTS
  Runs = {r1}
  MaxAttempts = 1
  Replicas = {w1, w2}
  Workers = {w1, w2}
  ReplicaOf <- OwnReplica
  CRFirst = {}
  NoRun = NoRun
  MaxUID = 2
  MaxFaults = 0
SPECIFICATION Spec
CONSTRAINT ReplacementRuns
SYMMETRY WorkerSymmetry
INVARIANT OutcomeAtMostOnce
PROPERTY AttemptKeepsItsJob
