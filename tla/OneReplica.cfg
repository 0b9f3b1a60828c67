CONSTANTS
  Runs = {r1}
  MaxAttempts = 2
  Replicas = {p1}
  Workers = {w1, w2}
  ReplicaOf <- OneReplica
  CRFirst = {r1}
  NoRun = NoRun
  MaxUID = 3
  MaxFaults = 1
SPECIFICATION Spec
SYMMETRY WorkerSymmetry
INVARIANTS AttemptsInOrder StatusNeverLies OneSuccess OutcomeMeansQuiet
PROPERTIES FinishedIsFinal StartsOnlyAfterFailure KeepsPromise
