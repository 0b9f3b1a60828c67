CONSTANTS
  Runs = {r1}
  MaxAttempts = 2
  Replicas = {p1}
  Workers = {w1}
  ReplicaOf <- OneReplica
  CRFirst = {}
  NoRun = NoRun
  MaxUID = 3
  MaxFaults = 0
SPECIFICATION FairSpec
PROPERTY RunFinishesUnlessRewound
