-------------------------- MODULE MCRunReconciler --------------------------
(* Instances of RunReconciler for TLC. *)
EXTENDS RunReconciler, TLC

OneReplica == [w \in Workers |-> CHOOSE p \in Replicas : TRUE]

\* One worker per replica: two operators that share nothing but the ledger.
OwnReplica == [w \in Workers |-> w]

\* A Job that replaces a deleted one is followed until it ends.
ReplacementRuns ==
  uids > 1 => \A r \in Runs, n \in AttemptNumbers : ~Exists(job[r][n]) \/ Live(job[r][n])

WorkerSymmetry == Permutations(Workers)

=============================================================================
