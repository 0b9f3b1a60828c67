------------------------ MODULE RunReconcilerProofs ------------------------
(***************************************************************************)
(* Proofs about RunReconciler, for any number of runs, replicas and        *)
(* workers and any attempt budget.                                         *)
(***************************************************************************)
EXTENDS RunReconciler, TLAPS

(* Types.  Every handler keeps the ledger, the cluster, the caches and the
   workers' local states in their types. *)

(* The tasks a handler hands on are tasks. *)
LEMMA TaskTypes ==
  ASSUME NEW r \in Runs, NEW phase \in Phases \cup {NoRow},
         NEW n \in 0 .. MaxAttempts + 1, NEW pc \in Steps
  PROVE  JobRunTask(pc, r, phase, n) \in Task /\ JobTask(pc, r, phase, n) \in Task
BY Zenon DEF JobRunTask, JobTask, Task, NoUID

(* The same for the other tasks and for one-field updates of records. *)
LEMMA MaterializeTaskType ==
  ASSUME NEW r \in Runs, NEW cancel \in BOOLEAN
  PROVE  MaterializeTask(r, cancel) \in Task
BY MaxAttemptsAssumption DEF MaterializeTask, Task, Steps, NoUID

\* The task EnsureJob leaves behind is a task.
LEMMA CreateAttemptTaskType ==
  ASSUME NEW r \in Runs, NEW n \in AttemptNumbers, NEW uid \in Nat
  PROVE  CreateAttemptTask(r, n, uid) \in Task
BY MaxAttemptsAssumption DEF CreateAttemptTask, Task, Steps, Phases, AttemptNumbers

\* Changing the phase of an attempt row leaves an attempt row.
LEMMA AttemptRowUpdate ==
  ASSUME NEW a \in AttemptRow, NEW phase \in AttemptPhases
  PROVE  /\ [a EXCEPT !.phase = phase] \in AttemptRow
         /\ [a EXCEPT !.phase = phase].uid = a.uid
BY Zenon DEF AttemptRow

\* Changing status or deletion of a Job leaves a Job.
LEMMA JobUpdate ==
  ASSUME NEW j \in JobObject
  PROVE  /\ \A s \in JobStatus : [j EXCEPT !.status = s] \in JobObject
         /\ \A d \in Deletion : [j EXCEPT !.deletion = d] \in JobObject
BY Zenon DEF JobObject

(* A write to the entry of attempt n of run r changes that entry only. *)
LEMMA EntryUpdate ==
  ASSUME NEW S, NEW f \in [Runs -> [AttemptNumbers -> S]],
         NEW r \in Runs, NEW n \in AttemptNumbers, NEW v \in S
  PROVE  /\ [f EXCEPT ![r][n] = v] \in [Runs -> [AttemptNumbers -> S]]
         /\ \A q \in Runs : \A m \in AttemptNumbers :
              [f EXCEPT ![r][n] = v][q][m] = IF q = r /\ m = n THEN v ELSE f[q][m]
BY Zenon

\* An idle worker's state is a task.
LEMMA IdleType == Idle \in Task
BY MaxAttemptsAssumption DEF Task, Idle, NoUID, Steps

\* What ReconcileJobRun decides to do is a task.
LEMMA DecisionType ==
  ASSUME NEW r \in Runs, NEW stored \in RunRow, NEW cancel \in BOOLEAN
  PROVE  Decision(r, stored, cancel) \in Task
<1>1. stored.phase \in Phases \cup {NoRow} /\ stored.attempt \in 0 .. MaxAttempts + 1
  BY Zenon DEF RunRow
<1>2. 0 \in 0 .. MaxAttempts + 1
  BY MaxAttemptsAssumption
<1>3. {"patch", "cancelPending", "deleteJob", "requestCancel", "ensureJob", "failRun"} \subseteq Steps
  BY Zenon DEF Steps
<1>4. {"Canceled", "CancelRequested", "Failed"} \subseteq Phases
  BY Zenon DEF Phases
<1>5. CancelTask(r, stored) \in Task
  BY <1>1, <1>2, <1>3, <1>4, TaskTypes, IdleType, Zenon DEF CancelTask
<1> QED
  BY <1>1, <1>2, <1>3, <1>4, <1>5, TaskTypes, IdleType, Zenon DEF Decision

\* The types hold before anything was recorded.
LEMMA TypeInit == Init => TypeOK
BY MaxAttemptsAssumption, IdleType
   DEF Init, LedgerInit, TypeOK, LedgerTypeOK, RunRow, AttemptRow, AttemptPhases,
       AbsentRun, AbsentAttempt, NoJob, Snapshot, JobObject, JobSnapshot, JobStatus,
       Deletion, CRStates, CRStatus, NoUID, NoRow

(* Every write of a run's phase and counter keeps types. *)
LEMMA WritePhaseType ==
  ASSUME TypeOK, NEW w \in Workers, worker[w].pc # "idle", TaskOK(worker[w]),
         worker[w].phase \in Phases,
         NEW next \in Task, WritePhase(w, next)
  PROVE  TypeOK'
<1> DEFINE t == worker[w]
<1>1. t \in Task /\ t.run \in Runs
  BY Zenon DEF TypeOK, TaskOK
<1>2. [phase |-> t.phase, attempt |-> t.n] \in RunRow
  BY <1>1, Zenon DEF Task, RunRow
<1>3. run' \in [Runs -> RunRow] /\ attemptRow' = attemptRow
  BY <1>1, <1>2, Zenon DEF WritePhase, UpdateRunPhase, TypeOK, LedgerTypeOK
<1>4. [t EXCEPT !.pc = "report"] \in Task
  BY <1>1, Zenon DEF Task, Steps
<1>5. worker' \in [Workers -> Task]
  BY <1>4, IdleType, Zenon DEF WritePhase, Goto, TypeOK
<1> QED
  BY <1>3, <1>5, Zenon DEF WritePhase, TypeOK, LedgerTypeOK, clusterVars, cacheVars

\* Every step of a worker, the cluster or a fault keeps the types.
LEMMA TypeStep ==
  ASSUME TypeOK, \A w \in Workers : TaskOK(worker[w]), [Next]_vars
  PROVE  TypeOK'
<1> USE MaxAttemptsAssumption, ReconcilerAssumption
<1>1. ASSUME NEW w \in Workers, MaterializeManualRun(w) PROVE TypeOK'
  <2> DEFINE t == worker[w]
  <2>1. t \in Task /\ t.run \in Runs /\ t.cancel \in BOOLEAN
    BY <1>1, Zenon DEF TypeOK, TaskOK, Task, MaterializeManualRun
  <2>2. OccurrenceRow(t.run) \in RunRow
    BY <2>1 DEF OccurrenceRow, RunRow, TypeOK, LedgerTypeOK, Phases
  <2>3. Decision(t.run, OccurrenceRow(t.run), t.cancel) \in Task
    BY <2>1, <2>2, DecisionType, Zenon
  <2> QED
    BY <1>1, <2>1, <2>2, <2>3, Zenon
       DEF MaterializeManualRun, CreateOccurrence, Goto, TypeOK, LedgerTypeOK, clusterVars, cacheVars
<1>2. ASSUME NEW w \in Workers, EnsureJob(w) PROVE TypeOK'
  <2> DEFINE t == worker[w]
             n == NextAttempt(t.n)
  <2>0. t \in Task /\ TaskOK(t) /\ t.pc = "ensureJob"
    BY <1>2, Zenon DEF TypeOK, EnsureJob
  <2>1. t \in Task /\ t.run \in Runs /\ n \in AttemptNumbers
    BY <2>0 DEF TaskOK, Task, NextAttempt, AttemptNumbers
  <2>2. job[t.run][n].uid \in Nat
    BY <2>1 DEF TypeOK, JobObject
  <2>3. \A u \in Nat : CreateAttemptTask(t.run, n, u) \in Task
    BY <2>1, CreateAttemptTaskType, Zenon
  <2>4. PICK u \in Nat : worker' = [worker EXCEPT ![w] = CreateAttemptTask(t.run, n, u)]
    BY <1>2, <2>2 DEF EnsureJob, Goto, TypeOK
  <2>5. worker' \in [Workers -> Task]
    BY <2>3, <2>4, Zenon DEF TypeOK
  <2>6. [uid |-> uids + 1, status |-> "Pending", deletion |-> "none"] \in JobObject
    BY DEF TypeOK, JobObject, JobStatus, Deletion
  <2>7. uids' \in Nat /\ job' \in [Runs -> [AttemptNumbers -> JobObject]]
    <3>1. CASE Exists(job[t.run][n])
      BY <1>2, <3>1, Zenon DEF EnsureJob, TypeOK
    <3>2. CASE ~Exists(job[t.run][n])
      <4>1. uids' = uids + 1 /\ job' = [job EXCEPT ![t.run][n] =
              [uid |-> uids + 1, status |-> "Pending", deletion |-> "none"]]
        BY <1>2, <3>2, Zenon DEF EnsureJob
      <4> QED
        BY <2>1, <2>6, <4>1, EntryUpdate DEF TypeOK
    <3> QED
      BY <3>1, <3>2, Zenon
  <2> QED
    BY <1>2, <2>5, <2>7, Zenon DEF EnsureJob, TypeOK, LedgerTypeOK, ledgerVars, cacheVars
<1>3. ASSUME NEW w \in Workers, RecordAttempt(w) PROVE TypeOK'
  <2> DEFINE t == worker[w]
  <2>1. t \in Task /\ t.run \in Runs /\ t.n \in AttemptNumbers
    BY <1>3 DEF TypeOK, TaskOK, Task, RecordAttempt, AttemptNumbers
  <2>2. JobRunTask("patch", t.run, "Running", t.n) \in Task
    BY <2>1, TaskTypes DEF Steps, Phases, AttemptNumbers
  <2>3. worker' \in [Workers -> Task]
    BY <1>3, <2>2, IdleType, Zenon DEF RecordAttempt, Goto, TypeOK
  <2>4. [phase |-> "Running", attempt |-> t.n] \in RunRow
    BY <2>1 DEF RunRow, Phases, AttemptNumbers
  <2>5. [uid |-> t.uid, phase |-> AttemptPhase("CreatingAttempt")] \in AttemptRow
    BY <2>1, Zenon DEF AttemptRow, AttemptPhases, AttemptPhase, Task
  <2>6. LedgerTypeOK'
    <3> DEFINE row == [uid |-> t.uid, phase |-> AttemptPhase("CreatingAttempt")]
    <3>1. run' = run \/ run' = [run EXCEPT ![t.run] = [phase |-> "Running", attempt |-> t.n]]
      BY <1>3, Zenon DEF RecordAttempt, CreateAttempt, ledgerVars
    <3>2. attemptRow' = attemptRow \/ attemptRow' = [attemptRow EXCEPT ![t.run][t.n] = row]
      BY <1>3, Zenon DEF RecordAttempt, CreateAttempt, ledgerVars
    <3>3. run' \in [Runs -> RunRow]
      BY <2>1, <2>4, <3>1, Zenon DEF TypeOK, LedgerTypeOK
    <3>4. attemptRow' \in [Runs -> [AttemptNumbers -> AttemptRow]]
      <4>1. row \in AttemptRow /\ attemptRow \in [Runs -> [AttemptNumbers -> AttemptRow]]
        BY <2>5, Zenon DEF TypeOK, LedgerTypeOK
      <4> HIDE DEF row
      <4>2. [attemptRow EXCEPT ![t.run][t.n] = row] \in [Runs -> [AttemptNumbers -> AttemptRow]]
        BY <2>1, <4>1, Zenon
      <4> QED
        BY <3>2, <4>1, <4>2, Zenon
    <3> QED
      BY <3>3, <3>4, Zenon DEF LedgerTypeOK
  <2> QED
    BY <1>3, <2>3, <2>6, Zenon DEF RecordAttempt, TypeOK, clusterVars, cacheVars
<1>4. ASSUME NEW w \in Workers,
             FailRun(w) \/ CancelPending(w) \/ RequestCancel(w) \/ RecordCancelUnknown(w)
               \/ CloseRun(w) \/ ObserveRun(w)
      PROVE  TypeOK'
  <2>1. worker[w] \in Task /\ worker[w].phase \in Phases /\ worker[w].pc # "idle"
    BY <1>4, Zenon DEF TypeOK, TaskOK, Task, FailRun, CancelPending, RequestCancel, RecordCancelUnknown,
                CloseRun, ObserveRun, HandlesStartedRun, Phases
  <2>2. \A pc \in Steps : [worker[w] EXCEPT !.pc = pc] \in Task
    BY <2>1, Zenon DEF Task
  <2>3. PICK next \in Task : WritePhase(w, next)
    BY <1>4, <2>2, IdleType, Zenon
       DEF FailRun, CancelPending, RequestCancel, RecordCancelUnknown, CloseRun, ObserveRun, Steps
  <2> QED
    BY <2>1, <2>3, WritePhaseType, Zenon
<1>5. ASSUME NEW w \in Workers, ReportOutcome(w) PROVE TypeOK'
  <2>1. worker[w] \in Task /\ worker[w].run \in Runs
    BY <1>5, Zenon DEF TypeOK, TaskOK, ReportOutcome
  <2>2. [worker[w] EXCEPT !.pc = "patch"] \in Task
    BY <2>1, Zenon DEF Task, Steps
  <2> QED
    BY <1>5, <2>1, <2>2, IdleType
       DEF ReportOutcome, Goto, TypeOK, LedgerTypeOK, ledgerVars, clusterVars, cacheVars
<1>6. ASSUME NEW w \in Workers, PatchRunStatus(w) PROVE TypeOK'
  BY <1>6, IdleType, Zenon
     DEF PatchRunStatus, Goto, StatusOf, Terminal, CRStatus, TypeOK, TaskOK, LedgerTypeOK, ledgerVars, cacheVars
<1>7. ASSUME NEW w \in Workers, DeleteJob(w) PROVE TypeOK'
  <2> DEFINE t == worker[w]
  <2>1. t \in Task /\ t.run \in Runs /\ t.n \in AttemptNumbers
    BY <1>7 DEF TypeOK, TaskOK, Task, DeleteJob, HandlesStartedRun, AttemptNumbers
  <2>2. [t EXCEPT !.pc = "observeDeletion"] \in Task
    BY <2>1, Zenon DEF Task, Steps
  <2>3. [job[t.run][t.n] EXCEPT !.deletion = "recent"] \in JobObject
    <3>1. job[t.run][t.n] \in JobObject
      BY <2>1 DEF TypeOK
    <3>2. "recent" \in Deletion
      BY Zenon DEF Deletion
    <3> QED
      BY <3>1, <3>2, JobUpdate, Zenon
  <2>4. job' \in [Runs -> [AttemptNumbers -> JobObject]]
    BY <1>7, <2>1, <2>3, Zenon DEF DeleteJob, TypeOK
  <2> QED
    BY <1>7, <2>2, <2>4, Zenon DEF DeleteJob, Goto, TypeOK, LedgerTypeOK, ledgerVars, cacheVars
<1>8. ASSUME NEW w \in Workers, ObserveDeletion(w) PROVE TypeOK'
  <2> DEFINE t == worker[w]
  <2>1. t \in Task /\ t.run \in Runs /\ t.n \in 0 .. MaxAttempts + 1
    BY <1>8, Zenon DEF TypeOK, TaskOK, Task, ObserveDeletion
  <2>2. /\ JobRunTask("closeAttempt", t.run, "Canceled", t.n) \in Task
        /\ JobRunTask("cancelUnknown", t.run, "CancelUnknown", t.n) \in Task
    BY <2>1, TaskTypes, Zenon DEF Steps, Phases
  <2>3. [t EXCEPT !.pc = "patch"] \in Task
    BY <2>1, Zenon DEF Task, Steps
  <2>4. PICK new \in Task : worker' = [worker EXCEPT ![w] = new]
    BY <1>8, <2>2, <2>3, Zenon DEF ObserveDeletion, Goto
  <2>5. worker' \in [Workers -> Task]
    BY <2>4, Zenon DEF TypeOK
  <2>6. UNCHANGED <<ledgerVars, clusterVars, cacheVars, outcomes, faults>>
    BY <1>8, Zenon DEF ObserveDeletion
  <2> QED
    BY <2>5, <2>6, Zenon DEF TypeOK, LedgerTypeOK, ledgerVars, clusterVars, cacheVars
<1>9. ASSUME NEW w \in Workers, CloseAttempt(w) PROVE TypeOK'
  <2> DEFINE t == worker[w]
  <2>1. t \in Task /\ t.run \in Runs /\ t.n \in AttemptNumbers
    BY <1>9 DEF TypeOK, TaskOK, Task, CloseAttempt, HandlesStartedRun, AttemptNumbers
  <2>2. [t EXCEPT !.pc = "closeRun"] \in Task
    BY <2>1, Zenon DEF Task, Steps
  <2>3. [attemptRow[t.run][t.n] EXCEPT !.phase = AttemptPhase("Canceled")] \in AttemptRow
    <3>1. attemptRow[t.run][t.n] \in AttemptRow
      BY <2>1 DEF TypeOK, LedgerTypeOK
    <3>2. AttemptPhase("Canceled") \in AttemptPhases
      BY Zenon DEF AttemptPhase, AttemptPhases
    <3> QED
      BY <3>1, <3>2, AttemptRowUpdate, Zenon
  <2>4. LedgerTypeOK'
    BY <1>9, <2>1, <2>3, Zenon DEF CloseAttempt, UpdateAttemptPhase, TypeOK, LedgerTypeOK
  <2> QED
    BY <1>9, <2>2, <2>4, IdleType, Zenon DEF CloseAttempt, Goto, TypeOK, clusterVars, cacheVars
<1>10. ASSUME NEW w \in Workers, NEW r \in Runs, ReconcileJobRun(w, r) PROVE TypeOK'
  <2>1. run[r] \in RunRow
    BY Zenon DEF TypeOK, LedgerTypeOK
  <2>2. Decision(r, run[r], SeenCR(w, r) = "cancel") \in Task
    BY <2>1, DecisionType, Zenon
  <2>3. MaterializeTask(r, SeenCR(w, r) = "cancel") \in Task
    BY MaterializeTaskType, Zenon
  <2> QED
    <3>1. worker' = [worker EXCEPT ![w] = Decision(r, run[r], SeenCR(w, r) = "cancel")]
            \/ worker' = [worker EXCEPT ![w] = MaterializeTask(r, SeenCR(w, r) = "cancel")]
      BY <1>10, Zenon DEF ReconcileJobRun, Goto
    <3>2. worker' \in [Workers -> Task]
      BY <2>2, <2>3, <3>1, Zenon DEF TypeOK
    <3> QED
    BY <1>10, <3>2, Zenon
       DEF ReconcileJobRun, TypeOK, LedgerTypeOK, ledgerVars, clusterVars, cacheVars
<1>11. ASSUME NEW w \in Workers, NEW r \in Runs, NEW n \in AttemptNumbers, ReconcileJob(w, r, n)
       PROVE  TypeOK'
  <2> DEFINE phase == ExecutionMapToRunPhase(SeenJob(w, r, n).status)
             task  == JobTask("observeRun", r, phase, n)
  <2>1. phase \in {"Succeeded", "RetryWaiting", "Running", "CreatingAttempt"}
    BY Zenon DEF ExecutionMapToRunPhase
  <2>2. task \in Task
    BY <2>1 DEF JobTask, Task, Steps, Phases, AttemptNumbers, NoUID
  <2>3. AttemptPhase(phase) \in AttemptPhases
    BY <2>1, Zenon DEF AttemptPhase, AttemptPhases
  <2>4. [attemptRow[r][n] EXCEPT !.phase = AttemptPhase(phase)] \in AttemptRow
    BY <2>3, AttemptRowUpdate DEF TypeOK, LedgerTypeOK
  <2>5. LedgerTypeOK'
    BY <1>11, <2>4, Zenon DEF ReconcileJob, UpdateAttemptPhase, TypeOK, LedgerTypeOK
  <2> QED
    BY <1>11, <2>2, <2>5, IdleType, Zenon DEF ReconcileJob, Goto, TypeOK, clusterVars, cacheVars
<1>12. ASSUME NEW r \in Runs, RecordOccurrence(r) PROVE TypeOK'
  BY <1>12 DEF RecordOccurrence, CreateOccurrence, OccurrenceRow, RunRow, Phases, TypeOK,
               LedgerTypeOK, clusterVars, cacheVars
<1>13. ASSUME NEW r \in Runs, PublishRun(r) \/ TriggerRun(r) \/ RequestStop(r) PROVE TypeOK'
  BY <1>13, Zenon DEF PublishRun, TriggerRun, RequestStop, CRStates, TypeOK, LedgerTypeOK, ledgerVars, cacheVars
<1>14. ASSUME NEW r \in Runs, NEW n \in AttemptNumbers,
              JobActive(r, n) \/ JobPodRetry(r, n) \/ JobFinish(r, n) \/ JobGone(r, n)
                \/ DeletionOverdue(r, n)
       PROVE  TypeOK'
  <2>1. job[r][n] \in JobObject
    BY DEF TypeOK
  <2>2. /\ \A s \in JobStatus : [job[r][n] EXCEPT !.status = s] \in JobObject
        /\ [job[r][n] EXCEPT !.deletion = "overdue"] \in JobObject
    <3>1. "overdue" \in Deletion
      BY Zenon DEF Deletion
    <3> QED
      BY <2>1, <3>1, JobUpdate, Zenon
  <2>3. NoJob \in JobObject
    BY Zenon DEF JobObject, JobStatus, Deletion, NoJob, NoUID
  <2>4. PICK j \in JobObject : SetJob(r, n, j)
    BY <1>14, <2>2, <2>3, Zenon DEF JobActive, JobPodRetry, JobFinish, JobGone, DeletionOverdue, JobStatus
  <2> QED
    BY <2>4, Zenon DEF SetJob, TypeOK, LedgerTypeOK, ledgerVars, cacheVars
<1>15. ASSUME NEW p \in Replicas, NEW r \in Runs, DeliverJobRun(p, r) PROVE TypeOK'
  BY <1>15, Zenon DEF DeliverJobRun, TypeOK, LedgerTypeOK, ledgerVars, clusterVars
<1>16. ASSUME NEW p \in Replicas, NEW r \in Runs, NEW n \in AttemptNumbers, DeliverJob(p, r, n)
       PROVE  TypeOK'
  BY <1>16 DEF DeliverJob, TypeOK, LedgerTypeOK, ledgerVars, clusterVars, Snapshot, JobSnapshot,
               JobObject
<1>17. ASSUME NEW w \in Workers, FailCall(w) PROVE TypeOK'
  BY <1>17, IdleType DEF FailCall, Goto, TypeOK, LedgerTypeOK, ledgerVars, clusterVars, cacheVars
<1>18. ASSUME NEW p \in Replicas, Restart(p) PROVE TypeOK'
  <2>1. worker' \in [Workers -> Task]
    BY <1>18, IdleType, Zenon DEF Restart, TypeOK
  <2>2. cachedCR' \in [Replicas -> [Runs -> CRStates]]
    BY <1>18, Zenon DEF Restart, TypeOK
  <2>3. \A r \in Runs : \A n \in AttemptNumbers : Snapshot(job[r][n]) \in JobSnapshot
    BY DEF TypeOK, Snapshot, JobSnapshot, JobObject
  <2>4. cachedJob' \in [Replicas -> [Runs -> [AttemptNumbers -> JobSnapshot]]]
    BY <1>18, <2>3, Zenon DEF Restart, TypeOK
  <2> QED
    BY <1>18, <2>1, <2>2, <2>4 DEF Restart, TypeOK, LedgerTypeOK, ledgerVars, clusterVars
<1>19. CASE UNCHANGED vars
  BY <1>19, Zenon DEF vars, TypeOK, LedgerTypeOK
<1> QED
  BY <1>1, <1>2, <1>3, <1>4, <1>5, <1>6, <1>7, <1>8, <1>9, <1>10, <1>11, <1>12, <1>13, <1>14,
     <1>15, <1>16, <1>17, <1>18, <1>19, Zenon DEF Next, Continue

-----------------------------------------------------------------------------
(* What no statement of the ledger undoes: an attempt keeps its row and its
   Job, and a finished run keeps its row and gets no attempt. *)
LedgerGrows ==
  /\ \A r \in Runs : \A n \in AttemptNumbers :
       HasAttempt(r, n) => attemptRow'[r][n].uid = attemptRow[r][n].uid
  /\ \A r \in Runs : Terminal(run[r].phase) =>
       /\ run'[r] = run[r]
       /\ \A n \in AttemptNumbers : attemptRow'[r][n].uid = attemptRow[r][n].uid

\* CreateOccurrenceForTenant only adds to the ledger.
LEMMA CreateOccurrenceGrows ==
  ASSUME LedgerTypeOK, NEW r \in Runs, CreateOccurrence(r)
  PROVE  LedgerGrows
BY Zenon DEF LedgerTypeOK, CreateOccurrence, OccurrenceRow, LedgerGrows, HasRun, Terminal, NoRow

\* UpdateRunPhase only adds to the ledger.
LEMMA UpdateRunPhaseGrows ==
  ASSUME LedgerTypeOK, NEW r \in Runs, NEW phase, NEW n, UpdateRunPhase(r, phase, n)
  PROVE  LedgerGrows
BY Zenon DEF LedgerTypeOK, UpdateRunPhase, Open, LedgerGrows

\* What CreateAttemptForTenant does to the attempts table.
LEMMA CreateAttemptEffect ==
  ASSUME LedgerTypeOK, NEW r \in Runs, NEW n \in AttemptNumbers, NEW uid \in Nat, NEW phase,
         CreateAttempt(r, n, uid, phase), CreateAttemptAccepted(r, n, uid)
  PROVE  /\ attemptRow'[r][n].uid = uid
         /\ \A q \in Runs : \A m \in AttemptNumbers :
              q # r \/ m # n => attemptRow'[q][m] = attemptRow[q][m]
<1> DEFINE row == [uid |-> uid, phase |-> AttemptPhase("CreatingAttempt")]
<1>1. row \in AttemptRow /\ row.uid = uid
  BY Zenon DEF AttemptRow, AttemptPhases, AttemptPhase
<1>2. attemptRow \in [Runs -> [AttemptNumbers -> AttemptRow]]
  BY Zenon DEF LedgerTypeOK
<1>3. HasAttempt(r, n) => attemptRow' = attemptRow /\ attemptRow[r][n].uid = uid
  BY Zenon DEF CreateAttempt, CreateAttemptAccepted, AttemptConflict
<1>4. ~HasAttempt(r, n) => attemptRow' = [attemptRow EXCEPT ![r][n] = row]
  BY Zenon DEF CreateAttempt
<1> HIDE DEF row
<1>5. ~HasAttempt(r, n) => \A q \in Runs : \A m \in AttemptNumbers :
        attemptRow'[q][m] = IF q = r /\ m = n THEN row ELSE attemptRow[q][m]
  BY <1>1, <1>2, <1>4, EntryUpdate
<1> QED
  BY <1>1, <1>3, <1>5, Zenon

\* CreateAttemptForTenant only adds to the ledger.
LEMMA CreateAttemptGrows ==
  ASSUME LedgerTypeOK, NEW r \in Runs, NEW n \in AttemptNumbers, NEW uid \in Nat, NEW phase,
         CreateAttempt(r, n, uid, phase)
  PROVE  LedgerGrows
<1>1. CASE CreateAttemptAccepted(r, n, uid)
  <2>1. ~Terminal(run[r].phase) /\ (HasAttempt(r, n) => attemptRow[r][n].uid = uid)
    BY <1>1, Zenon DEF CreateAttemptAccepted, AttemptConflict, Open
  <2>2. /\ run' = [run EXCEPT ![r] = [phase |-> phase, attempt |-> n]]
        /\ attemptRow'[r][n].uid = uid
        /\ \A q \in Runs : \A m \in AttemptNumbers :
             q # r \/ m # n => attemptRow'[q][m] = attemptRow[q][m]
    <3>1. run' = [run EXCEPT ![r] = [phase |-> phase, attempt |-> n]]
      BY <1>1, Zenon DEF CreateAttempt
    <3>2. /\ attemptRow'[r][n].uid = uid
          /\ \A q \in Runs : \A m \in AttemptNumbers :
               q # r \/ m # n => attemptRow'[q][m] = attemptRow[q][m]
      BY <1>1, CreateAttemptEffect, Zenon
    <3> QED
      BY <3>1, <3>2, Zenon
  <2>3. \A q \in Runs : \A m \in AttemptNumbers :
          HasAttempt(q, m) => attemptRow'[q][m].uid = attemptRow[q][m].uid
    BY <2>1, <2>2, Zenon
  <2>4. \A q \in Runs : Terminal(run[q].phase) =>
          q # r /\ run'[q] = run[q]
    BY <2>1, <2>2, Zenon DEF LedgerTypeOK
  <2> QED
    BY <2>2, <2>3, <2>4, Zenon DEF LedgerGrows
<1>2. CASE ~CreateAttemptAccepted(r, n, uid)
  BY <1>2, Zenon DEF CreateAttempt, ledgerVars, LedgerGrows
<1> QED
  BY <1>1, <1>2, Zenon

(* Closing or reopening an attempt leaves every Job UID alone. *)
LEMMA UpdateAttemptPhaseEffect ==
  ASSUME LedgerTypeOK, NEW r \in Runs, NEW n \in AttemptNumbers, NEW phase, NEW uid,
         AttemptPhase(phase) \in AttemptPhases, UpdateAttemptPhase(r, n, phase, uid)
  PROVE  /\ run' = run
         /\ \A q \in Runs : \A m \in AttemptNumbers : attemptRow'[q][m].uid = attemptRow[q][m].uid
<1> DEFINE row == [attemptRow[r][n] EXCEPT !.phase = AttemptPhase(phase)]
<1>1. attemptRow \in [Runs -> [AttemptNumbers -> AttemptRow]] /\ attemptRow[r][n] \in AttemptRow
  BY Zenon DEF LedgerTypeOK
<1>2. row \in AttemptRow /\ row.uid = attemptRow[r][n].uid
  BY <1>1, AttemptRowUpdate, Zenon
<1>3. run' = run /\ (attemptRow' = attemptRow \/ attemptRow' = [attemptRow EXCEPT ![r][n] = row])
  BY <1>1, Zenon DEF UpdateAttemptPhase
<1> HIDE DEF row
<1> QED
  BY <1>1, <1>2, <1>3, EntryUpdate

-----------------------------------------------------------------------------
(* What a worker holds stays good while others write to the ledger. *)
LEMMA TaskKept ==
  ASSUME LedgerTypeOK, LedgerGrows, NEW t \in Task, TaskOK(t),
         t.pc = "report" => outcomes'[t.run] = outcomes[t.run]
  PROVE  TaskOK(t)'
<1>1. ASSUME NEW r \in Runs, NEW n \in 0 .. MaxAttempts + 1, Recorded(r, n)
      PROVE  Recorded(r, n)'
  BY <1>1, MaxAttemptsAssumption DEF LedgerGrows, Recorded, HasAttempt, AttemptNumbers
<1>2. t.pc # "idle" => t.run \in Runs
  BY Zenon DEF TaskOK
<1>3. t.n \in 0 .. MaxAttempts + 1
  BY Zenon DEF Task
<1>4. t.pc = "createAttempt" => t.n - 1 \in 0 .. MaxAttempts + 1
  BY <1>3, MaxAttemptsAssumption DEF TaskOK
<1>5. t.pc = "report" =>
        Terminal(t.phase) /\ run'[t.run].phase = t.phase /\ outcomes'[t.run] = 0
  BY <1>2, Zenon DEF TaskOK, LedgerGrows
<1>6. t.pc = "patch" /\ Terminal(t.phase) => run'[t.run].phase = t.phase
  BY <1>2, Zenon DEF TaskOK, LedgerGrows
<1>7. t.pc \in {"ensureJob", "failRun"} \cup HandlesStartedRun => Recorded(t.run, t.n)'
  BY <1>1, <1>2, <1>3, Zenon DEF TaskOK, HandlesStartedRun
<1>8. t.pc = "createAttempt" => Recorded(t.run, t.n - 1)'
  BY <1>1, <1>2, <1>4, Zenon DEF TaskOK
<1> QED
  BY <1>2, <1>5, <1>6, <1>7, <1>8, Zenon DEF TaskOK

(* ReconcileJobRun's decision about a row it read suits the ledger. *)
LEMMA DecisionOK ==
  ASSUME NEW r \in Runs, NEW stored \in RunRow, stored.phase # NoRow, NEW cancel \in BOOLEAN,
         Terminal(stored.phase) => run[r].phase = stored.phase, Recorded(r, stored.attempt),
         stored.phase = "Running" => stored.attempt >= 1
  PROVE  TaskOK(Decision(r, stored, cancel)) /\ Decision(r, stored, cancel).pc # "report"
<1> DEFINE d == Decision(r, stored, cancel)
<1>1. stored.attempt \in 0 .. MaxAttempts + 1 /\ stored.phase \in Phases
  BY Zenon DEF RunRow
<1>2. \/ d = Idle
      \/ d = JobRunTask("patch", r, stored.phase, stored.attempt)
      \/ d = JobRunTask("cancelPending", r, "Canceled", 0)
      \/ /\ stored.attempt >= 1
         /\ \/ d = JobRunTask("deleteJob", r, "CancelRequested", stored.attempt)
            \/ d = JobRunTask("requestCancel", r, "CancelRequested", stored.attempt)
      \/ /\ stored.attempt < MaxAttempts
         /\ d = JobRunTask("ensureJob", r, stored.phase, stored.attempt)
      \/ /\ stored.attempt >= MaxAttempts
         /\ d = JobRunTask("failRun", r, "Failed", stored.attempt)
  <2>1. CancelTask(r, stored) \in
          {Idle, JobRunTask("cancelPending", r, "Canceled", 0)}
        \/ /\ stored.attempt >= 1
           /\ CancelTask(r, stored) \in
                {JobRunTask("deleteJob", r, "CancelRequested", stored.attempt),
                 JobRunTask("requestCancel", r, "CancelRequested", stored.attempt)}
    BY <1>1, MaxAttemptsAssumption DEF CancelTask
  <2>2. CanStartAttempt(stored.phase, stored.attempt, MaxAttempts) => stored.attempt < MaxAttempts
    BY <1>1, MaxAttemptsAssumption DEF CanStartAttempt, NextAttempt
  <2>3. ~AttemptInFlight(stored.phase, stored.attempt)
          /\ ~CanStartAttempt(stored.phase, stored.attempt, MaxAttempts)
          /\ CanTransition(stored.phase, "Failed")
        => stored.attempt >= MaxAttempts
    BY <1>1, MaxAttemptsAssumption
       DEF AttemptInFlight, CanStartAttempt, NextAttempt, CanTransition, Successors, Phases
  <2> QED
    BY <2>1, <2>2, <2>3, Zenon DEF Decision
<1> HIDE DEF d
<1>3. TaskOK(d) /\ d.pc # "report"
  BY <1>1, <1>2, MaxAttemptsAssumption
     DEF TaskOK, JobRunTask, Idle, HandlesStartedRun, Terminal, Recorded, NoRow
<1> QED
  BY <1>3, Zenon DEF d

-----------------------------------------------------------------------------
(* Frame lemmas: what the conjuncts of the invariant survive. *)

\* A step that adds no attempt row and no Job keeps the numbering and the UIDs.
LEMMA JobsKept ==
  ASSUME TypeOK, AttemptsInOrder, JobHasUID, LedgerGrows,
         \A r \in Runs : \A n \in AttemptNumbers :
           /\ attemptRow'[r][n].uid = attemptRow[r][n].uid
           /\ Exists(job'[r][n]) => Exists(job[r][n]) /\ job'[r][n].uid = job[r][n].uid
  PROVE  AttemptsInOrder' /\ JobHasUID'
<1>1. \A r \in Runs : \A n \in AttemptNumbers : HasAttempt(r, n)' <=> HasAttempt(r, n)
  BY Zenon DEF HasAttempt
<1>2. \A n \in AttemptNumbers : \A m \in 1 .. n - 1 : m \in AttemptNumbers
  BY MaxAttemptsAssumption DEF AttemptNumbers
<1>3. AttemptsInOrder'
  BY <1>1, <1>2, Zenon DEF AttemptsInOrder
<1>4. JobHasUID'
  BY DEF JobHasUID
<1> QED
  BY <1>3, <1>4, Zenon

\* A counter that is not ahead of the attempts stays so while the ledger grows.
LEMMA CounterKept ==
  ASSUME TypeOK, CounterHasEvidence, RunningHasAttempt, LedgerGrows,
         \A r \in Runs : \/ run'[r] = run[r]
                         \/ /\ run'[r].attempt \in 0 .. MaxAttempts + 1
                            /\ Recorded(r, run'[r].attempt)
                            /\ run'[r].phase = "Running" => run'[r].attempt >= 1
  PROVE  CounterHasEvidence' /\ RunningHasAttempt'
<1>1. \A r \in Runs : run'[r].attempt \in 0 .. MaxAttempts + 1
  BY Zenon DEF TypeOK, LedgerTypeOK, RunRow
<1>2. \A r \in Runs : \A n \in 1 .. run'[r].attempt : n \in AttemptNumbers /\ HasAttempt(r, n)
  BY <1>1, MaxAttemptsAssumption DEF CounterHasEvidence, Recorded, AttemptNumbers
<1>3. \A r \in Runs : \A n \in 1 .. run'[r].attempt : HasAttempt(r, n)'
  BY <1>2 DEF LedgerGrows, HasAttempt
<1>4. RunningHasAttempt'
  BY Zenon DEF RunningHasAttempt
<1> QED
  BY <1>3, <1>4, Zenon DEF CounterHasEvidence

\* A reported finish stays reported once when the outcome counts do not change.
LEMMA OutcomesKept ==
  ASSUME TypeOK, OutcomeAtMostOnce, LedgerGrows, outcomes' = outcomes
  PROVE  OutcomeAtMostOnce'
BY Zenon DEF OutcomeAtMostOnce, LedgerGrows

\* A status that shows a finish stays true while the ledger grows.
LEMMA StatusKept ==
  ASSUME TypeOK, StatusNeverLies, LedgerGrows, crStatus' = crStatus
  PROVE  StatusNeverLies'
<1>1. \A r \in Runs : crStatus[r] # "open" => Terminal(run[r].phase)
  BY Zenon DEF TypeOK, StatusNeverLies, CRStatus, Terminal
<1> QED
  BY <1>1, Zenon DEF StatusNeverLies, LedgerGrows

(* The other workers' tasks, and the new task of the worker that moved. *)
LEMMA TasksKept ==
  ASSUME TypeOK, \A w \in Workers : TaskOK(worker[w]), LedgerGrows,
         \A v \in Workers :
           \/ /\ worker'[v] = worker[v]
              /\ worker[v].pc = "report" => outcomes'[worker[v].run] = outcomes[worker[v].run]
           \/ TaskOK(worker[v])'
  PROVE  \A v \in Workers : TaskOK(worker[v])'
<1> SUFFICES ASSUME NEW v \in Workers, worker'[v] = worker[v],
                    worker[v].pc = "report" => outcomes'[worker[v].run] = outcomes[worker[v].run]
             PROVE  TaskOK(worker[v])'
  BY Zenon
<1>1. PICK t \in Task : t = worker[v]
  BY Zenon DEF TypeOK
<1>2. TaskOK(t) /\ (t.pc = "report" => outcomes'[t.run] = outcomes[t.run])
  BY <1>1, Zenon
<1>3. TaskOK(t)'
  BY <1>2, TaskKept, Zenon DEF TypeOK
<1>4. t = worker'[v]
  BY <1>1, Zenon
<1> QED
  BY <1>3, <1>4, Zenon DEF TaskOK

\* No step but a phase write adds a worker at the outcome hooks.
LEMMA ReportersKept ==
  ASSUME OneReporter,
         \A v \in Workers : worker'[v] = worker[v] \/ worker'[v].pc # "report"
  PROVE  OneReporter'
BY DEF OneReporter

(* A task that suits the ledger before the step suits it after. *)
LEMMA NewTask ==
  ASSUME LedgerTypeOK, LedgerGrows, NEW w \in Workers, NEW next \in Task,
         worker'[w] = next, TaskOK(next), next.pc # "report"
  PROVE  TaskOK(worker[w])' /\ worker'[w].pc # "report"
<1>1. TaskOK(next)'
  BY TaskKept, Zenon
<1> QED
  BY <1>1 DEF TaskOK

\* An idle worker has nothing in hand that could go stale.
LEMMA IdleOK == TaskOK(Idle) /\ Idle.pc # "report"
BY Zenon DEF TaskOK, Idle, HandlesStartedRun

(* Steps that leave run rows, Job UIDs, outcomes and statuses alone and only
   give workers suitable tasks. *)
LEMMA QuietStep ==
  ASSUME IInv, TypeOK', run' = run, outcomes' = outcomes, crStatus' = crStatus,
         \A r \in Runs : \A n \in AttemptNumbers :
           /\ attemptRow'[r][n].uid = attemptRow[r][n].uid
           /\ Exists(job'[r][n]) => Exists(job[r][n]) /\ job'[r][n].uid = job[r][n].uid,
         \A v \in Workers : \/ worker'[v] = worker[v]
                            \/ TaskOK(worker[v])' /\ worker'[v].pc # "report"
  PROVE  IInv'
<1>1. LedgerGrows
  BY Zenon DEF LedgerGrows
<1>2. AttemptsInOrder' /\ JobHasUID'
  BY <1>1, JobsKept, Zenon DEF IInv
<1>3. CounterHasEvidence' /\ RunningHasAttempt'
  BY <1>1, CounterKept, Zenon DEF IInv
<1>4. OutcomeAtMostOnce' /\ StatusNeverLies'
  BY <1>1, OutcomesKept, StatusKept, Zenon DEF IInv
<1>5. \A v \in Workers : TaskOK(worker[v])'
  BY <1>1, TasksKept, Zenon DEF IInv
<1>6. OneReporter'
  BY ReportersKept, Zenon DEF IInv
<1> QED
  BY <1>2, <1>3, <1>4, <1>5, <1>6, Zenon DEF IInv

(* A phase write by a worker that holds what it needs for it. *)
LEMMA WritePhaseStep ==
  ASSUME IInv, TypeOK', NEW w \in Workers, worker[w].pc \notin {"idle", "report"},
         worker[w].phase \in Phases, Recorded(worker[w].run, worker[w].n),
         worker[w].phase = "Running" => worker[w].n >= 1,
         NEW next \in Task, WritePhase(w, next), next.pc # "report",
         next = [worker[w] EXCEPT !.pc = "patch"] \/ TaskOK(next)
  PROVE  IInv'
<1>0. PICK t \in Task : t = worker[w]
  BY Zenon DEF IInv, TypeOK
<1>1. t.run \in Runs /\ t.n \in 0 .. MaxAttempts + 1
  BY <1>0, Zenon DEF IInv, TaskOK, Task
<1>2. UpdateRunPhase(t.run, t.phase, t.n) /\ outcomes' = outcomes /\ crStatus' = crStatus /\ job' = job
  BY <1>0, Zenon DEF WritePhase, clusterVars
<1>3. LedgerTypeOK /\ TypeOK
  BY Zenon DEF IInv, TypeOK
<1>4. LedgerGrows
  BY <1>1, <1>2, <1>3, UpdateRunPhaseGrows, Zenon
<1>5. /\ attemptRow' = attemptRow
      /\ \A r \in Runs : r # t.run => run'[r] = run[r]
      /\ Open(t.run) => run'[t.run] = [phase |-> t.phase, attempt |-> t.n]
      /\ ~Open(t.run) => run' = run
  BY <1>1, <1>2, <1>3, Zenon DEF UpdateRunPhase, LedgerTypeOK
<1>6. AttemptsInOrder' /\ JobHasUID'
  BY <1>2, <1>3, <1>4, <1>5, JobsKept, Zenon DEF IInv
<1>7. CounterHasEvidence' /\ RunningHasAttempt'
  <2>1. \A r \in Runs : \/ run'[r] = run[r]
                        \/ /\ run'[r].attempt \in 0 .. MaxAttempts + 1
                           /\ Recorded(r, run'[r].attempt)
                           /\ run'[r].phase = "Running" => run'[r].attempt >= 1
    BY <1>0, <1>1, <1>5
  <2> QED
    BY <1>3, <1>4, <2>1, CounterKept, Zenon DEF IInv
<1>8. OutcomeAtMostOnce' /\ StatusNeverLies'
  BY <1>2, <1>3, <1>4, OutcomesKept, StatusKept, Zenon DEF IInv
<1>9. worker' = [worker EXCEPT ![w] =
        IF PhaseWriteRefused(t.run, t.phase, t.n) THEN Idle
        ELSE IF PhaseChanged(t.run, t.phase) /\ Terminal(t.phase) THEN [t EXCEPT !.pc = "report"]
        ELSE next]
  BY <1>0, Zenon DEF WritePhase, Goto
<1>10. worker \in [Workers -> Task]
  BY <1>3, Zenon DEF TypeOK
<1>11. CASE PhaseWriteRefused(t.run, t.phase, t.n)
  <2>1. worker' = [worker EXCEPT ![w] = Idle]
    BY <1>9, <1>11, Zenon
  <2>2. TaskOK(worker[w])' /\ worker'[w].pc # "report"
    BY <1>3, <1>4, <1>10, <2>1, IdleOK, IdleType, NewTask, Zenon
  <2>3. \A v \in Workers : TaskOK(worker[v])'
    BY <1>2, <1>3, <1>4, <1>10, <2>1, <2>2, TasksKept, Zenon DEF IInv
  <2>4. OneReporter'
    BY <1>10, <2>1, <2>2, ReportersKept, Zenon DEF IInv
  <2> QED
    BY <1>6, <1>7, <1>8, <2>3, <2>4, Zenon DEF IInv
<1>12. CASE ~PhaseWriteRefused(t.run, t.phase, t.n) /\ PhaseChanged(t.run, t.phase) /\ Terminal(t.phase)
  <2>1. worker' = [worker EXCEPT ![w] = [t EXCEPT !.pc = "report"]]
    BY <1>9, <1>12, Zenon
  <2>2. Open(t.run) /\ run'[t.run].phase = t.phase
    BY <1>5, <1>12 DEF PhaseChanged
  <2>3. outcomes'[t.run] = 0
    <3>1. outcomes[t.run] \in Nat
      BY <1>1, <1>3, Zenon DEF TypeOK
    <3>2. outcomes[t.run] <= 1 /\ outcomes[t.run] # 1
      BY <1>1, <2>2, Zenon DEF IInv, OutcomeAtMostOnce, Open
    <3> QED
      BY <1>2, <3>1, <3>2
  <2>4. /\ worker'[w].pc = "report" /\ worker'[w].run = t.run /\ worker'[w].phase = t.phase
    BY <1>10, <2>1, Zenon DEF Task
  <2>5. TaskOK(worker[w])'
    BY <1>1, <1>12, <2>2, <2>3, <2>4, Zenon DEF TaskOK, HandlesStartedRun
  <2>6. \A v \in Workers : TaskOK(worker[v])'
    BY <1>2, <1>3, <1>4, <1>10, <2>1, <2>5, TasksKept, Zenon DEF IInv
  <2>7. \A v \in Workers \ {w} : worker'[v] = worker[v]
    BY <1>10, <2>1, Zenon
  <2>8. \A v \in Workers : worker[v].pc = "report" => worker[v].run # t.run
    BY <2>2 DEF IInv, TaskOK, Open
  <2>9. OneReporter'
    BY <2>4, <2>7, <2>8 DEF OneReporter, IInv
  <2> QED
    BY <1>6, <1>7, <1>8, <2>6, <2>9 DEF IInv
<1>13. CASE ~PhaseWriteRefused(t.run, t.phase, t.n) /\ ~(PhaseChanged(t.run, t.phase) /\ Terminal(t.phase))
  <2>1. worker' = [worker EXCEPT ![w] = next]
    BY <1>9, <1>13, Zenon
  <2>2. TaskOK(worker[w])' /\ worker'[w].pc # "report"
    <3>1. CASE TaskOK(next)
      BY <1>3, <1>4, <1>10, <2>1, <3>1, NewTask, Zenon
    <3>2. CASE next = [worker[w] EXCEPT !.pc = "patch"]
      <4>1. worker'[w].pc = "patch" /\ worker'[w].run = t.run /\ worker'[w].phase = t.phase
        BY <1>0, <1>10, <2>1, <3>2, Zenon DEF Task
      <4>2. Terminal(t.phase) => run'[t.run].phase = t.phase
        BY <1>1, <1>5, <1>13 DEF PhaseWriteRefused, PhaseChanged, Open
      <4> QED
        BY <1>1, <4>1, <4>2, Zenon DEF TaskOK, HandlesStartedRun
    <3> QED
      BY <3>1, <3>2, Zenon
  <2>3. \A v \in Workers : TaskOK(worker[v])'
    BY <1>2, <1>3, <1>4, <1>10, <2>1, <2>2, TasksKept, Zenon DEF IInv
  <2>4. OneReporter'
    BY <1>10, <2>1, <2>2, ReportersKept, Zenon DEF IInv
  <2> QED
    BY <1>6, <1>7, <1>8, <2>3, <2>4 DEF IInv
<1> QED
  BY <1>11, <1>12, <1>13, Zenon

-----------------------------------------------------------------------------
(* The invariant is inductive: one step per action. *)
LEMMA InvInit == Init => IInv
<1> SUFFICES ASSUME Init PROVE IInv
  BY Zenon
<1>1. TypeOK
  BY TypeInit, Zenon
<1>2. \A r \in Runs : run[r] = AbsentRun /\ \A n \in AttemptNumbers :
        job[r][n] = NoJob /\ attemptRow[r][n] = AbsentAttempt
  BY Zenon DEF Init, LedgerInit
<1>3. AttemptsInOrder /\ JobHasUID
  BY <1>2 DEF AttemptsInOrder, JobHasUID, Exists, HasAttempt, NoJob, AbsentAttempt
<1>4. CounterHasEvidence /\ RunningHasAttempt
  BY <1>2 DEF CounterHasEvidence, RunningHasAttempt, AbsentRun, NoRow
<1>5. \A w \in Workers : worker[w] = Idle
  BY Zenon DEF Init
<1>6. (\A w \in Workers : TaskOK(worker[w])) /\ OneReporter
  BY <1>5, IdleOK, Zenon DEF OneReporter
<1>7. OutcomeAtMostOnce /\ StatusNeverLies
  BY DEF Init, OutcomeAtMostOnce, StatusNeverLies
<1> QED
  BY <1>1, <1>3, <1>4, <1>6, <1>7, Zenon DEF IInv

\* materializeManualRun keeps the invariant.
LEMMA MaterializeStep ==
  ASSUME IInv, TypeOK', NEW w \in Workers, MaterializeManualRun(w)
  PROVE  IInv'
<1>0. PICK t \in Task : t = worker[w]
  BY Zenon DEF IInv, TypeOK
<1>1. t.run \in Runs /\ t.cancel \in BOOLEAN /\ t.pc = "materialize"
  BY <1>0, Zenon DEF IInv, TaskOK, Task, MaterializeManualRun
<1>2. CreateOccurrence(t.run) /\ outcomes' = outcomes /\ crStatus' = crStatus /\ job' = job
  BY <1>0, Zenon DEF MaterializeManualRun, clusterVars
<1>3. LedgerTypeOK /\ TypeOK /\ worker \in [Workers -> Task]
  BY Zenon DEF IInv, TypeOK
<1>4. LedgerGrows
  BY <1>1, <1>2, <1>3, CreateOccurrenceGrows, Zenon
<1>5. /\ attemptRow' = attemptRow
      /\ \A r \in Runs : run'[r] = run[r] \/ run'[r] = [phase |-> "Pending", attempt |-> 0]
  BY <1>1, <1>2, <1>3, Zenon DEF CreateOccurrence, OccurrenceRow, LedgerTypeOK
<1>6. PICK stored \in RunRow : stored = OccurrenceRow(t.run)
  <2>1. run[t.run] \in RunRow
    BY <1>1, <1>3, Zenon DEF LedgerTypeOK
  <2>2. [phase |-> "Pending", attempt |-> 0] \in RunRow
    BY MaxAttemptsAssumption DEF RunRow, Phases
  <2> QED
    BY <2>1, <2>2, Zenon DEF OccurrenceRow
<1>7. /\ stored.phase # NoRow
      /\ Terminal(stored.phase) => run[t.run].phase = stored.phase
      /\ Recorded(t.run, stored.attempt)
      /\ stored.phase = "Running" => stored.attempt >= 1
  BY <1>1, <1>6 DEF OccurrenceRow, HasRun, NoRow, Terminal, Recorded, IInv,
                    CounterHasEvidence, RunningHasAttempt
<1>8. PICK next \in Task : next = Decision(t.run, stored, t.cancel)
  BY <1>1, DecisionType, Zenon
<1>9. TaskOK(next) /\ next.pc # "report"
  <2>1. TaskOK(Decision(t.run, stored, t.cancel)) /\ Decision(t.run, stored, t.cancel).pc # "report"
    BY <1>1, <1>7, DecisionOK, Zenon
  <2> QED
    BY <1>8, <2>1, Zenon
<1>10. worker' = [worker EXCEPT ![w] = next]
  BY <1>0, <1>6, <1>8, Zenon DEF MaterializeManualRun, Goto
<1>11. TaskOK(worker[w])' /\ worker'[w].pc # "report"
  BY <1>3, <1>4, <1>9, <1>10, NewTask, Zenon
<1>12. AttemptsInOrder' /\ JobHasUID'
  BY <1>2, <1>3, <1>4, <1>5, JobsKept, Zenon DEF IInv
<1>13. CounterHasEvidence' /\ RunningHasAttempt'
  <2>1. \A r \in Runs : \/ run'[r] = run[r]
                        \/ /\ run'[r].attempt \in 0 .. MaxAttempts + 1
                           /\ Recorded(r, run'[r].attempt)
                           /\ run'[r].phase = "Running" => run'[r].attempt >= 1
    BY <1>5, MaxAttemptsAssumption DEF Recorded
  <2> QED
    BY <1>3, <1>4, <2>1, CounterKept, Zenon DEF IInv
<1>14. OutcomeAtMostOnce' /\ StatusNeverLies'
  BY <1>2, <1>3, <1>4, OutcomesKept, StatusKept, Zenon DEF IInv
<1>15. \A v \in Workers : TaskOK(worker[v])'
  BY <1>2, <1>3, <1>4, <1>10, <1>11, TasksKept, Zenon DEF IInv
<1>16. OneReporter'
  BY <1>3, <1>10, <1>11, ReportersKept, Zenon DEF IInv
<1> QED
  BY <1>12, <1>13, <1>14, <1>15, <1>16, Zenon DEF IInv

\* What a worker that is about to call Jobs.Ensure holds.
LEMMA EnsureJobHolds ==
  ASSUME NEW t \in Task, TaskOK(t), t.pc = "ensureJob"
  PROVE  t.run \in Runs /\ t.n \in Nat /\ t.n < MaxAttempts /\ Recorded(t.run, t.n)
<1>1. t.n \in 0 .. MaxAttempts + 1
  BY Zenon DEF Task
<1>2. t.run \in Runs /\ t.n < MaxAttempts /\ Recorded(t.run, t.n)
  BY Zenon DEF TaskOK
<1> QED
  BY <1>1, <1>2

\* What a worker that is about to record an attempt holds.
LEMMA CreateAttemptHolds ==
  ASSUME NEW t \in Task, TaskOK(t), t.pc = "createAttempt"
  PROVE  /\ t.run \in Runs /\ t.uid \in Nat /\ t.uid # NoUID
         /\ t.n \in AttemptNumbers /\ t.n \in 1 .. MaxAttempts /\ Recorded(t.run, t.n - 1)
<1>1. t.uid \in Nat
  BY Zenon DEF Task
<1>2. /\ t.run \in Runs /\ t.uid # NoUID
      /\ t.n \in 1 .. MaxAttempts /\ Recorded(t.run, t.n - 1)
  BY Zenon DEF TaskOK
<1>3. t.n \in AttemptNumbers
  BY <1>2, MaxAttemptsAssumption DEF AttemptNumbers
<1> QED
  BY <1>1, <1>2, <1>3, Zenon

\* Jobs.Ensure keeps the invariant.
LEMMA EnsureJobStep ==
  ASSUME IInv, TypeOK', NEW w \in Workers, EnsureJob(w)
  PROVE  IInv'
<1>0. PICK t \in Task : t = worker[w]
  BY DEF IInv, TypeOK
<1> DEFINE n == t.n + 1
<1>1. /\ t.run \in Runs /\ n \in AttemptNumbers /\ n <= MaxAttempts /\ n \in 1 .. MaxAttempts
      /\ n - 1 = t.n /\ Recorded(t.run, t.n)
  <2>1. TaskOK(t) /\ t.pc = "ensureJob"
    BY <1>0, Zenon DEF IInv, EnsureJob
  <2>2. t.run \in Runs /\ t.n \in Nat /\ t.n < MaxAttempts /\ Recorded(t.run, t.n)
    BY <2>1, EnsureJobHolds, Zenon
  <2> QED
    BY <2>2, MaxAttemptsAssumption DEF AttemptNumbers
<1>2. ledgerVars' = ledgerVars /\ outcomes' = outcomes /\ crStatus' = crStatus
  BY Zenon DEF EnsureJob
<1>3. LedgerTypeOK /\ TypeOK /\ worker \in [Workers -> Task] /\ uids \in Nat
      /\ job \in [Runs -> [AttemptNumbers -> JobObject]]
  BY Zenon DEF IInv, TypeOK
<1>4. LedgerGrows
  BY <1>2, Zenon DEF LedgerGrows, ledgerVars
<1>5. PICK u \in Nat : u # NoUID /\ worker' = [worker EXCEPT ![w] = CreateAttemptTask(t.run, n, u)]
  <2>1. job[t.run][n].uid \in Nat
    BY <1>1, <1>3, Zenon DEF JobObject
  <2>2. Exists(job[t.run][n]) => job[t.run][n].uid # NoUID
    BY <1>1, Zenon DEF IInv, JobHasUID
  <2>3. uids + 1 \in Nat /\ uids + 1 # NoUID
    BY <1>3 DEF NoUID
  <2> QED
    BY <1>0, <2>1, <2>2, <2>3, Zenon DEF EnsureJob, Goto, NextAttempt
<1>6. PICK next \in Task : next = CreateAttemptTask(t.run, n, u)
  BY <1>1, CreateAttemptTaskType, Zenon
<1>7. TaskOK(next) /\ next.pc # "report"
  BY <1>1, <1>5, <1>6, Zenon DEF TaskOK, CreateAttemptTask, HandlesStartedRun
<1>8. TaskOK(worker[w])' /\ worker'[w].pc # "report"
  BY <1>3, <1>4, <1>5, <1>6, <1>7, NewTask, Zenon
<1>9. \A r \in Runs : \A m \in AttemptNumbers :
        \/ job'[r][m] = job[r][m]
        \/ r = t.run /\ m = n /\ job'[r][m].uid # NoUID
  <2> DEFINE new == [uid |-> uids + 1, status |-> "Pending", deletion |-> "none"]
  <2>1. new \in JobObject /\ new.uid # NoUID
    BY <1>3 DEF JobObject, JobStatus, Deletion, NoUID
  <2>2. job' = job \/ job' = [job EXCEPT ![t.run][n] = new]
    BY <1>0, Zenon DEF EnsureJob, NextAttempt
  <2> HIDE DEF new
  <2> QED
    BY <1>1, <1>3, <2>1, <2>2, EntryUpdate
<1>10. AttemptsInOrder'
  <2>1. \A r \in Runs : \A m \in AttemptNumbers : HasAttempt(r, m)' <=> HasAttempt(r, m)
    BY <1>2, Zenon DEF HasAttempt, ledgerVars
  <2>2. \A m \in AttemptNumbers : \A k \in 1 .. m - 1 : k \in AttemptNumbers
    BY MaxAttemptsAssumption DEF AttemptNumbers
  <2>3. \A k \in 1 .. n - 1 : HasAttempt(t.run, k)
    BY <1>1, Zenon DEF Recorded
  <2> QED
    BY <1>1, <1>9, <2>1, <2>2, <2>3 DEF AttemptsInOrder, IInv
<1>11. JobHasUID'
  BY <1>9 DEF JobHasUID, IInv
<1>12. CounterHasEvidence' /\ RunningHasAttempt'
  BY <1>2, <1>3, <1>4, CounterKept, Zenon DEF IInv, ledgerVars
<1>13. OutcomeAtMostOnce' /\ StatusNeverLies'
  BY <1>2, <1>3, <1>4, OutcomesKept, StatusKept, Zenon DEF IInv
<1>14. \A v \in Workers : TaskOK(worker[v])'
  BY <1>2, <1>3, <1>4, <1>5, <1>8, TasksKept, Zenon DEF IInv
<1>15. OneReporter'
  BY <1>3, <1>5, <1>8, ReportersKept, Zenon DEF IInv
<1> QED
  BY <1>10, <1>11, <1>12, <1>13, <1>14, <1>15, Zenon DEF IInv

\* The step that calls CreateAttemptForTenant keeps the invariant.
LEMMA RecordAttemptStep ==
  ASSUME IInv, TypeOK', NEW w \in Workers, RecordAttempt(w)
  PROVE  IInv'
<1>0. PICK t \in Task : t = worker[w]
  BY DEF IInv, TypeOK
<1>1. /\ t.run \in Runs /\ t.uid \in Nat /\ t.uid # NoUID
      /\ t.n \in AttemptNumbers /\ t.n \in 1 .. MaxAttempts /\ Recorded(t.run, t.n - 1)
  <2>1. TaskOK(t) /\ t.pc = "createAttempt"
    BY <1>0, Zenon DEF IInv, RecordAttempt
  <2> QED
    BY <2>1, CreateAttemptHolds, Zenon
<1>2. /\ CreateAttempt(t.run, t.n, t.uid, "Running")
      /\ outcomes' = outcomes /\ crStatus' = crStatus /\ job' = job
  BY <1>0, Zenon DEF RecordAttempt, clusterVars
<1>3. LedgerTypeOK /\ TypeOK /\ worker \in [Workers -> Task] /\ run \in [Runs -> RunRow]
  BY Zenon DEF IInv, TypeOK, LedgerTypeOK
<1>4. LedgerGrows
  BY <1>1, <1>2, <1>3, CreateAttemptGrows, Zenon
<1>5. PICK next \in Task : /\ worker' = [worker EXCEPT ![w] = next]
                           /\ next = JobRunTask("patch", t.run, "Running", t.n) \/ next = Idle
  <2>1. JobRunTask("patch", t.run, "Running", t.n) \in Task
    BY <1>1, TaskTypes, MaxAttemptsAssumption DEF Steps, Phases, AttemptNumbers
  <2> QED
    BY <1>0, <2>1, IdleType, Zenon DEF RecordAttempt, Goto
<1>6. TaskOK(next) /\ next.pc # "report"
  BY <1>1, <1>5, IdleOK DEF TaskOK, JobRunTask, HandlesStartedRun, Terminal
<1>7. TaskOK(worker[w])' /\ worker'[w].pc # "report"
  BY <1>3, <1>4, <1>5, <1>6, NewTask, Zenon
<1>8. \A v \in Workers : TaskOK(worker[v])'
  BY <1>2, <1>3, <1>4, <1>5, <1>7, TasksKept, Zenon DEF IInv
<1>9. OneReporter'
  BY <1>3, <1>5, <1>7, ReportersKept, Zenon DEF IInv
<1>10. OutcomeAtMostOnce' /\ StatusNeverLies'
  BY <1>2, <1>3, <1>4, OutcomesKept, StatusKept, Zenon DEF IInv
<1>11. JobHasUID'
  BY <1>2, Zenon DEF JobHasUID, IInv
<1>12. CASE ~CreateAttemptAccepted(t.run, t.n, t.uid)
  <2>1. run' = run /\ attemptRow' = attemptRow
    BY <1>2, <1>12, Zenon DEF CreateAttempt, ledgerVars
  <2>2. AttemptsInOrder'
    BY <1>2, <1>3, <1>4, <2>1, JobsKept, Zenon DEF IInv
  <2>3. CounterHasEvidence' /\ RunningHasAttempt'
    BY <1>3, <1>4, <2>1, CounterKept, Zenon DEF IInv
  <2> QED
    BY <1>8, <1>9, <1>10, <1>11, <2>2, <2>3, Zenon DEF IInv
<1>13. CASE CreateAttemptAccepted(t.run, t.n, t.uid)
  <2>1. /\ run' = [run EXCEPT ![t.run] = [phase |-> "Running", attempt |-> t.n]]
        /\ attemptRow'[t.run][t.n].uid = t.uid
        /\ \A q \in Runs : \A m \in AttemptNumbers :
             q # t.run \/ m # t.n => attemptRow'[q][m] = attemptRow[q][m]
    <3>1. /\ t.run \in Runs /\ t.n \in AttemptNumbers /\ t.uid \in Nat
          /\ LedgerTypeOK /\ CreateAttempt(t.run, t.n, t.uid, "Running")
      BY <1>1, <1>2, <1>3, Zenon
    <3>2. run' = [run EXCEPT ![t.run] = [phase |-> "Running", attempt |-> t.n]]
      BY <1>2, <1>13, Zenon DEF CreateAttempt
    <3>3. /\ attemptRow'[t.run][t.n].uid = t.uid
          /\ \A q \in Runs : \A m \in AttemptNumbers :
               q # t.run \/ m # t.n => attemptRow'[q][m] = attemptRow[q][m]
      BY <1>13, <3>1, CreateAttemptEffect, Zenon
    <3> QED
      BY <3>2, <3>3, Zenon
  <2>2. \A q \in Runs : \A m \in AttemptNumbers :
          /\ HasAttempt(q, m) => HasAttempt(q, m)'
          /\ HasAttempt(q, m)' => HasAttempt(q, m) \/ (q = t.run /\ m = t.n)
    BY <1>4, <2>1 DEF HasAttempt, LedgerGrows
  <2>3. \A m \in AttemptNumbers : \A k \in 1 .. m - 1 : k \in AttemptNumbers
    BY MaxAttemptsAssumption DEF AttemptNumbers
  <2>4. \A k \in 1 .. t.n - 1 : HasAttempt(t.run, k)
    BY <1>1, Zenon DEF Recorded
  <2>5. \A k \in 1 .. t.n : HasAttempt(t.run, k)'
    <3> SUFFICES ASSUME NEW k \in 1 .. t.n PROVE HasAttempt(t.run, k)'
      BY Zenon
    <3>1. CASE k = t.n
      BY <1>1, <2>1, <3>1, Zenon DEF HasAttempt
    <3>2. CASE k # t.n
      <4>1. k \in 1 .. t.n - 1 /\ k \in AttemptNumbers
        BY <1>1, <3>2, MaxAttemptsAssumption DEF AttemptNumbers
      <4> QED
        BY <1>1, <2>2, <2>4, <4>1, Zenon
    <3> QED
      BY <3>1, <3>2, Zenon
  <2>6. AttemptsInOrder'
    <3> SUFFICES ASSUME NEW r \in Runs, NEW n \in AttemptNumbers,
                        Exists(job[r][n]) \/ HasAttempt(r, n)'
                 PROVE  n <= MaxAttempts /\ \A m \in 1 .. n - 1 : HasAttempt(r, m)'
      BY <1>2, Zenon DEF AttemptsInOrder
    <3>1. CASE Exists(job[r][n]) \/ HasAttempt(r, n)
      BY <2>2, <2>3, <3>1, Zenon DEF AttemptsInOrder, IInv
    <3>2. CASE r = t.run /\ n = t.n
      BY <1>1, <2>2, <2>3, <2>4, <3>2
    <3> QED
      BY <2>2, <3>1, <3>2, Zenon
  <2>7. CounterHasEvidence'
    <3> SUFFICES ASSUME NEW r \in Runs, NEW n \in 1 .. run'[r].attempt PROVE HasAttempt(r, n)'
      BY Zenon DEF CounterHasEvidence
    <3>1. CASE r = t.run
      BY <1>1, <1>3, <2>1, <2>5, <3>1, Zenon
    <3>2. CASE r # t.run
      <4>1. run'[r] = run[r]
        BY <1>3, <2>1, <3>2, Zenon
      <4>2. HasAttempt(r, n) /\ n \in AttemptNumbers
        BY <1>3, <4>1, MaxAttemptsAssumption DEF CounterHasEvidence, IInv, RunRow, AttemptNumbers
      <4> QED
        BY <2>2, <4>2, Zenon
    <3> QED
      BY <3>1, <3>2, Zenon
  <2>8. RunningHasAttempt'
    <3> SUFFICES ASSUME NEW r \in Runs, run'[r].phase = "Running" PROVE run'[r].attempt >= 1
      BY Zenon DEF RunningHasAttempt
    <3>1. CASE r = t.run
      <4>1. run'[r] = [phase |-> "Running", attempt |-> t.n]
        BY <1>3, <2>1, <3>1, Zenon
      <4>2. t.n >= 1
        BY <1>1
      <4> QED
        BY <4>1, <4>2
    <3>2. CASE r # t.run
      <4>1. run'[r] = run[r]
        BY <1>3, <2>1, <3>2, Zenon
      <4> QED
        BY <4>1, Zenon DEF RunningHasAttempt, IInv
    <3> QED
      BY <3>1, <3>2, Zenon
  <2> QED
    BY <1>8, <1>9, <1>10, <1>11, <2>6, <2>7, <2>8, Zenon DEF IInv
<1> QED
  BY <1>12, <1>13, Zenon

\* The outcome hooks keep the invariant.
LEMMA ReportOutcomeStep ==
  ASSUME IInv, TypeOK', NEW w \in Workers, ReportOutcome(w)
  PROVE  IInv'
<1>0. PICK t \in Task : t = worker[w]
  BY DEF IInv, TypeOK
<1>1. /\ t.pc = "report" /\ t.run \in Runs /\ Terminal(t.phase)
      /\ run[t.run].phase = t.phase /\ outcomes[t.run] = 0
  BY <1>0, Zenon DEF IInv, TaskOK, ReportOutcome
<1>2. /\ run' = run /\ attemptRow' = attemptRow /\ crStatus' = crStatus /\ job' = job
      /\ outcomes' = [outcomes EXCEPT ![t.run] = outcomes[t.run] + 1]
  BY <1>0, Zenon DEF ReportOutcome, ledgerVars, clusterVars
<1>3. LedgerTypeOK /\ TypeOK /\ worker \in [Workers -> Task] /\ outcomes \in [Runs -> Nat]
  BY Zenon DEF IInv, TypeOK
<1>4. LedgerGrows
  BY <1>2, Zenon DEF LedgerGrows
<1>5. PICK next \in Task : /\ worker' = [worker EXCEPT ![w] = next]
                           /\ next = [t EXCEPT !.pc = "patch"] \/ next = Idle
  <2>1. [t EXCEPT !.pc = "patch"] \in Task
    BY Zenon DEF Task, Steps
  <2> QED
    BY <1>0, <2>1, IdleType, Zenon DEF ReportOutcome, Goto
<1>6. TaskOK(next) /\ next.pc # "report"
  <2>1. CASE next = Idle
    BY <2>1, IdleOK, Zenon
  <2>2. CASE next = [t EXCEPT !.pc = "patch"]
    <3>1. next.pc = "patch" /\ next.run = t.run /\ next.phase = t.phase
      BY <2>2, Zenon DEF Task
    <3> QED
      BY <1>1, <3>1, Zenon DEF TaskOK, HandlesStartedRun
  <2> QED
    BY <1>5, <2>1, <2>2, Zenon
<1>7. TaskOK(worker[w])' /\ worker'[w].pc # "report"
  BY <1>3, <1>4, <1>5, <1>6, NewTask, Zenon
<1>8. \A v \in Workers \ {w} :
        /\ worker'[v] = worker[v]
        /\ worker[v].pc = "report" => outcomes'[worker[v].run] = outcomes[worker[v].run]
  <2> SUFFICES ASSUME NEW v \in Workers \ {w}
               PROVE  /\ worker'[v] = worker[v]
                      /\ worker[v].pc = "report" => outcomes'[worker[v].run] = outcomes[worker[v].run]
    BY Zenon
  <2>1. worker'[v] = worker[v]
    BY <1>3, <1>5, Zenon
  <2>2. worker[v].pc = "report" => worker[v].run # t.run /\ worker[v].run \in Runs
    BY <1>0, <1>1, Zenon DEF IInv, OneReporter, TaskOK
  <2> QED
    BY <1>2, <1>3, <2>1, <2>2, Zenon
<1>9. \A v \in Workers : TaskOK(worker[v])'
  BY <1>3, <1>4, <1>7, <1>8, TasksKept, Zenon DEF IInv
<1>10. OneReporter'
  BY <1>7, <1>8, ReportersKept, Zenon DEF IInv
<1>11. OutcomeAtMostOnce'
  BY <1>1, <1>2, <1>3 DEF OutcomeAtMostOnce, IInv
<1>12. AttemptsInOrder' /\ JobHasUID'
  BY <1>2, <1>3, <1>4, JobsKept, Zenon DEF IInv
<1>13. CounterHasEvidence' /\ RunningHasAttempt' /\ StatusNeverLies'
  BY <1>2, <1>3, <1>4, CounterKept, StatusKept, Zenon DEF IInv
<1> QED
  BY <1>9, <1>10, <1>11, <1>12, <1>13, Zenon DEF IInv

\* patchRunStatus keeps the invariant.
LEMMA PatchStep ==
  ASSUME IInv, TypeOK', NEW w \in Workers, PatchRunStatus(w)
  PROVE  IInv'
<1>1. /\ run' = run /\ attemptRow' = attemptRow /\ job' = job /\ outcomes' = outcomes
      /\ worker' = [worker EXCEPT ![w] = Idle]
  BY Zenon DEF PatchRunStatus, ledgerVars, Goto
<1>2. LedgerTypeOK /\ TypeOK /\ worker \in [Workers -> Task] /\ crStatus \in [Runs -> CRStatus]
  BY Zenon DEF IInv, TypeOK
<1>3. LedgerGrows
  BY <1>1, Zenon DEF LedgerGrows
<1>4. TaskOK(worker[w])' /\ worker'[w].pc # "report"
  BY <1>1, <1>2, <1>3, IdleOK, IdleType, NewTask, Zenon
<1>5. \A v \in Workers : TaskOK(worker[v])'
  BY <1>1, <1>2, <1>3, <1>4, TasksKept, Zenon DEF IInv
<1>6. OneReporter'
  BY <1>1, <1>2, <1>4, ReportersKept, Zenon DEF IInv
<1>7. StatusNeverLies'
  BY <1>1, <1>2, Zenon DEF PatchRunStatus, StatusOf, StatusNeverLies, IInv, TaskOK
<1>8. AttemptsInOrder' /\ JobHasUID'
  BY <1>1, <1>2, <1>3, JobsKept, Zenon DEF IInv
<1>9. CounterHasEvidence' /\ RunningHasAttempt' /\ OutcomeAtMostOnce'
  BY <1>1, <1>2, <1>3, CounterKept, OutcomesKept, Zenon DEF IInv
<1> QED
  BY <1>5, <1>6, <1>7, <1>8, <1>9, Zenon DEF IInv

\* The steps that call UpdateRunPhase keep the invariant.
LEMMA PhaseWritingSteps ==
  ASSUME IInv, TypeOK', NEW w \in Workers,
         FailRun(w) \/ CancelPending(w) \/ RequestCancel(w) \/ RecordCancelUnknown(w)
           \/ CloseRun(w) \/ ObserveRun(w)
  PROVE  IInv'
<1>0. PICK t \in Task : t = worker[w]
  BY Zenon DEF IInv, TypeOK
<1>1. TaskOK(t) /\ t.pc \in {"failRun", "cancelPending", "requestCancel", "cancelUnknown",
                             "closeRun", "observeRun"}
  BY <1>0, Zenon DEF IInv, FailRun, CancelPending, RequestCancel, RecordCancelUnknown, CloseRun, ObserveRun
<1>2. /\ t.phase \in Phases /\ Recorded(t.run, t.n) /\ (t.phase = "Running" => t.n >= 1)
      /\ t.pc \notin {"idle", "report"}
  <2>1. t.phase \in Phases \cup {NoRow}
    BY Zenon DEF Task
  <2>2. t.pc = "cancelPending" => Recorded(t.run, t.n)
    BY <1>1 DEF TaskOK, Recorded
  <2> QED
    BY <1>1, <2>1, <2>2, Zenon DEF TaskOK, HandlesStartedRun, Phases
<1>3. [t EXCEPT !.pc = "patch"] \in Task /\ [t EXCEPT !.pc = "patch"].pc # "report"
  BY Zenon DEF Task, Steps
<1>4. [t EXCEPT !.pc = "deleteJob"] \in Task /\ [t EXCEPT !.pc = "deleteJob"].pc # "report"
  BY Zenon DEF Task, Steps
<1>5. CASE t.pc \in {"failRun", "cancelPending", "cancelUnknown", "closeRun"}
  <2>1. WritePhase(w, [t EXCEPT !.pc = "patch"])
    BY <1>0, <1>5, Zenon DEF FailRun, CancelPending, RequestCancel, RecordCancelUnknown, CloseRun, ObserveRun
  <2> QED
    BY <1>0, <1>2, <1>3, <2>1, WritePhaseStep, Zenon
<1>6. CASE t.pc = "requestCancel"
  <2>1. WritePhase(w, [t EXCEPT !.pc = "deleteJob"])
    BY <1>0, <1>6, Zenon DEF FailRun, CancelPending, RequestCancel, RecordCancelUnknown, CloseRun, ObserveRun
  <2>2. PICK next \in Task : next = [t EXCEPT !.pc = "deleteJob"]
    BY <1>4, Zenon
  <2>3. next.pc = "deleteJob" /\ next.run = t.run /\ next.n = t.n /\ next.phase = t.phase
    BY <2>2, Zenon DEF Task
  <2>4. TaskOK(next)
    BY <1>1, <1>6, <2>3, Zenon DEF TaskOK, HandlesStartedRun
  <2> QED
    BY <1>0, <1>2, <2>1, <2>2, <2>3, <2>4, WritePhaseStep, Zenon
<1>7. CASE t.pc = "observeRun"
  <2>1. WritePhase(w, Idle)
    BY <1>0, <1>7, Zenon DEF FailRun, CancelPending, RequestCancel, RecordCancelUnknown, CloseRun, ObserveRun
  <2> QED
    BY <1>0, <1>2, <2>1, IdleOK, IdleType, WritePhaseStep, Zenon
<1> QED
  BY <1>1, <1>5, <1>6, <1>7, Zenon

(* A worker's step that only changes its task, or a Job's deletion mark. *)
LEMMA QuietWorkerSteps ==
  ASSUME IInv, TypeOK', NEW w \in Workers, NEW next \in Task, TaskOK(next), next.pc # "report",
         worker' = [worker EXCEPT ![w] = next],
         run' = run, outcomes' = outcomes, crStatus' = crStatus,
         \A r \in Runs : \A n \in AttemptNumbers :
           /\ attemptRow'[r][n].uid = attemptRow[r][n].uid
           /\ Exists(job'[r][n]) => Exists(job[r][n]) /\ job'[r][n].uid = job[r][n].uid
  PROVE  IInv'
<1>1. LedgerTypeOK /\ worker \in [Workers -> Task] /\ LedgerGrows
  BY Zenon DEF IInv, TypeOK, LedgerGrows
<1>2. TaskOK(worker[w])' /\ worker'[w].pc # "report"
  BY <1>1, NewTask, Zenon
<1>3. \A v \in Workers : \/ worker'[v] = worker[v]
                         \/ TaskOK(worker[v])' /\ worker'[v].pc # "report"
  BY <1>1, <1>2, Zenon
<1> QED
  BY <1>3, QuietStep, Zenon

\* Taking a JobRun's key and reading its row keeps the invariant.
LEMMA ReconcileJobRunStep ==
  ASSUME IInv, TypeOK', NEW w \in Workers, NEW r \in Runs, ReconcileJobRun(w, r)
  PROVE  IInv'
<1>1. PICK c \in BOOLEAN : c = (SeenCR(w, r) = "cancel")
  BY Zenon
<1>2. PICK stored \in RunRow : stored = run[r]
  BY Zenon DEF IInv, TypeOK, LedgerTypeOK
<1>3. Recorded(r, stored.attempt) /\ (stored.phase = "Running" => stored.attempt >= 1)
  BY <1>2, Zenon DEF IInv, CounterHasEvidence, RunningHasAttempt, Recorded
<1>4. UNCHANGED <<run, attemptRow, outcomes, crStatus, job>>
  BY Zenon DEF ReconcileJobRun, ledgerVars, clusterVars
<1>5. CASE HasRun(r) /\ worker' = [worker EXCEPT ![w] = Decision(r, stored, c)]
  <2>1. TaskOK(Decision(r, stored, c)) /\ Decision(r, stored, c).pc # "report"
    BY <1>2, <1>3, <1>5, DecisionOK, Zenon DEF HasRun
  <2>2. PICK next \in Task : next = Decision(r, stored, c)
    BY DecisionType, Zenon
  <2>3. TaskOK(next) /\ next.pc # "report" /\ worker' = [worker EXCEPT ![w] = next]
    BY <1>5, <2>1, <2>2, Zenon
  <2> QED
    BY <1>4, <2>3, QuietWorkerSteps, Zenon
<1>6. CASE worker' = [worker EXCEPT ![w] = MaterializeTask(r, c)]
  <2>1. PICK next \in Task : next = MaterializeTask(r, c)
    BY MaterializeTaskType, Zenon
  <2>2. TaskOK(next) /\ next.pc # "report"
    BY <2>1, Zenon DEF TaskOK, MaterializeTask, HandlesStartedRun
  <2> QED
    BY <1>4, <1>6, <2>1, <2>2, QuietWorkerSteps, Zenon
<1> QED
  BY <1>1, <1>2, <1>5, <1>6, Zenon DEF ReconcileJobRun, Goto

\* The steps of reconcileCancellation that do not write the run's phase keep it.
LEMMA CancellationSteps ==
  ASSUME IInv, TypeOK', NEW w \in Workers, DeleteJob(w) \/ ObserveDeletion(w) \/ CloseAttempt(w)
  PROVE  IInv'
<1>0. PICK t \in Task : t = worker[w]
  BY Zenon DEF IInv, TypeOK
<1>1. TaskOK(t) /\ t.pc \in {"deleteJob", "observeDeletion", "closeAttempt"}
  BY <1>0, Zenon DEF IInv, DeleteJob, ObserveDeletion, CloseAttempt
<1>2. /\ t.run \in Runs /\ t.n \in AttemptNumbers /\ t.n >= 1 /\ Recorded(t.run, t.n)
      /\ t.phase # "Failed" /\ t.phase # NoRow /\ t.n \in 0 .. MaxAttempts + 1
  BY <1>1, MaxAttemptsAssumption DEF TaskOK, HandlesStartedRun, Task, AttemptNumbers
<1>3. LedgerTypeOK /\ job \in [Runs -> [AttemptNumbers -> JobObject]]
  BY Zenon DEF IInv, TypeOK
<1>4. CASE t.pc = "deleteJob"
  <2>1. DeleteJob(w)
    BY <1>0, <1>4, Zenon DEF DeleteJob, ObserveDeletion, CloseAttempt
  <2>2. UNCHANGED <<run, attemptRow, outcomes, crStatus>>
    BY <2>1, Zenon DEF DeleteJob, ledgerVars
  <2> DEFINE new == [job[t.run][t.n] EXCEPT !.deletion = "recent"]
  <2>3. job[t.run][t.n] \in JobObject
    BY <1>2, <1>3, Zenon
  <2>4. new \in JobObject /\ new.uid = job[t.run][t.n].uid /\ new.status = job[t.run][t.n].status
    BY <2>3, Zenon DEF JobObject, Deletion
  <2>5. job' = job \/ job' = [job EXCEPT ![t.run][t.n] = new]
    BY <1>0, <2>1, Zenon DEF DeleteJob
  <2> HIDE DEF new
  <2>6. \A r \in Runs : \A n \in AttemptNumbers :
          Exists(job'[r][n]) => Exists(job[r][n]) /\ job'[r][n].uid = job[r][n].uid
    <3>1. CASE job' = job
      BY <3>1, Zenon
    <3>2. CASE job' = [job EXCEPT ![t.run][t.n] = new]
      <4>1. \A r \in Runs : \A n \in AttemptNumbers :
              job'[r][n] = IF r = t.run /\ n = t.n THEN new ELSE job[r][n]
        BY <1>2, <1>3, <2>4, <3>2, EntryUpdate
      <4> QED
        BY <2>4, <4>1 DEF Exists
    <3> QED
      BY <2>5, <3>1, <3>2, Zenon
  <2>7. PICK next \in Task : next = [t EXCEPT !.pc = "observeDeletion"]
    BY Zenon DEF Task, Steps
  <2>8. next.pc = "observeDeletion" /\ next.run = t.run /\ next.n = t.n /\ next.phase = t.phase
    BY <2>7, Zenon DEF Task
  <2>9. TaskOK(next)
    BY <1>1, <1>2, <1>4, <2>8, Zenon DEF TaskOK, HandlesStartedRun
  <2>10. worker' = [worker EXCEPT ![w] = next]
    BY <1>0, <2>1, <2>7, Zenon DEF DeleteJob, Goto
  <2> QED
    BY <2>2, <2>6, <2>8, <2>9, <2>10, QuietWorkerSteps, Zenon
<1>5. CASE t.pc = "observeDeletion"
  <2>1. ObserveDeletion(w)
    BY <1>0, <1>5, Zenon DEF DeleteJob, ObserveDeletion, CloseAttempt
  <2>2. UNCHANGED <<run, attemptRow, outcomes, crStatus, job>>
    BY <2>1, Zenon DEF ObserveDeletion, ledgerVars, clusterVars
  <2>3. PICK next \in Task :
          /\ worker' = [worker EXCEPT ![w] = next]
          /\ \/ next = JobRunTask("closeAttempt", t.run, "Canceled", t.n)
             \/ next = JobRunTask("cancelUnknown", t.run, "CancelUnknown", t.n)
             \/ next = [t EXCEPT !.pc = "patch"]
    <3>1. /\ JobRunTask("closeAttempt", t.run, "Canceled", t.n) \in Task
          /\ JobRunTask("cancelUnknown", t.run, "CancelUnknown", t.n) \in Task
      BY <1>2, TaskTypes, Zenon DEF Steps, Phases
    <3>2. [t EXCEPT !.pc = "patch"] \in Task
      BY Zenon DEF Task, Steps
    <3> QED
      BY <1>0, <2>1, <3>1, <3>2, Zenon DEF ObserveDeletion, Goto
  <2>4. TaskOK(next) /\ next.pc # "report"
    <3>1. CASE next = [t EXCEPT !.pc = "patch"]
      <4>1. next.pc = "patch" /\ next.run = t.run /\ next.phase = t.phase
        BY <3>1, Zenon DEF Task
      <4> QED
        BY <1>1, <1>2, <1>5, <4>1, Zenon DEF TaskOK, HandlesStartedRun, Terminal
    <3>2. CASE next # [t EXCEPT !.pc = "patch"]
      BY <1>2, <2>3, <3>2 DEF TaskOK, JobRunTask, HandlesStartedRun, NoRow
    <3> QED
      BY <3>1, <3>2, Zenon
  <2> QED
    BY <2>2, <2>3, <2>4, QuietWorkerSteps, Zenon
<1>6. CASE t.pc = "closeAttempt"
  <2>1. CloseAttempt(w)
    BY <1>0, <1>6, Zenon DEF DeleteJob, ObserveDeletion, CloseAttempt
  <2>2. UNCHANGED <<outcomes, crStatus, job>>
    BY <2>1, Zenon DEF CloseAttempt, clusterVars
  <2>3. /\ run' = run
        /\ \A q \in Runs : \A m \in AttemptNumbers : attemptRow'[q][m].uid = attemptRow[q][m].uid
    <3>1. UpdateAttemptPhase(t.run, t.n, "Canceled", NoUID)
      BY <1>0, <2>1, Zenon DEF CloseAttempt
    <3>2. AttemptPhase("Canceled") \in AttemptPhases
      BY Zenon DEF AttemptPhase, AttemptPhases
    <3> QED
      BY <1>2, <1>3, <3>1, <3>2, UpdateAttemptPhaseEffect, Zenon
  <2>4. PICK next \in Task : /\ worker' = [worker EXCEPT ![w] = next]
                             /\ next = [t EXCEPT !.pc = "closeRun"] \/ next = Idle
    <3>1. [t EXCEPT !.pc = "closeRun"] \in Task
      BY Zenon DEF Task, Steps
    <3> QED
      BY <1>0, <2>1, <3>1, IdleType, Zenon DEF CloseAttempt, Goto
  <2>5. TaskOK(next) /\ next.pc # "report"
    <3>1. CASE next = Idle
      BY <3>1, IdleOK, Zenon
    <3>2. CASE next = [t EXCEPT !.pc = "closeRun"]
      <4>1. next.pc = "closeRun" /\ next.run = t.run /\ next.n = t.n /\ next.phase = t.phase
        BY <3>2, Zenon DEF Task
      <4> QED
        BY <1>1, <1>2, <1>6, <4>1, Zenon DEF TaskOK, HandlesStartedRun
    <3> QED
      BY <2>4, <3>1, <3>2, Zenon
  <2> QED
    BY <2>2, <2>3, <2>4, <2>5, QuietWorkerSteps, Zenon
<1> QED
  BY <1>1, <1>4, <1>5, <1>6, Zenon

\* The attempt write of ReconcileJob keeps the invariant.
LEMMA ReconcileJobStep ==
  ASSUME IInv, TypeOK', NEW w \in Workers, NEW r \in Runs, NEW n \in AttemptNumbers,
         ReconcileJob(w, r, n)
  PROVE  IInv'
<1> DEFINE seen  == SeenJob(w, r, n)
           phase == ExecutionMapToRunPhase(seen.status)
<1>1. phase \in {"Succeeded", "RetryWaiting", "Running", "CreatingAttempt"}
  BY Zenon DEF ExecutionMapToRunPhase
<1>2. AttemptPhase(phase) \in AttemptPhases
  BY <1>1, Zenon DEF AttemptPhase, AttemptPhases
<1>3. /\ UpdateAttemptPhase(r, n, phase, seen.uid)
      /\ UNCHANGED <<outcomes, crStatus, job>>
      /\ worker' = [worker EXCEPT ![w] =
           IF OwnsAttempt(r, n, phase, seen.uid) THEN JobTask("observeRun", r, phase, n) ELSE Idle]
  BY Zenon DEF ReconcileJob, Goto, clusterVars
<1> HIDE DEF seen, phase
<1>4. LedgerTypeOK
  BY Zenon DEF IInv, TypeOK
<1>5. /\ run' = run
      /\ \A q \in Runs : \A m \in AttemptNumbers : attemptRow'[q][m].uid = attemptRow[q][m].uid
  BY <1>2, <1>3, <1>4, UpdateAttemptPhaseEffect, Zenon
<1>6. CASE ~OwnsAttempt(r, n, phase, seen.uid)
  <2>1. worker' = [worker EXCEPT ![w] = Idle]
    BY <1>3, <1>6, Zenon
  <2> QED
    BY <1>3, <1>5, <2>1, IdleOK, IdleType, QuietWorkerSteps, Zenon
<1>7. CASE OwnsAttempt(r, n, phase, seen.uid)
  <2>1. PICK next \in Task : next = JobTask("observeRun", r, phase, n)
    <3>1. phase \in Phases /\ n \in 0 .. MaxAttempts + 1 /\ "observeRun" \in Steps
      BY <1>1, MaxAttemptsAssumption DEF Phases, AttemptNumbers, Steps
    <3> QED
      BY <3>1, TaskTypes, Zenon
  <2>2. Recorded(r, n) /\ n >= 1
    <3>1. HasAttempt(r, n) /\ n \in Nat /\ n >= 1
      BY <1>7, MaxAttemptsAssumption DEF OwnsAttempt, AttemptNumbers
    <3>2. \A m \in 1 .. n - 1 : HasAttempt(r, m)
      BY <3>1, Zenon DEF IInv, AttemptsInOrder
    <3>3. \A m \in 1 .. n : m = n \/ m \in 1 .. n - 1
      BY <3>1
    <3> QED
      BY <3>1, <3>2, <3>3, Zenon DEF Recorded
  <2>3. TaskOK(next) /\ next.pc # "report"
    BY <1>1, <2>1, <2>2, Zenon DEF TaskOK, JobTask, HandlesStartedRun, NoRow
  <2>4. worker' = [worker EXCEPT ![w] = next]
    BY <1>3, <1>7, <2>1, Zenon
  <2> QED
    BY <1>3, <1>5, <2>3, <2>4, QuietWorkerSteps, Zenon
<1> QED
  BY <1>6, <1>7, Zenon

\* The scheduler's CreateOccurrenceForTenant keeps the invariant.
LEMMA RecordOccurrenceStep ==
  ASSUME IInv, TypeOK', NEW r \in Runs, RecordOccurrence(r)
  PROVE  IInv'
<1>1. CreateOccurrence(r) /\ UNCHANGED <<outcomes, crStatus, job, worker>>
  BY Zenon DEF RecordOccurrence, clusterVars
<1>2. LedgerTypeOK /\ TypeOK
  BY Zenon DEF IInv, TypeOK
<1>3. LedgerGrows
  BY <1>1, <1>2, CreateOccurrenceGrows, Zenon
<1>4. /\ attemptRow' = attemptRow
      /\ \A q \in Runs : run'[q] = run[q] \/ run'[q] = [phase |-> "Pending", attempt |-> 0]
  BY <1>1, <1>2, Zenon DEF CreateOccurrence, OccurrenceRow, LedgerTypeOK
<1>5. AttemptsInOrder' /\ JobHasUID'
  BY <1>1, <1>2, <1>3, <1>4, JobsKept, Zenon DEF IInv
<1>6. CounterHasEvidence' /\ RunningHasAttempt'
  <2>1. \A q \in Runs : \/ run'[q] = run[q]
                        \/ /\ run'[q].attempt \in 0 .. MaxAttempts + 1
                           /\ Recorded(q, run'[q].attempt)
                           /\ run'[q].phase = "Running" => run'[q].attempt >= 1
    BY <1>4, MaxAttemptsAssumption DEF Recorded
  <2> QED
    BY <1>2, <1>3, <2>1, CounterKept, Zenon DEF IInv
<1>7. OutcomeAtMostOnce' /\ StatusNeverLies'
  BY <1>1, <1>2, <1>3, OutcomesKept, StatusKept, Zenon DEF IInv
<1>8. (\A v \in Workers : TaskOK(worker[v])') /\ OneReporter'
  BY <1>1, <1>2, <1>3, TasksKept, ReportersKept, Zenon DEF IInv
<1> QED
  BY <1>5, <1>6, <1>7, <1>8, Zenon DEF IInv

(* The cluster, the users, the informers and faults. *)
LEMMA EnvironmentSteps ==
  ASSUME IInv, TypeOK',
         \/ \E r \in Runs : PublishRun(r) \/ TriggerRun(r) \/ RequestStop(r)
         \/ \E r \in Runs, n \in AttemptNumbers :
              JobActive(r, n) \/ JobPodRetry(r, n) \/ JobFinish(r, n) \/ JobGone(r, n)
                \/ DeletionOverdue(r, n)
         \/ \E p \in Replicas, r \in Runs : DeliverJobRun(p, r)
         \/ \E p \in Replicas, r \in Runs, n \in AttemptNumbers : DeliverJob(p, r, n)
         \/ \E w \in Workers : FailCall(w)
         \/ \E p \in Replicas : Restart(p)
         \/ UNCHANGED vars
  PROVE  IInv'
<1>1. ASSUME NEW r \in Runs, PublishRun(r) \/ TriggerRun(r) \/ RequestStop(r) PROVE IInv'
  BY <1>1, QuietStep, Zenon DEF PublishRun, TriggerRun, RequestStop, ledgerVars
<1>2. ASSUME NEW r \in Runs, NEW n \in AttemptNumbers,
             JobActive(r, n) \/ JobPodRetry(r, n) \/ JobFinish(r, n) \/ JobGone(r, n)
               \/ DeletionOverdue(r, n)
      PROVE  IInv'
  <2>1. job \in [Runs -> [AttemptNumbers -> JobObject]] /\ job[r][n] \in JobObject
    BY Zenon DEF IInv, TypeOK
  <2>2. PICK j \in JobObject : SetJob(r, n, j) /\ (Exists(j) => Exists(job[r][n]) /\ j.uid = job[r][n].uid)
    <3>1. \A s \in JobStatus :
            /\ [job[r][n] EXCEPT !.status = s] \in JobObject
            /\ [job[r][n] EXCEPT !.status = s].uid = job[r][n].uid
      BY <2>1, Zenon DEF JobObject
    <3>2. /\ [job[r][n] EXCEPT !.deletion = "overdue"] \in JobObject
          /\ [job[r][n] EXCEPT !.deletion = "overdue"].uid = job[r][n].uid
          /\ [job[r][n] EXCEPT !.deletion = "overdue"].status = job[r][n].status
      BY <2>1, Zenon DEF JobObject, Deletion
    <3>3. NoJob \in JobObject /\ ~Exists(NoJob)
      BY Zenon DEF NoJob, JobObject, JobStatus, Deletion, NoUID, Exists
    <3>4. CASE JobActive(r, n) \/ JobPodRetry(r, n) \/ JobFinish(r, n)
      BY <3>1, <3>4, Zenon DEF JobActive, JobPodRetry, JobFinish, JobStatus, Exists, Live
    <3>5. CASE JobGone(r, n)
      BY <3>3, <3>5, Zenon DEF JobGone
    <3>6. CASE DeletionOverdue(r, n)
      BY <3>2, <3>6, Zenon DEF DeletionOverdue, Exists
    <3> QED
      BY <1>2, <3>4, <3>5, <3>6, Zenon
  <2>3. UNCHANGED <<run, attemptRow, outcomes, crStatus, worker>> /\ job' = [job EXCEPT ![r][n] = j]
    BY <2>2, Zenon DEF SetJob, ledgerVars
  <2>4. \A q \in Runs : \A m \in AttemptNumbers :
          job'[q][m] = IF q = r /\ m = n THEN j ELSE job[q][m]
    BY <2>1, <2>3, EntryUpdate
  <2>5. \A q \in Runs : \A m \in AttemptNumbers :
          Exists(job'[q][m]) => Exists(job[q][m]) /\ job'[q][m].uid = job[q][m].uid
    BY <2>2, <2>4, Zenon
  <2> QED
    BY <2>3, <2>5, QuietStep, Zenon
<1>3. ASSUME NEW p \in Replicas, NEW r \in Runs, DeliverJobRun(p, r) PROVE IInv'
  BY <1>3, QuietStep, Zenon DEF DeliverJobRun, ledgerVars, clusterVars
<1>4. ASSUME NEW p \in Replicas, NEW r \in Runs, NEW n \in AttemptNumbers, DeliverJob(p, r, n)
      PROVE  IInv'
  BY <1>4, QuietStep, Zenon DEF DeliverJob, ledgerVars, clusterVars
<1>5. ASSUME NEW w \in Workers, FailCall(w) PROVE IInv'
  BY <1>5, IdleOK, IdleType, QuietWorkerSteps, Zenon DEF FailCall, Goto, ledgerVars, clusterVars
<1>6. ASSUME NEW p \in Replicas, Restart(p) PROVE IInv'
  <2>1. UNCHANGED <<run, attemptRow, outcomes, crStatus, job>>
    BY <1>6, Zenon DEF Restart, ledgerVars, clusterVars
  <2>2. \A v \in Workers : worker'[v] = worker[v] \/ worker'[v] = Idle
    BY <1>6, Zenon DEF Restart
  <2>3. LedgerTypeOK /\ LedgerGrows
    BY <2>1, Zenon DEF IInv, TypeOK, LedgerGrows
  <2>4. \A v \in Workers : worker'[v] = Idle => TaskOK(worker[v])' /\ worker'[v].pc # "report"
    BY <2>3, IdleOK, IdleType, NewTask, Zenon
  <2> QED
    BY <2>1, <2>2, <2>4, QuietStep, Zenon
<1>7. CASE UNCHANGED vars
  BY <1>7, QuietStep, Zenon DEF vars
<1> QED
  BY <1>1, <1>2, <1>3, <1>4, <1>5, <1>6, <1>7, Zenon

\* Every step keeps the invariant.
LEMMA InvStep == IInv /\ [Next]_vars => IInv'
<1> SUFFICES ASSUME IInv, [Next]_vars PROVE IInv'
  BY Zenon
<1>1. TypeOK'
  BY TypeStep, Zenon DEF IInv
<1> QED
  BY <1>1, MaterializeStep, EnsureJobStep, RecordAttemptStep, ReportOutcomeStep, PatchStep,
     PhaseWritingSteps, CancellationSteps, ReconcileJobRunStep, ReconcileJobStep,
     RecordOccurrenceStep, EnvironmentSteps, Zenon DEF Next, Continue

(* Every reachable state of the operator satisfies the inductive invariant. *)
THEOREM Invariance == Spec => []IInv
BY InvInit, InvStep, PTL DEF Spec

(* For any number of runs, replicas and workers and any attempt budget: every
   variable keeps its type. *)
THEOREM TypeCorrect == Spec => []TypeOK
BY Invariance, PTL DEF IInv

(* The Job or the row of an attempt exists only within the budget and after
   the rows of all earlier attempts. *)
THEOREM AttemptsAlwaysInOrder == Spec => []AttemptsInOrder
BY Invariance, PTL DEF IInv

(* No phase write makes the run claim an attempt without a row. *)
THEOREM CounterAlwaysHasEvidence == Spec => []CounterHasEvidence
BY Invariance, PTL DEF IInv

(* The outcome hooks see a finish at most once, and only of a finished run. *)
THEOREM OutcomeReportedAtMostOnce == Spec => []OutcomeAtMostOnce
BY Invariance, PTL DEF IInv

(* The JobRun's status never shows a finish the ledger does not hold. *)
THEOREM StatusAlwaysTrue == Spec => []StatusNeverLies
BY Invariance, PTL DEF IInv

-----------------------------------------------------------------------------
(* Action properties. *)

(* Every step keeps recorded attempts and finished runs. *)
LEMMA StepGrows == IInv /\ [Next]_vars => LedgerGrows
<1> SUFFICES ASSUME IInv, [Next]_vars PROVE LedgerGrows
  BY Zenon
<1>1. LedgerTypeOK /\ worker \in [Workers -> Task] /\ \A w \in Workers : TaskOK(worker[w])
  BY Zenon DEF IInv, TypeOK
<1>2. ASSUME UNCHANGED ledgerVars PROVE LedgerGrows
  BY <1>2, Zenon DEF ledgerVars, LedgerGrows
<1>3. ASSUME NEW w \in Workers, MaterializeManualRun(w) PROVE LedgerGrows
  BY <1>1, <1>3, CreateOccurrenceGrows, Zenon DEF MaterializeManualRun, TaskOK
<1>4. ASSUME NEW r \in Runs, RecordOccurrence(r) PROVE LedgerGrows
  BY <1>1, <1>4, CreateOccurrenceGrows, Zenon DEF RecordOccurrence
<1>5. ASSUME NEW w \in Workers, RecordAttempt(w) PROVE LedgerGrows
  <2>1. PICK t \in Task : t = worker[w]
    BY <1>1, Zenon
  <2>2. /\ TaskOK(t) /\ t.pc = "createAttempt"
        /\ CreateAttempt(t.run, t.n, t.uid, "Running")
    BY <1>1, <1>5, <2>1, Zenon DEF RecordAttempt
  <2>3. t.run \in Runs /\ t.uid \in Nat /\ t.n \in AttemptNumbers
    BY <2>2, CreateAttemptHolds, Zenon
  <2> QED
    BY <1>1, <2>2, <2>3, CreateAttemptGrows, Zenon
<1>6. ASSUME NEW w \in Workers,
             FailRun(w) \/ CancelPending(w) \/ RequestCancel(w) \/ RecordCancelUnknown(w)
               \/ CloseRun(w) \/ ObserveRun(w)
      PROVE  LedgerGrows
  <2>1. /\ worker[w].run \in Runs
        /\ UpdateRunPhase(worker[w].run, worker[w].phase, worker[w].n)
    BY <1>1, <1>6, Zenon DEF FailRun, CancelPending, RequestCancel, RecordCancelUnknown, CloseRun,
                      ObserveRun, WritePhase, TaskOK
  <2> QED
    BY <1>1, <2>1, UpdateRunPhaseGrows, Zenon
<1>7. ASSUME NEW w \in Workers, CloseAttempt(w) PROVE LedgerGrows
  <2>1. /\ worker[w].run \in Runs /\ worker[w].n \in AttemptNumbers
        /\ UpdateAttemptPhase(worker[w].run, worker[w].n, "Canceled", NoUID)
        /\ AttemptPhase("Canceled") \in AttemptPhases
    BY <1>1, <1>7, MaxAttemptsAssumption
       DEF CloseAttempt, TaskOK, HandlesStartedRun, Task, AttemptNumbers, AttemptPhase, AttemptPhases
  <2>2. /\ run' = run
        /\ \A q \in Runs : \A m \in AttemptNumbers : attemptRow'[q][m].uid = attemptRow[q][m].uid
    BY <1>1, <2>1, UpdateAttemptPhaseEffect, Zenon
  <2> QED
    BY <2>2, Zenon DEF LedgerGrows
<1>8. ASSUME NEW w \in Workers, NEW r \in Runs, NEW n \in AttemptNumbers, ReconcileJob(w, r, n)
      PROVE  LedgerGrows
  <2>1. \A s : AttemptPhase(ExecutionMapToRunPhase(s)) \in AttemptPhases
    BY Zenon DEF ExecutionMapToRunPhase, AttemptPhase, AttemptPhases
  <2>2. /\ run' = run
        /\ \A q \in Runs : \A m \in AttemptNumbers : attemptRow'[q][m].uid = attemptRow[q][m].uid
    BY <1>1, <1>8, <2>1, UpdateAttemptPhaseEffect, Zenon DEF ReconcileJob
  <2> QED
    BY <2>2, Zenon DEF LedgerGrows
<1>9. ASSUME NEW w \in Workers,
             EnsureJob(w) \/ ReportOutcome(w) \/ PatchRunStatus(w) \/ DeleteJob(w)
               \/ ObserveDeletion(w) \/ FailCall(w) \/ \E r \in Runs : ReconcileJobRun(w, r)
      PROVE  UNCHANGED ledgerVars
  BY <1>9, Zenon DEF EnsureJob, ReportOutcome, PatchRunStatus, DeleteJob, ObserveDeletion, FailCall,
              ReconcileJobRun
<1>10. ASSUME NEW r \in Runs,
              PublishRun(r) \/ TriggerRun(r) \/ RequestStop(r)
                \/ \E n \in AttemptNumbers : JobActive(r, n) \/ JobPodRetry(r, n)
                     \/ JobFinish(r, n) \/ JobGone(r, n) \/ DeletionOverdue(r, n)
       PROVE  UNCHANGED ledgerVars
  BY <1>10, Zenon DEF PublishRun, TriggerRun, RequestStop, JobActive, JobPodRetry, JobFinish, JobGone,
               DeletionOverdue, SetJob
<1>11. ASSUME NEW p \in Replicas,
              Restart(p) \/ \E r \in Runs : DeliverJobRun(p, r)
                              \/ \E n \in AttemptNumbers : DeliverJob(p, r, n)
       PROVE  UNCHANGED ledgerVars
  BY <1>11, Zenon DEF Restart, DeliverJobRun, DeliverJob
<1>12. CASE UNCHANGED vars
  BY <1>2, <1>12, Zenon DEF vars, ledgerVars
<1> QED
  BY <1>2, <1>3, <1>4, <1>5, <1>6, <1>7, <1>8, <1>9, <1>10, <1>11, <1>12, Zenon DEF Next, Continue

(* A finished run keeps its row and gets no further attempt, in every step. *)
THEOREM FinishedStaysFinal == Spec => FinishedIsFinal
<1>1. LedgerGrows => \A r \in Runs : Terminal(run[r].phase) =>
        /\ run'[r] = run[r]
        /\ \A n \in AttemptNumbers : HasAttempt(r, n)' = HasAttempt(r, n)
  BY Zenon DEF LedgerGrows, HasAttempt
<1>2. IInv /\ [Next]_vars => [\A r \in Runs : Terminal(run[r].phase) =>
        /\ run'[r] = run[r]
        /\ \A n \in AttemptNumbers : HasAttempt(r, n)' = HasAttempt(r, n)]_vars
  BY <1>1, StepGrows, Zenon
<1> QED
  BY <1>2, Invariance, PTL DEF Spec, FinishedIsFinal

(* A recorded attempt keeps the Job UID it was recorded with, in every step. *)
THEOREM AttemptAlwaysKeepsItsJob == Spec => AttemptKeepsItsJob
<1>1. IInv /\ [Next]_vars => [\A r \in Runs : \A n \in AttemptNumbers :
        HasAttempt(r, n) => attemptRow'[r][n].uid = attemptRow[r][n].uid]_vars
  BY StepGrows, Zenon DEF LedgerGrows
<1> QED
  BY <1>1, Invariance, PTL DEF Spec, AttemptKeepsItsJob

-----------------------------------------------------------------------------
(* Refinement: the reconcilers implement RunPromise. *)

\* An empty ledger has promised nothing.
LEMMA PromiseInitially == Init => Promise!PromiseInit
<1> SUFFICES ASSUME Init PROVE Promise!PromiseInit
  OBVIOUS
<1>1. outcomeBar = [r \in Runs |-> "none"]
  BY Zenon DEF Init, LedgerInit, AbsentRun, outcomeBar, Outcome
<1>2. \A r \in Runs : {n \in AttemptNumbers : HasAttempt(r, n)} = {}
  BY Zenon DEF Init, LedgerInit, AbsentAttempt, HasAttempt
<1>3. triedBar = [r \in Runs |-> {}]
  BY <1>2, Zenon DEF triedBar
<1> QED
  BY <1>1, <1>3, Zenon DEF Promise!PromiseInit

(* Nothing of the abstract state moves when outcomes and Job UIDs stay. *)
LEMMA TriedKept ==
  ASSUME \A r \in Runs : \A n \in AttemptNumbers : attemptRow'[r][n].uid = attemptRow[r][n].uid
  PROVE  triedBar' = triedBar
<1>1. \A r \in Runs : {n \in AttemptNumbers : HasAttempt(r, n)}'
                        = {n \in AttemptNumbers : HasAttempt(r, n)}
  BY Zenon DEF HasAttempt
<1> QED
  BY <1>1, Zenon DEF triedBar

\* A row created by CreateOccurrenceForTenant is a Record step of the promise.
LEMMA PromiseRecord ==
  ASSUME LedgerTypeOK, NEW r \in Runs, CreateOccurrence(r)
  PROVE  [Promise!PromiseNext]_(Promise!promiseVars)
<1>1. triedBar' = triedBar
  BY TriedKept, Zenon DEF CreateOccurrence
<1>2. CASE HasRun(r)
  <2>1. run' = run
    BY <1>2, Zenon DEF CreateOccurrence, OccurrenceRow, LedgerTypeOK
  <2> QED
    BY <1>1, <2>1, Zenon DEF outcomeBar, Promise!promiseVars
<1>3. CASE ~HasRun(r)
  <2>1. run' = [run EXCEPT ![r] = [phase |-> "Pending", attempt |-> 0]]
    BY <1>3, Zenon DEF CreateOccurrence, OccurrenceRow
  <2>2. outcomeBar[r] = "none"
    BY <1>3, Zenon DEF outcomeBar, Outcome, HasRun
  <2>3. outcomeBar' = [outcomeBar EXCEPT ![r] = "open"]
    BY <2>1, Zenon DEF outcomeBar, Outcome, LedgerTypeOK, NoRow, Terminal
  <2> QED
    BY <1>1, <2>2, <2>3, Zenon DEF Promise!PromiseNext, Promise!Record
<1> QED
  BY <1>2, <1>3, Zenon

\* An attempt row created by CreateAttemptForTenant is a Try step of the promise.
LEMMA PromiseTry ==
  ASSUME LedgerTypeOK, NEW r \in Runs, NEW n \in AttemptNumbers, NEW uid \in Nat, uid # NoUID,
         n \in 1 .. MaxAttempts, Recorded(r, n - 1), CreateAttempt(r, n, uid, "Running")
  PROVE  [Promise!PromiseNext]_(Promise!promiseVars)
<1>1. CASE ~CreateAttemptAccepted(r, n, uid)
  <2>1. run' = run /\ attemptRow' = attemptRow
    BY <1>1, Zenon DEF CreateAttempt, ledgerVars
  <2> QED
    BY <2>1, TriedKept, Zenon DEF outcomeBar, Promise!promiseVars
<1>2. CASE CreateAttemptAccepted(r, n, uid)
  <2>1. /\ run' = [run EXCEPT ![r] = [phase |-> "Running", attempt |-> n]]
        /\ attemptRow'[r][n].uid = uid
        /\ \A q \in Runs : \A m \in AttemptNumbers :
             q # r \/ m # n => attemptRow'[q][m] = attemptRow[q][m]
    <3>1. run' = [run EXCEPT ![r] = [phase |-> "Running", attempt |-> n]]
      BY <1>2, Zenon DEF CreateAttempt
    <3>2. /\ attemptRow'[r][n].uid = uid
          /\ \A q \in Runs : \A m \in AttemptNumbers :
               q # r \/ m # n => attemptRow'[q][m] = attemptRow[q][m]
      BY <1>2, CreateAttemptEffect, Zenon
    <3> QED
      BY <3>1, <3>2, Zenon
  <2>2. outcomeBar[r] = "open"
    BY <1>2, Zenon DEF CreateAttemptAccepted, Open, HasRun, outcomeBar, Outcome
  <2>3. outcomeBar' = outcomeBar
    <3>1. \A q \in Runs : Outcome(run[q].phase)' = Outcome(run[q].phase)
      BY <2>1, <2>2, Zenon DEF outcomeBar, Outcome, LedgerTypeOK, NoRow, Terminal
    <3> QED
      BY <3>1, Zenon DEF outcomeBar
  <2>4. CASE HasAttempt(r, n)
    <3>1. attemptRow[r][n].uid = uid
      BY <1>2, <2>4, Zenon DEF CreateAttemptAccepted, AttemptConflict
    <3>2. triedBar' = triedBar
      BY <2>1, <3>1, TriedKept, Zenon
    <3> QED
      BY <2>3, <3>2, Zenon DEF Promise!promiseVars
  <2>5. CASE ~HasAttempt(r, n)
    <3>1. \A q \in Runs : {m \in AttemptNumbers : HasAttempt(q, m)}' =
            IF q = r THEN {m \in AttemptNumbers : HasAttempt(q, m)} \cup {n}
            ELSE {m \in AttemptNumbers : HasAttempt(q, m)}
      BY <2>1, Zenon DEF HasAttempt
    <3>2. triedBar' = [triedBar EXCEPT ![r] = triedBar[r] \cup {n}]
      BY <3>1, Zenon DEF triedBar
    <3>3. n \notin triedBar[r]
      BY <2>5, Zenon DEF triedBar
    <3>4. \A m \in 1 .. n - 1 : m \in triedBar[r]
      BY MaxAttemptsAssumption DEF triedBar, Recorded, AttemptNumbers
    <3>5. Promise!Try(r)
      BY <2>2, <2>3, <3>2, <3>3, <3>4, Zenon DEF Promise!Try
    <3> QED
      BY <3>5, Zenon DEF Promise!PromiseNext
  <2> QED
    BY <2>4, <2>5, Zenon
<1> QED
  BY <1>1, <1>2, Zenon

\* A terminal phase written by UpdateRunPhase is a Finish step of the promise.
LEMMA PromiseFinish ==
  ASSUME LedgerTypeOK, NEW r \in Runs, NEW phase \in Phases, NEW n \in 0 .. MaxAttempts + 1,
         UpdateRunPhase(r, phase, n), Recorded(r, n),
         phase = "Succeeded" => n >= 1, phase = "Failed" => n >= MaxAttempts
  PROVE  [Promise!PromiseNext]_(Promise!promiseVars)
<1>1. triedBar' = triedBar
  BY TriedKept, Zenon DEF UpdateRunPhase
<1>2. CASE ~Open(r)
  BY <1>1, <1>2, Zenon DEF UpdateRunPhase, outcomeBar, Promise!promiseVars
<1>3. CASE Open(r)
  <2>1. run' = [run EXCEPT ![r] = [phase |-> phase, attempt |-> n]]
    BY <1>3, Zenon DEF UpdateRunPhase
  <2>2. outcomeBar[r] = "open"
    BY <1>3, Zenon DEF Open, HasRun, outcomeBar, Outcome
  <2>3. CASE ~Terminal(phase)
    <3>1. \A q \in Runs : Outcome(run[q].phase)' = Outcome(run[q].phase)
      BY <2>1, <2>2, <2>3, Zenon DEF outcomeBar, Outcome, LedgerTypeOK, NoRow, Phases
    <3> QED
      BY <1>1, <3>1, Zenon DEF outcomeBar, Promise!promiseVars
  <2>4. CASE Terminal(phase)
    <3>1. outcomeBar' = [outcomeBar EXCEPT ![r] = phase]
      BY <2>1, <2>4, Zenon DEF outcomeBar, Outcome, LedgerTypeOK, NoRow, Terminal
    <3>2. \A m \in 1 .. n : m \in triedBar[r]
      BY MaxAttemptsAssumption DEF triedBar, Recorded, AttemptNumbers
    <3>3. phase = "Succeeded" => triedBar[r] # {}
      BY <3>2
    <3>4. phase = "Failed" => \A m \in 1 .. MaxAttempts : m \in triedBar[r]
      BY <3>2, MaxAttemptsAssumption
    <3>5. Promise!Finish(r)
      BY <1>1, <2>2, <2>4, <3>1, <3>3, <3>4, Zenon DEF Promise!Finish, Terminal
    <3> QED
      BY <3>5, Zenon DEF Promise!PromiseNext
  <2> QED
    BY <2>3, <2>4, Zenon
<1> QED
  BY <1>2, <1>3, Zenon

\* Every step of the reconcilers is a step of the promise or a stutter.
LEMMA PromiseStep == IInv /\ [Next]_vars => [Promise!PromiseNext]_(Promise!promiseVars)
<1> SUFFICES ASSUME IInv, [Next]_vars PROVE [Promise!PromiseNext]_(Promise!promiseVars)
  BY Zenon
<1> DEFINE Goal == [Promise!PromiseNext]_(Promise!promiseVars)
<1>1. LedgerTypeOK /\ worker \in [Workers -> Task] /\ \A w \in Workers : TaskOK(worker[w])
  BY DEF IInv, TypeOK
<1>2. ASSUME run' = run, \A r \in Runs : \A n \in AttemptNumbers :
                           attemptRow'[r][n].uid = attemptRow[r][n].uid
      PROVE  Goal
  <2>1. triedBar' = triedBar /\ outcomeBar' = outcomeBar
    BY <1>2, TriedKept, Zenon DEF outcomeBar
  <2> QED
    BY <2>1, Zenon DEF Promise!promiseVars
<1>3. ASSUME UNCHANGED ledgerVars PROVE Goal
  BY <1>2, <1>3, Zenon DEF ledgerVars
<1>4. ASSUME NEW w \in Workers, MaterializeManualRun(w) PROVE Goal
  BY <1>1, <1>4, PromiseRecord, Zenon DEF MaterializeManualRun, TaskOK
<1>5. ASSUME NEW r \in Runs, RecordOccurrence(r) PROVE Goal
  BY <1>1, <1>5, PromiseRecord, Zenon DEF RecordOccurrence
<1>6. ASSUME NEW w \in Workers, RecordAttempt(w) PROVE Goal
  <2>1. PICK t \in Task : t = worker[w]
    BY <1>1
  <2>2. /\ TaskOK(t) /\ t.pc = "createAttempt"
        /\ CreateAttempt(t.run, t.n, t.uid, "Running")
    BY <1>1, <1>6, <2>1 DEF RecordAttempt
  <2>3. /\ t.run \in Runs /\ t.uid \in Nat /\ t.uid # NoUID
        /\ t.n \in AttemptNumbers /\ t.n \in 1 .. MaxAttempts /\ Recorded(t.run, t.n - 1)
    BY <2>2, CreateAttemptHolds, Zenon
  <2> QED
    BY <1>1, <2>2, <2>3, PromiseTry, Zenon
<1>7. ASSUME NEW w \in Workers,
             FailRun(w) \/ CancelPending(w) \/ RequestCancel(w) \/ RecordCancelUnknown(w)
               \/ CloseRun(w) \/ ObserveRun(w)
      PROVE  Goal
  <2>0. PICK t \in Task : t = worker[w]
    BY <1>1
  <2>1. /\ UpdateRunPhase(t.run, t.phase, t.n) /\ TaskOK(t)
        /\ t.pc \in {"failRun", "cancelPending", "requestCancel", "cancelUnknown", "closeRun",
                     "observeRun"}
    BY <1>1, <1>7, <2>0, Zenon DEF FailRun, CancelPending, RequestCancel, RecordCancelUnknown, CloseRun,
                            ObserveRun, WritePhase
  <2>2. t.run \in Runs /\ t.n \in 0 .. MaxAttempts + 1 /\ t.phase \in Phases \cup {NoRow}
    BY <2>1, Zenon DEF TaskOK, Task
  <2>3. t.pc = "cancelPending" => Recorded(t.run, t.n)
    <3>1. t.pc = "cancelPending" => t.n = 0
      BY <2>1, Zenon DEF TaskOK
    <3>2. \A m \in 1 .. 0 : FALSE
      OBVIOUS
    <3> QED
      BY <3>1, <3>2, Zenon DEF Recorded
  <2>4. /\ Recorded(t.run, t.n) /\ t.phase \in Phases
        /\ t.phase = "Succeeded" => t.n >= 1
        /\ t.phase = "Failed" => t.n >= MaxAttempts
    BY <2>1, <2>2, <2>3, Zenon DEF TaskOK, HandlesStartedRun, Phases
  <2> QED
    BY <1>1, <2>1, <2>2, <2>4, PromiseFinish, Zenon
<1>8. ASSUME NEW w \in Workers, CloseAttempt(w) PROVE Goal
  <2>1. /\ worker[w].run \in Runs /\ worker[w].n \in AttemptNumbers
        /\ UpdateAttemptPhase(worker[w].run, worker[w].n, "Canceled", NoUID)
        /\ AttemptPhase("Canceled") \in AttemptPhases
    BY <1>1, <1>8, MaxAttemptsAssumption
       DEF CloseAttempt, TaskOK, HandlesStartedRun, Task, AttemptNumbers, AttemptPhase, AttemptPhases
  <2> QED
    BY <1>1, <1>2, <2>1, UpdateAttemptPhaseEffect, Zenon
<1>9. ASSUME NEW w \in Workers, NEW r \in Runs, NEW n \in AttemptNumbers, ReconcileJob(w, r, n)
      PROVE  Goal
  <2>1. \A s : AttemptPhase(ExecutionMapToRunPhase(s)) \in AttemptPhases
    BY DEF ExecutionMapToRunPhase, AttemptPhase, AttemptPhases
  <2>2. /\ run' = run
        /\ \A q \in Runs : \A m \in AttemptNumbers : attemptRow'[q][m].uid = attemptRow[q][m].uid
    BY <1>1, <1>9, <2>1, UpdateAttemptPhaseEffect, Zenon DEF ReconcileJob
  <2> QED
    BY <1>2, <2>2, Zenon
<1>10. ASSUME NEW w \in Workers,
             EnsureJob(w) \/ ReportOutcome(w) \/ PatchRunStatus(w) \/ DeleteJob(w)
               \/ ObserveDeletion(w) \/ FailCall(w) \/ \E r \in Runs : ReconcileJobRun(w, r)
      PROVE  UNCHANGED ledgerVars
  BY <1>10, Zenon DEF EnsureJob, ReportOutcome, PatchRunStatus, DeleteJob, ObserveDeletion, FailCall,
              ReconcileJobRun
<1>11. ASSUME NEW r \in Runs,
              PublishRun(r) \/ TriggerRun(r) \/ RequestStop(r)
                \/ \E n \in AttemptNumbers : JobActive(r, n) \/ JobPodRetry(r, n)
                     \/ JobFinish(r, n) \/ JobGone(r, n) \/ DeletionOverdue(r, n)
       PROVE  UNCHANGED ledgerVars
  BY <1>11 DEF PublishRun, TriggerRun, RequestStop, JobActive, JobPodRetry, JobFinish, JobGone,
               DeletionOverdue, SetJob
<1>12. ASSUME NEW p \in Replicas,
              Restart(p) \/ \E r \in Runs : DeliverJobRun(p, r)
                              \/ \E n \in AttemptNumbers : DeliverJob(p, r, n)
       PROVE  UNCHANGED ledgerVars
  BY <1>12 DEF Restart, DeliverJobRun, DeliverJob
<1>13. ASSUME UNCHANGED vars PROVE Goal
  BY <1>3, <1>13, Zenon DEF vars, ledgerVars
<1> HIDE DEF Goal
<1>14. ASSUME NEW w \in Workers, Continue(w) \/ FailCall(w) PROVE Goal
  BY <1>3, <1>4, <1>6, <1>7, <1>8, <1>10, <1>14, Zenon DEF Continue
<1>15. ASSUME NEW w \in Workers, NEW r \in Runs, ReconcileJobRun(w, r) PROVE Goal
  BY <1>3, <1>10, <1>15, Zenon
<1>16. ASSUME NEW r \in Runs,
              RecordOccurrence(r) \/ PublishRun(r) \/ TriggerRun(r) \/ RequestStop(r)
       PROVE  Goal
  BY <1>3, <1>5, <1>11, <1>16, Zenon
<1>17. ASSUME NEW r \in Runs, NEW n \in AttemptNumbers,
              JobActive(r, n) \/ JobPodRetry(r, n) \/ JobFinish(r, n) \/ JobGone(r, n)
                \/ DeletionOverdue(r, n)
       PROVE  Goal
  BY <1>3, <1>11, <1>17, Zenon
<1>18. ASSUME NEW p \in Replicas, NEW r \in Runs, DeliverJobRun(p, r) PROVE Goal
  BY <1>3, <1>12, <1>18, Zenon
<1>19. ASSUME NEW p \in Replicas, NEW r \in Runs, NEW n \in AttemptNumbers, DeliverJob(p, r, n)
       PROVE  Goal
  BY <1>3, <1>12, <1>19, Zenon
<1>20. ASSUME NEW p \in Replicas, Restart(p) PROVE Goal
  BY <1>3, <1>12, <1>20, Zenon
<1>21. Goal
  BY <1>9, <1>13, <1>14, <1>15, <1>16, <1>17, <1>18, <1>19, <1>20, Zenon DEF Next
<1> QED
  BY <1>21, Zenon DEF Goal

(* The operator's reconcilers implement the promise of the ledger: however its
   workers, replicas, faults and the cluster interleave, a run is recorded
   once, is tried one attempt after the other within its budget, and finishes
   once with an outcome that its attempts account for. *)
THEOREM ReconcilersKeepPromise == Spec => KeepsPromise
BY PromiseInitially, PromiseStep, Invariance, PTL DEF Spec, KeepsPromise, Promise!PromiseSpec

=============================================================================
