--------------------------- MODULE RunReconciler ---------------------------
(***************************************************************************)
(* The operator's reconcilers of runs (internal/operator/runtime.go,       *)
(* cancel.go, job_handler.go) over the run ledger, the JobRun custom       *)
(* resources and the Kubernetes Jobs.                                      *)
(*                                                                         *)
(* A replica of the operator runs several workers on one workqueue.  The   *)
(* queue never hands one key to two workers of a replica, but "jobruns:x"  *)
(* and "jobs:y" are different keys, and replicas do not coordinate.  Every *)
(* transaction and every API call is a step of its own, so another worker, *)
(* the cluster or a fault may come between any two of them.  Which keys    *)
(* are queued is not kept: events, rate-limited retries and the ten-minute *)
(* resync may enqueue any key at any time.                                 *)
(***************************************************************************)
EXTENDS RunLedger

CONSTANTS
  Replicas,   \* operator processes
  Workers,    \* worker goroutines of all replicas
  ReplicaOf,  \* ReplicaOf[w]: the replica that worker w belongs to
  CRFirst,    \* runs triggered by a bare JobRun (Manual, Function triggers)
  NoRun,      \* the run of an idle worker
  MaxUID,     \* bound: Kubernetes Jobs ever created
  MaxFaults   \* bound: failed calls and crashes

ASSUME ReconcilerAssumption ==
  /\ ReplicaOf \in [Workers -> Replicas]
  /\ CRFirst \subseteq Runs
  /\ NoRun \notin Runs
  /\ MaxUID \in Nat
  /\ MaxFaults \in Nat

VARIABLES
  cr,         \* cr[r]: the JobRun of r: absent, active, or with spec.cancelRequested
  crStatus,   \* crStatus[r]: the finished phase the JobRun's status shows, or "open"
  job,        \* job[r][n]: the Kubernetes Job of attempt n of r
  uids,       \* UIDs the API server has handed out
  cachedCR,   \* cachedCR[p][r]: the JobRun as replica p's informer last saw it
  cachedJob,  \* cachedJob[p][r][n]: UID and status of the Job as replica p's informer last saw it
  worker,     \* worker[w]: what worker w is doing
  outcomes,   \* outcomes[r]: how often a finish of r was handed to the outcome hooks
  faults      \* failed calls and crashes so far

clusterVars == <<cr, crStatus, job, uids>>
cacheVars == <<cachedCR, cachedJob>>
vars == <<run, attemptRow, cr, crStatus, job, uids, cachedCR, cachedJob,
          worker, outcomes, faults>>

CRStates == {"absent", "active", "cancel"}
JobStatus == {"Absent", "Pending", "Running", "Succeeded", "Failed"}
Deletion == {"none", "recent", "overdue"}  \* overdue: older than cancelConfirmTimeout
CRStatus == {"open", "Succeeded", "Failed", "Canceled"}
JobObject == [uid : Nat, status : JobStatus, deletion : Deletion]
NoJob == [uid |-> NoUID, status |-> "Absent", deletion |-> "none"]
JobSnapshot == [uid : Nat, status : JobStatus]
Snapshot(j) == [uid |-> j.uid, status |-> j.status]

Steps == {"idle", "materialize", "failRun", "ensureJob", "createAttempt",
          "cancelPending", "requestCancel", "deleteJob", "observeDeletion",
          "cancelUnknown", "closeAttempt", "closeRun",
          "observeRun", "report", "patch"}

(* A worker's local state: the step it is at, its key (kind, run and, for a
   Job, attempt n), and the values it read earlier and still holds. *)
Task == [pc : Steps, kind : {"none", "jobruns", "jobs"}, run : Runs \cup {NoRun},
         n : 0 .. MaxAttempts + 1, phase : Phases \cup {NoRow}, uid : Nat,
         cancel : BOOLEAN]
Idle == [pc |-> "idle", kind |-> "none", run |-> NoRun, n |-> 0,
         phase |-> NoRow, uid |-> NoUID, cancel |-> FALSE]

TypeOK ==
  /\ LedgerTypeOK
  /\ cr \in [Runs -> CRStates]
  /\ crStatus \in [Runs -> CRStatus]
  /\ job \in [Runs -> [AttemptNumbers -> JobObject]]
  /\ uids \in Nat
  /\ cachedCR \in [Replicas -> [Runs -> CRStates]]
  /\ cachedJob \in [Replicas -> [Runs -> [AttemptNumbers -> JobSnapshot]]]
  /\ worker \in [Workers -> Task]
  /\ outcomes \in [Runs -> Nat]
  /\ faults \in Nat

Init ==
  /\ LedgerInit
  /\ cr = [r \in Runs |-> "absent"]
  /\ crStatus = [r \in Runs |-> "open"]
  /\ job = [r \in Runs |-> [n \in AttemptNumbers |-> NoJob]]
  /\ uids = 0
  /\ cachedCR = [p \in Replicas |-> [r \in Runs |-> "absent"]]
  /\ cachedJob = [p \in Replicas |-> [r \in Runs |-> [n \in AttemptNumbers |-> Snapshot(NoJob)]]]
  /\ worker = [w \in Workers |-> Idle]
  /\ outcomes = [r \in Runs |-> 0]
  /\ faults = 0

-----------------------------------------------------------------------------
(* Worker plumbing. *)

Exists(j) == j.status # "Absent"
Live(j) == j.status \in {"Pending", "Running"}

JobRunTask(pc, r, phase, n) ==
  [pc |-> pc, kind |-> "jobruns", run |-> r, n |-> n, phase |-> phase,
   uid |-> NoUID, cancel |-> FALSE]
JobTask(pc, r, phase, n) ==
  [pc |-> pc, kind |-> "jobs", run |-> r, n |-> n, phase |-> phase,
   uid |-> NoUID, cancel |-> FALSE]
MaterializeTask(r, cancel) ==
  [pc |-> "materialize", kind |-> "jobruns", run |-> r, n |-> 0, phase |-> NoRow,
   uid |-> NoUID, cancel |-> cancel]
CreateAttemptTask(r, n, uid) ==
  [pc |-> "createAttempt", kind |-> "jobruns", run |-> r, n |-> n, phase |-> "Running",
   uid |-> uid, cancel |-> FALSE]

Goto(w, task) == worker' = [worker EXCEPT ![w] = task]

\* The workqueue hands a key to one worker of a replica at a time.
Claimed(w, task) ==
  \E v \in Workers \ {w} :
    /\ ReplicaOf[v] = ReplicaOf[w]
    /\ worker[v].kind = task.kind
    /\ worker[v].run = task.run
    /\ task.kind = "jobs" => worker[v].n = task.n

\* A handler is given the cached object, and reads the API server on a miss.
SeenCR(w, r) ==
  IF cachedCR[ReplicaOf[w]][r] # "absent" THEN cachedCR[ReplicaOf[w]][r] ELSE cr[r]
SeenJob(w, r, n) ==
  IF Exists(cachedJob[ReplicaOf[w]][r][n]) THEN cachedJob[ReplicaOf[w]][r][n]
  ELSE Snapshot(job[r][n])

-----------------------------------------------------------------------------
(* ReconcileJobRun. *)

\* Broken: a cancellation is not taken up again where it was left.
CancelTaskNoResume(r, stored) ==
  IF stored.attempt = 0 THEN JobRunTask("cancelPending", r, "Canceled", 0)
  ELSE IF CanTransition(stored.phase, "CancelRequested")
    THEN JobRunTask("requestCancel", r, "CancelRequested", stored.attempt)
  ELSE Idle

\* reconcileCancellation up to its first call that writes.
CancelTask(r, stored) ==
  IF stored.attempt = 0 THEN JobRunTask("cancelPending", r, "Canceled", 0)
  ELSE IF stored.phase = "CancelRequested"
    THEN JobRunTask("deleteJob", r, "CancelRequested", stored.attempt)
  ELSE IF CanTransition(stored.phase, "CancelRequested")
    THEN JobRunTask("requestCancel", r, "CancelRequested", stored.attempt)
  ELSE Idle

\* Broken: nothing is left to do for a finished run.
DecisionSkipsFinished(r, stored, cancel) ==
  IF Terminal(stored.phase) THEN Idle
  ELSE IF stored.phase = "CancelRequested" \/ cancel THEN CancelTask(r, stored)
  ELSE IF AttemptInFlight(stored.phase, stored.attempt)
    THEN JobRunTask("patch", r, stored.phase, stored.attempt)
  ELSE IF CanStartAttempt(stored.phase, stored.attempt, MaxAttempts)
    THEN JobRunTask("ensureJob", r, stored.phase, stored.attempt)
  ELSE IF CanTransition(stored.phase, "Failed")
    THEN JobRunTask("failRun", r, "Failed", stored.attempt)
  ELSE Idle

\* What ReconcileJobRun goes on to do with the stored run it read.
Decision(r, stored, cancel) ==
  IF Terminal(stored.phase) THEN JobRunTask("patch", r, stored.phase, stored.attempt)
  ELSE IF stored.phase = "CancelRequested" \/ cancel THEN CancelTask(r, stored)
  ELSE IF AttemptInFlight(stored.phase, stored.attempt)
    THEN JobRunTask("patch", r, stored.phase, stored.attempt)
  ELSE IF CanStartAttempt(stored.phase, stored.attempt, MaxAttempts)
    THEN JobRunTask("ensureJob", r, stored.phase, stored.attempt)
  ELSE IF CanTransition(stored.phase, "Failed")
    THEN JobRunTask("failRun", r, "Failed", stored.attempt)
  ELSE Idle

(* Take the JobRun's key and read its row.  A run without a row is created
   from its JobRun when the trigger is a CR-first one, and dropped otherwise. *)
ReconcileJobRun(w, r) ==
  LET cancel == SeenCR(w, r) = "cancel" IN
  /\ worker[w].pc = "idle"
  /\ SeenCR(w, r) # "absent"
  /\ ~Claimed(w, JobRunTask("patch", r, NoRow, 0))
  /\ \/ HasRun(r) /\ Goto(w, Decision(r, run[r], cancel))
     \/ ~HasRun(r) /\ r \in CRFirst /\ Goto(w, MaterializeTask(r, cancel))
  /\ UNCHANGED <<ledgerVars, clusterVars, cacheVars, outcomes, faults>>

MaterializeManualRun(w) ==
  LET t == worker[w] IN
  /\ t.pc = "materialize"
  /\ CreateOccurrence(t.run)
  /\ Goto(w, Decision(t.run, OccurrenceRow(t.run), t.cancel))
  /\ UNCHANGED <<clusterVars, cacheVars, outcomes, faults>>

(* Jobs.Ensure: adopt the Job of that name or create it.  Get, Create and the
   Get after a lost create race linearize as one get-or-create. *)
EnsureJob(w) ==
  LET t == worker[w]
      n == NextAttempt(t.n) IN
  /\ t.pc = "ensureJob"
  /\ \/ /\ Exists(job[t.run][n])
        /\ Goto(w, CreateAttemptTask(t.run, n, job[t.run][n].uid))
        /\ UNCHANGED <<job, uids>>
     \/ /\ ~Exists(job[t.run][n])
        /\ uids < MaxUID
        /\ uids' = uids + 1
        /\ job' = [job EXCEPT ![t.run][n] =
                     [uid |-> uids + 1, status |-> "Pending", deletion |-> "none"]]
        /\ Goto(w, CreateAttemptTask(t.run, n, uids + 1))
  /\ UNCHANGED <<ledgerVars, cr, crStatus, cacheVars, outcomes, faults>>

RecordAttempt(w) ==
  LET t == worker[w] IN
  /\ t.pc = "createAttempt"
  /\ CreateAttempt(t.run, t.n, t.uid, "Running")
  /\ Goto(w, IF CreateAttemptAccepted(t.run, t.n, t.uid)
             THEN JobRunTask("patch", t.run, "Running", t.n)
             ELSE Idle)
  /\ UNCHANGED <<clusterVars, cacheVars, outcomes, faults>>

(* Write the phase and counter in hand; go on to "next", by way of the outcome
   hooks when this write finished the run. *)
WritePhase(w, next) ==
  LET t == worker[w] IN
  /\ UpdateRunPhase(t.run, t.phase, t.n)
  /\ Goto(w, IF PhaseWriteRefused(t.run, t.phase, t.n) THEN Idle
             ELSE IF PhaseChanged(t.run, t.phase) /\ Terminal(t.phase)
                  THEN [t EXCEPT !.pc = "report"]
             ELSE next)
  /\ UNCHANGED <<clusterVars, cacheVars, outcomes, faults>>

\* The attempt budget is spent.
FailRun(w) ==
  /\ worker[w].pc = "failRun"
  /\ WritePhase(w, [worker[w] EXCEPT !.pc = "patch"])

\* The hooks write read models and metrics; the JobRun's status comes after.
ReportOutcome(w) ==
  LET t == worker[w] IN
  /\ t.pc = "report"
  /\ outcomes' = [outcomes EXCEPT ![t.run] = @ + 1]
  /\ Goto(w, IF t.kind = "jobruns" THEN [t EXCEPT !.pc = "patch"] ELSE Idle)
  /\ UNCHANGED <<ledgerVars, clusterVars, cacheVars, faults>>

\* The status is a projection of the stored run the worker has in hand.
StatusOf(phase) == IF Terminal(phase) THEN phase ELSE "open"

PatchRunStatus(w) ==
  LET t == worker[w] IN
  /\ t.pc = "patch"
  /\ crStatus' = IF cr[t.run] = "absent" THEN crStatus
                 ELSE [crStatus EXCEPT ![t.run] = StatusOf(t.phase)]
  /\ Goto(w, Idle)
  /\ UNCHANGED <<ledgerVars, cr, job, uids, cacheVars, outcomes, faults>>

-----------------------------------------------------------------------------
(* reconcileCancellation. *)

\* Nothing was ever started: the stop is recorded at once.
CancelPending(w) ==
  /\ worker[w].pc = "cancelPending"
  /\ WritePhase(w, [worker[w] EXCEPT !.pc = "patch"])

RequestCancel(w) ==
  /\ worker[w].pc = "requestCancel"
  /\ WritePhase(w, [worker[w] EXCEPT !.pc = "deleteJob"])

DeleteJob(w) ==
  LET t == worker[w] IN
  /\ t.pc = "deleteJob"
  /\ job' = IF job[t.run][t.n].deletion = "none" /\ Exists(job[t.run][t.n])
            THEN [job EXCEPT ![t.run][t.n].deletion = "recent"]
            ELSE job
  /\ Goto(w, [t EXCEPT !.pc = "observeDeletion"])
  /\ UNCHANGED <<ledgerVars, cr, crStatus, uids, cacheVars, outcomes, faults>>

ObserveDeletion(w) ==
  LET t == worker[w]
      j == job[t.run][t.n] IN
  /\ t.pc = "observeDeletion"
  /\ \/ ~Exists(j) /\ Goto(w, JobRunTask("closeAttempt", t.run, "Canceled", t.n))
     \/ /\ Exists(j) /\ j.deletion = "overdue"
        /\ Goto(w, JobRunTask("cancelUnknown", t.run, "CancelUnknown", t.n))
     \/ Exists(j) /\ j.deletion # "overdue" /\ Goto(w, [t EXCEPT !.pc = "patch"])
  /\ UNCHANGED <<ledgerVars, clusterVars, cacheVars, outcomes, faults>>

RecordCancelUnknown(w) ==
  /\ worker[w].pc = "cancelUnknown"
  /\ WritePhase(w, [worker[w] EXCEPT !.pc = "patch"])

CloseAttempt(w) ==
  LET t == worker[w] IN
  /\ t.pc = "closeAttempt"
  /\ UpdateAttemptPhase(t.run, t.n, "Canceled", NoUID)
  /\ Goto(w, IF HasAttempt(t.run, t.n) THEN [t EXCEPT !.pc = "closeRun"] ELSE Idle)
  /\ UNCHANGED <<clusterVars, cacheVars, outcomes, faults>>

CloseRun(w) ==
  /\ worker[w].pc = "closeRun"
  /\ WritePhase(w, [worker[w] EXCEPT !.pc = "patch"])

-----------------------------------------------------------------------------
(* ReconcileJob: an observed Job moves its attempt, then its run. *)

\* Broken: a Job without active Pods has failed.
ExecutionMapInactive(status) ==
  CASE status = "Succeeded" -> "Succeeded"
    [] status = "Running"   -> "Running"
    [] OTHER                -> "RetryWaiting"

ExecutionMapToRunPhase(status) ==
  CASE status = "Succeeded" -> "Succeeded"
    [] status = "Failed"    -> "RetryWaiting"
    [] status = "Running"   -> "Running"
    [] OTHER                -> "CreatingAttempt"

ReconcileJob(w, r, n) ==
  LET seen  == SeenJob(w, r, n)
      phase == ExecutionMapToRunPhase(seen.status)
      task  == JobTask("observeRun", r, phase, n) IN
  /\ worker[w].pc = "idle"
  /\ Exists(seen)
  /\ ~Claimed(w, task)
  /\ UpdateAttemptPhase(r, n, phase, seen.uid)
  /\ Goto(w, IF OwnsAttempt(r, n, phase, seen.uid) THEN task ELSE Idle)
  /\ UNCHANGED <<clusterVars, cacheVars, outcomes, faults>>

ObserveRun(w) ==
  /\ worker[w].pc = "observeRun"
  /\ WritePhase(w, Idle)

-----------------------------------------------------------------------------
(* The actors around the reconcilers. *)

\* The scheduler commits the row of an occurrence, then publishes its JobRun;
\* repairOpenRuns publishes again when the scheduler stopped in between.
RecordOccurrence(r) ==
  /\ r \notin CRFirst
  /\ ~HasRun(r)
  /\ CreateOccurrence(r)
  /\ UNCHANGED <<clusterVars, cacheVars, worker, outcomes, faults>>

PublishRun(r) ==
  /\ Open(r)
  /\ cr[r] = "absent"
  /\ cr' = [cr EXCEPT ![r] = "active"]
  /\ UNCHANGED <<ledgerVars, crStatus, job, uids, cacheVars, worker, outcomes, faults>>

\* A manual trigger or a function invocation creates a bare JobRun.
TriggerRun(r) ==
  /\ r \in CRFirst
  /\ cr[r] = "absent"
  /\ cr' = [cr EXCEPT ![r] = "active"]
  /\ UNCHANGED <<ledgerVars, crStatus, job, uids, cacheVars, worker, outcomes, faults>>

\* A stop is a patch of spec.cancelRequested, by the admin API, the workflow
\* walker or anyone who may write the resource; each read the run, if at all,
\* some time before.
RequestStop(r) ==
  /\ cr[r] = "active"
  /\ cr' = [cr EXCEPT ![r] = "cancel"]
  /\ UNCHANGED <<ledgerVars, crStatus, job, uids, cacheVars, worker, outcomes, faults>>

SetJob(r, n, j) ==
  /\ job' = [job EXCEPT ![r][n] = j]
  /\ UNCHANGED <<ledgerVars, cr, crStatus, uids, cacheVars, worker, outcomes, faults>>

\* The Job controller: Pods come and go until a terminal condition is set.
JobActive(r, n) ==
  /\ job[r][n].status = "Pending"
  /\ SetJob(r, n, [job[r][n] EXCEPT !.status = "Running"])

JobPodRetry(r, n) ==
  /\ job[r][n].status = "Running"
  /\ SetJob(r, n, [job[r][n] EXCEPT !.status = "Pending"])

JobFinish(r, n) ==
  /\ Live(job[r][n])
  /\ \E status \in {"Succeeded", "Failed"} : SetJob(r, n, [job[r][n] EXCEPT !.status = status])

\* The garbage collector removes a deleted Job, possibly long after the delete.
JobGone(r, n) ==
  /\ job[r][n].deletion # "none"
  /\ SetJob(r, n, NoJob)

DeletionOverdue(r, n) ==
  /\ job[r][n].deletion = "recent"
  /\ SetJob(r, n, [job[r][n] EXCEPT !.deletion = "overdue"])

\* Watch events reach the informer stores of a replica late and may be merged.
DeliverJobRun(p, r) ==
  /\ cachedCR[p][r] # cr[r]
  /\ cachedCR' = [cachedCR EXCEPT ![p][r] = cr[r]]
  /\ UNCHANGED <<ledgerVars, clusterVars, cachedJob, worker, outcomes, faults>>

DeliverJob(p, r, n) ==
  /\ cachedJob[p][r][n] # Snapshot(job[r][n])
  /\ cachedJob' = [cachedJob EXCEPT ![p][r][n] = Snapshot(job[r][n])]
  /\ UNCHANGED <<ledgerVars, clusterVars, cachedCR, worker, outcomes, faults>>

\* A call fails, panics or exceeds the reconcile budget: the key is requeued.
FailCall(w) ==
  /\ worker[w].pc # "idle"
  /\ faults < MaxFaults
  /\ faults' = faults + 1
  /\ Goto(w, Idle)
  /\ UNCHANGED <<ledgerVars, clusterVars, cacheVars, outcomes>>

\* A replica restarts: its workers are gone and its informers list afresh.
Restart(p) ==
  /\ faults < MaxFaults
  /\ faults' = faults + 1
  /\ worker' = [w \in Workers |-> IF ReplicaOf[w] = p THEN Idle ELSE worker[w]]
  /\ cachedCR' = [cachedCR EXCEPT ![p] = cr]
  /\ cachedJob' = [cachedJob EXCEPT ![p] =
                     [r \in Runs |-> [n \in AttemptNumbers |-> Snapshot(job[r][n])]]]
  /\ UNCHANGED <<ledgerVars, clusterVars, outcomes>>

-----------------------------------------------------------------------------
\* The rest of a reconcile once its key was taken.
Continue(w) ==
  \/ MaterializeManualRun(w) \/ EnsureJob(w) \/ RecordAttempt(w) \/ FailRun(w)
  \/ CancelPending(w) \/ RequestCancel(w) \/ DeleteJob(w) \/ ObserveDeletion(w)
  \/ RecordCancelUnknown(w) \/ CloseAttempt(w) \/ CloseRun(w)
  \/ ObserveRun(w) \/ ReportOutcome(w) \/ PatchRunStatus(w)

Next ==
  \/ \E w \in Workers : Continue(w) \/ FailCall(w)
  \/ \E w \in Workers, r \in Runs : ReconcileJobRun(w, r)
  \/ \E w \in Workers, r \in Runs, n \in AttemptNumbers : ReconcileJob(w, r, n)
  \/ \E r \in Runs : RecordOccurrence(r) \/ PublishRun(r) \/ TriggerRun(r) \/ RequestStop(r)
  \/ \E r \in Runs, n \in AttemptNumbers :
       JobActive(r, n) \/ JobPodRetry(r, n) \/ JobFinish(r, n) \/ JobGone(r, n) \/ DeletionOverdue(r, n)
  \/ \E p \in Replicas, r \in Runs : DeliverJobRun(p, r)
  \/ \E p \in Replicas, r \in Runs, n \in AttemptNumbers : DeliverJob(p, r, n)
  \/ \E p \in Replicas : Restart(p)

Spec == Init /\ [][Next]_vars

(* Fairness.  A worker does not stop half-way through a reconcile.  The queue
   is FIFO and the resync enqueues every key again and again, so a key that
   could be taken infinitely often is taken (strong fairness per replica and
   key).  Watch events arrive, the scheduler's repair publishes an open run,
   the cluster runs every Job to an end, and a deleted Job goes or overstays. *)
WorkersOf(p) == {w \in Workers : ReplicaOf[w] = p}

Fairness ==
  /\ \A w \in Workers : WF_vars(Continue(w))
  /\ \A p \in Replicas, r \in Runs :
       /\ SF_vars(\E w \in WorkersOf(p) : ReconcileJobRun(w, r))
       /\ WF_vars(DeliverJobRun(p, r))
  /\ \A p \in Replicas, r \in Runs, n \in AttemptNumbers :
       /\ SF_vars(\E w \in WorkersOf(p) : ReconcileJob(w, r, n))
       /\ WF_vars(DeliverJob(p, r, n))
  /\ \A r \in Runs : WF_vars(PublishRun(r))
  /\ \A r \in Runs, n \in AttemptNumbers :
       /\ WF_vars(JobFinish(r, n))
       /\ WF_vars(JobGone(r, n) \/ DeletionOverdue(r, n))

FairSpec == Spec /\ Fairness

-----------------------------------------------------------------------------
(* Safety, for any number of replicas. *)

(* Attempts happen in order and within the budget: the Job or the row of
   attempt n exists only when n is within max_attempts and every earlier
   attempt is on record, whatever crashed between Jobs.Ensure and
   CreateAttemptForTenant and however stale the run was that a worker read. *)
AttemptsInOrder ==
  \A r \in Runs : \A n \in AttemptNumbers :
    Exists(job[r][n]) \/ HasAttempt(r, n) =>
      n <= MaxAttempts /\ \A m \in 1 .. n - 1 : HasAttempt(r, m)

(* The counter is never ahead of the attempts table: no phase write, however
   late, makes the run claim an attempt the ledger has no row for. *)
CounterHasEvidence ==
  \A r \in Runs : \A n \in 1 .. run[r].attempt : HasAttempt(r, n)

(* A finish is handed to the outcome hooks at most once, and only for a run
   that is finished: two observers of one Job, a resync or a second replica
   never make recordOutcome and recordFunctionOutcome count a run twice. *)
OutcomeAtMostOnce ==
  \A r \in Runs : outcomes[r] <= 1 /\ (outcomes[r] = 1 => Terminal(run[r].phase))

(* A finished phase in the JobRun's status is the phase the ledger holds: no
   worker projects a finish that its phase write did not get. *)
StatusNeverLies ==
  \A r \in Runs : crStatus[r] # "open" => run[r].phase = crStatus[r]

(* A finished run is final: its row never changes again and no attempt is
   added to it, however late an observation of an old Job or a write of a
   stale worker lands. *)
FinishedIsFinal ==
  [][\A r \in Runs : Terminal(run[r].phase) =>
       /\ run'[r] = run[r]
       /\ \A n \in AttemptNumbers : HasAttempt(r, n)' = HasAttempt(r, n)]_vars

(* An attempt keeps the Job it was recorded with: a Job recreated under the
   same name never takes over the attempt's row. *)
AttemptKeepsItsJob ==
  [][\A r \in Runs : \A n \in AttemptNumbers :
       HasAttempt(r, n) => attemptRow'[r][n].uid = attemptRow[r][n].uid]_vars

(* The reconcilers keep what the ledger promises: seen through the run rows
   and the attempt rows, every step of every worker records a run, adds the
   next attempt, finishes the run once, or changes nothing. *)
Outcome(phase) ==
  IF phase = NoRow THEN "none" ELSE IF Terminal(phase) THEN phase ELSE "open"
outcomeBar == [r \in Runs |-> Outcome(run[r].phase)]
triedBar == [r \in Runs |-> {n \in AttemptNumbers : HasAttempt(r, n)}]

Promise == INSTANCE RunPromise WITH outcome <- outcomeBar, tried <- triedBar

KeepsPromise == Promise!PromiseSpec

(* The inductive invariant behind the properties above: what the values a
   worker read earlier still guarantee when it comes to use them, whatever
   the other workers did since. *)
Recorded(r, n) == \A m \in 1 .. n : HasAttempt(r, m)

JobHasUID == \A r \in Runs : \A n \in AttemptNumbers : Exists(job[r][n]) => job[r][n].uid # NoUID

RunningHasAttempt == \A r \in Runs : run[r].phase = "Running" => run[r].attempt >= 1

HandlesStartedRun == {"requestCancel", "deleteJob", "observeDeletion", "cancelUnknown",
                      "closeAttempt", "closeRun", "observeRun"}

TaskOK(t) ==
  /\ t.pc # "idle" => t.run \in Runs
  /\ t.pc = "ensureJob" => t.n < MaxAttempts /\ Recorded(t.run, t.n)
  /\ t.pc = "createAttempt" =>
       t.n \in 1 .. MaxAttempts /\ t.uid # NoUID /\ Recorded(t.run, t.n - 1)
  /\ t.pc = "failRun" => t.phase = "Failed" /\ t.n >= MaxAttempts /\ Recorded(t.run, t.n)
  /\ t.pc = "cancelPending" => t.phase = "Canceled" /\ t.n = 0
  /\ t.pc \in HandlesStartedRun => t.n >= 1 /\ Recorded(t.run, t.n)
  /\ t.pc \in HandlesStartedRun => t.phase # "Failed" /\ t.phase # NoRow
  /\ t.pc \in {"requestCancel", "deleteJob", "observeDeletion"} => t.phase = "CancelRequested"
  /\ t.pc = "report" =>
       Terminal(t.phase) /\ run[t.run].phase = t.phase /\ outcomes[t.run] = 0
  /\ t.pc = "patch" /\ Terminal(t.phase) => run[t.run].phase = t.phase

OneReporter ==
  \A v, w \in Workers : worker[v].pc = "report" /\ worker[w].pc = "report" /\ v # w
                          => worker[v].run # worker[w].run

IInv ==
  /\ TypeOK
  /\ AttemptsInOrder /\ CounterHasEvidence /\ JobHasUID /\ RunningHasAttempt
  /\ \A w \in Workers : TaskOK(worker[w])
  /\ OneReporter /\ OutcomeAtMostOnce /\ StatusNeverLies

-----------------------------------------------------------------------------
(* Safety of a single replica, which the chart deploys. *)

(* A Job is started only when every other Job of its run has failed or is
   gone: one occurrence is never executed twice at once and is not executed
   again after a success, although old Jobs are re-observed on every resync
   and rewind the run's phase and counter. *)
StartsOnlyAfterFailure ==
  [][\A r \in Runs : \A n \in AttemptNumbers :
       ~Exists(job[r][n]) /\ Exists(job'[r][n]) =>
         \A m \in AttemptNumbers \ {n} : job[r][m].status \in {"Absent", "Failed"}]_vars

(* At most one attempt of a run is recorded as succeeded. *)
OneSuccess ==
  \A r \in Runs : \A m, n \in AttemptNumbers :
    attemptRow[r][m].phase = "Succeeded" /\ attemptRow[r][n].phase = "Succeeded" => m = n

(* A run recorded as Succeeded or Failed has no Job at work any more. *)
OutcomeMeansQuiet ==
  \A r \in Runs : run[r].phase \in {"Succeeded", "Failed"} =>
    \A n \in AttemptNumbers : ~Live(job[r][n])

(* The inductive invariant behind them.  A replica that has seen the stop of a
   run cannot unsee it; until then none of its Jobs is deleted, so a Job that
   is on record or in a cache exists, is the only one its attempt ever had,
   and an observation of it, however old, is still true. *)
SingleReplica == \A p, q \in Replicas : p = q

StopSeen(r) == cr[r] = "cancel" /\ \A p \in Replicas : cachedCR[p][r] # "active"

Cached(r, n) == \E p \in Replicas : Exists(cachedJob[p][r][n])

Intact(r) ==
  \A n \in AttemptNumbers :
    /\ job[r][n].deletion = "none"
    /\ HasAttempt(r, n) \/ Cached(r, n) => Exists(job[r][n])

\* The Job of attempt n ended with this status, or is gone.
Ended(r, n, status) == job[r][n].status \in {"Absent", status}

Quiet(r) == \A n \in AttemptNumbers : ~Live(job[r][n])

\* What the caches and the attempt's row say of the Job's end is true.
Faithful(r, n) ==
  /\ \A p \in Replicas : \A s \in {"Succeeded", "Failed"} :
       cachedJob[p][r][n].status = s => Ended(r, n, s)
  /\ attemptRow[r][n].phase # "open" => HasAttempt(r, n)
  /\ attemptRow[r][n].phase = "Succeeded" => Ended(r, n, "Succeeded")

\* Attempt m did not succeed, and nobody holds an observation that it did.
GaveUp(r, m) ==
  /\ Ended(r, m, "Failed")
  /\ attemptRow[r][m].phase # "Succeeded"
  /\ \A p \in Replicas : cachedJob[p][r][m].status # "Succeeded"
  /\ \A w \in Workers :
       worker[w].pc = "observeRun" /\ worker[w].run = r /\ worker[w].n = m
         => worker[w].phase # "Succeeded"

Started(r, n) == Exists(job[r][n]) \/ HasAttempt(r, n) \/ Cached(r, n)

LaterOnlyAfterGivingUp(r) ==
  \A m, n \in AttemptNumbers : m < n /\ Started(r, n) => GaveUp(r, m)

StopsAreSeen(r) ==
  /\ ~Intact(r) => StopSeen(r)
  /\ \A p \in Replicas : cachedCR[p][r] = "cancel" => cr[r] = "cancel"

\* What the run's row says is true of its Jobs.
RowTells(r, row) ==
  /\ row.phase = "Pending" => row.attempt = 0
  /\ row.phase = "RetryWaiting" => row.attempt >= 1 /\ Ended(r, row.attempt, "Failed")
  /\ row.phase = "Succeeded" => row.attempt >= 1 /\ Ended(r, row.attempt, "Succeeded") /\ Quiet(r)
  /\ row.phase = "Failed" => row.attempt >= MaxAttempts /\ Quiet(r)
  /\ row.phase = "CancelRequested" => StopSeen(r)

StartSteps == {"ensureJob", "createAttempt"}
StopSteps == {"requestCancel", "deleteJob", "observeDeletion", "cancelUnknown",
              "closeAttempt", "closeRun"}

\* What the values in a worker's hands say is still true.
TaskTells(t) ==
  /\ t.pc = "idle" => t.kind = "none"
  /\ t.pc \in StartSteps \cup StopSteps \cup {"materialize", "failRun", "cancelPending"}
       => t.kind = "jobruns"
  /\ t.pc \in StartSteps => Intact(t.run)
  /\ t.pc = "ensureJob" => \A m \in 1 .. t.n : job[t.run][m].status = "Failed"
  /\ t.pc = "createAttempt" => Exists(job[t.run][t.n])
  /\ t.pc = "failRun" => Quiet(t.run)
  /\ t.pc \in StopSteps => StopSeen(t.run)
  /\ t.pc = "cancelUnknown" => t.phase = "CancelUnknown"
  /\ t.pc \in {"closeAttempt", "closeRun"} => t.phase = "Canceled"
  /\ t.pc = "materialize" => IF t.cancel THEN StopSeen(t.run) ELSE Intact(t.run)
  /\ t.pc = "observeRun" =>
       /\ t.phase \in {"CreatingAttempt", "Running", "RetryWaiting", "Succeeded"}
       /\ t.phase = "RetryWaiting" => Ended(t.run, t.n, "Failed")
       /\ t.phase = "Succeeded" => Ended(t.run, t.n, "Succeeded")

\* The workqueue of the only replica hands the key of a JobRun out once.
KeyHeldOnce ==
  \A v, w \in Workers :
    v # w /\ worker[v].kind = "jobruns" /\ worker[w].kind = "jobruns"
      => worker[v].run # worker[w].run

SInv ==
  /\ \A r \in Runs : StopsAreSeen(r) /\ RowTells(r, run[r]) /\ LaterOnlyAfterGivingUp(r)
  /\ \A r \in Runs : \A n \in AttemptNumbers : Faithful(r, n)
  /\ \A w \in Workers : TaskTells(worker[w])
  /\ KeyHeldOnce

-----------------------------------------------------------------------------
(* What comments in the code say and the code does not do. *)

(* cancel.go:22-23: a cancel of a started run is recorded only once its Job
   was observed gone. *)
CanceledMeansStopped ==
  \A r \in Runs : run[r].phase = "Canceled" /\ run[r].attempt > 0 =>
    \A n \in AttemptNumbers : ~Live(job[r][n])

(* runtime.go:47-50: every finish is handed to the outcome hooks exactly once. *)
OutcomeIsRecorded ==
  \A r \in Runs : run[r].phase \in {"Succeeded", "Failed"} ~> outcomes[r] = 1

-----------------------------------------------------------------------------
(* Liveness. *)

\* A phase write takes the counter back to an earlier attempt.
Rewind == \E r \in Runs : run'[r].attempt < run[r].attempt

(* A triggered run comes to an end, or to the undecided CancelUnknown: faults,
   lagging informers, a row without its JobRun, and a Job observed before its
   attempt was recorded only delay it. *)
RunFinishes ==
  \A r \in Runs :
    (cr[r] # "absent" \/ HasRun(r))
      ~> (Terminal(run[r].phase) \/ run[r].phase = "CancelUnknown")

(* With retries, re-observed old Jobs that rewind the run's counter for ever
   (UpdateRunPhase) are the only thing that keeps it from its end. *)
RunFinishesUnlessRewound == []<><<Rewind>>_vars \/ RunFinishes

(* The JobRun's status catches up with the ledger: for a finished run it comes
   to show the finish, and keeps showing it. *)
StatusCatchesUp ==
  \A r \in Runs : Terminal(run[r].phase) ~> [](crStatus[r] = run[r].phase)

=============================================================================
