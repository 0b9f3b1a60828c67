------------------------ MODULE SingleReplicaSteps ------------------------
(***************************************************************************)
(* The steps of one replica that create no Job: each one that works on a   *)
(* run's row or attempt rows keeps the single-replica invariant SInv.  The *)
(* other steps and the theorems are in SingleReplicaProofs.                *)
(***************************************************************************)
EXTENDS RunReconcilerProofs

(* Facts of a state that a step keeps. *)

\* The Jobs of r do not come back, and one that ended keeps its status.
JobsAge(r) ==
  \A n \in AttemptNumbers :
    /\ Exists(job'[r][n]) => Exists(job[r][n])
    /\ \A s \in {"Succeeded", "Failed"} : Ended(r, n, s) => Ended(r, n, s)'

\* The Jobs of a run without a deletion stay.
JobsStay(r) ==
  Intact(r) => \A n \in AttemptNumbers : Exists(job[r][n]) => Exists(job'[r][n])

StopStays(r) == StopSeen(r) => StopSeen(r)'

\* The task relies on no Job of its run having been deleted.
NeedsJobs(t) == t.pc \in StartSteps \/ (t.pc = "materialize" /\ ~t.cancel)

\* A worker about to start an attempt relies on a run none of whose Jobs was
\* deleted, and on being the only one with the run's key.
LEMMA TaskRelies ==
  ASSUME IInv, SInv, NEW v \in Workers, NeedsJobs(worker[v])
  PROVE  worker[v].run \in Runs /\ worker[v].kind = "jobruns" /\ Intact(worker[v].run)
<1>1. PICK t \in Task : t = worker[v]
  BY Zenon DEF IInv, TypeOK
<1>2. TaskOK(t) /\ TaskTells(t) /\ NeedsJobs(t) /\ t.cancel \in BOOLEAN
  BY <1>1, Zenon DEF IInv, SInv, Task
<1>3. t.run \in Runs /\ t.kind = "jobruns"
  BY <1>2, Zenon DEF TaskOK, TaskTells, NeedsJobs, StartSteps
<1>4. Intact(t.run)
  BY <1>2, Zenon DEF TaskTells, NeedsJobs
<1> QED
  BY <1>1, <1>3, <1>4, Zenon

\* A Job that is not at work does not go back to work.
LEMMA QuietKept ==
  ASSUME TypeOK, TypeOK', NEW r \in Runs, JobsAge(r), Quiet(r)
  PROVE  Quiet(r)'
<1> SUFFICES ASSUME NEW n \in AttemptNumbers PROVE ~Live(job'[r][n])
  BY Zenon DEF Quiet
<1>1. job[r][n].status \in JobStatus /\ job'[r][n].status \in JobStatus
  BY Zenon DEF TypeOK, JobObject
<1>2. job[r][n].status \in {"Absent", "Succeeded", "Failed"}
  BY <1>1, Zenon DEF Quiet, Live, JobStatus
<1>3. job'[r][n].status \in {"Absent", "Succeeded", "Failed"}
  BY <1>2, Zenon DEF JobsAge, Ended
<1> QED
  BY <1>3, Zenon DEF Live

\* What a row says of the Jobs stays true.
LEMMA RowKept ==
  ASSUME TypeOK, TypeOK', NEW r \in Runs, NEW row \in RunRow, RowTells(r, row),
         row.attempt \in 1 .. MaxAttempts + 1 \/ row.attempt = 0,
         JobsAge(r), StopStays(r)
  PROVE  RowTells(r, row)'
<1>1. Quiet(r) => Quiet(r)'
  BY QuietKept, Zenon
<1>2. ASSUME NEW s \in {"Succeeded", "Failed"}, row.attempt >= 1, Ended(r, row.attempt, s)
      PROVE  Ended(r, row.attempt, s)'
  BY <1>2 DEF JobsAge, AttemptNumbers
<1> QED
  BY <1>1, <1>2, Zenon DEF RowTells, StopStays

\* What a task says of the Jobs stays true.
LEMMA TaskStaysTrue ==
  ASSUME TypeOK, TypeOK', NEW t \in Task, TaskOK(t), TaskTells(t), t.pc # "idle",
         JobsAge(t.run), JobsStay(t.run), StopStays(t.run),
         NeedsJobs(t) => Intact(t.run)'
  PROVE  TaskTells(t)'
<1>1. t.run \in Runs /\ t.n \in 0 .. MaxAttempts + 1 /\ t.cancel \in BOOLEAN
  BY Zenon DEF TaskOK, Task
<1>2. t.pc \in StartSteps => Intact(t.run)'
  BY Zenon DEF NeedsJobs
<1>3. ASSUME t.pc = "ensureJob", NEW m \in 1 .. t.n PROVE job'[t.run][m].status = "Failed"
  <2>1. m \in AttemptNumbers
    BY <1>1, MaxAttemptsAssumption DEF AttemptNumbers
  <2>2. job[t.run][m].status = "Failed" /\ Intact(t.run)
    BY <1>3, Zenon DEF TaskTells, StartSteps
  <2>3. job'[t.run][m].status \in {"Absent", "Failed"}
    BY <1>1, <2>1, <2>2, Zenon DEF JobsAge, Ended
  <2>4. Exists(job'[t.run][m])
    BY <1>1, <2>1, <2>2, Zenon DEF JobsStay, Exists
  <2> QED
    BY <2>3, <2>4, Zenon DEF Exists
<1>4. ASSUME t.pc = "createAttempt" PROVE Exists(job'[t.run][t.n])
  <2>1. t.n \in AttemptNumbers
    BY <1>4, CreateAttemptHolds, Zenon
  <2> QED
    BY <1>4, <2>1, Zenon DEF TaskTells, StartSteps, JobsStay
<1>5. t.pc = "failRun" => Quiet(t.run)'
  BY <1>1, QuietKept, Zenon DEF TaskTells
<1>6. t.pc \in StopSteps => StopSeen(t.run)'
  BY Zenon DEF TaskTells, StopStays
<1>7. t.pc = "materialize" => IF t.cancel THEN StopSeen(t.run)' ELSE Intact(t.run)'
  BY <1>1, Zenon DEF TaskTells, StopStays, NeedsJobs
<1>8. ASSUME t.pc = "observeRun", NEW s \in {"Succeeded", "Failed"}, Ended(t.run, t.n, s)
      PROVE  Ended(t.run, t.n, s)'
  <2>1. t.n \in AttemptNumbers
    BY <1>1, <1>8 DEF TaskOK, HandlesStartedRun, AttemptNumbers
  <2> QED
    BY <1>1, <1>8, <2>1, Zenon DEF JobsAge
<1> QED
  BY <1>2, <1>3, <1>4, <1>5, <1>6, <1>7, <1>8, Zenon DEF TaskTells

(* An idle worker says nothing. *)
LEMMA IdleTells == TaskTells(Idle)
BY Zenon DEF TaskTells, Idle, StartSteps, StopSteps

(* The step that creates no Job: it suffices to look at what changed. *)
LEMMA StepKeeps ==
  ASSUME IInv, SInv, TypeOK',
         \A r \in Runs : JobsAge(r) /\ JobsStay(r) /\ StopStays(r) /\ StopsAreSeen(r)',
         \A r \in Runs : run'[r] = run[r] \/ RowTells(r, run'[r]),
         \A r \in Runs : \A n \in AttemptNumbers :
           /\ Faithful(r, n)'
           /\ Started(r, n)' => Started(r, n)
           /\ GaveUp(r, n) => GaveUp(r, n)',
         \A v \in Workers :
           \/ /\ worker'[v] = worker[v]
              /\ NeedsJobs(worker[v]) => Intact(worker[v].run)'
           \/ TaskTells(worker[v])',
         KeyHeldOnce'
  PROVE  SInv'
<1>1. ASSUME NEW r \in Runs PROVE RowTells(r, run[r])'
  <2>1. run'[r] \in RunRow /\ run'[r].attempt \in 0 .. MaxAttempts + 1
    BY Zenon DEF TypeOK, LedgerTypeOK, RunRow
  <2>2. RowTells(r, run'[r])
    BY Zenon DEF SInv
  <2>3. PICK row \in RunRow : row = run'[r]
    BY <2>1, Zenon
  <2>4. RowTells(r, row)'
    BY <2>1, <2>2, <2>3, RowKept, MaxAttemptsAssumption DEF IInv
  <2> QED
    BY <2>3, <2>4, Zenon DEF RowTells
<1>2. ASSUME NEW r \in Runs PROVE LaterOnlyAfterGivingUp(r)'
  BY Zenon DEF SInv, LaterOnlyAfterGivingUp
<1>3. ASSUME NEW v \in Workers PROVE TaskTells(worker[v])'
  <2> SUFFICES ASSUME worker'[v] = worker[v], NeedsJobs(worker[v]) => Intact(worker[v].run)'
               PROVE  TaskTells(worker[v])'
    BY Zenon
  <2>1. PICK t \in Task : t = worker[v]
    BY Zenon DEF IInv, TypeOK
  <2>2. TaskOK(t) /\ TaskTells(t)
    BY <2>1, Zenon DEF IInv, SInv
  <2>3. CASE t.pc = "idle"
    BY <2>1, <2>2, <2>3, Zenon DEF TaskTells, StartSteps, StopSteps
  <2>4. CASE t.pc # "idle"
    <3>1. t.run \in Runs
      BY <2>2, <2>4, Zenon DEF TaskOK
    <3>2. TaskTells(t)'
      BY <2>1, <2>2, <2>4, <3>1, TaskStaysTrue, Zenon DEF IInv
    <3> QED
      BY <2>1, <3>2 DEF TaskTells
  <2> QED
    BY <2>3, <2>4, Zenon
<1> QED
  BY <1>1, <1>2, <1>3, Zenon DEF SInv

-----------------------------------------------------------------------------
(* Steps that change no Job, attempt row, JobRun or cache. *)

\* What such a step leaves alone.
LEMMA Unmoved ==
  ASSUME SInv, UNCHANGED <<job, attemptRow, cachedJob, cachedCR, cr>>
  PROVE  /\ \A r \in Runs : JobsAge(r) /\ JobsStay(r) /\ StopStays(r) /\ StopsAreSeen(r)'
         /\ \A r \in Runs : Intact(r)' = Intact(r)
         /\ \A r \in Runs : \A n \in AttemptNumbers :
              Faithful(r, n)' /\ (Started(r, n)' => Started(r, n))
<1>1. \A r : Intact(r)' = Intact(r) /\ StopSeen(r)' = StopSeen(r)
  BY DEF Intact, StopSeen, HasAttempt, Cached
<1>2. \A r, n, s : Ended(r, n, s)' = Ended(r, n, s)
  BY Zenon DEF Ended
<1>3. \A r \in Runs : JobsAge(r) /\ JobsStay(r) /\ StopStays(r)
  BY <1>1, <1>2, Zenon DEF JobsAge, JobsStay, StopStays
<1>4. \A r \in Runs : StopsAreSeen(r)'
  BY <1>1, Zenon DEF SInv, StopsAreSeen
<1>5. \A r \in Runs : \A n \in AttemptNumbers : Faithful(r, n)'
  BY <1>2 DEF SInv, Faithful, HasAttempt
<1>6. \A r \in Runs : \A n \in AttemptNumbers : Started(r, n)' => Started(r, n)
  BY Zenon DEF Started, HasAttempt, Cached
<1> QED
  BY <1>1, <1>3, <1>4, <1>5, <1>6, Zenon

\* The next task of a worker holds no key that another worker holds.
KeyFree(w, next) ==
  next.kind = "jobruns" =>
    \A v \in Workers \ {w} : worker[v].kind = "jobruns" => worker[v].run # next.run

\* A worker that goes on with its key, or drops it, holds no other's key.
LEMMA KeepsKey ==
  ASSUME SInv, NEW w \in Workers, NEW next \in Task,
         next.kind = "jobruns" => worker[w].kind = "jobruns" /\ worker[w].run = next.run
  PROVE  KeyFree(w, next)
BY Zenon DEF SInv, KeyHeldOnce, KeyFree

\* A worker that keeps its key, or takes one nobody holds, leaves every key of
\* the workqueue with one worker.
LEMMA KeysKept ==
  ASSUME IInv, SInv, NEW w \in Workers, NEW next \in Task, KeyFree(w, next),
         worker' = [worker EXCEPT ![w] = next]
  PROVE  KeyHeldOnce'
<1>1. \A v \in Workers : worker'[v] = IF v = w THEN next ELSE worker[v]
  BY Zenon DEF IInv, TypeOK
<1> QED
  BY <1>1 DEF SInv, KeyHeldOnce, KeyFree

\* A worker that takes up no observation keeps what is known of failed attempts.
LEMMA GaveUpKept ==
  ASSUME NEW r \in Runs, NEW m \in AttemptNumbers, GaveUp(r, m),
         Ended(r, m, "Failed") => Ended(r, m, "Failed")',
         attemptRow'[r][m].phase = "Succeeded" => attemptRow[r][m].phase = "Succeeded",
         \A p \in Replicas : cachedJob'[p][r][m].status = "Succeeded"
                               => cachedJob[p][r][m].status = "Succeeded",
         \A v \in Workers : worker'[v] = worker[v] \/ worker'[v].pc # "observeRun"
  PROVE  GaveUp(r, m)'
BY Zenon DEF GaveUp

\* A worker's step that leaves Jobs and caches alone: it suffices to look at
\* the row it wrote and at the task it holds next.
LEMMA WorkerStep ==
  ASSUME IInv, SInv, TypeOK', UNCHANGED <<job, attemptRow, cachedJob, cachedCR, cr>>,
         \A r \in Runs : run'[r] = run[r] \/ RowTells(r, run'[r]),
         NEW w \in Workers, NEW next \in Task, worker' = [worker EXCEPT ![w] = next],
         TaskTells(next), next.pc # "observeRun", KeyFree(w, next)
  PROVE  SInv'
<1>1. \A v \in Workers : worker'[v] = IF v = w THEN next ELSE worker[v]
  BY Zenon DEF IInv, TypeOK
<1>2. /\ \A r \in Runs : JobsAge(r) /\ JobsStay(r) /\ StopStays(r) /\ StopsAreSeen(r)'
      /\ \A r \in Runs : Intact(r)' = Intact(r)
      /\ \A r \in Runs : \A n \in AttemptNumbers :
           Faithful(r, n)' /\ (Started(r, n)' => Started(r, n))
  BY Unmoved, Zenon
<1>3. ASSUME NEW r \in Runs, NEW n \in AttemptNumbers, GaveUp(r, n) PROVE GaveUp(r, n)'
  BY <1>1, <1>3, GaveUpKept, Zenon DEF Ended
<1>4. TaskTells(worker[w])'
  <2>1. TaskTells(next)'
    BY DEF TaskTells, Intact, HasAttempt, Cached, Quiet, Ended, StopSeen
  <2> QED
    BY <1>1, <2>1 DEF TaskTells
<1>5. ASSUME NEW v \in Workers
      PROVE  \/ worker'[v] = worker[v] /\ (NeedsJobs(worker[v]) => Intact(worker[v].run)')
             \/ TaskTells(worker[v])'
  <2>1. CASE v = w
    BY <1>4, <2>1, Zenon
  <2>2. CASE v # w
    BY <1>1, <1>2, <2>2, TaskRelies, Zenon DEF SInv
  <2> QED
    BY <2>1, <2>2, Zenon
<1>6. KeyHeldOnce'
  BY KeysKept, Zenon
<1> QED
  BY <1>2, <1>3, <1>5, <1>6, StepKeeps, Zenon

(* ReconcileJobRun's decision about a row it read is true of the Jobs: it
   starts an attempt only when all recorded ones failed, gives the run up only
   when no Job is at work, and stops only what it was told to stop. *)
LEMMA DecisionTells ==
  ASSUME IInv, SInv, NEW r \in Runs, NEW stored \in RunRow, stored.phase # NoRow,
         RowTells(r, stored), Recorded(r, stored.attempt),
         stored.phase = "Running" => stored.attempt >= 1,
         NEW cancel \in BOOLEAN, cancel => StopSeen(r), ~cancel => Intact(r)
  PROVE  /\ TaskTells(Decision(r, stored, cancel))
         /\ Decision(r, stored, cancel).pc # "observeRun"
         /\ Decision(r, stored, cancel).kind = "jobruns" => Decision(r, stored, cancel).run = r
<1> DEFINE d == Decision(r, stored, cancel)
           n == stored.attempt
           rest == {m \in AttemptNumbers : m < n}
<1>1. n \in 0 .. MaxAttempts + 1 /\ stored.phase \in Phases
  BY Zenon DEF RunRow
<1>2. \/ d = Idle
      \/ d = JobRunTask("patch", r, stored.phase, n)
      \/ d = JobRunTask("cancelPending", r, "Canceled", 0)
      \/ /\ stored.phase = "CancelRequested" \/ cancel
         /\ \/ d = JobRunTask("deleteJob", r, "CancelRequested", n)
            \/ d = JobRunTask("requestCancel", r, "CancelRequested", n)
      \/ /\ stored.phase \in {"Pending", "RetryWaiting"} /\ ~cancel
         /\ d = JobRunTask("ensureJob", r, stored.phase, n)
      \/ /\ stored.phase = "RetryWaiting" /\ n >= MaxAttempts
         /\ d = JobRunTask("failRun", r, "Failed", n)
  <2>1. CancelTask(r, stored) \in
          {Idle, JobRunTask("cancelPending", r, "Canceled", 0),
           JobRunTask("deleteJob", r, "CancelRequested", n),
           JobRunTask("requestCancel", r, "CancelRequested", n)}
    BY Zenon DEF CancelTask
  <2>2. CanStartAttempt(stored.phase, n, MaxAttempts) => stored.phase \in {"Pending", "RetryWaiting"}
    BY Zenon DEF CanStartAttempt
  <2>3. ~AttemptInFlight(stored.phase, n) /\ ~CanStartAttempt(stored.phase, n, MaxAttempts)
          /\ CanTransition(stored.phase, "Failed")
        => stored.phase = "RetryWaiting" /\ n >= MaxAttempts
    BY <1>1, MaxAttemptsAssumption
       DEF AttemptInFlight, CanStartAttempt, NextAttempt, CanTransition, Successors, Phases
  <2> QED
    BY <2>1, <2>2, <2>3, Zenon DEF Decision
<1>3. ASSUME stored.phase = "RetryWaiting", NEW m \in 1 .. n PROVE Ended(r, m, "Failed")
  <2>1. n >= 1 /\ Ended(r, n, "Failed") /\ n \in AttemptNumbers /\ m \in AttemptNumbers
    BY <1>1, <1>3, MaxAttemptsAssumption DEF RowTells, AttemptNumbers
  <2>2. CASE m < n
    <3>1. Started(r, n)
      BY <1>1, <2>1 DEF Recorded, Started
    <3> QED
      BY <2>1, <2>2, <3>1, Zenon DEF SInv, LaterOnlyAfterGivingUp, GaveUp
  <2> QED
    BY <1>1, <2>1, <2>2
<1>4. ASSUME stored.phase \in {"Pending", "RetryWaiting"}, ~cancel, NEW m \in 1 .. n
      PROVE  job[r][m].status = "Failed"
  <2>1. m \in AttemptNumbers /\ HasAttempt(r, m) /\ Intact(r)
    BY <1>1, <1>4, MaxAttemptsAssumption DEF Recorded, AttemptNumbers
  <2>2. stored.phase = "RetryWaiting"
    BY <1>1, <1>4 DEF RowTells
  <2> QED
    BY <1>3, <2>1, <2>2, Zenon DEF Intact, Exists, Ended
<1>5. ASSUME stored.phase = "RetryWaiting", n >= MaxAttempts PROVE Quiet(r)
  <2> SUFFICES ASSUME NEW m \in AttemptNumbers PROVE ~Live(job[r][m])
    BY Zenon DEF Quiet
  <2>1. CASE m <= MaxAttempts
    <3>1. m \in 1 .. n
      BY <1>1, <1>5, <2>1, MaxAttemptsAssumption DEF AttemptNumbers
    <3> QED
      BY <1>3, <1>5, <3>1, Zenon DEF Ended, Live
  <2>2. CASE ~(m <= MaxAttempts)
    BY <2>2, Zenon DEF IInv, AttemptsInOrder, Exists, Live
  <2> QED
    BY <2>1, <2>2, Zenon
<1> HIDE DEF d
<1>6. d.pc # "observeRun" /\ (d.kind = "jobruns" => d.run = r)
  BY <1>2 DEF JobRunTask, Idle
<1>7. stored.phase = "CancelRequested" \/ cancel => StopSeen(r)
  BY Zenon DEF RowTells
<1>8. TaskTells(d)
  <2>1. CASE d = Idle
    BY <2>1, IdleTells, Zenon
  <2>2. CASE d = JobRunTask("patch", r, stored.phase, n)
    BY <2>2, Zenon DEF JobRunTask, TaskTells, StartSteps, StopSteps
  <2>3. CASE d = JobRunTask("cancelPending", r, "Canceled", 0)
    BY <2>3, Zenon DEF JobRunTask, TaskTells, StartSteps, StopSteps
  <2>4. CASE /\ stored.phase = "CancelRequested" \/ cancel
             /\ \/ d = JobRunTask("deleteJob", r, "CancelRequested", n)
                \/ d = JobRunTask("requestCancel", r, "CancelRequested", n)
    BY <1>7, <2>4 DEF JobRunTask, TaskTells, StartSteps, StopSteps
  <2>5. CASE /\ stored.phase \in {"Pending", "RetryWaiting"} /\ ~cancel
             /\ d = JobRunTask("ensureJob", r, stored.phase, n)
    BY <1>4, <2>5, Zenon DEF JobRunTask, TaskTells, StartSteps, StopSteps
  <2>6. CASE /\ stored.phase = "RetryWaiting" /\ n >= MaxAttempts
             /\ d = JobRunTask("failRun", r, "Failed", n)
    BY <1>5, <2>6, Zenon DEF JobRunTask, TaskTells, StartSteps, StopSteps
  <2> QED
    BY <1>2, <2>1, <2>2, <2>3, <2>4, <2>5, <2>6, Zenon
<1> QED
  BY <1>6, <1>8, Zenon DEF d

\* Without a row the stored run is a new one, of which nothing was started.
LEMMA StoredTells ==
  ASSUME IInv, SInv, NEW r \in Runs
  PROVE  /\ OccurrenceRow(r) \in RunRow /\ OccurrenceRow(r).phase # NoRow
         /\ RowTells(r, OccurrenceRow(r)) /\ Recorded(r, OccurrenceRow(r).attempt)
         /\ OccurrenceRow(r).phase = "Running" => OccurrenceRow(r).attempt >= 1
<1>1. run[r] \in RunRow
  BY Zenon DEF IInv, TypeOK, LedgerTypeOK
<1>2. CASE HasRun(r)
  <2>1. OccurrenceRow(r) = run[r]
    BY <1>2, Zenon DEF OccurrenceRow
  <2> QED
    BY <1>1, <1>2, <2>1, Zenon DEF HasRun, SInv, IInv, CounterHasEvidence, Recorded, RunningHasAttempt
<1>3. CASE ~HasRun(r)
  <2>1. OccurrenceRow(r) = [phase |-> "Pending", attempt |-> 0]
    BY <1>3, Zenon DEF OccurrenceRow
  <2> QED
    BY <2>1, MaxAttemptsAssumption DEF RunRow, Phases, NoRow, RowTells, Recorded
<1> QED
  BY <1>2, <1>3, Zenon

\* What the replica sees of the stop when it takes the key of a JobRun.
LEMMA SeenStop ==
  ASSUME IInv, SInv, SingleReplica, NEW w \in Workers, NEW r \in Runs, SeenCR(w, r) # "absent"
  PROVE  /\ SeenCR(w, r) = "cancel" => StopSeen(r)
         /\ SeenCR(w, r) # "cancel" => Intact(r)
<1>1. ReplicaOf[w] \in Replicas /\ \A p \in Replicas : p = ReplicaOf[w]
  BY ReconcilerAssumption, Zenon DEF SingleReplica
<1>2. cr[r] \in CRStates /\ cachedCR[ReplicaOf[w]][r] \in CRStates
  BY <1>1 DEF IInv, TypeOK
<1>3. cachedCR[ReplicaOf[w]][r] = "cancel" => cr[r] = "cancel"
  BY <1>1, Zenon DEF SInv, StopsAreSeen
<1>4. StopSeen(r) <=> cr[r] = "cancel" /\ cachedCR[ReplicaOf[w]][r] # "active"
  BY <1>1, Zenon DEF StopSeen
<1>5. SeenCR(w, r) = "cancel" <=> StopSeen(r)
  BY <1>2, <1>3, <1>4, Zenon DEF SeenCR, CRStates
<1> QED
  BY <1>5, Zenon DEF SInv, StopsAreSeen

\* ReconcileJobRun keeps the invariant.
LEMMA ReconcileJobRunTells ==
  ASSUME IInv, SInv, SingleReplica, TypeOK', NEW w \in Workers, NEW r \in Runs,
         ReconcileJobRun(w, r)
  PROVE  SInv'
<1>1. PICK c \in BOOLEAN : c = (SeenCR(w, r) = "cancel")
  BY Zenon
<1>2. (c => StopSeen(r)) /\ (~c => Intact(r))
  BY <1>1, SeenStop, Zenon DEF ReconcileJobRun
<1>3. \A v \in Workers \ {w} : worker[v].kind = "jobruns" => worker[v].run # r
  <2>1. \A v \in Workers : ReplicaOf[v] = ReplicaOf[w]
    BY ReconcilerAssumption, Zenon DEF SingleReplica
  <2>2. ~Claimed(w, JobRunTask("patch", r, NoRow, 0))
    BY Zenon DEF ReconcileJobRun
  <2> QED
    BY <2>1, <2>2, Zenon DEF Claimed, JobRunTask
<1>4. UNCHANGED <<run, job, attemptRow, cachedJob, cachedCR, cr>>
  BY Zenon DEF ReconcileJobRun, ledgerVars, clusterVars, cacheVars
<1>5. CASE HasRun(r) /\ Goto(w, Decision(r, run[r], SeenCR(w, r) = "cancel"))
  <2>1. PICK stored \in RunRow : stored = run[r]
    BY Zenon DEF IInv, TypeOK, LedgerTypeOK
  <2>2. /\ stored.phase # NoRow /\ RowTells(r, stored) /\ Recorded(r, stored.attempt)
        /\ stored.phase = "Running" => stored.attempt >= 1
    BY <1>5, <2>1, Zenon DEF HasRun, SInv, IInv, CounterHasEvidence, Recorded, RunningHasAttempt
  <2>3. PICK next \in Task : next = Decision(r, stored, c)
    BY DecisionType, Zenon
  <2>4. TaskTells(next) /\ next.pc # "observeRun" /\ (next.kind = "jobruns" => next.run = r)
    BY <1>2, <2>2, <2>3, DecisionTells, Zenon
  <2>5. worker' = [worker EXCEPT ![w] = next]
    BY <1>1, <1>5, <2>1, <2>3, Zenon DEF Goto
  <2>6. KeyFree(w, next)
    BY <1>3, <2>4, Zenon DEF KeyFree
  <2> QED
    BY <1>4, <2>4, <2>5, <2>6, WorkerStep, Zenon
<1>6. CASE Goto(w, MaterializeTask(r, SeenCR(w, r) = "cancel"))
  <2>1. PICK next \in Task : next = MaterializeTask(r, c)
    BY MaterializeTaskType, Zenon
  <2>2. TaskTells(next) /\ next.pc # "observeRun" /\ next.run = r
    <3>1. /\ next.pc = "materialize" /\ next.kind = "jobruns" /\ next.run = r /\ next.cancel = c
      BY <2>1, Zenon DEF MaterializeTask
    <3>2. IF next.cancel THEN StopSeen(next.run) ELSE Intact(next.run)
      BY <1>2, <3>1, Zenon
    <3> QED
      BY <3>1, <3>2, Zenon DEF TaskTells, StartSteps, StopSteps
  <2>3. worker' = [worker EXCEPT ![w] = next]
    BY <1>1, <1>6, <2>1, Zenon DEF Goto
  <2>4. KeyFree(w, next)
    BY <1>3, <2>2, Zenon DEF KeyFree
  <2> QED
    BY <1>4, <2>2, <2>3, <2>4, WorkerStep, Zenon
<1> QED
  BY <1>5, <1>6, Zenon DEF ReconcileJobRun

\* materializeManualRun keeps the invariant.
LEMMA MaterializeTells ==
  ASSUME IInv, SInv, TypeOK', NEW w \in Workers, MaterializeManualRun(w)
  PROVE  SInv'
<1>0. PICK t \in Task : t = worker[w]
  BY Zenon DEF IInv, TypeOK
<1>1. /\ t.run \in Runs /\ t.cancel \in BOOLEAN /\ t.pc = "materialize" /\ t.kind = "jobruns"
      /\ t.cancel => StopSeen(t.run)
      /\ ~t.cancel => Intact(t.run)
  <2>1. TaskOK(t) /\ TaskTells(t) /\ t.pc = "materialize"
    BY <1>0, Zenon DEF IInv, SInv, MaterializeManualRun
  <2>2. t.run \in Runs /\ t.cancel \in BOOLEAN
    BY <2>1, Zenon DEF TaskOK, Task
  <2> QED
    BY <2>1, <2>2, Zenon DEF TaskTells
<1>2. PICK stored \in RunRow : stored = OccurrenceRow(t.run)
  BY <1>1, StoredTells, Zenon
<1>3. /\ stored.phase # NoRow /\ RowTells(t.run, stored) /\ Recorded(t.run, stored.attempt)
      /\ stored.phase = "Running" => stored.attempt >= 1
  BY <1>1, <1>2, StoredTells, Zenon
<1>4. PICK next \in Task : next = Decision(t.run, stored, t.cancel)
  BY <1>1, DecisionType, Zenon
<1>5. TaskTells(next) /\ next.pc # "observeRun" /\ (next.kind = "jobruns" => next.run = t.run)
  BY <1>1, <1>3, <1>4, DecisionTells, Zenon
<1>6. /\ UNCHANGED <<job, attemptRow, cachedJob, cachedCR, cr>>
      /\ run' = [run EXCEPT ![t.run] = stored]
      /\ worker' = [worker EXCEPT ![w] = next]
  BY <1>0, <1>2, <1>4, Zenon DEF MaterializeManualRun, CreateOccurrence, Goto, clusterVars, cacheVars
<1>7. \A r \in Runs : run'[r] = run[r] \/ RowTells(r, run'[r])
  BY <1>1, <1>3, <1>6, Zenon DEF IInv, TypeOK, LedgerTypeOK
<1>8. KeyFree(w, next)
  BY <1>0, <1>1, <1>5, KeepsKey, Zenon
<1> QED
  BY <1>5, <1>6, <1>7, <1>8, WorkerStep, Zenon

\* A worker at one of the last two steps relies on nothing.
LEMMA LastStepsTell ==
  ASSUME NEW t \in Task, NEW pc \in {"report", "patch"}
  PROVE  /\ [t EXCEPT !.pc = pc] \in Task /\ TaskTells([t EXCEPT !.pc = pc])
         /\ [t EXCEPT !.pc = pc].pc = pc
         /\ [t EXCEPT !.pc = pc].kind = t.kind /\ [t EXCEPT !.pc = pc].run = t.run
<1>1. PICK u \in Task : u = [t EXCEPT !.pc = pc]
  BY Zenon DEF Task, Steps
<1>2. u.pc = pc /\ u.kind = t.kind /\ u.run = t.run
  BY <1>1, Zenon DEF Task
<1>3. TaskTells(u)
  BY <1>2, Zenon DEF TaskTells, StartSteps, StopSteps
<1> QED
  BY <1>1, <1>2, <1>3, Zenon

\* A write of a phase that is true of the Jobs keeps the invariant.
LEMMA WritePhaseTells ==
  ASSUME IInv, SInv, TypeOK', NEW w \in Workers, NEW t \in Task, t = worker[w], t.run \in Runs,
         RowTells(t.run, [phase |-> t.phase, attempt |-> t.n]),
         NEW next \in Task, TaskTells(next), next.pc # "observeRun",
         next.kind = "jobruns" => t.kind = "jobruns" /\ next.run = t.run,
         WritePhase(w, next)
  PROVE  SInv'
<1>1. /\ UNCHANGED <<job, attemptRow, cachedJob, cachedCR, cr>>
      /\ run' = run \/ run' = [run EXCEPT ![t.run] = [phase |-> t.phase, attempt |-> t.n]]
  BY Zenon DEF WritePhase, UpdateRunPhase, clusterVars, cacheVars
<1>2. \A r \in Runs : run'[r] = run[r] \/ RowTells(r, run'[r])
  BY <1>1, Zenon DEF IInv, TypeOK, LedgerTypeOK
<1>3. PICK u \in Task : /\ worker' = [worker EXCEPT ![w] = u]
                        /\ u \in {Idle, next, [t EXCEPT !.pc = "report"]}
  BY LastStepsTell, IdleType, Zenon DEF WritePhase, Goto
<1>4. TaskTells(u) /\ u.pc # "observeRun"
      /\ (u.kind = "jobruns" => t.kind = "jobruns" /\ t.run = u.run)
  <2>1. CASE u = Idle
    BY <2>1, IdleTells, Zenon DEF Idle
  <2>2. CASE u = next
    BY <2>2, Zenon
  <2>3. CASE u = [t EXCEPT !.pc = "report"]
    <3>1. /\ TaskTells([t EXCEPT !.pc = "report"]) /\ [t EXCEPT !.pc = "report"].pc = "report"
          /\ [t EXCEPT !.pc = "report"].kind = t.kind /\ [t EXCEPT !.pc = "report"].run = t.run
      BY LastStepsTell, Zenon
    <3> QED
      BY <2>3, <3>1, Zenon
  <2> QED
    BY <1>3, <2>1, <2>2, <2>3, Zenon
<1>5. KeyFree(w, u)
  BY <1>4, KeepsKey, Zenon
<1> QED
  BY <1>1, <1>2, <1>3, <1>4, <1>5, WorkerStep, Zenon

\* An observed success is that of the last attempt: no Job is at work.
LEMMA SuccessIsQuiet ==
  ASSUME IInv, SInv, NEW w \in Workers, NEW t \in Task, t = worker[w],
         t.pc = "observeRun", t.phase = "Succeeded"
  PROVE  Ended(t.run, t.n, "Succeeded") /\ Quiet(t.run)
<1>1. /\ t.run \in Runs /\ t.n \in AttemptNumbers /\ HasAttempt(t.run, t.n)
      /\ Ended(t.run, t.n, "Succeeded")
  <2>1. TaskOK(t) /\ TaskTells(t) /\ t.n \in 0 .. MaxAttempts + 1
    BY Zenon DEF IInv, SInv, Task
  <2>2. t.run \in Runs /\ t.n >= 1 /\ Recorded(t.run, t.n)
    BY <2>1, Zenon DEF TaskOK, HandlesStartedRun
  <2>3. Ended(t.run, t.n, "Succeeded")
    BY <2>1, Zenon DEF TaskTells
  <2> QED
    BY <2>1, <2>2, <2>3, MaxAttemptsAssumption DEF Recorded, AttemptNumbers
<1>2. ASSUME NEW m \in AttemptNumbers, Live(job[t.run][m]) PROVE FALSE
  <2>1. CASE m < t.n
    BY <1>1, <1>2, <2>1, Zenon DEF SInv, LaterOnlyAfterGivingUp, Started, GaveUp, Ended, Live
  <2>2. CASE t.n < m
    <3>1. Started(t.run, m)
      BY <1>2, Zenon DEF Started, Exists, Live
    <3>2. GaveUp(t.run, t.n)
      BY <1>1, <2>2, <3>1, Zenon DEF SInv, LaterOnlyAfterGivingUp
    <3> QED
      BY <3>2, Zenon DEF GaveUp
  <2>3. CASE m = t.n
    BY <1>1, <1>2, <2>3, Zenon DEF Ended, Live
  <2> QED
    BY <1>1, <2>1, <2>2, <2>3, MaxAttemptsAssumption DEF AttemptNumbers
<1> QED
  BY <1>1, <1>2, Zenon DEF Quiet

\* The steps that write a run's phase keep the invariant.
LEMMA PhaseWritesTell ==
  ASSUME IInv, SInv, TypeOK', NEW w \in Workers,
         FailRun(w) \/ CancelPending(w) \/ RequestCancel(w) \/ RecordCancelUnknown(w)
           \/ CloseRun(w) \/ ObserveRun(w)
  PROVE  SInv'
<1>0. PICK t \in Task : t = worker[w]
  BY Zenon DEF IInv, TypeOK
<1> DEFINE row == [phase |-> t.phase, attempt |-> t.n]
           patch == [t EXCEPT !.pc = "patch"]
<1>1. TaskOK(t) /\ TaskTells(t)
  BY <1>0, Zenon DEF IInv, SInv
<1>2. row.phase = t.phase /\ row.attempt = t.n
  BY Zenon
<1>3. /\ patch \in Task /\ TaskTells(patch) /\ patch.pc # "observeRun"
      /\ patch.kind = "jobruns" => t.kind = "jobruns" /\ patch.run = t.run
  BY LastStepsTell, Zenon
<1> HIDE DEF patch, row
<1>4. ASSUME t.pc # "idle", RowTells(t.run, row), WritePhase(w, patch) PROVE SInv'
  BY <1>0, <1>1, <1>3, <1>4, WritePhaseTells, Zenon DEF TaskOK, row
<1>5. CASE FailRun(w)
  <2>1. t.pc = "failRun" /\ WritePhase(w, patch)
    BY <1>0, <1>5, Zenon DEF FailRun, patch
  <2>2. t.phase = "Failed" /\ t.n >= MaxAttempts /\ Quiet(t.run)
    BY <1>1, <2>1, Zenon DEF TaskOK, TaskTells
  <2> QED
    BY <1>2, <1>4, <2>1, <2>2, Zenon DEF RowTells
<1>6. CASE CancelPending(w) \/ RecordCancelUnknown(w) \/ CloseRun(w)
  <2>1. t.pc \in {"cancelPending", "cancelUnknown", "closeRun"} /\ WritePhase(w, patch)
    BY <1>0, <1>6, Zenon DEF CancelPending, RecordCancelUnknown, CloseRun, patch
  <2>2. t.phase \in {"Canceled", "CancelUnknown"}
    BY <1>1, <2>1, Zenon DEF TaskOK, TaskTells
  <2> QED
    BY <1>2, <1>4, <2>1, <2>2, Zenon DEF RowTells
<1>7. CASE RequestCancel(w)
  <2>1. t.pc = "requestCancel" /\ WritePhase(w, [t EXCEPT !.pc = "deleteJob"])
    BY <1>0, <1>7, Zenon DEF RequestCancel
  <2>2. t.phase = "CancelRequested" /\ StopSeen(t.run) /\ t.run \in Runs /\ t.kind = "jobruns"
    BY <1>1, <2>1, Zenon DEF TaskOK, TaskTells, StopSteps
  <2>3. PICK next \in Task : next = [t EXCEPT !.pc = "deleteJob"]
    BY Zenon DEF Task, Steps
  <2>4. next.pc = "deleteJob" /\ next.kind = "jobruns" /\ next.run = t.run
    BY <2>2, <2>3, Zenon DEF Task
  <2>5. TaskTells(next)
    BY <2>2, <2>4, Zenon DEF TaskTells, StartSteps, StopSteps
  <2>6. RowTells(t.run, row)
    BY <1>2, <2>2, Zenon DEF RowTells
  <2> QED
    BY <1>0, <2>1, <2>2, <2>3, <2>4, <2>5, <2>6, WritePhaseTells, Zenon DEF row
<1>8. CASE ObserveRun(w)
  <2>1. t.pc = "observeRun" /\ WritePhase(w, Idle)
    BY <1>0, <1>8, Zenon DEF ObserveRun
  <2>2. /\ t.run \in Runs /\ t.n >= 1
        /\ t.phase \in {"CreatingAttempt", "Running", "RetryWaiting", "Succeeded"}
        /\ t.phase = "RetryWaiting" => Ended(t.run, t.n, "Failed")
    BY <1>1, <2>1, Zenon DEF TaskOK, TaskTells, HandlesStartedRun
  <2>3. t.phase = "Succeeded" => Ended(t.run, t.n, "Succeeded") /\ Quiet(t.run)
    BY <1>0, <2>1, SuccessIsQuiet, Zenon
  <2>4. RowTells(t.run, row)
    BY <1>2, <2>2, <2>3, Zenon DEF RowTells
  <2>5. Idle.pc # "observeRun" /\ Idle.kind # "jobruns"
    BY Zenon DEF Idle
  <2> QED
    BY <1>0, <2>1, <2>2, <2>4, <2>5, IdleType, IdleTells, WritePhaseTells, Zenon DEF row
<1> QED
  BY <1>5, <1>6, <1>7, <1>8, Zenon

\* The steps of a worker that write neither the ledger nor a Job.
LEMMA QuietStepsTell ==
  ASSUME IInv, SInv, TypeOK', NEW w \in Workers,
         ObserveDeletion(w) \/ ReportOutcome(w) \/ PatchRunStatus(w) \/ FailCall(w)
  PROVE  SInv'
<1>0. PICK t \in Task : t = worker[w]
  BY Zenon DEF IInv, TypeOK
<1>1. TaskOK(t) /\ TaskTells(t)
  BY <1>0, Zenon DEF IInv, SInv
<1>2. UNCHANGED <<run, job, attemptRow, cachedJob, cachedCR, cr>>
  BY Zenon DEF ObserveDeletion, ReportOutcome, PatchRunStatus, FailCall, ledgerVars, clusterVars, cacheVars
<1>3. ASSUME NEW next \in Task, worker' = [worker EXCEPT ![w] = next], TaskTells(next),
             next.pc # "observeRun", next.kind = "jobruns" => t.kind = "jobruns" /\ t.run = next.run
      PROVE  SInv'
  <2>1. KeyFree(w, next)
    BY <1>0, <1>3, KeepsKey, Zenon
  <2> QED
    BY <1>2, <1>3, <2>1, WorkerStep, Zenon
<1>4. Idle.pc # "observeRun" /\ Idle.kind # "jobruns"
  BY Zenon DEF Idle
<1>5. ASSUME worker' = [worker EXCEPT ![w] = Idle] PROVE SInv'
  BY <1>3, <1>4, <1>5, IdleType, IdleTells, Zenon
<1>6. ASSUME worker' = [worker EXCEPT ![w] = [t EXCEPT !.pc = "patch"]] PROVE SInv'
  <2>1. PICK next \in Task : next = [t EXCEPT !.pc = "patch"]
    BY LastStepsTell, Zenon
  <2>2. TaskTells(next) /\ next.pc = "patch" /\ next.kind = t.kind /\ next.run = t.run
    BY <2>1, LastStepsTell, Zenon
  <2> QED
    BY <1>3, <1>6, <2>1, <2>2, Zenon
<1>7. CASE PatchRunStatus(w) \/ FailCall(w)
  BY <1>5, <1>7, Zenon DEF PatchRunStatus, FailCall, Goto
<1>8. CASE ReportOutcome(w)
  BY <1>0, <1>5, <1>6, <1>8, Zenon DEF ReportOutcome, Goto
<1>9. CASE ObserveDeletion(w)
  <2>1. t.pc = "observeDeletion" /\ t.run \in Runs /\ t.kind = "jobruns" /\ StopSeen(t.run)
    BY <1>0, <1>1, <1>9, Zenon DEF ObserveDeletion, TaskOK, TaskTells, StopSteps
  <2>2. ASSUME NEW pc, NEW phase, worker' = [worker EXCEPT ![w] = JobRunTask(pc, t.run, phase, t.n)],
               \/ pc = "closeAttempt" /\ phase = "Canceled"
               \/ pc = "cancelUnknown" /\ phase = "CancelUnknown"
        PROVE  SInv'
    <3>0. pc \in Steps /\ phase \in Phases \cup {NoRow} /\ t.n \in 0 .. MaxAttempts + 1
      BY <2>2, Zenon DEF Task, Steps, Phases
    <3>1. PICK next \in Task : next = JobRunTask(pc, t.run, phase, t.n)
      BY <2>1, <3>0, TaskTypes, Zenon
    <3>2. next.pc = pc /\ next.phase = phase /\ next.kind = "jobruns" /\ next.run = t.run
      BY <3>1, Zenon DEF JobRunTask
    <3>3. TaskTells(next)
      BY <2>1, <2>2, <3>2, Zenon DEF TaskTells, StartSteps, StopSteps
    <3> QED
      BY <1>3, <2>1, <2>2, <3>1, <3>2, <3>3, Zenon
  <2> QED
    BY <1>0, <1>6, <1>9, <2>2, Zenon DEF ObserveDeletion, Goto
<1> QED
  BY <1>7, <1>8, <1>9, Zenon

\* The scheduler's CreateOccurrenceForTenant keeps the invariant.
LEMMA RecordOccurrenceTells ==
  ASSUME IInv, SInv, TypeOK', NEW r \in Runs, RecordOccurrence(r)
  PROVE  SInv'
<1>1. UNCHANGED <<job, attemptRow, cachedJob, cachedCR, cr, worker>>
  BY Zenon DEF RecordOccurrence, CreateOccurrence, clusterVars, cacheVars
<1>2. \A q \in Runs : run'[q] = run[q] \/ RowTells(q, run'[q])
  <2>1. run' = [run EXCEPT ![r] = OccurrenceRow(r)] /\ RowTells(r, OccurrenceRow(r))
    BY StoredTells, Zenon DEF RecordOccurrence, CreateOccurrence
  <2> QED
    BY <2>1, Zenon DEF IInv, TypeOK, LedgerTypeOK
<1>3. /\ \A q \in Runs : JobsAge(q) /\ JobsStay(q) /\ StopStays(q) /\ StopsAreSeen(q)'
      /\ \A q \in Runs : Intact(q)' = Intact(q)
      /\ \A q \in Runs : \A n \in AttemptNumbers :
           Faithful(q, n)' /\ (Started(q, n)' => Started(q, n))
  BY <1>1, Unmoved, Zenon
<1>4. \A q \in Runs : \A n \in AttemptNumbers : GaveUp(q, n) => GaveUp(q, n)'
  BY <1>1 DEF GaveUp, Ended
<1>5. \A v \in Workers : worker'[v] = worker[v] /\ (NeedsJobs(worker[v]) => Intact(worker[v].run)')
  BY <1>1, <1>3, TaskRelies, Zenon
<1>6. KeyHeldOnce'
  BY <1>1, Zenon DEF SInv, KeyHeldOnce
<1> QED
  BY <1>2, <1>3, <1>4, <1>5, <1>6, StepKeeps, Zenon

-----------------------------------------------------------------------------
(* Steps that write attempt rows. *)

(* A step that adds an attempt row only for a Job that exists, and closes one
   as succeeded only on the word of its Job. *)
LEMMA LedgerStep ==
  ASSUME IInv, SInv, TypeOK', UNCHANGED <<job, cachedJob, cachedCR, cr>>,
         \A r \in Runs : run'[r] = run[r] \/ RowTells(r, run'[r]),
         \A r \in Runs : \A n \in AttemptNumbers :
           /\ HasAttempt(r, n) => HasAttempt(r, n)'
           /\ HasAttempt(r, n)' => HasAttempt(r, n) \/ Exists(job[r][n])
           /\ \/ attemptRow'[r][n].phase = attemptRow[r][n].phase
              \/ attemptRow'[r][n].phase = "open"
              \/ /\ HasAttempt(r, n)
                 /\ attemptRow'[r][n].phase = "Succeeded"
                      => Ended(r, n, "Succeeded") /\ ~GaveUp(r, n),
         NEW w \in Workers, NEW next \in Task, worker' = [worker EXCEPT ![w] = next],
         TaskTells(next), ~NeedsJobs(next), KeyFree(w, next),
         next.pc = "observeRun" /\ next.phase = "Succeeded" => ~GaveUp(next.run, next.n)
  PROVE  SInv'
<1>1. \A v \in Workers : worker'[v] = IF v = w THEN next ELSE worker[v]
  BY Zenon DEF IInv, TypeOK
<1>2. \A r, n, s : Ended(r, n, s)' = Ended(r, n, s)
  BY Zenon DEF Ended
<1>3. \A r : StopSeen(r)' = StopSeen(r) /\ Quiet(r)' = Quiet(r)
  BY Zenon DEF StopSeen, Quiet
<1>4. \A r, n : Cached(r, n)' = Cached(r, n)
  BY Zenon DEF Cached
<1>5. \A r \in Runs : Intact(r) => Intact(r)'
  BY <1>4, Zenon DEF Intact
<1>6. \A r \in Runs : JobsAge(r) /\ JobsStay(r) /\ StopStays(r)
  BY <1>2, <1>3, Zenon DEF JobsAge, JobsStay, StopStays
<1>7. \A r \in Runs : StopsAreSeen(r)'
  BY <1>3, <1>5, Zenon DEF SInv, StopsAreSeen
<1>8. ASSUME NEW r \in Runs, NEW n \in AttemptNumbers
      PROVE  Faithful(r, n)' /\ (Started(r, n)' => Started(r, n))
  <2>1. Faithful(r, n)
    BY Zenon DEF SInv
  <2> QED
    BY <1>2, <1>4, <2>1, Zenon DEF Faithful, Started
<1>9. ASSUME NEW r \in Runs, NEW n \in AttemptNumbers, GaveUp(r, n) PROVE GaveUp(r, n)'
  <2>1. attemptRow'[r][n].phase # "Succeeded"
    BY <1>9 DEF GaveUp
  <2>2. ASSUME NEW v \in Workers, worker'[v].pc = "observeRun", worker'[v].run = r, worker'[v].n = n
        PROVE  worker'[v].phase # "Succeeded"
    BY <1>1, <1>9, <2>2, SMTT(20) DEF GaveUp
  <2> QED
    BY <1>2, <1>9, <2>1, <2>2, SMTT(20) DEF GaveUp
<1>10. TaskTells(worker[w])'
  <2>1. TaskTells(next)'
    BY <1>2, <1>3, Zenon DEF TaskTells, NeedsJobs, StartSteps, StopSteps
  <2> QED
    BY <1>1, <2>1 DEF TaskTells
<1>11. ASSUME NEW v \in Workers
       PROVE  \/ worker'[v] = worker[v] /\ (NeedsJobs(worker[v]) => Intact(worker[v].run)')
              \/ TaskTells(worker[v])'
  BY <1>1, <1>5, <1>10, TaskRelies, Zenon
<1>12. KeyHeldOnce'
  BY KeysKept, Zenon
<1> QED
  BY <1>6, <1>7, <1>8, <1>9, <1>11, <1>12, StepKeeps, Zenon

\* What UpdateAttemptPhase does to the phases of the attempts.
LEMMA AttemptPhaseEffect ==
  ASSUME IInv, NEW r \in Runs, NEW n \in AttemptNumbers, NEW phase, NEW uid,
         AttemptPhase(phase) \in AttemptPhases, UpdateAttemptPhase(r, n, phase, uid)
  PROVE  \A q \in Runs : \A m \in AttemptNumbers :
           /\ HasAttempt(q, m)' = HasAttempt(q, m)
           /\ \/ attemptRow'[q][m].phase = attemptRow[q][m].phase
              \/ /\ q = r /\ m = n /\ OwnsAttempt(r, n, phase, uid)
                 /\ attemptRow'[q][m].phase = AttemptPhase(phase)
<1> DEFINE row == [attemptRow[r][n] EXCEPT !.phase = AttemptPhase(phase)]
<1>1. attemptRow \in [Runs -> [AttemptNumbers -> AttemptRow]] /\ attemptRow[r][n] \in AttemptRow
  BY Zenon DEF IInv, TypeOK, LedgerTypeOK
<1>2. row \in AttemptRow /\ row.uid = attemptRow[r][n].uid
  BY <1>1, AttemptRowUpdate, Zenon
<1>3. row.phase = AttemptPhase(phase)
  BY <1>1, Zenon DEF AttemptRow
<1>4. \/ attemptRow' = attemptRow
      \/ OwnsAttempt(r, n, phase, uid) /\ attemptRow' = [attemptRow EXCEPT ![r][n] = row]
  BY <1>1, Zenon DEF UpdateAttemptPhase
<1> HIDE DEF row
<1> QED
  BY <1>1, <1>2, <1>3, <1>4, EntryUpdate DEF HasAttempt

\* Closing the attempt of a stopped Job keeps the invariant.
LEMMA CloseAttemptTells ==
  ASSUME IInv, SInv, TypeOK', NEW w \in Workers, CloseAttempt(w)
  PROVE  SInv'
<1>0. PICK t \in Task : t = worker[w]
  BY DEF IInv, TypeOK
<1>1. TaskOK(t) /\ TaskTells(t) /\ t.pc = "closeAttempt"
  BY <1>0, Zenon DEF IInv, SInv, CloseAttempt
<1>2. /\ t.run \in Runs /\ t.n \in AttemptNumbers /\ t.kind = "jobruns" /\ StopSeen(t.run)
      /\ t.phase = "Canceled"
  BY <1>1 DEF TaskOK, TaskTells, HandlesStartedRun, StopSteps, Task, AttemptNumbers
<1>3. UNCHANGED <<run, job, cachedJob, cachedCR, cr>> /\ UpdateAttemptPhase(t.run, t.n, "Canceled", NoUID)
  BY <1>0, Zenon DEF CloseAttempt, UpdateAttemptPhase, clusterVars, cacheVars
<1>4. \A r \in Runs : \A m \in AttemptNumbers :
        /\ HasAttempt(r, m)' = HasAttempt(r, m)
        /\ \/ attemptRow'[r][m].phase = attemptRow[r][m].phase
           \/ HasAttempt(r, m) /\ attemptRow'[r][m].phase = "Canceled"
  <2>1. AttemptPhase("Canceled") = "Canceled" /\ "Canceled" \in AttemptPhases
    BY Zenon DEF AttemptPhase, AttemptPhases
  <2> QED
    BY <1>2, <1>3, <2>1, AttemptPhaseEffect DEF OwnsAttempt
<1>5. PICK next \in Task : /\ worker' = [worker EXCEPT ![w] = next]
                           /\ next = Idle \/ next = [t EXCEPT !.pc = "closeRun"]
  BY <1>0, IdleType, Zenon DEF CloseAttempt, Goto, Task, Steps
<1>6. /\ TaskTells(next) /\ ~NeedsJobs(next) /\ next.pc # "observeRun"
      /\ next.kind = "jobruns" => next.run = t.run
  <2>1. CASE next = Idle
    BY <2>1, IdleTells, Zenon DEF Idle, NeedsJobs, StartSteps
  <2>2. CASE next = [t EXCEPT !.pc = "closeRun"]
    <3>1. next.pc = "closeRun" /\ next.run = t.run /\ next.kind = "jobruns" /\ next.phase = "Canceled"
      BY <1>2, <2>2, Zenon DEF Task
    <3> QED
      BY <1>2, <3>1, Zenon DEF TaskTells, NeedsJobs, StartSteps, StopSteps
  <2> QED
    BY <1>5, <2>1, <2>2, Zenon
<1>7. KeyFree(w, next)
  BY <1>0, <1>2, <1>6, KeepsKey, Zenon
<1> QED
  BY <1>3, <1>4, <1>5, <1>6, <1>7, LedgerStep, Zenon

\* CreateAttemptForTenant keeps the invariant: the Job it records exists.
LEMMA RecordAttemptTells ==
  ASSUME IInv, SInv, TypeOK', NEW w \in Workers, RecordAttempt(w)
  PROVE  SInv'
<1>0. PICK t \in Task : t = worker[w]
  BY DEF IInv, TypeOK
<1>1. TaskOK(t) /\ TaskTells(t) /\ t.pc = "createAttempt"
  BY <1>0, Zenon DEF IInv, SInv, RecordAttempt
<1>2. /\ t.run \in Runs /\ t.n \in AttemptNumbers /\ t.uid \in Nat /\ t.uid # NoUID
      /\ t.kind = "jobruns" /\ Exists(job[t.run][t.n])
  BY <1>1, CreateAttemptHolds, Zenon DEF TaskTells, StartSteps
<1>3. UNCHANGED <<job, cachedJob, cachedCR, cr>> /\ CreateAttempt(t.run, t.n, t.uid, "Running")
  BY <1>0, Zenon DEF RecordAttempt, clusterVars, cacheVars
<1>4. CASE ~CreateAttemptAccepted(t.run, t.n, t.uid)
  <2>1. UNCHANGED <<run, attemptRow>> /\ worker' = [worker EXCEPT ![w] = Idle]
    BY <1>0, <1>3, <1>4, Zenon DEF CreateAttempt, RecordAttempt, Goto, ledgerVars
  <2>2. KeyFree(w, Idle)
    BY Zenon DEF KeyFree, Idle
  <2>3. Idle.pc = "idle"
    BY Zenon DEF Idle
  <2> QED
    BY <1>3, <2>1, <2>2, <2>3, IdleType, IdleTells, WorkerStep, Zenon
<1>5. CASE CreateAttemptAccepted(t.run, t.n, t.uid)
  <2>1. \A r \in Runs : run'[r] = run[r] \/ RowTells(r, run'[r])
    <3>1. run' = [run EXCEPT ![t.run] = [phase |-> "Running", attempt |-> t.n]]
      BY <1>3, <1>5, Zenon DEF CreateAttempt
    <3>2. RowTells(t.run, [phase |-> "Running", attempt |-> t.n])
      BY Zenon DEF RowTells
    <3> QED
      BY <1>2, <3>1, <3>2, Zenon DEF IInv, TypeOK, LedgerTypeOK
  <2>2. /\ attemptRow'[t.run][t.n].uid = t.uid
        /\ \A r \in Runs : \A n \in AttemptNumbers :
             r # t.run \/ n # t.n => attemptRow'[r][n] = attemptRow[r][n]
    BY <1>2, <1>3, <1>5, CreateAttemptEffect, Zenon DEF IInv, TypeOK
  <2>3. \/ attemptRow'[t.run][t.n] = attemptRow[t.run][t.n]
        \/ attemptRow'[t.run][t.n].phase = "open"
    <3>1. HasAttempt(t.run, t.n) => attemptRow' = attemptRow
      BY <1>3, <1>5, Zenon DEF CreateAttempt
    <3>2. AttemptPhase("CreatingAttempt") = "open"
      BY Zenon DEF AttemptPhase
    <3>3. ~HasAttempt(t.run, t.n) =>
            attemptRow' = [attemptRow EXCEPT ![t.run][t.n] = [uid |-> t.uid, phase |-> "open"]]
      BY <1>3, <1>5, <3>2, Zenon DEF CreateAttempt
    <3>4. attemptRow \in [Runs -> [AttemptNumbers -> AttemptRow]]
      BY Zenon DEF IInv, TypeOK, LedgerTypeOK
    <3> QED
      BY <1>2, <3>1, <3>3, <3>4
  <2>4. \A r \in Runs : \A n \in AttemptNumbers :
          /\ HasAttempt(r, n) => HasAttempt(r, n)'
          /\ HasAttempt(r, n)' => HasAttempt(r, n) \/ Exists(job[r][n])
          /\ attemptRow'[r][n].phase = attemptRow[r][n].phase \/ attemptRow'[r][n].phase = "open"
    BY <1>2, <2>2, <2>3 DEF HasAttempt
  <2>5. PICK next \in Task : next = JobRunTask("patch", t.run, "Running", t.n)
    <3>1. "patch" \in Steps /\ "Running" \in Phases /\ t.n \in 0 .. MaxAttempts + 1
      BY Zenon DEF Steps, Phases, Task
    <3> QED
      BY <1>2, <3>1, TaskTypes, Zenon
  <2>6. worker' = [worker EXCEPT ![w] = next]
    BY <1>0, <1>5, <2>5, Zenon DEF RecordAttempt, Goto
  <2>7. next.pc = "patch" /\ next.kind = "jobruns" /\ next.run = t.run
    BY <2>5, Zenon DEF JobRunTask
  <2>8. TaskTells(next) /\ ~NeedsJobs(next)
    BY <2>7, Zenon DEF TaskTells, NeedsJobs, StartSteps, StopSteps
  <2>9. KeyFree(w, next)
    BY <1>0, <1>2, <2>7, KeepsKey, Zenon
  <2> QED
    BY <1>3, <2>1, <2>4, <2>6, <2>7, <2>8, <2>9, LedgerStep, Zenon
<1> QED
  BY <1>4, <1>5, Zenon


\* ReconcileJob keeps the invariant: what it saw of the Job, in its cache or
\* live, is still true, and it saw no success of an attempt that was given up.
LEMMA ReconcileJobTells ==
  ASSUME IInv, SInv, TypeOK', NEW w \in Workers, NEW r \in Runs, NEW n \in AttemptNumbers,
         ReconcileJob(w, r, n)
  PROVE  SInv'
<1> DEFINE seen == SeenJob(w, r, n)
           phase == ExecutionMapToRunPhase(seen.status)
<1>1. ReplicaOf[w] \in Replicas
  BY ReconcilerAssumption, Zenon
<1>2. /\ \A s \in {"Succeeded", "Failed"} : seen.status = s => Ended(r, n, s)
      /\ seen.status = "Succeeded" => ~GaveUp(r, n)
  <2>1. CASE Exists(cachedJob[ReplicaOf[w]][r][n])
    <3>1. seen = cachedJob[ReplicaOf[w]][r][n] /\ Faithful(r, n)
      BY <2>1, Zenon DEF SeenJob, SInv
    <3> QED
      BY <1>1, <3>1, Zenon DEF Faithful, GaveUp
  <2>2. CASE ~Exists(cachedJob[ReplicaOf[w]][r][n])
    <3>1. seen.status = job[r][n].status
      BY <2>2, Zenon DEF SeenJob, Snapshot
    <3> QED
      BY <3>1, Zenon DEF Ended, GaveUp
  <2> QED
    BY <2>1, <2>2, Zenon
<1>3. UNCHANGED <<run, job, cachedJob, cachedCR, cr>> /\ UpdateAttemptPhase(r, n, phase, seen.uid)
  BY Zenon DEF ReconcileJob, UpdateAttemptPhase, clusterVars, cacheVars
<1>4. \/ worker' = [worker EXCEPT ![w] = JobTask("observeRun", r, phase, n)]
      \/ worker' = [worker EXCEPT ![w] = Idle]
  BY Zenon DEF ReconcileJob, Goto
<1> HIDE DEF seen
<1>5. /\ phase \in {"CreatingAttempt", "Running", "RetryWaiting", "Succeeded"}
      /\ phase = "Succeeded" => seen.status = "Succeeded"
      /\ phase = "RetryWaiting" => seen.status = "Failed"
  BY Zenon DEF ExecutionMapToRunPhase
<1> HIDE DEF phase
<1>6. /\ AttemptPhase(phase) \in AttemptPhases
      /\ AttemptPhase(phase) = "Succeeded" => phase = "Succeeded"
  BY <1>5, Zenon DEF AttemptPhase, AttemptPhases
<1>7. \A q \in Runs : \A m \in AttemptNumbers :
        /\ HasAttempt(q, m)' = HasAttempt(q, m)
        /\ \/ attemptRow'[q][m].phase = attemptRow[q][m].phase
           \/ /\ HasAttempt(q, m)
              /\ attemptRow'[q][m].phase = "Succeeded"
                   => Ended(q, m, "Succeeded") /\ ~GaveUp(q, m)
  BY <1>2, <1>3, <1>5, <1>6, AttemptPhaseEffect DEF OwnsAttempt
<1>8. PICK next \in Task : /\ worker' = [worker EXCEPT ![w] = next]
                           /\ next = Idle \/ next = JobTask("observeRun", r, phase, n)
  <2>1. "observeRun" \in Steps /\ phase \in Phases /\ n \in 0 .. MaxAttempts + 1
    BY <1>5, MaxAttemptsAssumption DEF Steps, Phases, AttemptNumbers
  <2> QED
    BY <1>4, <2>1, IdleType, TaskTypes, Zenon
<1>9. /\ TaskTells(next) /\ ~NeedsJobs(next) /\ next.kind # "jobruns"
      /\ next.pc = "observeRun" /\ next.phase = "Succeeded" => ~GaveUp(next.run, next.n)
  <2>1. CASE next = Idle
    BY <2>1, IdleTells, Zenon DEF Idle, NeedsJobs, StartSteps
  <2>2. CASE next = JobTask("observeRun", r, phase, n)
    <3>1. /\ next.pc = "observeRun" /\ next.run = r /\ next.n = n /\ next.phase = phase
          /\ next.kind = "jobs"
      BY <2>2, Zenon DEF JobTask
    <3> QED
      BY <1>2, <1>5, <3>1, Zenon DEF TaskTells, NeedsJobs, StartSteps, StopSteps
  <2> QED
    BY <1>8, <2>1, <2>2, Zenon
<1>10. KeyFree(w, next)
  BY <1>9, Zenon DEF KeyFree
<1> QED
  BY <1>3, <1>7, <1>8, <1>9, <1>10, LedgerStep, Zenon

=============================================================================
