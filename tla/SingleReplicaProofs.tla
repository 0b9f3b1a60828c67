------------------------ MODULE SingleReplicaProofs ------------------------
(***************************************************************************)
(* What a single replica of the operator guarantees beyond RunReconciler-  *)
(* Proofs, for any number of runs and workers and any attempt budget: an   *)
(* occurrence is not executed twice, and an outcome means that no Job is   *)
(* at work.  Two replicas do not guarantee it.                             *)
(***************************************************************************)
EXTENDS SingleReplicaSteps

(* Steps of the actors around the reconcilers. *)

(* A step that changes Jobs without creating or restarting one, and without
   deleting one unless the replica has seen the stop. *)
LEMMA JobStep ==
  ASSUME IInv, SInv, TypeOK', UNCHANGED <<run, attemptRow, cachedJob, cachedCR, cr>>,
         \A r \in Runs : JobsAge(r) /\ JobsStay(r),
         \A r \in Runs : Intact(r) => Intact(r)' \/ StopSeen(r),
         \A v \in Workers :
           \/ worker'[v] = worker[v] /\ (NeedsJobs(worker[v]) => Intact(worker[v].run)')
           \/ TaskTells(worker[v])' /\ worker'[v].pc # "observeRun",
         KeyHeldOnce'
  PROVE  SInv'
<1>1. \A r : StopSeen(r)' = StopSeen(r)
  BY Zenon DEF StopSeen
<1>2. \A r \in Runs : StopStays(r) /\ StopsAreSeen(r)'
  BY <1>1, Zenon DEF StopStays, StopsAreSeen, SInv
<1>3. \A r, n : Cached(r, n)' = Cached(r, n) /\ HasAttempt(r, n)' = HasAttempt(r, n)
  BY Zenon DEF Cached, HasAttempt
<1>4. ASSUME NEW r \in Runs, NEW n \in AttemptNumbers
      PROVE  Faithful(r, n)' /\ (Started(r, n)' => Started(r, n))
  <2>1. Faithful(r, n) /\ JobsAge(r)
    BY Zenon DEF SInv
  <2> QED
    BY <1>3, <2>1, Zenon DEF Faithful, Started, JobsAge
<1>5. ASSUME NEW r \in Runs, NEW n \in AttemptNumbers, GaveUp(r, n) PROVE GaveUp(r, n)'
  <2>1. Ended(r, n, "Failed") => Ended(r, n, "Failed")'
    BY Zenon DEF JobsAge
  <2> QED
    BY <1>5, <2>1, GaveUpKept, Zenon
<1> QED
  BY <1>2, <1>4, <1>5, StepKeeps, Zenon

\* Jobs.Delete keeps the invariant: no other worker is about to start a Job of
\* the run, and from now on every reader of its JobRun sees the stop.
LEMMA DeleteJobTells ==
  ASSUME IInv, SInv, TypeOK', NEW w \in Workers, DeleteJob(w)
  PROVE  SInv'
<1>0. PICK t \in Task : t = worker[w]
  BY Zenon DEF IInv, TypeOK
<1>1. TaskOK(t) /\ TaskTells(t) /\ t.pc = "deleteJob"
  BY <1>0, Zenon DEF IInv, SInv, DeleteJob
<1>2. t.run \in Runs /\ t.n \in AttemptNumbers /\ t.kind = "jobruns" /\ StopSeen(t.run)
  BY <1>1 DEF TaskOK, TaskTells, HandlesStartedRun, StopSteps, Task, AttemptNumbers
<1>3. UNCHANGED <<run, attemptRow, cachedJob, cachedCR, cr>>
  BY Zenon DEF DeleteJob, ledgerVars, cacheVars
<1>4. \A r \in Runs : \A n \in AttemptNumbers :
        /\ job'[r][n].status = job[r][n].status
        /\ r # t.run => job'[r][n] = job[r][n]
  <2> DEFINE old == job[t.run][t.n]
             new == [old EXCEPT !.deletion = "recent"]
  <2>1. job \in [Runs -> [AttemptNumbers -> JobObject]] /\ old \in JobObject
    BY <1>2, Zenon DEF IInv, TypeOK
  <2>2. new \in JobObject /\ new.status = old.status
    BY <2>1, JobUpdate, Zenon DEF JobObject, Deletion
  <2>3. job' = job \/ job' = [job EXCEPT ![t.run][t.n] = new]
    BY <1>0, <1>2, <2>1, Zenon DEF DeleteJob
  <2> HIDE DEF new
  <2>4. CASE job' = job
    BY <2>4, Zenon
  <2>5. CASE job' = [job EXCEPT ![t.run][t.n] = new]
    <3>1. \A r \in Runs : \A n \in AttemptNumbers :
            job'[r][n] = IF r = t.run /\ n = t.n THEN new ELSE job[r][n]
      BY <1>2, <2>1, <2>2, <2>5, EntryUpdate
    <3> QED
      BY <2>2, <3>1
  <2> QED
    BY <2>3, <2>4, <2>5, Zenon
<1>5. \A r \in Runs : JobsAge(r) /\ JobsStay(r)
  BY <1>4 DEF JobsAge, JobsStay, Ended, Exists
<1>6. \A r \in Runs : r # t.run /\ Intact(r) => Intact(r)'
  BY <1>3, <1>4 DEF Intact, Cached, HasAttempt
<1>7. PICK next \in Task : next = [t EXCEPT !.pc = "observeDeletion"]
  BY Zenon DEF Task, Steps
<1>8. next.pc = "observeDeletion" /\ next.kind = "jobruns" /\ next.run = t.run
  BY <1>2, <1>7, Zenon DEF Task
<1>9. worker' = [worker EXCEPT ![w] = next]
  BY <1>0, <1>7, Zenon DEF DeleteJob, Goto
<1>10. \A v \in Workers : worker'[v] = IF v = w THEN next ELSE worker[v]
  BY <1>9, Zenon DEF IInv, TypeOK
<1>11. KeyHeldOnce'
  <2>1. KeyFree(w, next)
    BY <1>0, <1>2, <1>8, KeepsKey, Zenon
  <2> QED
    BY <1>9, <2>1, KeysKept, Zenon
<1>12. TaskTells(worker[w])'
  <2>1. StopSeen(t.run)'
    BY <1>2, <1>3, Zenon DEF StopSeen
  <2>2. TaskTells(next)'
    BY <1>8, <2>1, Zenon DEF TaskTells, StartSteps, StopSteps
  <2> QED
    BY <1>10, <2>2 DEF TaskTells
<1>13. ASSUME NEW v \in Workers, v # w, NeedsJobs(worker[v]) PROVE Intact(worker[v].run)'
  <2>1. worker[v].run \in Runs /\ worker[v].kind = "jobruns" /\ Intact(worker[v].run)
    BY <1>13, TaskRelies, Zenon
  <2>2. worker[v].run # t.run
    BY <1>0, <1>2, <1>13, <2>1, Zenon DEF SInv, KeyHeldOnce
  <2> QED
    BY <1>6, <1>10, <1>13, <2>1, <2>2, Zenon
<1>14. \A r \in Runs : Intact(r) => Intact(r)' \/ StopSeen(r)
  BY <1>2, <1>6, Zenon
<1>15. ASSUME NEW v \in Workers
       PROVE  \/ worker'[v] = worker[v] /\ (NeedsJobs(worker[v]) => Intact(worker[v].run)')
              \/ TaskTells(worker[v])' /\ worker'[v].pc # "observeRun"
  BY <1>8, <1>10, <1>12, <1>13, Zenon
<1> QED
  BY <1>3, <1>5, <1>11, <1>14, <1>15, JobStep, Zenon

\* The Job controller and the garbage collector keep the invariant.
LEMMA ClusterTells ==
  ASSUME IInv, SInv, TypeOK', NEW r \in Runs, NEW n \in AttemptNumbers,
         JobActive(r, n) \/ JobPodRetry(r, n) \/ JobFinish(r, n) \/ JobGone(r, n)
           \/ DeletionOverdue(r, n)
  PROVE  SInv'
<1>1. job \in [Runs -> [AttemptNumbers -> JobObject]] /\ job[r][n] \in JobObject
  BY Zenon DEF IInv, TypeOK
<1>2. UNCHANGED <<run, attemptRow, cachedJob, cachedCR, cr, worker>>
  BY Zenon DEF JobActive, JobPodRetry, JobFinish, JobGone, DeletionOverdue, SetJob, ledgerVars, cacheVars
<1>3. PICK j \in JobObject :
        /\ job' = [job EXCEPT ![r][n] = j]
        /\ \/ Live(job[r][n]) /\ Exists(j) /\ j.deletion = job[r][n].deletion
           \/ job[r][n].deletion # "none" /\ j.status \in {"Absent", job[r][n].status}
  <2>1. CASE JobActive(r, n) \/ JobPodRetry(r, n) \/ JobFinish(r, n)
    <3>1. PICK s \in {"Pending", "Running", "Succeeded", "Failed"} :
            SetJob(r, n, [job[r][n] EXCEPT !.status = s])
      BY <2>1, Zenon DEF JobActive, JobPodRetry, JobFinish
    <3>2. Live(job[r][n])
      BY <2>1, Zenon DEF JobActive, JobPodRetry, JobFinish, Live
    <3> DEFINE j == [job[r][n] EXCEPT !.status = s]
    <3>3. j \in JobObject /\ Exists(j) /\ j.deletion = job[r][n].deletion
      BY <1>1, <3>1, Zenon DEF JobObject, JobStatus, Exists
    <3> QED
      BY <3>1, <3>2, <3>3, Zenon DEF SetJob
  <2>2. CASE JobGone(r, n)
    <3>1. NoJob \in JobObject /\ NoJob.status = "Absent"
      BY Zenon DEF NoJob, JobObject, JobStatus, Deletion, NoUID
    <3> QED
      BY <2>2, <3>1, Zenon DEF JobGone, SetJob
  <2>3. CASE DeletionOverdue(r, n)
    <3> DEFINE j == [job[r][n] EXCEPT !.deletion = "overdue"]
    <3>1. j \in JobObject /\ j.status = job[r][n].status
      BY <1>1, Zenon DEF JobObject, Deletion
    <3> QED
      BY <2>3, <3>1, Zenon DEF DeletionOverdue, SetJob
  <2> QED
    BY <2>1, <2>2, <2>3, Zenon
<1>4. \A q \in Runs : \A m \in AttemptNumbers :
        job'[q][m] = IF q = r /\ m = n THEN j ELSE job[q][m]
  BY <1>1, <1>3, EntryUpdate
<1>5. \A q \in Runs : JobsAge(q) /\ JobsStay(q)
  BY <1>3, <1>4 DEF JobsAge, JobsStay, Ended, Exists, Live, Intact
<1>6. \A q \in Runs : Intact(q) => Intact(q)'
  BY <1>2, <1>3, <1>4 DEF Intact, Cached, HasAttempt, Live, Exists
<1>7. \A v \in Workers : NeedsJobs(worker[v]) => Intact(worker[v].run)'
  BY <1>2, <1>6, TaskRelies, Zenon
<1>8. KeyHeldOnce' /\ \A v \in Workers : worker'[v] = worker[v]
  BY <1>2, Zenon DEF SInv, KeyHeldOnce
<1> QED
  BY <1>2, <1>5, <1>6, <1>7, <1>8, JobStep, Zenon


(* A step of the users, the scheduler, the watches or a restart: workers may
   lose what they hold, caches take up what is live, a stop stays seen. *)
LEMMA SurroundingStep ==
  ASSUME IInv, SInv, TypeOK', UNCHANGED <<run, attemptRow, job>>,
         \A r \in Runs : StopStays(r),
         \A p \in Replicas : \A r \in Runs : cachedCR'[p][r] = "cancel" => cr'[r] = "cancel",
         \A p \in Replicas : \A r \in Runs : \A n \in AttemptNumbers :
           cachedJob'[p][r][n] = cachedJob[p][r][n] \/ cachedJob'[p][r][n] = Snapshot(job[r][n]),
         \A v \in Workers : worker'[v] = worker[v] \/ worker'[v] = Idle
  PROVE  SInv'
<1>1. \A r, n, s : Ended(r, n, s)' = Ended(r, n, s) /\ HasAttempt(r, n)' = HasAttempt(r, n)
  BY Zenon DEF Ended, HasAttempt
<1>2. \A r \in Runs : JobsAge(r) /\ JobsStay(r)
  BY <1>1, Zenon DEF JobsAge, JobsStay
<1>3. \A p \in Replicas : \A r \in Runs : \A n \in AttemptNumbers :
        cachedJob'[p][r][n].status \in {cachedJob[p][r][n].status, job[r][n].status}
  <2>1. \A r, n : Snapshot(job[r][n]).status = job[r][n].status
    BY Zenon DEF Snapshot
  <2> QED
    BY <2>1
<1>4. \A r \in Runs : \A n \in AttemptNumbers : Cached(r, n)' => Cached(r, n) \/ Exists(job[r][n])
  BY <1>3, Zenon DEF Cached, Exists
<1>5. \A r \in Runs : Intact(r) => Intact(r)'
  BY <1>1, <1>4 DEF Intact
<1>6. \A r \in Runs : StopsAreSeen(r)'
  BY <1>5, Zenon DEF SInv, StopsAreSeen, StopStays
<1>7. ASSUME NEW r \in Runs, NEW n \in AttemptNumbers
      PROVE  Faithful(r, n)' /\ (Started(r, n)' => Started(r, n))
  <2>1. Faithful(r, n)
    BY Zenon DEF SInv
  <2>2. ASSUME NEW p \in Replicas, NEW s \in {"Succeeded", "Failed"}, cachedJob'[p][r][n].status = s
        PROVE  Ended(r, n, s)
    BY <1>3, <2>1, <2>2 DEF Faithful, Ended
  <2>3. Faithful(r, n)'
    BY <1>1, <2>1, <2>2, Zenon DEF Faithful
  <2> QED
    BY <1>1, <1>4, <2>3, Zenon DEF Started
<1>8. Idle.pc = "idle" /\ Idle.kind = "none"
  BY Zenon DEF Idle
<1>9. ASSUME NEW r \in Runs, NEW n \in AttemptNumbers, GaveUp(r, n) PROVE GaveUp(r, n)'
  <2>1. \A p \in Replicas : cachedJob'[p][r][n].status # "Succeeded"
    BY <1>3, <1>9, Zenon DEF GaveUp, Ended
  <2>2. \A v \in Workers : worker'[v] = worker[v] \/ worker'[v].pc # "observeRun"
    BY <1>8, Zenon
  <2> QED
    BY <1>1, <1>9, <2>1, <2>2, GaveUpKept, Zenon
<1>10. ASSUME NEW v \in Workers
       PROVE  \/ worker'[v] = worker[v] /\ (NeedsJobs(worker[v]) => Intact(worker[v].run)')
              \/ TaskTells(worker[v])'
  <2>1. CASE worker'[v] = worker[v]
    BY <1>5, <2>1, TaskRelies, Zenon
  <2>2. CASE worker'[v] = Idle
    <3>1. TaskTells(Idle)'
      BY <1>8, Zenon DEF TaskTells, StartSteps, StopSteps
    <3> QED
      BY <2>2, <3>1 DEF TaskTells
  <2> QED
    BY <2>1, <2>2, Zenon
<1>11. KeyHeldOnce'
  BY <1>8 DEF SInv, KeyHeldOnce
<1> QED
  BY <1>2, <1>6, <1>7, <1>9, <1>10, <1>11, StepKeeps, Zenon

\* Triggers, stops, watch events and restarts keep the invariant.
LEMMA SurroundingsTell ==
  ASSUME IInv, SInv, TypeOK',
         \/ \E r \in Runs : PublishRun(r) \/ TriggerRun(r) \/ RequestStop(r)
         \/ \E p \in Replicas, r \in Runs : DeliverJobRun(p, r)
         \/ \E p \in Replicas, r \in Runs, n \in AttemptNumbers : DeliverJob(p, r, n)
         \/ \E p \in Replicas : Restart(p)
         \/ UNCHANGED vars
  PROVE  SInv'
<1>1. /\ cr \in [Runs -> CRStates] /\ cachedCR \in [Replicas -> [Runs -> CRStates]]
      /\ cachedJob \in [Replicas -> [Runs -> [AttemptNumbers -> JobSnapshot]]]
      /\ job \in [Runs -> [AttemptNumbers -> JobObject]]
  BY Zenon DEF IInv, TypeOK
<1>2. \A p \in Replicas : \A r \in Runs : cachedCR[p][r] = "cancel" => cr[r] = "cancel"
  BY Zenon DEF SInv, StopsAreSeen
<1>3. ASSUME NEW r \in Runs, PublishRun(r) \/ TriggerRun(r) \/ RequestStop(r) PROVE SInv'
  <2>1. UNCHANGED <<run, attemptRow, job, cachedCR, cachedJob, worker>> /\ cr[r] # "cancel"
    BY <1>3, Zenon DEF PublishRun, TriggerRun, RequestStop, ledgerVars, cacheVars
  <2>2. \A q \in Runs : q # r => cr'[q] = cr[q]
    BY <1>1, <1>3, Zenon DEF PublishRun, TriggerRun, RequestStop
  <2>3. \A q \in Runs : StopStays(q)
    BY <2>1, <2>2, Zenon DEF StopStays, StopSeen
  <2>4. \A p \in Replicas : \A q \in Runs : cachedCR'[p][q] = "cancel" => cr'[q] = "cancel"
    BY <1>2, <2>1, <2>2, Zenon
  <2> QED
    BY <2>1, <2>3, <2>4, SurroundingStep, Zenon
<1>4. ASSUME NEW p \in Replicas, NEW r \in Runs, DeliverJobRun(p, r) PROVE SInv'
  <2>1. UNCHANGED <<run, attemptRow, job, cr, cachedJob, worker>>
    BY <1>4, Zenon DEF DeliverJobRun, ledgerVars, clusterVars
  <2>2. \A o \in Replicas : \A q \in Runs : cachedCR'[o][q] \in {cachedCR[o][q], cr[q]}
    BY <1>1, <1>4, Zenon DEF DeliverJobRun
  <2>3. \A q \in Runs : StopStays(q)
    BY <2>1, <2>2, Zenon DEF StopStays, StopSeen
  <2> QED
    BY <1>2, <2>1, <2>2, <2>3, SurroundingStep
<1>5. ASSUME NEW p \in Replicas, NEW r \in Runs, NEW n \in AttemptNumbers, DeliverJob(p, r, n)
      PROVE  SInv'
  <2>1. UNCHANGED <<run, attemptRow, job, cr, cachedCR, worker>>
    BY <1>5, Zenon DEF DeliverJob, ledgerVars, clusterVars
  <2>2. \A o \in Replicas : \A q \in Runs : \A m \in AttemptNumbers :
          \/ cachedJob'[o][q][m] = cachedJob[o][q][m]
          \/ cachedJob'[o][q][m] = Snapshot(job[q][m])
    <3> DEFINE s == Snapshot(job[r][n])
    <3>1. cachedJob' = [cachedJob EXCEPT ![p][r][n] = s]
      BY <1>5, Zenon DEF DeliverJob
    <3> HIDE DEF s
    <3>2. \A o \in Replicas : \A q \in Runs : \A m \in AttemptNumbers :
            cachedJob'[o][q][m] = IF o = p /\ q = r /\ m = n THEN s ELSE cachedJob[o][q][m]
      BY <1>1, <3>1
    <3> QED
      BY <3>2 DEF s
  <2>3. \A q \in Runs : StopStays(q)
    BY <2>1, Zenon DEF StopStays, StopSeen
  <2> QED
    BY <1>2, <2>1, <2>2, <2>3, SurroundingStep, Zenon
<1>6. ASSUME NEW p \in Replicas, Restart(p) PROVE SInv'
  <2>1. UNCHANGED <<run, attemptRow, job, cr>>
    BY <1>6, Zenon DEF Restart, ledgerVars, clusterVars
  <2>2. \A o \in Replicas : \A q \in Runs : cachedCR'[o][q] \in {cachedCR[o][q], cr[q]}
    BY <1>1, <1>6, Zenon DEF Restart
  <2>3. \A q \in Runs : StopStays(q)
    BY <2>1, <2>2, Zenon DEF StopStays, StopSeen
  <2>4. \A o \in Replicas : \A q \in Runs : \A m \in AttemptNumbers :
          \/ cachedJob'[o][q][m] = cachedJob[o][q][m]
          \/ cachedJob'[o][q][m] = Snapshot(job[q][m])
    <3> DEFINE live == [r \in Runs |-> [n \in AttemptNumbers |-> Snapshot(job[r][n])]]
    <3>1. cachedJob' = [cachedJob EXCEPT ![p] = live]
      BY <1>6, Zenon DEF Restart
    <3>2. \A q \in Runs : \A m \in AttemptNumbers : live[q][m] = Snapshot(job[q][m])
      BY Zenon
    <3> HIDE DEF live
    <3> QED
      BY <1>1, <3>1, <3>2, Zenon
  <2>5. \A v \in Workers : worker'[v] = worker[v] \/ worker'[v] = Idle
    BY <1>6, Zenon DEF Restart
  <2> QED
    BY <1>2, <2>1, <2>2, <2>3, <2>4, <2>5, SurroundingStep
<1>7. CASE UNCHANGED vars
  <2>1. UNCHANGED <<run, attemptRow, job, cr, cachedCR, cachedJob, worker>>
    BY <1>7, Zenon DEF vars
  <2>2. \A q \in Runs : StopStays(q)
    BY <2>1, Zenon DEF StopStays, StopSeen
  <2> QED
    BY <1>2, <2>1, <2>2, SurroundingStep, Zenon
<1> QED
  BY <1>3, <1>4, <1>5, <1>6, <1>7, Zenon

-----------------------------------------------------------------------------
(* The step that creates a Job. *)

\* What Jobs.Ensure finds when there is no Job of the attempt yet: nobody ever
\* saw one, every earlier Job of the run failed and there is no later one.
LEMMA EnsureJobFinds ==
  ASSUME IInv, SInv, NEW t \in Task, TaskOK(t), TaskTells(t), t.pc = "ensureJob",
         ~Exists(job[t.run][t.n + 1])
  PROVE  /\ t.run \in Runs /\ t.n \in Nat /\ t.n < MaxAttempts /\ t.n + 1 \in AttemptNumbers
         /\ ~HasAttempt(t.run, t.n + 1) /\ ~Cached(t.run, t.n + 1)
         /\ t.kind = "jobruns" /\ Intact(t.run)
         /\ \A m \in AttemptNumbers : m <= t.n => job[t.run][m].status = "Failed"
         /\ \A m \in AttemptNumbers : m > t.n => ~Started(t.run, m)
<1>1. t.run \in Runs /\ t.n \in Nat /\ t.n < MaxAttempts
  BY EnsureJobHolds, Zenon
<1>2. t.n + 1 \in AttemptNumbers /\ t.n + 1 \in 1 .. MaxAttempts
  BY <1>1, MaxAttemptsAssumption DEF AttemptNumbers
<1>3. t.kind = "jobruns" /\ Intact(t.run) /\ \A m \in 1 .. t.n : job[t.run][m].status = "Failed"
  BY Zenon DEF TaskTells, StartSteps
<1>4. ~HasAttempt(t.run, t.n + 1) /\ ~Cached(t.run, t.n + 1)
  BY <1>1, <1>2, <1>3, Zenon DEF Intact
<1>5. \A m \in AttemptNumbers : m <= t.n => job[t.run][m].status = "Failed"
  BY <1>1, <1>3 DEF AttemptNumbers
<1>6. ASSUME NEW m \in AttemptNumbers, m > t.n PROVE ~Started(t.run, m)
  <2>1. CASE m = t.n + 1
    BY <1>4, <2>1, Zenon DEF Started
  <2>2. CASE m # t.n + 1
    <3>1. t.n + 1 \in 1 .. m - 1
      BY <1>1, <1>6, <2>2 DEF AttemptNumbers
    <3>2. ~Exists(job[t.run][m]) /\ ~HasAttempt(t.run, m)
      BY <1>1, <1>4, <3>1, Zenon DEF IInv, AttemptsInOrder
    <3> QED
      BY <1>3, <3>2, Zenon DEF Started, Intact
  <2> QED
    BY <2>1, <2>2, Zenon
<1> QED
  BY <1>1, <1>2, <1>3, <1>4, <1>5, <1>6, Zenon

\* No row says anything that the new Job makes false.
LEMMA RowSurvives ==
  ASSUME IInv, SInv, NEW t \in Task, TaskOK(t), TaskTells(t), t.pc = "ensureJob",
         ~Exists(job[t.run][t.n + 1]), UNCHANGED <<cr, cachedCR>>,
         \A q \in Runs : \A m \in AttemptNumbers :
           q # t.run \/ m # t.n + 1 => job'[q][m] = job[q][m],
         NEW r \in Runs, NEW row \in RunRow, RowTells(r, row), Recorded(r, row.attempt)
  PROVE  RowTells(r, row)'
<1>1. StopSeen(r)' = StopSeen(r)
  BY Zenon DEF StopSeen
<1>2. row.attempt \in 0 .. MaxAttempts + 1 /\ (row.attempt >= 1 => row.attempt \in AttemptNumbers)
  BY MaxAttemptsAssumption DEF RunRow, AttemptNumbers
<1>3. CASE r # t.run
  <2>1. \A m \in AttemptNumbers : job'[r][m] = job[r][m]
    BY <1>3, Zenon
  <2> QED
    BY <1>1, <1>2, <2>1, Zenon DEF RowTells, Quiet, Ended
<1>4. CASE r = t.run
  <2>1. /\ t.n \in Nat /\ t.n < MaxAttempts /\ t.n + 1 \in AttemptNumbers
        /\ ~HasAttempt(r, t.n + 1) /\ Intact(r)
        /\ \A m \in AttemptNumbers : m <= t.n => job[r][m].status = "Failed"
    BY <1>4, EnsureJobFinds, Zenon
  <2>2. row.attempt <= t.n
    BY <1>2, <2>1 DEF Recorded
  <2>3. row.phase # "Failed"
    BY <1>2, <2>1, <2>2, MaxAttemptsAssumption DEF RowTells
  <2>4. row.phase # "Succeeded"
    BY <1>2, <2>1, <2>2, Zenon DEF RowTells, Ended
  <2>5. row.attempt >= 1 => job'[r][row.attempt] = job[r][row.attempt]
    BY <1>2, <2>1, <2>2
  <2> QED
    BY <1>1, <2>3, <2>4, <2>5, Zenon DEF RowTells, Ended
<1> QED
  BY <1>3, <1>4, Zenon


\* What the other workers hold survives the new Job: none of them holds the
\* run's key, and none observed the attempt, which is not on record.
LEMMA TaskSurvives ==
  ASSUME IInv, SInv, NEW t \in Task, TaskOK(t), TaskTells(t), t.pc = "ensureJob",
         ~Exists(job[t.run][t.n + 1]), UNCHANGED <<cr, cachedCR>>,
         \A q \in Runs : \A m \in AttemptNumbers :
           q # t.run \/ m # t.n + 1 => job'[q][m] = job[q][m],
         \A q \in Runs : Intact(q) => Intact(q)',
         NEW u \in Task, TaskOK(u), TaskTells(u), u.kind = "jobruns" => u.run # t.run
  PROVE  TaskTells(u)'
<1>1. \A r : StopSeen(r)' = StopSeen(r)
  BY Zenon DEF StopSeen
<1>2. CASE u.pc = "idle"
  BY <1>2, Zenon DEF TaskTells, StartSteps, StopSteps
<1>3. CASE u.pc # "idle"
  <2>1. u.run \in Runs /\ u.n \in 0 .. MaxAttempts + 1 /\ u.cancel \in BOOLEAN
    BY <1>3, Zenon DEF TaskOK, Task
  <2>2. u.pc \in StartSteps \cup {"failRun"} => u.run # t.run
    BY Zenon DEF TaskTells
  <2>3. u.pc \in StartSteps => Intact(u.run)'
    BY <2>1, Zenon DEF TaskTells
  <2>4. ASSUME u.pc = "ensureJob", NEW m \in 1 .. u.n PROVE job'[u.run][m].status = "Failed"
    <3>1. m \in AttemptNumbers
      BY <2>1, <2>4, MaxAttemptsAssumption DEF AttemptNumbers
    <3> QED
      BY <2>1, <2>2, <2>4, <3>1, Zenon DEF TaskTells, StartSteps
  <2>5. u.pc = "createAttempt" => Exists(job'[u.run][u.n])
    BY <2>1, <2>2, CreateAttemptHolds, Zenon DEF TaskTells, StartSteps
  <2>6. u.pc = "failRun" => Quiet(u.run)'
    BY <2>1, <2>2, Zenon DEF TaskTells, Quiet
  <2>7. u.pc = "materialize" => IF u.cancel THEN StopSeen(u.run)' ELSE Intact(u.run)'
    BY <1>1, <2>1, Zenon DEF TaskTells
  <2>8. ASSUME u.pc = "observeRun", NEW s, Ended(u.run, u.n, s) PROVE Ended(u.run, u.n, s)'
    <3>1. u.n \in AttemptNumbers /\ HasAttempt(u.run, u.n)
      <4>1. u.n >= 1 /\ Recorded(u.run, u.n)
        BY <2>8, Zenon DEF TaskOK, HandlesStartedRun
      <4> QED
        BY <2>1, <4>1, MaxAttemptsAssumption DEF Recorded, AttemptNumbers
    <3>2. u.run # t.run \/ u.n # t.n + 1
      BY <3>1, EnsureJobFinds, Zenon
    <3> QED
      BY <2>1, <2>8, <3>1, <3>2, Zenon DEF Ended
  <2>9. u.pc \in StopSteps => StopSeen(u.run)'
    BY <1>1, Zenon DEF TaskTells
  <2> QED
    BY <2>3, <2>4, <2>5, <2>6, <2>7, <2>8, <2>9, Zenon DEF TaskTells
<1> QED
  BY <1>2, <1>3, Zenon

\* Jobs.Ensure keeps the invariant.
LEMMA EnsureJobTells ==
  ASSUME IInv, SInv, TypeOK', NEW w \in Workers, EnsureJob(w)
  PROVE  SInv'
<1>0. PICK t \in Task : t = worker[w]
  BY DEF IInv, TypeOK
<1>1. TaskOK(t) /\ TaskTells(t) /\ t.pc = "ensureJob"
  BY <1>0, Zenon DEF IInv, SInv, EnsureJob
<1> DEFINE r == t.run
           n == t.n + 1
<1>2. r \in Runs /\ t.n \in Nat /\ n \in AttemptNumbers /\ t.kind = "jobruns" /\ Intact(r)
  BY <1>1, EnsureJobHolds, MaxAttemptsAssumption DEF TaskTells, StartSteps, AttemptNumbers
<1>3. UNCHANGED <<run, attemptRow, cachedJob, cachedCR, cr>>
  BY Zenon DEF EnsureJob, ledgerVars, cacheVars
<1>4. ASSUME NEW uid \in Nat, Goto(w, CreateAttemptTask(r, n, uid))
      PROVE  \E next \in Task :
               /\ worker' = [worker EXCEPT ![w] = next] /\ next.pc = "createAttempt"
               /\ next.run = r /\ next.n = n /\ next.kind = "jobruns" /\ KeyFree(w, next)
  <2>1. PICK next \in Task : next = CreateAttemptTask(r, n, uid)
    BY <1>2, CreateAttemptTaskType, Zenon
  <2>2. next.pc = "createAttempt" /\ next.run = r /\ next.n = n /\ next.kind = "jobruns"
    BY <2>1, Zenon DEF CreateAttemptTask
  <2>3. KeyFree(w, next)
    BY <1>0, <1>2, <2>2, KeepsKey, Zenon
  <2> QED
    BY <1>4, <2>1, <2>2, <2>3, Zenon DEF Goto
<1>5. CASE Exists(job[r][n])
  <2>1. UNCHANGED job /\ Goto(w, CreateAttemptTask(r, n, job[r][n].uid))
    BY <1>0, <1>5, Zenon DEF EnsureJob, NextAttempt
  <2>2. job[r][n].uid \in Nat
    BY <1>2, Zenon DEF IInv, TypeOK, JobObject
  <2>3. PICK next \in Task :
          /\ worker' = [worker EXCEPT ![w] = next] /\ next.pc = "createAttempt"
          /\ next.run = r /\ next.n = n /\ next.kind = "jobruns" /\ KeyFree(w, next)
    BY <1>4, <2>1, <2>2, Zenon
  <2>4. TaskTells(next)
    BY <1>2, <1>5, <2>3, Zenon DEF TaskTells, StartSteps, StopSteps
  <2> QED
    BY <1>3, <2>1, <2>3, <2>4, WorkerStep, Zenon
<1>6. CASE ~Exists(job[r][n])
  <2> DEFINE new == [uid |-> uids + 1, status |-> "Pending", deletion |-> "none"]
  <2>1. job' = [job EXCEPT ![r][n] = new] /\ Goto(w, CreateAttemptTask(r, n, uids + 1))
    BY <1>0, <1>6, Zenon DEF EnsureJob, NextAttempt
  <2>2. uids \in Nat
    BY Zenon DEF IInv, TypeOK
  <2>3. new \in JobObject /\ new.status = "Pending" /\ new.deletion = "none"
    BY <2>2 DEF JobObject, JobStatus, Deletion
  <2>4. PICK next \in Task :
          /\ worker' = [worker EXCEPT ![w] = next] /\ next.pc = "createAttempt"
          /\ next.run = r /\ next.n = n /\ next.kind = "jobruns" /\ KeyFree(w, next)
    BY <1>4, <2>1, <2>2
  <2>5. job \in [Runs -> [AttemptNumbers -> JobObject]]
    BY Zenon DEF IInv, TypeOK
  <2> HIDE DEF new
  <2>6. \A q \in Runs : \A m \in AttemptNumbers :
          job'[q][m] = IF q = r /\ m = n THEN new ELSE job[q][m]
    BY <1>2, <2>1, <2>3, <2>5, EntryUpdate
  <2>7. /\ ~HasAttempt(r, n) /\ ~Cached(r, n)
        /\ \A m \in AttemptNumbers : m <= t.n => job[r][m].status = "Failed"
        /\ \A m \in AttemptNumbers : m > t.n => ~Started(r, m)
    BY <1>1, <1>6, EnsureJobFinds, Zenon
  <2>8. \A v \in Workers : worker'[v] = IF v = w THEN next ELSE worker[v]
    BY <2>4, Zenon DEF IInv, TypeOK
  <2>9. \A q, m : HasAttempt(q, m)' = HasAttempt(q, m) /\ Cached(q, m)' = Cached(q, m)
    BY <1>3, Zenon DEF HasAttempt, Cached
  <2>10. \A q \in Runs : Intact(q) => Intact(q)'
    BY <2>3, <2>6, <2>9 DEF Intact, Exists
  <2>11. \A q \in Runs : StopsAreSeen(q)'
    BY <1>3, <2>10, Zenon DEF SInv, StopsAreSeen, StopSeen
  <2>12. ASSUME NEW q \in Runs PROVE RowTells(q, run[q])'
    <3>1. PICK row \in RunRow : row = run[q]
      BY Zenon DEF IInv, TypeOK, LedgerTypeOK
    <3>2. RowTells(q, row) /\ Recorded(q, row.attempt)
      BY <3>1, Zenon DEF SInv, IInv, CounterHasEvidence, Recorded
    <3>3. RowTells(q, row)'
      BY <1>1, <1>3, <1>6, <2>6, <3>2, RowSurvives, Zenon
    <3> QED
      BY <1>3, <3>1, <3>3, Zenon DEF RowTells
  <2>13. ASSUME NEW q \in Runs, NEW m \in AttemptNumbers PROVE Faithful(q, m)'
    <3>1. Faithful(q, m)
      BY Zenon DEF SInv
    <3>2. CASE q # r \/ m # n
      BY <1>3, <2>6, <2>9, <3>1, <3>2, SMTT(20) DEF Faithful, Ended
    <3>3. CASE q = r /\ m = n
      BY <1>3, <2>7, <2>9, <3>1, <3>3, Zenon DEF Faithful, Cached, Exists
    <3> QED
      BY <3>2, <3>3, Zenon
  <2>14. ASSUME NEW q \in Runs, NEW m \in AttemptNumbers, q # r \/ m <= t.n,
                q # r => GaveUp(q, m)
         PROVE  GaveUp(q, m)'
    <3>0. q # r \/ m # n
      BY <1>2, <2>14, MaxAttemptsAssumption DEF AttemptNumbers
    <3>1. job'[q][m] = job[q][m]
      BY <2>6, <3>0, Zenon
    <3>2. GaveUp(q, m)
      <4> SUFFICES ASSUME q = r PROVE GaveUp(r, m)
        BY <2>14, Zenon
      <4>1. job[r][m].status = "Failed" /\ Faithful(r, m)
        BY <1>2, <2>7, <2>14, Zenon DEF SInv
      <4>2. ASSUME NEW v \in Workers, worker[v].pc = "observeRun", worker[v].run = r, worker[v].n = m
            PROVE  worker[v].phase # "Succeeded"
        BY <4>1, <4>2, Zenon DEF SInv, TaskTells, Ended
      <4> QED
        BY <4>1, <4>2, Zenon DEF GaveUp, Faithful, Ended
    <3> QED
      BY <1>3, <2>4, <2>8, <3>1, <3>2, GaveUpKept, Zenon DEF Ended
  <2>15. ASSUME NEW q \in Runs PROVE LaterOnlyAfterGivingUp(q)'
    <3> SUFFICES ASSUME NEW k \in AttemptNumbers, NEW m \in AttemptNumbers, k < m, Started(q, m)'
                 PROVE  GaveUp(q, k)'
      BY Zenon DEF LaterOnlyAfterGivingUp
    <3>1. CASE q # r
      <4>1. Started(q, m)
        BY <2>6, <2>9, <3>1, Zenon DEF Started
      <4>2. GaveUp(q, k)
        BY <4>1, Zenon DEF SInv, LaterOnlyAfterGivingUp
      <4> QED
        BY <2>14, <3>1, <4>2, Zenon
    <3>2. CASE q = r
      <4>1. m = n \/ Started(r, m)
        BY <2>6, <2>9, <3>2, Zenon DEF Started
      <4>2. k <= t.n
        BY <1>2, <2>7, <4>1 DEF AttemptNumbers
      <4> QED
        BY <2>14, <3>2, <4>2, Zenon
    <3> QED
      BY <3>1, <3>2, Zenon
  <2>16. ASSUME NEW v \in Workers PROVE TaskTells(worker[v])'
    <3>1. CASE v = w
      <4>1. Intact(r)' /\ Exists(job'[r][n])
        BY <1>2, <2>3, <2>6, <2>10, Zenon DEF Exists
      <4>2. TaskTells(next)'
        BY <2>4, <4>1, Zenon DEF TaskTells, StartSteps, StopSteps
      <4> QED
        BY <2>8, <3>1, <4>2 DEF TaskTells
    <3>2. CASE v # w
      <4>1. PICK u \in Task : u = worker[v]
        BY Zenon DEF IInv, TypeOK
      <4>2. TaskOK(u) /\ TaskTells(u) /\ (u.kind = "jobruns" => u.run # r)
        BY <1>0, <1>2, <3>2, <4>1, Zenon DEF IInv, SInv, KeyHeldOnce
      <4>3. TaskTells(u)'
        BY <1>1, <1>3, <1>6, <2>6, <2>10, <4>2, TaskSurvives, Zenon
      <4> QED
        BY <2>8, <3>2, <4>1, <4>3 DEF TaskTells
    <3> QED
      BY <3>1, <3>2, Zenon
  <2>17. KeyHeldOnce'
    BY <2>4, KeysKept, Zenon
  <2> QED
    BY <2>11, <2>12, <2>13, <2>15, <2>16, <2>17, Zenon DEF SInv
<1> QED
  BY <1>5, <1>6, Zenon

-----------------------------------------------------------------------------
(* The theorems. *)

\* The invariant holds of the empty system.
LEMMA SingleInit == Init => SInv
<1> SUFFICES ASSUME Init PROVE SInv
  BY Zenon
<1>1. /\ \A r \in Runs : run[r] = AbsentRun /\ cr[r] = "absent"
      /\ \A r \in Runs : \A n \in AttemptNumbers : job[r][n] = NoJob /\ attemptRow[r][n] = AbsentAttempt
      /\ \A p \in Replicas : \A r \in Runs : cachedCR[p][r] = "absent"
      /\ \A p \in Replicas : \A r \in Runs : \A n \in AttemptNumbers :
           cachedJob[p][r][n] = Snapshot(NoJob)
      /\ \A w \in Workers : worker[w] = Idle
  BY Zenon DEF Init, LedgerInit
<1>2. /\ AbsentRun.phase = NoRow /\ AbsentAttempt.uid = NoUID /\ AbsentAttempt.phase = "open"
      /\ NoJob.status = "Absent" /\ NoJob.deletion = "none" /\ Snapshot(NoJob).status = "Absent"
      /\ Idle.kind = "none"
  BY Zenon DEF AbsentRun, AbsentAttempt, NoJob, Snapshot, Idle
<1>3. \A r \in Runs : \A n \in AttemptNumbers : ~Started(r, n)
  BY <1>1, <1>2, Zenon DEF Started, Exists, HasAttempt, Cached
<1>4. \A r \in Runs : Intact(r)
  BY <1>1, <1>2, <1>3, Zenon DEF Intact, Started
<1>5. \A r \in Runs : StopsAreSeen(r) /\ LaterOnlyAfterGivingUp(r)
  BY <1>1, <1>3, <1>4, Zenon DEF StopsAreSeen, LaterOnlyAfterGivingUp
<1>6. \A r \in Runs : RowTells(r, run[r])
  BY <1>1, <1>2, Zenon DEF RowTells, NoRow
<1>7. \A r \in Runs : \A n \in AttemptNumbers : Faithful(r, n)
  BY <1>1, <1>2, Zenon DEF Faithful
<1>8. \A w \in Workers : TaskTells(worker[w])
  BY <1>1, IdleTells, Zenon
<1>9. KeyHeldOnce
  BY <1>1, <1>2, Zenon DEF KeyHeldOnce
<1> QED
  BY <1>5, <1>6, <1>7, <1>8, <1>9, Zenon DEF SInv

\* Every step of a single replica and its surroundings keeps the invariant.
LEMMA SingleStep ==
  ASSUME SingleReplica, IInv, SInv, TypeOK', [Next]_vars
  PROVE  SInv'
<1>1. ASSUME NEW w \in Workers, Continue(w) \/ FailCall(w) PROVE SInv'
  <2>1. CASE FailRun(w) \/ CancelPending(w) \/ RequestCancel(w) \/ RecordCancelUnknown(w)
               \/ CloseRun(w) \/ ObserveRun(w)
    BY <2>1, PhaseWritesTell, Zenon
  <2>2. CASE ObserveDeletion(w) \/ ReportOutcome(w) \/ PatchRunStatus(w) \/ FailCall(w)
    BY <2>2, QuietStepsTell, Zenon
  <2> QED
    BY <1>1, <2>1, <2>2, MaterializeTells, EnsureJobTells, RecordAttemptTells, DeleteJobTells,
       CloseAttemptTells, Zenon DEF Continue
<1>2. ASSUME NEW w \in Workers, NEW r \in Runs, ReconcileJobRun(w, r) PROVE SInv'
  BY <1>2, ReconcileJobRunTells, Zenon
<1>3. ASSUME NEW w \in Workers, NEW r \in Runs, NEW n \in AttemptNumbers, ReconcileJob(w, r, n)
      PROVE  SInv'
  BY <1>3, ReconcileJobTells, Zenon
<1>4. ASSUME NEW r \in Runs, RecordOccurrence(r) PROVE SInv'
  BY <1>4, RecordOccurrenceTells, Zenon
<1>5. ASSUME NEW r \in Runs, NEW n \in AttemptNumbers,
             JobActive(r, n) \/ JobPodRetry(r, n) \/ JobFinish(r, n) \/ JobGone(r, n)
               \/ DeletionOverdue(r, n)
      PROVE  SInv'
  BY <1>5, ClusterTells, Zenon
<1> QED
  BY <1>1, <1>2, <1>3, <1>4, <1>5, SurroundingsTell, Zenon DEF Next

\* One operator replica never leaves the invariant.
THEOREM SingleInvariance ==
  ASSUME SingleReplica PROVE Spec => [](IInv /\ SInv)
<1>1. IInv /\ IInv' /\ SInv /\ [Next]_vars => SInv'
  BY SingleStep, Zenon DEF IInv
<1> QED
  BY <1>1, Invariance, SingleInit, PTL DEF Spec

(* With one replica at most one attempt of a run is recorded as succeeded, for
   any number of workers and attempts, however late Jobs are observed. *)
THEOREM OneSuccessHolds ==
  ASSUME SingleReplica PROVE Spec => []OneSuccess
<1>1. SInv => OneSuccess
  <2> SUFFICES ASSUME SInv, NEW r \in Runs, NEW m \in AttemptNumbers, NEW n \in AttemptNumbers,
                      attemptRow[r][m].phase = "Succeeded", attemptRow[r][n].phase = "Succeeded"
               PROVE  m = n
    BY Zenon DEF OneSuccess
  <2>1. Started(r, m) /\ Started(r, n)
    BY Zenon DEF SInv, Faithful, Started
  <2>2. ~(m < n) /\ ~(n < m)
    BY <2>1, Zenon DEF SInv, LaterOnlyAfterGivingUp, GaveUp
  <2> QED
    BY <2>2 DEF AttemptNumbers
<1> QED
  BY <1>1, SingleInvariance, PTL

(* With one replica a run recorded as Succeeded or Failed has no Job at work:
   the outcome is never announced over a Job that still runs. *)
THEOREM OutcomeMeansQuietHolds ==
  ASSUME SingleReplica PROVE Spec => []OutcomeMeansQuiet
<1>1. SInv => OutcomeMeansQuiet
  BY Zenon DEF SInv, RowTells, Quiet, OutcomeMeansQuiet
<1> QED
  BY <1>1, SingleInvariance, PTL

\* Only Jobs.Ensure brings a Job into being.
LEMMA OnlyEnsureJobCreates ==
  ASSUME IInv, [Next]_vars, NEW r \in Runs, NEW n \in AttemptNumbers,
         ~Exists(job[r][n]), Exists(job'[r][n])
  PROVE  \E w \in Workers : EnsureJob(w) /\ worker[w].run = r /\ n = worker[w].n + 1
<1>0. job \in [Runs -> [AttemptNumbers -> JobObject]]
  BY Zenon DEF IInv, TypeOK
<1>1. job' # job
  BY Zenon
<1>2. ASSUME NEW w \in Workers, DeleteJob(w) PROVE FALSE
  <2>1. PICK t \in Task : t = worker[w]
    BY Zenon DEF IInv, TypeOK
  <2>2. t.run \in Runs /\ t.n \in AttemptNumbers
    <3>1. TaskOK(t) /\ t.pc = "deleteJob"
      BY <1>2, <2>1, Zenon DEF IInv, DeleteJob
    <3> QED
      BY <3>1 DEF TaskOK, HandlesStartedRun, Task, AttemptNumbers
  <2> DEFINE old == job[t.run][t.n]
             new == [old EXCEPT !.deletion = "recent"]
  <2>3. old \in JobObject /\ new \in JobObject /\ new.status = old.status
    <3>1. old \in JobObject
      BY <1>0, <2>2, Zenon
    <3> QED
      BY <3>1, JobUpdate, Zenon DEF JobObject, Deletion
  <2>4. job' = [job EXCEPT ![t.run][t.n] = new]
    BY <1>0, <1>1, <1>2, <2>1, <2>2, Zenon DEF DeleteJob
  <2> HIDE DEF new
  <2> QED
    BY <1>0, <2>2, <2>3, <2>4, EntryUpdate DEF Exists
<1>3. ASSUME NEW q \in Runs, NEW m \in AttemptNumbers, NEW j \in JobObject, SetJob(q, m, j),
             Exists(job[q][m]) \/ ~Exists(j)
      PROVE  FALSE
  BY <1>0, <1>3, EntryUpdate DEF SetJob
<1>4. ASSUME NEW q \in Runs, NEW m \in AttemptNumbers,
             JobActive(q, m) \/ JobPodRetry(q, m) \/ JobFinish(q, m) \/ JobGone(q, m)
               \/ DeletionOverdue(q, m)
      PROVE  FALSE
  <2>1. job[q][m] \in JobObject
    BY <1>0, Zenon
  <2>2. CASE JobActive(q, m) \/ JobPodRetry(q, m) \/ JobFinish(q, m)
    <3>1. PICK s \in {"Pending", "Running", "Succeeded", "Failed"} :
            SetJob(q, m, [job[q][m] EXCEPT !.status = s])
      BY <2>2, Zenon DEF JobActive, JobPodRetry, JobFinish
    <3>2. Exists(job[q][m])
      BY <2>2, Zenon DEF JobActive, JobPodRetry, JobFinish, Live, Exists
    <3>3. [job[q][m] EXCEPT !.status = s] \in JobObject
      BY <2>1, JobUpdate, Zenon DEF JobStatus
    <3> QED
      BY <1>3, <3>1, <3>2, <3>3, Zenon
  <2>3. CASE JobGone(q, m)
    <3>1. NoJob \in JobObject /\ ~Exists(NoJob)
      BY Zenon DEF NoJob, JobObject, JobStatus, Deletion, NoUID, Exists
    <3> QED
      BY <1>3, <2>3, <3>1, Zenon DEF JobGone
  <2>4. CASE DeletionOverdue(q, m)
    <3> DEFINE j == [job[q][m] EXCEPT !.deletion = "overdue"]
    <3>1. j \in JobObject /\ j.status = job[q][m].status
      BY <2>1, Zenon DEF JobObject, Deletion
    <3>2. SetJob(q, m, j)
      BY <2>4, Zenon DEF DeletionOverdue
    <3> HIDE DEF j
    <3> QED
      BY <1>3, <3>1, <3>2, Zenon DEF Exists
  <2> QED
    BY <1>4, <2>2, <2>3, <2>4, Zenon
<1>5. PICK w \in Workers : EnsureJob(w)
  <2>1. ASSUME NEW w \in Workers,
               \/ MaterializeManualRun(w) \/ RecordAttempt(w) \/ FailRun(w) \/ CancelPending(w)
               \/ RequestCancel(w) \/ ObserveDeletion(w) \/ RecordCancelUnknown(w)
               \/ CloseAttempt(w) \/ CloseRun(w) \/ ObserveRun(w) \/ ReportOutcome(w)
               \/ PatchRunStatus(w) \/ FailCall(w)
        PROVE  job' = job
    BY <2>1, Zenon DEF MaterializeManualRun, RecordAttempt, FailRun, CancelPending, RequestCancel,
         ObserveDeletion, RecordCancelUnknown, CloseAttempt, CloseRun, ObserveRun, ReportOutcome,
         PatchRunStatus, FailCall, WritePhase, clusterVars
  <2>2. ASSUME NEW w \in Workers, NEW q \in Runs,
               ReconcileJobRun(w, q) \/ \E m \in AttemptNumbers : ReconcileJob(w, q, m)
        PROVE  job' = job
    BY <2>2, Zenon DEF ReconcileJobRun, ReconcileJob, clusterVars
  <2>3. ASSUME NEW q \in Runs, RecordOccurrence(q) \/ PublishRun(q) \/ TriggerRun(q) \/ RequestStop(q)
        PROVE  job' = job
    BY <2>3, Zenon DEF RecordOccurrence, PublishRun, TriggerRun, RequestStop, clusterVars
  <2>4. ASSUME NEW p \in Replicas,
               \/ \E q \in Runs : DeliverJobRun(p, q)
               \/ \E q \in Runs, m \in AttemptNumbers : DeliverJob(p, q, m)
               \/ Restart(p)
        PROVE  job' = job
    BY <2>4, Zenon DEF DeliverJobRun, DeliverJob, Restart, clusterVars
  <2>5. CASE UNCHANGED vars
    BY <1>1, <2>5, Zenon DEF vars
  <2> QED
    BY <1>1, <1>2, <1>4, <2>1, <2>2, <2>3, <2>4, <2>5, Zenon DEF Next, Continue
<1>6. PICK t \in Task : t = worker[w]
  BY DEF IInv, TypeOK
<1>7. t.run \in Runs /\ t.n + 1 \in AttemptNumbers
  BY <1>5, <1>6, EnsureJobHolds, MaxAttemptsAssumption DEF IInv, EnsureJob, AttemptNumbers
<1> DEFINE new == [uid |-> uids + 1, status |-> "Pending", deletion |-> "none"]
<1>8. job' = [job EXCEPT ![t.run][t.n + 1] = new]
  BY <1>1, <1>5, <1>6, Zenon DEF EnsureJob, NextAttempt
<1>9. new \in JobObject
  BY DEF IInv, TypeOK, JobObject, JobStatus, Deletion
<1> HIDE DEF new
<1>10. r = t.run /\ n = t.n + 1
  BY <1>0, <1>7, <1>8, <1>9, EntryUpdate
<1> QED
  BY <1>5, <1>6, <1>10, Zenon

(* With one replica a Job is started only when every other Job of its run has
   failed or is gone: an occurrence is not executed twice at once, nor again
   after a success. *)
THEOREM StartsOnlyAfterFailureHolds ==
  ASSUME SingleReplica PROVE Spec => StartsOnlyAfterFailure
<1>1. ASSUME IInv, SInv, [Next]_vars, NEW r \in Runs, NEW n \in AttemptNumbers,
             ~Exists(job[r][n]), Exists(job'[r][n]), NEW m \in AttemptNumbers \ {n}
      PROVE  job[r][m].status \in {"Absent", "Failed"}
  <2>1. PICK w \in Workers : EnsureJob(w) /\ worker[w].run = r /\ n = worker[w].n + 1
    BY <1>1, OnlyEnsureJobCreates, Zenon
  <2>2. PICK t \in Task : t = worker[w]
    BY <1>1, Zenon DEF IInv, TypeOK
  <2>3. TaskOK(t) /\ TaskTells(t) /\ t.pc = "ensureJob" /\ t.run = r /\ n = t.n + 1
    BY <1>1, <2>1, <2>2, Zenon DEF IInv, SInv, EnsureJob
  <2>4. /\ t.n \in Nat
        /\ m <= t.n => job[r][m].status = "Failed"
        /\ m > t.n => ~Started(r, m)
    BY <1>1, <2>3, EnsureJobFinds, Zenon
  <2> QED
    BY <2>4 DEF Started, Exists, AttemptNumbers
<1>2. IInv /\ SInv /\ [Next]_vars =>
        [\A r \in Runs : \A n \in AttemptNumbers :
           ~Exists(job[r][n]) /\ Exists(job'[r][n]) =>
             \A m \in AttemptNumbers \ {n} : job[r][m].status \in {"Absent", "Failed"}]_vars
  BY <1>1, Zenon
<1> QED
  BY <1>2, SingleInvariance, PTL DEF Spec, StartsOnlyAfterFailure

=============================================================================
