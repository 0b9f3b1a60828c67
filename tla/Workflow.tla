------------------------------ MODULE Workflow ------------------------------
(***************************************************************************)
(* One occurrence of a workflow: the WorkflowRun object a trigger creates, *)
(* the ledger row the operator materialises from it, the step runs the     *)
(* walker creates in dependency order, and the retainer that prunes the    *)
(* row (internal/operator/workflow*.go, internal/admin/http/workflow_*.go, *)
(* internal/core/store/postgres/workflow_repository.go).  A step is an     *)
(* ordinary job run: how its phase moves is the run reconciler's business  *)
(* and appears here as StepMoves.  Every repository call is one            *)
(* transaction and every Kubernetes call one request, so each is one step. *)
(***************************************************************************)
EXTENDS WorkflowDomain, FiniteSets

CONSTANTS
  Specs,        \* the workflow specs a definition may hold
  Triggered,    \* the ones of them that are not suspended and get triggered
  Revived,      \* those of them whose pruned row is materialised once more
  Definitions,  \* job names with an active definition
  Scheduled,    \* the definitions the schedule loop fires and repairs
  StepMs,       \* how long every step takes
  MaxFaults     \* failed requests and crashes, over all actors

ASSUME WorkflowConstants ==
  /\ Triggered \subseteq Specs /\ Revived \subseteq Triggered /\ Scheduled \subseteq Definitions
  /\ StepMs \in Nat /\ MaxFaults \in Nat

VARIABLES
  dag,       \* the pinned revision's task graph
  order,     \* the order of its tasks, and whether it is admitted: every
  admitted,  \*   reader of the immutable revision computes both afresh
  active,    \* the revision is the workflow's active one
  object,    \* the WorkflowRun: exists, cancelRequested, projected status
  run,       \* the ledger row: id (0: none), phase, task_decisions
  steps,     \* steps[t]: the phase of t's step row, or "none"
  stepObj,   \* stepObj[t]: t's JobRun object: "none", "run" or "stop"
  late,      \* the workflow's own timeout has passed
  walker,    \* the walker's pass over the run
  worker,    \* the reconcile worker holding the WorkflowRun's key
  retainer,  \* the retention sweep
  faults,    \* faults so far
  rows       \* rows materialised so far

wfVars == <<dag, order, admitted, active, object, run, steps, stepObj, late, walker, worker,
            retainer, faults, rows>>
definition == <<dag, order, admitted, active>>

Tasks   == TaskNames(dag)
NoRow   == [id |-> 0, phase |-> "none", decisions |-> <<>>]
Resting == [pc |-> "idle"]

Resolved(phase) == Terminal(phase) \/ phase = "CancelUnknown"
InFlight(phase) == phase # "none" /\ ~Resolved(phase)

WorkflowInit ==
  /\ \E spec \in Specs : dag = DAGFromSpec(spec)
  /\ order = TopologicalSort(dag) /\ admitted = ValidateDAG(dag)
  /\ active = FALSE
  /\ object = [exists |-> FALSE, cancel |-> FALSE, phase |-> ""]
  /\ run = NoRow
  /\ steps = [t \in Tasks |-> "none"] /\ stepObj = [t \in Tasks |-> "none"]
  /\ late = FALSE
  /\ walker = Resting /\ worker = Resting /\ retainer = Resting
  /\ faults = 0 /\ rows = 0

-----------------------------------------------------------------------------
(* The definition.                                                          *)

\* The WorkflowJob's spec becomes the active revision: the projection asks
\* for a schedule and a task, and for nothing else.
ApplyWorkflowJob == dag.tasks # <<>> /\ active' = TRUE

ReconcileWorkflowJob ==
  /\ ~active
  /\ ApplyWorkflowJob
  /\ UNCHANGED <<dag, order, admitted, object, run, steps, stepObj, late, walker, worker,
                 retainer, faults, rows>>

-----------------------------------------------------------------------------
(* The admin API.                                                           *)

\* An object of that name is adopted as it is.
PublishWorkflowRun == object' = [object EXCEPT !.exists = TRUE]

\* A stop is one merge patch of the object; without the object it is refused.
RequestCancel == object.exists /\ object' = [object EXCEPT !.cancel = TRUE]

\* The row behind a run id, looked up before anything else is done with it.
resolveRun == run.id # 0

\* A trigger reads the active revision, refuses a suspended one, and publishes
\* the WorkflowRun; a replay finds it and changes nothing.
TriggerWorkflow ==
  /\ active /\ ~object.exists
  /\ \E spec \in Triggered : dag = DAGFromSpec(spec)
  /\ PublishWorkflowRun
  /\ UNCHANGED <<definition, run, steps, stepObj, late, walker, worker, retainer, faults, rows>>

\* A cancel resolves the ledger row first, answers a finished run with its
\* phase, and otherwise patches cancelRequested onto the object.
CancelWorkflowRun ==
  /\ resolveRun /\ ~WorkflowTerminal(run.phase)
  /\ ~object.cancel /\ RequestCancel
  /\ UNCHANGED <<definition, run, steps, stepObj, late, walker, worker, retainer, faults, rows>>

\* The wall clock passes created_at + timeoutSeconds.
DeadlinePasses ==
  /\ run.id # 0 /\ dag.timeoutSeconds > 0 /\ ~late
  /\ late' = TRUE
  /\ UNCHANGED <<definition, object, run, steps, stepObj, walker, worker, retainer, faults, rows>>

-----------------------------------------------------------------------------
(* The ledger.                                                              *)

\* One row per occurrence: a repeated insert lands on the stored row.
CreateRunForTenant ==
  IF run.id # 0 THEN UNCHANGED <<run, rows, late>>
  ELSE /\ rows' = rows + 1
       /\ run' = [id |-> rows + 1, phase |-> "Pending", decisions |-> <<>>]
       /\ late' = FALSE

\* The rows a reader gets: the run by its occurrence, the open runs, and the
\* steps grouped under a run that still exists.
RunByOccurrence == run
OpenRuns == {r \in {run} : r.id # 0 /\ ~WorkflowTerminal(r.phase)}
Steps(id) == IF id = run.id THEN steps ELSE [t \in Tasks |-> "none"]

\* A step row under a run that exists, deduplicated on its occurrence key.
CreateStepForTenant(id, t) ==
  /\ id = run.id
  /\ steps' = [steps EXCEPT ![t] = IF @ = "none" THEN "Pending" ELSE @]

\* New decisions on top of the recorded ones.
Merged(decided, recorded) ==
  [t \in DOMAIN decided \union DOMAIN recorded |->
     IF t \in DOMAIN decided THEN decided[t] ELSE recorded[t]]

\* Broken: the decision trail is replaced, not merged.
UpdatePhaseReplaces(id, phase, decided) ==
  /\ id = run.id /\ ~WorkflowTerminal(run.phase)
  /\ run' = [id |-> id, phase |-> phase, decisions |-> decided]

\* One guarded write: the row must exist and not be finished, decisions are
\* merged per task.  Disabled is the error the caller gets.
UpdatePhase(id, phase, decided) ==
  /\ id = run.id /\ ~WorkflowTerminal(run.phase)
  /\ run' = [id |-> id, phase |-> phase, decisions |-> Merged(decided, run.decisions)]

UpdateRefused(id) == id # run.id \/ WorkflowTerminal(run.phase)

\* What retention may remove.  Which of them are beyond the kept history
\* depends on the definition's other runs: any of them may be.
RetentionPhases == {"Succeeded", "Failed", "Canceled", "CancelUnknown"}
PrunableRuns == {r \in {run} : r.id # 0 /\ r.phase \in RetentionPhases}

\* The step rows and the row go together, if the row is still there in a
\* phase retention covers; otherwise nothing is touched.
PruneRun(id) ==
  IF run.id = id /\ run.phase \in RetentionPhases
  THEN /\ run' = NoRow
       /\ steps' = [t \in Tasks |-> "none"]
  ELSE UNCHANGED <<run, steps>>

-----------------------------------------------------------------------------
(* ReconcileWorkflowRun.                                                    *)

\* The stop a worker still has to record, given the row it read.
NeedsCancel(cancel, phase) ==
  cancel /\ phase \notin {"CancelRequested", "CancelUnknown"} /\ ~WorkflowTerminal(phase)

\* Broken: a finished run is taken to be projected already.
AfterReadSkipsFinished(cancel, row) ==
  IF WorkflowTerminal(row.phase) THEN Resting
  ELSE [pc |-> IF NeedsCancel(cancel, row.phase) THEN "cancel" ELSE "patch",
        id |-> row.id, phase |-> row.phase]

AfterRead(cancel, row) ==
  [pc |-> IF NeedsCancel(cancel, row.phase) THEN "cancel" ELSE "patch",
   id |-> row.id, phase |-> row.phase]

\* The worker takes the object and looks its row up by occurrence.
ReconcileWorkflowRun ==
  /\ worker = Resting /\ object.exists
  /\ worker' = IF RunByOccurrence.id # 0 THEN AfterRead(object.cancel, RunByOccurrence)
               ELSE [pc |-> "create", cancel |-> object.cancel]
  /\ UNCHANGED <<definition, object, run, steps, stepObj, late, walker, retainer, faults, rows>>

\* No row: one is inserted if the pinned graph is admitted, else the
\* reconcile fails.
materializeWorkflowRun ==
  /\ worker.pc = "create"
  /\ IF ~admitted
     THEN worker' = Resting /\ UNCHANGED <<run, rows, late>>
     ELSE /\ rows <= Cardinality({spec \in Revived : dag = DAGFromSpec(spec)})
          /\ CreateRunForTenant
          /\ worker' = AfterRead(worker.cancel, run')
  /\ UNCHANGED <<definition, object, steps, stepObj, walker, retainer, faults>>

\* The stop request reaches the row, unless the run finished meanwhile.
RecordCancelRequest ==
  /\ worker.pc = "cancel"
  /\ \/ /\ UpdatePhase(worker.id, "CancelRequested", <<>>)
        /\ worker' = [worker EXCEPT !.pc = "patch", !.phase = "CancelRequested"]
     \/ UpdateRefused(worker.id) /\ worker' = Resting /\ UNCHANGED run
  /\ UNCHANGED <<definition, object, steps, stepObj, late, walker, retainer, faults, rows>>

\* The read model both writers patch onto the object: the phase they hold in
\* memory (and the steps, read afresh, which nothing here depends on).
workflowStatus(phase) == [object EXCEPT !.phase = phase]

patchWorkflowStatus ==
  /\ worker.pc = "patch"
  /\ object' = workflowStatus(worker.phase)
  /\ worker' = Resting
  /\ UNCHANGED <<definition, run, steps, stepObj, late, walker, retainer, faults, rows>>

-----------------------------------------------------------------------------
(* The walker's pass.                                                       *)

\* Tick lists the open runs; the row it saw is what the pass works from.
WalkerTick ==
  /\ walker = Resting
  /\ \E r \in OpenRuns : walker' = [pc |-> "steps", seen |-> r]
  /\ UNCHANGED <<definition, object, run, steps, stepObj, late, worker, retainer, faults, rows>>

\* What conditions and the roll-up see: the resolved steps, with a duration
\* only when a rule asks for one and the outcome could be read.
HasDurationRules ==
  \E i \in DOMAIN dag.tasks : \E j \in DOMAIN dag.tasks[i].condition.rules :
    dag.tasks[i].condition.rules[j].field = "duration_ms"
stepFacts(found, readable) ==
  [t \in {u \in Tasks : found[u] # "none" /\ Resolved(found[u])} |->
     [phase |-> found[t], attempt |-> 1,
      durationMs |-> IF HasDurationRules /\ Terminal(found[t]) /\ readable THEN StepMs ELSE 0]]

\* The empty reason: nothing speaks against the task.
NoReason == "no_reason"

sweepStopReason(canceling, failFastTripped, deadlinePassed) ==
  IF canceling THEN "canceled"
  ELSE IF failFastTripped THEN "fail_fast"
  ELSE IF deadlinePassed THEN "deadline"
  ELSE NoReason

\* Broken: a task waits for the first of its dependencies only.
dependenciesResolvedFirst(task, states, skipped) ==
  task.dependsOn = <<>> \/ task.dependsOn[1] \in DOMAIN states \union skipped

\* Broken: a task whose dependency was skipped keeps waiting for its step.
dependenciesResolvedByStep(task, states, skipped) ==
  Range(task.dependsOn) \subseteq DOMAIN states

dependenciesResolved(task, states, skipped) ==
  \A dep \in Range(task.dependsOn) : dep \in DOMAIN states \union skipped

\* A skipped dependency cascades; otherwise the condition decides.
taskSkipReason(task, states, skipped) ==
  IF \E dep \in Range(task.dependsOn) : dep \notin DOMAIN states /\ dep \in skipped
  THEN "condition"
  ELSE CASE EvaluateCondition(task.condition, states) = "pass"  -> NoReason
         [] EvaluateCondition(task.condition, states) = "fail"  -> "condition"
         [] OTHER                                               -> "error"

\* Broken: a decision recorded by an earlier pass is taken anew.
SettledBeforeStepOnly(seen, found, t) == found[t] # "none"

\* A task with a step or a recorded decision is not visited again.
SettledBefore(seen, found, t) == found[t] # "none" \/ t \in DOMAIN seen.decisions

SkipReasons == {"canceled", "fail_fast", "deadline", "condition"}

\* What the pass makes of the i-th task, given its verdicts on those before:
\* leave it, give it a step, skip it for a reason, or end the sweep because
\* its condition cannot be evaluated.
Visit(seen, found, states, deadlinePassed, verdicts, i) ==
  LET task      == TaskNamed(dag, order[i])
      skipped   == DOMAIN seen.decisions
                     \union {order[j] : j \in {k \in 1 .. i - 1 : verdicts[k] \in SkipReasons}}
      canceling == seen.phase \in {"CancelRequested", "CancelUnknown"}
      failFast  == dag.failPolicy = "FailFast" /\ \E t \in Tasks : found[t] = "Failed"
      stop      == sweepStopReason(canceling, failFast, deadlinePassed)
      reason    == IF stop # NoReason THEN stop ELSE taskSkipReason(task, states, skipped)
  IN  IF \/ \E j \in 1 .. i - 1 : verdicts[j] = "error"
         \/ SettledBefore(seen, found, order[i])
         \/ ~dependenciesResolved(task, states, skipped)
      THEN "leave"
      ELSE IF reason = NoReason THEN "create" ELSE reason

\* The sweep in topological order, visit by visit, and the equation its
\* verdicts satisfy: each is the one the verdicts before it lead to.
Sweep(seen, found, states, deadlinePassed) ==
  LET verdicts[i \in DOMAIN order] == Visit(seen, found, states, deadlinePassed, verdicts, i)
  IN  verdicts
IsSweep(seen, found, states, deadlinePassed, verdicts) ==
  \A i \in DOMAIN order : verdicts[i] = Visit(seen, found, states, deadlinePassed, verdicts, i)

\* The positions a sweep found ready for a step.
Creates(verdicts) == {i \in DOMAIN order : verdicts[i] = "create"}

\* The decisions among the verdicts.
Skips(verdicts) ==
  LET skipping == {i \in DOMAIN order : verdicts[i] \in SkipReasons}
  IN  [t \in {order[i] : i \in skipping} |-> verdicts[CHOOSE i \in skipping : order[i] = t]]

\* The phase recordOutcome writes: a verdict, CancelUnknown, Running once
\* something happened, or the phase the pass started from.
NextPhase(seen, found, states, creates, skips) ==
  LET derived == DerivePhase(Tasks, states, Merged(skips, seen.decisions))
  IN  IF WorkflowTerminal(derived) \/ derived = "CancelUnknown" THEN derived
      ELSE IF seen.phase = "Pending" /\ (creates \/ DOMAIN skips # {}
                                         \/ \E t \in Tasks : found[t] # "none")
      THEN "Running"
      ELSE seen.phase

\* The pass a sweep plans: the rows to insert, whether the sweep stopped on an
\* error, the in-flight tasks to cancel (by position), and what recordOutcome
\* will write.
Pass(seen, found, passed, verdicts, skips, next) ==
  [pc |-> "pass", id |-> seen.id, create |-> Creates(verdicts),
   aborts |-> \E i \in DOMAIN order : verdicts[i] = "error",
   fan |-> IF passed \/ seen.phase \in {"CancelRequested", "CancelUnknown"}
           THEN {i \in DOMAIN dag.tasks : InFlight(found[dag.tasks[i].name])} ELSE {},
   skips |-> skips, next |-> next,
   writes |-> next # seen.phase \/ DOMAIN skips # {}]

\* advanceRun up to its first write: the steps are read, and everything the
\* pass will do follows from what it read.
advanceRun ==
  /\ walker.pc = "steps"
  /\ UNCHANGED <<definition, object, run, steps, stepObj, late, worker, retainer, rows>>
  /\ \E readable \in BOOLEAN, seen \in {walker.seen}, found \in {Steps(walker.seen.id)} :
       /\ readable \/ (HasDurationRules /\ faults < MaxFaults)
       /\ faults' = IF readable THEN faults ELSE faults + 1
       /\ \E facts \in {stepFacts(found, readable)} :
          \E verdicts \in {Sweep(seen, found, facts, late)} :
          \E skips \in {Skips(verdicts)} :
          \E next \in {NextPhase(seen, found, facts, Creates(verdicts) # {}, skips)} :
            /\ IsSweep(seen, found, facts, late, verdicts)
            /\ walker' = Pass(seen, found, late, verdicts, skips, next)

\* The next of the positions a pass still has to work through.
FirstOf(positions) == {i \in positions : \A j \in positions : i <= j}

\* createStep, first half: the row, deduplicated on the occurrence key.  An
\* unknown definition, or a workflow row that is gone, fails the pass.
createStep ==
  /\ walker.pc = "pass"
  /\ \E i \in FirstOf(walker.create) :
     LET t == order[i]
         known == TaskNamed(dag, t).jobRef \in Definitions
     IN  \/ /\ known /\ CreateStepForTenant(walker.id, t)
            /\ walker' = [walker EXCEPT !.pc = "publish"]
         \/ (~known \/ walker.id # run.id) /\ walker' = Resting /\ UNCHANGED steps
  /\ UNCHANGED <<definition, object, run, stepObj, late, worker, retainer, faults, rows>>

\* createStep, second half: the JobRun object; one that exists is kept.
PublishStep ==
  /\ walker.pc = "publish"
  /\ \E i \in FirstOf(walker.create) :
       /\ stepObj' = [stepObj EXCEPT ![order[i]] = IF @ = "none" THEN "run" ELSE @]
       /\ walker' = [walker EXCEPT !.pc = "pass", !.create = @ \ {i}]
  /\ UNCHANGED <<definition, object, run, steps, late, worker, retainer, faults, rows>>

\* A condition the sweep could not evaluate ends the pass here, after the
\* steps before it were created and before anything is recorded.
AbortPass ==
  /\ walker.pc = "pass" /\ walker.create = {} /\ walker.aborts
  /\ walker' = Resting
  /\ UNCHANGED <<definition, object, run, steps, stepObj, late, worker, retainer, faults, rows>>

\* The stop is patched onto each step seen in flight; no object, no patch.
fanCancel ==
  /\ walker.pc = "pass" /\ walker.create = {} /\ ~walker.aborts
  /\ \E i \in FirstOf(walker.fan) :
       /\ stepObj' = [stepObj EXCEPT ![dag.tasks[i].name] = IF @ = "run" THEN "stop" ELSE @]
       /\ walker' = [walker EXCEPT !.fan = @ \ {i}]
  /\ UNCHANGED <<definition, object, run, steps, late, worker, retainer, faults, rows>>

\* The pass's one write, then the projection; a refused write ends the pass.
recordOutcome ==
  /\ walker.pc = "pass" /\ walker.create = {} /\ ~walker.aborts /\ walker.fan = {}
  /\ \/ /\ walker.writes
        /\ UpdatePhase(walker.id, walker.next, walker.skips)
        /\ walker' = IF run' # run \/ DOMAIN walker.skips # {}
                     THEN [pc |-> "project", phase |-> walker.next] ELSE Resting
     \/ /\ ~walker.writes \/ UpdateRefused(walker.id)
        /\ walker' = Resting /\ UNCHANGED run
  /\ UNCHANGED <<definition, object, steps, stepObj, late, worker, retainer, faults, rows>>

ProjectStatus ==
  /\ walker.pc = "project"
  /\ object' = workflowStatus(walker.phase)
  /\ walker' = Resting
  /\ UNCHANGED <<definition, run, steps, stepObj, late, worker, retainer, faults, rows>>

-----------------------------------------------------------------------------
(* The steps' own life, which other parts of the operator drive.            *)

\* The run reconciler moves a step that has its object: it runs and ends, or
\* obeys a stop; a stop it could not confirm may still turn into an outcome.
StepSuccessors(phase, stopped) ==
  CASE phase = "Pending" -> IF stopped THEN {"CancelRequested"} ELSE {"Running"}
    [] phase = "Running" -> {"Succeeded", "Failed"} \union (IF stopped THEN {"CancelRequested"} ELSE {})
    [] phase = "CancelRequested" -> {"Canceled", "CancelUnknown"}
    [] OTHER -> {}
StepMoves(t) ==
  /\ stepObj[t] # "none"
  /\ \E next \in StepSuccessors(steps[t], stepObj[t] = "stop") :
       steps' = [steps EXCEPT ![t] = next]
  /\ UNCHANGED <<definition, object, run, stepObj, late, walker, worker, retainer, faults, rows>>
StepUnknownResolves(t) ==
  /\ stepObj[t] # "none" /\ steps[t] = "CancelUnknown"
  /\ steps' = [steps EXCEPT ![t] = "Failed"]
  /\ UNCHANGED <<definition, object, run, stepObj, late, walker, worker, retainer, faults, rows>>

\* The schedule loop republishes an open run of a definition it fires.
repairOpenRuns(t) ==
  /\ steps[t] # "none" /\ ~Terminal(steps[t]) /\ stepObj[t] = "none"
  /\ TaskNamed(dag, t).jobRef \in Scheduled
  /\ stepObj' = [stepObj EXCEPT ![t] = "run"]
  /\ UNCHANGED <<definition, object, run, steps, late, walker, worker, retainer, faults, rows>>

-----------------------------------------------------------------------------
(* Retention.                                                               *)

\* The run is listed once enough newer runs ended the way it did.
pruneDefinition ==
  /\ retainer = Resting
  /\ \E r \in PrunableRuns :
       retainer' = [pc |-> "objects", id |-> r.id,
                    todo |-> {t \in Tasks : Steps(r.id)[t] # "none"}]
  /\ UNCHANGED <<definition, object, run, steps, stepObj, late, walker, worker, faults, rows>>

\* The steps' objects go first; one that is gone already is fine.
removeStepObjects ==
  /\ retainer.pc = "objects" /\ retainer.todo # {}
  /\ \E t \in retainer.todo :
       /\ stepObj' = [stepObj EXCEPT ![t] = IF TaskNamed(dag, t).jobRef \in Definitions
                                            THEN "none" ELSE @]
       /\ retainer' = [retainer EXCEPT !.todo = @ \ {t}]
  /\ UNCHANGED <<definition, object, run, steps, late, walker, worker, faults, rows>>

DeleteRun ==
  /\ retainer.pc = "objects" /\ retainer.todo = {}
  /\ PruneRun(retainer.id)
  /\ retainer' = Resting
  /\ UNCHANGED <<definition, object, stepObj, late, walker, worker, faults, rows>>

-----------------------------------------------------------------------------
(* Faults: a request fails or a replica dies; the actor starts over.        *)

Fault ==
  /\ faults < MaxFaults /\ faults' = faults + 1
  /\ UNCHANGED <<definition, object, run, steps, stepObj, late, rows>>
WalkerFails   == walker # Resting /\ Fault /\ walker' = Resting /\ UNCHANGED <<worker, retainer>>
WorkerFails   == worker # Resting /\ Fault /\ worker' = Resting /\ UNCHANGED <<walker, retainer>>
RetainerFails == retainer # Resting /\ Fault /\ retainer' = Resting /\ UNCHANGED <<walker, worker>>

WalkerStep ==
  \/ WalkerTick \/ advanceRun \/ createStep \/ PublishStep
  \/ AbortPass \/ fanCancel \/ recordOutcome \/ ProjectStatus
WorkerStep ==
  \/ ReconcileWorkflowRun \/ materializeWorkflowRun \/ RecordCancelRequest \/ patchWorkflowStatus
RetainerStep == pruneDefinition \/ removeStepObjects \/ DeleteRun
StepsMove == \E t \in Tasks : StepMoves(t) \/ repairOpenRuns(t)

WorkflowNext ==
  \/ ReconcileWorkflowJob \/ TriggerWorkflow \/ CancelWorkflowRun \/ DeadlinePasses
  \/ WorkerStep \/ WalkerStep \/ RetainerStep \/ StepsMove
  \/ \E t \in Tasks : StepUnknownResolves(t)
  \/ WalkerFails \/ WorkerFails \/ RetainerFails

\* Both loops tick for as long as the operator runs, the informer's resync
\* delivers the object again and again, and the steps with an object end: a
\* step moves a few times only, so fairness to all of them is fair to each.
WorkflowFairness ==
  /\ WF_wfVars(WalkerStep)
  /\ WF_wfVars(WorkerStep)
  /\ WF_wfVars(StepsMove)

WorkflowSpec == WorkflowInit /\ [][WorkflowNext]_wfVars /\ WorkflowFairness

-----------------------------------------------------------------------------
(* Properties.                                                              *)

Cyclic ==
  \E S \in SUBSET Tasks : S # {} /\ \A t \in S : DependsOn(dag, t) \intersect S # {}

(* ValidateDAG's depth-first search and the walker's topological sort agree
   about every task graph: a graph is refused exactly when some set of
   tasks only waits on itself, and without one the sort visits every task
   once, after everything it depends on. *)
AdmissionAndOrderAgree ==
  LET Position(t) == CHOOSE i \in DOMAIN order : order[i] = t
  IN  /\ admitted = ~Cyclic
      /\ Cyclic <=> Len(order) < Len(dag.tasks)
      /\ ~Cyclic => /\ IsInjective(order) /\ Range(order) = Tasks
                    /\ \A t \in Tasks : \A d \in DependsOn(dag, t) : Position(d) < Position(t)

(* A step exists only when everything its task depends on has ended, whatever
   passes were cut short, pruned or repeated on the way (advanceRun,
   dependenciesResolved). *)
StepsFollowDependencies ==
  \A t \in Tasks : steps[t] # "none" =>
    \A d \in DependsOn(dag, t) : steps[d] # "none" /\ Resolved(steps[d])

(* A task recorded as skipped has no step, then or later: the decision trail
   and the step rows never tell two stories about one task, although they are
   written by separate transactions of a pass that may die in between. *)
SkippedNeverRuns ==
  \A t \in Tasks : t \in DOMAIN run.decisions => steps[t] = "none"

(* A finished workflow is accounted for: every task ended or was skipped, and
   the verdict is the one the steps carry, even though it was derived from
   rows read before the stops, the cancel and the write (DerivePhase). *)
VerdictIsEarned ==
  WorkflowTerminal(run.phase) =>
    /\ \A t \in Tasks : Terminal(steps[t]) \/ t \in DOMAIN run.decisions
    /\ (run.phase = "Failed") <=> \E t \in Tasks : steps[t] = "Failed"
    /\ run.phase = "Succeeded" =>
         \A t \in Tasks : /\ steps[t] # "Canceled"
                          /\ t \in DOMAIN run.decisions => run.decisions[t] # "canceled"

(* A decision, once recorded, stays as it was while the row lives: two passes
   deciding different tasks compose (the jsonb merge of UpdatePhase). *)
DecisionsStick ==
  [][run'.id = run.id => \A t \in DOMAIN run.decisions :
       t \in DOMAIN run'.decisions /\ run'.decisions[t] = run.decisions[t]]_wfVars

(* Every workflow comes to rest: it finishes, is pruned, or waits for a step
   whose stop could not be confirmed.  Crashes, lost requests and a stop at
   any point do not leave it open for ever; a condition that cannot be
   evaluated does, and no admission check of the code refuses one. *)
WorkflowSettles ==
  <>[]\/ run.id = 0 \/ WorkflowTerminal(run.phase)
      \/ \E t \in Tasks : steps[t] = "CancelUnknown"
      \/ ~WorkflowJobSpecValidate(dag)

(* The WorkflowRun's status ends up showing the row's phase: the two writers
   of it, the walker and the reconciler, may overtake one another, and the
   resync repairs what they leave behind. *)
WorkflowStatusCatchesUp ==
  <>[](object.exists /\ run.id # 0 => object.phase = run.phase)

(* "a crash between the two leaves a row the next tick re-publishes for"
   (createStep): a step row without its object does not stay that way while
   the workflow is going. *)
StrandedStepRepublished ==
  <>[](run.phase \notin RetentionPhases =>
         \A t \in Tasks : InFlight(steps[t]) => stepObj[t] # "none")

=============================================================================
