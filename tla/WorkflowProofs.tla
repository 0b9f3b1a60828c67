--------------------------- MODULE WorkflowProofs ---------------------------
(***************************************************************************)
(* What holds of a workflow whatever its task graph, its definitions and   *)
(* the number of faults: the walker's passes, each working from rows it    *)
(* read once, keep the steps, the decision trail and the verdict in        *)
(* agreement.  The first half needs nothing about the order of the sweep;  *)
(* the second needs that the sort visits a task at most once.              *)
(***************************************************************************)
EXTENDS Workflow, TLAPS

-----------------------------------------------------------------------------
(* The sweep.                                                               *)

\* A sweep gives a step only to a task without one, without a decision, and
\* whose every dependency has ended (advanceRun).
LEMMA CreateVerdict ==
  ASSUME NEW seen, NEW found, NEW states, NEW passed, NEW verdicts,
         IsSweep(seen, found, states, passed, verdicts),
         NEW i \in DOMAIN order, verdicts[i] = "create"
  PROVE  /\ ~SettledBefore(seen, found, order[i])
         /\ \A d \in DependsOn(dag, order[i]) : d \in DOMAIN states
<1> DEFINE task == TaskNamed(dag, order[i])
           skipped == DOMAIN seen.decisions
                        \union {order[j] : j \in {k \in 1 .. i - 1 : verdicts[k] \in SkipReasons}}
<1>1. verdicts[i] = Visit(seen, found, states, passed, verdicts, i)
  BY Zenon DEF IsSweep
<1>2. /\ ~SettledBefore(seen, found, order[i])
      /\ dependenciesResolved(task, states, skipped)
      /\ taskSkipReason(task, states, skipped) \in {"create", NoReason}
  BY <1>1, Zenon DEF Visit, sweepStopReason, NoReason
<1> HIDE DEF task, skipped
<1>3. ASSUME NEW d \in Range(task.dependsOn) PROVE d \in DOMAIN states
  BY <1>2, Zenon DEF dependenciesResolved, taskSkipReason, NoReason
<1> QED
  BY <1>2, <1>3, Zenon DEF DependsOn, task

\* A sweep decides to skip only a task without a step and without a decision.
LEMMA SkipVerdict ==
  ASSUME NEW seen, NEW found, NEW states, NEW passed, NEW verdicts,
         IsSweep(seen, found, states, passed, verdicts),
         NEW i \in DOMAIN order, verdicts[i] \in SkipReasons
  PROVE  ~SettledBefore(seen, found, order[i])
<1>1. verdicts[i] = Visit(seen, found, states, passed, verdicts, i)
  BY Zenon DEF IsSweep
<1> QED
  BY <1>1, Zenon DEF Visit, SkipReasons

\* The decisions of a sweep are about tasks it decided to skip.
LEMMA SkipsAreVerdicts ==
  ASSUME NEW verdicts, NEW t \in DOMAIN Skips(verdicts)
  PROVE  \E i \in DOMAIN order : order[i] = t /\ verdicts[i] \in SkipReasons
BY Zenon DEF Skips

-----------------------------------------------------------------------------
(* The steps and the row.                                                   *)

\* Everything task t depends on has ended.
Ready(t) == \A d \in DependsOn(dag, t) : d \in Tasks /\ Resolved(steps[d])

SameDecisions(f, g) == DOMAIN f = DOMAIN g /\ \A t \in DOMAIN f : f[t] = g[t]

LedgerOk ==
  /\ rows \in Nat /\ run.id \in 0 .. rows
  /\ run.id = 0 => DOMAIN run.decisions = {}
  /\ DOMAIN steps = Tasks

StepsReady == \A t \in Tasks : steps[t] # "none" => Ready(t)

\* A walker that has listed a run and not read its steps: nobody else writes
\* decisions, so the ones it saw are the row's for as long as the row lives.
SeenOk ==
  walker.pc = "steps" =>
    /\ walker.seen.id \in 1 .. rows
    /\ walker.seen.id = run.id => SameDecisions(walker.seen.decisions, run.decisions)

\* A walker in its pass: while the row it read lives, the steps it is about
\* to create are ready and the decisions it is about to record are new.
PassFields == {"pc", "id", "create", "aborts", "fan", "skips", "next", "writes"}
PassOk ==
  walker.pc \in {"pass", "publish"} =>
    /\ PassFields \subseteq DOMAIN walker
    /\ walker.id \in 1 .. rows
    /\ walker.id = run.id =>
         /\ \A i \in walker.create : Ready(order[i])
         /\ \A t \in DOMAIN walker.skips : t \notin DOMAIN run.decisions

PaceInv == LedgerOk /\ StepsReady /\ SeenOk /\ PassOk

\* What the invariants of this module speak about.
walkVars == <<dag, order, run, steps, walker, rows>>

\* A step's own moves (StepMoves, StepUnknownResolves, the run reconciler):
\* what has ended stays ended, and none appears or goes.
LEMMA MovesKeep ==
  ASSUME DOMAIN steps = Tasks, NEW t \in Tasks, StepMoves(t) \/ StepUnknownResolves(t)
  PROVE  /\ UNCHANGED <<dag, order, run, walker, rows>>
         /\ DOMAIN steps' = Tasks
         /\ \A u \in Tasks : /\ Resolved(steps[u]) => Resolved(steps'[u])
                             /\ Terminal(steps[u]) => steps'[u] = steps[u]
                             /\ steps[u] = "none" <=> steps'[u] = "none"
<1>1. UNCHANGED <<dag, order, run, walker, rows>>
  BY Zenon DEF StepMoves, StepUnknownResolves, definition
<1>2. PICK next : /\ steps' = [steps EXCEPT ![t] = next]
                  /\ ~Terminal(steps[t]) /\ steps[t] # "none" /\ next # "none"
                  /\ Resolved(steps[t]) => Resolved(next)
  <2>1. CASE StepMoves(t)
    <3>1. PICK next \in StepSuccessors(steps[t], stepObj[t] = "stop") :
            steps' = [steps EXCEPT ![t] = next]
      BY <2>1, Zenon DEF StepMoves
    <3>2. /\ ~Terminal(steps[t]) /\ steps[t] # "none" /\ next # "none"
          /\ ~Resolved(steps[t])
      BY <3>1, Zenon DEF StepSuccessors, Resolved, Terminal
    <3> QED
      BY <3>1, <3>2, Zenon
  <2>2. CASE StepUnknownResolves(t)
    BY <2>2, Zenon DEF StepUnknownResolves, Terminal, Resolved
  <2> QED
    BY <2>1, <2>2, Zenon
<1> QED
  BY <1>1, <1>2, Zenon

\* The row a trigger's reconcile inserts (materializeWorkflowRun).
LEMMA MaterializeMakes ==
  ASSUME LedgerOk, materializeWorkflowRun
  PROVE  /\ UNCHANGED <<dag, order, steps, walker>>
         /\ \/ UNCHANGED <<run, rows>>
            \/ /\ run.id = 0 /\ rows' = rows + 1
               /\ run' = [id |-> rows + 1, phase |-> "Pending", decisions |-> <<>>]
BY Zenon DEF materializeWorkflowRun, CreateRunForTenant, definition

\* A delete takes the row and its steps together or leaves both (DeleteRun).
LEMMA DeleteTakes ==
  ASSUME DeleteRun
  PROVE  /\ UNCHANGED <<dag, order, walker, rows>>
         /\ \/ UNCHANGED <<run, steps>>
            \/ /\ run.phase \in RetentionPhases
               /\ run' = NoRow /\ steps' = [t \in Tasks |-> "none"]
BY Zenon DEF DeleteRun, PruneRun, definition

\* The stop request's write keeps every decision (RecordCancelRequest).
LEMMA CancelWrites ==
  ASSUME RecordCancelRequest
  PROVE  /\ UNCHANGED <<dag, order, steps, walker, rows>>
         /\ \/ UNCHANGED run
            \/ /\ ~WorkflowTerminal(run.phase)
               /\ run'.id = run.id /\ run'.phase = "CancelRequested"
               /\ SameDecisions(run'.decisions, run.decisions)
               /\ run' = [id |-> run.id, phase |-> "CancelRequested", decisions |-> run'.decisions]
<1>1. CASE UpdatePhase(worker.id, "CancelRequested", <<>>)
  <2>1. run' = [id |-> run.id, phase |-> "CancelRequested",
                decisions |-> Merged(<<>>, run.decisions)]
    BY <1>1, Zenon DEF UpdatePhase
  <2>2. SameDecisions(Merged(<<>>, run.decisions), run.decisions)
    BY DEF SameDecisions, Merged
  <2> QED
    BY <1>1, <2>1, <2>2 DEF RecordCancelRequest, UpdatePhase, definition
<1>2. CASE UNCHANGED run
  BY <1>2, Zenon DEF RecordCancelRequest, definition
<1> QED
  BY <1>1, <1>2, Zenon DEF RecordCancelRequest

-----------------------------------------------------------------------------
(* The steps of a pass.                                                     *)

\* Reading the steps settles what the pass will do (advanceRun).
LEMMA AdvancePlans ==
  ASSUME advanceRun
  PROVE  /\ walker.pc = "steps"
         /\ UNCHANGED <<dag, order, run, steps, rows>>
         /\ \E readable \in BOOLEAN : \E verdicts :
              LET seen  == walker.seen
                  found == Steps(seen.id)
                  facts == stepFacts(found, readable)
                  creates == {i \in DOMAIN order : verdicts[i] = "create"}
              IN  /\ IsSweep(seen, found, facts, late, verdicts)
                  /\ PassFields \subseteq DOMAIN walker'
                  /\ walker'.pc = "pass" /\ walker'.id = seen.id
                  /\ walker'.create = creates /\ walker'.skips = Skips(verdicts)
                  /\ walker'.next = NextPhase(seen, found, facts, creates # {}, Skips(verdicts))
<1>1. walker.pc = "steps" /\ UNCHANGED <<dag, order, run, steps, rows>>
  BY Zenon DEF advanceRun, definition
<1>2. PICK readable \in BOOLEAN, seen \in {walker.seen}, found \in {Steps(walker.seen.id)} :
        \E facts \in {stepFacts(found, readable)} :
        \E verdicts \in {Sweep(seen, found, facts, late)} :
        \E skips \in {Skips(verdicts)} :
        \E next \in {NextPhase(seen, found, facts, Creates(verdicts) # {}, skips)} :
          /\ IsSweep(seen, found, facts, late, verdicts)
          /\ walker' = Pass(seen, found, late, verdicts, skips, next)
  BY DEF advanceRun
<1>3. PICK verdicts, next :
        LET facts == stepFacts(found, readable)
        IN  /\ IsSweep(seen, found, facts, late, verdicts)
            /\ next = NextPhase(seen, found, facts, Creates(verdicts) # {}, Skips(verdicts))
            /\ walker' = Pass(seen, found, late, verdicts, Skips(verdicts), next)
  BY <1>2, Zenon
<1>4. /\ PassFields \subseteq DOMAIN walker'
      /\ walker'.pc = "pass" /\ walker'.id = seen.id
      /\ walker'.create = Creates(verdicts) /\ walker'.skips = Skips(verdicts)
      /\ walker'.next = next
  BY <1>3, Zenon DEF PassFields, Pass
<1> QED
  BY <1>1, <1>3, <1>4 DEF Creates

\* The pass stays what it was, apart from what it has worked off.
PassGoesOn ==
  /\ PassFields \subseteq DOMAIN walker'
  /\ walker'.pc \in {"pass", "publish"}
  /\ walker'.id = walker.id /\ walker'.create \subseteq walker.create
  /\ walker'.skips = walker.skips /\ walker'.next = walker.next

\* The step row a pass creates is one it planned, under its own run (createStep).
LEMMA CreateAdds ==
  ASSUME PassOk, createStep
  PROVE  /\ walker.pc = "pass"
         /\ UNCHANGED <<dag, order, run, rows>>
         /\ \/ walker' = Resting /\ UNCHANGED steps
            \/ /\ walker.id = run.id /\ PassGoesOn
               /\ \E i \in walker.create :
                    steps' = [steps EXCEPT ![order[i]] = IF @ = "none" THEN "Pending" ELSE @]
<1>1. walker.pc = "pass" /\ UNCHANGED <<dag, order, run, rows>>
  BY Zenon DEF createStep, definition
<1>2. PICK i \in walker.create :
        \/ /\ walker.id = run.id
           /\ steps' = [steps EXCEPT ![order[i]] = IF @ = "none" THEN "Pending" ELSE @]
           /\ walker' = [walker EXCEPT !.pc = "publish"]
        \/ walker' = Resting /\ UNCHANGED steps
  BY Zenon DEF createStep, FirstOf, CreateStepForTenant
<1>3. ASSUME walker' = [walker EXCEPT !.pc = "publish"] PROVE PassGoesOn
  BY <1>1, <1>3, Zenon DEF PassOk, PassFields, PassGoesOn
<1> QED
  BY <1>1, <1>2, <1>3, Zenon

\* Publishing an object and patching a stop leave the ledger alone.
LEMMA ObjectSteps ==
  ASSUME PassOk, PublishStep \/ fanCancel
  PROVE  /\ walker.pc \in {"pass", "publish"} /\ PassGoesOn
         /\ UNCHANGED <<dag, order, run, steps, rows>>
<1>1. walker.pc \in {"pass", "publish"} /\ UNCHANGED <<dag, order, run, steps, rows>>
  BY Zenon DEF PublishStep, fanCancel, definition
<1>2. CASE PublishStep
  <2>1. PICK i : walker' = [walker EXCEPT !.pc = "pass", !.create = @ \ {i}]
    BY <1>2, Zenon DEF PublishStep
  <2> QED
    BY <1>1, <2>1, Zenon DEF PassOk, PassFields, PassGoesOn
<1>3. CASE fanCancel
  <2>1. PICK i : walker' = [walker EXCEPT !.fan = @ \ {i}]
    BY <1>3, Zenon DEF fanCancel
  <2> QED
    BY <1>1, <2>1, Zenon DEF PassOk, PassFields, PassGoesOn
<1> QED
  BY <1>1, <1>2, <1>3, Zenon

\* What a pass records (recordOutcome).
LEMMA OutcomeWrites ==
  ASSUME recordOutcome
  PROVE  /\ walker.pc = "pass"
         /\ UNCHANGED <<dag, order, steps, rows>>
         /\ walker' = Resting \/ walker'.pc = "project"
         /\ \/ UNCHANGED run
            \/ /\ walker.id = run.id /\ ~WorkflowTerminal(run.phase)
               /\ run' = [id |-> run.id, phase |-> walker.next,
                          decisions |-> Merged(walker.skips, run.decisions)]
<1>1. walker.pc = "pass" /\ UNCHANGED <<dag, order, steps, rows>>
  BY Zenon DEF recordOutcome, definition
<1>2. walker' = Resting \/ walker' = [pc |-> "project", phase |-> walker.next]
  BY Zenon DEF recordOutcome
<1> QED
  BY <1>1, <1>2 DEF recordOutcome, UpdatePhase

\* A pass, or a walker, that is given up leaves nothing else changed.
LEMMA WalkerRests ==
  ASSUME AbortPass \/ ProjectStatus \/ WalkerFails
  PROVE  walker' = Resting /\ UNCHANGED <<dag, order, run, steps, rows>>
BY Zenon DEF AbortPass, ProjectStatus, WalkerFails, Fault, definition

\* The steps nobody here has to follow: the API, the workers' and the
\* retainer's own bookkeeping, the objects.
OtherStep ==
  \/ ReconcileWorkflowJob \/ TriggerWorkflow \/ CancelWorkflowRun \/ DeadlinePasses
  \/ ReconcileWorkflowRun \/ patchWorkflowStatus \/ pruneDefinition \/ removeStepObjects
  \/ \E t \in Tasks : repairOpenRuns(t)
  \/ WorkerFails \/ RetainerFails \/ UNCHANGED wfVars

\* None of them touches the rows, the steps or the walker.
LEMMA OthersKeep ==
  ASSUME OtherStep
  PROVE  UNCHANGED walkVars
<1>1. CASE ReconcileWorkflowJob \/ TriggerWorkflow \/ CancelWorkflowRun \/ DeadlinePasses
  BY <1>1, Zenon DEF ReconcileWorkflowJob, TriggerWorkflow, CancelWorkflowRun, DeadlinePasses,
                     definition, walkVars
<1>2. CASE ReconcileWorkflowRun \/ patchWorkflowStatus \/ pruneDefinition \/ removeStepObjects
  BY <1>2, Zenon DEF ReconcileWorkflowRun, patchWorkflowStatus, pruneDefinition,
                     removeStepObjects, definition, walkVars
<1>3. CASE \/ \E t \in Tasks : repairOpenRuns(t)
           \/ WorkerFails \/ RetainerFails \/ UNCHANGED wfVars
  BY <1>3, Zenon DEF repairOpenRuns, WorkerFails, RetainerFails, Fault, definition, walkVars, wfVars
<1> QED
  BY <1>1, <1>2, <1>3, Zenon DEF OtherStep

-----------------------------------------------------------------------------
(* Pace: no step before its dependencies, no decision taken twice.          *)

\* A workflow starts with no row and no step.
LEMMA PaceInit == WorkflowInit => PaceInv
<1> SUFFICES ASSUME WorkflowInit PROVE PaceInv
  BY Zenon
<1>1. /\ run = NoRow /\ steps = [t \in Tasks |-> "none"]
      /\ walker = Resting /\ rows = 0
  BY Zenon DEF WorkflowInit
<1> QED
  BY <1>1 DEF PaceInv, LedgerOk, StepsReady, SeenOk, PassOk, NoRow, Resting

\* The disjuncts of the next-state relation, grouped by what they touch.
LEMMA NextCases ==
  ASSUME [WorkflowNext]_wfVars
  PROVE  \/ OtherStep
         \/ materializeWorkflowRun \/ RecordCancelRequest \/ DeleteRun
         \/ \E t \in Tasks : StepMoves(t) \/ StepUnknownResolves(t)
         \/ WalkerTick \/ advanceRun \/ createStep \/ PublishStep \/ fanCancel \/ recordOutcome
         \/ AbortPass \/ ProjectStatus \/ WalkerFails
BY Zenon DEF WorkflowNext, WorkerStep, WalkerStep, RetainerStep, StepsMove, OtherStep

\* Every step keeps the pace.
LEMMA PaceNext == PaceInv /\ [WorkflowNext]_wfVars => PaceInv'
<1> SUFFICES ASSUME PaceInv, [WorkflowNext]_wfVars PROVE PaceInv'
  BY Zenon
<1> USE DEF PaceInv
<1>1. CASE OtherStep
  <2>1. UNCHANGED walkVars
    BY <1>1, OthersKeep, Zenon
  <2> QED
    BY <2>1, Zenon DEF walkVars, LedgerOk, StepsReady, SeenOk, PassOk, Ready, Tasks
<1>2. CASE materializeWorkflowRun
  <2>1. /\ UNCHANGED <<dag, order, steps, walker>>
        /\ \/ UNCHANGED <<run, rows>>
           \/ /\ run.id = 0 /\ rows' = rows + 1
              /\ run' = [id |-> rows + 1, phase |-> "Pending", decisions |-> <<>>]
    BY <1>2, MaterializeMakes, Zenon
  <2>2. LedgerOk'
    BY <2>1 DEF LedgerOk, Tasks
  <2>3. StepsReady'
    BY <2>1, Zenon DEF StepsReady, Ready, Tasks
  <2>4. SeenOk' /\ PassOk'
    BY <2>1 DEF LedgerOk, SeenOk, PassOk, Ready, Tasks
  <2> QED
    BY <2>2, <2>3, <2>4, Zenon
<1>3. CASE RecordCancelRequest
  <2>1. /\ UNCHANGED <<dag, order, steps, walker, rows>>
        /\ run'.id = run.id /\ SameDecisions(run'.decisions, run.decisions)
    BY <1>3, CancelWrites, Zenon DEF SameDecisions
  <2>2. LedgerOk'
    BY <2>1, Zenon DEF LedgerOk, Tasks, SameDecisions
  <2>3. StepsReady'
    BY <2>1, Zenon DEF StepsReady, Ready, Tasks
  <2>4. SeenOk' /\ PassOk'
    BY <2>1, Zenon DEF LedgerOk, SeenOk, PassOk, Ready, Tasks, SameDecisions
  <2> QED
    BY <2>2, <2>3, <2>4
<1>4. CASE DeleteRun
  <2>1. /\ UNCHANGED <<dag, order, walker, rows>>
        /\ \/ UNCHANGED <<run, steps>>
           \/ run' = NoRow /\ steps' = [t \in Tasks |-> "none"]
    BY <1>4, DeleteTakes, Zenon
  <2>2. LedgerOk'
    BY <2>1 DEF LedgerOk, Tasks, NoRow
  <2>3. StepsReady'
    BY <2>1, Zenon DEF StepsReady, Ready, Tasks
  <2>4. SeenOk' /\ PassOk'
    BY <2>1 DEF LedgerOk, SeenOk, PassOk, Ready, Tasks, NoRow
  <2> QED
    BY <2>2, <2>3, <2>4
<1>5. ASSUME NEW t \in Tasks, StepMoves(t) \/ StepUnknownResolves(t) PROVE PaceInv'
  <2>1. /\ UNCHANGED <<dag, order, run, walker, rows>>
        /\ DOMAIN steps' = Tasks
        /\ \A u \in Tasks : /\ Resolved(steps[u]) => Resolved(steps'[u])
                            /\ steps[u] = "none" <=> steps'[u] = "none"
    BY <1>5, MovesKeep, Zenon DEF LedgerOk
  <2>2. \A u : Ready(u) => Ready(u)'
    BY <2>1, Zenon DEF Ready, Tasks
  <2> QED
    BY <2>1, <2>2, Zenon DEF LedgerOk, StepsReady, SeenOk, PassOk, Tasks
<1>6. CASE WalkerTick
  <2>1. /\ walker' = [pc |-> "steps", seen |-> run] /\ run.id # 0
        /\ UNCHANGED <<dag, order, run, steps, rows>>
    BY <1>6, Zenon DEF WalkerTick, OpenRuns, definition
  <2> QED
    BY <2>1 DEF LedgerOk, StepsReady, SeenOk, PassOk, Ready, Tasks, SameDecisions
<1>7. CASE advanceRun
  <2>1. PICK readable, verdicts :
          /\ readable \in BOOLEAN /\ walker.pc = "steps" /\ UNCHANGED <<dag, order, run, steps, rows>>
          /\ IsSweep(walker.seen, Steps(walker.seen.id), stepFacts(Steps(walker.seen.id), readable),
                   late, verdicts)
          /\ PassFields \subseteq DOMAIN walker'
          /\ walker'.pc = "pass" /\ walker'.id = walker.seen.id
          /\ walker'.create = {i \in DOMAIN order : verdicts[i] = "create"}
          /\ walker'.skips = Skips(verdicts)
    BY <1>7, AdvancePlans, Zenon
  <2>2. LedgerOk' /\ StepsReady' /\ SeenOk'
    BY <2>1, Zenon DEF LedgerOk, StepsReady, SeenOk, Ready, Tasks
  <2>3. ASSUME walker.seen.id = run.id, NEW i \in walker'.create PROVE Ready(order[i])'
    <3>1. \A d \in DependsOn(dag, order[i]) : d \in DOMAIN stepFacts(Steps(walker.seen.id), readable)
      BY <2>1, <2>3, CreateVerdict
    <3>2. DOMAIN stepFacts(Steps(walker.seen.id), readable)
            = {u \in Tasks : steps[u] # "none" /\ Resolved(steps[u])}
      BY <2>3, Zenon DEF stepFacts, Steps
    <3> QED
      BY <2>1, <3>1, <3>2, Zenon DEF Ready, Tasks
  <2>4. ASSUME walker.seen.id = run.id, NEW t \in DOMAIN walker'.skips
        PROVE  t \notin DOMAIN run'.decisions
    <3>1. PICK i \in DOMAIN order : order[i] = t /\ verdicts[i] \in SkipReasons
      BY <2>1, <2>4, SkipsAreVerdicts, Zenon
    <3>2. ~SettledBefore(walker.seen, Steps(walker.seen.id), t)
      BY <2>1, <3>1, SkipVerdict, Zenon
    <3> QED
      BY <2>1, <2>4, <3>2, Zenon DEF SettledBefore, SeenOk, SameDecisions
  <2>5. PassOk'
    BY <2>1, <2>3, <2>4, Zenon DEF PassOk, SeenOk
  <2> QED
    BY <2>2, <2>5, Zenon
<1>8. CASE createStep
  <2>1. walker.pc = "pass" /\ UNCHANGED <<dag, order, run, rows>>
    BY <1>8, CreateAdds, Zenon
  <2>2. CASE walker' = Resting /\ UNCHANGED steps
    BY <2>1, <2>2, Zenon DEF LedgerOk, StepsReady, SeenOk, PassOk, Ready, Tasks, Resting
  <2>3. ASSUME walker.id = run.id, PassGoesOn, NEW i \in walker.create,
               steps' = [steps EXCEPT ![order[i]] = IF @ = "none" THEN "Pending" ELSE @]
        PROVE  PaceInv'
    <3>1. DOMAIN steps' = Tasks /\ \A u \in Tasks : Resolved(steps[u]) => steps'[u] = steps[u]
      BY <2>3, Zenon DEF LedgerOk, Resolved, Terminal
    <3>2. \A u : Ready(u) => Ready(u)'
      BY <2>1, <3>1, Zenon DEF Ready, Tasks
    <3>3. \A u \in Tasks : steps'[u] # "none" => steps[u] # "none" \/ u = order[i]
      BY <2>3, Zenon DEF LedgerOk
    <3>4. Ready(order[i])
      BY <2>1, <2>3, Zenon DEF PassOk
    <3>5. LedgerOk' /\ StepsReady'
      BY <2>1, <3>1, <3>2, <3>3, <3>4, Zenon DEF LedgerOk, StepsReady, Tasks
    <3>6. SeenOk' /\ PassOk'
      BY <2>1, <2>3, <3>2, Zenon DEF SeenOk, PassOk, PassGoesOn
    <3> QED
      BY <3>5, <3>6, Zenon
  <2> QED
    BY <1>8, <2>2, <2>3, CreateAdds, Zenon
<1>9. CASE PublishStep \/ fanCancel
  <2>1. /\ walker.pc \in {"pass", "publish"} /\ PassGoesOn
        /\ UNCHANGED <<dag, order, run, steps, rows>>
    BY <1>9, ObjectSteps, Zenon
  <2>2. LedgerOk' /\ StepsReady' /\ SeenOk'
    BY <2>1, Zenon DEF LedgerOk, StepsReady, SeenOk, Ready, Tasks, PassGoesOn
  <2>3. PassOk'
    BY <2>1, Zenon DEF PassOk, PassGoesOn, Ready, Tasks
  <2> QED
    BY <2>2, <2>3, Zenon
<1>10. CASE recordOutcome
  <2>1. /\ UNCHANGED <<dag, order, steps, rows>>
        /\ walker'.pc \notin {"steps", "pass", "publish"}
        /\ \/ UNCHANGED run
           \/ /\ run'.id = run.id /\ walker.id = run.id /\ walker.pc = "pass"
    BY <1>10, OutcomeWrites DEF Resting
  <2> QED
    BY <2>1 DEF LedgerOk, StepsReady, SeenOk, PassOk, Ready, Tasks
<1>11. CASE AbortPass \/ ProjectStatus \/ WalkerFails
  <2>1. walker' = Resting /\ UNCHANGED <<dag, order, run, steps, rows>>
    BY <1>11, WalkerRests, Zenon
  <2> QED
    BY <2>1, Zenon DEF LedgerOk, StepsReady, SeenOk, PassOk, Ready, Tasks, Resting
<1> QED
  BY <1>1, <1>2, <1>3, <1>4, <1>5, <1>6, <1>7, <1>8, <1>9, <1>10, <1>11, NextCases, Zenon

\* The pace holds in every state.
THEOREM PaceInvariance == WorkflowSpec => []PaceInv
BY PaceInit, PaceNext, PTL DEF WorkflowSpec

\* No step exists before everything its task depends on has ended, for every
\* task graph, whatever passes crashed, were overtaken or pruned (advanceRun,
\* dependenciesResolved, CreateStepForTenant).
THEOREM StepsAlwaysFollow == WorkflowSpec => []StepsFollowDependencies
<1>1. PaceInv => StepsFollowDependencies
  BY Zenon DEF PaceInv, StepsReady, Ready, StepsFollowDependencies, Resolved, Terminal
<1> QED
  BY <1>1, PaceInvariance, PTL

\* A recorded decision is never changed or dropped while its row lives: the
\* merge of UpdatePhase lets the newer decision win, and a pass working from
\* an old read of the row still decides only tasks the row has not decided.
THEOREM DecisionsAlwaysStick == WorkflowSpec => DecisionsStick
<1> DEFINE Sticks == run'.id = run.id => \A t \in DOMAIN run.decisions :
                       t \in DOMAIN run'.decisions /\ run'.decisions[t] = run.decisions[t]
<1>1. PaceInv /\ [WorkflowNext]_wfVars => [Sticks]_wfVars
  <2> SUFFICES ASSUME PaceInv, [WorkflowNext]_wfVars, run' # run PROVE Sticks
    BY Zenon DEF wfVars
  <2> USE DEF PaceInv
  <2>1. CASE materializeWorkflowRun
    BY <2>1, MaterializeMakes, Zenon DEF LedgerOk
  <2>2. CASE RecordCancelRequest
    BY <2>2, CancelWrites, Zenon DEF SameDecisions
  <2>3. CASE DeleteRun
    BY <2>3, DeleteTakes DEF LedgerOk, NoRow
  <2>4. CASE recordOutcome
    <3>1. /\ \A t \in DOMAIN walker.skips : t \notin DOMAIN run.decisions
          /\ run' = [id |-> run.id, phase |-> walker.next,
                     decisions |-> Merged(walker.skips, run.decisions)]
      BY <2>4, OutcomeWrites, Zenon DEF PassOk
    <3> QED
      BY <3>1, Zenon DEF Merged
  <2>5. ASSUME NEW t \in Tasks, StepMoves(t) \/ StepUnknownResolves(t) PROVE FALSE
    BY <2>5, MovesKeep, Zenon DEF LedgerOk
  <2>6. ~OtherStep
    BY OthersKeep, Zenon DEF walkVars
  <2>7. ~(createStep \/ PublishStep \/ fanCancel)
    BY CreateAdds, ObjectSteps, Zenon
  <2>8. ~(advanceRun \/ WalkerTick \/ AbortPass \/ ProjectStatus \/ WalkerFails)
    BY AdvancePlans, WalkerRests, Zenon DEF WalkerTick
  <2> QED
    BY <2>1, <2>2, <2>3, <2>4, <2>5, <2>6, <2>7, <2>8, NextCases, Zenon
<1> QED
  BY <1>1, PaceInvariance, PTL DEF WorkflowSpec, DecisionsStick

-----------------------------------------------------------------------------
(* The verdict.                                                             *)

\* The sort lists no task twice.  AdmissionAndOrderAgree says more of it; that
\* is a fact about Kahn's algorithm, by induction on its queue, and is checked
\* by TLC on every graph over three tasks.
SortVisitsOnce == \A i, j \in DOMAIN order : order[i] = order[j] => i = j

\* What VerdictIsEarned asks of a verdict, given steps and decisions.
Earned(st, phase, decisions) ==
  /\ \A t \in Tasks : Terminal(st[t]) \/ t \in DOMAIN decisions
  /\ (phase = "Failed") <=> \E t \in Tasks : st[t] = "Failed"
  /\ phase = "Succeeded" =>
       \A t \in Tasks : /\ st[t] # "Canceled"
                        /\ t \in DOMAIN decisions => decisions[t] # "canceled"

\* A walker only works on a run that is open, and nobody else closes it.
SeenOpen ==
  walker.pc = "steps" =>
    /\ ~WorkflowTerminal(walker.seen.phase)
    /\ walker.seen.id = run.id => ~WorkflowTerminal(run.phase)

\* While the row a pass works on lives: what it creates and what it skips are
\* different tasks, what it skips has no step, and the verdict it carries is
\* earned by the steps as they are now.
PassSettles ==
  walker.pc \in {"pass", "publish"} /\ walker.id = run.id =>
    /\ ~WorkflowTerminal(run.phase)
    /\ \A i \in walker.create : order[i] \notin DOMAIN walker.skips \union DOMAIN run.decisions
    /\ \A t \in Tasks : t \in DOMAIN walker.skips => steps[t] = "none"
    /\ WorkflowTerminal(walker.next) =>
         Earned(steps, walker.next, Merged(walker.skips, run.decisions))

VerdictInv ==
  /\ SortVisitsOnce /\ SkippedNeverRuns
  /\ WorkflowTerminal(run.phase) => Earned(steps, run.phase, run.decisions)
  /\ SeenOpen /\ PassSettles

\* A verdict depends on the decisions, not on how they were put together.
LEMMA EarnedBySame ==
  ASSUME NEW st, NEW phase, NEW f, NEW g, Earned(st, phase, f), SameDecisions(f, g)
  PROVE  Earned(st, phase, g)
BY Zenon DEF Earned, SameDecisions

\* Steps that ended stay, tasks that were skipped have none: a verdict lasts.
LEMMA EarnedLasts ==
  ASSUME NEW st, NEW later, NEW phase, NEW decisions, Earned(st, phase, decisions),
         \A t \in Tasks : Terminal(st[t]) => later[t] = st[t],
         \A t \in Tasks : t \in DOMAIN decisions /\ ~Terminal(st[t]) => later[t] = st[t]
  PROVE  Earned(later, phase, decisions)
<1>1. \A t \in Tasks : later[t] = st[t]
  BY Zenon DEF Earned
<1> QED
  BY <1>1, Zenon DEF Earned

\* Merging on top of the same decisions gives the same decisions.
LEMMA MergedSame ==
  ASSUME NEW f, NEW g, NEW decided, SameDecisions(f, g)
  PROVE  SameDecisions(Merged(decided, f), Merged(decided, g))
BY Zenon DEF SameDecisions, Merged

\* The roll-up's verdicts are earned by the steps they were derived from
\* (DerivePhase over stepFacts).
LEMMA DerivedIsEarned ==
  ASSUME NEW st, NEW readable \in BOOLEAN, NEW decisions,
         \A t \in Tasks : t \in DOMAIN decisions => st[t] = "none",
         WorkflowTerminal(DerivePhase(Tasks, stepFacts(st, readable), decisions))
  PROVE  Earned(st, DerivePhase(Tasks, stepFacts(st, readable), decisions), decisions)
<1> DEFINE facts == stepFacts(st, readable)
           derived == DerivePhase(Tasks, facts, decisions)
           Ended(p) == \E t \in Tasks \intersect DOMAIN facts : facts[t].phase = p
           Spared == \E t \in (Tasks \intersect DOMAIN decisions) \ DOMAIN facts :
                       decisions[t] = "canceled"
<1>1. /\ DOMAIN facts = {t \in Tasks : st[t] # "none" /\ Resolved(st[t])}
      /\ \A t \in DOMAIN facts : facts[t].phase = st[t]
  BY Zenon DEF stepFacts
<1>2. /\ ~Ended("CancelUnknown") /\ Tasks \subseteq DOMAIN facts \union DOMAIN decisions
      /\ derived = "Failed" <=> Ended("Failed")
      /\ derived = "Succeeded" => ~Ended("Canceled") /\ ~Spared
  <2> DEFINE Accounted == Tasks \subseteq DOMAIN facts \union DOMAIN decisions
  <2>1. derived = IF Ended("CancelUnknown") THEN "CancelUnknown"
                  ELSE IF ~Accounted THEN "Running"
                  ELSE IF Ended("Failed") THEN "Failed"
                  ELSE IF Ended("Canceled") \/ Spared THEN "Canceled"
                  ELSE "Succeeded"
    BY Zenon DEF DerivePhase
  <2>2. derived \in {"Succeeded", "Failed", "Canceled"}
    BY Zenon DEF WorkflowTerminal
  <2> HIDE DEF facts, derived, Ended, Spared, Accounted
  <2>3. ~Ended("CancelUnknown")
    BY <2>1, <2>2, Zenon
  <2>4. Accounted
    BY <2>1, <2>2, <2>3, Zenon
  <2>5. derived = "Failed" <=> Ended("Failed")
    BY <2>1, <2>3, <2>4, Zenon
  <2>6. derived = "Succeeded" => ~Ended("Canceled") /\ ~Spared
    BY <2>1, <2>3, <2>4, <2>5, Zenon
  <2> QED
    BY <2>3, <2>4, <2>5, <2>6, Zenon DEF Accounted
<1> HIDE DEF facts, derived
<1>3. \A p : Ended(p) <=> \E t \in Tasks : st[t] = p /\ st[t] # "none" /\ Resolved(st[t])
  BY <1>1, Zenon
<1>4. \A t \in Tasks : Terminal(st[t]) \/ t \in DOMAIN decisions
  BY <1>1, <1>2, <1>3 DEF Resolved
<1>5. derived = "Failed" <=> \E t \in Tasks : st[t] = "Failed"
  BY <1>2, <1>3, Zenon DEF Resolved, Terminal
<1>6. ASSUME derived = "Succeeded", NEW t \in Tasks
      PROVE  st[t] # "Canceled" /\ (t \in DOMAIN decisions => decisions[t] # "canceled")
  BY <1>1, <1>2, <1>3, <1>6, Zenon DEF Resolved, Terminal
<1> QED
  BY <1>4, <1>5, <1>6, Zenon DEF Earned, derived, facts

\* A pass that goes on over steps of which the ended ones stay and the skipped
\* ones still do not exist carries its verdict along.
LEMMA PassCarries ==
  ASSUME PassSettles, walker.pc \in {"pass", "publish"}, PassGoesOn, SkippedNeverRuns,
         UNCHANGED <<dag, order, run>>,
         \A u \in Tasks : Terminal(steps[u]) => steps'[u] = steps[u],
         walker.id = run.id => \A u \in Tasks :
           u \in DOMAIN walker.skips \union DOMAIN run.decisions => steps'[u] = "none"
  PROVE  PassSettles'
<1> SUFFICES ASSUME walker.id = run.id
             PROVE  /\ ~WorkflowTerminal(run'.phase)
                    /\ \A i \in walker'.create :
                         order[i] \notin DOMAIN walker.skips \union DOMAIN run.decisions
                    /\ \A t \in Tasks : t \in DOMAIN walker.skips => steps'[t] = "none"
                    /\ WorkflowTerminal(walker.next) =>
                         Earned(steps', walker.next, Merged(walker.skips, run.decisions))
  BY DEF PassSettles, PassGoesOn, Tasks, Earned, Merged
<1>1. /\ ~WorkflowTerminal(run'.phase)
      /\ \A i \in walker'.create :
           order[i] \notin DOMAIN walker.skips \union DOMAIN run.decisions
      /\ \A t \in Tasks : t \in DOMAIN walker.skips => steps'[t] = "none"
  BY Zenon DEF PassSettles, PassGoesOn
<1>2. ASSUME WorkflowTerminal(walker.next)
      PROVE  Earned(steps', walker.next, Merged(walker.skips, run.decisions))
  <2>1. Earned(steps, walker.next, Merged(walker.skips, run.decisions))
    BY <1>2, Zenon DEF PassSettles
  <2>2. DOMAIN Merged(walker.skips, run.decisions) = DOMAIN walker.skips \union DOMAIN run.decisions
    BY Zenon DEF Merged
  <2>3. \A u \in Tasks : u \in DOMAIN Merged(walker.skips, run.decisions) =>
                           steps[u] = "none" /\ steps'[u] = "none"
    BY <2>2, Zenon DEF PassSettles, SkippedNeverRuns
  <2> QED
    BY <2>1, <2>3, EarnedLasts
<1> QED
  BY <1>1, <1>2, Zenon

\* A row's verdict outlasts any step that leaves the row alone, the ended
\* steps as they are and the skipped tasks without a step.
LEMMA RowCarries ==
  ASSUME SkippedNeverRuns, WorkflowTerminal(run.phase) => Earned(steps, run.phase, run.decisions),
         UNCHANGED <<dag, run>>,
         \A u \in Tasks : Terminal(steps[u]) => steps'[u] = steps[u],
         \A u \in Tasks : u \in DOMAIN run.decisions => steps'[u] = "none"
  PROVE  /\ SkippedNeverRuns'
         /\ (WorkflowTerminal(run.phase) => Earned(steps, run.phase, run.decisions))'
<1>1. SkippedNeverRuns'
  BY Zenon DEF SkippedNeverRuns, Tasks
<1>2. ASSUME WorkflowTerminal(run.phase) PROVE Earned(steps', run.phase, run.decisions)
  <2>1. \A u \in Tasks : u \in DOMAIN run.decisions => steps'[u] = steps[u]
    BY Zenon DEF SkippedNeverRuns
  <2> QED
    BY <1>2, <2>1, EarnedLasts, Zenon
<1> QED
  BY <1>1, <1>2, Zenon DEF Earned, Tasks

\* A workflow starts without a row.
LEMMA VerdictInit == WorkflowInit /\ SortVisitsOnce => VerdictInv
<1> SUFFICES ASSUME WorkflowInit, SortVisitsOnce PROVE VerdictInv
  BY Zenon
<1>1. run = NoRow /\ steps = [t \in Tasks |-> "none"] /\ walker = Resting
  BY Zenon DEF WorkflowInit
<1> QED
  BY <1>1, Zenon DEF VerdictInv, SkippedNeverRuns, SeenOpen, PassSettles, NoRow, Resting, WorkflowTerminal

\* What reading the steps of a living row settles: the plan of the pass agrees
\* with the row and its verdict is earned (advanceRun, NextPhase).
LEMMA PlanSettles ==
  ASSUME PaceInv, VerdictInv, advanceRun
  PROVE  PassSettles'
<1> DEFINE seen == walker.seen
           found == Steps(seen.id)
<1>1. PICK readable, verdicts :
        /\ readable \in BOOLEAN /\ walker.pc = "steps" /\ UNCHANGED <<dag, order, run, steps, rows>>
        /\ IsSweep(seen, found, stepFacts(found, readable), late, verdicts)
        /\ walker'.pc = "pass" /\ walker'.id = seen.id
        /\ walker'.create = {i \in DOMAIN order : verdicts[i] = "create"}
        /\ walker'.skips = Skips(verdicts)
        /\ walker'.next = NextPhase(seen, found, stepFacts(found, readable),
                                    {i \in DOMAIN order : verdicts[i] = "create"} # {},
                                    Skips(verdicts))
  BY AdvancePlans, Zenon
<1> SUFFICES ASSUME seen.id = run.id
             PROVE  /\ ~WorkflowTerminal(run.phase)
                    /\ \A i \in walker'.create :
                         order[i] \notin DOMAIN walker'.skips \union DOMAIN run.decisions
                    /\ \A t \in Tasks : t \in DOMAIN walker'.skips => steps[t] = "none"
                    /\ WorkflowTerminal(walker'.next) =>
                         Earned(steps, walker'.next, Merged(walker'.skips, run.decisions))
  BY <1>1, Zenon DEF PassSettles, Tasks, Earned, Merged
<1>2. /\ found = steps /\ ~WorkflowTerminal(run.phase) /\ ~WorkflowTerminal(seen.phase)
      /\ SameDecisions(seen.decisions, run.decisions)
  BY <1>1, Zenon DEF Steps, VerdictInv, SeenOpen, PaceInv, SeenOk
<1> HIDE DEF seen, found
<1>3. ASSUME NEW t \in DOMAIN walker'.skips
      PROVE  /\ \E i \in DOMAIN order : order[i] = t /\ verdicts[i] \in SkipReasons
             /\ steps[t] = "none" /\ t \notin DOMAIN run.decisions
  <2>1. PICK i \in DOMAIN order : order[i] = t /\ verdicts[i] \in SkipReasons
    BY <1>1, SkipsAreVerdicts, Zenon
  <2>2. ~SettledBefore(seen, found, t)
    BY <1>1, <2>1, SkipVerdict, Zenon
  <2> QED
    BY <1>2, <2>1, <2>2, Zenon DEF SettledBefore, SameDecisions
<1>4. ASSUME NEW i \in walker'.create
      PROVE  order[i] \notin DOMAIN walker'.skips \union DOMAIN run.decisions
  <2>1. i \in DOMAIN order /\ verdicts[i] = "create"
    BY <1>1, Zenon
  <2>2. ~SettledBefore(seen, found, order[i])
    BY <1>1, <2>1, CreateVerdict, Zenon
  <2>3. order[i] \notin DOMAIN walker'.skips
    BY <1>3, <2>1, Zenon DEF VerdictInv, SortVisitsOnce, SkipReasons
  <2> QED
    BY <1>2, <2>2, <2>3, Zenon DEF SettledBefore, SameDecisions
<1>5. ASSUME WorkflowTerminal(walker'.next)
      PROVE  Earned(steps, walker'.next, Merged(walker'.skips, run.decisions))
  <2> DEFINE all == Merged(walker'.skips, seen.decisions)
             derived == DerivePhase(Tasks, stepFacts(steps, readable), all)
  <2>1. walker'.next = derived
    BY <1>1, <1>2, <1>5, Zenon DEF NextPhase, WorkflowTerminal
  <2>2. DOMAIN all = DOMAIN walker'.skips \union DOMAIN run.decisions
    BY <1>2, Zenon DEF Merged, SameDecisions
  <2>3. \A t \in Tasks : t \in DOMAIN all => steps[t] = "none"
    BY <1>3, <2>2, Zenon DEF VerdictInv, SkippedNeverRuns
  <2>4. Earned(steps, derived, all)
    BY <1>1, <1>5, <2>1, <2>3, DerivedIsEarned, Zenon
  <2>5. SameDecisions(all, Merged(walker'.skips, run.decisions))
    BY <1>2, MergedSame, Zenon
  <2> QED
    BY <2>1, <2>4, <2>5, EarnedBySame, Zenon
<1> QED
  BY <1>2, <1>3, <1>4, <1>5, Zenon

\* Every step keeps the verdict earned.
LEMMA VerdictNext == PaceInv /\ VerdictInv /\ [WorkflowNext]_wfVars => VerdictInv'
<1> SUFFICES ASSUME PaceInv, VerdictInv, [WorkflowNext]_wfVars PROVE VerdictInv'
  BY Zenon
<1> USE DEF VerdictInv
<1>1. CASE OtherStep
  <2>1. UNCHANGED walkVars
    BY <1>1, OthersKeep, Zenon
  <2> QED
    BY <2>1, Zenon DEF walkVars, SortVisitsOnce, SkippedNeverRuns, SeenOpen, PassSettles, Earned, Merged, Tasks
<1>2. CASE materializeWorkflowRun
  <2>1. /\ UNCHANGED <<dag, order, steps, walker>>
        /\ \/ UNCHANGED run
           \/ /\ rows \in Nat
              /\ run' = [id |-> rows + 1, phase |-> "Pending", decisions |-> <<>>]
    BY <1>2, MaterializeMakes, Zenon DEF PaceInv, LedgerOk
  <2>2. CASE UNCHANGED run
    BY <2>1, <2>2, Zenon DEF SortVisitsOnce, SkippedNeverRuns, SeenOpen, PassSettles, Earned, Merged, Tasks
  <2>3. CASE rows \in Nat /\ run' = [id |-> rows + 1, phase |-> "Pending", decisions |-> <<>>]
    <3>1. SortVisitsOnce' /\ SkippedNeverRuns' /\ ~WorkflowTerminal(run'.phase)
      BY <2>1, <2>3 DEF SortVisitsOnce, SkippedNeverRuns, WorkflowTerminal
    <3>2. SeenOpen' /\ PassSettles'
      BY <2>1, <2>3 DEF SeenOpen, PassSettles, PaceInv, SeenOk, PassOk
    <3> QED
      BY <3>1, <3>2, Zenon
  <2> QED
    BY <2>1, <2>2, <2>3, Zenon
<1>3. CASE RecordCancelRequest
  <2>1. /\ UNCHANGED <<dag, order, steps, walker, rows>>
        /\ \/ UNCHANGED run
           \/ /\ run'.id = run.id /\ run'.phase = "CancelRequested"
              /\ SameDecisions(run'.decisions, run.decisions)
    BY <1>3, CancelWrites, Zenon
  <2>2. CASE UNCHANGED run
    BY <2>1, <2>2, Zenon DEF SortVisitsOnce, SkippedNeverRuns, SeenOpen, PassSettles, Earned, Merged, Tasks
  <2>3. CASE /\ run'.id = run.id /\ run'.phase = "CancelRequested"
             /\ SameDecisions(run'.decisions, run.decisions)
    <3>1. SortVisitsOnce' /\ SkippedNeverRuns' /\ ~WorkflowTerminal(run'.phase) /\ SeenOpen'
      BY <2>1, <2>3, Zenon DEF SortVisitsOnce, SkippedNeverRuns, WorkflowTerminal, SeenOpen, SameDecisions, Tasks
    <3>2. SameDecisions(Merged(walker.skips, run.decisions), Merged(walker.skips, run'.decisions))
      BY <2>3, Zenon DEF SameDecisions, Merged
    <3>3. ASSUME Earned(steps, walker.next, Merged(walker.skips, run.decisions))
          PROVE  Earned(steps, walker.next, Merged(walker.skips, run'.decisions))
      BY <3>2, <3>3, EarnedBySame, Zenon
    <3>4. PassSettles'
      BY <2>1, <2>3, <3>1, <3>3, Zenon DEF PassSettles, SameDecisions, Tasks, Earned, Merged
    <3> QED
      BY <3>1, <3>4, Zenon
  <2> QED
    BY <2>1, <2>2, <2>3, Zenon
<1>4. CASE DeleteRun
  <2>1. /\ UNCHANGED <<dag, order, walker, rows>>
        /\ \/ UNCHANGED <<run, steps>>
           \/ run' = NoRow /\ steps' = [t \in Tasks |-> "none"]
    BY <1>4, DeleteTakes, Zenon
  <2>2. CASE UNCHANGED <<run, steps>>
    <3>1. UNCHANGED <<dag, order, walker, rows, run, steps>>
      BY <2>1, <2>2, Zenon
    <3> QED
      BY <3>1, Zenon
      DEF SortVisitsOnce, SkippedNeverRuns, SeenOpen, PassSettles, Earned, Merged, Tasks
  <2>3. CASE run' = NoRow
    <3>1. SortVisitsOnce' /\ SkippedNeverRuns' /\ ~WorkflowTerminal(run'.phase)
      BY <2>1, <2>3 DEF SortVisitsOnce, SkippedNeverRuns, WorkflowTerminal, NoRow
    <3>2. SeenOpen' /\ PassSettles'
      BY <2>1, <2>3 DEF SeenOpen, PassSettles, PaceInv, SeenOk, PassOk, NoRow
    <3> QED
      BY <3>1, <3>2
  <2> QED
    BY <2>1, <2>2, <2>3, Zenon
<1>5. ASSUME NEW t \in Tasks, StepMoves(t) \/ StepUnknownResolves(t) PROVE VerdictInv'
  <2>1. /\ UNCHANGED <<dag, order, run, walker, rows>>
        /\ \A u \in Tasks : /\ Terminal(steps[u]) => steps'[u] = steps[u]
                            /\ steps[u] = "none" <=> steps'[u] = "none"
    BY <1>5, MovesKeep, Zenon DEF PaceInv, LedgerOk
  <2>2. SortVisitsOnce' /\ SeenOpen'
    BY <2>1, Zenon DEF SortVisitsOnce, SeenOpen
  <2>3. SkippedNeverRuns' /\ (WorkflowTerminal(run.phase) => Earned(steps, run.phase, run.decisions))'
    BY <2>1, RowCarries, Zenon DEF SkippedNeverRuns
  <2>4. CASE walker.pc \in {"pass", "publish"}
    <3>1. PassGoesOn
      BY <2>1, <2>4, Zenon DEF PassGoesOn, PaceInv, PassOk
    <3>2. walker.id = run.id => \A u \in Tasks :
            u \in DOMAIN walker.skips \union DOMAIN run.decisions => steps'[u] = "none"
      BY <2>1, <2>4, Zenon DEF PassSettles, SkippedNeverRuns
    <3>3. PassSettles'
      BY <2>1, <2>4, <3>1, <3>2, PassCarries, Zenon
    <3> QED
      BY <2>2, <2>3, <3>3, Zenon
  <2>5. CASE walker.pc \notin {"pass", "publish"}
    BY <2>1, <2>2, <2>3, <2>5, Zenon DEF PassSettles
  <2> QED
    BY <2>4, <2>5, Zenon
<1>6. ASSUME UNCHANGED <<dag, order, run, steps>>, SeenOpen', PassSettles' PROVE VerdictInv'
  BY <1>6, Zenon DEF SortVisitsOnce, SkippedNeverRuns, Earned, Tasks
<1>7. CASE WalkerTick
  <2>1. /\ walker' = [pc |-> "steps", seen |-> run] /\ ~WorkflowTerminal(run.phase)
        /\ UNCHANGED <<dag, order, run, steps>>
    BY <1>7, Zenon DEF WalkerTick, OpenRuns, definition
  <2>2. SeenOpen' /\ PassSettles'
    BY <2>1, Zenon DEF SeenOpen, PassSettles
  <2> QED
    BY <1>6, <2>1, <2>2, Zenon
<1>8. CASE advanceRun
  <2>1. UNCHANGED <<dag, order, run, steps>> /\ walker'.pc = "pass"
    BY <1>8, AdvancePlans, Zenon
  <2>2. PassSettles' /\ SeenOpen'
    BY <1>8, <2>1, PlanSettles, Zenon DEF SeenOpen
  <2> QED
    BY <1>6, <2>1, <2>2, Zenon
<1>9. CASE createStep
  <2>1. walker.pc = "pass" /\ UNCHANGED <<dag, order, run, rows>>
    BY <1>9, CreateAdds, Zenon DEF PaceInv
  <2>2. CASE walker' = Resting /\ UNCHANGED steps
    <3>1. SeenOpen' /\ PassSettles'
      BY <2>2, Zenon DEF SeenOpen, PassSettles, Resting
    <3> QED
      BY <1>6, <2>1, <2>2, <3>1, Zenon
  <2>3. ASSUME walker.id = run.id, PassGoesOn, NEW i \in walker.create,
               steps' = [steps EXCEPT ![order[i]] = IF @ = "none" THEN "Pending" ELSE @]
        PROVE  VerdictInv'
    <3>1. order[i] \notin DOMAIN walker.skips \union DOMAIN run.decisions
      BY <2>1, <2>3, Zenon DEF PassSettles
    <3>2. \A u \in Tasks : Terminal(steps[u]) => steps'[u] = steps[u]
      BY <2>3, Zenon DEF PaceInv, LedgerOk, Terminal
    <3>3. \A u \in Tasks : u \in DOMAIN walker.skips \union DOMAIN run.decisions => steps'[u] = "none"
      BY <2>1, <2>3, <3>1, Zenon DEF PassSettles, SkippedNeverRuns, PaceInv, LedgerOk
    <3>4. PassSettles'
      BY <2>1, <2>3, <3>2, <3>3, PassCarries, Zenon
    <3>5. SkippedNeverRuns' /\ (WorkflowTerminal(run.phase) => Earned(steps, run.phase, run.decisions))'
      BY <2>1, <3>2, <3>3, RowCarries, Zenon
    <3>6. SortVisitsOnce' /\ SeenOpen'
      BY <2>1, <2>3, Zenon DEF SortVisitsOnce, SeenOpen, PassGoesOn
    <3> QED
      BY <3>4, <3>5, <3>6, Zenon
  <2> QED
    BY <1>9, <2>2, <2>3, CreateAdds, Zenon DEF PaceInv
<1>10. CASE PublishStep \/ fanCancel
  <2>1. /\ walker.pc \in {"pass", "publish"} /\ PassGoesOn
        /\ UNCHANGED <<dag, order, run, steps>>
    BY <1>10, ObjectSteps, Zenon DEF PaceInv
  <2>2. walker.id = run.id => \A u \in Tasks :
          u \in DOMAIN walker.skips \union DOMAIN run.decisions => steps'[u] = "none"
    BY <2>1, Zenon DEF PassSettles, SkippedNeverRuns
  <2>3. PassSettles' /\ SeenOpen'
    BY <2>1, <2>2, PassCarries, Zenon DEF SeenOpen, PassGoesOn
  <2> QED
    BY <1>6, <2>1, <2>3, Zenon
<1>11. CASE recordOutcome
  <2>1. /\ walker.pc = "pass" /\ UNCHANGED <<dag, order, steps>>
        /\ walker'.pc \notin {"steps", "pass", "publish"}
    BY <1>11, OutcomeWrites DEF Resting
  <2>2. SeenOpen' /\ PassSettles' /\ SortVisitsOnce'
    BY <2>1, Zenon DEF SeenOpen, PassSettles, SortVisitsOnce
  <2>3. CASE UNCHANGED run
    BY <1>6, <2>1, <2>2, <2>3, Zenon
  <2>4. CASE /\ walker.id = run.id
             /\ run' = [id |-> run.id, phase |-> walker.next,
                        decisions |-> Merged(walker.skips, run.decisions)]
    <3>1. DOMAIN run'.decisions = DOMAIN walker.skips \union DOMAIN run.decisions
      BY <2>4, Zenon DEF Merged
    <3>2. SkippedNeverRuns'
      BY <2>1, <2>4, <3>1, Zenon DEF SkippedNeverRuns, PassSettles, Tasks
    <3>3. (WorkflowTerminal(run.phase) => Earned(steps, run.phase, run.decisions))'
      BY <2>1, <2>4, Zenon DEF PassSettles, Earned, Tasks
    <3> QED
      BY <2>2, <3>2, <3>3, Zenon
  <2> QED
    BY <1>11, <2>3, <2>4, OutcomeWrites, Zenon
<1>12. CASE AbortPass \/ ProjectStatus \/ WalkerFails
  <2>1. walker' = Resting /\ UNCHANGED <<dag, order, run, steps, rows>>
    BY <1>12, WalkerRests, Zenon
  <2>2. SeenOpen' /\ PassSettles'
    BY <2>1, Zenon DEF SeenOpen, PassSettles, Resting
  <2> QED
    BY <1>6, <2>1, <2>2, Zenon
<1> QED
  BY <1>1, <1>2, <1>3, <1>4, <1>5, <1>7, <1>8, <1>9, <1>10, <1>11, <1>12, NextCases, Zenon

\* Both invariants hold in every state of a workflow whose sort is one.
THEOREM VerdictInvariance == WorkflowSpec /\ SortVisitsOnce => [](PaceInv /\ VerdictInv)
BY PaceInit, PaceNext, VerdictInit, VerdictNext, PTL DEF WorkflowSpec

\* A skipped task has no step, then or later, although the pass that skips one
\* task and starts another records the two in separate transactions and may
\* die, be overtaken by a stop or lose its row in between (createStep,
\* recordOutcome).
THEOREM SkippedTasksNeverRun == WorkflowSpec /\ SortVisitsOnce => []SkippedNeverRuns
<1>1. VerdictInv => SkippedNeverRuns
  BY Zenon DEF VerdictInv
<1> QED
  BY <1>1, VerdictInvariance, PTL

\* A finished workflow has the verdict its steps carry, now and for as long as
\* the row lives, although the verdict was derived from rows read before the
\* stops were patched and the row was written (DerivePhase, recordOutcome).
THEOREM VerdictAlwaysEarned == WorkflowSpec /\ SortVisitsOnce => []VerdictIsEarned
<1>1. VerdictInv => VerdictIsEarned
  BY Zenon DEF VerdictInv, VerdictIsEarned, Earned
<1> QED
  BY <1>1, VerdictInvariance, PTL

=============================================================================
