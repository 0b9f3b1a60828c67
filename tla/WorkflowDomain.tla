--------------------------- MODULE WorkflowDomain ---------------------------
(***************************************************************************)
(* The domain rules of a workflow (internal/core/domain/workflow): which   *)
(* graphs of tasks are admitted, the order a pass visits them in, when a   *)
(* task's condition passes, and what phase the steps add up to.  A task    *)
(* graph is a record of a fail policy, a timeout and a sequence of tasks,  *)
(* each with the job it runs, the tasks it depends on and its condition.   *)
(***************************************************************************)
EXTENDS JobRunLifecycle, Sequences, Functions

\* A workflow finishes by the same three phases as a run.
WorkflowTerminal(phase) == phase \in {"Succeeded", "Failed", "Canceled"}

NoCondition == [type |-> "none", rules |-> <<>>]
NoNumber    == <<>>   \* an optional number is a sequence of at most one

taskNames(dag) == [i \in DOMAIN dag.tasks |-> dag.tasks[i].name]
TaskNames(dag) == Range(taskNames(dag))
TaskNamed(dag, name) ==
  dag.tasks[CHOOSE i \in DOMAIN dag.tasks : dag.tasks[i].name = name]
DependsOn(dag, name) == Range(TaskNamed(dag, name).dependsOn)

\* The tasks that name "task" as a dependency, in declaration order: the
\* adjacency list both graph walks build first.
Dependents(dag, task) ==
  LET IsDependent(name) == task \in DependsOn(dag, name)
  IN  SelectSeq(taskNames(dag), IsDependent)

-----------------------------------------------------------------------------
(* The admission check.                                                     *)

\* A depth-first search from every task not visited yet.  "path" is the
\* recursion stack: one step enters the next neighbour, leaves a task whose
\* neighbours are exhausted, or meets a task that is on the stack.  A task is
\* entered and left once, so the search ends within two steps per task.
hasCycle(dag) ==
  LET Step(s) ==
        IF s.cyclic THEN s
        ELSE IF s.path = <<>>
        THEN LET Unvisited(n) == n \notin s.visited
                 roots == SelectSeq(taskNames(dag), Unvisited)
             IN  IF roots = <<>> THEN s
                 ELSE [s EXCEPT !.path = <<roots[1]>>, !.visited = @ \union {roots[1]}]
        ELSE LET Matters(n) == n \notin s.visited \/ n \in Range(s.path)
                 next == SelectSeq(Dependents(dag, s.path[Len(s.path)]), Matters)
             IN  IF next = <<>> THEN [s EXCEPT !.path = SubSeq(@, 1, Len(@) - 1)]
                 ELSE IF next[1] \in s.visited THEN [s EXCEPT !.cyclic = TRUE]
                 ELSE [s EXCEPT !.path = Append(@, next[1]), !.visited = @ \union {next[1]}]
      search[n \in 0..(2 * Len(dag.tasks) + 1)] ==
        IF n = 0 THEN [path |-> <<>>, visited |-> {}, cyclic |-> FALSE]
                 ELSE Step(search[n - 1])
  IN  search[2 * Len(dag.tasks) + 1].cyclic

\* The rules a condition must follow: it reads the task's own dependencies.
ConditionAdmitted(task) ==
  \/ task.condition = NoCondition
  \/ /\ task.condition.type \in {"all", "any"}
     /\ task.condition.rules # <<>>
     /\ \A i \in DOMAIN task.condition.rules :
          task.condition.rules[i].task \in Range(task.dependsOn)

ValidateDAG(dag) ==
  /\ dag.tasks # <<>>
  /\ "" \notin TaskNames(dag)
  /\ \A i, j \in DOMAIN dag.tasks : dag.tasks[i].name = dag.tasks[j].name => i = j
  /\ \A i \in DOMAIN dag.tasks :
       LET task == dag.tasks[i] IN
       /\ task.jobRef # ""
       /\ Range(task.dependsOn) \subseteq TaskNames(dag) \ {task.name}
       /\ IsInjective(task.dependsOn)
       /\ ConditionAdmitted(task)
  /\ ~hasCycle(dag)

\* The custom resource's own check of its conditions' grammar: a number goes
\* with attempts and durations, values with phases.  It has the same rules
\* about names and dependencies, and no cycle check.
validateCondition(cond) ==
  \A i \in DOMAIN cond.rules :
    LET rule == cond.rules[i] IN
    \/ /\ rule.operator \in {"lt", "le", "gt", "ge"}
       /\ rule.field \in {"attempts", "duration_ms"}
       /\ rule.number # NoNumber /\ rule.values = <<>>
    \/ /\ rule.operator \in {"eq", "ne", "in", "not_in"}
       /\ rule.field = "phase"
       /\ rule.number = NoNumber /\ rule.values # <<>>
       /\ rule.operator \in {"eq", "ne"} => Len(rule.values) = 1
WorkflowJobSpecValidate(spec) ==
  /\ spec.tasks # <<>> /\ "" \notin TaskNames(spec) /\ IsInjective(taskNames(spec))
  /\ \A i \in DOMAIN spec.tasks :
       LET task == spec.tasks[i] IN
       /\ task.jobRef # ""
       /\ Range(task.dependsOn) \subseteq TaskNames(spec) \ {task.name}
       /\ IsInjective(task.dependsOn)
       /\ ConditionAdmitted(task) /\ validateCondition(task.condition)

-----------------------------------------------------------------------------
(* The order of a pass.                                                     *)

\* Broken: a task is queued as soon as one of its dependencies was visited.
TopologicalSortEager(dag) ==
  LET IsRoot(n) == DependsOn(dag, n) = {}
      kahn[n \in 0..Len(dag.tasks)] ==
        IF n = 0 THEN [queue |-> SelectSeq(taskNames(dag), IsRoot), order |-> <<>>]
        ELSE LET s == kahn[n - 1]
                 Fresh(m) == m \notin Range(s.order) \union Range(s.queue)
             IN  IF s.queue = <<>> THEN s
                 ELSE [queue |-> Tail(s.queue)
                                   \o SelectSeq(Dependents(dag, s.queue[1]), Fresh),
                       order |-> Append(s.order, s.queue[1])]
  IN  kahn[Len(dag.tasks)].order

\* Kahn's algorithm: the queue starts with the tasks that depend on nothing,
\* and a task joins it when the last of its dependencies leaves.  A result
\* shorter than the task list is the error the caller gets for a cycle.
TopologicalSort(dag) ==
  LET IsRoot(n) == DependsOn(dag, n) = {}
      kahn[n \in 0..Len(dag.tasks)] ==
        IF n = 0 THEN [queue |-> SelectSeq(taskNames(dag), IsRoot), order |-> <<>>]
        ELSE LET s == kahn[n - 1] IN
             IF s.queue = <<>> THEN s
             ELSE LET order == Append(s.order, s.queue[1])
                      Freed(m) == DependsOn(dag, m) \subseteq Range(order)
                  IN  [queue |-> Tail(s.queue) \o SelectSeq(Dependents(dag, s.queue[1]), Freed),
                       order |-> order]
  IN  kahn[Len(dag.tasks)].order

-----------------------------------------------------------------------------
(* Conditions.  A state is the phase, attempt and duration of a task that   *)
(* ended; "states" is a function from the tasks that have one.              *)

\* One rule: "pass", "fail" or "error".  Phases are compared with values,
\* attempts and durations with a number; any other pairing is an error.
evaluateRule(rule, states) ==
  LET phase  == states[rule.task].phase
      actual == IF rule.field = "attempts" THEN states[rule.task].attempt
                                           ELSE states[rule.task].durationMs
      Verdict(holds) == IF holds THEN "pass" ELSE "fail"
  IN  IF rule.task \notin DOMAIN states THEN "error"
      ELSE CASE
           rule.operator \in {"eq", "ne"} /\ rule.field = "phase"
             /\ rule.number = NoNumber /\ Len(rule.values) = 1 ->
             Verdict((phase = rule.values[1]) = (rule.operator = "eq"))
        [] rule.operator \in {"in", "not_in"} /\ rule.field = "phase"
             /\ rule.number = NoNumber /\ Len(rule.values) >= 1 ->
             Verdict((phase \in Range(rule.values)) = (rule.operator = "in"))
        [] rule.operator \in {"lt", "le", "gt", "ge"}
             /\ rule.field \in {"attempts", "duration_ms"} /\ rule.number # NoNumber ->
             Verdict(CASE rule.operator = "lt" -> actual < rule.number[1]
                       [] rule.operator = "le" -> actual <= rule.number[1]
                       [] rule.operator = "gt" -> actual > rule.number[1]
                       [] rule.operator = "ge" -> actual >= rule.number[1])
        [] OTHER -> "error"

\* The rules in order, stopping at the first that settles the question: a
\* rule that does not pass settles "all", a rule that does not fail settles
\* "any".  No condition, or one without rules, passes.
EvaluateCondition(cond, states) ==
  LET Verdicts == [i \in DOMAIN cond.rules |-> evaluateRule(cond.rules[i], states)]
      Settles(v) == IF cond.type = "all" THEN v # "pass" ELSE v # "fail"
      settling == SelectSeq(Verdicts, Settles)
  IN  IF cond.rules = <<>> THEN "pass"
      ELSE IF cond.type \notin {"all", "any"} THEN "error"
      ELSE IF settling # <<>> THEN settling[1]
      ELSE IF cond.type = "all" THEN "pass" ELSE "fail"

-----------------------------------------------------------------------------
(* The roll-up.                                                             *)

\* Broken: only a canceled step cancels the workflow.
DerivePhaseStepsOnly(tasks, states, decisions) ==
  LET Ended(p) == \E t \in tasks \intersect DOMAIN states : states[t].phase = p
  IN  IF Ended("CancelUnknown") THEN "CancelUnknown"
      ELSE IF ~(tasks \subseteq DOMAIN states \union DOMAIN decisions) THEN "Running"
      ELSE IF Ended("Failed") THEN "Failed"
      ELSE IF Ended("Canceled") THEN "Canceled"
      ELSE "Succeeded"

\* The phase the tasks add up to.  An unconfirmed stop dominates, then a task
\* without a state or a skip decision; only the last three are terminal.
DerivePhase(tasks, states, decisions) ==
  LET Ended(p) == \E t \in tasks \intersect DOMAIN states : states[t].phase = p
      SkippedBecause(reason) ==
        \E t \in (tasks \intersect DOMAIN decisions) \ DOMAIN states : decisions[t] = reason
  IN  IF Ended("CancelUnknown") THEN "CancelUnknown"
      ELSE IF ~(tasks \subseteq DOMAIN states \union DOMAIN decisions) THEN "Running"
      ELSE IF Ended("Failed") THEN "Failed"
      ELSE IF Ended("Canceled") \/ SkippedBecause("canceled") THEN "Canceled"
      ELSE "Succeeded"

\* What the walker works on: the spec's tasks under its fail policy, FailFast
\* unless the spec says Continue.
DAGFromSpec(spec) ==
  [failPolicy |-> IF spec.failPolicy = "Continue" THEN "Continue" ELSE "FailFast",
   timeoutSeconds |-> spec.timeoutSeconds,
   tasks |-> spec.tasks]

=============================================================================
