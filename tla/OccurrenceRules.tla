-------------------------- MODULE OccurrenceRules --------------------------
(***************************************************************************)
(* The pure decisions of the control loops: which activations of a cron    *)
(* schedule a tick fires (internal/core/app/controlplane/schedule.go),     *)
(* which runs of a definition are beyond its retained history              *)
(* (retention.go and PrunableRuns of control_plane_repository.go).  Time   *)
(* is counted in minutes; a schedule is the set of minutes it names.       *)
(***************************************************************************)
EXTENDS Integers, FiniteSets, Sequences, JobRunLifecycle

\* The lookback window ends at the current minute.
matchesInWindow(schedule, now, grace) == {t \in schedule : now - grace <= t /\ t <= now}

\* The n newest of a set of minutes.
NewestOf(minutes, n) ==
  {t \in minutes : Cardinality({u \in minutes : u > t}) < n}

\* The activations to fire: the newest when it is on time, else what the
\* misfire policy keeps of the window.
selectOccurrences(schedule, policy, now, grace, maxCatchUp) ==
  LET matches == matchesInWindow(schedule, now, grace)
      newest  == NewestOf(matches, 1)
  IN  IF now \in matches THEN newest
      ELSE CASE policy = "Skip"           -> {}
             [] policy = "CatchUpBounded" -> NewestOf(matches, IF maxCatchUp < 1 THEN 1 ELSE maxCatchUp)
             [] OTHER                     -> newest

\* Occurrences fire oldest first, and rows are listed by their id: the one
\* ascending sequence of some numbers.
InOrder(numbers) ==
  LET n == Cardinality(numbers)
  IN  {s \in [1 .. n -> numbers] : \A i, j \in 1 .. n : i < j => s[i] < s[j]}

\* An unset or negative limit is the default, never "keep nothing".
historyLimit(stated) == IF stated <= 0 THEN 3 ELSE stated

\* What retention may consider, against what a delete accepts.
RetentionPhases == {"Succeeded", "Failed", "Canceled", "CancelUnknown"}

\* How many runs of a phase are kept.
KeepOf(spec, p) ==
  IF p = "Succeeded" THEN historyLimit(spec.keepSuccessful) ELSE historyLimit(spec.keepFailed)

\* Broken: one ranking for every outcome.
PrunableMixed(ledger, phase, steps, spec) ==
  {i \in DOMAIN ledger :
    /\ phase[ledger[i]] \in RetentionPhases
    /\ Cardinality({j \in DOMAIN ledger : j > i /\ phase[ledger[j]] \in RetentionPhases})
       >= KeepOf(spec, phase[ledger[i]])}

\* The rows beyond the kept history, ranked per outcome, newest first; "ledger"
\* lists the rows in the order they were created, "steps" are workflow steps.
Prunable(ledger, phase, steps, spec) ==
  {i \in DOMAIN ledger :
    /\ ledger[i] \notin steps /\ phase[ledger[i]] \in RetentionPhases
    /\ Cardinality({j \in DOMAIN ledger : j > i /\ ledger[j] \notin steps
                                           /\ phase[ledger[j]] = phase[ledger[i]]})
       >= KeepOf(spec, phase[ledger[i]])}

=============================================================================
