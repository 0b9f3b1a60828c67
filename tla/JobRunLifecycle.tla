-------------------------- MODULE JobRunLifecycle --------------------------
(***************************************************************************)
(* The domain rules of one logical run (internal/core/domain/jobrun):      *)
(* its phases, the transitions the lifecycle permits, and the questions a  *)
(* reconciler asks of a stored run before it starts another attempt.       *)
(***************************************************************************)
EXTENDS Naturals

Phases == {"Pending", "CreatingAttempt", "Running", "RetryWaiting", "Succeeded",
           "Failed", "CancelRequested", "Canceled", "CancelUnknown"}

\* No further transition is possible without a new run.
Terminal(phase) == phase \in {"Succeeded", "Failed", "Canceled"}

\* What the lifecycle lets a run in phase "from" become.
Successors(from) ==
  CASE from = "Pending"         -> {"CreatingAttempt", "CancelRequested"}
    [] from = "CreatingAttempt" -> {"Running", "CancelRequested"}
    [] from = "Running"         -> {"RetryWaiting", "Succeeded", "Failed", "CancelRequested"}
    [] from = "RetryWaiting"    -> {"CreatingAttempt", "CancelRequested", "Failed"}
    [] from = "CancelRequested" -> {"Canceled", "CancelUnknown"}
    [] OTHER                    -> {}

CanTransition(from, to) == to \in Successors(from)

\* Broken: skips a number.
NextAttemptSkips(attempt) == attempt + 2

NextAttempt(attempt) == attempt + 1

\* Broken: misses the first attempt.
AttemptInFlightOffByOne(phase, attempt) ==
  attempt > 1 /\ phase \in {"Running", "CreatingAttempt"}

\* An attempt has started and has not been observed terminal.
AttemptInFlight(phase, attempt) ==
  attempt >= 1 /\ phase \in {"Running", "CreatingAttempt"}

\* Broken: one attempt too few.
CanStartAttemptShort(phase, attempt, maxAttempts) ==
  /\ ~AttemptInFlight(phase, attempt)
  /\ NextAttempt(attempt) < maxAttempts
  /\ phase \in {"Pending", "RetryWaiting"}

\* Another attempt is permitted by the budget and legal in the lifecycle.
CanStartAttempt(phase, attempt, maxAttempts) ==
  /\ ~AttemptInFlight(phase, attempt)
  /\ NextAttempt(attempt) <= maxAttempts
  /\ phase \in {"Pending", "RetryWaiting"}

=============================================================================
