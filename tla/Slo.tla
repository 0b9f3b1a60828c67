-------------------------------- MODULE Slo --------------------------------
(***************************************************************************)
(* One SLO over one SLI: the admin API's rows, the snapshots that the      *)
(* check recorder feeds, and the scheduler's evaluation loop, which turns  *)
(* them into an error budget and burn-rate alerts.                         *)
(*                                                                         *)
(* An evaluation is five database calls, each its own transaction: the     *)
(* active SLOs, the aggregate, the budget, the active alerts, and one      *)
(* write per alert type.  Nothing serialises two schedulers unless etcd    *)
(* election is configured, so Evaluators may hold more than one.           *)
(*                                                                         *)
(* Ratios are compared by cross-multiplication: a target is a number of    *)
(* parts of Scale, and the code's floating-point rounding is left out.     *)
(***************************************************************************)
EXTENDS Integers, FiniteSets, FiniteSetsExt

CONSTANTS Evaluators,       \* scheduler processes running the loop
          SLIInputs,        \* requests that create the SLI
          SLOInputs,        \* requests that create the SLO
          Scale,            \* a target of Scale parts is 1.0
          SecondLength,     \* a second, in clock units
          SnapshotWindow,   \* defaultSnapshotWindow, in clock units
          MonthLength,      \* a calendar month, in clock units
          SloStart,         \* where in its month the clock starts
          MaxSloTime,       \* bound on the clock
          MaxEvents,        \* bound on events
          MaxSloVersion,    \* bound on status changes
          MaxSloFaults      \* bound on failed calls

AlertTypes == {"fast_burn", "slow_burn"}
Buckets == {t \in SloStart .. MaxSloTime : t % SnapshotWindow = 0}
SloRefused == [ok |-> FALSE]
NoBudget == [start |-> -(MaxSloTime + 1), status |-> "none"]
NoEvaluation == [step |-> "idle", now |-> 0, status |-> "none", hot |-> {}, has |-> {}]

DefaultFastBurnRate == 14
DefaultSlowBurnRate == 2
MaxWindowDuration == 8760

ValidWindowTypes == {"rolling", "calendar", "quarterly"}
ValidSLITypes == {"availability", "latency", "quality", "custom"}
ValidSourceTypes == {"job_run"}
ValidAggregations == {"ratio", "count"}

VARIABLES sloClock,
          sliRow,      \* the SLI: "none", "live" or "deleted", and whether it matches its source
          sloRow,      \* the SLO: status and version
          slo,         \* its immutable columns, once created
          events,      \* bucket -> good and total events of the SLI's snapshot
          budget,      \* the budget of the most recent window
          activeAlerts,\* alert type -> number of active alerts
          evaluation,  \* evaluator -> the evaluation it is in
          sloFaults

sloVars == <<sloClock, sliRow, sloRow, slo, events, budget, activeAlerts, evaluation, sloFaults>>

-----------------------------------------------------------------------------
\* What the admin boundary admits.

NormalizeCreateSLI(in) ==
    LET type == IF in.type = "absent" THEN "availability" ELSE in.type
        source == IF in.source = "absent" THEN "job_run" ELSE in.source
        aggregation == IF in.aggregation = "absent" THEN "ratio" ELSE in.aggregation
    IN  IF /\ in.name \notin {"blank", "long"}
           /\ type \in ValidSLITypes
           /\ source \in ValidSourceTypes
           /\ aggregation \in ValidAggregations
           /\ in.sourceUID \notin {"absent", "notString", "blank"}
           /\ type \in {"availability", "quality"} => in.criteria
        THEN [ok |-> TRUE, sourceUID |-> in.sourceUID]
        ELSE SloRefused

\* A target of Scale is admitted.
NormalizeCreateSLO(in) ==
    LET window == IF in.window = "absent" THEN "rolling" ELSE in.window
        fast == IF in.fast <= 0 THEN DefaultFastBurnRate ELSE in.fast
        slow == IF in.slow <= 0 THEN DefaultSlowBurnRate ELSE in.slow
    IN  IF /\ in.name \notin {"blank", "long"}
           /\ in.sli > 0
           /\ in.target > 0 /\ in.target <= Scale
           /\ window \in ValidWindowTypes
           /\ in.duration > 0 /\ in.duration <= MaxWindowDuration
           /\ slow < fast
        THEN [ok |-> TRUE, target |-> in.target, window |-> window, duration |-> in.duration,
              fast |-> fast, slow |-> slow]
        ELSE SloRefused

-----------------------------------------------------------------------------
\* Windows, budgets and burn rates.

calculateRollingWindow(duration, now) == [start |-> now - duration, end |-> now]

calculateCalendarWindow(now) ==
    LET start == now - (now % MonthLength)
    IN  [start |-> start, end |-> start + MonthLength]

calculateQuarterlyWindow(now) ==
    LET start == now - (now % (3 * MonthLength))
    IN  [start |-> start, end |-> start + 3 * MonthLength]

CalculateWindow(type, duration, now) ==
    CASE type = "calendar"  -> calculateCalendarWindow(now)
      [] type = "quarterly" -> calculateQuarterlyWindow(now)
      [] OTHER              -> calculateRollingWindow(duration, now)

Duration(w) == w.end - w.start

Elapsed(w, now) ==
    CASE now < w.start -> 0
      [] now > w.end   -> Duration(w)
      [] OTHER         -> now - w.start

\* AggregateWindow: the snapshots that start inside the window.
AggregateWindow(w) ==
    LET inside == {b \in Buckets : b >= w.start /\ b < w.end}
    IN  [total |-> MapThenSumSet(LAMBDA b : events[b].total, inside),
         bad |-> MapThenSumSet(LAMBDA b : events[b].total - events[b].good, inside)]

\* Scale times the errors the target allows among total events.
budgetTotal(total) == (Scale - slo.target) * total

\* Whether the burn rate reaches a threshold.  The rate is 0, below every
\* threshold, when nothing is allowed or no time has passed.
CalculateBurnRate(total, bad, elapsed, duration, threshold) ==
    /\ budgetTotal(total) > 0
    /\ elapsed > 0
    /\ duration > 0
    /\ bad * Scale * duration >= threshold * budgetTotal(total) * elapsed

BudgetStatus(remaining, total) ==
    IF total <= 0 THEN "healthy"
    ELSE IF remaining <= 0 THEN "exhausted"
    ELSE IF remaining * 10 < total THEN "at_risk"
    ELSE "healthy"

burnRate(type) == IF type = "fast_burn" THEN slo.fast ELSE slo.slow

\* The alert types whose threshold an aggregate reaches.
burning(now, total, bad) ==
    LET w == CalculateWindow(slo.window, slo.duration, now)
    IN  {a \in AlertTypes : CalculateBurnRate(total, bad, Elapsed(w, now), Duration(w), burnRate(a))}

-----------------------------------------------------------------------------
\* The admin API.  Refused requests change nothing.

SloInit ==
    /\ sloClock = SloStart
    /\ sliRow = [state |-> "none", feeds |-> FALSE]
    /\ sloRow = [status |-> "none", version |-> 0]
    /\ slo = SloRefused
    /\ events = [b \in Buckets |-> [good |-> 0, total |-> 0]]
    /\ budget = NoBudget
    /\ activeAlerts = [a \in AlertTypes |-> 0]
    /\ evaluation = [e \in Evaluators |-> NoEvaluation]
    /\ sloFaults = 0

\* FindBySourceUID matches the stored text, which was only trimmed to check it.
CreateSLI(in) ==
    /\ sliRow.state = "none"
    /\ NormalizeCreateSLI(in).ok
    /\ sliRow' = [state |-> "live", feeds |-> NormalizeCreateSLI(in).sourceUID = "exact"]
    /\ UNCHANGED <<sloClock, sloRow, slo, events, budget, activeAlerts, evaluation, sloFaults>>

DeleteSLI ==
    /\ sliRow.state = "live"
    /\ sliRow' = [sliRow EXCEPT !.state = "deleted"]
    /\ UNCHANGED <<sloClock, sloRow, slo, events, budget, activeAlerts, evaluation, sloFaults>>

\* The row references an SLI, deleted or not, and truncates its window to
\* whole seconds.
insertSLO(spec) == [spec EXCEPT !.duration = @ - (@ % SecondLength)]

CreateSLO(in) ==
    /\ sliRow.state # "none"
    /\ sloRow.status = "none"
    /\ NormalizeCreateSLO(in).ok
    /\ slo' = insertSLO(NormalizeCreateSLO(in))
    /\ sloRow' = [status |-> "active", version |-> 1]
    /\ UNCHANGED <<sloClock, sliRow, events, budget, activeAlerts, evaluation, sloFaults>>

\* What an UPDATE guarded by a version and a group answers.
classifyWriteMiss(version, inGroup) ==
    IF sloRow.status \in {"none", "deleted"} \/ ~inGroup THEN "notFound"
    ELSE IF version # sloRow.version THEN "conflict"
    ELSE "updated"

ChangeSLOStatus(to, version, inGroup) ==
    /\ to \in {"active", "paused"}
    /\ classifyWriteMiss(version, inGroup) = "updated"
    /\ sloRow.version < MaxSloVersion
    /\ sloRow' = [status |-> to, version |-> sloRow.version + 1]
    /\ UNCHANGED <<sloClock, sliRow, slo, events, budget, activeAlerts, evaluation, sloFaults>>

DeleteSLO(version, inGroup) ==
    /\ classifyWriteMiss(version, inGroup) = "updated"
    /\ sloRow.version < MaxSloVersion
    /\ sloRow' = [status |-> "deleted", version |-> sloRow.version + 1]
    /\ UNCHANGED <<sloClock, sliRow, slo, events, budget, activeAlerts, evaluation, sloFaults>>

-----------------------------------------------------------------------------
\* Events arrive from the check recorder while the SLI is live.

IncrementSLISnapshot(good) ==
    LET bucket == sloClock - (sloClock % SnapshotWindow)
    IN  /\ sliRow.state = "live" /\ sliRow.feeds
        /\ MapThenSumSet(LAMBDA b : events[b].total, Buckets) < MaxEvents
        /\ events' = [events EXCEPT ![bucket] = [good |-> IF good THEN @.good + 1 ELSE @.good,
                                                 total |-> @.total + 1]]
        /\ UNCHANGED <<sloClock, sliRow, sloRow, slo, budget, activeAlerts, evaluation, sloFaults>>

SloTick ==
    /\ sloClock < MaxSloTime
    /\ sloClock' = sloClock + 1
    /\ UNCHANGED <<sliRow, sloRow, slo, events, budget, activeAlerts, evaluation, sloFaults>>

-----------------------------------------------------------------------------
\* The evaluation loop.

\* EvaluateAll lists the active SLOs and reads the clock.
EvaluateAll(e) ==
    /\ evaluation[e].step = "idle"
    /\ sloRow.status = "active"
    /\ evaluation' = [evaluation EXCEPT ![e].step = "aggregate", ![e].now = sloClock]
    /\ UNCHANGED <<sloClock, sliRow, sloRow, slo, events, budget, activeAlerts, sloFaults>>

\* The aggregate decides the budget and what burns.  A window with no events
\* is healthy, and its evaluation ends with the budget, before the alerts.
aggregate(e) ==
    /\ evaluation[e].step = "aggregate"
    /\ \E now \in {evaluation[e].now} :
       \E sum \in {AggregateWindow(CalculateWindow(slo.window, slo.duration, now))} :
         LET remaining == budgetTotal(sum.total) - sum.bad * Scale
         IN  evaluation' = [evaluation EXCEPT ![e] =
               IF sum.total = 0
               THEN [NoEvaluation EXCEPT !.step = "empty", !.now = now]
               ELSE [NoEvaluation EXCEPT !.step = "upsert", !.now = now,
                                         !.status = BudgetStatus(remaining, budgetTotal(sum.total)),
                                         !.hot = burning(now, sum.total, sum.bad)]]
    /\ UNCHANGED <<sloClock, sliRow, sloRow, slo, events, budget, activeAlerts, sloFaults>>

\* Broken: a row of the same window is kept as it is.
UpsertKeeps(start, status) ==
    budget' = IF start > budget.start THEN [start |-> start, status |-> status] ELSE budget

\* Upsert keys the budget by the start of its window; the row read back as
\* current is the one with the latest start.
Upsert(start, status) ==
    budget' = IF start >= budget.start THEN [start |-> start, status |-> status] ELSE budget

evaluateSLO(e) ==
    LET start == CalculateWindow(slo.window, slo.duration, evaluation[e].now).start
    IN  /\ \/ /\ evaluation[e].step = "empty"
              /\ Upsert(start, "healthy")
              /\ evaluation' = [evaluation EXCEPT ![e] = NoEvaluation]
           \/ /\ evaluation[e].step = "upsert"
              /\ Upsert(start, evaluation[e].status)
              /\ evaluation' = [evaluation EXCEPT ![e] =
                    [NoEvaluation EXCEPT !.step = "alerts", !.hot = evaluation[e].hot]]
        /\ UNCHANGED <<sloClock, sliRow, sloRow, slo, events, activeAlerts, sloFaults>>

GetActiveBySLO(e) ==
    /\ evaluation[e].step = "alerts"
    /\ evaluation' = [evaluation EXCEPT ![e].step = "fast_burn",
                                        ![e].has = {a \in AlertTypes : activeAlerts[a] > 0}]
    /\ UNCHANGED <<sloClock, sliRow, sloRow, slo, events, budget, activeAlerts, sloFaults>>

CreateAlert(a) == activeAlerts' = [activeAlerts EXCEPT ![a] = @ + 1]

ResolveBySLOAndType(a) == activeAlerts' = [activeAlerts EXCEPT ![a] = 0]

\* Broken: a burn that has subsided leaves its alert active.
alertWriteSticky(a, hot, has) ==
    IF a \in hot \ has THEN CreateAlert(a) ELSE UNCHANGED activeAlerts

\* One alert type: raise it if it burns and was not read as active, resolve
\* every active one if it does not burn and was.
alertWrite(a, hot, has) ==
    CASE a \in hot \ has -> CreateAlert(a)
      [] a \in has \ hot -> ResolveBySLOAndType(a)
      [] OTHER           -> UNCHANGED activeAlerts

manageAlerts(e) ==
    /\ evaluation[e].step \in AlertTypes
    /\ alertWrite(evaluation[e].step, evaluation[e].hot, evaluation[e].has)
    /\ evaluation' = [evaluation EXCEPT ![e] = IF @.step = "fast_burn" THEN [@ EXCEPT !.step = "slow_burn"]
                                               ELSE NoEvaluation]
    /\ UNCHANGED <<sloClock, sliRow, sloRow, slo, events, budget, sloFaults>>

\* A call fails or times out, or the scheduler stops: what was written stays
\* and the rest of the evaluation waits for the next tick.
EvaluationFails(e) ==
    /\ evaluation[e].step # "idle"
    /\ sloFaults < MaxSloFaults
    /\ sloFaults' = sloFaults + 1
    /\ evaluation' = [evaluation EXCEPT ![e] = NoEvaluation]
    /\ UNCHANGED <<sloClock, sliRow, sloRow, slo, events, budget, activeAlerts>>

EvaluationStep(e) ==
    EvaluateAll(e) \/ aggregate(e) \/ evaluateSLO(e) \/ GetActiveBySLO(e) \/ manageAlerts(e)

SloNext ==
    \/ \E in \in SLIInputs : CreateSLI(in)
    \/ DeleteSLI
    \/ \E in \in SLOInputs : CreateSLO(in)
    \/ \E version \in 1 .. MaxSloVersion, inGroup \in BOOLEAN :
         \/ \E to \in {"active", "paused"} : ChangeSLOStatus(to, version, inGroup)
         \/ DeleteSLO(version, inGroup)
    \/ \E good \in BOOLEAN : IncrementSLISnapshot(good)
    \/ SloTick
    \/ \E e \in Evaluators : EvaluationStep(e) \/ EvaluationFails(e)

SloSpec == SloInit /\ [][SloNext]_sloVars

\* Each scheduler's loop ticks for ever, and time passes.
SloFairness == WF_sloVars(SloTick) /\ \A e \in Evaluators : WF_sloVars(EvaluationStep(e))

SloFairSpec == SloSpec /\ SloFairness

-----------------------------------------------------------------------------
Current == AggregateWindow(CalculateWindow(slo.window, slo.duration, sloClock))

\* Once events, time and the SLO stand still, its budget is exhausted exactly
\* if its window spent what a target below 1.0 allows, whatever a slower
\* evaluation wrote meanwhile and whichever calls failed.
BudgetSettles ==
    <>[](sloRow.status = "active" /\ slo.target < Scale =>
           \A sum \in {Current} : sum.total > 0 => (budget.status = "exhausted" <=> sum.bad * Scale >= budgetTotal(sum.total)))

\* Likewise its alerts: an alert type is active exactly if its threshold is
\* reached, as long as the window holds an event at all.
AlertsSettle ==
    <>[](sloRow.status = "active" =>
           \A sum \in {Current} : sum.total > 0 =>
             {a \in AlertTypes : activeAlerts[a] > 0} = burning(sloClock, sum.total, sum.bad))

=============================================================================
