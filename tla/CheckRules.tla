----------------------------- MODULE CheckRules -----------------------------
(***************************************************************************)
(* The pure rules of checks and SLIs: what the admin boundary admits as a  *)
(* check, the job a check renders to, when it is due next, and how one run *)
(* outcome is judged against an SLI's criteria.                            *)
(*                                                                         *)
(* Texts are told apart only as far as the rules do: "blank" after         *)
(* trimming, "long" past the field's limit, otherwise a usable value.      *)
(***************************************************************************)
EXTENDS Integers, FiniteSets

Refused == [ok |-> FALSE]

DefaultTimeoutSec == 30
DefaultRetryLimit == 2
DefaultPriority == 5
MinimumIntervalSec == 30
DefaultExpectedStatus == 200
MinExpectedStatus == 100
MaxExpectedStatus == 599
ProbeMethods == {"GET", "HEAD", "OPTIONS"}

\* Absent integers of a request; a JSON number with a fraction.
Absent == -1
Fraction == -2

-----------------------------------------------------------------------------
\* The probe configuration of an http_health check.

\* jsonInt: a JSON number decodes as a float and must be integral.
jsonInt(raw) == raw # Fraction

probeMethod(raw) ==
    CASE raw \in {"absent", "blank"} -> "GET"
      [] raw = "get"                 -> "GET"
      [] OTHER                       -> raw

probeStatus(raw) == IF raw = Absent THEN DefaultExpectedStatus ELSE raw

NormalizeProbeConfig(cfg) ==
    IF /\ cfg.url \in {"http", "https"}    \* present, a string, absolute, not too long
       /\ cfg.method # "notString"
       /\ probeMethod(cfg.method) \in ProbeMethods
       /\ jsonInt(cfg.expected)
       /\ probeStatus(cfg.expected) \in MinExpectedStatus .. MaxExpectedStatus
    THEN [ok |-> TRUE, url |-> cfg.url, method |-> probeMethod(cfg.method),
          expected |-> probeStatus(cfg.expected)]
    ELSE Refused

-----------------------------------------------------------------------------
\* The fields of a create request, one rule each.

normalizeRequiredString(t) == t \notin {"blank", "long"}
normalizeOptionalString(t) == t # "long"
normalizeTenantID(t) == t = "ulid"
normalizeCheckType(t) == t = "http_health"

\* Metric, operator and severity of every assertion rule.
normalizeAssertionRules(rules) ==
    \A r \in rules : /\ normalizeRequiredString(r.metric)
                     /\ r.operator \in {">", "<", "==", "!=", ">=", "<="}
                     /\ r.severity \in {"warning", "critical"}

normalizeScheduleType(t) == IF t = "blank" THEN "cron" ELSE t
normalizeTimezone(z) == z \in {"blank", "known"}

normalizeTimeoutSec(n) == IF n = 0 THEN DefaultTimeoutSec ELSE n
normalizeRetryLimit(n) == IF n = 0 THEN DefaultRetryLimit ELSE n
normalizePriority(n) == IF n = 0 THEN DefaultPriority ELSE n

\* A cron schedule needs an expression that parses, an interval one a cadence
\* no faster than the floor.
normalizeSchedule(kind, cronExpr, intervalSec) ==
    \/ kind = "cron" /\ cronExpr = "parses"
    \/ kind = "interval" /\ intervalSec >= MinimumIntervalSec

\* The first refused field decides; the stored config is the request's own.
NormalizeCreate(in) ==
    LET kind == normalizeScheduleType(in.scheduleType)
    IN  IF /\ normalizeRequiredString(in.name)
           /\ normalizeOptionalString(in.description)
           /\ normalizeTenantID(in.tenant)
           /\ normalizeCheckType(in.checkType)
           /\ NormalizeProbeConfig(in.config).ok
           /\ normalizeAssertionRules(in.rules)
           /\ kind \in {"cron", "interval"}
           /\ normalizeTimezone(in.timezone)
           /\ normalizeTimeoutSec(in.timeout) >= 1
           /\ in.retryLimit >= 0
           /\ in.priority >= 0
           /\ normalizeSchedule(kind, in.cronExpr, in.intervalSec)
        THEN [ok |-> TRUE, config |-> in.config, kind |-> kind,
              timeout |-> normalizeTimeoutSec(in.timeout),
              retryLimit |-> normalizeRetryLimit(in.retryLimit),
              priority |-> normalizePriority(in.priority)]
        ELSE Refused

\* The job a check revision pins: probe, deadline and attempt budget.  The
\* script exits 0 exactly when the emitted status equals the expected one.
CheckJobSpec(c) ==
    LET probe == NormalizeProbeConfig(c.config)
    IN  IF ~probe.ok THEN Refused
        ELSE [ok |-> TRUE, probe |-> probe,
              timeout |-> IF c.timeout < 1 THEN DefaultTimeoutSec ELSE c.timeout,
              attempts |-> c.retryLimit + 1]

\* The next due instant, from the schedule alone: it depends on the tick's
\* instant, never on the instant that was due.
nextRunAt(kind, now, period) ==
    CASE kind = "cron"     -> ((now \div period) + 1) * period
      [] kind = "interval" -> now + period
      [] OTHER             -> now + 1

\* Pause and Resume.
Pause(status) == IF status = "active" THEN "paused" ELSE "refused"
Resume(status) == IF status = "paused" THEN "active" ELSE "refused"

-----------------------------------------------------------------------------
\* Judging one outcome.

\* The criterion on the duration: an operator of the list with a threshold.
evaluateNumericCondition(actual, cond) ==
    CASE cond.op = "<"  -> actual < cond.value
      [] cond.op = "<=" -> actual <= cond.value
      [] cond.op = ">"  -> actual > cond.value
      [] cond.op = ">=" -> actual >= cond.value
      [] cond.op = "==" -> actual = cond.value
      [] cond.op = "!=" -> actual # cond.value

\* One key of the criteria: "yes", "no", or "error" for a key nobody produces.
\* Without both instants of the attempt the duration is unknown and bad.
criterion(event, c) ==
    CASE c.key = "status"      -> IF event.status = c.want THEN "yes" ELSE "no"
      [] c.key = "duration_ms" -> IF event.timed /\ evaluateNumericCondition(event.ms, c) THEN "yes" ELSE "no"
      [] OTHER                 -> "error"

\* The keys are met in the order of a Go map, which is random: a failing key
\* and an invalid one race, so the verdict is a set.
evaluateCriteria(event, criteria) ==
    LET met == {criterion(event, c) : c \in criteria}
    IN  IF met \subseteq {"yes"} THEN {"yes"} ELSE met \ {"yes"}

isGoodEvent(event, sli) ==
    IF sli.criteria = {}
    THEN CASE sli.type = "availability" -> {IF event.status = "success" THEN "yes" ELSE "no"}
           [] sli.type \in {"latency", "quality"} -> {"error"}
           [] OTHER -> {"yes"}
    ELSE evaluateCriteria(event, sli.criteria)

statusForEvent(phase) == IF phase = "Succeeded" THEN "success" ELSE "failed"
=============================================================================
