----------------------------- MODULE MCServices -----------------------------
(***************************************************************************)
(* Instances of the services around the run pipeline, checked together.    *)
(* They share no state with each other, so a behaviour is one of one part  *)
(* while the others stay at their initial states: the state spaces add up  *)
(* instead of multiplying.                                                 *)
(***************************************************************************)
EXTENDS DefinitionRevisions, Checks, FunctionInvocations

CONSTANT Parts     \* the services explored

VARIABLE part

Init ==
    /\ part \in Parts
    /\ RevInit /\ CheckInit /\ FnInit

\* A step of one part leaves the others alone.
InRevisions == part = "revisions" /\ UNCHANGED <<part, checkVars, fnVars>>
InChecks == part = "checks" /\ UNCHANGED <<part, revVars, fnVars>>
InFunctions == part = "functions" /\ UNCHANGED <<part, revVars, checkVars>>

Next ==
    \/ InRevisions /\ RevNext
    \/ InChecks /\ CheckNext
    \/ InFunctions /\ FnNext

vars == <<part, revVars, checkVars, fnVars>>

\* The fairness of the parts, whose fair actions are never enabled in another
\* part: one conjunct serves an action of each.
Fairness ==
    /\ WF_vars(\/ InRevisions /\ Deliver(Survivor)
               \/ InChecks /\ Tick)
    /\ WF_vars(\/ InRevisions /\ ProjectorStep(Survivor)
               \/ InChecks /\ FiringStep)
    /\ \A e \in Leaders : WF_vars(InFunctions /\ SyncStep(e))

Spec == Init /\ [][Next]_vars /\ Fairness

-----------------------------------------------------------------------------
\* Create requests: a cron check, an interval check and one that is refused.
CronCheck ==
    [name |-> "ok", description |-> "ok", tenant |-> "ulid", checkType |-> "http_health",
     config |-> [url |-> "http", method |-> "absent", expected |-> Absent], rules |-> {},
     scheduleType |-> "blank", cronExpr |-> "parses", intervalSec |-> Absent, timezone |-> "blank",
     timeout |-> 0, retryLimit |-> 0, priority |-> 0]
IntervalCheck == [CronCheck EXCEPT !.scheduleType = "interval", !.intervalSec = 30, !.config.method = "get"]
MCCheckInputs == {CronCheck, [CronCheck EXCEPT !.config.url = "ftp"], [CronCheck EXCEPT !.scheduleType = "interval"]}

\* An SLI without criteria, one on the duration, and a latency SLI whose
\* criteria are missing.
MCSLIList ==
    <<[id |-> "up", type |-> "availability", criteria |-> {}],
      [id |-> "fast", type |-> "latency", criteria |-> {[key |-> "duration_ms", op |-> "<=", value |-> 1]}],
      [id |-> "odd", type |-> "latency", criteria |-> {}]>>

Invocation == [id |-> 1, tenant |-> "ulid", actor |-> "ok", wait |-> 0, scope |-> "", idempotency |-> "idem"]
MCRequests ==
    {[Invocation EXCEPT !.wait = 5],
     [Invocation EXCEPT !.scope = "other"], [Invocation EXCEPT !.wait = 61]}
MCTimeoutOf == [v \in 1 .. MaxFnVersion + 1 |-> v]
=============================================================================
