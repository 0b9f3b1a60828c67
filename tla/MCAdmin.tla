------------------------------ MODULE MCAdmin ------------------------------
(***************************************************************************)
(* Instances of the parts of the admin API, and of the SLO evaluation that *)
(* works on the rows it writes, checked together: access control and       *)
(* bootstrap, the rate limiter, the lists, and SLOs.  They share no state, *)
(* so a behaviour is one of one part while the others stay at their        *)
(* initial states.                                                         *)
(***************************************************************************)
EXTENDS AdminReads, AdminAccess, RateLimiter, Slo

CONSTANT Parts     \* the parts explored

VARIABLE part

AnyOwner == [id |-> 1, tenant |-> "t1", group |-> "", at |-> 1, state |-> "a", parent |-> 1, live |-> TRUE]

\* What the lists of the other parts' behaviours are at.
AtRest ==
    /\ table = "groups" /\ owner = AnyOwner
    /\ caller = CHOOSE c \in Callers : TRUE
    /\ query = CHOOSE q \in Queries : TRUE

Init ==
    /\ part \in Parts
    /\ ReadInit /\ (part # "reads" => AtRest)
    /\ AccessInit /\ LimiterInit /\ SloInit

InReads == part = "reads" /\ UNCHANGED <<part, accessVars, limiterVars, sloVars>>
InAccess == part = "access" /\ UNCHANGED <<part, readVars, limiterVars, sloVars>>
InLimiter == part = "limiter" /\ UNCHANGED <<part, readVars, accessVars, sloVars>>
InSlos == part = "slos" /\ UNCHANGED <<part, readVars, accessVars, limiterVars>>

Next ==
    \/ InReads /\ ReadNext
    \/ InAccess /\ AccessNext
    \/ InLimiter /\ LimiterNext
    \/ InSlos /\ SloNext

vars == <<part, readVars, accessVars, limiterVars, sloVars>>

\* Each scheduler's loop ticks for ever, and time passes.
Fairness ==
    /\ WF_sloVars(part = "slos" /\ SloTick)
    /\ \A e \in Evaluators : WF_sloVars(part = "slos" /\ EvaluationStep(e))

Spec == Init /\ [][Next]_vars /\ Fairness

-----------------------------------------------------------------------------
\* Lists: rows of two tenants, with and without a group, and ties in time.
T(id, tenant, group, at, state, parent) ==
    [id |-> id, tenant |-> tenant, group |-> group, at |-> at, state |-> state,
     parent |-> parent, live |-> TRUE]
AnySeed == {T(1, "t1", "", 1, "a", 1), T(2, "t1", "g", 1, "b", 2), T(3, "t1", "g", 2, "a", 1),
            T(4, "t2", "g", 2, "a", 1)}
MCTables == PagedTables \union WholeTables
MCSeeds == [t \in MCTables |->
    CASE t = "budgets" -> {[r EXCEPT !.at = r.id] : r \in AnySeed}
      [] t = "tenants" -> {T(1, "t1", "", 1, "a", 1), T(2, "t2", "", 1, "a", 1)}
      [] t = "policies" -> AnySeed \union {T(5, "", "", 1, "a", 1)}
      [] OTHER -> AnySeed]
MCCallers == {[tenant |-> "t1", group |-> "", platform |-> FALSE],
              [tenant |-> "t1", group |-> "g", platform |-> FALSE],
              [tenant |-> "", group |-> "", platform |-> TRUE]}
Q(limit, tenant, state, parent) ==
    [limit |-> limit, offset |-> 0, tenant |-> tenant, state |-> state, parent |-> parent]
MCQueries == {Q(<<1>>, "", "", 0), Q(<<>>, "t1", "a", 0), Q(<<0>>, "", "", 1),
              Q(<<9>>, "", "", 0), Q(<<1>>, "t2", "", 0)}
MCOwners == [t \in MCTables |->
    IF t \in {"function runs", "workflow runs"}
    THEN {AnyOwner, [AnyOwner EXCEPT !.group = "g"], [AnyOwner EXCEPT !.tenant = "t2"]}
    ELSE {AnyOwner}]
MCNewcomers == {T(0, "t1", "g", 0, "a", 1)}

-----------------------------------------------------------------------------
ARN(t, i) == [tenant |-> t, group |-> "*", type |-> "*", id |-> i]

Grant(effect, actions, patterns) == [effect |-> effect, action |-> actions, resource |-> patterns]

KnownActionsMC == {"apikey:Create", "policy:Delete", "job:Trigger"}

PresetsMC ==
    {[id |-> 1, owner |-> "platform", name |-> "AdministratorAccess",
      doc |-> {Grant("Allow", {"*"}, {ARN("*", "*")})}],
     [id |-> 2, owner |-> "platform", name |-> "TenantAdminAccess",
      doc |-> {Grant("Allow", KnownActionsMC, {ARN("self", "*")})}]}

(* A boundary that leaves out one job, a document with the platform's      *)
(* wildcard, and one with a malformed pattern.                             *)
AllButOne == {Grant("Allow", {"apikey:Create", "job:Trigger"}, {ARN("self", "*")}),
              Grant("Deny", {"job:Trigger"}, {ARN("self", "1")})}
Wildcard == {Grant("Allow", {"*"}, {ARN("self", "*")})}
Malformed == {Grant("Allow", {"job:Trigger"}, {ARN("self", "")})}

Name(slug, form) == [slug |-> slug, form |-> form]

Ask(op, as) == [op |-> op, as |-> as, id |-> 0, group |-> "", policies |-> <<>>, boundary |-> 0,
                name |-> Name("ci", "lower"), doc |-> {}]

(* One worker creates keys, the other works on policies and groups; both   *)
(* revoke.                                                                 *)
CallsMC ==
    "w1" :> {[Ask("CreateAPIKey", 1) EXCEPT !.policies = <<2>>],
             [Ask("CreateAPIKey", 1) EXCEPT !.policies = <<2>>, !.boundary = 3],
             [Ask("CreateAPIKey", 2) EXCEPT !.policies = <<3>>, !.group = "ci"],
             [Ask("RevokeAPIKey", 1) EXCEPT !.id = 2]}
    @@ "w2" :> ({[Ask("CreatePolicy", 1) EXCEPT !.doc = d] : d \in {AllButOne, Wildcard, Malformed}}
                \union {[Ask("DeletePolicy", a) EXCEPT !.id = 3] : a \in 1..2}
                \union {[Ask("DeletePolicy", 1) EXCEPT !.id = 2], [Ask("RevokeAPIKey", 1) EXCEPT !.id = 2],
                        [Ask("CreateResourceGroup", 1) EXCEPT !.name = Name("ci", "upper")],
                        [Ask("CreateResourceGroup", 1) EXCEPT !.name = Name("ci", "malformed")],
                        Ask("CreateTenant", 1)})

configuredMC == "s1" :> [prefix |-> "otj_a", secret |-> "a1"] @@ "s2" :> [prefix |-> "otj_a", secret |-> "a2"]

-----------------------------------------------------------------------------
limitsMC == [g \in EndpointGroup |-> IF g = "read" THEN 2 ELSE 1]
RoutesMC == {<<"GET", "/metrics">>, <<"POST", "/jobs/:id/trigger">>, <<"GET", "/jobs">>}

-----------------------------------------------------------------------------
LiveSLI ==
    [name |-> "ok", type |-> "absent", source |-> "absent", aggregation |-> "absent",
     sourceUID |-> "exact", criteria |-> TRUE]
MCSLIInputs == {LiveSLI, [LiveSLI EXCEPT !.sourceUID = "padded"], [LiveSLI EXCEPT !.criteria = FALSE]}

RollingSLO ==
    [name |-> "ok", sli |-> 1, target |-> 5, window |-> "absent", duration |-> 2, fast |-> 6, slow |-> 1]
MCSLOInputs == {RollingSLO, [RollingSLO EXCEPT !.window = "calendar"], [RollingSLO EXCEPT !.slow = 6]}
=============================================================================
