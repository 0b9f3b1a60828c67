----------------------------- MODULE AdminReads -----------------------------
(***************************************************************************)
(* The read side of the admin API: binding of the paging parameters, the   *)
(* tenant and resource-group scope of a caller, the list and get use cases *)
(* and the SQL they run, and a client that walks a list page by page while *)
(* other writers insert and remove rows.                                   *)
(*                                                                         *)
(* A behaviour looks at one table.  A row keeps only what the queries tell *)
(* apart: its id, tenant, resource group, creation instant, the column a   *)
(* status filter compares, the row it belongs to, and whether it is still  *)
(* there (is_active, or deleted_at IS NULL).  A query answers with the set *)
(* of pages the database may return: rows its ORDER BY does not separate   *)
(* come in any order, in each execution anew.                              *)
(***************************************************************************)
EXTENDS Integers, Sequences, FiniteSets, SequencesExt

CONSTANTS
    DefaultListLimit,   \* page size when the caller names none
    MaxListLimit,       \* the largest page
    CheckListLimit,     \* page size the check queries fall back to
    Tables,             \* the tables walked
    Callers,            \* [tenant, group, platform]; "" is no tenant, no group
    Queries,            \* [limit, offset, tenant, state, parent]; limit <<>> or <<n>>
    Seeds,              \* Seeds[table]: the rows there at the start
    Owners,             \* Owners[table]: the rows a child table may hang from
    Newcomers,          \* [tenant, group, state, parent] of rows inserted later
    MaxRows             \* bound on the rows of the table

ASSUME ReadConstants ==
    /\ DefaultListLimit \in 1..MaxListLimit /\ MaxListLimit \in Nat
    /\ CheckListLimit \in 1..MaxListLimit /\ MaxRows \in Nat

VARIABLES
    table,    \* the table this behaviour looks at
    rows,     \* its rows
    owner,    \* the function or workflow a child table's route names
    caller,   \* the authenticated principal
    query,    \* the parameters of the request
    walk      \* the client's progress through the pages

readVars == <<table, rows, owner, caller, query, walk>>

-----------------------------------------------------------------------------
(* Answers.                                                                *)

Refused(code) == {[code |-> code, items |-> <<>>]}

Served(pages) == {[code |-> "ok", items |-> p] : p \in pages}

Smaller(m, n) == IF m < n THEN m ELSE n

(* LIMIT and OFFSET.                                                       *)
Cut(s, limit, offset) == SubSeq(s, offset + 1, Smaller(offset + limit, Len(s)))

(* The pages of a SELECT: those rows of S that match, in any order ORDER BY *)
(* allows, cut by LIMIT and OFFSET.                                         *)
Select(S, matches(_), before(_, _), limit, offset) ==
    LET found == {r \in S : matches(r)}
        orders[R \in SUBSET found] ==
            IF R = {} THEN {<<>>}
            ELSE UNION {{<<r>> \o s : s \in orders[R \ {r}]} :
                            r \in {r \in R : \A x \in R : ~before(x, r)}}
    IN {Cut(s, limit, offset) : s \in orders[found]}

(* One row by id, or not found.                                            *)
Find(S, matches(_), id) ==
    LET found == {r \in S : matches(r) /\ r.id = id}
    IN IF found = {} THEN Refused("not found") ELSE Served({<<r>> : r \in found})

newestById(a, b) == a.id > b.id

\* Broken: rows created at the same instant are left in any order.
newestByTimeOnly(a, b) == a.at > b.at

newestByTimeAndId(a, b) == a.at > b.at \/ (a.at = b.at /\ a.id > b.id)

newestByTime(a, b) == a.at > b.at

oldestById(a, b) == a.id < b.id

(* The group predicate of a query, disabled when the caller has no group.  *)
nullableGroup(r, group) == group = "" \/ r.group = group

(* The in-memory form of the same predicate.                               *)
visibleToGroup(r, group) == group = "" \/ r.group = group

RequireUnscoped(in, answer) ==
    IF in.group = "" THEN answer ELSE Refused("out of scope")

-----------------------------------------------------------------------------
(* Binding: the limits a request may carry ({} is a 400).                  *)

(* binding:"omitempty,min=1,max=100": an absent limit and a zero are alike. *)
omitempty(q) ==
    IF q.limit \in {<<>>, <<0>>} THEN {0} ELSE {q.limit[1]} \cap 1..MaxListLimit

(* form:"limit,default=50" binding:"min=1,max=100": a zero is refused.     *)
defaulted(q) ==
    IF q.limit = <<>> THEN {DefaultListLimit} ELSE {q.limit[1]} \cap 1..MaxListLimit

(* Use cases fall back to the default page and cap what is larger.         *)
normalizeListLimit(n) == IF n < 1 THEN DefaultListLimit ELSE Smaller(n, MaxListLimit)

Page(n, q) == [limit |-> n, offset |-> q.offset, state |-> "", parent |-> 0]

ListJobsRequest(q) == {Page(n, q) : n \in omitempty(q)}

ListInstancesRequest(q) == {[Page(n, q) EXCEPT !.state = q.state] : n \in omitempty(q)}

ListChecksRequest(q) == {[Page(n, q) EXCEPT !.state = q.state] : n \in omitempty(q)}

ListCheckRunsRequest(q) ==
    {[Page(n, q) EXCEPT !.state = q.state, !.parent = q.parent] : n \in omitempty(q)}

ListSLIsRequest(q) == {Page(n, q) : n \in defaulted(q)}

ListSLOsRequest(q) == {Page(n, q) : n \in defaulted(q)}

ListSLOBudgetsRequest(q) == {Page(n, q) : n \in defaulted(q)}

ListSLOAlertsRequest(q) ==
    {[Page(n, q) EXCEPT !.state = q.state, !.parent = q.parent] : n \in defaulted(q)}

ListTenantsRequest(q) == {Page(n, q) : n \in omitempty(q)}

ListFunctionsRequest(q) == {Page(n, q) : n \in omitempty(q)}

(* No offset parameter: only the head of a function's history is readable. *)
ListFunctionRunsRequest(q) == {[Page(n, q) EXCEPT !.offset = 0] : n \in omitempty(q)}

ListWorkflowsRequest(q) == {Page(n, q) : n \in omitempty(q)}

ListWorkflowRunsRequest(q) == {Page(n, q) : n \in omitempty(q)}

(* The tenant a request acts on ({} is a 403): the caller's own, or another *)
(* one named by a platform principal that has a tenant of its own.         *)
requireTenantID(c, asked) ==
    IF c.tenant = "" THEN {}
    ELSE IF asked \in {"", c.tenant} THEN {c.tenant}
    ELSE IF c.platform THEN {asked} ELSE {}

groupFrom(c) == c.group

(* A handler: bind, resolve the tenant, add the caller's group, call the   *)
(* use case.                                                               *)
Handle(c, asked, bound, UseCase(_)) ==
    IF bound = {} THEN Refused("invalid")
    ELSE IF requireTenantID(c, asked) = {} THEN Refused("forbidden")
    ELSE UNION {UseCase([tenant |-> t, group |-> groupFrom(c), limit |-> b.limit,
                         offset |-> b.offset, state |-> b.state, parent |-> b.parent]) :
                    t \in requireTenantID(c, asked), b \in bound}

(* A detail handler binds the id of the route instead.                     *)
HandleOne(c, asked, id, UseCase(_, _)) ==
    LET Lookup(in) == UseCase(in, id)
    IN Handle(c, asked,
              IF id < 1 THEN {} ELSE {[limit |-> 0, offset |-> 0, state |-> "", parent |-> 0]},
              Lookup)

-----------------------------------------------------------------------------
(* Job definitions: the active revision of each, refused to a caller whose *)
(* scope the table has no column for.                                      *)

jobMatches(r, in) == r.tenant = in.tenant /\ r.live

jobsList(in) ==
    Served(Select(rows, LAMBDA r : jobMatches(r, in), newestByTimeAndId, in.limit, in.offset))

(* The query of an unscoped caller, its page size defaulted and bounded.    *)
Normalized(in, Query(_)) ==
    RequireUnscoped(in,
        LET n == IF in.limit = 0 THEN DefaultListLimit ELSE in.limit
        IN IF n \in 1..MaxListLimit THEN Query([in EXCEPT !.limit = n])
           ELSE Refused("invalid"))

NormalizeListInput(in) == Normalized(in, jobsList)

ListJobs(c, q) == Handle(c, q.tenant, ListJobsRequest(q), NormalizeListInput)

jobGet(in, id) == Find(rows, LAMBDA r : jobMatches(r, in), id)

NormalizeGetInput(in, answer) == RequireUnscoped(in, answer)

GetJob(c, q, id) ==
    HandleOne(c, q.tenant, id, LAMBDA in, n : NormalizeGetInput(in, jobGet(in, n)))

-----------------------------------------------------------------------------
(* Runs of the ledger and their attempts.                                  *)

runsList(in) ==
    Served(Select(rows, LAMBDA r : r.tenant = in.tenant /\ in.state \in {"", r.state},
                  newestByTimeAndId, in.limit, in.offset))

normalizeRunList(in) == Normalized(in, runsList)

ListInstances(c, q) == Handle(c, "", ListInstancesRequest(q), normalizeRunList)

runGet(in, id) == Find(rows, LAMBDA r : r.tenant = in.tenant, id)

normalizeRunGet(in, answer) == RequireUnscoped(in, answer)

GetInstance(c, id) ==
    HandleOne(c, "", id, LAMBDA in, n : normalizeRunGet(in, runGet(in, n)))

(* A run without attempts, and an unknown run, list nothing.               *)
attemptsList(in, run) ==
    Served(Select(rows, LAMBDA r : r.tenant = in.tenant /\ r.parent = run, oldestById, MaxRows, 0))

ListAttempts(c, run) ==
    HandleOne(c, "", run, LAMBDA in, n : normalizeRunGet(in, attemptsList(in, n)))

-----------------------------------------------------------------------------
(* Checks and their runs.  Only the checks carry a resource group.         *)

checkLimit(n) == IF n <= 0 THEN CheckListLimit ELSE Smaller(n, MaxListLimit)

checkMatches(r, in) == r.tenant = in.tenant /\ r.live /\ nullableGroup(r, in.group)

checksList(in) ==
    Served(Select(rows, LAMBDA r : checkMatches(r, in) /\ in.state \in {"", r.state},
                  newestById, checkLimit(in.limit), in.offset))

ListChecks(c, q) == Handle(c, q.tenant, ListChecksRequest(q), checksList)

\* Broken: the detail query forgets the soft delete.
checkGetDeleted(in, id) ==
    Find(rows, LAMBDA r : r.tenant = in.tenant /\ nullableGroup(r, in.group), id)

checkGet(in, id) == Find(rows, LAMBDA r : checkMatches(r, in), id)

GetCheck(c, q, id) == HandleOne(c, q.tenant, id, checkGet)

checkRunsList(in) ==
    Served(Select(rows, LAMBDA r : /\ r.tenant = in.tenant
                                   /\ in.parent \in {0, r.parent}
                                   /\ in.state \in {"", r.state},
                  newestByTime, checkLimit(in.limit), in.offset))

ListCheckRuns(c, q) == Handle(c, q.tenant, ListCheckRunsRequest(q), checkRunsList)

checkRunGet(in, id) == Find(rows, LAMBDA r : r.tenant = in.tenant, id)

GetCheckRun(c, id) == HandleOne(c, "", id, checkRunGet)

-----------------------------------------------------------------------------
(* Service levels.                                                         *)

sliMatches(r, in) == r.tenant = in.tenant /\ r.live /\ nullableGroup(r, in.group)

slisList(in, n) ==
    Served(Select(rows, LAMBDA r : sliMatches(r, in), newestById, n, in.offset))

listSLIs(in) == slisList(in, normalizeListLimit(in.limit))

ListSLIs(c, q) == Handle(c, q.tenant, ListSLIsRequest(q), listSLIs)

sliGet(in, id) == Find(rows, LAMBDA r : sliMatches(r, in), id)

GetSLI(c, id) == HandleOne(c, "", id, sliGet)

sloMatches(r, in) == r.tenant = in.tenant /\ r.live /\ nullableGroup(r, in.group)

slosList(in, n) ==
    Served(Select(rows, LAMBDA r : sloMatches(r, in), newestById, n, in.offset))

listSLOs(in) == slosList(in, normalizeListLimit(in.limit))

ListSLOs(c, q) == Handle(c, q.tenant, ListSLOsRequest(q), listSLOs)

sloGet(in, id) == Find(rows, LAMBDA r : sloMatches(r, in), id)

GetSLO(c, id) == HandleOne(c, "", id, sloGet)

(* Budgets of the SLO the route names: one per window start.               *)
budgetsList(in, slo, n) ==
    Served(Select(rows, LAMBDA r : r.tenant = in.tenant /\ r.parent = slo,
                  newestByTime, n, in.offset))

listBudgets(in) == budgetsList(in, owner.id, normalizeListLimit(in.limit))

ListSLOBudgets(c, q) == Handle(c, q.tenant, ListSLOBudgetsRequest(q), listBudgets)

budgetCurrent(in, slo) ==
    LET current == Select(rows, LAMBDA r : r.tenant = in.tenant /\ r.parent = slo,
                          newestByTime, 1, 0)
    IN IF current = {<<>>} THEN Refused("not found") ELSE Served(current)

(* No budget row yet is an empty budget, not a 404.                        *)
getBudget(in, slo) ==
    {IF a.code = "not found" THEN [code |-> "ok", items |-> <<>>] ELSE a : a \in budgetCurrent(in, slo)}

GetSLOBudget(c, slo) == HandleOne(c, "", slo, getBudget)

alertsList(in, n) ==
    Served(Select(rows, LAMBDA r : /\ r.tenant = in.tenant
                                   /\ in.parent \in {0, r.parent}
                                   /\ in.state \in {"", r.state},
                  newestByTime, n, in.offset))

listAlerts(in) == alertsList(in, normalizeListLimit(in.limit))

ListSLOAlerts(c, q) == Handle(c, q.tenant, ListSLOAlertsRequest(q), listAlerts)

alertGet(in, id) == Find(rows, LAMBDA r : r.tenant = in.tenant, id)

GetSLOAlert(c, id) == HandleOne(c, "", id, alertGet)

-----------------------------------------------------------------------------
(* Tenants, keys, groups and policies.  Row-level security leaves a tenant *)
(* its own row of the tenants table.                                       *)

tenantsList(in, n) ==
    Served(Select(rows, LAMBDA r : r.tenant = in.tenant, newestByTime, n, in.offset))

listTenants(in) == tenantsList(in, normalizeListLimit(in.limit))

ListTenants(c, q) == Handle(c, "", ListTenantsRequest(q), listTenants)

tenantGet(in, id) == Find(rows, LAMBDA r : r.tenant = in.tenant, id)

GetTenant(c, id) == HandleOne(c, "", id, tenantGet)

(* Every key of the tenant the route names, revoked ones included.         *)
apiKeysList(in) ==
    Served(Select(rows, LAMBDA r : r.tenant = in.tenant, newestByTime, MaxRows, 0))

requireTenantIDFor(c, asked) ==
    IF requireTenantID(c, "") = {} THEN {} ELSE {IF asked = "" THEN c.tenant ELSE asked}

ListAPIKeys(c, q) ==
    IF requireTenantIDFor(c, q.tenant) = {} THEN Refused("forbidden")
    ELSE UNION {apiKeysList([tenant |-> t]) : t \in requireTenantIDFor(c, q.tenant)}

groupsList(in) ==
    Served(Select(rows, LAMBDA r : r.tenant = in.tenant, oldestById, MaxRows, 0))

ListResourceGroups(c) == Handle(c, "", {Page(0, [offset |-> 0])}, groupsList)

policyMatches(r, in) == r.tenant \in {in.tenant, ""}

presetsFirst(a, b) ==
    \/ a.tenant = "" /\ b.tenant # ""
    \/ a.tenant = b.tenant /\ a.id < b.id

policiesList(in) ==
    Served(Select(rows, LAMBDA r : policyMatches(r, in), presetsFirst, MaxRows, 0))

ListPolicies(c) == Handle(c, "", {Page(0, [offset |-> 0])}, policiesList)

policyGet(in, id) == Find(rows, LAMBDA r : policyMatches(r, in), id)

GetPolicy(c, id) == HandleOne(c, "", id, policyGet)

-----------------------------------------------------------------------------
(* Functions: the store returns every row, the use case filters and pages. *)

functionsOf(in) ==
    Select(rows, LAMBDA r : r.tenant = in.tenant /\ r.live, oldestById, MaxRows, 0)

listFunctions(in) ==
    Served({Cut(SelectSeq(s, LAMBDA r : visibleToGroup(r, in.group)),
                normalizeListLimit(in.limit), in.offset) : s \in functionsOf(in)})

ListFunctions(c, q) == Handle(c, q.tenant, ListFunctionsRequest(q), listFunctions)

functionForTenant(S, in, id) == Find(S, LAMBDA r : r.tenant = in.tenant /\ r.live, id)

getFunction(S, in, id) ==
    {IF a.code = "ok" /\ ~visibleToGroup(a.items[1], in.group)
     THEN [code |-> "not found", items |-> <<>>] ELSE a : a \in functionForTenant(S, in, id)}

GetFunction(c, q, id) == HandleOne(c, q.tenant, id, LAMBDA in, n : getFunction(rows, in, n))

(* The terminal invocations of the function the route names.               *)
runsByFunction(in, function, limit) ==
    Served(Select(rows, LAMBDA r : r.tenant = in.tenant /\ r.parent = function,
                  newestByTimeAndId, limit, 0))

listFunctionRuns(in) ==
    UNION {IF a.code = "ok" THEN runsByFunction(in, owner.id, normalizeListLimit(in.limit)) ELSE {a} :
               a \in getFunction({owner}, in, owner.id)}

ListFunctionRuns(c, q) == Handle(c, q.tenant, ListFunctionRunsRequest(q), listFunctionRuns)

runByRunID(in, function, id) ==
    Find(rows, LAMBDA r : r.tenant = in.tenant /\ r.parent = function, id)

getFunctionRun(in, id) ==
    UNION {IF a.code = "ok" THEN runByRunID(in, owner.id, id) ELSE {a} :
               a \in getFunction({owner}, in, owner.id)}

GetFunctionRun(c, id) == HandleOne(c, "", id, getFunctionRun)

-----------------------------------------------------------------------------
(* Workflows and their runs.                                               *)

activeWorkflow(r, in) == r.tenant = in.tenant /\ r.live

activeWorkflows(in, limit) ==
    Served(Select(rows, LAMBDA r : activeWorkflow(r, in), newestByTimeAndId, limit, in.offset))

listWorkflows(in) ==
    RequireUnscoped(in, activeWorkflows(in, normalizeListLimit(in.limit)))

ListWorkflows(c, q) == Handle(c, q.tenant, ListWorkflowsRequest(q), listWorkflows)

activeWorkflowByID(S, in, id) == Find(S, LAMBDA r : activeWorkflow(r, in), id)

getWorkflow(S, in, id) == RequireUnscoped(in, activeWorkflowByID(S, in, id))

GetWorkflow(c, q, id) == HandleOne(c, q.tenant, id, LAMBDA in, n : getWorkflow(rows, in, n))

runsForDefinition(in, source, limit) ==
    Served(Select(rows, LAMBDA r : r.tenant = in.tenant /\ r.parent = source,
                  newestByTimeAndId, limit, in.offset))

listWorkflowRuns(in) ==
    UNION {IF a.code = "ok" THEN runsForDefinition(in, owner.id, normalizeListLimit(in.limit)) ELSE {a} :
               a \in getWorkflow({owner}, in, owner.id)}

ListWorkflowRuns(c, q) == Handle(c, q.tenant, ListWorkflowRunsRequest(q), listWorkflowRuns)

workflowRunByID(in, id) == Find(rows, LAMBDA r : r.tenant = in.tenant, id)

(* A run of another workflow is not found, like one that does not exist.   *)
resolveRun(in, id) ==
    UNION {IF a.code # "ok" THEN {a}
           ELSE {IF b.code = "ok" /\ b.items[1].parent # owner.id
                 THEN [code |-> "not found", items |-> <<>>] ELSE b : b \in workflowRunByID(in, id)} :
               a \in getWorkflow({owner}, in, owner.id)}

GetWorkflowRun(c, id) == HandleOne(c, "", id, resolveRun)

-----------------------------------------------------------------------------
(* The route table: which handler answers for which table.                 *)

PagedTables == {"jobs", "runs", "checks", "check runs", "slis", "slos", "budgets", "alerts",
                "tenants", "functions", "workflows", "workflow runs"}

WholeTables == {"attempts", "api keys", "groups", "policies", "function runs"}

List(t, c, q) ==
    CASE t = "jobs" -> ListJobs(c, q)
      [] t = "runs" -> ListInstances(c, q)
      [] t = "attempts" -> ListAttempts(c, owner.id)
      [] t = "checks" -> ListChecks(c, q)
      [] t = "check runs" -> ListCheckRuns(c, q)
      [] t = "slis" -> ListSLIs(c, q)
      [] t = "slos" -> ListSLOs(c, q)
      [] t = "budgets" -> ListSLOBudgets(c, q)
      [] t = "alerts" -> ListSLOAlerts(c, q)
      [] t = "tenants" -> ListTenants(c, q)
      [] t = "api keys" -> ListAPIKeys(c, q)
      [] t = "groups" -> ListResourceGroups(c)
      [] t = "policies" -> ListPolicies(c)
      [] t = "functions" -> ListFunctions(c, q)
      [] t = "function runs" -> ListFunctionRuns(c, q)
      [] t = "workflows" -> ListWorkflows(c, q)
      [] t = "workflow runs" -> ListWorkflowRuns(c, q)

DetailTables == (PagedTables \ {"budgets"}) \union {"policies", "function runs"}

Get(t, c, q, id) ==
    CASE t = "jobs" -> GetJob(c, q, id)
      [] t = "runs" -> GetInstance(c, id)
      [] t = "checks" -> GetCheck(c, q, id)
      [] t = "check runs" -> GetCheckRun(c, id)
      [] t = "slis" -> GetSLI(c, id)
      [] t = "slos" -> GetSLO(c, id)
      [] t = "alerts" -> GetSLOAlert(c, id)
      [] t = "tenants" -> GetTenant(c, id)
      [] t = "policies" -> GetPolicy(c, id)
      [] t = "functions" -> GetFunction(c, q, id)
      [] t = "function runs" -> GetFunctionRun(c, id)
      [] t = "workflows" -> GetWorkflow(c, q, id)
      [] t = "workflow runs" -> GetWorkflowRun(c, id)

-----------------------------------------------------------------------------
(* A client walks the list: it asks for the next page until one is empty.  *)

Matching(t, c, q) ==
    UNION {UNION {Range(a.items) : a \in List(t, c, [q EXCEPT !.offset = n])} : n \in 0..MaxRows}

Ids(S) == {r.id : r \in S}

NewWalk == [offset |-> 0, seen |-> <<>>, code |-> "ok", done |-> FALSE,
            inserted |-> FALSE, removed |-> FALSE]

ReadInit ==
    /\ table \in Tables
    /\ rows = Seeds[table]
    /\ owner \in Owners[table]
    /\ caller \in Callers
    /\ query \in Queries
    /\ walk = NewWalk @@ [steady |-> Ids(Matching(table, caller, query))]

(* One request of the client; a table without paging answers at once.      *)
Fetch ==
    /\ ~walk.done
    /\ \E a \in List(table, caller, [query EXCEPT !.offset = walk.offset]) :
          walk' = [walk EXCEPT !.offset = @ + Len(a.items),
                               !.seen = @ \o [i \in DOMAIN a.items |-> a.items[i].id],
                               !.code = a.code,
                               !.done = a.items = <<>> \/ table \in WholeTables]
    /\ UNCHANGED <<table, rows, owner, caller, query>>

(* A writer commits a row: its id is the largest, its instant not older.   *)
(* A budget has a window start of its own, a tenant a single row.          *)
InsertRow ==
    /\ ~walk.done /\ Cardinality(rows) < MaxRows
    /\ \E n \in Newcomers :
       \E at \in {Max({r.at : r \in rows}), Max({r.at : r \in rows}) + 1} :
          /\ table = "budgets" => at \notin {r.at : r \in rows}
          /\ table = "tenants" => n.tenant \notin {r.tenant : r \in rows}
          /\ rows' = rows \union {[n EXCEPT !.id = Max(Ids(rows)) + 1, !.at = at]}
    /\ walk' = [walk EXCEPT !.inserted = TRUE]
    /\ UNCHANGED <<table, owner, caller, query>>

(* A row is soft-deleted or superseded, or pruned from the ledger, before  *)
(* the walk begins.                                                        *)
RemoveRow ==
    /\ walk = NewWalk @@ [steady |-> walk.steady]
    /\ \E r \in rows :
          /\ r.live
          /\ \/ rows' = rows \ {r}
             \/ rows' = (rows \ {r}) \union {[r EXCEPT !.live = FALSE]}
    /\ UNCHANGED <<table, owner, caller, query>>
    /\ walk' = [walk EXCEPT !.steady = Ids(Matching(table, caller, query))', !.removed = TRUE]

ReadNext == Fetch \/ InsertRow \/ RemoveRow

ReadSpec == ReadInit /\ [][ReadNext]_readVars

-----------------------------------------------------------------------------
(* Properties.                                                             *)

(* Tables whose ORDER BY separates any two rows.                           *)
TotallyOrdered == {"jobs", "runs", "attempts", "checks", "slis", "slos", "budgets", "tenants",
                   "groups", "policies", "functions", "workflows", "workflow runs"}

(* A client that walks a list to its empty page has seen every row that was *)
(* there all along, although rows were inserted meanwhile, and has seen none *)
(* twice if none was inserted.                                              *)
PagesCover ==
    (walk.done /\ walk.code = "ok" /\ table \in TotallyOrdered) =>
        /\ walk.steady \subseteq Range(walk.seen)
        /\ ~walk.inserted => \A i, j \in DOMAIN walk.seen : walk.seen[i] = walk.seen[j] => i = j

(* The detail route of a table answers for exactly the rows the list route *)
(* shows the same caller, and a caller refused by one is refused by the    *)
(* other; the current budget is the head of the budget history.            *)
GetAgreesWithList ==
    LET all == [limit |-> <<>>, offset |-> 0, tenant |-> "", state |-> "", parent |-> 0]
        listed == Ids(Matching(table, caller, all))
        found == {id \in 1..(MaxRows + 1) : \E a \in Get(table, caller, all, id) : a.code = "ok"}
    IN CASE table = "budgets" ->
                {a.items : a \in GetSLOBudget(caller, owner.id)}
                    = {Cut(a.items, 1, 0) : a \in ListSLOBudgets(caller, all)}
         [] table = "function runs" -> listed \subseteq found
         [] table \in DetailTables \ {"function runs"} -> listed = found
         [] OTHER -> TRUE

=============================================================================
