---------------------------- MODULE AdminAccess ----------------------------
(***************************************************************************)
(* Keys, policies and groups of one tenant behind the admin API: the       *)
(* bootstrap that creates the first key, authentication of a request, the  *)
(* documents it is judged by, the authorization guard, and the commands    *)
(* that create and revoke keys, create and delete policies, and create     *)
(* groups and tenants.  Requests run concurrently; each command's reads    *)
(* and its write are transactions of their own, and an audit row commits   *)
(* with the change it describes.                                           *)
(*                                                                         *)
(* A policy document is a set of statements [effect, action, resource]; a  *)
(* resource pattern is [tenant, group, type, id].  Keys and policies have  *)
(* numbers for ids, 0 being none.  Callers act on their own tenant.        *)
(***************************************************************************)
EXTENDS Integers, Sequences, FiniteSets, Functions

CONSTANTS
    Workers,       \* requests in flight at a time
    Starters,      \* bootstrap processes
    configured,    \* configured[s]: the [prefix, secret] a bootstrap process is given
    Backend,       \* "local" or "kubernetes": where bootstrap stores the key
    Tenant,        \* the default tenant
    Presets,       \* platform policies [id, owner, name, doc]; 1 is AdministratorAccess
    KnownActions,  \* the actions a tenant policy may name
    Calls,         \* Calls[w]: [op, as, id, group, policies, boundary, name, doc] of requests
    MaxKeys,       \* bound on the keys
    MaxPolicies,   \* bound on the policies ever made
    MaxFailures,   \* bound on failed writes of the secret
    MaxReruns,     \* bound on bootstrap runs after the first
    MaxCalls       \* bound on the requests

ASSUME AccessConstants ==
    /\ 1 \in {p.id : p \in Presets} /\ \A p \in Presets : p.owner = "platform" /\ p.id \in Nat \ {0}
    /\ \A p, q \in Presets : p.id = q.id => p = q
    /\ \E last \in Presets : \A p \in Presets : p.id <= last.id
    /\ Backend \in {"local", "kubernetes"}
    /\ {MaxKeys, MaxPolicies, MaxFailures, MaxReruns, MaxCalls} \subseteq Nat

VARIABLES
    tenants,    \* slugs
    keys,       \* [id, prefix, secret, group, boundary, bound, revoked]
    policies,   \* [id, owner, name, doc]
    minted,     \* the last policy id handed out
    groups,     \* slugs
    trail,      \* trail[row]: how often an audit row <<resource type, event, id>> was written
    call,       \* call[w]: the request a worker serves
    boot,       \* boot[s]: where a bootstrap process is
    secret,     \* the key in the secret store, Unset before it is written
    left      \* failures, reruns and requests left

accessVars == <<tenants, keys, policies, minted, groups, trail, call, boot, secret, left>>

-----------------------------------------------------------------------------
(* Policy documents.                                                       *)

(* A string nobody filled in.                                              *)
Unset == ""

probeSegment == "probe"

(* A pattern with no type or no id is malformed.                           *)
ParseARN(p) == p.type # Unset /\ p.id # Unset

segmentMatches(pattern, value) == pattern \in {"*", value}

groupMatches(pattern, value) == pattern \in {Unset, "*", value}

Matches(p, target) ==
    /\ segmentMatches(p.tenant, target.tenant)
    /\ groupMatches(p.group, target.group)
    /\ segmentMatches(p.type, target.type)
    /\ segmentMatches(p.id, target.id)

matches(st, req) ==
    /\ {req.action, "*"} \cap st.action # {}
    /\ \E p \in st.resource : ParseARN(p) /\ Matches(p, req.resource)

(* Any matching deny refuses, whatever document it is in; otherwise a      *)
(* matching allow permits.                                                 *)
Evaluate(docs, req) ==
    LET hits == {st \in UNION docs : matches(st, req)}
    IN IF hits # {} /\ \A st \in hits : st.effect = "Allow" THEN "Allow" ELSE "Deny"

(* The request a pattern stands for when it is judged by a policy.         *)
concreteTarget(p) ==
    [tenant |-> IF p.tenant = "*" THEN probeSegment ELSE p.tenant,
     group |-> IF p.group \in {Unset, "*"} THEN probeSegment ELSE p.group,
     type |-> IF p.type = "*" THEN probeSegment ELSE p.type,
     id |-> IF p.id = "*" THEN probeSegment ELSE p.id]

actionEffective(action, patterns, superset) ==
    \A p \in patterns :
        ParseARN(p) /\ Evaluate(superset, [action |-> action, resource |-> concreteTarget(p)]) = "Allow"

everyAtomEffective(st, superset) == \A a \in st.action : actionEffective(a, st.resource, superset)

Permits(subset, superset) ==
    \A st \in UNION subset : st.effect = "Allow" => everyAtomEffective(st, superset)

CheckGrantable(caller, granted) == Permits(granted, caller)

(* The boundary a new key carries, as a set of at most one document;       *)
(* ceiling and requested are such sets.                                    *)
boundaryAllowed(ceiling, requested) ==
    ceiling = {} \/ requested = {} \/ Permits(requested, ceiling)

PropagateBoundary(ceiling, requested) == IF requested = {} THEN ceiling ELSE requested

(* One statement per action and pattern of an allow.                       *)
atoms(st) ==
    {[effect |-> "Allow", action |-> {a}, resource |-> {p}] :
        a \in st.action, p \in {q \in st.resource : ParseARN(q)}}

denials(doc) == {st \in doc : st.effect = "Deny"}

(* What is left of a document under a boundary: its denials, and the atoms *)
(* of the rest that the boundary allows.                                   *)
restrict(doc, boundary) ==
    denials(doc) \union
    {atom \in UNION {atoms(st) : st \in doc \ denials(doc)} :
        \A a \in atom.action, p \in atom.resource :
            Evaluate({boundary}, [action |-> a, resource |-> concreteTarget(p)]) = "Allow"}

(* The documents that survive a boundary, and the boundary's own denials.  *)
Intersect(docs, boundary) ==
    ({restrict(doc, boundary) : doc \in docs} \union {denials(boundary)}) \ {{}}

ResolveSelf(doc) ==
    LET own(p) == IF p.tenant = "self"
                  THEN [tenant |-> Tenant, group |-> p.group, type |-> p.type, id |-> p.id] ELSE p
    IN {[effect |-> st.effect, action |-> st.action, resource |-> {own(p) : p \in st.resource}] :
           st \in doc}

ParseDocument(doc) ==
    /\ doc # {}
    /\ \A st \in doc : /\ st.effect \in {"Allow", "Deny"}
                       /\ st.action # {} /\ st.resource # {}
                       /\ \A p \in st.resource : ParseARN(p)

ValidateTenantDocument(doc) ==
    \A st \in doc : /\ "*" \notin st.action /\ st.action \subseteq KnownActions
                    /\ \A p \in st.resource : ParseARN(p) /\ p.tenant = "self"

(* The presets are documents the parser accepts.                           *)
ASSUME PresetDocuments == \A p \in Presets : ParseDocument(p.doc)

-----------------------------------------------------------------------------
(* The rows.                                                               *)

(* The policy a tenant sees under an id: its own or a preset.              *)
storedPolicy(id) == {p \in policies : p.id = id}

(* The document of a key's boundary, none when the column is null.         *)
boundaryDocument(k) == {ResolveSelf(p.doc) : p \in storedPolicy(k.boundary)}

(* What a key may do: its bound policies, narrowed by its boundary.        *)
EffectiveDocuments(k) ==
    LET docs == {ResolveSelf(p.doc) : p \in {q \in policies : q.id \in k.bound}}
        ceiling == boundaryDocument(k)
    IN IF ceiling = {} THEN docs ELSE Intersect(docs, CHOOSE b \in ceiling : TRUE)

insertAuditEvent(type, event, id) ==
    LET row == <<type, event, id>>
    IN trail' = [r \in DOMAIN trail \union {row} |->
                    IF r \notin DOMAIN trail THEN 1 ELSE IF r = row THEN trail[r] + 1 ELSE trail[r]]

validateAPIKey(id) == {k \in keys : k.id = id /\ ~k.revoked}

principalFromRow(k) == [id |-> k.id, group |-> k.group, boundary |-> k.boundary]

tenantScoped(by, type, id) ==
    [tenant |-> Tenant, group |-> IF by.group = Unset THEN "*" ELSE by.group, type |-> type, id |-> id]

tenantResource == [tenant |-> "*", group |-> "*", type |-> "tenant", id |-> "*"]

(* The id in the path names the tenant, also on the route that names a key. *)
apiKeyResource(id) == [tenant |-> id, group |-> "*", type |-> "apikey", id |-> "*"]

(* The permission and the target of each route.                            *)
adminAPIRoutes(by, op) ==
    CASE op = "CreateAPIKey" -> [action |-> "apikey:Create", resource |-> apiKeyResource(Tenant)]
      [] op = "RevokeAPIKey" -> [action |-> "apikey:Revoke", resource |-> apiKeyResource("key id")]
      [] op = "CreatePolicy" -> [action |-> "policy:Create", resource |-> tenantScoped(by, "policy", "*")]
      [] op = "DeletePolicy" -> [action |-> "policy:Delete", resource |-> tenantScoped(by, "policy", "policy id")]
      [] op = "CreateResourceGroup" -> [action |-> "group:Create", resource |-> tenantScoped(by, "group", "*")]
      [] op = "CreateTenant" -> [action |-> "tenant:Create", resource |-> tenantResource]

-----------------------------------------------------------------------------
(* A request.                                                              *)

Idle == [pc |-> "idle"]

End(w) == call' = [call EXCEPT ![w] = Idle]

GoTo(w, pc, c) == call' = [call EXCEPT ![w] = [c EXCEPT !.pc = pc]]

rowVars == <<tenants, keys, policies, minted, groups, trail>>

bootVars == <<boot, secret, left>>

(* A client presents a key; a revoked one is turned away.                  *)
resolveTenant(w) ==
    /\ call[w] = Idle /\ left.calls > 0
    /\ left' = [left EXCEPT !.calls = @ - 1]
    /\ \E c \in Calls[w] : \E k \in validateAPIKey(c.as) :
           call' = [call EXCEPT ![w] = [pc |-> "loading", by |-> principalFromRow(k), args |-> c,
                                        docs |-> {}, granted |-> {}, todo |-> c.policies,
                                        ceiling |-> {}, requested |-> {}]]
    /\ UNCHANGED <<rowVars, boot, secret>>

(* The guard: the effective documents must allow the route's action on its *)
(* target.                                                                 *)
Require(docs, by, op) == Evaluate(docs, adminAPIRoutes(by, op)) = "Allow"

(* The documents are read once; the guard and the delegation checks of     *)
(* this request see that set.                                              *)
loadDocuments(w) ==
    /\ call[w].pc = "loading"
    /\ \E k \in keys :
           /\ k.id = call[w].by.id
           /\ IF Require(EffectiveDocuments(k), call[w].by, call[w].args.op)
              THEN GoTo(w, call[w].args.op, [call[w] EXCEPT !.docs = EffectiveDocuments(k)])
              ELSE End(w)
    /\ UNCHANGED <<rowVars, bootVars>>

-----------------------------------------------------------------------------
(* Creating a key: four reads, then one write.                             *)

Exists(group) == group \in groups

checkGroup(w) ==
    LET c == call[w]
        asked == c.args.group
    IN  /\ c.pc = "CreateAPIKey"
        /\ IF (c.by.group # Unset /\ asked # c.by.group) \/ (asked # Unset /\ ~Exists(asked))
           THEN End(w) ELSE GoTo(w, "policies", c)
        /\ UNCHANGED <<rowVars, bootVars>>

(* One requested policy is loaded, in a transaction of its own.            *)
resolvePolicies(w) ==
    LET c == call[w]
        found == storedPolicy(Head(c.todo))
    IN  /\ c.pc = "policies" /\ c.todo # <<>>
        /\ IF found = {} THEN End(w)
           ELSE GoTo(w, "policies", [c EXCEPT !.todo = Tail(@),
                                     !.granted = @ \union {ResolveSelf(p.doc) : p \in found}])
        /\ UNCHANGED <<rowVars, bootVars>>

(* All loaded: the caller must hold what it hands out.  Then its own       *)
(* boundary is loaded.                                                     *)
callerBoundary(w) ==
    LET c == call[w]
        own == boundaryDocument(c.by)
    IN  /\ c.pc = "policies" /\ c.todo = <<>>
        /\ IF ~CheckGrantable(c.docs, c.granted) \/ (c.by.boundary # 0 /\ own = {})
           THEN End(w) ELSE GoTo(w, "boundary", [c EXCEPT !.ceiling = own])
        /\ UNCHANGED <<rowVars, bootVars>>

resolveBoundary(w) ==
    LET c == call[w]
        asked == {ResolveSelf(p.doc) : p \in storedPolicy(c.args.boundary)}
    IN  /\ c.pc = "boundary"
        /\ IF (c.args.boundary # 0 /\ asked = {}) \/ ~boundaryAllowed(c.ceiling, asked)
           THEN End(w) ELSE GoTo(w, "insert", [c EXCEPT !.requested = asked])
        /\ UNCHANGED <<rowVars, bootVars>>

(* The boundary column: the one asked for, or the caller's own.            *)
boundaryID(c) ==
    IF c.requested = {} /\ PropagateBoundary(c.ceiling, c.requested) # {}
    THEN c.by.boundary ELSE c.args.boundary

(* The key, its bindings and the audit row, or nothing: a policy deleted   *)
(* meanwhile, or named twice, fails the transaction.                       *)
insertKey(id, group, list, boundary) ==
    LET bound == Range(list)
        referenced == bound \union ({boundary} \ {0})
    IN  IF referenced \subseteq {p.id : p \in policies} /\ Cardinality(bound) = Len(list)
        THEN /\ keys' = keys \union {[id |-> id, prefix |-> "minted", secret |-> "minted", group |-> group,
                                      boundary |-> boundary, bound |-> bound, revoked |-> FALSE]}
             /\ insertAuditEvent("api_key", "create", id)
        ELSE UNCHANGED <<keys, trail>>

(* A fresh identifier: the next number no key has.                         *)
nextKey == {id \in 1..MaxKeys : \A n \in 1..id : n = id <=> n \notin {k.id : k \in keys}}

createKey(w) ==
    LET c == call[w]
    IN  /\ c.pc = "insert"
        /\ \E id \in nextKey : insertKey(id, c.args.group, c.args.policies, boundaryID(c))
        /\ End(w)
        /\ UNCHANGED <<tenants, policies, minted, groups, bootVars>>

-----------------------------------------------------------------------------
(* The other commands: one transaction each.                               *)

(* Broken: the update does not look at revoked_at.                         *)
unrevokedAny(id) == {k \in keys : k.id = id}

(* The row an UPDATE ... WHERE revoked_at IS NULL finds.                    *)
unrevoked(id) == {k \in keys : k.id = id /\ ~k.revoked}

(* The owner of the key is looked up before the update, which is left to   *)
(* one that is not revoked yet.                                            *)
RevokeCrossTenant(id) ==
    IF unrevoked(id) = {} THEN UNCHANGED <<keys, trail>>
    ELSE /\ keys' = {IF k \in unrevoked(id) THEN [k EXCEPT !.revoked = TRUE] ELSE k : k \in keys}
         /\ insertAuditEvent("api_key", "revoke", id)

RevokeAsAdmin(w) ==
    /\ call[w].pc = "RevokeAPIKey"
    /\ RevokeCrossTenant(call[w].args.id)
    /\ End(w)
    /\ UNCHANGED <<tenants, policies, minted, groups, bootVars>>

(* A name that is taken stores nothing.                                    *)
insertPolicy(name, doc) ==
    IF \E p \in policies : p.owner = "tenant" /\ p.name = name
    THEN UNCHANGED <<policies, minted, trail>>
    ELSE /\ policies' = policies \union {[id |-> minted + 1, owner |-> "tenant", name |-> name, doc |-> doc]}
         /\ minted' = minted + 1
         /\ insertAuditEvent("policy", "create", minted + 1)

(* A document that does not validate stores nothing.                       *)
createPolicy(w) ==
    LET c == call[w]
    IN  /\ c.pc = "CreatePolicy" /\ minted < MaxPolicies
        /\ IF ParseDocument(c.args.doc) /\ ValidateTenantDocument(c.args.doc)
           THEN insertPolicy(c.args.name, c.args.doc)
           ELSE UNCHANGED <<policies, minted, trail>>
        /\ End(w)
        /\ UNCHANGED <<tenants, keys, groups, bootVars>>

(* Broken: a boundary is cleared with the policy it refers to.             *)
boundaryRefersUnchecked(id) == FALSE

(* The foreign key of api_keys.boundary_policy_id.                         *)
boundaryRefers(id) == \E k \in keys : k.boundary = id

(* Deleting a policy: refused for a preset and for a key's boundary; the   *)
(* rows of key_policies that bind it go with it (ON DELETE CASCADE).       *)
removePolicy(id) ==
    LET owned == {p \in storedPolicy(id) : p.owner = "tenant"}
    IN  IF owned = {} \/ boundaryRefers(id) THEN UNCHANGED <<keys, policies, trail>>
        ELSE /\ policies' = policies \ owned
             /\ keys' = {[k EXCEPT !.bound = @ \ {id}] : k \in keys}
             /\ insertAuditEvent("policy", "delete", id)

deletePolicy(w) ==
    /\ call[w].pc = "DeletePolicy"
    /\ removePolicy(call[w].args.id)
    /\ End(w)
    /\ UNCHANGED <<tenants, minted, groups, bootVars>>

(* A slug is stored in lower case; a malformed one is refused.             *)
New(name) == IF name.form = "malformed" THEN {} ELSE {name.slug}

insertGroup(slug) ==
    IF slug \in groups THEN UNCHANGED <<groups, trail>>
    ELSE groups' = groups \union {slug} /\ insertAuditEvent("resource_group", "create", slug)

createGroup(w) ==
    LET slugs == New(call[w].args.name)
    IN  /\ call[w].pc = "CreateResourceGroup"
        /\ IF slugs = {} THEN UNCHANGED <<groups, trail>> ELSE \E slug \in slugs : insertGroup(slug)
        /\ End(w)
        /\ UNCHANGED <<tenants, keys, policies, minted, bootVars>>

(* A tenant leaves no audit row.                                           *)
insertTenant(slug) == tenants' = tenants \union {slug}

createTenant(w) ==
    /\ call[w].pc = "CreateTenant"
    /\ insertTenant(call[w].args.name.slug)
    /\ End(w)
    /\ UNCHANGED <<keys, policies, minted, groups, trail, bootVars>>

-----------------------------------------------------------------------------
(* Bootstrap.                                                              *)

(* Broken: every process writes the key it was given.                      *)
keyCreatedAlways(stored) == TRUE

(* The row was inserted by this call.                                      *)
keyCreated(stored) == stored = {}

(* One transaction: tenant, key and binding unless they exist; a stored    *)
(* key with another prefix fails it.                                       *)
EnsureDefault(s) ==
    LET stored == {k \in keys : k.id = 1}
        conflict == \E k \in stored : k.prefix # configured[s].prefix
    IN  /\ boot[s] = "starting"
        /\ IF conflict
           THEN boot' = [boot EXCEPT ![s] = "failed"] /\ UNCHANGED <<tenants, keys>>
           ELSE /\ tenants' = tenants \union {Tenant}
                /\ keys' = IF stored # {} THEN keys
                           ELSE keys \union
                                {[id |-> 1, prefix |-> configured[s].prefix,
                                  secret |-> configured[s].secret, group |-> Unset, boundary |-> 0,
                                  bound |-> {1}, revoked |-> FALSE]}
                /\ boot' = [boot EXCEPT ![s] = IF keyCreated(stored) THEN "writing" ELSE "done"]
        /\ UNCHANGED <<policies, minted, groups, trail, call, secret, left>>

(* A file is overwritten, an existing Kubernetes Secret is kept.           *)
WriteSecret(s) ==
    /\ boot[s] = "writing"
    /\ secret' = IF Backend = "kubernetes" /\ secret # Unset THEN secret ELSE configured[s].secret
    /\ boot' = [boot EXCEPT ![s] = "done"]
    /\ UNCHANGED <<rowVars, call, left>>

(* The write fails or the process dies before it; the job is retried.      *)
WriteFails(s) ==
    /\ boot[s] = "writing" /\ left.failures > 0
    /\ left' = [left EXCEPT !.failures = @ - 1]
    /\ boot' = [boot EXCEPT ![s] = "starting"]
    /\ UNCHANGED <<rowVars, call, secret>>

(* The next install or upgrade runs the job again.                         *)
Rerun(s) ==
    /\ boot[s] \in {"done", "failed"} /\ left.reruns > 0
    /\ left' = [left EXCEPT !.reruns = @ - 1]
    /\ boot' = [boot EXCEPT ![s] = "starting"]
    /\ UNCHANGED <<rowVars, call, secret>>

-----------------------------------------------------------------------------
(* The last policy the migrations insert.                                  *)
LastPreset == CHOOSE id \in {p.id : p \in Presets} : \A p \in Presets : p.id <= id

AccessInit ==
    /\ tenants = {} /\ keys = {} /\ groups = {}
    /\ policies = Presets /\ minted = LastPreset
    /\ trail = [row \in {} |-> 0]
    /\ call = [w \in Workers |-> Idle]
    /\ boot = [s \in Starters |-> "starting"]
    /\ secret = Unset
    /\ left = [failures |-> MaxFailures, reruns |-> MaxReruns, calls |-> MaxCalls]

AccessNext ==
    \/ \E w \in Workers :
          \/ resolveTenant(w) \/ loadDocuments(w)
          \/ checkGroup(w) \/ resolvePolicies(w) \/ callerBoundary(w) \/ resolveBoundary(w)
          \/ createKey(w) \/ RevokeAsAdmin(w) \/ createPolicy(w) \/ deletePolicy(w)
          \/ createGroup(w) \/ createTenant(w)
    \/ \E s \in Starters : EnsureDefault(s) \/ WriteSecret(s) \/ WriteFails(s) \/ Rerun(s)

AccessSpec == AccessInit /\ [][AccessNext]_accessVars

-----------------------------------------------------------------------------
(* What there is to tell of the tables' history.                           *)
keyEvents == {<<"api_key", "create", k.id>> : k \in {k \in keys : k.id # 1}}
             \union {<<"api_key", "revoke", k.id>> : k \in {k \in keys : k.revoked}}

policyEvents ==
    LET made == (LastPreset + 1)..minted
    IN {<<"policy", "create", id>> : id \in made}
       \union {<<"policy", "delete", id>> : id \in made \ {p.id : p \in policies}}

groupEvents == {<<"resource_group", "create", g>> : g \in groups}

(* The audit trail tells the tables' history exactly, whatever requests    *)
(* overlap: one row per key, policy and group that was created through the *)
(* API, one per revocation and per deletion that happened, none for one    *)
(* that was refused (insertAuditEvent commits with the change).            *)
AuditTrailExact == trail = [row \in keyEvents \union policyEvents \union groupEvents |-> 1]

(* A key that was created under a boundary is judged under it for as long  *)
(* as the key exists: what its documents allow, the boundary allows.  The  *)
(* boundary row cannot go, and Intersect lets nothing past it.             *)
BoundedKeysStayBounded ==
    \A k \in keys : k.boundary # 0 =>
        /\ boundaryDocument(k) # {}
        /\ \A a \in KnownActions, t \in {Tenant, "key id"}, i \in {"1", "2", "*"} :
              LET req == [action |-> a, resource |-> [tenant |-> t, group |-> "*", type |-> "job", id |-> i]]
              IN Evaluate(EffectiveDocuments(k), req) = "Allow" =>
                    Evaluate(boundaryDocument(k), req) = "Allow"

(* The secret store holds the bootstrap key that the database accepts, or  *)
(* nothing, also when two processes were configured with different keys    *)
(* (only the process whose transaction inserted the row writes).           *)
SecretMatchesStoredKey ==
    secret # Unset => \E k \in keys : k.id = 1 /\ k.secret = secret

=============================================================================
