------------------------- MODULE DefinitionRevisions -------------------------
(***************************************************************************)
(* How a declared definition becomes immutable revisions.                  *)
(*                                                                         *)
(* A ScheduledJob or WorkflowJob custom resource is edited by its owner;   *)
(* the API server gives every edit a new metadata.generation.  Each        *)
(* operator replica sees the resource through an informer cache, projects  *)
(* the generation it sees as a row of job_definition_revisions, makes that *)
(* row the active one and reports it on the resource's status.  Replicas   *)
(* overlap during a rolling update, so a stale replica may project an      *)
(* older generation after a newer one.                                     *)
(*                                                                         *)
(* Check and function rows go through the same store call, with the row's  *)
(* version in place of the generation: see Checks, FunctionInvocations.    *)
(***************************************************************************)
EXTENDS Naturals, FiniteSets

CONSTANTS Projectors,       \* operator replicas
          Survivor,         \* the replica the rolling update leaves running
          Specs,            \* spec bodies, told apart by their hash
          Incomplete,       \* specs without a schedule, an image or tasks
          MaxGeneration,    \* bound on edits
          MaxRevFaults      \* bound on crashes and failed calls

ASSUME RevisionConstants ==
    /\ Survivor \in Projectors
    /\ Incomplete \subseteq Specs
    /\ MaxGeneration \in Nat
    /\ MaxRevFaults \in Nat
    /\ "none" \notin Specs

Generations == 1 .. MaxGeneration

VARIABLES generation,   \* metadata.generation of the resource, 0 before it exists
          declared,     \* generation -> the spec the owner declared
          seen,         \* projector -> the generation in its informer cache
          queued,       \* projectors whose workqueue holds the resource's key
          reconcile,    \* projector -> the reconcile it is in
          reported,     \* status.observedGeneration of the resource
          specHash,     \* generation -> spec_hash of its revision row, or "none"
          isActive,     \* generations whose revision row has is_active
          retired,      \* replicas the rolling update has stopped
          revFaults

revVars == <<generation, declared, seen, queued, reconcile, reported,
             specHash, isActive, retired, revFaults>>

Idle == [step |-> "idle", gen |-> 0]

RevInit ==
    /\ generation = 0
    /\ declared = [g \in Generations |-> "none"]
    /\ seen = [p \in Projectors |-> 0]
    /\ queued = {}
    /\ reconcile = [p \in Projectors |-> Idle]
    /\ reported = 0
    /\ specHash = [g \in Generations |-> "none"]
    /\ isActive = {}
    /\ retired = {}
    /\ revFaults = 0

-----------------------------------------------------------------------------
\* The store.  One transaction, so one step.

\* A generation met before must carry the hash it was stored with.
revisionConflict(g, hash) == specHash[g] # "none" /\ specHash[g] # hash

\* Broken: only a newly inserted row takes the active pointer over.
ApplyRevisionNewOnly(g, hash) ==
    /\ ~revisionConflict(g, hash)
    /\ specHash' = [specHash EXCEPT ![g] = hash]
    /\ isActive' = IF specHash[g] = "none" THEN {g} ELSE isActive

\* Broken: the older active row is never deactivated.
ApplyRevisionKeepsOld(g, hash) ==
    /\ ~revisionConflict(g, hash)
    /\ specHash' = [specHash EXCEPT ![g] = hash]
    /\ isActive' = isActive \union {g}

\* The INSERT does nothing when the generation is stored already; either way
\* every other row is deactivated and this one activated.
ApplyRevisionForTenant(g, hash) ==
    /\ ~revisionConflict(g, hash)
    /\ specHash' = [specHash EXCEPT ![g] = hash]
    /\ isActive' = {g}

\* The revision a new run is pinned to.
ActiveRevision == isActive

-----------------------------------------------------------------------------
\* The owner and the API server.

Declare(s) ==
    /\ generation < MaxGeneration
    /\ generation' = generation + 1
    /\ declared' = [declared EXCEPT ![generation + 1] = s]
    /\ UNCHANGED <<seen, queued, reconcile, reported, specHash, isActive, retired, revFaults>>

\* A watch event or a relist brings a replica's cache up to date and enqueues
\* the key; a resync enqueues it again although nothing changed.
Deliver(p) ==
    /\ p \notin retired
    /\ generation > 0
    /\ seen' = [seen EXCEPT ![p] = generation]
    /\ queued' = queued \union {p}
    /\ UNCHANGED <<generation, declared, reconcile, reported, specHash, isActive, retired, revFaults>>

-----------------------------------------------------------------------------
\* ReconcileScheduledJob and ReconcileWorkflowJob on one replica.

\* A worker takes the key and reads the object from the informer store.
Dequeue(p) ==
    /\ p \in queued
    /\ reconcile[p] = Idle
    /\ queued' = queued \ {p}
    /\ reconcile' = [reconcile EXCEPT ![p] = [step |-> "project", gen |-> seen[p]]]
    /\ UNCHANGED <<generation, declared, seen, reported, specHash, isActive, retired, revFaults>>

\* ApplyScheduledJob and ApplyWorkflowJob refuse a spec without its required
\* fields before the store is reached; the error puts the key back.
ProjectDefinition(p) ==
    /\ reconcile[p].step = "project"
    /\ LET g == reconcile[p].gen
           s == declared[g]
       IN  IF s \in Incomplete
           THEN /\ reconcile' = [reconcile EXCEPT ![p] = Idle]
                /\ queued' = queued \union {p}
                /\ UNCHANGED <<specHash, isActive>>
           ELSE /\ ApplyRevisionForTenant(g, s)
                /\ reconcile' = [reconcile EXCEPT ![p].step = "report"]
                /\ UNCHANGED queued
    /\ UNCHANGED <<generation, declared, seen, reported, retired, revFaults>>

\* patchStatus: a merge patch without a precondition, so the last writer wins.
ReportRevision(p) ==
    /\ reconcile[p].step = "report"
    /\ reported' = reconcile[p].gen
    /\ reconcile' = [reconcile EXCEPT ![p] = Idle]
    /\ UNCHANGED <<generation, declared, seen, queued, specHash, isActive, retired, revFaults>>

\* A failed transaction or patch returns an error and the key is retried.
ReconcileFails(p) ==
    /\ reconcile[p] # Idle
    /\ revFaults < MaxRevFaults
    /\ revFaults' = revFaults + 1
    /\ reconcile' = [reconcile EXCEPT ![p] = Idle]
    /\ queued' = queued \union {p}
    /\ UNCHANGED <<generation, declared, seen, reported, specHash, isActive, retired>>

\* A crash loses the queue and the cache; the new process lists again.
ReplicaRestarts(p) ==
    /\ p \notin retired
    /\ revFaults < MaxRevFaults
    /\ revFaults' = revFaults + 1
    /\ reconcile' = [reconcile EXCEPT ![p] = Idle]
    /\ seen' = [seen EXCEPT ![p] = 0]
    /\ queued' = queued \ {p}
    /\ UNCHANGED <<generation, declared, reported, specHash, isActive, retired>>

\* The rolling update stops a replica, perhaps after it projected a stale
\* generation and before its cache caught up.
Retire(p) ==
    /\ p # Survivor
    /\ retired' = retired \union {p}
    /\ reconcile' = [reconcile EXCEPT ![p] = Idle]
    /\ seen' = [seen EXCEPT ![p] = 0]
    /\ queued' = queued \ {p}
    /\ UNCHANGED <<generation, declared, reported, specHash, isActive, revFaults>>

ProjectorStep(p) == Dequeue(p) \/ ProjectDefinition(p) \/ ReportRevision(p)

RevNext ==
    \/ \E s \in Specs : Declare(s)
    \/ \E p \in Projectors :
         Deliver(p) \/ ProjectorStep(p) \/ ReconcileFails(p) \/ ReplicaRestarts(p) \/ Retire(p)

RevSpec == RevInit /\ [][RevNext]_revVars

\* Informers relist and resync for ever and the workqueue hands out its keys.
RevFairness ==
    /\ WF_revVars(Deliver(Survivor))
    /\ WF_revVars(ProjectorStep(Survivor))

RevFairSpec == RevSpec /\ RevFairness

-----------------------------------------------------------------------------
\* However replicas overlap, a definition never has two active revisions, and
\* the active one is a row whose spec is what the owner declared under that
\* generation (ApplyRevisionForTenant; ux_job_definition_revisions_active).
ActiveIsDeclared ==
    /\ \A g, h \in isActive : g = h
    /\ \A g \in isActive : specHash[g] = declared[g] /\ specHash[g] \notin Incomplete

\* Once the owner stops editing, the newest generation becomes the active
\* revision and stays so, although a stale replica may have put an older one
\* back before it was retired; an incomplete spec leaves its predecessor alone.
NewestBecomesActive ==
    <>[](generation > 0 => declared[generation] \in Incomplete \/ ActiveRevision = {generation})
=============================================================================
