------------------------ MODULE FunctionInvocations ------------------------
(***************************************************************************)
(* One serverless function: its row, the operator's revision sync, callers *)
(* that invoke it through the admin API, and the history of invocations.   *)
(*                                                                         *)
(* An invocation reads the row, resolves the active revision and publishes *)
(* a JobRun, three calls that saves, deletes and the sync interleave with. *)
(* Its answer may be lost, and the caller may repeat it under the same     *)
(* idempotency key.  The run itself belongs to RunReconciler; here it only *)
(* takes its phases, and its last transition is followed by one attempt to *)
(* record it in function_runs.                                             *)
(***************************************************************************)
EXTENDS Integers, FiniteSets

CONSTANTS Callers,
          Leaders,          \* operator processes that may run the sync
          Requests,         \* invocation requests
          FnOutcomes,       \* terminal phases a run may end in
          TimeoutOf,        \* version -> the timeout that version declares
          MaxFnVersion,     \* bound on saves
          MaxCalls,         \* bound on calls of one caller
          MaxFnFaults       \* bound on failed calls, lost answers and crashes

MaxInvokeWaitSeconds == 60
FnTerminal == {"Succeeded", "Failed", "Canceled"}
ASSUME FunctionConstants == FnOutcomes \subseteq FnTerminal /\ MaxFnFaults \in Nat

NoCall == [step |-> "idle", key |-> <<>>, wait |-> FALSE, version |-> 0, timeout |-> 0, rev |-> 0]

VARIABLES fnRow,       \* the functions row: status and version
          fnRevisions, \* versions with a revision row
          fnActive,    \* the version whose revision is active, or 0
          fnSync,      \* leader -> the version its tick listed, or 0
          calls,       \* caller -> the invocation it is in
          called,      \* caller -> calls it has made
          fnObjects,   \* occurrence key -> its JobRun custom resource
          fnRuns,      \* occurrence key -> its phase in the ledger
          unrecorded,  \* finished runs whose outcome is about to be recorded
          fnHistory,   \* occurrence key -> status in function_runs
          fnFaults

fnVars == <<fnRow, fnRevisions, fnActive, fnSync, calls, called, fnObjects, fnRuns,
            unrecorded, fnHistory, fnFaults>>

FnInit ==
    /\ fnRow = [status |-> "none", version |-> 0]
    /\ fnRevisions = {}
    /\ fnActive = 0
    /\ fnSync = [l \in Leaders |-> 0]
    /\ calls = [c \in Callers |-> NoCall]
    /\ called = [c \in Callers |-> 0]
    /\ fnObjects = <<>>
    /\ fnRuns = <<>>
    /\ unrecorded = {}
    /\ fnHistory = <<>>
    /\ fnFaults = 0

-----------------------------------------------------------------------------
\* The row.

SaveNewFunction ==
    /\ fnRow.status = "none"
    /\ fnRow' = [status |-> "active", version |-> 1]
    /\ UNCHANGED <<fnRevisions, fnActive, fnSync, calls, called, fnObjects, fnRuns, unrecorded,
                   fnHistory, fnFaults>>

\* UpdateForTenant: guarded by the version the caller read, so of two
\* concurrent saves one is refused; every save is the next version.
UpdateFunction(status) ==
    /\ fnRow.status \in {"active", "paused"}
    /\ fnRow.version < MaxFnVersion
    /\ fnRow' = [status |-> status, version |-> fnRow.version + 1]
    /\ UNCHANGED <<fnRevisions, fnActive, fnSync, calls, called, fnObjects, fnRuns, unrecorded,
                   fnHistory, fnFaults>>

\* DeleteForTenant: soft, and not guarded by the version.
DeleteFunction ==
    /\ fnRow.status \in {"active", "paused"}
    /\ fnRow' = [status |-> "deleted", version |-> fnRow.version + 1]
    /\ UNCHANGED <<fnRevisions, fnActive, fnSync, calls, called, fnObjects, fnRuns, unrecorded,
                   fnHistory, fnFaults>>

-----------------------------------------------------------------------------
\* The revision sync.

\* ActiveForTenant lists live active rows.
SyncTenant(l) ==
    /\ fnSync[l] = 0
    /\ fnRow.status = "active"
    /\ fnSync' = [fnSync EXCEPT ![l] = fnRow.version]
    /\ UNCHANGED <<fnRow, fnRevisions, fnActive, calls, called, fnObjects, fnRuns, unrecorded,
                   fnHistory, fnFaults>>

\* Broken: a version that already has a revision is not activated again.
ApplyFunctionOnce(l) ==
    /\ fnSync[l] # 0
    /\ fnRevisions' = fnRevisions \union {fnSync[l]}
    /\ fnActive' = IF fnSync[l] \in fnRevisions THEN fnActive ELSE fnSync[l]
    /\ fnSync' = [fnSync EXCEPT ![l] = 0]
    /\ UNCHANGED <<fnRow, calls, called, fnObjects, fnRuns, unrecorded, fnHistory, fnFaults>>

\* ApplyFunction: the version's revision, new or already there, becomes the
\* active one.
ApplyFunction(l) ==
    /\ fnSync[l] # 0
    /\ fnRevisions' = fnRevisions \union {fnSync[l]}
    /\ fnActive' = fnSync[l]
    /\ fnSync' = [fnSync EXCEPT ![l] = 0]
    /\ UNCHANGED <<fnRow, calls, called, fnObjects, fnRuns, unrecorded, fnHistory, fnFaults>>

SyncFails(l) ==
    /\ fnSync[l] # 0
    /\ fnFaults < MaxFnFaults
    /\ fnFaults' = fnFaults + 1
    /\ fnSync' = [fnSync EXCEPT ![l] = 0]
    /\ UNCHANGED <<fnRow, fnRevisions, fnActive, calls, called, fnObjects, fnRuns, unrecorded,
                   fnHistory>>

-----------------------------------------------------------------------------
\* Invocations.

normalizeInvocation(in) ==
    /\ in.id >= 1
    /\ in.tenant = "ulid"
    /\ in.actor \notin {"blank", "long"}
    /\ in.wait >= 0 /\ in.wait <= MaxInvokeWaitSeconds

visibleToGroup(rowGroup, callerScope) == callerScope = "" \/ rowGroup = callerScope

\* With an idempotency key the occurrence is the key's; without one, each
\* call draws a nonce of its own.
deriveOccurrenceKey(in, c) == IF in.idempotency # "" THEN <<in.idempotency>> ELSE <<c, called[c]>>

\* The row is read; a row that is gone, out of scope or paused ends the call.
BeginInvoke(c, in) ==
    /\ calls[c].step = "idle"
    /\ called[c] < MaxCalls
    /\ normalizeInvocation(in)
    /\ called' = [called EXCEPT ![c] = @ + 1]
    /\ calls' = IF fnRow.status = "active" /\ visibleToGroup("g", in.scope)
                THEN [calls EXCEPT ![c] = [step |-> "resolve", key |-> deriveOccurrenceKey(in, c),
                                           wait |-> in.wait > 0, version |-> fnRow.version,
                                           timeout |-> TimeoutOf[fnRow.version], rev |-> 0]]
                ELSE calls
    /\ UNCHANGED <<fnRow, fnRevisions, fnActive, fnSync, fnObjects, fnRuns, unrecorded, fnHistory,
                   fnFaults>>

\* ActiveFunctionRevision; without one the call ends in a conflict.
ResolveRevision(c) ==
    /\ calls[c].step = "resolve"
    /\ calls' = [calls EXCEPT ![c] = IF fnActive = 0 THEN NoCall
                                     ELSE [@ EXCEPT !.step = "publish", !.rev = fnActive]]
    /\ UNCHANGED <<fnRow, fnRevisions, fnActive, fnSync, called, fnObjects, fnRuns, unrecorded,
                   fnHistory, fnFaults>>

\* The custom resource: the resolved revision, with the deadline of the row
\* as it was read before.
functionRun(call) == [rev |-> call.rev, deadline |-> call.timeout]

\* Publish creates the object or adopts the one that has the name.
Publish(key, run) ==
    [k \in DOMAIN fnObjects \union {key} |-> IF k \in DOMAIN fnObjects THEN fnObjects[k] ELSE run]

PublishInvocation(c) ==
    LET call == calls[c]
    IN  /\ call.step = "publish"
        /\ fnObjects' = Publish(call.key, functionRun(call))
        /\ calls' = [calls EXCEPT ![c] = IF call.wait THEN [@ EXCEPT !.step = "await"] ELSE NoCall]
        /\ UNCHANGED <<fnRow, fnRevisions, fnActive, fnSync, called, fnRuns, unrecorded, fnHistory, fnFaults>>

\* awaitTerminalPhase polls the object, whose status trails the ledger: it
\* ends once a terminal phase has been projected.
awaitTerminalPhase(c) ==
    /\ calls[c].step = "await"
    /\ calls[c].key \in DOMAIN fnRuns
    /\ fnRuns[calls[c].key] \in FnTerminal
    /\ calls' = [calls EXCEPT ![c] = NoCall]
    /\ UNCHANGED <<fnRow, fnRevisions, fnActive, fnSync, called, fnObjects, fnRuns, unrecorded,
                   fnHistory, fnFaults>>

\* The wait expires, with whatever phase was seen last.
AwaitExpires(c) ==
    /\ calls[c].step = "await"
    /\ calls' = [calls EXCEPT ![c] = NoCall]
    /\ UNCHANGED <<fnRow, fnRevisions, fnActive, fnSync, called, fnObjects, fnRuns, unrecorded,
                   fnHistory, fnFaults>>

\* A call fails before it publishes, or publishes without its answer arriving.
InvocationFails(c) ==
    /\ calls[c].step \in {"resolve", "publish"}
    /\ fnFaults < MaxFnFaults
    /\ fnFaults' = fnFaults + 1
    /\ calls' = [calls EXCEPT ![c] = NoCall]
    /\ \/ UNCHANGED fnObjects
       \/ calls[c].step = "publish" /\ fnObjects' = Publish(calls[c].key, functionRun(calls[c]))
    /\ UNCHANGED <<fnRow, fnRevisions, fnActive, fnSync, called, fnRuns, unrecorded, fnHistory>>

-----------------------------------------------------------------------------
\* The run pipeline, external to this module, and the outcome it records.

changed(f, k, v) == [x \in DOMAIN f \union {k} |-> IF x = k THEN v ELSE f[x]]

FnMaterialize(k) ==
    /\ k \notin DOMAIN fnRuns
    /\ fnObjects[k].rev \in fnRevisions
    /\ fnRuns' = changed(fnRuns, k, "Pending")
    /\ UNCHANGED <<fnRow, fnRevisions, fnActive, fnSync, calls, called, fnObjects, unrecorded,
                   fnHistory, fnFaults>>

FnRunFinishes(k, phase) ==
    /\ k \in DOMAIN fnRuns
    /\ fnRuns[k] = "Pending"
    /\ fnRuns' = changed(fnRuns, k, phase)
    /\ unrecorded' = unrecorded \union {k}
    /\ UNCHANGED <<fnRow, fnRevisions, fnActive, fnSync, calls, called, fnObjects, fnHistory, fnFaults>>

\* Broken: a canceled run is recorded as a failure.
ReadModelStatusMerged(phase) == IF phase = "Succeeded" THEN "success" ELSE "failed"

ReadModelStatus(phase) ==
    CASE phase = "Succeeded" -> "success"
      [] phase = "Failed"    -> "failed"
      [] phase = "Canceled"  -> "canceled"

\* One row per run id; a second recording finds it and changes nothing.
RecordCompleted(k, status) == IF k \in DOMAIN fnHistory THEN fnHistory ELSE changed(fnHistory, k, status)

\* recordFunctionOutcome runs once, after the transition; a failed read or
\* write is logged, and a crash before it leaves nothing to retry.
recordFunctionOutcome(k) ==
    /\ k \in unrecorded
    /\ unrecorded' = unrecorded \ {k}
    /\ \/ /\ fnHistory' = RecordCompleted(k, ReadModelStatus(fnRuns[k]))
          /\ UNCHANGED fnFaults
       \/ /\ fnFaults < MaxFnFaults
          /\ fnFaults' = fnFaults + 1
          /\ UNCHANGED fnHistory
    /\ UNCHANGED <<fnRow, fnRevisions, fnActive, fnSync, calls, called, fnObjects, fnRuns>>

SyncStep(l) == SyncTenant(l) \/ ApplyFunction(l)

FnNext ==
    \/ SaveNewFunction \/ DeleteFunction
    \/ \E status \in {"active", "paused"} : UpdateFunction(status)
    \/ \E l \in Leaders : SyncStep(l) \/ SyncFails(l)
    \/ \E c \in Callers :
         \/ \E in \in Requests : BeginInvoke(c, in)
         \/ ResolveRevision(c) \/ PublishInvocation(c) \/ InvocationFails(c)
         \/ awaitTerminalPhase(c) \/ AwaitExpires(c)
    \/ \E k \in DOMAIN fnObjects :
         \/ FnMaterialize(k)
         \/ \E phase \in FnOutcomes : FnRunFinishes(k, phase)
         \/ recordFunctionOutcome(k)

FnSpec == FnInit /\ [][FnNext]_fnVars

\* The sync ticks for ever on the leader.
FnFairness == \A l \in Leaders : WF_fnVars(SyncStep(l))

FnFairSpec == FnSpec /\ FnFairness

-----------------------------------------------------------------------------
\* function_runs never contradicts the ledger, and without faults it holds
\* every finished invocation.
HistoryAgreesWithLedger ==
    \A k \in DOMAIN fnRuns :
        /\ k \in DOMAIN fnHistory =>
             fnHistory[k] = (CASE fnRuns[k] = "Succeeded" -> "success"
                               [] fnRuns[k] = "Failed"    -> "failed"
                               [] fnRuns[k] = "Canceled"  -> "canceled"
                               [] OTHER                   -> "nothing")
        /\ fnFaults = 0 /\ fnRuns[k] \in FnTerminal /\ k \notin unrecorded => k \in DOMAIN fnHistory

\* The revision an invocation pins settles on the saved version, although an
\* old leader may apply an older one after a newer.
SyncCatchesUp == <>[](fnRow.status = "active" => fnActive = fnRow.version)

=============================================================================
