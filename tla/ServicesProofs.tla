--------------------------- MODULE ServicesProofs ---------------------------
(***************************************************************************)
(* What the services around the run pipeline guarantee for any number of   *)
(* replicas, versions and callers: a definition's active revision, the     *)
(* history of a function, and the lease the leader's loops run under.      *)
(***************************************************************************)
EXTENDS LeaderElection, DefinitionRevisions, FunctionInvocations, TLAPS

(* Revisions. *)

\* A replica reconciles a generation that exists: its cache holds one whenever
\* its queue holds the key.
RevInv ==
    /\ generation \in 0 .. MaxGeneration
    /\ declared \in [Generations -> Specs \union {"none"}]
    /\ specHash \in [Generations -> Specs \union {"none"}]
    /\ seen \in [Projectors -> 0 .. generation]
    /\ reconcile \in [Projectors -> [step : {"idle", "project", "report"}, gen : 0 .. MaxGeneration]]
    /\ \A p \in Projectors : p \in queued \/ reconcile[p] # Idle => seen[p] >= 1
    /\ \A p \in Projectors : reconcile[p].step = "project" => reconcile[p].gen \in 1 .. generation
    /\ isActive \subseteq 1 .. generation
    /\ ActiveIsDeclared

\* A step that does not reach the store and declares nothing: the replicas'
\* queues and caches are all there is to look at.
LEMMA RevQuietStep ==
    ASSUME RevInv, UNCHANGED <<generation, declared, specHash, isActive>>,
           seen' \in [Projectors -> 0 .. generation],
           reconcile' \in [Projectors -> [step : {"idle", "project", "report"}, gen : 0 .. MaxGeneration]],
           \A p \in Projectors : p \in queued' \/ reconcile'[p] # Idle => seen'[p] >= 1,
           \A p \in Projectors : reconcile'[p].step = "project" => reconcile'[p].gen \in 1 .. generation
    PROVE  RevInv'
BY Zenon DEF RevInv, ActiveIsDeclared

\* The owner's edit writes a generation that nobody has projected yet.
LEMMA DeclareKeeps ==
    ASSUME RevInv, NEW s \in Specs, Declare(s)
    PROVE  RevInv'
<1>1. generation + 1 \in Generations /\ generation' \in 0 .. MaxGeneration
  BY RevisionConstants DEF RevInv, Declare, Generations
<1>2. declared' \in [Generations -> Specs \union {"none"}]
  BY <1>1, Zenon DEF RevInv, Declare
<1>3. \A g \in 1 .. generation : g \in Generations /\ declared'[g] = declared[g]
  BY <1>1, RevisionConstants DEF RevInv, Declare, Generations
<1>4. seen' \in [Projectors -> 0 .. generation']
  BY <1>1 DEF RevInv, Declare
<1>5. ActiveIsDeclared' /\ isActive' \subseteq 1 .. generation'
  BY <1>1, <1>3 DEF RevInv, Declare, ActiveIsDeclared
<1> QED
  BY <1>1, <1>2, <1>4, <1>5 DEF RevInv, Declare

\* ApplyRevisionForTenant stores what was declared and takes the pointer over.
LEMMA ProjectKeeps ==
    ASSUME RevInv, NEW p \in Projectors, ProjectDefinition(p)
    PROVE  RevInv'
<1>1. reconcile[p] # Idle /\ reconcile[p].gen \in 1 .. generation /\ seen[p] >= 1
  BY DEF RevInv, ProjectDefinition, Idle
<1>2. reconcile[p].gen \in Generations
  BY <1>1, RevisionConstants DEF RevInv, Generations
<1> DEFINE g == reconcile[p].gen
<1>3. CASE declared[g] \in Incomplete
  <2>1. /\ reconcile' = [reconcile EXCEPT ![p] = Idle] /\ queued' = queued \union {p}
        /\ UNCHANGED <<generation, declared, seen, specHash, isActive>>
    BY <1>3, Zenon DEF ProjectDefinition
  <2>2. reconcile' \in [Projectors -> [step : {"idle", "project", "report"}, gen : 0 .. MaxGeneration]]
    BY <2>1, RevisionConstants DEF RevInv, Idle
  <2>3. \A q \in Projectors : reconcile'[q] = IF q = p THEN Idle ELSE reconcile[q]
    BY <2>1, Zenon DEF RevInv
  <2>4. Idle.step = "idle"
    BY Zenon DEF Idle
  <2> QED
    BY <1>1, <2>1, <2>2, <2>3, <2>4, RevQuietStep, Zenon DEF RevInv
<1>4. CASE declared[g] \notin Incomplete
  <2>1. /\ specHash' = [specHash EXCEPT ![g] = declared[g]] /\ isActive' = {g}
        /\ reconcile' = [reconcile EXCEPT ![p].step = "report"]
        /\ UNCHANGED <<generation, declared, seen, queued>>
    BY <1>4, Zenon DEF ProjectDefinition, ApplyRevisionForTenant
  <2>2. specHash' \in [Generations -> Specs \union {"none"}] /\ specHash'[g] = declared[g]
    BY <1>2, <2>1, Zenon DEF RevInv
  <2>3. ActiveIsDeclared' /\ isActive' \subseteq 1 .. generation'
    BY <1>1, <1>4, <2>1, <2>2, Zenon DEF ActiveIsDeclared
  <2>4. reconcile' \in [Projectors -> [step : {"idle", "project", "report"}, gen : 0 .. MaxGeneration]]
    BY <2>1 DEF RevInv
  <2>5. \A q \in Projectors : /\ q # p => reconcile'[q] = reconcile[q]
                              /\ q = p => reconcile'[q].step = "report"
    BY <2>1, Zenon DEF RevInv
  <2> QED
    BY <1>1, <2>1, <2>2, <2>3, <2>4, <2>5, Zenon DEF RevInv
<1> QED
  BY <1>3, <1>4, Zenon

\* The steps of a replica that do not reach the store.
LEMMA ReplicaKeeps ==
    ASSUME RevInv, NEW p \in Projectors,
           \/ Deliver(p) \/ Dequeue(p) \/ ReportRevision(p)
           \/ ReconcileFails(p) \/ ReplicaRestarts(p) \/ Retire(p)
    PROVE  RevInv'
<1>0. /\ Idle \in [step : {"idle", "project", "report"}, gen : 0 .. MaxGeneration] /\ Idle.step = "idle"
      /\ MaxGeneration \in Nat /\ generation \in 0 .. MaxGeneration /\ generation \in Nat
  <2>1. generation \in 0 .. MaxGeneration
    BY Zenon DEF RevInv
  <2> QED
    BY <2>1, RevisionConstants DEF Idle
<1>1. CASE Deliver(p)
  <2>0. seen \in [Projectors -> 0 .. generation] /\ generation > 0 /\ seen' = [seen EXCEPT ![p] = generation]
    BY <1>1, Zenon DEF RevInv, Deliver
  <2>1. seen' \in [Projectors -> 0 .. generation] /\ \A q \in Projectors : seen'[q] >= seen[q]
    BY <1>0, <2>0
  <2>2. seen'[p] >= 1
    BY <1>0, <2>0
  <2> QED
    BY <1>1, <2>1, <2>2, RevQuietStep, Zenon DEF RevInv, Deliver
<1>2. CASE Dequeue(p)
  <2> DEFINE next == [step |-> "project", gen |-> seen[p]]
  <2>1. seen[p] \in 1 .. generation /\ next \in [step : {"idle", "project", "report"}, gen : 0 .. MaxGeneration]
    <3>1. seen[p] \in 0 .. generation /\ seen[p] >= 1
      BY <1>2, Zenon DEF RevInv, Dequeue
    <3> QED
      BY <1>0, <3>1
  <2>2. reconcile' = [reconcile EXCEPT ![p] = next]
    BY <1>2, Zenon DEF Dequeue
  <2>3. \A q \in Projectors : reconcile'[q] = IF q = p THEN next ELSE reconcile[q]
    BY <2>2, Zenon DEF RevInv
  <2> QED
    <3>1. next.step = "project" /\ next.gen = seen[p] /\ seen[p] >= 1 /\ "project" # "report"
      BY <1>0, <2>1
    <3> QED
      <4>1. /\ UNCHANGED <<generation, declared, specHash, isActive, seen>> /\ queued' \subseteq queued
        BY <1>2, Zenon DEF Dequeue
      <4>2. /\ seen \in [Projectors -> 0 .. generation]
            /\ reconcile' \in [Projectors -> [step : {"idle", "project", "report"}, gen : 0 .. MaxGeneration]]
        BY <2>1, <2>2, Zenon DEF RevInv
      <4>3. \A q \in Projectors : q \in queued' \/ reconcile'[q] # Idle => seen[q] >= 1
        BY <2>3, <3>1, <4>1, Zenon DEF RevInv
      <4>4. \A q \in Projectors : reconcile'[q].step = "project" => reconcile'[q].gen \in 1 .. generation
        BY <2>1, <2>3, <3>1, Zenon DEF RevInv
      <4> QED
        BY <4>1, <4>2, <4>3, <4>4, RevQuietStep, Zenon
<1>3. CASE ReportRevision(p) \/ ReconcileFails(p) \/ ReplicaRestarts(p) \/ Retire(p)
  <2>1. reconcile' = [reconcile EXCEPT ![p] = Idle]
    BY <1>3, Zenon DEF ReportRevision, ReconcileFails, ReplicaRestarts, Retire
  <2>2. \A q \in Projectors : reconcile'[q] = IF q = p THEN Idle ELSE reconcile[q]
    BY <2>1, Zenon DEF RevInv
  <2>3. CASE ReportRevision(p) \/ ReconcileFails(p)
    <3>1. reconcile[p] # Idle
      BY <1>0, <2>3, Zenon DEF ReportRevision, ReconcileFails
    <3> QED
      BY <1>0, <2>1, <2>2, <2>3, <3>1, RevQuietStep, Zenon DEF RevInv, ReportRevision, ReconcileFails
  <2>4. CASE ReplicaRestarts(p) \/ Retire(p)
    <3>1. seen' = [seen EXCEPT ![p] = 0] /\ queued' = queued \ {p}
      BY <2>4, Zenon DEF ReplicaRestarts, Retire
    <3>2. seen' \in [Projectors -> 0 .. generation] /\ \A q \in Projectors : q # p => seen'[q] = seen[q]
      <4>1. seen \in [Projectors -> 0 .. generation]
        BY Zenon DEF RevInv
      <4> QED
        BY <1>0, <3>1, <4>1
    <3>3. UNCHANGED <<generation, declared, specHash, isActive>>
      BY <2>4, Zenon DEF ReplicaRestarts, Retire
    <3> QED
      BY <1>0, <2>1, <2>2, <3>1, <3>2, <3>3, RevQuietStep, Zenon DEF RevInv
  <2> QED
    BY <1>3, <2>3, <2>4, Zenon
<1> QED
  BY <1>1, <1>2, <1>3, Zenon

(* However replicas overlap and whichever of them is stale, a definition has at
   most one active revision, and it is what the owner declared under that
   generation (ApplyRevisionForTenant). *)
THEOREM ActiveAlwaysDeclared == RevSpec => []ActiveIsDeclared
<1>1. RevInit => RevInv
  BY RevisionConstants DEF RevInit, RevInv, ActiveIsDeclared, Idle
<1>2. RevInv /\ [RevNext]_revVars => RevInv'
  <2> SUFFICES ASSUME RevInv, [RevNext]_revVars PROVE RevInv'
    BY Zenon
  <2>1. CASE UNCHANGED revVars
    BY <2>1, Zenon DEF revVars, RevInv, ActiveIsDeclared
  <2>2. CASE RevNext
    BY <2>2, DeclareKeeps, ProjectKeeps, ReplicaKeeps, Zenon DEF RevNext, ProjectorStep
  <2> QED
    BY <2>1, <2>2, Zenon
<1>3. RevInv => ActiveIsDeclared
  BY Zenon DEF RevInv
<1> QED
  BY <1>1, <1>2, <1>3, PTL DEF RevSpec

-----------------------------------------------------------------------------
(* Functions. *)

\* Only a run that finished is waiting to be recorded, or recorded, and not
\* both; a finished run that is neither was lost to a fault.
FnInv ==
    /\ fnFaults \in Nat
    /\ \A k \in DOMAIN fnRuns : fnRuns[k] = "Pending" \/ fnRuns[k] \in FnTerminal
    /\ \A k \in unrecorded : k \in DOMAIN fnRuns /\ fnRuns[k] \in FnTerminal /\ k \notin DOMAIN fnHistory
    /\ \A k \in DOMAIN fnHistory :
         /\ k \in DOMAIN fnRuns /\ fnRuns[k] \in FnTerminal
         /\ fnHistory[k] = ReadModelStatus(fnRuns[k])
    /\ fnFaults = 0 =>
         \A k \in DOMAIN fnRuns : fnRuns[k] \in FnTerminal => k \in unrecorded \/ k \in DOMAIN fnHistory

\* Rows, revisions and calls: the ledger and the history are left alone.
LEMMA FnQuietStep ==
    ASSUME FnInv, UNCHANGED <<fnRuns, unrecorded, fnHistory>>,
           fnFaults' = fnFaults \/ fnFaults' = fnFaults + 1
    PROVE  FnInv'
BY DEF FnInv

\* A run appears in the ledger.
LEMMA MaterializeKeeps ==
    ASSUME FnInv, NEW k, FnMaterialize(k)
    PROVE  FnInv'
<1>1. /\ k \notin DOMAIN fnRuns /\ DOMAIN fnRuns' = DOMAIN fnRuns \union {k}
      /\ fnRuns'[k] = "Pending" /\ \A x \in DOMAIN fnRuns : fnRuns'[x] = fnRuns[x]
  BY Zenon DEF FnMaterialize, changed
<1>2. "Pending" \notin FnTerminal
  BY Zenon DEF FnTerminal
<1> QED
  BY <1>1, <1>2, Zenon DEF FnInv, FnMaterialize

\* A run finishes once and waits to be recorded.
LEMMA FinishKeeps ==
    ASSUME FnInv, NEW k, NEW phase \in FnOutcomes, FnRunFinishes(k, phase)
    PROVE  FnInv'
<1>1. /\ k \in DOMAIN fnRuns /\ fnRuns[k] = "Pending" /\ phase \in FnTerminal
      /\ unrecorded' = unrecorded \union {k} /\ UNCHANGED <<fnHistory, fnFaults>>
  BY FunctionConstants, Zenon DEF FnRunFinishes
<1>2. /\ DOMAIN fnRuns' = DOMAIN fnRuns
      /\ \A x \in DOMAIN fnRuns : fnRuns'[x] = IF x = k THEN phase ELSE fnRuns[x]
  BY <1>1, Zenon DEF FnRunFinishes, changed
<1>3. "Pending" \notin FnTerminal
  BY Zenon DEF FnTerminal
<1>4. k \notin DOMAIN fnHistory
  BY <1>1, <1>3, Zenon DEF FnInv
<1> QED
  BY <1>1, <1>2, <1>3, <1>4, Zenon DEF FnInv

\* The recording writes the ledger's outcome, or is lost to a fault.
LEMMA RecordKeeps ==
    ASSUME FnInv, NEW k, recordFunctionOutcome(k)
    PROVE  FnInv'
<1>1. /\ k \in unrecorded /\ k \in DOMAIN fnRuns /\ fnRuns[k] \in FnTerminal /\ k \notin DOMAIN fnHistory
      /\ unrecorded' = unrecorded \ {k} /\ fnRuns' = fnRuns
  BY Zenon DEF recordFunctionOutcome, FnInv
<1>2. CASE fnHistory' = changed(fnHistory, k, ReadModelStatus(fnRuns[k])) /\ fnFaults' = fnFaults
  <2>1. /\ DOMAIN fnHistory' = DOMAIN fnHistory \union {k}
        /\ fnHistory'[k] = ReadModelStatus(fnRuns[k])
        /\ \A x \in DOMAIN fnHistory : fnHistory'[x] = fnHistory[x]
    BY <1>1, <1>2, Zenon DEF changed
  <2> QED
    BY <1>1, <1>2, <2>1, Zenon DEF FnInv
<1>3. CASE fnHistory' = fnHistory /\ fnFaults' = fnFaults + 1
  BY <1>1, <1>3 DEF FnInv
<1> QED
  BY <1>1, <1>2, <1>3, Zenon DEF recordFunctionOutcome, RecordCompleted

(* function_runs never contradicts the ledger, whatever invocations, saves,
   syncs and recordings interleave, and without faults it holds every finished
   invocation (recordFunctionOutcome, RecordCompleted). *)
THEOREM HistoryAlwaysAgrees == FnSpec => []HistoryAgreesWithLedger
<1>1. FnInit => FnInv
  BY DEF FnInit, FnInv
<1>2. FnInv /\ [FnNext]_fnVars => FnInv'
  <2> SUFFICES ASSUME FnInv, [FnNext]_fnVars PROVE FnInv'
    OBVIOUS
  <2>1. ASSUME NEW k, FnMaterialize(k) \/ (\E phase \in FnOutcomes : FnRunFinishes(k, phase))
                        \/ recordFunctionOutcome(k)
        PROVE  FnInv'
    BY <2>1, MaterializeKeeps, FinishKeeps, RecordKeeps, Zenon
  <2>2. CASE UNCHANGED fnVars
    BY <2>2, FnQuietStep, Zenon DEF fnVars
  <2>3. CASE SaveNewFunction \/ DeleteFunction \/ \E status \in {"active", "paused"} : UpdateFunction(status)
    BY <2>3, FnQuietStep, Zenon DEF SaveNewFunction, DeleteFunction, UpdateFunction
  <2>4. ASSUME NEW l \in Leaders, SyncStep(l) \/ SyncFails(l) PROVE FnInv'
    BY <2>4, FnQuietStep, Zenon DEF SyncStep, SyncTenant, ApplyFunction, SyncFails
  <2>5. ASSUME NEW c \in Callers,
               \/ \E in \in Requests : BeginInvoke(c, in)
               \/ ResolveRevision(c) \/ PublishInvocation(c) \/ InvocationFails(c)
               \/ awaitTerminalPhase(c) \/ AwaitExpires(c)
        PROVE  FnInv'
    BY <2>5, FnQuietStep, Zenon DEF BeginInvoke, ResolveRevision, PublishInvocation, InvocationFails,
       awaitTerminalPhase, AwaitExpires
  <2> QED
    BY <2>1, <2>2, <2>3, <2>4, <2>5, Zenon DEF FnNext
<1>3. FnInv => HistoryAgreesWithLedger
  BY Zenon DEF FnInv, HistoryAgreesWithLedger, ReadModelStatus, FnTerminal
<1> QED
  BY <1>1, <1>2, <1>3, PTL DEF FnSpec

-----------------------------------------------------------------------------
(***************************************************************************)
(* Mutual exclusion of the operator's leaders, for any number of replicas  *)
(* and any Lease configuration that leaves the API server and the clocks   *)
(* enough room (Timely).                                                   *)
(*                                                                         *)
(* Neither OneLeader nor LeaderHoldsLease is inductive: the argument is    *)
(* about time.  A leader's deadline lies at most MaxLatency +              *)
(* RenewDeadline after the renew time in the Lease (Anchored), and it has  *)
(* left at most RetryPeriod + MaxLatency after that deadline (Bounded);    *)
(* a replica about to write has either seen the Lease expire or holds it   *)
(* itself, unless the Lease has changed since (Seen).                      *)
(***************************************************************************)

\* What a call in flight knows of its own times.
Punctual ==
  \A r \in Replicas :
    /\ began[r] <= now
    /\ call[r] # "none" => now <= began[r] + MaxLatency

\* A leader is never long past its deadline.
Bounded ==
  \A r \in Replicas : mode[r] = "leader" =>
    /\ deadline[r] <= now + RenewDeadline
    /\ call[r] = "none" => /\ now <= tick[r] \/ now <= deadline[r]
                           /\ tick[r] <= deadline[r] + RetryPeriod
    /\ call[r] # "none" => /\ began[r] <= deadline[r] + RetryPeriod
                           /\ deadline[r] <= began[r] + RenewDeadline
                           /\ tick[r] <= began[r] + RetryPeriod

\* A replica about to write an unchanged Lease may take it.
Seen ==
  \A r \in Replicas : call[r] = "writing" =>
    holder = NoHolder \/ holder = r \/ now + offset[r] > renewed + LeaseDuration

\* An answer on its way is still true.
Answered ==
  \A r \in Replicas : call[r] = "acquired" =>
    holder = r /\ renewed = began[r] + offset[r]

\* A leader's deadline is tied to the renew time of the Lease it holds.
Anchored ==
  \A r \in Replicas : mode[r] = "leader" =>
    holder = r /\ deadline[r] + offset[r] <= renewed + MaxLatency + RenewDeadline

Resting == \A r \in Replicas : mode[r] = "stopped" => call[r] = "none"

IInv == TypeOK /\ Punctual /\ Bounded /\ Seen /\ Answered /\ Anchored /\ Resting

USE ElectionConstants

\* The next tick of a ticker lies within a period of now.
LEMMA TickAhead ==
  ASSUME TypeOK, NEW r \in Replicas, now >= tick[r]
  PROVE  NextTick(r) \in Nat /\ NextTick(r) <= now + RetryPeriod
<1> DEFINE d == now - tick[r]
           n == d \div RetryPeriod
<1>1. tick[r] \in Nat /\ now \in Nat /\ d \in Nat BY DEF TypeOK
<1>2. n \in Nat /\ RetryPeriod * n <= d BY <1>1
<1>3. NextTick(r) = tick[r] + RetryPeriod * (n + 1) BY DEF NextTick
<1>4. RetryPeriod * (n + 1) = RetryPeriod * n + RetryPeriod BY <1>2
<1>5. RetryPeriod * n \in Nat BY <1>2
<1> HIDE DEF n
<1> QED BY <1>1, <1>2, <1>3, <1>4, <1>5

(* The arithmetic of a take-over: a Lease held by a leader, or just written,
   has not expired by anybody's clock. *)
LEMMA NotExpired ==
  ASSUME Timely, TypeOK, Punctual, Bounded, Answered, Anchored,
         NEW r \in Replicas, NEW q \in Replicas,
         mode[q] = "leader" \/ call[q] = "acquired",
         now + offset[r] > renewed + LeaseDuration
  PROVE  FALSE
<1>1. /\ offset[r] \in 0..MaxSkew /\ offset[q] \in 0..MaxSkew
      /\ began[q] \in Nat /\ deadline[q] \in Nat /\ tick[q] \in Nat
      /\ now \in Nat /\ renewed \in Nat
  BY DEF TypeOK
<1>2. CASE call[q] = "acquired"
  <2>1. renewed = began[q] + offset[q] /\ now <= began[q] + MaxLatency
    BY <1>2 DEF Answered, Punctual
  <2> QED BY <1>1, <2>1 DEF Timely
<1>3. CASE mode[q] = "leader"
  <2>1. deadline[q] + offset[q] <= renewed + MaxLatency + RenewDeadline
    BY <1>3, Zenon DEF Anchored
  <2>2. now <= deadline[q] + RetryPeriod + MaxLatency
    <3>1. CASE call[q] = "none" BY <1>1, <1>3, <3>1 DEF Bounded
    <3>2. CASE call[q] # "none" BY <1>1, <1>3, <3>2 DEF Bounded, Punctual
    <3> QED BY <3>1, <3>2, Zenon
  <2> QED BY <1>1, <2>1, <2>2 DEF Timely
<1> QED BY <1>2, <1>3, Zenon

\* Before any replica has campaigned.
LEMMA InvInit == Init => IInv
  BY DEF Init, IInv, TypeOK, Punctual, Bounded, Seen, Answered, Anchored, Resting, Modes, Calls

\* Every step of the elector keeps clocks, Lease and calls in their types.
LEMMA TypeStep == TypeOK /\ [Next]_vars => TypeOK'
<1> SUFFICES ASSUME TypeOK, [Next]_vars PROVE TypeOK'
  BY Zenon
<1>1. CASE UNCHANGED vars BY <1>1, Zenon DEF TypeOK, vars
<1>2. CASE Pass BY <1>2 DEF TypeOK, Pass, lease
<1>3. ASSUME NEW r \in Replicas, ReplicaNext(r) PROVE TypeOK'
  <2>1. CASE Begin(r)
    <3>1. now - tick[r] \in Nat /\ tick[r] \in Nat BY <2>1 DEF Begin, TypeOK
    <3>2. (now - tick[r]) \div RetryPeriod \in Nat BY <3>1
    <3>3. NextTick(r) \in Nat BY <3>1, <3>2 DEF NextTick
    <3> QED BY <2>1, <3>3, Zenon DEF Begin, TypeOK, lease, Calls
  <2>2. CASE Get(r) BY <2>2, Zenon DEF Get, TypeOK, lease, Calls, leaseIsFree
  <2>3. CASE Write(r) BY <2>3 DEF Write, Taken, TypeOK, Calls
  <2>4. CASE CallFails(r) BY <2>4, Zenon DEF CallFails, TypeOK, lease, Calls
  <2>5. CASE ReturnAcquire(r) BY <2>5 DEF ReturnAcquire, CallEnds, TypeOK, lease, Calls, Modes
  <2>6. CASE ReturnRenew(r) BY <2>6 DEF ReturnRenew, CallEnds, TypeOK, lease, Calls, Modes
  <2>7. CASE Shutdown(r) BY <2>7, Zenon DEF Shutdown, CallEnds, TypeOK, lease, Calls, Modes
  <2>8. CASE Restart(r) BY <2>8, Zenon DEF Restart, TypeOK, lease, Modes
  <2>9. CASE Overtaken(r) BY <2>9, Zenon DEF Overtaken, TypeOK, lease, Calls
  <2> QED BY <1>3, <2>1, <2>2, <2>3, <2>4, <2>5, <2>6, <2>7, <2>8, <2>9, Zenon DEF ReplicaNext
<1> QED BY <1>1, <1>2, <1>3, Zenon DEF Next

(* A step of one replica leaves the facts about the others' own times alone. *)
LEMMA PassStep == ASSUME Timely, IInv, Pass PROVE IInv'
<1>t. TypeOK' BY TypeStep, Zenon DEF IInv, Next
<1>u. /\ now' = now + 1 /\ now \in Nat
      /\ UNCHANGED <<holder, renewed, offset, mode, call, began, deadline, tick>>
  BY Zenon DEF Pass, lease, IInv, TypeOK
<1>v. \A r \in Replicas : /\ began[r] \in Nat /\ deadline[r] \in Nat /\ tick[r] \in Nat
                          /\ offset[r] \in Nat
  BY DEF IInv, TypeOK
<1>1. Punctual' BY <1>u, <1>v DEF IInv, Punctual, Pass
<1>2. Bounded' BY <1>u, <1>v DEF IInv, Bounded, Pass
<1>3. Seen' BY <1>u, <1>v DEF IInv, Seen, TypeOK
<1>4. Answered' BY <1>u, Zenon DEF IInv, Answered
<1>5. Anchored' BY <1>u, Zenon DEF IInv, Anchored
<1>6. Resting' BY <1>u, Zenon DEF IInv, Resting
<1> QED BY <1>t, <1>1, <1>2, <1>3, <1>4, <1>5, <1>6, Zenon DEF IInv

\* A round of acquiring or renewing begins.
LEMMA BeginStep == ASSUME Timely, IInv, NEW r \in Replicas, Begin(r) PROVE IInv'
<1>t. TypeOK' BY TypeStep, Zenon DEF IInv, Next, ReplicaNext
<1>u. /\ UNCHANGED <<now, holder, renewed, offset, mode, deadline>> /\ now \in Nat
      /\ call' = [call EXCEPT ![r] = "begun"] /\ began' = [began EXCEPT ![r] = now]
      /\ call \in [Replicas -> Calls] /\ began \in [Replicas -> Nat]
  BY Zenon DEF Begin, lease, IInv, TypeOK
<1>v. \A q \in Replicas : began[q] \in Nat /\ deadline[q] \in Nat /\ tick[q] \in Nat
  BY Zenon DEF IInv, TypeOK
<1>w. mode[r] = "leader" => tick'[r] \in Nat /\ tick'[r] <= now + RetryPeriod
  <2>1. now >= tick[r] BY Zenon DEF Begin
  <2>2. NextTick(r) \in Nat /\ NextTick(r) <= now + RetryPeriod BY <2>1, TickAhead, Zenon DEF IInv
  <2>3. mode[r] = "leader" => tick'[r] = NextTick(r) BY Zenon DEF Begin, IInv, TypeOK
  <2> QED BY <2>2, <2>3, Zenon
<1>x. \A q \in Replicas : q # r => tick'[q] = tick[q]
  BY Zenon DEF Begin, IInv, TypeOK
<1>1. Punctual' BY <1>u, <1>v DEF IInv, Punctual
<1>2. Bounded'
  <2> SUFFICES ASSUME NEW q \in Replicas, mode[q] = "leader"
               PROVE  /\ deadline[q] <= now + RenewDeadline
                      /\ call'[q] = "none" => /\ now <= tick'[q] \/ now <= deadline[q]
                                             /\ tick'[q] <= deadline[q] + RetryPeriod
                      /\ call'[q] # "none" => /\ began'[q] <= deadline[q] + RetryPeriod
                                             /\ deadline[q] <= began'[q] + RenewDeadline
                                             /\ tick'[q] <= began'[q] + RetryPeriod
    BY <1>u, Zenon DEF Bounded
  <2>1. CASE q = r
    <3>1. call'[r] = "begun" /\ began'[r] = now BY <1>u, Zenon
    <3>2. call[r] = "none" BY Zenon DEF Begin
    <3> QED BY <1>u, <1>v, <1>w, <2>1, <3>1, <3>2 DEF IInv, Bounded
  <2>2. CASE q # r BY <1>u, <1>v, <1>x, <2>2, Zenon DEF IInv, Bounded
  <2> QED BY <2>1, <2>2, Zenon
<1>3. Seen' BY <1>u, Zenon DEF IInv, Seen
<1>4. Answered' BY <1>u, Zenon DEF IInv, Answered
<1>5. Anchored' BY <1>u, Zenon DEF IInv, Anchored
<1>6. Resting' BY <1>u, Zenon DEF IInv, Resting, Begin
<1> QED BY <1>t, <1>1, <1>2, <1>3, <1>4, <1>5, <1>6, Zenon DEF IInv

\* The conditional update of the Lease is where a leader is made or renewed.
LEMMA TakenStep == ASSUME Timely, IInv, NEW r \in Replicas, Write(r) PROVE IInv'
<1>t. TypeOK' BY TypeStep, Zenon DEF IInv, Next, ReplicaNext
<1>u. /\ UNCHANGED <<now, offset, mode, began, deadline, tick>> /\ now \in Nat
      /\ holder' = r /\ renewed' = began[r] + offset[r] /\ call[r] = "writing"
  BY Zenon DEF Write, Taken, IInv, TypeOK
<1>c. /\ call'[r] \in {"acquired", "error"}
      /\ \A q \in Replicas : q # r =>
           call'[q] = IF call[q] = "writing" THEN "overtaken" ELSE call[q]
  BY Zenon DEF Write, Taken
<1>v. \A q \in Replicas : /\ began[q] \in Nat /\ deadline[q] \in Nat
                          /\ offset[q] \in Nat /\ call[q] \in Calls
  BY DEF IInv, TypeOK
<1>w. \A q \in Replicas : q # r => mode[q] # "leader" /\ call[q] # "acquired"
  <2> SUFFICES ASSUME NEW q \in Replicas, q # r, mode[q] = "leader" \/ call[q] = "acquired"
               PROVE  FALSE
    BY Zenon
  <2>1. holder = q BY Zenon DEF IInv, Anchored, Answered
  <2>2. now + offset[r] > renewed + LeaseDuration
    BY <1>u, <2>1, ElectionConstants, Zenon DEF IInv, Seen
  <2> QED BY <2>2, NotExpired, Zenon DEF IInv
<1>1. Punctual' BY <1>u, <1>v, <1>c, Zenon DEF IInv, Punctual
<1>2. Bounded' BY <1>u, <1>v, <1>c, <1>w, Zenon DEF IInv, Bounded
<1>3. Seen' BY <1>u, <1>c, Zenon DEF Seen
<1>4. Answered' BY <1>u, <1>c, <1>w, Zenon DEF Answered
<1>5. Anchored'
  <2> SUFFICES ASSUME mode[r] = "leader"
               PROVE  deadline[r] + offset[r] <= began[r] + offset[r] + MaxLatency + RenewDeadline
    BY <1>u, <1>w, Zenon DEF Anchored
  <2>1. deadline[r] <= began[r] + RenewDeadline BY <1>u, Zenon DEF IInv, Bounded
  <2> QED BY <2>1, <1>v
<1>6. Resting' BY <1>u, <1>c, Zenon DEF IInv, Resting
<1> QED BY <1>t, <1>1, <1>2, <1>3, <1>4, <1>5, <1>6 DEF IInv

(* A Get only tells its own call whether the Lease is free. *)
LEMMA GetStep == ASSUME Timely, IInv, NEW r \in Replicas, Get(r) PROVE IInv'
<1>t. TypeOK' BY TypeStep, Zenon DEF IInv, Next, ReplicaNext
<1>u. /\ UNCHANGED <<now, holder, renewed, offset, mode, began, deadline, tick>>
      /\ call[r] # "none" /\ call'[r] \notin {"none", "acquired"}
      /\ \A q \in Replicas : q # r => call'[q] = call[q]
  BY Zenon DEF Get, leaseIsFree, lease, IInv, TypeOK
<1>1. Punctual' BY <1>u, Zenon DEF IInv, Punctual
<1>2. Bounded' BY <1>u, Zenon DEF IInv, Bounded
<1>3. Seen' BY <1>u DEF IInv, Seen, Get, leaseIsFree
<1>4. Answered' BY <1>u, Zenon DEF IInv, Answered
<1>5. Anchored' BY <1>u, Zenon DEF IInv, Anchored
<1>6. Resting' BY <1>u, Zenon DEF IInv, Resting
<1> QED BY <1>t, <1>1, <1>2, <1>3, <1>4, <1>5, <1>6 DEF IInv

(* A refused write changes nothing but its own call. *)
LEMMA OvertakenStep == ASSUME Timely, IInv, NEW r \in Replicas, Overtaken(r) PROVE IInv'
<1>t. TypeOK' BY TypeStep, Zenon DEF IInv, Next, ReplicaNext
<1>u. /\ UNCHANGED <<now, holder, renewed, offset, mode, began, deadline, tick>>
      /\ call[r] # "none" /\ call'[r] \notin {"none", "acquired"}
      /\ \A q \in Replicas : q # r => call'[q] = call[q]
  BY Zenon DEF Overtaken, lease, IInv, TypeOK
<1>1. Punctual' BY <1>u DEF IInv, Punctual
<1>2. Bounded' BY <1>u DEF IInv, Bounded
<1>3. Seen' BY <1>u DEF IInv, Seen, Overtaken
<1>4. Answered' BY <1>u DEF IInv, Answered
<1>5. Anchored' BY <1>u DEF IInv, Anchored
<1>6. Resting' BY <1>u DEF IInv, Resting
<1> QED BY <1>t, <1>1, <1>2, <1>3, <1>4, <1>5, <1>6 DEF IInv

(* A failed call changes nothing but its own call. *)
LEMMA CallFailsStep == ASSUME Timely, IInv, NEW r \in Replicas, CallFails(r) PROVE IInv'
<1>t. TypeOK' BY TypeStep, Zenon DEF IInv, Next, ReplicaNext
<1>u. /\ UNCHANGED <<now, holder, renewed, offset, mode, began, deadline, tick>>
      /\ call[r] # "none" /\ call'[r] \notin {"none", "acquired"}
      /\ \A q \in Replicas : q # r => call'[q] = call[q]
  BY Zenon DEF CallFails, lease, IInv, TypeOK
<1>1. Punctual' BY <1>u DEF IInv, Punctual
<1>2. Bounded' BY <1>u DEF IInv, Bounded
<1>3. Seen' BY <1>u DEF IInv, Seen, CallFails
<1>4. Answered' BY <1>u DEF IInv, Answered
<1>5. Anchored' BY <1>u DEF IInv, Anchored
<1>6. Resting' BY <1>u DEF IInv, Resting
<1> QED BY <1>t, <1>1, <1>2, <1>3, <1>4, <1>5, <1>6 DEF IInv

(* Whatever ends a call, the other replicas' calls and times stay. *)
LEMMA ReturnAcquireStep == ASSUME Timely, IInv, NEW r \in Replicas, ReturnAcquire(r) PROVE IInv'
<1>t. TypeOK' BY TypeStep, Zenon DEF IInv, Next, ReplicaNext
<1>u. /\ UNCHANGED <<now, holder, renewed, offset>> /\ now \in Nat
      /\ call'[r] = "none" /\ began'[r] = 0 /\ tick'[r] = now + RetryPeriod
      /\ mode[r] = "campaign" /\ call[r] # "none"
      /\ \A q \in Replicas : q # r =>
           /\ call'[q] = call[q] /\ began'[q] = began[q] /\ tick'[q] = tick[q]
           /\ mode'[q] = mode[q] /\ deadline'[q] = deadline[q]
  BY Zenon DEF ReturnAcquire, CallEnds, Answers, lease, IInv, TypeOK
<1>l. mode'[r] = "leader" => call[r] = "acquired" /\ deadline'[r] = now + RenewDeadline
  <2>1. CASE call[r] = "acquired" BY <2>1, Zenon DEF ReturnAcquire, IInv, TypeOK
  <2>2. CASE call[r] = "error"
    <3>1. mode'[r] = "stopped" BY <2>2, Zenon DEF ReturnAcquire, IInv, TypeOK
    <3> QED BY <3>1, Zenon
  <2>3. CASE call[r] = "refused"
    <3>1. mode'[r] = "campaign" BY <2>3, Zenon DEF ReturnAcquire, IInv, TypeOK
    <3> QED BY <3>1, Zenon
  <2> QED BY <2>1, <2>2, <2>3, Zenon DEF ReturnAcquire, Answers
<1>v. \A q \in Replicas : /\ began[q] \in Nat /\ deadline[q] \in Nat /\ tick[q] \in Nat
                          /\ offset[q] \in Nat /\ renewed \in Nat
  BY DEF IInv, TypeOK
<1>1. Punctual' BY <1>u DEF IInv, Punctual
<1>2. Bounded' BY <1>u, <1>v, <1>l DEF IInv, Bounded
<1>3. Seen' BY <1>u, Zenon DEF IInv, Seen
<1>4. Answered' BY <1>u, Zenon DEF IInv, Answered
<1>5. Anchored'
  <2>1. ASSUME mode'[r] = "leader"
        PROVE  holder = r /\ now + RenewDeadline + offset[r] <= renewed + MaxLatency + RenewDeadline
    <3>1. call[r] = "acquired" BY <2>1, <1>l, Zenon
    <3>2. holder = r /\ renewed = began[r] + offset[r] BY <3>1, Zenon DEF IInv, Answered
    <3>3. now <= began[r] + MaxLatency BY <1>u, Zenon DEF IInv, Punctual
    <3> QED BY <3>2, <3>3, <1>u, <1>v
  <2> QED BY <2>1, <1>u, <1>l, Zenon DEF IInv, Anchored
<1>6. Resting' BY <1>u, Zenon DEF IInv, Resting
<1> QED BY <1>t, <1>1, <1>2, <1>3, <1>4, <1>5, <1>6 DEF IInv

\* The answer to a renewal moves the deadline of the leader that asked.
LEMMA ReturnRenewStep == ASSUME Timely, IInv, NEW r \in Replicas, ReturnRenew(r) PROVE IInv'
<1>t. TypeOK' BY TypeStep, Zenon DEF IInv, Next, ReplicaNext
<1>u. /\ UNCHANGED <<now, holder, renewed, offset, tick>> /\ now \in Nat
      /\ call'[r] = "none" /\ began'[r] = 0
      /\ mode[r] = "leader" /\ call[r] # "none"
      /\ \A q \in Replicas : q # r =>
           /\ call'[q] = call[q] /\ began'[q] = began[q]
           /\ mode'[q] = mode[q] /\ deadline'[q] = deadline[q]
  BY Zenon DEF ReturnRenew, CallEnds, Answers, lease, IInv, TypeOK
<1>l. mode'[r] = "leader" =>
        \/ call[r] = "acquired" /\ deadline'[r] = now + RenewDeadline
        \/ deadline'[r] = deadline[r] /\ now <= deadline[r]
  BY DEF ReturnRenew, IInv, TypeOK
<1>v. /\ began[r] \in Nat /\ deadline[r] \in Nat /\ tick[r] \in Nat
      /\ offset[r] \in Nat /\ renewed \in Nat
      /\ now <= began[r] + MaxLatency /\ began[r] <= now
      /\ tick[r] <= began[r] + RetryPeriod
  BY <1>u DEF IInv, TypeOK, Punctual, Bounded
<1>1. Punctual' BY <1>u DEF IInv, Punctual
<1>2. Bounded' BY <1>u, <1>v, <1>l DEF IInv, Bounded
<1>3. Seen' BY <1>u, Zenon DEF IInv, Seen
<1>4. Answered' BY <1>u, Zenon DEF IInv, Answered
<1>5. Anchored'
  <2>1. ASSUME mode'[r] = "leader"
        PROVE  holder = r /\ deadline'[r] + offset[r] <= renewed + MaxLatency + RenewDeadline
    <3>1. CASE call[r] = "acquired" /\ deadline'[r] = now + RenewDeadline
      BY <1>u, <1>v, <3>1 DEF IInv, Answered
    <3>2. CASE deadline'[r] = deadline[r] BY <1>u, <3>2, Zenon DEF IInv, Anchored
    <3> QED BY <2>1, <1>l, <3>1, <3>2, Zenon
  <2> QED BY <2>1, <1>u, Zenon DEF IInv, Anchored
<1>6. Resting' BY <1>u, Zenon DEF IInv, Resting
<1> QED BY <1>t, <1>1, <1>2, <1>3, <1>4, <1>5, <1>6 DEF IInv

\* A shutdown or a restart ends a claim.
LEMMA ProcessStep ==
  ASSUME Timely, IInv, NEW r \in Replicas, Shutdown(r) \/ Restart(r) PROVE IInv'
<1>t. TypeOK' BY TypeStep, Zenon DEF IInv, Next, ReplicaNext
<1>u. /\ UNCHANGED <<now, holder, renewed, offset>>
      /\ call'[r] = "none" /\ mode'[r] # "leader" /\ began'[r] <= now
      /\ \A q \in Replicas : q # r =>
           /\ call'[q] = call[q] /\ began'[q] = began[q] /\ tick'[q] = tick[q]
           /\ mode'[q] = mode[q] /\ deadline'[q] = deadline[q]
  <2>1. CASE Shutdown(r) BY <2>1 DEF Shutdown, CallEnds, lease, IInv, TypeOK
  <2>2. CASE Restart(r)
    <3>1. /\ UNCHANGED <<now, holder, renewed, offset, call, began, deadline>>
          /\ mode' = [mode EXCEPT ![r] = "campaign"] /\ tick' = [tick EXCEPT ![r] = now]
          /\ call[r] = "none" /\ began[r] <= now
      <4>1. /\ mode[r] = "stopped" /\ UNCHANGED <<now, holder, renewed, offset, call, began, deadline>>
            /\ mode' = [mode EXCEPT ![r] = "campaign"] /\ tick' = [tick EXCEPT ![r] = now]
        BY <2>2, Zenon DEF Restart, lease
      <4>2. (mode[r] = "stopped" => call[r] = "none") /\ began[r] <= now
        BY Zenon DEF IInv, Punctual, Resting
      <4> QED BY <4>1, <4>2, Zenon
    <3> QED BY <3>1, Zenon DEF IInv, TypeOK
  <2> QED BY <2>1, <2>2, Zenon
<1>1. Punctual' BY <1>u, Zenon DEF IInv, Punctual
<1>2. Bounded' BY <1>u, Zenon DEF IInv, Bounded
<1>3. Seen' BY <1>u, Zenon DEF IInv, Seen
<1>4. Answered' BY <1>u DEF IInv, Answered
<1>5. Anchored' BY <1>u, Zenon DEF IInv, Anchored
<1>6. Resting' BY <1>u, Zenon DEF IInv, Resting
<1> QED BY <1>t, <1>1, <1>2, <1>3, <1>4, <1>5, <1>6, Zenon DEF IInv

\* Every step keeps the invariant when the timings leave a margin.
LEMMA InvStep == ASSUME Timely PROVE IInv /\ [Next]_vars => IInv'
<1> SUFFICES ASSUME IInv, [Next]_vars PROVE IInv'
  BY Zenon
<1>1. CASE UNCHANGED vars
  BY <1>1, Zenon DEF vars, IInv, TypeOK, Punctual, Bounded, Seen, Answered, Anchored, Resting
<1>2. CASE Pass BY <1>2, PassStep, Zenon
<1>3. ASSUME NEW r \in Replicas, ReplicaNext(r) PROVE IInv'
  BY <1>3, BeginStep, GetStep, TakenStep, OvertakenStep, CallFailsStep,
     ReturnAcquireStep, ReturnRenewStep, ProcessStep, Zenon DEF ReplicaNext
<1> QED BY <1>1, <1>2, <1>3, Zenon DEF Next

(* kubernetes.go and cmd/operator/main.go:310-312: a replica whose leader
   context is alive is the holder of the Lease, for any number of replicas. *)
THEOREM LeaderHoldsLeaseHolds == ASSUME Timely PROVE Spec => []LeaderHoldsLease
<1>1. IInv => LeaderHoldsLease BY Zenon DEF IInv, Anchored, LeaderHoldsLease
<1> QED BY InvInit, InvStep, <1>1, PTL DEF Spec

(* cmd/operator/main.go:168-169: the singleton loops of two replicas never act
   at the same time. *)
THEOREM OneLeaderHolds == ASSUME Timely PROVE Spec => []OneLeader
<1>1. IInv => OneLeader BY Zenon DEF IInv, Anchored, OneLeader
<1> QED BY InvInit, InvStep, <1>1, PTL DEF Spec
=============================================================================
