---------------------------- MODULE ControlLoops ----------------------------
(***************************************************************************)
(* One ScheduledJob and everything that creates or removes its runs: the   *)
(* scheduler (controlplane/schedule.go), the retainer (retention.go),      *)
(* manual triggers (admin/app/job/command/trigger.go) and the two stores   *)
(* they share, the run ledger and the JobRun custom resources.  Every      *)
(* database transaction and every API call is one step, so a loop can be   *)
(* overtaken between any two of them, and can fail or be cut off at any.   *)
(* How a run executes is RunReconciler's subject; here an open run moves.  *)
(***************************************************************************)
EXTENDS OccurrenceRules

CONSTANTS Specs,          \* Specs[i]: the definition's spec in revision i
          Schedule,       \* the minutes its cron expression names
          Grace,          \* MisfireGrace, in minutes
          MaxCatchUp,
          Manuals,        \* idempotency keys of manual triggers
          MaxMinute,      \* bound: minutes explored
          MaxFaults,      \* bound: failing calls
          NoTask

RevisionIds == DOMAIN Specs
Minutes == 0..MaxMinute

\* OccurrenceKey hashes definition, revision and minute; a manual key hashes
\* the idempotency key instead.
Scheduled == RevisionIds \X Schedule
Manual == {0} \X Manuals
Keys == Scheduled \cup Manual

ASSUME LoopConstants ==
  /\ Schedule \subseteq Minutes /\ Grace \in Nat /\ MaxFaults \in Nat
  /\ MaxMinute \in Nat /\ MaxCatchUp \in Int
  /\ 1 \in RevisionIds /\ 0 \notin RevisionIds
  /\ \A g \in RevisionIds :
       /\ Specs[g].misfire \in {"Skip", "FireOnce", "CatchUpBounded"}
       /\ Specs[g].concurrency \in {"Allow", "Forbid"}
       /\ Specs[g].suspend \in BOOLEAN
       /\ Specs[g].keepSuccessful \in Int /\ Specs[g].keepFailed \in Int

VARIABLES
  minute,        \* the wall clock
  active,        \* id of the definition's active revision
  ledger,        \* keys with a row in job_run_control_plane, oldest first
  phase,         \* their phases
  object,        \* JobRun CRs: the revision whose deadline they carry; 0: none
  seen,          \* manual CRs in the operator's cache
  tick,          \* the scheduler's tick: NoTask or where it is
  sweep,         \* the retainer's sweep
  faults,
  pruned         \* history: outcomes of which retention removed a row listed as such

tables == <<active, ledger, phase>>
vars == <<minute, tables, object, seen, tick, sweep, faults, pruned>>

Rows == {ledger[i] : i \in DOMAIN ledger}
OpenRuns == SelectSeq(ledger, LAMBDA k : ~Terminal(phase[k]))

LoopPhases == {"none", "Pending", "Running", "Succeeded", "Failed", "CancelUnknown"}
TickSteps == {"repair", "publish", "count", "create", "expose"}

Init ==
  /\ minute = 0 /\ active = 1
  /\ ledger = <<>> /\ phase = [k \in Keys |-> "none"]
  /\ object = [k \in Keys |-> 0] /\ seen = {}
  /\ tick = NoTask /\ sweep = NoTask /\ faults = 0
  /\ pruned = {}

-----------------------------------------------------------------------------
(* The definition *)

\* ReconcileScheduledJob projects an edited spec: a new revision becomes active.
ProjectDefinition ==
  /\ active + 1 \in RevisionIds
  /\ active' = active + 1
  /\ UNCHANGED <<minute, ledger, phase, object, seen, tick, sweep, faults, pruned>>

-----------------------------------------------------------------------------
(* Runs *)

\* CreateOccurrenceForTenant: insert the row unless its key is taken.
CreateRow(k) ==
  IF k \in Rows
  THEN UNCHANGED <<ledger, phase>>
  ELSE ledger' = Append(ledger, k) /\ phase' = [phase EXCEPT ![k] = "Pending"]

\* Trigger: the API reads the active revision and creates the CR; a replay of
\* the idempotency key finds it.
TriggerManual(m) ==
  /\ ~Specs[active].suspend
  /\ object[<<0, m>>] = 0
  /\ object' = [object EXCEPT ![<<0, m>>] = active]
  /\ UNCHANGED <<minute, tables, seen, tick, sweep, faults, pruned>>

\* The operator's cache follows the CRs of manual runs.
ObserveRun(k) ==
  /\ (k \in seen) # (object[k] # 0)
  /\ seen' = IF object[k] # 0 THEN seen \cup {k} ELSE seen \ {k}
  /\ UNCHANGED <<minute, tables, object, tick, sweep, faults, pruned>>

\* materializeManualRun: a manual CR without a row gets one.
materializeManualRun(k) ==
  /\ k \in seen /\ k \notin Rows
  /\ CreateRow(k)
  /\ UNCHANGED <<minute, active, object, seen, tick,
                 sweep, faults, pruned>>

\* The run executes: it starts only when its CR is there to be reconciled.
RunMoves(k) ==
  /\ k \in Rows
  /\ \/ phase[k] = "Pending" /\ object[k] # 0 /\ phase' = [phase EXCEPT ![k] = "Running"]
     \/ /\ phase[k] = "Running"
        /\ \E p \in {"Succeeded", "Failed", "CancelUnknown"} : phase' = [phase EXCEPT ![k] = p]
     \/ phase[k] = "CancelUnknown" /\ phase' = [phase EXCEPT ![k] = "Failed"]
  /\ UNCHANGED <<minute, active, ledger, object, seen,
                 tick, sweep, faults, pruned>>

-----------------------------------------------------------------------------
(* Scheduler.Tick.  A task holds the revision and the instant it read, the
   open runs still to repair and the occurrences still to fire. *)

\* ActiveRevisions is read once per tick; a suspended definition ends there.
TickStarts ==
  /\ tick = NoTask
  /\ ~Specs[active].suspend
  /\ tick' = [at |-> "repair", rev |-> active, now |-> minute, todo |-> <<>>]
  /\ UNCHANGED <<minute, tables, object, seen, sweep, faults, pruned>>

\* Broken: policy first, repair never.
repairOpenRunsSkipped ==
  /\ tick # NoTask /\ tick.at = "repair"
  /\ tick' = [tick EXCEPT !.at = "count"]
  /\ UNCHANGED <<minute, tables, object, seen, sweep, faults, pruned>>

\* repairOpenRuns lists every open run of the definition.
repairOpenRuns ==
  /\ tick # NoTask /\ tick.at = "repair"
  /\ tick' = [tick EXCEPT !.at = IF OpenRuns = <<>> THEN "count" ELSE "publish", !.todo = OpenRuns]
  /\ UNCHANGED <<minute, tables, object, seen, sweep, faults, pruned>>

\* Publish creates the CR unless it exists, with the deadline of the revision
\* the tick read; when none is left the tick goes on to its occurrences.
Publish ==
  /\ tick # NoTask /\ tick.at = "publish"
  /\ object' = [object EXCEPT ![Head(tick.todo)] = IF @ = 0 THEN tick.rev ELSE @]
  /\ tick' = [tick EXCEPT !.todo = Tail(@), !.at = IF Len(tick.todo) = 1 THEN "count" ELSE @]
  /\ UNCHANGED <<minute, tables, seen, sweep, faults, pruned>>

\* Broken: a run waiting to start does not count as open.
concurrencyAllowsRunning(spec) ==
  spec.concurrency = "Allow" \/ \A k \in Rows : phase[k] # "Running"

concurrencyAllows(spec) ==
  spec.concurrency = "Allow" \/ \A k \in Rows : Terminal(phase[k])

\* What the window and the misfire policy leave, if concurrency allows it.
Select ==
  /\ tick # NoTask /\ tick.at = "count"
  /\ LET spec == Specs[tick.rev]
         due  == selectOccurrences(Schedule, spec.misfire, tick.now, Grace, MaxCatchUp)
     IN  IF due # {} /\ concurrencyAllows(spec)
         THEN \E todo \in InOrder(due) :
                tick' = [tick EXCEPT !.at = "create", !.now = 0, !.todo = todo]
         ELSE tick' = NoTask
  /\ UNCHANGED <<minute, tables, object, seen, sweep, faults, pruned>>

OccurrenceKeyOf(rev, m) == <<rev, m>>

\* One occurrence: its row, by its key; unless it is an old finished run its CR
\* is published next, and the tick ends after the last one.
CreateOccurrence ==
  /\ tick # NoTask /\ tick.at = "create"
  /\ LET k     == OccurrenceKeyOf(tick.rev, Head(tick.todo))
         isNew == k \notin Rows
         rest  == Tail(tick.todo)
     IN  /\ CreateRow(k)
         /\ tick' = IF ~isNew /\ Terminal(phase[k])
                    THEN IF rest = <<>> THEN NoTask ELSE [tick EXCEPT !.todo = rest]
                    ELSE [tick EXCEPT !.at = "expose"]
  /\ UNCHANGED <<minute, active, object, seen, sweep,
                 faults, pruned>>

ExposeOccurrence ==
  /\ tick # NoTask /\ tick.at = "expose"
  /\ LET k == OccurrenceKeyOf(tick.rev, Head(tick.todo))
         rest == Tail(tick.todo)
     IN  /\ object' = [object EXCEPT ![k] = IF @ = 0 THEN tick.rev ELSE @]
         /\ tick' = IF rest = <<>> THEN NoTask ELSE [tick EXCEPT !.at = "create", !.todo = rest]
  /\ UNCHANGED <<minute, tables, seen, sweep, faults, pruned>>

\* A failed call skips the definition; lost leadership ends the tick.
TickFails ==
  /\ tick # NoTask /\ faults < MaxFaults
  /\ tick' = NoTask /\ faults' = faults + 1
  /\ UNCHANGED <<minute, tables, object, seen, sweep, pruned>>

-----------------------------------------------------------------------------
(* Retainer.Sweep *)

SweepStarts ==
  /\ sweep = NoTask
  /\ sweep' = [at |-> "list", rev |-> active, todo |-> <<>>]
  /\ UNCHANGED <<minute, tables, object, seen, tick, faults, pruned>>

\* The listing, by id, with the phases it read.
PrunableRuns ==
  /\ sweep # NoTask /\ sweep.at = "list"
  /\ LET beyond == Prunable(ledger, phase, {}, Specs[sweep.rev])
         listed(i) == [key |-> ledger[i], phase |-> phase[ledger[i]]]
     IN  IF beyond = {} THEN sweep' = NoTask
         ELSE \E at \in InOrder(beyond) :
                sweep' = [sweep EXCEPT !.at = "remove", !.rev = 0,
                                       !.todo = [n \in DOMAIN at |-> listed(at[n])]]
  /\ UNCHANGED <<minute, tables, object, seen, tick, faults, pruned>>

\* The CR goes first; one that is gone already is as good.
Remove ==
  /\ sweep # NoTask /\ sweep.at = "remove"
  /\ object' = [object EXCEPT ![Head(sweep.todo).key] = 0]
  /\ sweep' = [sweep EXCEPT !.at = "delete"]
  /\ UNCHANGED <<minute, tables, seen, tick, faults, pruned>>

\* Broken: deletes what the listing may list.
DeletableAsListed(k) == phase[k] \in RetentionPhases

\* The delete repeats a phase predicate, a narrower one than the listing's.
Deletable(k) == Terminal(phase[k])

\* The ledger without its i-th row.
WithoutRow(i) == SubSeq(ledger, 1, i - 1) \o SubSeq(ledger, i + 1, Len(ledger))

DeleteRun ==
  /\ sweep # NoTask /\ sweep.at = "delete"
  /\ LET k == Head(sweep.todo).key
         rest == Tail(sweep.todo)
     IN  /\ IF k \in Rows /\ Deletable(k)
            THEN /\ \E i \in DOMAIN ledger : ledger[i] = k /\ ledger' = WithoutRow(i)
                 /\ phase' = [phase EXCEPT ![k] = "none"]
                 /\ pruned' = pruned \cup ({phase[k]} \cap {Head(sweep.todo).phase})
            ELSE UNCHANGED <<ledger, phase, pruned>>
         /\ sweep' = IF rest = <<>> THEN NoTask ELSE [sweep EXCEPT !.at = "remove", !.todo = rest]
  /\ UNCHANGED <<minute, active, object, seen, tick,
                 faults>>

SweepFails ==
  /\ sweep # NoTask /\ faults < MaxFaults
  /\ sweep' = NoTask /\ faults' = faults + 1
  /\ UNCHANGED <<minute, tables, object, seen, tick, pruned>>

MinutePasses ==
  /\ minute < MaxMinute
  /\ minute' = minute + 1
  /\ UNCHANGED <<tables, object, seen, tick, sweep, faults, pruned>>

-----------------------------------------------------------------------------
TickNext ==
  TickStarts \/ repairOpenRuns \/ Publish \/ Select \/ CreateOccurrence \/ ExposeOccurrence

SweepNext == SweepStarts \/ PrunableRuns \/ Remove \/ DeleteRun

Next ==
  \/ ProjectDefinition \/ MinutePasses
  \/ \E m \in Manuals : TriggerManual(m)
  \/ \E k \in Manual : ObserveRun(k) \/ materializeManualRun(k)
  \/ \E k \in Keys : RunMoves(k)
  \/ TickNext \/ TickFails
  \/ SweepNext \/ SweepFails

Spec == Init /\ [][Next]_vars

\* runScheduleLoop's ticker comes round, and a tick takes its steps.
Fairness == WF_vars(TickNext)

FairSpec == Spec /\ Fairness

-----------------------------------------------------------------------------
(* schedule.go:350 (concurrencyAllows): while every revision of a definition
   says Forbid, two of its scheduled occurrences are never open at once, even
   though the count, the insert and the publish are separate transactions.  The
   operator leaves MaxCatchUp unset, which means one occurrence per tick; a tick
   that may catch up on more counts once and then creates them all. *)
ForbidNeverStacks ==
  (MaxCatchUp <= 1 /\ \A g \in RevisionIds : Specs[g].concurrency = "Forbid") =>
    Cardinality({k \in Rows \cap Scheduled : ~Terminal(phase[k])}) <= 1

(* DeleteRun's phase predicate (control_plane_repository.go:800): retention
   takes a row only when its run has finished, however old its listing is. *)
OnlyFinishedRunsPruned ==
  [][\A k \in Rows : k \notin Rows' => Terminal(phase[k])]_vars

(* PrunableRuns: retention never takes the newest runs of an outcome, so a
   burst of one outcome cannot evict the history of another. *)
HistoryKept ==
  \A p \in pruned :
    \E g \in RevisionIds : Cardinality({k \in Rows : phase[k] = p}) >= KeepOf(Specs[g], p)

(* schedule.go:183-186 (repair before policy): an unfinished run whose CR was
   never created, or was lost, gets one again unless the definition is
   suspended; Forbid does not let the run block its own repair. *)
StrandedRunsRepaired ==
  \A k \in Keys :
    (k \in Rows /\ ~Terminal(phase[k]) /\ object[k] = 0)
      ~> (k \notin Rows \/ Terminal(phase[k]) \/ object[k] # 0 \/ Specs[active].suspend)

=============================================================================
