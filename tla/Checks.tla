------------------------------- MODULE Checks -------------------------------
(***************************************************************************)
(* One check from its creation to the SLI snapshots its runs feed.         *)
(*                                                                         *)
(* The admin API creates, pauses, resumes and deletes the row under an     *)
(* optimistic version.  The operator's check loop lists due checks and     *)
(* fires each: repair, revision, ledger row, custom resource, cursor, each *)
(* a separate call that may fail or be the last one before the leader      *)
(* dies.  Runs are executed by the run pipeline (RunReconciler), of which  *)
(* only the phases matter here; the write that finishes a run is followed  *)
(* by the recorder's bookkeeping, which nothing retries.                   *)
(***************************************************************************)
EXTENDS CheckRules, Sequences

CONSTANTS CheckInputs,      \* create requests
          SLIList,          \* SLIs whose source is this check, as listed
          Timings,          \* durations of an attempt
          Period,           \* cron step or interval, in clock units
          MaxTime,          \* bound on the clock
          MaxVersion,       \* bound on pauses and resumes
          MaxCheckFaults    \* bound on failed calls and leader changes

ASSUME CheckConstants ==
    /\ Period \in Nat \ {0}
    /\ MaxTime \in Nat
    /\ MaxVersion \in Nat \ {0}
    /\ MaxCheckFaults \in Nat
    /\ Len(SLIList) \in Nat

Instants == 0 .. MaxTime + Period
Versions == 1 .. MaxVersion
Keys == Versions \X Instants
SLIs == 1 .. Len(SLIList)
NoTick == [step |-> "idle", version |-> 0, next |-> 0, now |-> 0, todo |-> {}]
NoCheck == [status |-> "none", version |-> 0, next |-> 0]
NoDeadline == 0
NoObject == -1

TerminalPhases == {"Succeeded", "Failed", "Canceled"}
OpenPhases == {"Pending", "Running"}

VARIABLES clock,
          check,        \* the checks row: status, version, next_run_at
          definition,   \* its immutable columns, once created
          revisions,    \* versions with a revision row
          runs,         \* occurrence key -> phase in the ledger, or "none"
          objects,      \* occurrence key -> deadline of its JobRun, or NoObject
          tick,         \* the firing of this check the loop is in
          recording,    \* occurrence key -> what the recorder still has to do
          checkRuns,    \* occurrence key -> status in check_runs, or "none"
          snapshots,    \* SLI -> good and total events of the window
          checkFaults

checkVars == <<clock, check, definition, revisions, runs, objects, tick,
               recording, checkRuns, snapshots, checkFaults>>

NothingToRecord == [at |-> "done", sli |-> 0, event |-> [status |-> "none", timed |-> FALSE, ms |-> 0]]

CheckInit ==
    /\ clock = 0
    /\ check = NoCheck
    /\ definition = Refused
    /\ revisions = {}
    /\ runs = [k \in Keys |-> "none"]
    /\ objects = [k \in Keys |-> NoObject]
    /\ tick = NoTick
    /\ recording = [k \in Keys |-> NothingToRecord]
    /\ checkRuns = [k \in Keys |-> "none"]
    /\ snapshots = [s \in SLIs |-> [good |-> 0, total |-> 0]]
    /\ checkFaults = 0

-----------------------------------------------------------------------------
\* The admin API.  A request that is refused leaves everything as it is.

\* The INSERT: a new row is active at version 1.
insertCheck(spec, next) ==
    /\ definition' = spec
    /\ check' = [status |-> "active", version |-> 1, next |-> next]

CreateCheck(in) ==
    /\ check = NoCheck
    /\ NormalizeCreate(in).ok
    /\ insertCheck(NormalizeCreate(in), nextRunAt(NormalizeCreate(in).kind, clock, Period))
    /\ UNCHANGED <<clock, revisions, runs, objects, tick, recording, checkRuns, snapshots, checkFaults>>

\* ChangeStatus: the rule on the current status, then an UPDATE that only
\* matches the version the caller read.  The cursor is left where it was.
ChangeStatus(to) ==
    /\ to # "refused"
    /\ check.version < MaxVersion
    /\ check' = [check EXCEPT !.status = to, !.version = @ + 1]
    /\ UNCHANGED <<clock, definition, revisions, runs, objects, tick, recording, checkRuns,
                   snapshots, checkFaults>>

PauseCheck == ChangeStatus(Pause(check.status))
ResumeCheck == ChangeStatus(Resume(check.status))

\* Delete: soft, guarded by the version like a status change.
DeleteCheck ==
    /\ check.status \in {"active", "paused"}
    /\ check.version < MaxVersion
    /\ check' = [check EXCEPT !.status = "deleted", !.version = @ + 1]
    /\ UNCHANGED <<clock, definition, revisions, runs, objects, tick, recording, checkRuns,
                   snapshots, checkFaults>>

Tick ==
    /\ clock < MaxTime
    /\ clock' = clock + 1
    /\ UNCHANGED <<check, definition, revisions, runs, objects, tick, recording, checkRuns,
                   snapshots, checkFaults>>

-----------------------------------------------------------------------------
\* The check loop.

\* Broken: a check is due only after its instant.
dueLate(now) == check.status = "active" /\ check.next < now

due(now) == check.status = "active" /\ check.next <= now

\* RunBatch reads the clock once, then the due rows; what is fired is the row
\* as listed, whatever the admin API does meanwhile.
RunBatch ==
    /\ tick = NoTick
    /\ due(clock)
    /\ tick' = [step |-> "open", version |-> check.version, next |-> check.next, now |-> clock, todo |-> {}]
    /\ UNCHANGED <<clock, check, definition, revisions, runs, objects, recording, checkRuns,
                   snapshots, checkFaults>>

\* The custom resource of one occurrence.  It carries no timeout.
jobRunObject == NoDeadline

\* Publish creates the object or adopts the one that has the name.
published(keys) == [k \in Keys |-> IF k \in keys /\ objects[k] = NoObject THEN jobRunObject ELSE objects[k]]

\* repairOpenRuns: the list, then one publish per open run.
ListOpenRuns ==
    /\ tick.step = "open"
    /\ tick' = [tick EXCEPT !.step = "repair", !.todo = {k \in Keys : runs[k] \in OpenPhases}]
    /\ UNCHANGED <<clock, check, definition, revisions, runs, objects, recording, checkRuns,
                   snapshots, checkFaults>>

repairOpenRuns ==
    /\ tick.step = "repair"
    /\ IF tick.todo = {}
       THEN /\ tick' = [tick EXCEPT !.step = "revision"]
            /\ UNCHANGED objects
       ELSE \E k \in tick.todo :
               /\ objects' = published({k})
               /\ tick' = [tick EXCEPT !.todo = @ \ {k}]
    /\ UNCHANGED <<clock, check, definition, revisions, runs, recording, checkRuns, snapshots, checkFaults>>

\* Broken: the cursor advances before the occurrence exists.
ApplyCheckAdvances ==
    /\ tick.step = "revision"
    /\ revisions' = revisions \union {tick.version}
    /\ tick' = [tick EXCEPT !.step = "create"]
    /\ check' = IF check.status = "deleted" THEN check
                ELSE [check EXCEPT !.next = nextRunAt(definition.kind, tick.now, Period)]
    /\ UNCHANGED <<clock, definition, runs, objects, recording, checkRuns, snapshots, checkFaults>>

\* ApplyCheck: the version's revision, unless its config cannot be rendered.
ApplyCheck ==
    /\ tick.step = "revision"
    /\ IF CheckJobSpec(definition).ok
       THEN /\ revisions' = revisions \union {tick.version}
            /\ tick' = [tick EXCEPT !.step = "create"]
       ELSE /\ tick' = NoTick
            /\ UNCHANGED revisions
    /\ UNCHANGED <<clock, check, definition, runs, objects, recording, checkRuns, snapshots, checkFaults>>

\* The occurrence key names the revision and the due instant.
occurrence == <<tick.version, tick.next>>

\* CreateOccurrenceForTenant inserts or finds the row; an occurrence found
\* finished ends the firing there, before the cursor.
CreateOccurrence ==
    /\ tick.step = "create"
    /\ runs' = [runs EXCEPT ![occurrence] = IF @ = "none" THEN "Pending" ELSE @]
    /\ tick' = IF runs[occurrence] \in TerminalPhases THEN NoTick ELSE [tick EXCEPT !.step = "publish"]
    /\ UNCHANGED <<clock, check, definition, revisions, objects, recording, checkRuns, snapshots, checkFaults>>

PublishOccurrence ==
    /\ tick.step = "publish"
    /\ objects' = published({occurrence})
    /\ tick' = [tick EXCEPT !.step = "advance"]
    /\ UNCHANGED <<clock, check, definition, revisions, runs, recording, checkRuns, snapshots, checkFaults>>

\* Broken: the cursor only moves if the version is still the one listed.
AdvanceCursorGuarded ==
    /\ tick.step = "advance"
    /\ check' = IF check.status = "deleted" \/ check.version # tick.version THEN check
                ELSE [check EXCEPT !.next = nextRunAt(definition.kind, tick.now, Period)]
    /\ tick' = NoTick
    /\ UNCHANGED <<clock, definition, revisions, runs, objects, recording, checkRuns, snapshots, checkFaults>>

\* UpdateNextRunAt: unguarded by version, refused for a deleted check.
AdvanceCursor ==
    /\ tick.step = "advance"
    /\ check' = IF check.status = "deleted" THEN check
                ELSE [check EXCEPT !.next = nextRunAt(definition.kind, tick.now, Period)]
    /\ tick' = NoTick
    /\ UNCHANGED <<clock, definition, revisions, runs, objects, recording, checkRuns, snapshots, checkFaults>>

\* Any call of the firing fails, or the leader stops there: the rest of the
\* firing does not happen, and the next tick starts from the stored row.
FiringFails ==
    /\ tick # NoTick
    /\ checkFaults < MaxCheckFaults
    /\ checkFaults' = checkFaults + 1
    /\ tick' = NoTick
    /\ UNCHANGED <<clock, check, definition, revisions, runs, objects, recording, checkRuns, snapshots>>

-----------------------------------------------------------------------------
\* The run pipeline, external to this module, and the recorder it calls.

RunStarts(k) ==
    /\ runs[k] = "Pending"
    /\ objects[k] # NoObject
    /\ runs' = [runs EXCEPT ![k] = "Running"]
    /\ UNCHANGED <<clock, check, definition, revisions, objects, tick, recording, checkRuns,
                   snapshots, checkFaults>>

\* Broken: a canceled run reaches the recorder too.
recordedAlways(phase, ms) ==
    [at |-> "outcome", sli |-> 0, event |-> [status |-> statusForEvent(phase), timed |-> ms > 0, ms |-> ms]]

\* A run is finished once; RecordTerminalPhase is called for the phases
\* Succeeded and Failed.  A run that never started has no timing.
recorded(phase, ms) ==
    IF phase \in {"Succeeded", "Failed"}
    THEN [at |-> "outcome", sli |-> 0, event |-> [status |-> statusForEvent(phase), timed |-> ms > 0, ms |-> ms]]
    ELSE NothingToRecord

RunFinishes(k, phase, ms) ==
    /\ runs[k] = "Running" \/ (runs[k] = "Pending" /\ objects[k] # NoObject /\ phase # "Succeeded" /\ ms = 0)
    /\ runs' = [runs EXCEPT ![k] = phase]
    /\ recording' = [recording EXCEPT ![k] = recorded(phase, ms)]
    /\ UNCHANGED <<clock, check, definition, revisions, objects, tick, checkRuns, snapshots, checkFaults>>

nextSLI(k) ==
    LET r == recording[k]
    IN  [recording EXCEPT ![k] = IF r.sli < Len(SLIList)
                                 THEN [at |-> "sli", sli |-> r.sli + 1, event |-> r.event]
                                 ELSE NothingToRecord]

\* RecordCompleted, then the SLI events; a failed read-model write is logged
\* and the SLI events are still recorded.
recordCheckRun(k) ==
    /\ recording[k].at = "outcome"
    /\ recording' = nextSLI(k)
    /\ \/ /\ checkRuns' = [checkRuns EXCEPT ![k] = recording[k].event.status]
          /\ UNCHANGED checkFaults
       \/ /\ checkFaults < MaxCheckFaults
          /\ checkFaults' = checkFaults + 1
          /\ UNCHANGED checkRuns
    /\ UNCHANGED <<clock, check, definition, revisions, runs, objects, tick, snapshots>>

\* IncrementSnapshot: one upsert per SLI.
IncrementSnapshot(s, verdict) ==
    LET n == snapshots[s]
    IN  snapshots' = [snapshots EXCEPT ![s] =
                        [good |-> IF verdict = "yes" THEN n.good + 1 ELSE n.good, total |-> n.total + 1]]

\* The SLIs in turn; one whose criteria are invalid, or whose write fails, is
\* skipped.
recordSLIEvents(k) ==
    /\ recording[k].at = "sli"
    /\ recording' = nextSLI(k)
    /\ LET s == recording[k].sli
       IN  \E verdict \in isGoodEvent(recording[k].event, SLIList[s]) :
              \/ verdict = "error" /\ UNCHANGED <<snapshots, checkFaults>>
              \/ verdict # "error" /\ IncrementSnapshot(s, verdict) /\ UNCHANGED checkFaults
              \/ /\ verdict # "error"
                 /\ checkFaults < MaxCheckFaults
                 /\ checkFaults' = checkFaults + 1
                 /\ UNCHANGED snapshots
    /\ UNCHANGED <<clock, check, definition, revisions, runs, objects, tick, checkRuns>>

\* The process dies, or a read fails, before the bookkeeping is done: the run
\* can never transition again, so what is left is never recorded.
RecordingLost(k) ==
    /\ recording[k] # NothingToRecord
    /\ checkFaults < MaxCheckFaults
    /\ checkFaults' = checkFaults + 1
    /\ recording' = [recording EXCEPT ![k] = NothingToRecord]
    /\ UNCHANGED <<clock, check, definition, revisions, runs, objects, tick, checkRuns, snapshots>>

-----------------------------------------------------------------------------
FiringStep ==
    RunBatch \/ ListOpenRuns \/ repairOpenRuns \/ ApplyCheck \/ CreateOccurrence
        \/ PublishOccurrence \/ AdvanceCursor

RecorderStep(k) == recordCheckRun(k) \/ recordSLIEvents(k)

CheckNext ==
    \/ \E in \in CheckInputs : CreateCheck(in)
    \/ PauseCheck \/ ResumeCheck \/ DeleteCheck
    \/ Tick
    \/ FiringStep \/ FiringFails
    \/ \E k \in Keys :
         \/ RunStarts(k)
         \/ \E p \in TerminalPhases, ms \in Timings \union {0} : RunFinishes(k, p, ms)
         \/ RecorderStep(k) \/ RecordingLost(k)

CheckSpec == CheckInit /\ [][CheckNext]_checkVars

\* The loop ticks for ever under the lease, and time passes.
CheckFairness ==
    /\ WF_checkVars(Tick)
    /\ WF_checkVars(FiringStep)

CheckFairSpec == CheckSpec /\ CheckFairness

-----------------------------------------------------------------------------
\* While no call fails, an instant is probed by one run, however pauses and
\* resumes interleave with the firing and whatever version they leave behind.
OneRunPerInstant ==
    checkFaults = 0 =>
        \A k, j \in Keys : runs[k] # "none" /\ runs[j] # "none" /\ k[2] = j[2] => k = j

\* The cursor leaves an instant only when a run of that instant exists and is
\* published: fireCheck advances it last.
CursorFollowsRun ==
    [][check'.next # check.next /\ check # NoCheck =>
         \E v \in Versions : runs[<<v, check.next>>] # "none" /\ objects[<<v, check.next>>] # NoObject]_checkVars

\* What was counted happened: check_runs agrees with the ledger, no event is
\* counted twice or for a canceled run, a criteria error counts nothing, and
\* without faults every finished run ends up counted.
OutcomesCountedOnce ==
    LET finished == {k \in Keys : runs[k] \in {"Succeeded", "Failed"}}
        settled == {k \in finished : recording[k] = NothingToRecord}
        succeeded == {k \in finished : runs[k] = "Succeeded"}
    IN  /\ \A k \in Keys : checkRuns[k] # "none" => k \in finished /\ checkRuns[k] = statusForEvent(runs[k])
        /\ \A i \in SLIs :
             LET sli == SLIList[i]  count == snapshots[i]
             IN  /\ count.good <= count.total
                 /\ count.total <= Cardinality(finished)
                 /\ sli.criteria = {} /\ sli.type = "latency" => count.total = 0
                 /\ sli.criteria = {} /\ sli.type = "availability" =>
                      /\ count.good <= Cardinality(succeeded)
                      /\ checkFaults = 0 => count.total >= Cardinality(settled)

Overdue == check.status = "active" /\ check.next <= clock

\* Once time and the admin API stand still, a check that is still due has its
\* run for the instant, although firings failed on the way.
DueCheckFires ==
    <>[](Overdue => \E v \in Versions : runs[<<v, check.next>>] # "none")

=============================================================================
