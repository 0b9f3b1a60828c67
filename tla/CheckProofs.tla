----------------------------- MODULE CheckProofs -----------------------------
(***************************************************************************)
(* What the check service guarantees for any number of versions, instants  *)
(* and SLIs: the cursor follows the runs, an instant has one run, and a    *)
(* finished run is counted once.                                           *)
(*                                                                         *)
(* A count says nothing by itself about the runs behind it.  CountInv      *)
(* relates it to the runs an SLI was offered so far (Judged): the recorder *)
(* adds one run to that set per step, and the count grows by one at most.  *)
(***************************************************************************)
EXTENDS Checks, FiniteSetTheorems, TLAPS

(* The firing loop. *)

CheckRow == [status : {"none", "active", "paused", "deleted"}, version : 0 .. MaxVersion, next : Instants]
Firing == [step : {"idle", "open", "repair", "revision", "create", "publish", "advance"},
           version : 0 .. MaxVersion, next : Instants, now : 0 .. MaxTime, todo : SUBSET Keys]
RunPhases == {"none"} \union OpenPhases \union TerminalPhases

CheckTypes ==
    /\ clock \in 0 .. MaxTime
    /\ check \in CheckRow
    /\ tick \in Firing
    /\ runs \in [Keys -> RunPhases]
    /\ objects \in [Keys -> {NoObject, NoDeadline}]
    /\ checkFaults \in Nat

\* A firing works on the instant the cursor is at, which was due when it began.
\* It goes past the insert with a run and past the publish with its object.
FiringHolds ==
    /\ check.status = "none" => tick.step = "idle" /\ \A k \in Keys : runs[k] = "none"
    /\ check.status # "none" => check.version \in Versions
    /\ tick.step = "idle" => tick = NoTick
    /\ tick.step # "idle" =>
         tick.version \in Versions /\ tick.next = check.next /\ tick.next <= tick.now
    /\ tick.step \in {"publish", "advance"} => runs[occurrence] # "none"
    /\ tick.step = "advance" => objects[occurrence] # NoObject

\* Runs are behind the cursor.  The one at the cursor is the firing's own, or
\* the last one of a check that was deleted during its firing.
RunsBehindCursor ==
    \A k \in Keys : runs[k] # "none" =>
        \/ k[2] < check.next
        \/ k[2] = check.next /\ k = occurrence /\ tick.step \in {"publish", "advance"}
        \/ k[2] = check.next /\ check.status = "deleted" /\ tick.step = "idle"

CheckInv ==
    /\ CheckTypes
    /\ FiringHolds
    /\ checkFaults = 0 => RunsBehindCursor /\ OneRunPerInstant

\* nextRunAt is later than the tick's instant, by no more than a period.
LEMMA NextIsLater ==
    ASSUME NEW kind, NEW t \in 0 .. MaxTime
    PROVE  nextRunAt(kind, t, Period) \in Instants /\ nextRunAt(kind, t, Period) > t
<1>1. Period \in Nat /\ Period >= 1 /\ MaxTime \in Nat /\ t \in Nat /\ t <= MaxTime
  BY CheckConstants
<1> DEFINE q == t \div Period
<1>2. q \in Nat /\ q * Period <= t /\ t < (q + 1) * Period /\ (q + 1) * Period = q * Period + Period
  BY <1>1
<1> HIDE DEF q
<1>3. (q + 1) * Period \in Instants /\ (q + 1) * Period > t
  BY <1>1, <1>2 DEF Instants
<1>4. t + Period \in Instants /\ t + 1 \in Instants
  BY <1>1 DEF Instants
<1> QED
  BY <1>1, <1>3, <1>4 DEF nextRunAt, q

\* The pipeline and the recorder move runs on; they neither create nor remove
\* one, and the cursor and the firing do not notice.
LEMMA PipelineKeeps ==
    ASSUME CheckInv, UNCHANGED <<check, tick>>,
           clock' \in 0 .. MaxTime, runs' \in [Keys -> RunPhases],
           objects' = objects, checkFaults' \in {checkFaults, checkFaults + 1},
           \A k \in Keys : runs'[k] = "none" <=> runs[k] = "none"
    PROVE  CheckInv'
<1>1. CheckTypes'
  BY DEF CheckInv, CheckTypes
<1>2. occurrence' = occurrence /\ (tick.step # "idle" => occurrence \in Keys)
  BY Zenon DEF CheckInv, CheckTypes, FiringHolds, occurrence, Keys, Firing
<1>3. FiringHolds'
  BY <1>2, Zenon DEF CheckInv, FiringHolds
<1>4. checkFaults' = 0 => checkFaults = 0
  BY DEF CheckInv, CheckTypes
<1>5. checkFaults' = 0 => RunsBehindCursor' /\ OneRunPerInstant'
  BY <1>2, <1>4, Zenon DEF CheckInv, RunsBehindCursor, OneRunPerInstant
<1> QED
  BY <1>1, <1>3, <1>5, Zenon DEF CheckInv

\* The admin API moves the row, never its cursor.
LEMMA StatusKeeps ==
    ASSUME CheckInv, UNCHANGED <<clock, runs, objects, tick, checkFaults>>,
           check' \in CheckRow, check'.next = check.next, check'.version \in Versions,
           check.status \in {"active", "paused"}, check'.status # "none"
    PROVE  CheckInv'
<1>1. CheckTypes' /\ occurrence' = occurrence
  BY Zenon DEF CheckInv, CheckTypes, occurrence
<1>2. FiringHolds'
  BY <1>1, Zenon DEF CheckInv, FiringHolds
<1>3. checkFaults = 0 => RunsBehindCursor' /\ OneRunPerInstant'
  BY <1>1, Zenon DEF CheckInv, RunsBehindCursor, OneRunPerInstant
<1> QED
  BY <1>1, <1>2, <1>3, Zenon DEF CheckInv

\* A firing ends early, by an error or with the leader; or goes on before the
\* insert.  A firing that ended at the insert or later counts as a fault.
LEMMA FiringMoves ==
    ASSUME CheckInv, UNCHANGED <<clock, check, runs>>, tick' \in Firing,
           objects' \in [Keys -> {NoObject, NoDeadline}],
           \A k \in Keys : objects[k] # NoObject => objects'[k] # NoObject,
           checkFaults' \in {checkFaults, checkFaults + 1},
           check.status # "none" \/ tick'.step = "idle",
           tick'.step = "idle" => tick' = NoTick,
           tick'.step # "idle" =>
             tick'.version \in Versions /\ tick'.next = check.next /\ tick'.next <= tick'.now,
           tick'.step \notin {"publish", "advance"},
           tick.step \in {"publish", "advance"} => checkFaults' # checkFaults,
           check.status = "deleted" => tick.step # "idle" \/ tick'.step = "idle"
    PROVE  CheckInv'
<1>1. CheckTypes'
  BY DEF CheckInv, CheckTypes
<1>2. FiringHolds'
  BY Zenon DEF CheckInv, FiringHolds
<1>3. checkFaults' = 0 => checkFaults = 0 /\ tick.step \notin {"publish", "advance"}
  BY DEF CheckInv, CheckTypes
<1>4. ASSUME checkFaults' = 0 PROVE RunsBehindCursor' /\ OneRunPerInstant'
  BY <1>3, <1>4, Zenon DEF CheckInv, RunsBehindCursor, OneRunPerInstant
<1> QED
  BY <1>1, <1>2, <1>4, Zenon DEF CheckInv

\* RunBatch to ApplyCheck, and a firing that is cut off.
LEMMA EarlyStepsKeep ==
    ASSUME CheckInv, RunBatch \/ ListOpenRuns \/ repairOpenRuns \/ ApplyCheck \/ FiringFails
    PROVE  CheckInv'
<1>1. NoTick \in Firing /\ NoTick.step = "idle"
  BY CheckConstants DEF NoTick, Firing, Instants
<1>2. tick \in Firing /\ objects \in [Keys -> {NoObject, NoDeadline}]
  BY Zenon DEF CheckInv, CheckTypes
<1>3. CASE RunBatch
  <2>1. check.status = "active" /\ check.version \in Versions /\ check.next <= clock
    BY <1>3, Zenon DEF RunBatch, due, CheckInv, FiringHolds
  <2>2. tick.step = "idle" /\ tick'.step = "open" /\ tick'.version = check.version
        /\ tick'.next = check.next /\ tick'.now = clock /\ tick' \in Firing
    BY <1>1, <1>3, <2>1, Zenon DEF RunBatch, CheckInv, CheckTypes, CheckRow, Firing
  <2> QED
    BY <1>2, <1>3, <2>1, <2>2, FiringMoves, Zenon DEF RunBatch
<1>4. CASE ListOpenRuns
  <2>1. PICK S \in SUBSET Keys : tick' = [tick EXCEPT !.step = "repair", !.todo = S]
    BY <1>4, Zenon DEF ListOpenRuns
  <2>2. /\ tick'.step = "repair" /\ tick'.version = tick.version /\ tick'.next = tick.next
        /\ tick'.now = tick.now /\ tick' \in Firing
    BY <1>2, <2>1, Zenon DEF Firing
  <2> QED
    BY <1>2, <1>4, <2>2, FiringMoves, Zenon DEF ListOpenRuns, CheckInv, FiringHolds
<1>5. CASE repairOpenRuns
  <2>1. /\ tick'.step \in {"repair", "revision"} /\ tick'.version = tick.version
        /\ tick'.next = tick.next /\ tick'.now = tick.now /\ tick' \in Firing
    <3>1. CASE tick.todo = {}
      BY <1>2, <1>5, <3>1 DEF repairOpenRuns, Firing
    <3>2. CASE tick.todo # {}
      <4>1. PICK k \in tick.todo : tick' = [tick EXCEPT !.todo = @ \ {k}]
        BY <1>5, <3>2, Zenon DEF repairOpenRuns
      <4> QED
        BY <1>2, <1>5, <4>1 DEF repairOpenRuns, Firing
    <3> QED
      BY <3>1, <3>2, Zenon
  <2>2. /\ objects' \in [Keys -> {NoObject, NoDeadline}]
        /\ \A k \in Keys : objects[k] # NoObject => objects'[k] # NoObject
    BY <1>2, <1>5, Zenon DEF repairOpenRuns, published, jobRunObject, NoDeadline, NoObject
  <2> QED
    BY <1>5, <2>1, <2>2, FiringMoves, Zenon DEF repairOpenRuns, CheckInv, FiringHolds
<1>6. CASE ApplyCheck
  <2>1. CASE tick' = [tick EXCEPT !.step = "create"]
    <3>1. /\ tick'.step = "create" /\ tick'.version = tick.version /\ tick'.next = tick.next
          /\ tick'.now = tick.now /\ tick' \in Firing
      BY <1>2, <2>1, Zenon DEF Firing
    <3> QED
      BY <1>2, <1>6, <3>1, FiringMoves, Zenon DEF ApplyCheck, CheckInv, FiringHolds
  <2>2. CASE tick' = NoTick
    BY <1>1, <1>2, <1>6, <2>2, FiringMoves, Zenon DEF ApplyCheck, CheckInv, FiringHolds
  <2> QED
    BY <1>6, <2>1, <2>2, Zenon DEF ApplyCheck
<1>7. CASE FiringFails
  BY <1>1, <1>2, <1>7, FiringMoves DEF FiringFails, CheckInv, CheckTypes
<1> QED
  BY <1>3, <1>4, <1>5, <1>6, <1>7, Zenon

\* CreateOccurrenceForTenant finds no run at the cursor unless a firing was cut
\* off before.
LEMMA CreateKeeps ==
    ASSUME CheckInv, CreateOccurrence
    PROVE  CheckInv'
<1>1. NoTick \in Firing /\ NoTick.step = "idle"
  BY CheckConstants DEF NoTick, Firing, Instants
<1>2. /\ tick \in Firing /\ tick.step = "create" /\ tick.next = check.next
      /\ occurrence \in Keys /\ occurrence[2] = check.next /\ check.status # "none"
  BY Zenon DEF CreateOccurrence, CheckInv, CheckTypes, FiringHolds, Firing, Keys, occurrence
<1>3. /\ runs' \in [Keys -> RunPhases] /\ runs'[occurrence] # "none"
      /\ \A k \in Keys : k # occurrence => runs'[k] = runs[k]
  BY <1>2, Zenon DEF CreateOccurrence, CheckInv, CheckTypes, RunPhases, OpenPhases
<1>4. CASE runs[occurrence] \in TerminalPhases
  <2>1. tick' = NoTick /\ \A k \in Keys : runs'[k] = "none" <=> runs[k] = "none"
    BY <1>2, <1>3, <1>4, Zenon DEF CreateOccurrence, TerminalPhases
  <2>2. checkFaults # 0
    BY <1>2, <1>4 DEF CheckInv, CheckTypes, CheckRow, Instants, RunsBehindCursor, TerminalPhases
  <2>3. CheckTypes' /\ FiringHolds'
    BY <1>1, <1>2, <1>3, <2>1, Zenon DEF CreateOccurrence, CheckInv, CheckTypes, FiringHolds
  <2> QED
    BY <2>2, <2>3, Zenon DEF CheckInv, CreateOccurrence
<1>5. CASE runs[occurrence] \notin TerminalPhases
  <2>1. /\ tick'.step = "publish" /\ tick'.version = tick.version /\ tick'.next = tick.next
        /\ tick'.now = tick.now /\ tick' \in Firing
    BY <1>2, <1>5, Zenon DEF CreateOccurrence, Firing
  <2>2. occurrence' = occurrence
    BY <2>1, Zenon DEF occurrence
  <2>3. CheckTypes' /\ FiringHolds'
    BY <1>2, <1>3, <2>1, <2>2, Zenon DEF CreateOccurrence, CheckInv, CheckTypes, FiringHolds
  <2>4. ASSUME checkFaults = 0 PROVE RunsBehindCursor' /\ OneRunPerInstant'
    <3>1. \A k \in Keys : runs[k] # "none" => k[2] < check.next
      BY <1>2, <2>4, Zenon DEF CheckInv, RunsBehindCursor
    <3>2. RunsBehindCursor'
      BY <1>2, <1>3, <2>1, <2>2, <3>1, Zenon DEF CreateOccurrence, RunsBehindCursor
    <3>3. OneRunPerInstant'
      BY <1>2, <1>3, <2>4, <3>1 DEF CheckInv, CheckTypes, CheckRow, Instants, OneRunPerInstant
    <3> QED
      BY <3>2, <3>3, Zenon
  <2> QED
    BY <2>3, <2>4, Zenon DEF CheckInv, CreateOccurrence
<1> QED
  BY <1>4, <1>5, Zenon

\* Publish makes sure that the run's object exists.
LEMMA PublishKeeps ==
    ASSUME CheckInv, PublishOccurrence
    PROVE  CheckInv'
<1>1. tick \in Firing /\ tick.step = "publish" /\ occurrence \in Keys
  BY Zenon DEF PublishOccurrence, CheckInv, CheckTypes, FiringHolds, Firing, Keys, occurrence
<1>2. /\ tick'.step = "advance" /\ tick'.version = tick.version /\ tick'.next = tick.next
      /\ tick'.now = tick.now /\ tick' \in Firing
  BY <1>1, Zenon DEF PublishOccurrence, Firing
<1>3. objects' \in [Keys -> {NoObject, NoDeadline}] /\ objects'[occurrence] # NoObject
  BY <1>1 DEF PublishOccurrence, published, jobRunObject, NoDeadline, NoObject, CheckInv, CheckTypes
<1>4. occurrence' = occurrence
  BY <1>2, Zenon DEF occurrence
<1>5. CheckTypes' /\ FiringHolds'
  BY <1>1, <1>2, <1>3, <1>4, Zenon DEF PublishOccurrence, CheckInv, CheckTypes, FiringHolds
<1>6. checkFaults = 0 => RunsBehindCursor' /\ OneRunPerInstant'
  BY <1>1, <1>2, <1>4, Zenon DEF PublishOccurrence, CheckInv, RunsBehindCursor, OneRunPerInstant
<1> QED
  BY <1>5, <1>6, Zenon DEF CheckInv, PublishOccurrence

\* UpdateNextRunAt passes the instant that was fired, or leaves a deleted check
\* where it is.
LEMMA AdvanceKeeps ==
    ASSUME CheckInv, AdvanceCursor
    PROVE  CheckInv'
<1>1. NoTick \in Firing /\ NoTick.step = "idle"
  BY CheckConstants DEF NoTick, Firing, Instants
<1>2. /\ tick \in Firing /\ tick.step = "advance" /\ tick.next = check.next /\ tick.next <= tick.now
      /\ check \in CheckRow /\ check.status # "none" /\ check.version \in Versions
  BY Zenon DEF AdvanceCursor, CheckInv, CheckTypes, FiringHolds
<1> DEFINE next == nextRunAt(definition.kind, tick.now, Period)
<1>3. next \in Instants /\ next > tick.now
  BY <1>2, NextIsLater, Zenon DEF Firing
<1> HIDE DEF next
<1>4. /\ check' \in CheckRow /\ check'.status = check.status /\ check'.version = check.version
      /\ check'.next = IF check.status = "deleted" THEN check.next ELSE next
  BY <1>2, <1>3, Zenon DEF AdvanceCursor, CheckRow, next
<1>5. tick' = NoTick
  BY Zenon DEF AdvanceCursor
<1>6. CheckTypes' /\ FiringHolds'
  BY <1>1, <1>2, <1>4, <1>5, Zenon DEF AdvanceCursor, CheckInv, CheckTypes, FiringHolds
<1>7. ASSUME checkFaults = 0 PROVE RunsBehindCursor' /\ OneRunPerInstant'
  <2>1. \A k \in Keys : runs[k] # "none" => k[2] <= check.next
    BY <1>2, <1>7 DEF CheckInv, RunsBehindCursor, CheckRow, Instants, Keys
  <2>2. CASE check.status = "deleted"
    <3>1. \A k \in Keys : runs[k] # "none" => k[2] < check.next \/ k[2] = check.next
      BY <1>7, <1>2, Zenon DEF CheckInv, RunsBehindCursor
    <3> QED
      BY <1>1, <1>4, <1>5, <1>7, <2>2, <3>1, Zenon DEF AdvanceCursor, CheckInv, RunsBehindCursor, OneRunPerInstant
  <2>3. CASE check.status # "deleted"
    <3>1. \A k \in Keys : runs[k] # "none" => k[2] < next
      BY <1>2, <1>3, <2>1 DEF CheckRow, Firing, Instants, Keys
    <3> QED
      BY <1>4, <1>7, <2>3, <3>1, Zenon DEF AdvanceCursor, CheckInv, RunsBehindCursor, OneRunPerInstant
  <2> QED
    BY <2>2, <2>3, Zenon
<1> QED
  BY <1>6, <1>7, Zenon DEF CheckInv, AdvanceCursor

\* The first cursor of a check; no run of it exists before.
LEMMA CreateCheckKeeps ==
    ASSUME CheckInv, NEW in \in CheckInputs, CreateCheck(in)
    PROVE  CheckInv'
<1> DEFINE next == nextRunAt(NormalizeCreate(in).kind, clock, Period)
<1>1. next \in Instants
  BY NextIsLater, Zenon DEF CheckInv, CheckTypes
<1>2. check.status = "none" /\ check' = [status |-> "active", version |-> 1, next |-> next]
  BY Zenon DEF CreateCheck, insertCheck, NoCheck
<1> HIDE DEF next
<1>3. check' \in CheckRow /\ check'.status = "active" /\ check'.version \in Versions
  BY <1>1, <1>2, CheckConstants DEF CheckRow, Versions
<1>4. tick.step = "idle" /\ \A k \in Keys : runs[k] = "none"
  BY <1>2, Zenon DEF CheckInv, FiringHolds
<1>5. UNCHANGED <<clock, runs, objects, tick, checkFaults>>
  BY Zenon DEF CreateCheck
<1>6. CheckTypes' /\ FiringHolds'
  BY <1>3, <1>4, <1>5, Zenon DEF CheckInv, CheckTypes, FiringHolds
<1>7. RunsBehindCursor' /\ OneRunPerInstant'
  BY <1>4, <1>5, Zenon DEF RunsBehindCursor, OneRunPerInstant
<1> QED
  BY <1>6, <1>7, Zenon DEF CheckInv

\* Pause, resume and delete.
LEMMA AdminKeeps ==
    ASSUME CheckInv, PauseCheck \/ ResumeCheck \/ DeleteCheck
    PROVE  CheckInv'
<1>1. check \in CheckRow
  BY Zenon DEF CheckInv, CheckTypes
<1>2. PICK to \in {"active", "paused", "deleted"} :
        /\ check' = [check EXCEPT !.status = to, !.version = @ + 1]
        /\ check.status \in {"active", "paused"} /\ check.version < MaxVersion
        /\ UNCHANGED <<clock, runs, objects, tick, checkFaults>>
  BY Zenon DEF PauseCheck, ResumeCheck, DeleteCheck, ChangeStatus, Pause, Resume
<1>3. /\ check'.status = to /\ check'.version = check.version + 1 /\ check'.next = check.next
      /\ check' \in CheckRow
  <2>1. check' = [status |-> to, version |-> check.version + 1, next |-> check.next]
    BY <1>1, <1>2, Zenon DEF CheckRow
  <2>2. check.version + 1 \in 0 .. MaxVersion /\ check.next \in Instants
    BY <1>1, <1>2, CheckConstants DEF CheckRow
  <2> QED
    BY <2>1, <2>2, Zenon DEF CheckRow
<1>4. check'.version \in Versions
  BY <1>1, <1>2, <1>3, CheckConstants DEF CheckRow, Versions
<1> QED
  BY <1>2, <1>3, <1>4, StatusKeeps, Zenon

\* The clock, the pipeline and the recorder.
LEMMA SurroundingsKeep ==
    ASSUME CheckInv, NEW k \in Keys,
           \/ Tick \/ RunStarts(k) \/ RecorderStep(k) \/ RecordingLost(k)
           \/ \E p \in TerminalPhases, ms \in Timings \union {0} : RunFinishes(k, p, ms)
    PROVE  CheckInv'
<1>1. UNCHANGED <<check, tick, objects>> /\ checkFaults' \in {checkFaults, checkFaults + 1}
  BY Zenon DEF Tick, RunStarts, RecorderStep, recordCheckRun, recordSLIEvents, RecordingLost, RunFinishes
<1>2. clock' \in 0 .. MaxTime
  BY CheckConstants
  DEF CheckInv, CheckTypes, Tick, RunStarts, RecorderStep, recordCheckRun, recordSLIEvents,
      RecordingLost, RunFinishes
<1>3. runs' = runs \/ \E p \in RunPhases \ {"none"} : runs[k] # "none" /\ runs' = [runs EXCEPT ![k] = p]
  BY Zenon DEF Tick, RunStarts, RecorderStep, recordCheckRun, recordSLIEvents, RecordingLost,
         RunFinishes, RunPhases, OpenPhases, TerminalPhases
<1>4. runs' \in [Keys -> RunPhases] /\ \A j \in Keys : runs'[j] = "none" <=> runs[j] = "none"
  BY <1>3, Zenon DEF CheckInv, CheckTypes
<1> QED
  BY <1>1, <1>2, <1>4, PipelineKeeps, Zenon

\* The invariant of the check loop is inductive.
LEMMA CheckInvariance == CheckSpec => []CheckInv
<1>1. CheckInit => CheckInv
  <2> SUFFICES ASSUME CheckInit PROVE CheckInv
    BY Zenon
  <2>1. CheckTypes
    BY CheckConstants DEF CheckInit, CheckTypes, CheckRow, Firing, NoCheck, NoTick, Instants, RunPhases
  <2>2. FiringHolds
    BY Zenon DEF CheckInit, FiringHolds, NoCheck, NoTick
  <2> QED
    BY <2>1, <2>2, Zenon DEF CheckInit, CheckInv, RunsBehindCursor, OneRunPerInstant
<1>2. CheckInv /\ [CheckNext]_checkVars => CheckInv'
  <2> SUFFICES ASSUME CheckInv, [CheckNext]_checkVars PROVE CheckInv'
    OBVIOUS
  <2>1. CASE UNCHANGED checkVars
    BY <2>1, PipelineKeeps, Zenon DEF checkVars, CheckInv, CheckTypes
  <2>2. CASE CheckNext
    <3>1. 1 \in Versions /\ 0 \in Instants
      BY CheckConstants DEF Versions, Instants
    <3>2. <<1, 0>> \in Keys
      BY <3>1, Zenon DEF Keys
    <3> QED
      BY <2>2, <3>2, CreateCheckKeeps, AdminKeeps, SurroundingsKeep, EarlyStepsKeep, CreateKeeps,
         PublishKeeps, AdvanceKeeps, Zenon
      DEF CheckNext, FiringStep
  <2> QED
    BY <2>1, <2>2
<1> QED
  BY <1>1, <1>2, PTL DEF CheckSpec

(* While no call fails, an instant is probed by one run, whatever versions
   pauses and resumes leave behind (fireCheck). *)
THEOREM OneRunPerInstantHolds == CheckSpec => []OneRunPerInstant
<1>1. CheckInv => OneRunPerInstant
  BY Zenon DEF CheckInv, OneRunPerInstant
<1> QED
  BY <1>1, CheckInvariance, PTL

(* The cursor leaves an instant only when a run of that instant exists and is
   published: fireCheck advances it last, and a firing that is cut off leaves
   it (fireCheck, UpdateNextRunAt). *)
THEOREM CursorAlwaysFollowsRun == CheckSpec => CursorFollowsRun
<1>1. CheckInv /\ [CheckNext]_checkVars =>
        [check'.next # check.next /\ check # NoCheck =>
           \E v \in Versions : runs[<<v, check.next>>] # "none" /\ objects[<<v, check.next>>] # NoObject]_checkVars
  <2> SUFFICES ASSUME CheckInv, CheckNext, check'.next # check.next, check # NoCheck
               PROVE  \E v \in Versions :
                        runs[<<v, check.next>>] # "none" /\ objects[<<v, check.next>>] # NoObject
    BY Zenon DEF checkVars
  <2>1. CASE AdvanceCursor
    <3>1. /\ tick.version \in Versions /\ tick.next = check.next
          /\ runs[occurrence] # "none" /\ objects[occurrence] # NoObject
      BY <2>1, Zenon DEF AdvanceCursor, CheckInv, FiringHolds
    <3> QED
      BY <3>1, Zenon DEF occurrence
  <2>2. ASSUME PauseCheck \/ ResumeCheck \/ DeleteCheck PROVE FALSE
    <3>1. PICK to : check' = [check EXCEPT !.status = to, !.version = @ + 1]
      BY <2>2, Zenon DEF PauseCheck, ResumeCheck, DeleteCheck, ChangeStatus
    <3> QED
      BY <3>1, Zenon DEF CheckInv, CheckTypes, CheckRow
  <2>3. ASSUME ~AdvanceCursor, ~PauseCheck, ~ResumeCheck, ~DeleteCheck PROVE check' = check
    BY <2>3, Zenon DEF CheckNext, CreateCheck, Tick, FiringStep, FiringFails, RunBatch, ListOpenRuns,
       repairOpenRuns, ApplyCheck, CreateOccurrence, PublishOccurrence, RunStarts, RunFinishes,
       RecorderStep, recordCheckRun, recordSLIEvents, RecordingLost
  <2> QED
    BY <2>1, <2>2, <2>3, Zenon
<1> QED
  BY <1>1, CheckInvariance, PTL DEF CheckSpec, CursorFollowsRun

-----------------------------------------------------------------------------
(* What the recorder counts. *)

FinishedRuns == {k \in Keys : runs[k] \in {"Succeeded", "Failed"}}

\* The finished runs that SLI i has been offered, or never will be.
Judged(i) ==
    {k \in FinishedRuns : ~ \/ recording[k].at = "outcome"
                            \/ recording[k].at = "sli" /\ recording[k].sli <= i}

Passed(i) == {k \in Judged(i) : runs[k] = "Succeeded"}

\* What the counts of an SLI may be, given the runs it was offered.
Tally(sli, count, judged, passed, faults) ==
    /\ count.good <= count.total
    /\ count.total <= Cardinality(judged)
    /\ sli.criteria = {} /\ sli.type = "latency" => count.total = 0
    /\ sli.criteria = {} /\ sli.type = "availability" =>
         /\ count.good <= Cardinality(passed)
         /\ faults = 0 => count.total = Cardinality(judged)

\* The recorder works on finished runs, with their outcome.
RecordingSound(k) ==
    recording[k] # NothingToRecord =>
        /\ k \in FinishedRuns /\ recording[k].event.status = statusForEvent(runs[k])
        /\ \/ recording[k].at = "outcome" /\ recording[k].sli = 0
           \/ recording[k].at = "sli" /\ recording[k].sli \in SLIs

CountInv ==
    /\ recording = [k \in Keys |-> recording[k]] /\ checkRuns = [k \in Keys |-> checkRuns[k]]
    /\ snapshots \in [SLIs -> [good : Nat, total : Nat]]
    /\ \A k \in Keys : RecordingSound(k)
    /\ \A k \in Keys : checkRuns[k] # "none" => k \in FinishedRuns /\ checkRuns[k] = statusForEvent(runs[k])
    /\ \A i \in SLIs : Tally(SLIList[i], snapshots[i], Judged(i), Passed(i), checkFaults)

\* There are finitely many occurrence keys.
LEMMA KeysFinite ==
    ASSUME NEW S, S \subseteq Keys
    PROVE  IsFiniteSet(S) /\ Cardinality(S) \in Nat
<1>1. 1 \in Int /\ MaxVersion \in Int /\ 0 \in Int /\ MaxTime + Period \in Int
  BY CheckConstants
<1>2. IsFiniteSet(Versions) /\ IsFiniteSet(Instants)
  BY <1>1, FS_Interval, Zenon DEF Versions, Instants
<1>3. IsFiniteSet(Keys)
  BY <1>2, FS_Product, Zenon DEF Keys
<1> QED
  BY <1>3, FS_Subset, FS_CardinalityType, Zenon

\* An SLI that is offered no run, and whose counts stay.
LEMMA TallyStays ==
    ASSUME CountInv, CheckTypes, NEW i \in SLIs, snapshots'[i] = snapshots[i],
           Judged(i)' = Judged(i), Passed(i)' = Passed(i), checkFaults' = 0 => checkFaults = 0
    PROVE  Tally(SLIList[i], snapshots'[i], Judged(i)', Passed(i)', checkFaults')
BY Zenon DEF CountInv, Tally

\* A step outside the recorder: finished runs stay as they are.
LEMMA CountQuiet ==
    ASSUME CountInv, CheckTypes, UNCHANGED <<recording, checkRuns, snapshots>>,
           checkFaults' = 0 => checkFaults = 0,
           \A k \in Keys : runs'[k] # runs[k] =>
               runs[k] \notin {"Succeeded", "Failed"} /\ runs'[k] \notin {"Succeeded", "Failed"}
    PROVE  CountInv'
<1>1. FinishedRuns' = FinishedRuns
  BY Zenon DEF FinishedRuns
<1>2. \A k \in FinishedRuns : runs'[k] = runs[k]
  BY Zenon DEF FinishedRuns
<1>3. \A i : Judged(i)' = Judged(i) /\ Passed(i)' = Passed(i)
  BY <1>1, <1>2, Zenon DEF Judged, Passed
<1>4. \A k \in Keys : RecordingSound(k)'
  BY <1>1, <1>2, Zenon DEF CountInv, RecordingSound
<1>5. \A i \in SLIs : Tally(SLIList[i], snapshots[i], Judged(i), Passed(i), checkFaults)'
  BY <1>3, TallyStays, Zenon
<1>6. \A k \in Keys : checkRuns'[k] # "none" => k \in FinishedRuns' /\ checkRuns'[k] = statusForEvent(runs'[k])
  BY <1>1, <1>2, Zenon DEF CountInv
<1> QED
  BY <1>4, <1>5, <1>6, Zenon DEF CountInv

\* A run finishes: it is still to be offered, or, canceled, never will be.
LEMMA FinishCounts ==
    ASSUME CountInv, CheckTypes, NEW k \in Keys, NEW p \in TerminalPhases, NEW ms, RunFinishes(k, p, ms)
    PROVE  CountInv'
<1>1. /\ runs[k] \in OpenPhases /\ runs' = [runs EXCEPT ![k] = p]
      /\ recording' = [recording EXCEPT ![k] = recorded(p, ms)]
      /\ UNCHANGED <<checkRuns, snapshots, checkFaults>>
  BY Zenon DEF RunFinishes, OpenPhases
<1>2. runs'[k] = p /\ \A j \in Keys : j # k => runs'[j] = runs[j]
  BY <1>1, Zenon DEF CheckTypes
<1>3. /\ recording' = [j \in Keys |-> recording'[j]]
      /\ recording'[k] = recorded(p, ms) /\ \A j \in Keys : j # k => recording'[j] = recording[j]
  BY <1>1, Zenon DEF CountInv
<1>4. k \notin FinishedRuns
  BY <1>1, Zenon DEF FinishedRuns, OpenPhases
<1>5. FinishedRuns' = IF p \in {"Succeeded", "Failed"} THEN FinishedRuns \union {k} ELSE FinishedRuns
  BY <1>2, <1>4, Zenon DEF FinishedRuns
<1>6. IF p \in {"Succeeded", "Failed"}
      THEN recorded(p, ms).at = "outcome" /\ recorded(p, ms).sli = 0
           /\ recorded(p, ms).event.status = statusForEvent(p)
      ELSE recorded(p, ms) = NothingToRecord
  BY Zenon DEF recorded
<1>7. \A i : Judged(i)' = Judged(i) /\ Passed(i)' = Passed(i)
  <2> SUFFICES ASSUME NEW i PROVE Judged(i)' = Judged(i) /\ Passed(i)' = Passed(i)
    OBVIOUS
  <2>1. k \notin Judged(i) /\ k \notin Judged(i)'
    BY <1>3, <1>4, <1>5, <1>6, Zenon DEF Judged
  <2>2. \A j : j # k => (j \in Judged(i)' <=> j \in Judged(i))
    <3>1. FinishedRuns \subseteq Keys
      BY Zenon DEF FinishedRuns
    <3>2. \A j : j # k => (j \in FinishedRuns' <=> j \in FinishedRuns)
      BY <1>5, Zenon
    <3> QED
      BY <1>3, <3>1, <3>2, Zenon DEF Judged
  <2>3. Judged(i)' = Judged(i)
    <3>1. \A j : j \in Judged(i)' <=> j \in Judged(i)
      BY <2>1, <2>2, Zenon
    <3> QED
      BY <3>1, Zenon
  <2>4. \A j \in Judged(i) : runs'[j] = runs[j]
    BY <1>2, <2>1, Zenon DEF Judged, FinishedRuns
  <2> QED
    BY <2>3, <2>4, Zenon DEF Passed
<1>8. \A j \in Keys : RecordingSound(j)'
  <2>1. ASSUME NEW j \in Keys, j # k PROVE RecordingSound(j)'
    BY <1>2, <1>3, <1>5, <2>1, Zenon DEF CountInv, RecordingSound
  <2>2. RecordingSound(k)'
    BY <1>2, <1>3, <1>5, <1>6, Zenon DEF RecordingSound, NothingToRecord
  <2> QED
    BY <2>1, <2>2, Zenon
<1>9. \A i \in SLIs : Tally(SLIList[i], snapshots[i], Judged(i), Passed(i), checkFaults)'
  BY <1>1, <1>7, TallyStays, Zenon
<1>10. \A j \in Keys : checkRuns'[j] # "none" => j \in FinishedRuns' /\ checkRuns'[j] = statusForEvent(runs'[j])
  BY <1>1, <1>2, <1>4, <1>5, Zenon DEF CountInv
<1> QED
  BY <1>1, <1>3, <1>8, <1>9, <1>10, Zenon DEF CountInv

\* Where the recorder goes next with a run.
LEMMA NextSLI ==
    ASSUME CountInv, NEW k \in Keys, recording[k] # NothingToRecord, recording' = nextSLI(k), UNCHANGED runs
    PROVE  /\ recording' = [j \in Keys |-> recording'[j]]
           /\ \A j \in Keys : j # k => recording'[j] = recording[j]
           /\ recording[k].sli \in Nat /\ recording[k].sli <= Len(SLIList)
           /\ IF recording[k].sli < Len(SLIList)
              THEN /\ recording'[k] = [at |-> "sli", sli |-> recording[k].sli + 1, event |-> recording[k].event]
                   /\ recording[k].sli + 1 \in SLIs
              ELSE recording'[k] = NothingToRecord
           /\ \A j \in Keys : RecordingSound(j)'
           /\ FinishedRuns' = FinishedRuns /\ k \in FinishedRuns
<1>1. RecordingSound(k) /\ recording = [j \in Keys |-> recording[j]]
  BY Zenon DEF CountInv
<1>2. recording[k].sli \in Nat /\ recording[k].sli <= Len(SLIList)
  BY <1>1, CheckConstants DEF RecordingSound, SLIs
<1>3. recording[k].sli < Len(SLIList) => recording[k].sli + 1 \in SLIs
  BY <1>2, CheckConstants DEF SLIs
<1>4. /\ recording' = [j \in Keys |-> recording'[j]]
      /\ \A j \in Keys : j # k => recording'[j] = recording[j]
      /\ recording'[k] = IF recording[k].sli < Len(SLIList)
                         THEN [at |-> "sli", sli |-> recording[k].sli + 1, event |-> recording[k].event]
                         ELSE NothingToRecord
  BY <1>1, Zenon DEF nextSLI
<1>5. FinishedRuns' = FinishedRuns /\ k \in FinishedRuns
  BY <1>1, Zenon DEF FinishedRuns, RecordingSound
<1>6. ASSUME NEW j \in Keys, j # k PROVE RecordingSound(j)'
  BY <1>4, <1>5, <1>6, Zenon DEF CountInv, RecordingSound
<1>7. RecordingSound(k)'
  <2>1. CASE recording[k].sli < Len(SLIList)
    <3>1. recording'[k] = [at |-> "sli", sli |-> recording[k].sli + 1, event |-> recording[k].event]
      BY <1>4, <2>1, Zenon
    <3>2. recording[k].event.status = statusForEvent(runs[k])
      BY <1>1, Zenon DEF RecordingSound
    <3> QED
      BY <1>3, <1>5, <2>1, <3>1, <3>2 DEF RecordingSound
  <2>2. CASE ~(recording[k].sli < Len(SLIList))
    BY <1>4, <2>2, Zenon DEF RecordingSound, NothingToRecord
  <2> QED
    BY <2>1, <2>2, Zenon
<1> QED
  BY <1>2, <1>3, <1>4, <1>5, <1>6, <1>7, Zenon

\* check_runs: the row gets the run's outcome, or the write fails.
LEMMA RowCounts ==
    ASSUME CountInv, CheckTypes, NEW k \in Keys, recordCheckRun(k)
    PROVE  CountInv'
<1>1. /\ recording[k].at = "outcome" /\ recording' = nextSLI(k) /\ UNCHANGED <<runs, snapshots>>
      /\ checkRuns' = checkRuns \/ checkRuns' = [checkRuns EXCEPT ![k] = recording[k].event.status]
      /\ checkFaults' = checkFaults \/ checkFaults' = checkFaults + 1
  BY Zenon DEF recordCheckRun
<1>2. recording[k] # NothingToRecord
  BY <1>1 DEF NothingToRecord
<1>3. /\ k \in FinishedRuns /\ recording[k].event.status = statusForEvent(runs[k]) /\ recording[k].sli = 0
  BY <1>1, <1>2, Zenon DEF CountInv, RecordingSound
<1>4. /\ recording' = [j \in Keys |-> recording'[j]]
      /\ \A j \in Keys : j # k => recording'[j] = recording[j]
      /\ IF 0 < Len(SLIList)
         THEN recording'[k] = [at |-> "sli", sli |-> 0 + 1, event |-> recording[k].event]
         ELSE recording'[k] = NothingToRecord
      /\ \A j \in Keys : RecordingSound(j)'
      /\ FinishedRuns' = FinishedRuns
  BY <1>1, <1>2, <1>3, NextSLI, Zenon
<1>5. ASSUME NEW i \in SLIs PROVE Judged(i)' = Judged(i) /\ Passed(i)' = Passed(i)
  <2>1. 0 < Len(SLIList) /\ 0 + 1 <= i
    BY CheckConstants DEF SLIs
  <2>2. k \notin Judged(i) /\ k \notin Judged(i)'
    <3>1. recording'[k].at = "sli" /\ recording'[k].sli = 0 + 1
      BY <1>4, <2>1
    <3> QED
      BY <1>1, <2>1, <3>1, Zenon DEF Judged
  <2>3. \A j : j # k => (j \in Judged(i)' <=> j \in Judged(i))
    BY <1>4, Zenon DEF Judged, FinishedRuns
  <2>4. \A j : j \in Judged(i)' <=> j \in Judged(i)
    BY <2>2, <2>3, Zenon
  <2>5. Judged(i)' = Judged(i)
    BY <2>4
  <2> QED
    BY <1>1, <2>5, Zenon DEF Passed
<1>6. checkFaults' = 0 => checkFaults = 0
  BY <1>1 DEF CheckTypes
<1>7. \A i \in SLIs : Tally(SLIList[i], snapshots[i], Judged(i), Passed(i), checkFaults)'
  BY <1>1, <1>5, <1>6, TallyStays, Zenon
<1>8. /\ checkRuns' = [j \in Keys |-> checkRuns'[j]]
      /\ \A j \in Keys : checkRuns'[j] = checkRuns[j] \/ (j = k /\ checkRuns'[j] = recording[k].event.status)
  BY <1>1, Zenon DEF CountInv
<1>9. \A j \in Keys : checkRuns'[j] # "none" => j \in FinishedRuns' /\ checkRuns'[j] = statusForEvent(runs'[j])
  BY <1>1, <1>3, <1>4, <1>8, Zenon DEF CountInv
<1> QED
  BY <1>1, <1>4, <1>7, <1>8, <1>9, Zenon DEF CountInv

\* A run is offered to an SLI: it is counted once at most.
LEMMA OneMore ==
    ASSUME NEW sli, NEW count \in [good : Nat, total : Nat], NEW judged, NEW passed, NEW k,
           IsFiniteSet(judged), passed \subseteq judged, k \notin judged,
           NEW faults, NEW after, after = 0 => faults = 0,
           Tally(sli, count, judged, passed, faults),
           NEW good \in BOOLEAN, NEW new \in [good : Nat, total : Nat],
           \/ new = count /\ (sli.criteria = {} /\ sli.type = "availability" => after # 0)
           \/ /\ ~(sli.criteria = {} /\ sli.type = "latency")
              /\ new.total = count.total + 1
              /\ new.good = IF good THEN count.good + 1 ELSE count.good,
           NEW ok \in BOOLEAN,
           sli.criteria = {} /\ sli.type = "availability" => (good => ok)
    PROVE  Tally(sli, new, judged \union {k}, IF ok THEN passed \union {k} ELSE passed, after)
<1> DEFINE J == Cardinality(judged)
           P == Cardinality(passed)
           K == IF ok THEN passed \union {k} ELSE passed
<1>1. J \in Nat /\ Cardinality(judged \union {k}) = J + 1
  BY FS_CardinalityType, FS_AddElement, Zenon
<1>2. IsFiniteSet(passed) /\ k \notin passed
  BY FS_Subset, Zenon
<1>3. P \in Nat /\ Cardinality(passed \union {k}) = P + 1
  BY <1>2, FS_CardinalityType, FS_AddElement, Zenon
<1>4. Cardinality(K) = IF ok THEN P + 1 ELSE P
  BY <1>3, Zenon
<1>5. /\ count.good \in Nat /\ count.total \in Nat /\ new.good \in Nat /\ new.total \in Nat
      /\ count.good <= count.total /\ count.total <= J
  BY DEF Tally
<1> HIDE DEF J, P, K
<1>6. new.good <= new.total /\ new.total <= J + 1
  BY <1>1, <1>5
<1>7. ASSUME sli.criteria = {}, sli.type = "latency" PROVE new.total = 0
  <2>1. new = count /\ count.total = 0
    BY <1>7, Zenon DEF Tally
  <2> QED
    BY <2>1
<1>8. ASSUME sli.criteria = {}, sli.type = "availability"
      PROVE  /\ new.good <= (IF ok THEN P + 1 ELSE P)
             /\ after = 0 => new.total = J + 1
  <2>1. count.good <= P /\ (faults = 0 => count.total = J)
    BY <1>8, Zenon DEF Tally, P, J
  <2>2. good => ok
    BY <1>8, Zenon
  <2>3. new = count => after # 0 /\ new.good <= (IF ok THEN P + 1 ELSE P)
    BY <1>3, <1>5, <1>8, <2>1
  <2>4. new # count => /\ new.total = count.total + 1
                       /\ new.good = IF good THEN count.good + 1 ELSE count.good
    BY Zenon
  <2> QED
    BY <1>1, <1>3, <1>5, <2>1, <2>2, <2>3, <2>4
<1> QED
  BY <1>1, <1>4, <1>6, <1>7, <1>8, Zenon DEF Tally, K

\* The verdict of an SLI without criteria on an event.
LEMMA PlainVerdict ==
    ASSUME NEW event, NEW sli, NEW verdict \in isGoodEvent(event, sli), sli.criteria = {}
    PROVE  /\ sli.type = "latency" => verdict = "error"
           /\ sli.type = "availability" => verdict # "error" /\ (verdict = "yes" => event.status = "success")
<1>1. CASE sli.type = "availability"
  BY <1>1 DEF isGoodEvent
<1>2. CASE sli.type = "latency"
  BY <1>2 DEF isGoodEvent
<1> QED
  BY <1>1, <1>2

\* A run is offered to the next SLI.
LEMMA EventCounts ==
    ASSUME CountInv, CheckTypes, NEW k \in Keys, recordSLIEvents(k)
    PROVE  CountInv'
<1> DEFINE e == recording[k].event
<1>1. /\ recording[k].at = "sli" /\ recording' = nextSLI(k) /\ UNCHANGED <<runs, checkRuns>>
  BY Zenon DEF recordSLIEvents
<1>2. recording[k] # NothingToRecord
  BY <1>1 DEF NothingToRecord
<1>3. k \in FinishedRuns /\ e.status = statusForEvent(runs[k]) /\ recording[k].sli \in SLIs
  <2>1. "sli" # "outcome"
    OBVIOUS
  <2> QED
    BY <1>1, <1>2, <2>1, Zenon DEF CountInv, RecordingSound
<1>4. PICK s \in SLIs : s = recording[k].sli
  BY <1>3, Zenon
<1>5. PICK verdict \in isGoodEvent(e, SLIList[s]) :
        \/ verdict = "error" /\ UNCHANGED <<snapshots, checkFaults>>
        \/ verdict # "error" /\ IncrementSnapshot(s, verdict) /\ UNCHANGED checkFaults
        \/ verdict # "error" /\ checkFaults' = checkFaults + 1 /\ UNCHANGED snapshots
  BY <1>4, Zenon DEF recordSLIEvents
<1>6. /\ recording' = [j \in Keys |-> recording'[j]]
      /\ \A j \in Keys : j # k => recording'[j] = recording[j]
      /\ IF s < Len(SLIList)
         THEN recording'[k] = [at |-> "sli", sli |-> s + 1, event |-> e]
         ELSE recording'[k] = NothingToRecord
      /\ \A j \in Keys : RecordingSound(j)'
      /\ FinishedRuns' = FinishedRuns
  BY <1>1, <1>2, <1>4, NextSLI, Zenon
<1>7. ASSUME NEW i \in SLIs
      PROVE  /\ k \in Judged(i) <=> i < s
             /\ k \in Judged(i)' <=> i <= s
             /\ \A j : j # k => (j \in Judged(i)' <=> j \in Judged(i))
  <2>1. Len(SLIList) \in Nat /\ i \in Int /\ s \in Int /\ i <= Len(SLIList) /\ s <= Len(SLIList)
    BY CheckConstants DEF SLIs
  <2>2. k \in Judged(i) <=> ~(s <= i)
    BY <1>1, <1>3, <1>4, Zenon DEF Judged
  <2>3. k \in Judged(i)' <=> ~(s < Len(SLIList) /\ s + 1 <= i)
    <3>1. CASE s < Len(SLIList)
      <4>1. recording'[k].at = "sli" /\ recording'[k].sli = s + 1
        BY <1>6, <3>1
      <4>2. "sli" # "outcome"
        OBVIOUS
      <4> QED
        BY <1>3, <1>6, <3>1, <4>1, <4>2, Zenon DEF Judged
    <3>2. CASE ~(s < Len(SLIList))
      <4>1. recording'[k].at # "outcome" /\ recording'[k].at # "sli"
        BY <1>6, <3>2 DEF NothingToRecord
      <4> QED
        BY <1>3, <1>6, <3>2, <4>1, Zenon DEF Judged
    <3> QED
      BY <3>1, <3>2
  <2>4. \A j : j # k => (j \in Judged(i)' <=> j \in Judged(i))
    BY <1>6, Zenon DEF Judged, FinishedRuns
  <2>5. (~(s <= i) <=> i < s) /\ (~(s < Len(SLIList) /\ s + 1 <= i) <=> i <= s)
    BY <2>1
  <2> QED
    BY <2>2, <2>3, <2>4, <2>5, Zenon
<1>8. ASSUME NEW i \in SLIs, i # s
      PROVE  Judged(i)' = Judged(i) /\ Passed(i)' = Passed(i) /\ snapshots'[i] = snapshots[i]
  <2>1. i < s <=> i <= s
    BY <1>8, CheckConstants DEF SLIs
  <2>2. \A j : j \in Judged(i)' <=> j \in Judged(i)
    BY <1>7, <2>1, Zenon
  <2>3. Judged(i)' = Judged(i)
    BY <2>2
  <2>4. snapshots'[i] = snapshots[i]
    BY <1>5, <1>8, Zenon DEF IncrementSnapshot, CountInv
  <2> QED
    BY <1>1, <2>3, <2>4, Zenon DEF Passed
<1>9. k \notin Judged(s) /\ Judged(s)' = Judged(s) \union {k}
  <2>1. ~(s < s) /\ s <= s
    BY CheckConstants DEF SLIs
  <2>2. k \notin Judged(s) /\ k \in Judged(s)' /\ \A j : j # k => (j \in Judged(s)' <=> j \in Judged(s))
    BY <1>7, <2>1, Zenon
  <2> QED
    BY <2>2
<1>10. Passed(s)' = IF runs[k] = "Succeeded" THEN Passed(s) \union {k} ELSE Passed(s)
  <2>1. \A j : j \in Passed(s)' <=> (j \in Judged(s) \/ j = k) /\ runs[j] = "Succeeded"
    BY <1>1, <1>9, Zenon DEF Passed
  <2>2. \A j : j \in Passed(s) <=> j \in Judged(s) /\ runs[j] = "Succeeded"
    BY Zenon DEF Passed
  <2> QED
    BY <2>1, <2>2
<1>11. checkFaults' = 0 => checkFaults = 0
  BY <1>5 DEF CheckTypes
<1>12. /\ snapshots' \in [SLIs -> [good : Nat, total : Nat]]
       /\ \/ snapshots'[s] = snapshots[s] /\ (verdict = "error" \/ checkFaults' # 0)
          \/ /\ verdict # "error"
             /\ snapshots'[s].total = snapshots[s].total + 1
             /\ snapshots'[s].good = IF verdict = "yes" THEN snapshots[s].good + 1 ELSE snapshots[s].good
  <2> DEFINE n == snapshots[s]
             m == [good |-> IF verdict = "yes" THEN n.good + 1 ELSE n.good, total |-> n.total + 1]
  <2>1. snapshots \in [SLIs -> [good : Nat, total : Nat]] /\ n \in [good : Nat, total : Nat]
    BY <1>4, Zenon DEF CountInv
  <2>2. m \in [good : Nat, total : Nat]
    BY <2>1
  <2>3. CASE verdict # "error" /\ IncrementSnapshot(s, verdict)
    <3>1. snapshots' = [snapshots EXCEPT ![s] = m]
      BY <2>3, Zenon DEF IncrementSnapshot
    <3> HIDE DEF m
    <3>2. snapshots' \in [SLIs -> [good : Nat, total : Nat]] /\ snapshots'[s] = m
      BY <1>4, <2>1, <2>2, <3>1, Zenon
    <3> QED
      BY <2>3, <3>2 DEF m
  <2>4. CASE UNCHANGED snapshots /\ (verdict = "error" \/ checkFaults' = checkFaults + 1)
    <3>1. verdict = "error" \/ checkFaults' # 0
      BY <2>4 DEF CheckTypes
    <3> QED
      BY <2>1, <2>4, <3>1, Zenon
  <2> QED
    BY <1>5, <2>3, <2>4, Zenon
<1>13. Tally(SLIList[s], snapshots'[s], Judged(s)', Passed(s)', checkFaults')
  <2> DEFINE good == verdict = "yes"
             ok == runs[k] = "Succeeded"
  <2>1. /\ snapshots[s] \in [good : Nat, total : Nat] /\ snapshots'[s] \in [good : Nat, total : Nat]
        /\ Tally(SLIList[s], snapshots[s], Judged(s), Passed(s), checkFaults)
    BY <1>4, <1>12, Zenon DEF CountInv
  <2>2. IsFiniteSet(Judged(s)) /\ Passed(s) \subseteq Judged(s)
    BY KeysFinite, Zenon DEF Judged, FinishedRuns, Passed
  <2>3. SLIList[s].criteria = {} =>
          /\ SLIList[s].type = "latency" => verdict = "error"
          /\ SLIList[s].type = "availability" => verdict # "error" /\ (good => e.status = "success")
    BY <1>5, PlainVerdict, Zenon
  <2>4. e.status = "success" => ok
    BY <1>3 DEF statusForEvent
  <2> HIDE DEF e
  <2>5. \/ /\ snapshots'[s] = snapshots[s]
           /\ SLIList[s].criteria = {} /\ SLIList[s].type = "availability" => checkFaults' # 0
        \/ /\ ~(SLIList[s].criteria = {} /\ SLIList[s].type = "latency")
           /\ snapshots'[s].total = snapshots[s].total + 1
           /\ snapshots'[s].good = IF good THEN snapshots[s].good + 1 ELSE snapshots[s].good
    BY <1>12, <2>3, Zenon
  <2>6. SLIList[s].criteria = {} /\ SLIList[s].type = "availability" => (good => ok)
    BY <2>3, <2>4, Zenon
  <2>7. Tally(SLIList[s], snapshots'[s], Judged(s) \union {k},
              IF ok THEN Passed(s) \union {k} ELSE Passed(s), checkFaults')
    <3> HIDE DEF good, ok
    <3>1. good \in BOOLEAN /\ ok \in BOOLEAN
      BY Zenon DEF good, ok
    <3> QED
      BY <1>9, <1>11, <2>1, <2>2, <2>5, <2>6, <3>1, OneMore, Zenon
  <2> QED
    BY <1>9, <1>10, <2>7, Zenon
<1>14. ASSUME NEW i \in SLIs
       PROVE  Tally(SLIList[i], snapshots'[i], Judged(i)', Passed(i)', checkFaults')
  <2>1. CASE i = s
    BY <1>13, <2>1, Zenon
  <2>2. CASE i # s
    BY <1>8, <1>11, <2>2, TallyStays, Zenon
  <2> QED
    BY <2>1, <2>2
<1>15. \A j \in Keys : checkRuns'[j] # "none" => j \in FinishedRuns' /\ checkRuns'[j] = statusForEvent(runs'[j])
  BY <1>1, <1>6, Zenon DEF CountInv
<1> QED
  BY <1>1, <1>6, <1>12, <1>14, <1>15, Zenon DEF CountInv

\* The rest of a run's bookkeeping is lost: the SLIs it was not offered never
\* see it, and a fault is on record.
LEMMA LostCounts ==
    ASSUME CountInv, CheckTypes, NEW k \in Keys, RecordingLost(k)
    PROVE  CountInv'
<1>1. /\ recording' = [recording EXCEPT ![k] = NothingToRecord] /\ checkFaults' = checkFaults + 1
      /\ UNCHANGED <<runs, checkRuns, snapshots>>
  BY Zenon DEF RecordingLost
<1>2. checkFaults' # 0
  BY <1>1 DEF CheckTypes
<1>3. /\ recording' = [j \in Keys |-> recording'[j]]
      /\ recording'[k] = NothingToRecord /\ \A j \in Keys : j # k => recording'[j] = recording[j]
  BY <1>1, Zenon DEF CountInv
<1>4. FinishedRuns' = FinishedRuns
  BY <1>1, Zenon DEF FinishedRuns
<1>5. \A j \in Keys : RecordingSound(j)'
  BY <1>1, <1>3, <1>4, Zenon DEF CountInv, RecordingSound
<1>6. ASSUME NEW i \in SLIs
      PROVE  Tally(SLIList[i], snapshots'[i], Judged(i)', Passed(i)', checkFaults')
  <2>1. recording'[k].at # "outcome" /\ recording'[k].at # "sli"
    BY <1>3 DEF NothingToRecord
  <2>2. Judged(i) \subseteq Judged(i)'
    BY <1>3, <1>4, <2>1, Zenon DEF Judged, FinishedRuns
  <2>3. Passed(i) \subseteq Passed(i)'
    BY <1>1, <2>2, Zenon DEF Passed
  <2>4. Judged(i)' \subseteq Keys /\ Passed(i)' \subseteq Keys
    BY <1>4, Zenon DEF Judged, Passed, FinishedRuns
  <2>5. /\ Cardinality(Judged(i)) \in Nat /\ Cardinality(Judged(i)') \in Nat
        /\ Cardinality(Passed(i)) \in Nat /\ Cardinality(Passed(i)') \in Nat
        /\ Cardinality(Judged(i)) <= Cardinality(Judged(i)')
        /\ Cardinality(Passed(i)) <= Cardinality(Passed(i)')
    BY <2>2, <2>3, <2>4, KeysFinite, FS_Subset, FS_CardinalityType, Zenon
  <2>6. /\ snapshots'[i] = snapshots[i] /\ snapshots[i].good \in Nat /\ snapshots[i].total \in Nat
        /\ Tally(SLIList[i], snapshots[i], Judged(i), Passed(i), checkFaults)
    BY <1>1 DEF CountInv
  <2>7. \A a, b, c \in Nat : a <= b /\ b <= c => a <= c
    OBVIOUS
  <2> QED
    BY <1>2, <2>5, <2>6, <2>7, Zenon DEF Tally
<1>7. \A j \in Keys : checkRuns'[j] # "none" => j \in FinishedRuns' /\ checkRuns'[j] = statusForEvent(runs'[j])
  BY <1>1, <1>4, Zenon DEF CountInv
<1> QED
  BY <1>1, <1>3, <1>5, <1>6, <1>7, Zenon DEF CountInv

\* The loop and the admin API leave the recorder and the finished runs alone.
LEMMA OutsideCounts ==
    ASSUME CountInv, CheckTypes, CheckTypes',
           \/ \E in \in CheckInputs : CreateCheck(in)
           \/ PauseCheck \/ ResumeCheck \/ DeleteCheck \/ Tick \/ FiringStep \/ FiringFails
           \/ \E k \in Keys : RunStarts(k)
    PROVE  CountInv'
<1>1. /\ UNCHANGED <<recording, checkRuns, snapshots>>
      /\ checkFaults' = checkFaults \/ checkFaults' = checkFaults + 1
      /\ UNCHANGED runs \/ CreateOccurrence \/ \E k \in Keys : RunStarts(k)
  <2>1. CASE \E in \in CheckInputs : CreateCheck(in)
    BY <2>1, Zenon DEF CreateCheck
  <2>2. CASE PauseCheck \/ ResumeCheck \/ DeleteCheck
    BY <2>2, Zenon DEF PauseCheck, ResumeCheck, DeleteCheck, ChangeStatus
  <2>3. CASE Tick \/ FiringFails
    BY <2>3, Zenon DEF Tick, FiringFails
  <2>4. CASE RunBatch \/ ListOpenRuns \/ repairOpenRuns \/ ApplyCheck
    BY <2>4, Zenon DEF RunBatch, ListOpenRuns, repairOpenRuns, ApplyCheck
  <2>5. CASE CreateOccurrence \/ PublishOccurrence \/ AdvanceCursor
    BY <2>5, Zenon DEF CreateOccurrence, PublishOccurrence, AdvanceCursor
  <2>6. CASE \E k \in Keys : RunStarts(k)
    BY <2>6, Zenon DEF RunStarts
  <2> QED
    BY <2>1, <2>2, <2>3, <2>4, <2>5, <2>6, Zenon DEF FiringStep
<1>2. checkFaults' = 0 => checkFaults = 0
  BY <1>1 DEF CheckTypes
<1>3. ASSUME NEW k \in Keys, runs'[k] # runs[k]
      PROVE  runs[k] \notin {"Succeeded", "Failed"} /\ runs'[k] \notin {"Succeeded", "Failed"}
  <2>1. CASE CreateOccurrence
    <3>1. runs[k] = "none" /\ runs'[k] = "Pending"
      BY <1>3, <2>1, Zenon DEF CreateOccurrence, CheckTypes
    <3> QED
      BY <3>1
  <2>2. CASE \E j \in Keys : RunStarts(j)
    <3>1. runs[k] = "Pending" /\ runs'[k] = "Running"
      BY <1>3, <2>2, Zenon DEF RunStarts, CheckTypes
    <3> QED
      BY <3>1
  <2>3. CASE UNCHANGED runs
    BY <1>3, <2>3, Zenon
  <2> QED
    BY <1>1, <2>1, <2>2, <2>3, Zenon
<1> QED
  BY <1>1, <1>2, <1>3, CountQuiet, Zenon

(* A finished run is counted by an SLI once at most, with its own outcome, and
   no other run is: neither the order in which runs finish and are recorded nor
   a lost write makes a count exceed the runs, and without a failure every
   settled run is in (RecordTerminalPhase, recordSLIEvents). *)
THEOREM OutcomesAlwaysCountedOnce == CheckSpec => []OutcomesCountedOnce
<1>1. CheckInit => CountInv
  <2> SUFFICES ASSUME CheckInit PROVE CountInv
    OBVIOUS
  <2>1. /\ recording = [k \in Keys |-> NothingToRecord] /\ checkRuns = [k \in Keys |-> "none"]
        /\ snapshots = [i \in SLIs |-> [good |-> 0, total |-> 0]] /\ runs = [k \in Keys |-> "none"]
    BY Zenon DEF CheckInit
  <2>2. FinishedRuns = {}
    BY <2>1 DEF FinishedRuns
  <2>3. \A i : Judged(i) = {} /\ Passed(i) = {}
    BY <2>2, Zenon DEF Judged, Passed
  <2>4. Cardinality({}) = 0
    BY FS_EmptySet, Zenon
  <2>5. [good |-> 0, total |-> 0] \in [good : Nat, total : Nat]
    OBVIOUS
  <2>6. ASSUME NEW i \in SLIs
        PROVE  Tally(SLIList[i], snapshots[i], Judged(i), Passed(i), checkFaults)
    <3>1. snapshots[i].good = 0 /\ snapshots[i].total = 0 /\ 0 <= 0
      BY <2>1
    <3> QED
      BY <2>3, <2>4, <3>1, Zenon DEF Tally
  <2> QED
    BY <2>1, <2>5, <2>6, Zenon DEF CountInv, RecordingSound
<1>2. CheckInv /\ CheckInv' /\ CountInv /\ [CheckNext]_checkVars => CountInv'
  <2> SUFFICES ASSUME CheckInv, CheckInv', CountInv, [CheckNext]_checkVars PROVE CountInv'
    OBVIOUS
  <2>1. CheckTypes /\ CheckTypes'
    BY Zenon DEF CheckInv
  <2>2. CASE UNCHANGED checkVars
    BY <2>1, <2>2, CountQuiet, Zenon DEF checkVars
  <2>3. CASE CheckNext
    BY <2>1, <2>3, OutsideCounts, FinishCounts, RowCounts, EventCounts, LostCounts, Zenon
    DEF CheckNext, RecorderStep
  <2> QED
    BY <2>2, <2>3
<1>3. CountInv => OutcomesCountedOnce
  <2> SUFFICES ASSUME CountInv PROVE OutcomesCountedOnce
    OBVIOUS
  <2> DEFINE settled == {k \in FinishedRuns : recording[k] = NothingToRecord}
             succeeded == {k \in FinishedRuns : runs[k] = "Succeeded"}
  <2>1. ASSUME NEW i \in SLIs
        PROVE  /\ snapshots[i].good <= snapshots[i].total
               /\ snapshots[i].total <= Cardinality(FinishedRuns)
               /\ SLIList[i].criteria = {} /\ SLIList[i].type = "latency" => snapshots[i].total = 0
               /\ SLIList[i].criteria = {} /\ SLIList[i].type = "availability" =>
                    /\ snapshots[i].good <= Cardinality(succeeded)
                    /\ checkFaults = 0 => snapshots[i].total >= Cardinality(settled)
    <3>1. FinishedRuns \subseteq Keys /\ succeeded \subseteq Keys /\ Judged(i) \subseteq FinishedRuns
          /\ Passed(i) \subseteq succeeded /\ Judged(i) \subseteq Keys
      BY Zenon DEF FinishedRuns, Judged, Passed
    <3>2. settled \subseteq Judged(i)
      <4>1. NothingToRecord.at # "outcome" /\ NothingToRecord.at # "sli"
        BY DEF NothingToRecord
      <4> QED
        BY <4>1, Zenon DEF Judged
    <3>3. /\ IsFiniteSet(FinishedRuns) /\ IsFiniteSet(succeeded) /\ IsFiniteSet(Judged(i))
      BY <3>1, KeysFinite, Zenon
    <3> HIDE DEF settled, succeeded
    <3>4. /\ Cardinality(Judged(i)) <= Cardinality(FinishedRuns)
          /\ Cardinality(Passed(i)) <= Cardinality(succeeded)
          /\ Cardinality(settled) <= Cardinality(Judged(i))
      BY <3>1, <3>2, <3>3, FS_Subset, Zenon
    <3>5. /\ Cardinality(Judged(i)) \in Nat /\ Cardinality(FinishedRuns) \in Nat
          /\ Cardinality(Passed(i)) \in Nat /\ Cardinality(succeeded) \in Nat
          /\ Cardinality(settled) \in Nat
      BY <3>1, <3>2, <3>3, FS_Subset, FS_CardinalityType, Zenon
    <3>6. /\ snapshots[i].good \in Nat /\ snapshots[i].total \in Nat
          /\ Tally(SLIList[i], snapshots[i], Judged(i), Passed(i), checkFaults)
      BY DEF CountInv
    <3>7. \A a, b, c \in Nat : a <= b /\ b <= c => a <= c
      OBVIOUS
    <3>8. \A a, b, c \in Nat : a = b /\ c <= b => a >= c
      OBVIOUS
    <3> QED
      BY <3>4, <3>5, <3>6, <3>7, <3>8, Zenon DEF Tally
  <2>2. \A k \in Keys : checkRuns[k] # "none" => k \in FinishedRuns /\ checkRuns[k] = statusForEvent(runs[k])
    BY Zenon DEF CountInv
  <2> QED
    BY <2>1, <2>2, Zenon DEF OutcomesCountedOnce, FinishedRuns
<1> QED
  BY <1>1, <1>2, <1>3, CheckInvariance, PTL DEF CheckSpec
=============================================================================
