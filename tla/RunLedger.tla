----------------------------- MODULE RunLedger -----------------------------
(***************************************************************************)
(* The run ledger: the PostgreSQL tables job_run_control_plane (one row    *)
(* per logical run) and job_run_attempts_control_plane (one row per        *)
(* attempt), and the statements of                                         *)
(* internal/core/store/postgres/control_plane_repository.go that write     *)
(* them.  Each statement runs in one transaction that locks the row it     *)
(* changes, so each is one atomic step here; the audit row it also inserts *)
(* is never read by the control plane and is left out.                     *)
(*                                                                         *)
(* A run is identified by its (source_uid, occurrence_key) pair: the       *)
(* UNIQUE constraint on the pair makes the ledger a function of it.        *)
(***************************************************************************)
EXTENDS JobRunLifecycle

CONSTANTS
  Runs,        \* the (source_uid, occurrence_key) pairs
  MaxAttempts  \* max_attempts, the attempt budget stored with a run

ASSUME MaxAttemptsAssumption == MaxAttempts \in Nat \ {0}

VARIABLES
  run,         \* run[r]: phase and attempt counter of the row of r
  attemptRow   \* attemptRow[r][n]: Job UID of attempt n of r, and how it was closed

ledgerVars == <<run, attemptRow>>

\* One number past the budget, so that an attempt over budget can be told.
AttemptNumbers == 1 .. MaxAttempts + 1

NoRow == "NoRow"
NoUID == 0
AbsentRun == [phase |-> NoRow, attempt |-> 0]
AbsentAttempt == [uid |-> NoUID, phase |-> "open"]

RunRow == [phase : Phases \cup {NoRow}, attempt : 0 .. MaxAttempts + 1]

(* The phase of an attempt is history for readers; no statement looks at it.
   What is kept of it is whether the attempt is shown open or how it closed. *)
AttemptPhases == {"open", "RetryWaiting", "Succeeded", "Canceled"}
AttemptPhase(phase) == IF phase \in {"CreatingAttempt", "Running"} THEN "open" ELSE phase
AttemptRow == [uid : Nat, phase : AttemptPhases]

LedgerTypeOK ==
  /\ run \in [Runs -> RunRow]
  /\ attemptRow \in [Runs -> [AttemptNumbers -> AttemptRow]]

LedgerInit ==
  /\ run = [r \in Runs |-> AbsentRun]
  /\ attemptRow = [r \in Runs |-> [n \in AttemptNumbers |-> AbsentAttempt]]

HasRun(r) == run[r].phase # NoRow
HasAttempt(r, n) == attemptRow[r][n].uid # NoUID

\* Broken: the guard on terminal phases is missing.
OpenUnguarded(r) == HasRun(r)

Open(r) == HasRun(r) /\ ~Terminal(run[r].phase)

-----------------------------------------------------------------------------
(* CreateOccurrenceForTenant: ON CONFLICT (source_uid, occurrence_key) DO
   NOTHING, and the stored row is returned either way. *)
OccurrenceRow(r) == IF HasRun(r) THEN run[r] ELSE [phase |-> "Pending", attempt |-> 0]

CreateOccurrence(r) ==
  /\ run' = [run EXCEPT ![r] = OccurrenceRow(r)]
  /\ UNCHANGED attemptRow

(* UpdateRunPhase: the statement matches a row that is not terminal; both the
   phase and the attempt counter are overwritten by what the caller passes. *)
UpdateRunPhase(r, phase, n) ==
  /\ run' = IF Open(r) THEN [run EXCEPT ![r] = [phase |-> phase, attempt |-> n]] ELSE run
  /\ UNCHANGED attemptRow

\* Broken: a write that matched no row is taken for done.
PhaseWriteRefusedIgnored(r, phase, n) == FALSE

\* The call returns an error: the run is finished with something else, or gone.
PhaseWriteRefused(r, phase, n) ==
  ~Open(r) /\ run[r] # [phase |-> phase, attempt |-> n]

\* Broken: every accepted write is reported as a change.
PhaseChangedAlways(r, phase) == TRUE

\* The call reports that this write changed the phase.
PhaseChanged(r, phase) == Open(r) /\ run[r].phase # phase

(* CreateAttemptForTenant: the attempt row and the run's advance commit
   together.  A row of the same number is adopted if it names the same Job. *)
AttemptConflict(r, n, uid) == HasAttempt(r, n) /\ attemptRow[r][n].uid # uid

CreateAttemptAccepted(r, n, uid) == Open(r) /\ ~AttemptConflict(r, n, uid)

\* Broken: ON CONFLICT DO UPDATE.
CreateAttemptOverwrites(r, n, uid, runPhase) ==
  IF Open(r)
  THEN /\ run' = [run EXCEPT ![r] = [phase |-> runPhase, attempt |-> n]]
       /\ attemptRow' = [attemptRow EXCEPT ![r][n] = [uid |-> uid, phase |-> "open"]]
  ELSE UNCHANGED ledgerVars

CreateAttempt(r, n, uid, runPhase) ==
  IF CreateAttemptAccepted(r, n, uid)
  THEN /\ run' = [run EXCEPT ![r] = [phase |-> runPhase, attempt |-> n]]
       /\ attemptRow' = IF HasAttempt(r, n) THEN attemptRow
                        ELSE [attemptRow EXCEPT ![r][n] = [uid |-> uid, phase |-> AttemptPhase("CreatingAttempt")]]
  ELSE UNCHANGED ledgerVars

(* UpdateAttemptPhase: found by Job name, owned by Job UID; only the
   cancellation path writes without a UID. *)
OwnsAttempt(r, n, phase, uid) ==
  /\ HasAttempt(r, n)
  /\ \/ phase = "Canceled" /\ uid = NoUID
     \/ uid # NoUID /\ attemptRow[r][n].uid = uid

\* Broken: matches the attempts of the run instead of the Job's.
UpdateAttemptPhaseOfRun(r, n, phase, uid) ==
  /\ attemptRow' = IF OwnsAttempt(r, n, phase, uid)
                   THEN [attemptRow EXCEPT ![r] =
                           [m \in AttemptNumbers |-> IF HasAttempt(r, m)
                              THEN [@[m] EXCEPT !.phase = AttemptPhase(phase)] ELSE @[m]]]
                   ELSE attemptRow
  /\ UNCHANGED run

UpdateAttemptPhase(r, n, phase, uid) ==
  /\ attemptRow' = IF OwnsAttempt(r, n, phase, uid)
                   THEN [attemptRow EXCEPT ![r][n].phase = AttemptPhase(phase)]
                   ELSE attemptRow
  /\ UNCHANGED run

=============================================================================
