--------------------------- MODULE LeaderElection ---------------------------
(***************************************************************************)
(* The Lease that makes the operator's singleton loops (scheduling,        *)
(* checks, workflows, function sync, retention) run in one replica:        *)
(* internal/platform/election/kubernetes.go as cmd/operator/main.go uses   *)
(* it.  A replica campaigns until it writes itself into the Lease, renews  *)
(* it on a ticker, and gives its leader context up when renewals have      *)
(* failed past a deadline.  Every call to the API server is several steps: *)
(* the Get, the guarded write, and the return to the caller.               *)
(*                                                                         *)
(* Deadlines are kept on the process's monotonic clock ("now"); the renew  *)
(* time in the Lease is the writer's wall clock, "offset" ahead of it.     *)
(***************************************************************************)
EXTENDS Naturals

CONSTANTS Replicas,       \* operator processes, by Lease identity
          LeaseDuration,  \* how long a holder may stay leader without renewing
          RenewDeadline,  \* how long a holder keeps trying to renew
          RetryPeriod,    \* interval between attempts
          MaxLatency,     \* bound: how long one tryAcquire takes
          MaxSkew,        \* bound: how far two wall clocks differ
          MaxTime,        \* bound: length of the behaviours explored
          NoHolder

ASSUME ElectionConstants ==
  /\ {LeaseDuration, RenewDeadline, MaxLatency, MaxSkew, MaxTime} \subseteq Nat
  /\ RetryPeriod \in Nat \ {0}
  /\ NoHolder \notin Replicas

\* withDefaults refuses a configuration in which a holder could outlive its lease.
ASSUME DeadlineBeforeExpiry == RenewDeadline < LeaseDuration

VARIABLES now,
          holder, renewed,            \* the Lease; NoHolder: never created
          offset,                     \* wall clock of a replica minus "now"
          mode,                       \* campaign, leader, stopped
          call,                       \* where the replica's tryAcquire is
          began,                      \* when it started
          deadline, tick              \* renewLoop's deadline; next attempt

lease == <<holder, renewed>>
vars == <<now, holder, renewed, offset, mode, call, began, deadline, tick>>

Modes == {"campaign", "leader", "stopped"}
\* A write is "overtaken" once another write follows the Get it is based on.
Calls == {"none", "begun", "writing", "overtaken", "acquired", "refused", "error"}
Answers == {"acquired", "refused", "error"}

TypeOK ==
  /\ now \in Nat /\ renewed \in Nat
  /\ holder \in Replicas \cup {NoHolder}
  /\ offset \in [Replicas -> 0..MaxSkew]
  /\ mode \in [Replicas -> Modes] /\ call \in [Replicas -> Calls]
  /\ began \in [Replicas -> Nat]
  /\ deadline \in [Replicas -> Nat] /\ tick \in [Replicas -> Nat]

\* Broken: takes the renew time for the expiry.
leaseIsFreeEarly(r) ==
  holder = NoHolder \/ holder = r \/ now + offset[r] > renewed

\* Never held, held by this replica, or expired by this replica's clock.
leaseIsFree(r) ==
  holder = NoHolder \/ holder = r \/ now + offset[r] > renewed + LeaseDuration

Init ==
  /\ now = 0
  /\ holder = NoHolder /\ renewed = 0
  /\ offset \in [Replicas -> 0..MaxSkew]
  /\ mode = [r \in Replicas |-> "campaign"]
  /\ call = [r \in Replicas |-> "none"]
  /\ began = [r \in Replicas |-> 0]
  /\ deadline = [r \in Replicas |-> 0] /\ tick = [r \in Replicas |-> 0]

\* The first tick of a Go ticker that is still to come; one that fired while
\* the loop was busy stays pending, further ones are dropped.
NextTick(r) == tick[r] + RetryPeriod * ((now - tick[r]) \div RetryPeriod + 1)

\* tryAcquire starts: an acquire round, or a renewal when the ticker fires.
Begin(r) ==
  /\ mode[r] \in {"campaign", "leader"} /\ call[r] = "none" /\ now >= tick[r]
  /\ call' = [call EXCEPT ![r] = "begun"]
  /\ began' = [began EXCEPT ![r] = now]
  /\ tick' = [tick EXCEPT ![r] = IF mode[r] = "leader" THEN NextTick(r) ELSE @]
  /\ UNCHANGED <<now, lease, offset, mode, deadline>>

\* The Get returns; a Lease held by another replica that has not expired ends
\* the attempt, a missing or free one is to be written.
Get(r) ==
  /\ call[r] = "begun"
  /\ call' = [call EXCEPT ![r] = IF leaseIsFree(r) THEN "writing" ELSE "refused"]
  /\ UNCHANGED <<now, lease, offset, mode, began, deadline, tick>>

\* The Lease is r's, from the time r read before its Get; the answer may be
\* lost.  Every other write based on an earlier Get has been overtaken.
Taken(r) ==
  /\ holder' = r /\ renewed' = began[r] + offset[r]
  /\ \E answer \in {"acquired", "error"} :
       call' = [q \in Replicas |-> IF q = r THEN answer
                                  ELSE IF call[q] = "writing" THEN "overtaken" ELSE call[q]]
  /\ UNCHANGED <<now, offset, mode, began, deadline, tick>>

\* The API server takes the Create or Update: nothing was written since the Get.
Write(r) == call[r] = "writing" /\ Taken(r)

\* It answers AlreadyExists or Conflict; both wait for another round.
Overtaken(r) ==
  /\ call[r] = "overtaken"
  /\ call' = [call EXCEPT ![r] = "refused"]
  /\ UNCHANGED <<now, lease, offset, mode, began, deadline, tick>>

\* The Get or the write fails before it reaches the API server.
CallFails(r) ==
  /\ call[r] \in {"begun", "writing", "overtaken"}
  /\ call' = [call EXCEPT ![r] = "error"]
  /\ UNCHANGED <<now, lease, offset, mode, began, deadline, tick>>

CallEnds(r) ==
  /\ call' = [call EXCEPT ![r] = "none"] /\ began' = [began EXCEPT ![r] = 0]

\* acquire: a held Lease or a conflict waits a period; any other error ends the
\* campaign, and with it the replica's singleton loops, for good.
ReturnAcquire(r) ==
  /\ mode[r] = "campaign" /\ call[r] \in Answers
  /\ mode' = [mode EXCEPT ![r] = CASE call[r] = "acquired" -> "leader"
                                   [] call[r] = "error"    -> "stopped"
                                   [] OTHER                -> "campaign"]
  /\ deadline' = [deadline EXCEPT ![r] = IF call[r] = "acquired" THEN now + RenewDeadline ELSE @]
  /\ tick' = [tick EXCEPT ![r] = now + RetryPeriod]
  /\ CallEnds(r)
  /\ UNCHANGED <<now, lease, offset>>

\* renewLoop: success moves the deadline, failure past it ends leadership.
ReturnRenew(r) ==
  /\ mode[r] = "leader" /\ call[r] \in Answers
  /\ IF call[r] = "acquired"
     THEN /\ deadline' = [deadline EXCEPT ![r] = now + RenewDeadline]
          /\ UNCHANGED mode
     ELSE /\ mode' = [mode EXCEPT ![r] = IF now > deadline[r] THEN "stopped" ELSE @]
          /\ UNCHANGED deadline
  /\ CallEnds(r)
  /\ UNCHANGED <<now, lease, offset, tick>>

\* The process ends, or its context does; the loops die with it.
Shutdown(r) ==
  /\ mode[r] # "stopped"
  /\ mode' = [mode EXCEPT ![r] = "stopped"]
  /\ CallEnds(r)
  /\ deadline' = [deadline EXCEPT ![r] = 0] /\ tick' = [tick EXCEPT ![r] = 0]
  /\ UNCHANGED <<now, lease, offset>>

\* A new process under the same identity campaigns.
Restart(r) ==
  /\ mode[r] = "stopped"
  /\ mode' = [mode EXCEPT ![r] = "campaign"]
  /\ tick' = [tick EXCEPT ![r] = now]
  /\ UNCHANGED <<now, lease, offset, call, began, deadline>>

\* Time passes, but no call outlasts MaxLatency and no leader misses its ticker.
Pass ==
  /\ now < MaxTime
  /\ \A r \in Replicas :
       /\ call[r] # "none" => now < began[r] + MaxLatency
       /\ mode[r] = "leader" /\ call[r] = "none" => now < tick[r]
  /\ now' = now + 1
  /\ UNCHANGED <<lease, offset, mode, call, began, deadline, tick>>

ReplicaNext(r) ==
  \/ Begin(r) \/ Get(r) \/ Write(r) \/ Overtaken(r) \/ CallFails(r)
  \/ ReturnAcquire(r) \/ ReturnRenew(r) \/ Shutdown(r) \/ Restart(r)

Next == Pass \/ \E r \in Replicas : ReplicaNext(r)

Spec == Init /\ [][Next]_vars

-----------------------------------------------------------------------------
\* The API server answers, and the clocks agree, well enough for the gap
\* between the renew deadline and the lease duration to cover them.
Timely == RenewDeadline + RetryPeriod + 2 * MaxLatency + MaxSkew <= LeaseDuration

(* cmd/operator/main.go:168-169: scheduling and retention are singleton work;
   never do two replicas hold a live leader context, whatever calls fail and
   however campaigns, renewals, restarts and expiry interleave. *)
OneLeader ==
  \A p, q \in Replicas : mode[p] = "leader" /\ mode[q] = "leader" => p = q

(* A replica with a live leader context is the one the Lease names, so nobody
   else finds the Lease free while its loops act. *)
LeaderHoldsLease == \A r \in Replicas : mode[r] = "leader" => holder = r

=============================================================================
