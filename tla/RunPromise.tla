----------------------------- MODULE RunPromise -----------------------------
(***************************************************************************)
(* What the run ledger promises to its readers (the admin API, the check   *)
(* and function read models, the workflow walker), without saying how the  *)
(* operator gets there: a run is recorded, attempts are added to it one    *)
(* after the other within its budget, and it ends once, with an outcome    *)
(* its attempts account for.                                               *)
(***************************************************************************)
EXTENDS Naturals

CONSTANTS Runs, MaxAttempts

VARIABLES
  outcome,  \* outcome[r]: none, open, or how the run of occurrence r ended
  tried     \* tried[r]: the numbers of the recorded attempts of r

promiseVars == <<outcome, tried>>

PromiseInit ==
  /\ outcome = [r \in Runs |-> "none"]
  /\ tried = [r \in Runs |-> {}]

Record(r) ==
  /\ outcome[r] = "none"
  /\ outcome' = [outcome EXCEPT ![r] = "open"]
  /\ UNCHANGED tried

\* The next attempt is the first number that was not tried yet.
Try(r) ==
  /\ outcome[r] = "open"
  /\ \E n \in 1 .. MaxAttempts :
       /\ n \notin tried[r]
       /\ \A m \in 1 .. n - 1 : m \in tried[r]
       /\ tried' = [tried EXCEPT ![r] = @ \cup {n}]
  /\ UNCHANGED outcome

\* A success needs an attempt, a failure all of them; a stop needs neither.
Finish(r) ==
  /\ outcome[r] = "open"
  /\ \E o \in {"Succeeded", "Failed", "Canceled"} :
       /\ o = "Succeeded" => tried[r] # {}
       /\ o = "Failed" => \A n \in 1 .. MaxAttempts : n \in tried[r]
       /\ outcome' = [outcome EXCEPT ![r] = o]
  /\ UNCHANGED tried

PromiseNext == \E r \in Runs : Record(r) \/ Try(r) \/ Finish(r)

PromiseSpec == PromiseInit /\ [][PromiseNext]_promiseVars

=============================================================================
