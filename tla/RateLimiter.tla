---------------------------- MODULE RateLimiter ----------------------------
(***************************************************************************)
(* The admin API's rate limiter: one token bucket per endpoint group and   *)
(* tenant, refilled lazily when a request arrives, and a reaper that       *)
(* forgets buckets nobody has used for an interval.                        *)
(*                                                                         *)
(* Time is in ticks, TicksPerSecond to the second.  Tokens are counted in  *)
(* shares of 1 / TicksPerSecond of a token, so that the refill of one tick *)
(* is a whole number and the fractional tokens of the code are kept.  Both *)
(* rps and burst of a group come from the same setting, limits[group].     *)
(***************************************************************************)
EXTENDS Integers

CONSTANTS
    Tenants,         \* the tenants of authenticated callers
    Routes,          \* <<method, path>> of the requests that arrive
    limits,          \* requests per second, and burst, of each group
    TicksPerSecond,  \* resolution of the clock
    ReapInterval,    \* the reaper's period and its idle limit, in ticks
    Horizon          \* bound on the clock

EndpointGroup == {"read", "write", "trigger"}

ASSUME LimiterConstants ==
    /\ limits \in [EndpointGroup -> Nat \ {0}]
    /\ TicksPerSecond \in Nat \ {0}
    /\ ReapInterval \in Nat /\ TicksPerSecond <= ReapInterval
    /\ Horizon \in Nat

VARIABLES
    clock,     \* now
    buckets,   \* buckets[group][tenant]: [tokens, last]; last is -1 when there is none
    reapDue,   \* the reaper's next tick
    admitted   \* admitted[group][tenant][s]: requests let through at s or later

limiterVars == <<clock, buckets, reapDue, admitted>>

NoBucket == [tokens |-> 0, last |-> -1]

Burst(g) == limits[g] * TicksPerSecond

LimiterInit ==
    /\ clock = 0
    /\ buckets = [g \in EndpointGroup |-> [t \in Tenants |-> NoBucket]]
    /\ reapDue = ReapInterval
    /\ admitted = [g \in EndpointGroup |-> [t \in Tenants |-> [s \in 0..Horizon |-> 0]]]

(* Broken: unused allowance accumulates past the burst.                    *)
refilledUncapped(g, b) ==
    IF b.last = -1 THEN Burst(g) ELSE b.tokens + (clock - b.last) * limits[g]

(* The tokens of a bucket when a request looks at it: a new one is full,   *)
(* another gained the refill of the elapsed time, up to the burst.         *)
refilled(g, b) ==
    IF b.last = -1 THEN Burst(g)
    ELSE LET gained == b.tokens + (clock - b.last) * limits[g]
         IN IF gained > Burst(g) THEN Burst(g) ELSE gained

(* One request of a group and tenant, under the mutex.                     *)
tryAllow(g, t) ==
    LET tokens == refilled(g, buckets[g][t])
    IN  IF tokens >= TicksPerSecond
        THEN /\ buckets' = [buckets EXCEPT ![g][t] =
                               [tokens |-> tokens - TicksPerSecond, last |-> clock]]
             /\ admitted' = [admitted EXCEPT ![g][t] =
                               [s \in 0..Horizon |-> IF s <= clock
                                                     THEN admitted[g][t][s] + 1
                                                     ELSE admitted[g][t][s]]]
        ELSE /\ buckets' = [buckets EXCEPT ![g][t] = [tokens |-> tokens, last |-> clock]]
             /\ UNCHANGED admitted

(* Trigger and cancel of a run share the tightest group; reads and the     *)
(* other methods have one each.                                            *)
classifyEndpoint(method, path) ==
    IF path \in {"/healthz", "/openapi.json", "/metrics"} THEN "public"
    ELSE IF path \in {"/jobs/:id/trigger", "/instances/:run_id/cancel"} THEN "trigger"
    ELSE IF method \in {"GET", "HEAD"} THEN "read" ELSE "write"

(* A request passes the middleware; a public path takes no token.          *)
Limit(t, route) ==
    LET group == classifyEndpoint(route[1], route[2])
    IN  /\ group \in EndpointGroup
        /\ tryAllow(group, t)
        /\ UNCHANGED <<clock, reapDue>>

(* Unused since before the cutoff.                                         *)
idle(b) == b.last # -1 /\ b.last < clock - ReapInterval

(* One pass of the reaper, at its tick or later.                           *)
reapLoop ==
    /\ clock >= reapDue
    /\ reapDue' = reapDue + ReapInterval
    /\ buckets' = [g \in EndpointGroup |-> [t \in Tenants |->
                      IF idle(buckets[g][t]) THEN NoBucket ELSE buckets[g][t]]]
    /\ UNCHANGED <<clock, admitted>>

Tick ==
    /\ clock < Horizon
    /\ clock' = clock + 1
    /\ UNCHANGED <<buckets, reapDue, admitted>>

LimiterNext ==
    \/ \E t \in Tenants, route \in Routes : Limit(t, route)
    \/ reapLoop
    \/ Tick

LimiterSpec == LimiterInit /\ [][LimiterNext]_limiterVars

-----------------------------------------------------------------------------
LimiterTypeOK ==
    /\ clock \in 0..Horizon
    /\ buckets \in [EndpointGroup -> [Tenants -> [tokens : Nat, last : Int]]]
    /\ reapDue \in Nat
    /\ admitted \in [EndpointGroup -> [Tenants -> [0..Horizon -> Nat]]]

(* From any instant s on, a tenant got no more requests of a group through *)
(* than the burst and the refill since s pay for, whether its bucket was   *)
(* kept, drained, or forgotten by the reaper and created anew.             *)
RateBounded ==
    \A g \in EndpointGroup, t \in Tenants, s \in 0..Horizon :
        s <= clock =>
            admitted[g][t][s] * TicksPerSecond <= Burst(g) + (clock - s) * limits[g]

(* The bill of one bucket b since s, n requests later: tokens still in the *)
(* bucket are on it, and a forgotten bucket counts as a full one.          *)
Bill(g, b, n, s, now) ==
    /\ b.last # -1 => /\ b.last \in 0..now
                      /\ b.tokens <= Burst(g)
                      /\ s <= b.last => n * TicksPerSecond + b.tokens
                                          <= Burst(g) + (b.last - s) * limits[g]
                      /\ s > b.last => n = 0
    /\ b.last = -1 => /\ s <= now => n * TicksPerSecond <= (now - s) * limits[g]
                      /\ s > now => n = 0

(* What makes RateBounded inductive: every bucket's bill adds up.          *)
BucketBill ==
    \A g \in EndpointGroup, t \in Tenants, s \in 0..Horizon :
        Bill(g, buckets[g][t], admitted[g][t][s], s, clock)
=============================================================================
