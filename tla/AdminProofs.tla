---------------------------- MODULE AdminProofs ----------------------------
(***************************************************************************)
(* Two parts of the admin API, for every value of their constants.         *)
(*                                                                         *)
(* The rate limiter never lets more through than the burst and the refill  *)
(* pay for: for every set of tenants, every limit, every clock resolution  *)
(* and every reap interval of a second or more.                            *)
(*                                                                         *)
(* Keys, policies and bootstrap: the audit trail tells what happened to    *)
(* the rows, the secret store agrees with them, and a bounded key is       *)
(* judged within its boundary, for any number of overlapping requests and  *)
(* bootstrap processes.                                                    *)
(***************************************************************************)
EXTENDS RateLimiter, AdminAccess, TLAPS

LIInv == LimiterTypeOK /\ BucketBill

(* Multiplication is monotonic.                                            *)
LEMMA TimesMonotonic ==
    ASSUME NEW a \in Nat, NEW b \in Nat, NEW c \in Nat, b <= c
    PROVE  b * a <= c * a
  <1> DEFINE d == c - b
  <1>1. d \in Nat /\ c = b + d
    OBVIOUS
  <1>2. c * a = b * a + d * a
    BY <1>1
  <1>3. d * a \in Nat
    BY <1>1
  <1> QED
    BY <1>2, <1>3

(* The shares of a full bucket are a natural number, a token's worth at    *)
(* least.                                                                  *)
LEMMA BurstType ==
    ASSUME NEW g \in EndpointGroup
    PROVE  /\ limits[g] \in Nat \ {0}
           /\ Burst(g) \in Nat
           /\ TicksPerSecond <= Burst(g)
  <1>1. limits[g] \in Nat \ {0} /\ TicksPerSecond \in Nat
    BY LimiterConstants, Zenon
  <1>2. 1 * TicksPerSecond <= limits[g] * TicksPerSecond
    BY <1>1, TimesMonotonic
  <1> QED
    BY <1>1, <1>2 DEF Burst

(* Every state of the limiter has the type, and every bucket's bill adds   *)
(* up, initially.                                                          *)
LEMMA LimiterInitHolds == LimiterInit => LIInv
  <1> SUFFICES ASSUME LimiterInit PROVE LIInv
    BY Zenon
  <1>1. LimiterTypeOK
    BY LimiterConstants DEF LimiterInit, LimiterTypeOK, NoBucket
  <1>2. BucketBill
    <2> SUFFICES ASSUME NEW g \in EndpointGroup, NEW t \in Tenants, NEW s \in 0..Horizon
                 PROVE  /\ buckets[g][t].last = -1
                        /\ admitted[g][t][s] = 0
                        /\ s <= clock => 0 <= (clock - s) * limits[g]
      BY LimiterConstants DEF BucketBill, Bill
    <2>1. s <= clock => s = 0 /\ clock = 0
      BY LimiterConstants DEF LimiterInit
    <2> QED
      BY <2>1, BurstType DEF LimiterInit, NoBucket
  <1> QED
    BY <1>1, <1>2, Zenon DEF LIInv

(* A bucket that is only looked at later keeps its bill.                   *)
LEMMA BillAges ==
    ASSUME NEW g \in EndpointGroup, NEW b \in [tokens : Nat, last : Int], NEW n \in Nat,
           NEW s \in Nat, NEW now \in Nat, Bill(g, b, n, s, now)
    PROVE  Bill(g, b, n, s, now + 1)
  <1>1. CASE b.last # -1
    BY <1>1 DEF Bill
  <1>2. CASE b.last = -1
    <2>1. limits[g] \in Nat /\ TicksPerSecond \in Nat
      BY LimiterConstants, Zenon
    <2>2. CASE s <= now
      <3>1. (now - s) * limits[g] <= (now + 1 - s) * limits[g]
        BY <2>1, <2>2, TimesMonotonic
      <3>2. (now - s) * limits[g] \in Nat /\ (now + 1 - s) * limits[g] \in Nat
        BY <2>1, <2>2
      <3>3. n * TicksPerSecond \in Nat
        BY <2>1
      <3> QED
        BY <1>2, <2>2, <3>1, <3>2, <3>3 DEF Bill
    <2>3. CASE s = now + 1
      BY <1>2, <2>1, <2>3 DEF Bill
    <2>4. CASE s > now + 1
      BY <1>2, <2>4 DEF Bill
    <2> QED
      BY <2>2, <2>3, <2>4
  <1> QED
    BY <1>1, <1>2, Zenon

(* A bucket idle for a second or more may be forgotten: the refill since   *)
(* its last use fills it.                                                  *)
LEMMA BillForgotten ==
    ASSUME NEW g \in EndpointGroup, NEW b \in [tokens : Nat, last : Int], NEW n \in Nat,
           NEW s \in Nat, NEW now \in Nat, Bill(g, b, n, s, now),
           b.last # -1, b.last < now - ReapInterval
    PROVE  Bill(g, NoBucket, n, s, now)
  <1> DEFINE l == limits[g]
  <1>1. l \in Nat /\ TicksPerSecond \in Nat /\ ReapInterval \in Nat
    BY LimiterConstants, Zenon
  <1>2. b.last \in Nat /\ b.last <= now
    BY DEF Bill
  <1>3. TicksPerSecond <= now - b.last /\ now - b.last \in Nat
    BY <1>1, <1>2, LimiterConstants
  <1>4. Burst(g) = TicksPerSecond * l
    BY <1>1 DEF Burst
  <1>5. TicksPerSecond * l <= (now - b.last) * l
    BY <1>1, <1>3, TimesMonotonic, Zenon
  <1>6. CASE s <= b.last
    <2>1. n * TicksPerSecond + b.tokens <= Burst(g) + (b.last - s) * l
      BY <1>6, Zenon DEF Bill
    <2>2. (now - s) * l = (now - b.last) * l + (b.last - s) * l
      BY <1>1, <1>2, <1>6
    <2>3. /\ n * TicksPerSecond \in Nat /\ (b.last - s) * l \in Nat
          /\ (now - b.last) * l \in Nat /\ Burst(g) \in Nat
      BY <1>1, <1>2, <1>3, <1>6, BurstType
    <2>4. n * TicksPerSecond <= (now - s) * l
      BY <1>4, <1>5, <2>1, <2>2, <2>3
    <2> QED
      BY <1>2, <1>6, <2>4 DEF Bill, NoBucket
  <1>7. CASE s > b.last
    <2>1. n = 0
      BY <1>7, Zenon DEF Bill
    <2>2. s <= now => 0 <= (now - s) * l
      BY <1>1
    <2> QED
      BY <1>1, <2>1, <2>2 DEF Bill, NoBucket
  <1> QED
    BY <1>2, <1>6, <1>7

(* What a request finds in a bucket, added to what was let through before, *)
(* is covered by the burst and the refill until now.                       *)
LEMMA RefillPaid ==
    ASSUME NEW g \in EndpointGroup, NEW b \in [tokens : Nat, last : Int], NEW n \in Nat,
           NEW s \in Nat, clock \in Nat, Bill(g, b, n, s, clock)
    PROVE  /\ refilled(g, b) \in Nat
           /\ refilled(g, b) <= Burst(g)
           /\ s <= clock => n * TicksPerSecond + refilled(g, b)
                              <= Burst(g) + (clock - s) * limits[g]
           /\ s > clock => n = 0
  <1> DEFINE l == limits[g]
             full == Burst(g)
             spent == n * TicksPerSecond
  <1>1. l \in Nat /\ TicksPerSecond \in Nat /\ full \in Nat
    BY LimiterConstants, BurstType, Zenon
  <1>2. spent \in Nat
    BY <1>1
  <1>3. CASE b.last = -1
    <2>1. refilled(g, b) = full
      BY <1>3, Zenon DEF refilled
    <2>2. s <= clock => spent <= (clock - s) * l /\ (clock - s) * l \in Nat
      BY <1>1, <1>3 DEF Bill
    <2>3. s > clock => n = 0
      BY <1>3, Zenon DEF Bill
    <2> HIDE DEF full, spent, l
    <2>4. s <= clock => spent + full <= full + (clock - s) * l
      BY <1>1, <1>2, <2>2
    <2> QED
      BY <1>1, <2>1, <2>3, <2>4 DEF full, spent, l
  <1>4. CASE b.last # -1
    <2> DEFINE gain == (clock - b.last) * l
    <2>1. b.last \in Nat /\ b.last <= clock /\ b.tokens \in Nat
      BY <1>4 DEF Bill
    <2>2. gain \in Nat
      BY <1>1, <2>1
    <2>3. refilled(g, b) = IF b.tokens + gain > full THEN full ELSE b.tokens + gain
      BY <1>4, Zenon DEF refilled
    <2>4. s <= b.last => spent + b.tokens <= full + (b.last - s) * l
      BY <1>4, Zenon DEF Bill
    <2>5. s > b.last => n = 0 /\ spent = 0
      BY <1>1, <1>4 DEF Bill
    <2>6. s <= b.last => (clock - s) * l = gain + (b.last - s) * l /\ (b.last - s) * l \in Nat
      BY <1>1, <2>1
    <2>7. s <= clock => (clock - s) * l \in Nat
      BY <1>1
    <2> HIDE DEF full, spent, gain, l
    <2>8. refilled(g, b) \in Nat /\ refilled(g, b) <= full
      BY <1>1, <2>1, <2>2, <2>3
    <2>9. CASE s <= b.last
      BY <1>1, <1>2, <2>1, <2>2, <2>3, <2>4, <2>6, <2>8, <2>9 DEF full, spent, l
    <2>10. CASE s > b.last
      BY <1>1, <1>2, <2>1, <2>5, <2>7, <2>8, <2>10 DEF full, spent, l
    <2> QED
      BY <2>1, <2>9, <2>10
  <1> QED
    BY <1>3, <1>4, Zenon

(* The bill after a request, let through or refused.                       *)
LEMMA BillCharged ==
    ASSUME NEW g \in EndpointGroup, NEW b \in [tokens : Nat, last : Int], NEW n \in Nat,
           NEW s \in Nat, clock \in Nat, Bill(g, b, n, s, clock)
    PROVE  /\ Bill(g, [tokens |-> refilled(g, b), last |-> clock], n, s, clock)
           /\ refilled(g, b) >= TicksPerSecond =>
                Bill(g, [tokens |-> refilled(g, b) - TicksPerSecond, last |-> clock],
                     IF s <= clock THEN n + 1 ELSE n, s, clock)
  <1> DEFINE tokens == refilled(g, b)
  <1>1. TicksPerSecond \in Nat /\ Burst(g) \in Nat
    BY LimiterConstants, BurstType, Zenon
  <1>2. /\ tokens \in Nat /\ tokens <= Burst(g)
        /\ s <= clock => n * TicksPerSecond + tokens <= Burst(g) + (clock - s) * limits[g]
        /\ s > clock => n = 0
    BY RefillPaid, Zenon
  <1>3. (n + 1) * TicksPerSecond = n * TicksPerSecond + TicksPerSecond /\ n * TicksPerSecond \in Nat
    BY <1>1
  <1> HIDE DEF tokens
  <1>4. Bill(g, [tokens |-> tokens, last |-> clock], n, s, clock)
    BY <1>2 DEF Bill
  <1>5. ASSUME tokens >= TicksPerSecond
        PROVE  Bill(g, [tokens |-> tokens - TicksPerSecond, last |-> clock],
                    IF s <= clock THEN n + 1 ELSE n, s, clock)
    <2>1. tokens - TicksPerSecond <= Burst(g)
      BY <1>1, <1>2
    <2>2. s <= clock => (n + 1) * TicksPerSecond + (tokens - TicksPerSecond)
                          <= Burst(g) + (clock - s) * limits[g]
      BY <1>1, <1>2, <1>3
    <2> QED
      BY <1>2, <2>1, <2>2 DEF Bill
  <1> QED
    BY <1>4, <1>5, Zenon DEF tokens

(* A request keeps the types and the bills.                                *)
LEMMA TryAllowPreserves ==
    ASSUME LIInv, NEW g \in EndpointGroup, NEW t \in Tenants, tryAllow(g, t),
           UNCHANGED <<clock, reapDue>>
    PROVE  LIInv'
  <1> DEFINE b == buckets[g][t]
             tokens == refilled(g, b)
  <1>1. /\ b \in [tokens : Nat, last : Int] /\ clock \in Nat
        /\ \A s \in 0..Horizon : admitted[g][t][s] \in Nat /\ s \in Nat
        /\ TicksPerSecond \in Nat /\ Horizon \in Nat
    BY LimiterConstants DEF LIInv, LimiterTypeOK
  <1>2. \A s \in 0..Horizon : Bill(g, b, admitted[g][t][s], s, clock)
    BY Zenon DEF LIInv, BucketBill
  <1>3. tokens \in Nat
    BY <1>1, <1>2, RefillPaid, 0 \in 0..Horizon
  <1>4. ASSUME NEW h \in EndpointGroup, NEW u \in Tenants, NEW s \in 0..Horizon,
               h # g \/ u # t
        PROVE  buckets'[h][u] = buckets[h][u] /\ admitted'[h][u] = admitted[h][u]
    BY <1>4 DEF tryAllow, LIInv, LimiterTypeOK
  <1>5. CASE tokens >= TicksPerSecond
    <2> DEFINE charged == [tokens |-> tokens - TicksPerSecond, last |-> clock]
               counted == [s \in 0..Horizon |-> IF s <= clock THEN admitted[g][t][s] + 1
                                                              ELSE admitted[g][t][s]]
    <2>1. buckets' = [buckets EXCEPT ![g][t] = charged] /\ admitted' = [admitted EXCEPT ![g][t] = counted]
      BY <1>5, Zenon DEF tryAllow
    <2>2. charged \in [tokens : Nat, last : Int] /\ counted \in [0..Horizon -> Nat]
      BY <1>1, <1>3, <1>5
    <2>3. \A s \in 0..Horizon : Bill(g, charged, counted[s], s, clock)
      BY <1>1, <1>2, <1>5, BillCharged, Zenon
    <2> HIDE DEF charged, counted
    <2>4. LimiterTypeOK'
      BY <2>1, <2>2, Zenon DEF LIInv, LimiterTypeOK
    <2>5. buckets'[g][t] = charged /\ admitted'[g][t] = counted
      BY <2>1, Zenon DEF LIInv, LimiterTypeOK
    <2>6. BucketBill'
      BY <1>4, <2>3, <2>5 DEF LIInv, BucketBill, Bill, Burst
    <2> QED
      BY <2>4, <2>6, Zenon DEF LIInv
  <1>6. CASE ~(tokens >= TicksPerSecond)
    <2> DEFINE seen == [tokens |-> tokens, last |-> clock]
    <2>1. buckets' = [buckets EXCEPT ![g][t] = seen] /\ admitted' = admitted
      BY <1>6, Zenon DEF tryAllow
    <2>2. seen \in [tokens : Nat, last : Int]
      BY <1>1, <1>3
    <2>3. \A s \in 0..Horizon : Bill(g, seen, admitted[g][t][s], s, clock)
      BY <1>1, <1>2, BillCharged, Zenon
    <2> HIDE DEF seen
    <2>4. LimiterTypeOK'
      BY <2>1, <2>2, Zenon DEF LIInv, LimiterTypeOK
    <2>5. buckets'[g][t] = seen
      BY <2>1, Zenon DEF LIInv, LimiterTypeOK
    <2>6. BucketBill'
      BY <1>4, <2>1, <2>3, <2>5 DEF LIInv, BucketBill, Bill, Burst
    <2> QED
      BY <2>4, <2>6 DEF LIInv
  <1> QED
    BY <1>5, <1>6, Zenon

(* Every step keeps the types and the bills.                               *)
LEMMA LimiterStep == LIInv /\ [LimiterNext]_limiterVars => LIInv'
  <1> SUFFICES ASSUME LIInv, [LimiterNext]_limiterVars PROVE LIInv'
    BY Zenon
  <1>1. CASE UNCHANGED limiterVars
    BY <1>1 DEF LIInv, LimiterTypeOK, BucketBill, Bill, Burst, limiterVars
  <1>2. ASSUME NEW t \in Tenants, NEW route \in Routes, Limit(t, route)
        PROVE  LIInv'
    <2> DEFINE g == classifyEndpoint(route[1], route[2])
    <2>1. g \in EndpointGroup /\ tryAllow(g, t) /\ UNCHANGED <<clock, reapDue>>
      BY <1>2, Zenon DEF Limit
    <2> QED
      BY <2>1, TryAllowPreserves, Zenon
  <1>3. CASE reapLoop
    <2>1. LimiterTypeOK'
      BY <1>3, LimiterConstants DEF reapLoop, LIInv, LimiterTypeOK, NoBucket
    <2>2. ASSUME NEW g \in EndpointGroup, NEW t \in Tenants, NEW s \in 0..Horizon
          PROVE  Bill(g, buckets'[g][t], admitted[g][t][s], s, clock)
      <3>1. /\ buckets[g][t] \in [tokens : Nat, last : Int] /\ admitted[g][t][s] \in Nat
            /\ clock \in Nat /\ Bill(g, buckets[g][t], admitted[g][t][s], s, clock)
        BY LimiterConstants DEF LIInv, LimiterTypeOK, BucketBill
      <3>2. CASE idle(buckets[g][t])
        <4>1. buckets'[g][t] = NoBucket
          BY <1>3, <3>2, Zenon DEF reapLoop
        <4> QED
          BY <3>1, <3>2, <4>1, BillForgotten DEF idle
      <3>3. CASE ~idle(buckets[g][t])
        <4>1. buckets'[g][t] = buckets[g][t]
          BY <1>3, <3>3, Zenon DEF reapLoop
        <4> QED
          BY <3>1, <4>1, Zenon
      <3> QED
        BY <3>2, <3>3, Zenon
    <2>3. BucketBill'
      BY <1>3, <2>2 DEF BucketBill, reapLoop, Bill, Burst
    <2> QED
      BY <2>1, <2>3, Zenon DEF LIInv
  <1>4. CASE Tick
    <2>1. LimiterTypeOK'
      BY <1>4, LimiterConstants DEF Tick, LIInv, LimiterTypeOK
    <2>2. ASSUME NEW g \in EndpointGroup, NEW t \in Tenants, NEW s \in 0..Horizon
          PROVE  Bill(g, buckets[g][t], admitted[g][t][s], s, clock + 1)
      BY BillAges, LimiterConstants DEF LIInv, LimiterTypeOK, BucketBill
    <2>3. BucketBill'
      BY <1>4, <2>2 DEF BucketBill, Tick, Bill, Burst
    <2> QED
      BY <2>1, <2>3 DEF LIInv
  <1> QED
    BY <1>1, <1>2, <1>3, <1>4, Zenon DEF LimiterNext

(* From any instant on, no tenant gets more requests of a group past the   *)
(* middleware than the burst and the refill since that instant pay for.    *)
THEOREM RateIsBounded == LimiterSpec => []RateBounded
  <1>1. LIInv => RateBounded
    <2> SUFFICES ASSUME LIInv, NEW g \in EndpointGroup, NEW t \in Tenants, NEW s \in 0..Horizon,
                        s <= clock
                 PROVE  admitted[g][t][s] * TicksPerSecond <= Burst(g) + (clock - s) * limits[g]
      BY Zenon DEF RateBounded
    <2>1. /\ buckets[g][t] \in [tokens : Nat, last : Int] /\ admitted[g][t][s] \in Nat
          /\ clock \in Nat /\ Bill(g, buckets[g][t], admitted[g][t][s], s, clock)
      BY LimiterConstants DEF LIInv, LimiterTypeOK, BucketBill
    <2>2. /\ refilled(g, buckets[g][t]) \in Nat
          /\ admitted[g][t][s] * TicksPerSecond + refilled(g, buckets[g][t])
                <= Burst(g) + (clock - s) * limits[g]
      BY <2>1, RefillPaid, LimiterConstants
    <2>3. admitted[g][t][s] * TicksPerSecond \in Nat /\ (clock - s) * limits[g] \in Nat
          /\ Burst(g) \in Nat
      BY <2>1, BurstType, LimiterConstants
    <2> QED
      BY <2>2, <2>3
  <1> QED
    BY <1>1, LimiterInitHolds, LimiterStep, PTL DEF LimiterSpec

-----------------------------------------------------------------------------
(* Keys, policies and the bootstrap.                                       *)

KeyFields == {"id", "prefix", "secret", "group", "boundary", "bound", "revoked"}

(* Keys are numbered, apart, and the first of them is the bootstrap key,    *)
(* without which nobody makes a request.                                    *)
KeysOk ==
    /\ \A k \in keys : KeyFields \subseteq DOMAIN k /\ k.id \in Nat
    /\ \A j, k \in keys : j.id = k.id => j = k
    /\ keys # {} => \E k \in keys : k.id = 1
    /\ DOMAIN call = Workers
    /\ \A w \in Workers : call[w] # Idle => keys # {}

(* Policies are numbered, the tenant's own behind the presets.              *)
PoliciesOk ==
    /\ minted \in Nat /\ LastPreset \in Nat /\ LastPreset <= minted
    /\ \A p \in policies : /\ p.id \in 1..minted
                           /\ p.owner = "tenant" <=> p.id > LastPreset
    /\ \A p, q \in policies : p.id = q.id => p = q

(* The foreign key of a boundary column.                                    *)
BoundariesStand ==
    \A k \in keys : k.boundary # 0 => \E p \in policies : p.id = k.boundary

(* Who is about to write the secret made the row.                           *)
WriterMadeKey ==
    /\ DOMAIN boot = Starters
    /\ \A s \in Starters : boot[s] = "writing" =>
           \E k \in keys : k.id = 1 /\ k.secret = configured[s].secret

AccessInv ==
    /\ KeysOk /\ PoliciesOk /\ BoundariesStand /\ WriterMadeKey
    /\ AuditTrailExact /\ SecretMatchesStoredKey

-----------------------------------------------------------------------------
(* The last preset is one (the migrations insert finitely many).            *)
LEMMA LastPresetIsLast ==
    /\ LastPreset \in Nat \ {0}
    /\ \A p \in Presets : p.id <= LastPreset
  <1>1. PICK last \in Presets : \A p \in Presets : p.id <= last.id
    BY AccessConstants, Zenon
  <1>2. \E id \in {p.id : p \in Presets} : \A p \in Presets : p.id <= id
    BY <1>1, Zenon
  <1>3. /\ LastPreset \in {p.id : p \in Presets}
        /\ \A p \in Presets : p.id <= LastPreset
    BY <1>2, Zenon DEF LastPreset
  <1> QED
    BY <1>3, AccessConstants, Zenon

(* All there is to tell of the rows.                                        *)
Events == keyEvents \union policyEvents \union groupEvents

(* The trail tells of one event more when a row it does not have yet is     *)
(* written with the change (insertAuditEvent).                              *)
LEMMA TrailFollows ==
    ASSUME AuditTrailExact, NEW type, NEW event, NEW id, insertAuditEvent(type, event, id),
           <<type, event, id>> \notin Events, Events' = Events \union {<<type, event, id>>}
    PROVE  AuditTrailExact'
  <1> DEFINE new == <<type, event, id>>
  <1> HIDE DEF new
  <1>1. trail = [row \in Events |-> 1]
    BY Zenon DEF AuditTrailExact, Events
  <1>2. trail' = [r \in Events \union {new} |->
                    IF r \notin Events THEN 1 ELSE IF r = new THEN trail[r] + 1 ELSE trail[r]]
    BY <1>1, Zenon DEF insertAuditEvent, new
  <1>3. new \notin Events /\ Events' = Events \union {new}
    BY Zenon DEF new
  <1>4. trail' = [row \in Events' |-> 1]
    BY <1>1, <1>2, <1>3, Zenon
  <1> QED
    BY <1>4, Zenon DEF AuditTrailExact, Events

(* The initial state.                                                       *)
LEMMA AccessInitHolds == AccessInit => AccessInv
  <1> SUFFICES ASSUME AccessInit PROVE AccessInv
    OBVIOUS
  <1> USE DEF AccessInit
  <1>1. KeysOk
    BY Zenon DEF KeysOk
  <1>2. PoliciesOk
    <2>1. \A p \in Presets : p.id \in 1..LastPreset /\ p.owner = "platform"
      BY LastPresetIsLast, AccessConstants
    <2> QED
      BY <2>1, LastPresetIsLast, AccessConstants DEF PoliciesOk
  <1>3. BoundariesStand /\ WriterMadeKey
    BY Zenon DEF BoundariesStand, WriterMadeKey
  <1>4. SecretMatchesStoredKey
    BY Zenon DEF SecretMatchesStoredKey
  <1>5. AuditTrailExact
    <2>1. (LastPreset + 1)..minted = {}
      BY LastPresetIsLast
    <2>2. keyEvents = {} /\ policyEvents = {} /\ groupEvents = {}
      BY <2>1, Zenon DEF keyEvents, policyEvents, groupEvents
    <2> QED
      BY <2>2, Zenon DEF AuditTrailExact
  <1> QED
    BY <1>1, <1>2, <1>3, <1>4, <1>5, Zenon DEF AccessInv

-----------------------------------------------------------------------------
(* A request that only reads: authentication, the documents, and the checks *)
(* before a key is made.  A new tenant is no business of the other tables.  *)
Reads(w) ==
    \/ resolveTenant(w) \/ loadDocuments(w) \/ checkGroup(w) \/ resolvePolicies(w)
    \/ callerBoundary(w) \/ resolveBoundary(w) \/ createTenant(w)

(* Such a request changes its own state only (the Auth middleware, and the  *)
(* reads of the create command).                                            *)
LEMMA ReadsKeepRows ==
    ASSUME NEW w \in Workers, KeysOk, Reads(w)
    PROVE  /\ UNCHANGED <<keys, policies, minted, groups, trail, boot, secret>>
           /\ keys # {}
           /\ \E x : call' = [call EXCEPT ![w] = x]
  <1> USE DEF rowVars, bootVars
  <1>1. ASSUME call[w] # Idle PROVE keys # {}
    BY <1>1, Zenon DEF KeysOk
  <1>2. ASSUME NEW pc, call[w].pc = pc, pc # "idle" PROVE keys # {}
    BY <1>1, <1>2 DEF Idle
  <1>3. CASE resolveTenant(w)
    <2>1. \E c \in Calls[w] : \E k \in validateAPIKey(c.as) : TRUE
      BY <1>3, Zenon DEF resolveTenant
    <2>2. keys # {}
      BY <2>1, Zenon DEF validateAPIKey
    <2> QED
      BY <1>3, <2>2, Zenon DEF resolveTenant
  <1>4. CASE loadDocuments(w)
    <2>1. keys # {}
      BY <1>4, Zenon DEF loadDocuments
    <2> QED
      BY <1>4, <2>1, Zenon DEF loadDocuments, GoTo, End
  <1>5. CASE checkGroup(w)
    BY <1>2, <1>5, Zenon DEF checkGroup, GoTo, End
  <1>6. CASE resolvePolicies(w)
    BY <1>2, <1>6, Zenon DEF resolvePolicies, GoTo, End
  <1>7. CASE callerBoundary(w)
    BY <1>2, <1>7, Zenon DEF callerBoundary, GoTo, End
  <1>8. CASE resolveBoundary(w)
    BY <1>2, <1>8, Zenon DEF resolveBoundary, GoTo, End
  <1>9. CASE createTenant(w)
    BY <1>2, <1>9, Zenon DEF createTenant, End
  <1> QED
    BY <1>3, <1>4, <1>5, <1>6, <1>7, <1>8, <1>9, Zenon DEF Reads

(* A request that leaves the rows alone keeps the invariant.                *)
LEMMA RowsKept ==
    ASSUME AccessInv, NEW w \in Workers, NEW x, keys # {}, call' = [call EXCEPT ![w] = x],
           UNCHANGED <<keys, policies, minted, groups, trail, boot, secret>>
    PROVE  AccessInv'
  <1>1. KeysOk'
    BY Zenon DEF AccessInv, KeysOk
  <1>2. PoliciesOk' /\ BoundariesStand'
    BY Zenon DEF AccessInv, PoliciesOk, BoundariesStand
  <1>3. WriterMadeKey' /\ SecretMatchesStoredKey'
    BY Zenon DEF AccessInv, WriterMadeKey, SecretMatchesStoredKey
  <1>4. AuditTrailExact'
    BY Zenon DEF AccessInv, AuditTrailExact, keyEvents, policyEvents, groupEvents
  <1> QED
    BY <1>1, <1>2, <1>3, <1>4, Zenon DEF AccessInv

(* A reading step keeps the invariant.                                      *)
LEMMA ReadsPreserve ==
    ASSUME AccessInv, NEW w \in Workers, Reads(w)
    PROVE  AccessInv'
  <1>1. KeysOk
    BY Zenon DEF AccessInv
  <1> QED
    BY <1>1, ReadsKeepRows, RowsKept, Zenon

(* Somebody at work has authenticated, so the bootstrap key is there.       *)
LEMMA AtWork ==
    ASSUME KeysOk, NEW w \in Workers, NEW pc, call[w].pc = pc, pc # "idle"
    PROVE  keys # {} /\ \E k \in keys : k.id = 1
  <1>1. call[w] # Idle
    BY DEF Idle
  <1> QED
    BY <1>1, Zenon DEF KeysOk

(* A new key has a number of its own, and a boundary that exists.           *)
LEMMA CreateKeyPreserves ==
    ASSUME AccessInv, NEW w \in Workers, createKey(w)
    PROVE  AccessInv'
  <1>1. /\ call[w].pc = "insert" /\ call' = [call EXCEPT ![w] = Idle]
        /\ UNCHANGED <<policies, minted, groups, boot, secret>>
    BY Zenon DEF createKey, End, bootVars
  <1>2. keys # {} /\ \E k \in keys : k.id = 1
    BY <1>1, AtWork, Zenon DEF AccessInv
  <1>3. CASE UNCHANGED <<keys, trail>>
    BY <1>1, <1>2, <1>3, RowsKept, Zenon
  <1>4. CASE ~UNCHANGED <<keys, trail>>
    <2>1. PICK id, group, list, boundary :
            id \in nextKey /\ insertKey(id, group, list, boundary)
      BY Zenon DEF createKey
    <2>2. /\ id \in Nat /\ id \notin {k.id : k \in keys}
      BY <2>1 DEF nextKey
    <2>3. id # 1
      BY <1>2, <2>2, Zenon
    <2>4. PICK new :
            /\ keys' = keys \union {new} /\ KeyFields \subseteq DOMAIN new /\ new.id = id
            /\ new.boundary = boundary /\ ~new.revoked
            /\ boundary # 0 => \E p \in policies : p.id = boundary
      <3> DEFINE new == [id |-> id, prefix |-> "minted", secret |-> "minted", group |-> group,
                         boundary |-> boundary, bound |-> Range(list), revoked |-> FALSE]
      <3>1. /\ keys' = keys \union {new}
            /\ {boundary} \ {0} \subseteq {p.id : p \in policies}
        BY <1>4, <2>1, Zenon DEF insertKey
      <3>2. /\ KeyFields \subseteq DOMAIN new /\ new.id = id
            /\ new.boundary = boundary /\ ~new.revoked
        BY Zenon DEF KeyFields
      <3> QED
        BY <3>1, <3>2, Zenon
    <2>5. insertAuditEvent("api_key", "create", id)
      BY <1>4, <2>1, Zenon DEF insertKey
    <2>6. KeysOk'
      BY <1>1, <1>2, <2>2, <2>4 DEF AccessInv, KeysOk
    <2>7. PoliciesOk' /\ BoundariesStand'
      BY <1>1, <2>4, Zenon DEF AccessInv, PoliciesOk, BoundariesStand
    <2>8. WriterMadeKey' /\ SecretMatchesStoredKey'
      BY <1>1, <2>4, Zenon DEF AccessInv, WriterMadeKey, SecretMatchesStoredKey
    <2>9. AuditTrailExact'
      <3> DEFINE row == <<"api_key", "create", id>>
      <3>1. keyEvents' = keyEvents \union {row}
        BY <2>3, <2>4, Zenon DEF keyEvents
      <3>2. policyEvents' = policyEvents /\ groupEvents' = groupEvents
        BY <1>1, Zenon DEF policyEvents, groupEvents
      <3>3. row \notin keyEvents
        BY <2>2, Zenon DEF keyEvents
      <3>4. row \notin policyEvents \union groupEvents
        BY Zenon DEF policyEvents, groupEvents
      <3> QED
        BY <2>5, <3>1, <3>2, <3>3, <3>4, TrailFollows, Zenon DEF AccessInv, Events
    <2> QED
      BY <2>6, <2>7, <2>8, <2>9, Zenon DEF AccessInv
  <1> QED
    BY <1>3, <1>4, Zenon

(* Rows that keep their number and secret keep what bootstrap relies on.    *)
LEMMA SecretsKept ==
    ASSUME WriterMadeKey, SecretMatchesStoredKey, UNCHANGED <<boot, secret>>,
           \A k \in keys : \E j \in keys' : j.id = k.id /\ j.secret = k.secret
    PROVE  WriterMadeKey' /\ SecretMatchesStoredKey'
  <1>1. ASSUME NEW text, \E k \in keys : k.id = 1 /\ k.secret = text
        PROVE  \E k \in keys' : k.id = 1 /\ k.secret = text
    BY <1>1, Zenon
  <1> QED
    BY <1>1, Zenon DEF WriterMadeKey, SecretMatchesStoredKey

(* Revoking a key that is not revoked yet: the row keeps its number, its    *)
(* secret and its boundary.                                                 *)
LEMMA RevokePreserves ==
    ASSUME AccessInv, NEW w \in Workers, RevokeAsAdmin(w)
    PROVE  AccessInv'
  <1> DEFINE id == call[w].args.id
  <1>1. /\ call[w].pc = "RevokeAPIKey" /\ call' = [call EXCEPT ![w] = Idle]
        /\ UNCHANGED <<policies, minted, groups, boot, secret>>
        /\ RevokeCrossTenant(id)
    BY Zenon DEF RevokeAsAdmin, End, bootVars
  <1>2. keys # {} /\ \E k \in keys : k.id = 1
    BY <1>1, AtWork, Zenon DEF AccessInv
  <1> HIDE DEF id
  <1>3. CASE unrevoked(id) = {}
    BY <1>1, <1>2, <1>3, RowsKept, Zenon DEF RevokeCrossTenant
  <1>4. CASE unrevoked(id) # {}
    <2> DEFINE after(k) == IF k \in unrevoked(id) THEN [k EXCEPT !.revoked = TRUE] ELSE k
    <2>1. keys' = {after(k) : k \in keys} /\ insertAuditEvent("api_key", "revoke", id)
      BY <1>1, <1>4, Zenon DEF RevokeCrossTenant
    <2>2. PICK old \in keys : old.id = id /\ ~old.revoked
      BY <1>4, Zenon DEF unrevoked
    <2>3. \A k \in keys : /\ KeyFields \subseteq DOMAIN after(k)
                          /\ after(k).id = k.id /\ after(k).secret = k.secret
                          /\ after(k).boundary = k.boundary
                          /\ after(k).revoked <=> (k.revoked \/ k.id = id)
      BY Zenon DEF AccessInv, KeysOk, KeyFields, unrevoked
    <2> HIDE DEF after
    <2>4. KeysOk'
      BY <1>1, <1>2, <2>1, <2>3 DEF AccessInv, KeysOk
    <2>5. PoliciesOk' /\ BoundariesStand'
      BY <1>1, <2>1, <2>3 DEF AccessInv, PoliciesOk, BoundariesStand
    <2>6. WriterMadeKey' /\ SecretMatchesStoredKey'
      <3>1. \A k \in keys : \E j \in keys' : j.id = k.id /\ j.secret = k.secret
        BY <2>1, <2>3, Zenon
      <3> QED
        BY <1>1, <3>1, SecretsKept, Zenon DEF AccessInv
    <2>7. AuditTrailExact'
      <3> DEFINE row == <<"api_key", "revoke", id>>
      <3>1. keyEvents' = keyEvents \union {row}
        BY <2>1, <2>2, <2>3 DEF keyEvents
      <3>2. policyEvents' = policyEvents /\ groupEvents' = groupEvents
        BY <1>1, Zenon DEF policyEvents, groupEvents
      <3>3. row \notin keyEvents
        BY <2>2, Zenon DEF keyEvents, AccessInv, KeysOk
      <3>4. row \notin policyEvents \union groupEvents
        BY Zenon DEF policyEvents, groupEvents
      <3> QED
        BY <2>1, <3>1, <3>2, <3>3, <3>4, TrailFollows, Zenon DEF AccessInv, Events
    <2> QED
      BY <2>4, <2>5, <2>6, <2>7, Zenon DEF AccessInv
  <1> QED
    BY <1>3, <1>4, Zenon

(* A new policy has the next number.                                        *)
LEMMA CreatePolicyPreserves ==
    ASSUME AccessInv, NEW w \in Workers, createPolicy(w)
    PROVE  AccessInv'
  <1>1. /\ call[w].pc = "CreatePolicy" /\ call' = [call EXCEPT ![w] = Idle]
        /\ UNCHANGED <<keys, groups, boot, secret>>
        /\ \/ UNCHANGED <<policies, minted, trail>>
           \/ insertPolicy(call[w].args.name, call[w].args.doc)
    BY Zenon DEF createPolicy, End, bootVars
  <1>2. keys # {}
    BY <1>1, AtWork, Zenon DEF AccessInv
  <1>3. CASE UNCHANGED <<policies, minted, trail>>
    BY <1>1, <1>2, <1>3, RowsKept, Zenon
  <1>4. CASE ~UNCHANGED <<policies, minted, trail>>
    <2>1. PICK new :
            /\ policies' = policies \union {new} /\ minted' = minted + 1
            /\ new.id = minted + 1 /\ new.owner = "tenant"
            /\ insertAuditEvent("policy", "create", minted + 1)
      BY <1>1, <1>4, Zenon DEF insertPolicy
    <2>2. KeysOk'
      BY <1>1, <1>2, Zenon DEF AccessInv, KeysOk
    <2>3. PoliciesOk'
      BY <2>1 DEF AccessInv, PoliciesOk
    <2>4. BoundariesStand'
      BY <1>1, <2>1, Zenon DEF AccessInv, BoundariesStand
    <2>5. WriterMadeKey' /\ SecretMatchesStoredKey'
      BY <1>1, Zenon DEF AccessInv, WriterMadeKey, SecretMatchesStoredKey
    <2>6. AuditTrailExact'
      <3> DEFINE row == <<"policy", "create", minted + 1>>
                 made == (LastPreset + 1)..minted
                 gone == made \ {p.id : p \in policies}
      <3>1. made' = made \union {minted + 1} /\ minted + 1 \notin made
        BY <2>1 DEF AccessInv, PoliciesOk
      <3>2. gone' = gone
        BY <2>1, <3>1, Zenon
      <3>3. policyEvents' = policyEvents \union {row} /\ row \notin policyEvents
        <4> HIDE DEF made, gone
        <4>1. policyEvents = {<<"policy", "create", i>> : i \in made}
                               \union {<<"policy", "delete", i>> : i \in gone}
          BY Zenon DEF policyEvents, made, gone
        <4>2. policyEvents' = {<<"policy", "create", i>> : i \in made'}
                               \union {<<"policy", "delete", i>> : i \in gone'}
          BY Zenon DEF policyEvents, made, gone
        <4> QED
          BY <3>1, <3>2, <4>1, <4>2, Zenon
      <3>4. keyEvents' = keyEvents /\ groupEvents' = groupEvents
        BY <1>1, Zenon DEF keyEvents, groupEvents
      <3>5. row \notin keyEvents \union groupEvents
        BY Zenon DEF keyEvents, groupEvents
      <3> QED
        BY <2>1, <3>3, <3>4, <3>5, TrailFollows, Zenon DEF AccessInv, Events
    <2> QED
      BY <2>2, <2>3, <2>4, <2>5, <2>6, Zenon DEF AccessInv
  <1> QED
    BY <1>3, <1>4, Zenon

(* A policy goes only when it is the tenant's own and no key's boundary.    *)
LEMMA DeletePolicyPreserves ==
    ASSUME AccessInv, NEW w \in Workers, deletePolicy(w)
    PROVE  AccessInv'
  <1> DEFINE id == call[w].args.id
  <1>1. /\ call[w].pc = "DeletePolicy" /\ call' = [call EXCEPT ![w] = Idle]
        /\ UNCHANGED <<minted, groups, boot, secret>>
        /\ removePolicy(id)
    BY Zenon DEF deletePolicy, End, bootVars
  <1>2. keys # {}
    BY <1>1, AtWork, Zenon DEF AccessInv
  <1> HIDE DEF id
  <1>3. CASE UNCHANGED <<keys, policies, trail>>
    BY <1>1, <1>2, <1>3, RowsKept, Zenon
  <1>4. CASE ~UNCHANGED <<keys, policies, trail>>
    <2> DEFINE owned == {p \in storedPolicy(id) : p.owner = "tenant"}
               after(k) == [k EXCEPT !.bound = @ \ {id}]
    <2>1. /\ owned # {} /\ ~boundaryRefers(id)
          /\ policies' = policies \ owned /\ keys' = {after(k) : k \in keys}
          /\ insertAuditEvent("policy", "delete", id)
      BY <1>1, <1>4, Zenon DEF removePolicy
    <2>2. /\ id \in (LastPreset + 1)..minted /\ id \in {p.id : p \in policies}
          /\ policies' = {p \in policies : p.id # id}
      BY <2>1 DEF AccessInv, PoliciesOk, storedPolicy
    <2>3. \A k \in keys : /\ KeyFields \subseteq DOMAIN after(k)
                          /\ after(k).id = k.id /\ after(k).secret = k.secret
                          /\ after(k).boundary = k.boundary /\ after(k).revoked = k.revoked
      BY Zenon DEF AccessInv, KeysOk, KeyFields
    <2> HIDE DEF after, owned
    <2>4. KeysOk'
      BY <1>1, <1>2, <2>1, <2>3 DEF AccessInv, KeysOk
    <2>5. PoliciesOk'
      BY <1>1, <2>2, Zenon DEF AccessInv, PoliciesOk
    <2>6. BoundariesStand'
      BY <2>1, <2>2, <2>3 DEF AccessInv, BoundariesStand, boundaryRefers
    <2>7. WriterMadeKey' /\ SecretMatchesStoredKey'
      <3>1. \A k \in keys : \E j \in keys' : j.id = k.id /\ j.secret = k.secret
        BY <2>1, <2>3, Zenon
      <3> QED
        BY <1>1, <3>1, SecretsKept, Zenon DEF AccessInv
    <2>8. AuditTrailExact'
      <3> DEFINE row == <<"policy", "delete", id>>
                 made == (LastPreset + 1)..minted
                 gone == made \ {p.id : p \in policies}
      <3>1. made' = made
        BY <1>1, Zenon
      <3>2. gone' = gone \union {id} /\ id \notin gone
        BY <2>2, <3>1, Zenon
      <3>3. policyEvents' = policyEvents \union {row} /\ row \notin policyEvents
        <4> HIDE DEF made, gone
        <4>1. policyEvents = {<<"policy", "create", i>> : i \in made}
                               \union {<<"policy", "delete", i>> : i \in gone}
          BY Zenon DEF policyEvents, made, gone
        <4>2. policyEvents' = {<<"policy", "create", i>> : i \in made'}
                               \union {<<"policy", "delete", i>> : i \in gone'}
          BY Zenon DEF policyEvents, made, gone
        <4> QED
          BY <3>1, <3>2, <4>1, <4>2, Zenon
      <3>4. keyEvents' = keyEvents
        BY <2>1, <2>3 DEF keyEvents
      <3>5. groupEvents' = groupEvents
        BY <1>1, Zenon DEF groupEvents
      <3>6. row \notin keyEvents \union groupEvents
        BY Zenon DEF keyEvents, groupEvents
      <3> QED
        BY <2>1, <3>3, <3>4, <3>5, <3>6, TrailFollows, Zenon DEF AccessInv, Events
    <2> QED
      BY <2>4, <2>5, <2>6, <2>7, <2>8, Zenon DEF AccessInv
  <1> QED
    BY <1>3, <1>4, Zenon

(* A new group is one that was not there.                                   *)
LEMMA CreateGroupPreserves ==
    ASSUME AccessInv, NEW w \in Workers, createGroup(w)
    PROVE  AccessInv'
  <1>1. /\ call[w].pc = "CreateResourceGroup" /\ call' = [call EXCEPT ![w] = Idle]
        /\ UNCHANGED <<keys, policies, minted, boot, secret>>
        /\ UNCHANGED <<groups, trail>> \/ \E slug : insertGroup(slug)
    BY Zenon DEF createGroup, End, bootVars
  <1>2. keys # {}
    BY <1>1, AtWork, Zenon DEF AccessInv
  <1>3. CASE UNCHANGED <<groups, trail>>
    BY <1>1, <1>2, <1>3, RowsKept, Zenon
  <1>4. CASE ~UNCHANGED <<groups, trail>>
    <2>1. PICK slug : /\ slug \notin groups /\ groups' = groups \union {slug}
                      /\ insertAuditEvent("resource_group", "create", slug)
      BY <1>1, <1>4, Zenon DEF insertGroup
    <2>2. KeysOk' /\ PoliciesOk' /\ BoundariesStand'
      BY <1>1, <1>2, Zenon DEF AccessInv, KeysOk, PoliciesOk, BoundariesStand
    <2>3. WriterMadeKey' /\ SecretMatchesStoredKey'
      BY <1>1, Zenon DEF AccessInv, WriterMadeKey, SecretMatchesStoredKey
    <2>4. AuditTrailExact'
      <3> DEFINE row == <<"resource_group", "create", slug>>
      <3>1. groupEvents' = groupEvents \union {row} /\ row \notin groupEvents
        BY <2>1, Zenon DEF groupEvents
      <3>2. keyEvents' = keyEvents /\ policyEvents' = policyEvents
        BY <1>1, Zenon DEF keyEvents, policyEvents
      <3>3. row \notin keyEvents \union policyEvents
        BY Zenon DEF keyEvents, policyEvents
      <3> QED
        BY <2>1, <3>1, <3>2, <3>3, TrailFollows, Zenon DEF AccessInv, Events
    <2> QED
      BY <2>2, <2>3, <2>4, Zenon DEF AccessInv
  <1> QED
    BY <1>3, <1>4, Zenon

(* A bootstrap process that changes no row and does not become a writer.    *)
LEMMA BootKeepsRows ==
    ASSUME AccessInv, NEW s \in Starters, NEW pc, pc # "writing",
           boot' = [boot EXCEPT ![s] = pc],
           UNCHANGED <<keys, policies, minted, groups, trail, call>>, SecretMatchesStoredKey'
    PROVE  AccessInv'
  <1>1. KeysOk' /\ PoliciesOk' /\ BoundariesStand'
    BY Zenon DEF AccessInv, KeysOk, PoliciesOk, BoundariesStand
  <1>2. WriterMadeKey'
    BY Zenon DEF AccessInv, WriterMadeKey
  <1>3. AuditTrailExact'
    BY Zenon DEF AccessInv, AuditTrailExact, keyEvents, policyEvents, groupEvents
  <1> QED
    BY <1>1, <1>2, <1>3, Zenon DEF AccessInv

(* Only the process whose transaction inserts the bootstrap key goes on to  *)
(* write the secret.                                                        *)
LEMMA EnsureDefaultPreserves ==
    ASSUME AccessInv, NEW s \in Starters, EnsureDefault(s)
    PROVE  AccessInv'
  <1> DEFINE stored == {k \in keys : k.id = 1}
             conflict == \E k \in stored : k.prefix # configured[s].prefix
             first == [id |-> 1, prefix |-> configured[s].prefix,
                       secret |-> configured[s].secret, group |-> Unset, boundary |-> 0,
                       bound |-> {1}, revoked |-> FALSE]
  <1>1. UNCHANGED <<policies, minted, groups, trail, call, secret>>
    BY Zenon DEF EnsureDefault
  <1>2. CASE conflict \/ stored # {}
    <2>1. PICK pc : /\ pc # "writing" /\ boot' = [boot EXCEPT ![s] = pc]
                    /\ UNCHANGED keys
      BY <1>2, Zenon DEF EnsureDefault, keyCreated
    <2>2. SecretMatchesStoredKey'
      BY <1>1, <2>1, Zenon DEF AccessInv, SecretMatchesStoredKey
    <2> QED
      BY <1>1, <2>1, <2>2, BootKeepsRows, Zenon
  <1>3. CASE stored = {}
    <2>1. keys' = keys \union {first} /\ boot' = [boot EXCEPT ![s] = "writing"]
      BY <1>3, Zenon DEF EnsureDefault, keyCreated
    <2>2. keys = {}
      BY <1>3, Zenon DEF AccessInv, KeysOk
    <2>3. /\ KeyFields \subseteq DOMAIN first /\ first.id = 1 /\ ~first.revoked
          /\ first.secret = configured[s].secret /\ first.boundary = 0
      BY Zenon DEF KeyFields
    <2> HIDE DEF first
    <2>4. keys' = {first}
      BY <2>1, <2>2, Zenon
    <2>5. KeysOk'
      BY <1>1, <2>2, <2>3, <2>4 DEF AccessInv, KeysOk
    <2>6. PoliciesOk' /\ BoundariesStand'
      BY <1>1, <2>3, <2>4, Zenon DEF AccessInv, PoliciesOk, BoundariesStand
    <2>7. WriterMadeKey'
      BY <2>1, <2>2, <2>3, <2>4, Zenon DEF AccessInv, WriterMadeKey
    <2>8. SecretMatchesStoredKey'
      BY <1>1, <2>2, Zenon DEF AccessInv, SecretMatchesStoredKey
    <2>9. AuditTrailExact'
      <3>1. keyEvents = {} /\ keyEvents' = {}
        BY <2>2, <2>3, <2>4, Zenon DEF keyEvents
      <3> QED
        BY <1>1, <3>1, Zenon DEF AccessInv, AuditTrailExact, policyEvents, groupEvents
    <2> QED
      BY <2>5, <2>6, <2>7, <2>8, <2>9, Zenon DEF AccessInv
  <1> QED
    BY <1>2, <1>3, Zenon

(* Writing the secret, failing to, and running the job again.               *)
LEMMA BootPreserves ==
    ASSUME AccessInv, NEW s \in Starters, WriteSecret(s) \/ WriteFails(s) \/ Rerun(s)
    PROVE  AccessInv'
  <1> USE DEF rowVars
  <1>1. UNCHANGED <<keys, policies, minted, groups, trail, call>>
    BY Zenon DEF WriteSecret, WriteFails, Rerun
  <1>2. CASE WriteSecret(s)
    <2>1. /\ boot[s] = "writing" /\ boot' = [boot EXCEPT ![s] = "done"]
          /\ secret' = secret \/ secret' = configured[s].secret
      BY <1>2, Zenon DEF WriteSecret
    <2>2. SecretMatchesStoredKey'
      BY <1>1, <2>1, Zenon DEF AccessInv, SecretMatchesStoredKey, WriterMadeKey
    <2> QED
      BY <1>1, <2>1, <2>2, BootKeepsRows, Zenon
  <1>3. CASE WriteFails(s) \/ Rerun(s)
    <2>1. boot' = [boot EXCEPT ![s] = "starting"] /\ secret' = secret
      BY <1>3, Zenon DEF WriteFails, Rerun
    <2>2. SecretMatchesStoredKey'
      BY <1>1, <2>1, Zenon DEF AccessInv, SecretMatchesStoredKey
    <2> QED
      BY <1>1, <2>1, <2>2, BootKeepsRows, Zenon
  <1> QED
    BY <1>2, <1>3, Zenon

(* Every command and every bootstrap step keeps the invariant.              *)
LEMMA AccessNextHolds == AccessInv /\ [AccessNext]_accessVars => AccessInv'
  <1> SUFFICES ASSUME AccessInv, [AccessNext]_accessVars PROVE AccessInv'
    OBVIOUS
  <1>1. CASE UNCHANGED accessVars
    <2>1. KeysOk' /\ PoliciesOk' /\ BoundariesStand'
      BY <1>1, Zenon DEF accessVars, AccessInv, KeysOk, PoliciesOk, BoundariesStand
    <2>2. WriterMadeKey' /\ SecretMatchesStoredKey'
      BY <1>1, Zenon DEF accessVars, AccessInv, WriterMadeKey, SecretMatchesStoredKey
    <2>3. AuditTrailExact'
      BY <1>1, Zenon DEF accessVars, AccessInv, AuditTrailExact, keyEvents, policyEvents, groupEvents
    <2> QED
      BY <2>1, <2>2, <2>3, Zenon DEF AccessInv
  <1>2. ASSUME NEW w \in Workers, Reads(w) PROVE AccessInv'
    BY <1>2, ReadsPreserve, Zenon
  <1>3. ASSUME NEW w \in Workers,
               createKey(w) \/ RevokeAsAdmin(w) \/ createPolicy(w) \/ deletePolicy(w) \/ createGroup(w)
        PROVE  AccessInv'
    BY <1>3, CreateKeyPreserves, RevokePreserves, CreatePolicyPreserves, DeletePolicyPreserves,
       CreateGroupPreserves, Zenon
  <1>4. ASSUME NEW s \in Starters, EnsureDefault(s) \/ WriteSecret(s) \/ WriteFails(s) \/ Rerun(s)
        PROVE  AccessInv'
    BY <1>4, EnsureDefaultPreserves, BootPreserves, Zenon
  <1> QED
    BY <1>1, <1>2, <1>3, <1>4, Zenon DEF AccessNext, Reads

(* The rows, the trail and the bootstrap agree in every reachable state:    *)
(* for any number of requests in flight, of bootstrap processes and of      *)
(* policies and keys.                                                       *)
THEOREM AccessInvariance == AccessSpec => []AccessInv
  BY AccessInitHolds, AccessNextHolds, PTL DEF AccessSpec

(* The audit trail has one row for each change the tables went through and  *)
(* none for one that was refused (insertAuditEvent in the transaction of    *)
(* the change).                                                             *)
THEOREM TrailAlwaysExact == AccessSpec => []AuditTrailExact
  <1>1. AccessInv => AuditTrailExact
    BY Zenon DEF AccessInv
  <1> QED
    BY <1>1, AccessInvariance, PTL

(* The secret store never holds a key that the database would not accept    *)
(* (EnsureDefault reports the row it inserted, and only then is it written).*)
THEOREM SecretAlwaysMatches == AccessSpec => []SecretMatchesStoredKey
  <1>1. AccessInv => SecretMatchesStoredKey
    BY Zenon DEF AccessInv
  <1> QED
    BY <1>1, AccessInvariance, PTL

-----------------------------------------------------------------------------
(* Boundaries.                                                              *)

(* The probe is the name of nothing.                                        *)
Plain(doc) ==
    \A st \in doc : \A p \in st.resource :
        p.tenant # probeSegment /\ p.group # probeSegment /\ p.type # probeSegment /\ p.id # probeSegment

Sound(doc) == Plain(doc) /\ \A st \in doc : st.effect \in {"Allow", "Deny"}

(* What covers the probe in place of a wildcard covers whatever the         *)
(* wildcard matches (concreteTarget).                                       *)
LEMMA ProbeStandsForAny ==
    ASSUME NEW p, NEW q, NEW target, Matches(p, target), Matches(q, concreteTarget(p)),
           q.tenant # probeSegment, q.group # probeSegment, q.type # probeSegment, q.id # probeSegment
    PROVE  Matches(q, target)
  BY Zenon DEF Matches, concreteTarget, segmentMatches, groupMatches

(* Intersect lets nothing past a boundary, whatever the documents.          *)
LEMMA IntersectStaysWithin ==
    ASSUME NEW docs, NEW boundary, NEW req, Sound(boundary),
           Evaluate(Intersect(docs, boundary), req) = "Allow"
    PROVE  Evaluate({boundary}, req) = "Allow"
  <1> DEFINE rest == Intersect(docs, boundary)
  <1> HIDE DEF rest
  <1>1. \A st : st \in UNION rest <=> \/ \E doc \in docs : st \in restrict(doc, boundary)
                                      \/ st \in denials(boundary)
    BY Zenon DEF rest, Intersect
  <1>2. /\ \E st \in UNION rest : matches(st, req)
        /\ \A st \in UNION rest : matches(st, req) => st.effect = "Allow"
    BY Zenon DEF Evaluate, rest
  <1>3. \A st \in boundary : matches(st, req) => st.effect = "Allow"
    BY <1>1, <1>2, Zenon DEF Sound, denials
  <1>4. PICK st \in UNION rest : matches(st, req) /\ st.effect = "Allow"
    BY <1>2, Zenon
  <1>5. PICK a, p : /\ st.action = {a} /\ st.resource = {p}
                    /\ Evaluate({boundary}, [action |-> a, resource |-> concreteTarget(p)]) = "Allow"
    <2>1. st \notin denials(boundary)
      BY <1>4, Zenon DEF denials
    <2>2. PICK doc \in docs : st \in restrict(doc, boundary) /\ st \notin denials(doc)
      BY <1>1, <1>4, <2>1, Zenon DEF denials
    <2>3. PICK s \in doc : st \in atoms(s)
      BY <2>2, Zenon DEF restrict
    <2>4. \A a \in st.action, p \in st.resource :
            Evaluate({boundary}, [action |-> a, resource |-> concreteTarget(p)]) = "Allow"
      BY <2>2, Zenon DEF restrict
    <2>5. PICK a, p : st = [effect |-> "Allow", action |-> {a}, resource |-> {p}]
      BY <2>3 DEF atoms
    <2>6. st.action = {a} /\ st.resource = {p}
      BY <2>5, Zenon
    <2> QED
      BY <2>4, <2>6, Zenon
  <1>6. /\ a \in {req.action, "*"} /\ Matches(p, req.resource)
    BY <1>4, <1>5, Zenon DEF matches
  <1> DEFINE probe == [action |-> a, resource |-> concreteTarget(p)]
  <1>7. PICK bs \in boundary : matches(bs, probe)
    BY <1>5, Zenon DEF Evaluate
  <1>8. /\ {a, "*"} \cap bs.action # {}
        /\ \E q \in bs.resource : ParseARN(q) /\ Matches(q, concreteTarget(p))
    BY <1>7, Zenon DEF matches
  <1>9. PICK q \in bs.resource : ParseARN(q) /\ Matches(q, concreteTarget(p))
    BY <1>8, Zenon
  <1>10. Matches(q, req.resource)
    BY <1>6, <1>9, ProbeStandsForAny, Zenon DEF Sound, Plain
  <1>11. matches(bs, req)
    BY <1>6, <1>8, <1>9, <1>10, Zenon DEF matches
  <1> QED
    BY <1>3, <1>11, Zenon DEF Evaluate

(* "It only has to be a value no real identifier takes" (subset.go): no     *)
(* preset, no document a caller sends and no tenant names the probe.        *)
ProbeUnused ==
    /\ Tenant # probeSegment
    /\ \A p \in Presets : Plain(p.doc)
    /\ \A w \in Workers : \A c \in Calls[w] : Plain(c.doc)

CallFields == {"pc", "by", "args", "docs", "granted", "todo", "ceiling", "requested"}

(* Stored documents parse, and a request keeps the arguments it came with.  *)
DocumentsSound ==
    /\ \A p \in policies : Sound(p.doc)
    /\ DOMAIN call = Workers
    /\ \A w \in Workers : call[w] # Idle => CallFields \subseteq DOMAIN call[w] /\ call[w].args \in Calls[w]

(* Naming one's own tenant keeps a document sound (ResolveSelf).            *)
LEMMA ResolvedIsSound ==
    ASSUME NEW doc, Sound(doc), Tenant # probeSegment
    PROVE  Sound(ResolveSelf(doc))
  <1> DEFINE own(p) == IF p.tenant = "self"
                       THEN [tenant |-> Tenant, group |-> p.group, type |-> p.type, id |-> p.id] ELSE p
  <1> SUFFICES ASSUME NEW st \in doc, NEW p \in st.resource
               PROVE  /\ own(p).tenant # probeSegment /\ own(p).group # probeSegment
                      /\ own(p).type # probeSegment /\ own(p).id # probeSegment
    BY DEF Sound, Plain, ResolveSelf
  <1> QED
    BY Zenon DEF Sound, Plain

(* A key with a boundary is judged within it, request by request.           *)
LEMMA JudgedWithinBoundary ==
    ASSUME ProbeUnused, AccessInv, DocumentsSound, NEW k \in keys, k.boundary # 0
    PROVE  /\ boundaryDocument(k) # {}
           /\ \A req : Evaluate(EffectiveDocuments(k), req) = "Allow"
                         => Evaluate(boundaryDocument(k), req) = "Allow"
  <1>1. PICK p \in policies : p.id = k.boundary
    BY Zenon DEF AccessInv, BoundariesStand
  <1>2. storedPolicy(k.boundary) = {p}
    BY <1>1, Zenon DEF AccessInv, PoliciesOk, storedPolicy
  <1> DEFINE b == ResolveSelf(p.doc)
  <1>3. boundaryDocument(k) = {b}
    BY <1>2, Zenon DEF boundaryDocument
  <1>4. Sound(b)
    BY ResolvedIsSound, Zenon DEF DocumentsSound, ProbeUnused
  <1> HIDE DEF b
  <1>5. \E docs : EffectiveDocuments(k) = Intersect(docs, b)
    BY <1>3, Zenon DEF EffectiveDocuments
  <1> QED
    BY <1>3, <1>4, <1>5, IntersectStaysWithin, Zenon

(* The presets are sound (the migrations' documents).                       *)
LEMMA DocumentsInit == ASSUME ProbeUnused, AccessInit PROVE DocumentsSound
  <1>1. \A p \in Presets : Sound(p.doc)
    BY PresetDocuments, Zenon DEF ProbeUnused, Sound, ParseDocument
  <1> QED
    BY <1>1, Zenon DEF AccessInit, DocumentsSound

(* Going on with a request keeps its arguments.                             *)
LEMMA RequestGoesOn ==
    ASSUME DocumentsSound, NEW w \in Workers, call[w] # Idle, UNCHANGED policies,
           NEW x, call' = [call EXCEPT ![w] = x],
           x = Idle \/ (CallFields \subseteq DOMAIN x /\ x.args = call[w].args)
    PROVE  DocumentsSound'
  BY Zenon DEF DocumentsSound

(* Only createPolicy stores a document, and it parses it first.             *)
LEMMA DocumentsNext ==
    ASSUME ProbeUnused, DocumentsSound, [AccessNext]_accessVars
    PROVE  DocumentsSound'
  <1> USE DEF rowVars, bootVars
  <1>1. ASSUME UNCHANGED <<policies, call>> PROVE DocumentsSound'
    BY <1>1, Zenon DEF DocumentsSound
  <1>2. CASE UNCHANGED accessVars
    BY <1>1, <1>2, Zenon DEF accessVars
  <1>3. ASSUME NEW s \in Starters, EnsureDefault(s) \/ WriteSecret(s) \/ WriteFails(s) \/ Rerun(s)
        PROVE  DocumentsSound'
    BY <1>1, <1>3, Zenon DEF EnsureDefault, WriteSecret, WriteFails, Rerun
  <1>4. ASSUME NEW w \in Workers, NEW pc, call[w].pc = pc, pc # "idle" PROVE call[w] # Idle
    BY <1>4 DEF Idle
  <1>5. ASSUME NEW w \in Workers, call[w] # Idle, UNCHANGED policies, End(w) PROVE DocumentsSound'
    BY <1>5, RequestGoesOn, Zenon DEF End
  <1>6. ASSUME NEW w \in Workers, resolveTenant(w) PROVE DocumentsSound'
    <2>1. PICK c, x : /\ c \in Calls[w] /\ call' = [call EXCEPT ![w] = x] /\ UNCHANGED policies
                      /\ CallFields \subseteq DOMAIN x /\ x.args = c
      BY <1>6, Zenon DEF resolveTenant, CallFields
    <2> QED
      BY <2>1, Zenon DEF DocumentsSound
  <1>7. ASSUME NEW w \in Workers,
               loadDocuments(w) \/ checkGroup(w) \/ resolvePolicies(w) \/ callerBoundary(w)
                 \/ resolveBoundary(w)
        PROVE  DocumentsSound'
    <2> DEFINE c == call[w]
               Same(x) == CallFields \subseteq DOMAIN x /\ x.args = c.args
    <2>1. c # Idle /\ UNCHANGED policies
      BY <1>4, <1>7, Zenon DEF loadDocuments, checkGroup, resolvePolicies, callerBoundary, resolveBoundary
    <2>2. ASSUME NEW d, Same(d), NEW pc, GoTo(w, pc, d) PROVE DocumentsSound'
      <3>1. call' = [call EXCEPT ![w] = [d EXCEPT !.pc = pc]]
        BY <2>2, Zenon DEF GoTo
      <3>2. Same([d EXCEPT !.pc = pc])
        BY <2>2, Zenon DEF CallFields
      <3> QED
        BY <2>1, <3>1, <3>2, RequestGoesOn, Zenon
    <2>3. /\ Same(c)
          /\ \A v : /\ Same([c EXCEPT !.docs = v]) /\ Same([c EXCEPT !.ceiling = v])
                    /\ Same([c EXCEPT !.requested = v])
          /\ \A v, u : Same([c EXCEPT !.todo = v, !.granted = u])
      BY <2>1, Zenon DEF DocumentsSound, CallFields
    <2> HIDE DEF Same, c
    <2>4. CASE loadDocuments(w)
      BY <1>5, <2>1, <2>2, <2>3, <2>4, Zenon DEF loadDocuments, c
    <2>5. CASE checkGroup(w)
      BY <1>5, <2>1, <2>2, <2>3, <2>5, Zenon DEF checkGroup, c
    <2>6. CASE resolvePolicies(w)
      BY <1>5, <2>1, <2>2, <2>3, <2>6, Zenon DEF resolvePolicies, c
    <2>7. CASE callerBoundary(w)
      BY <1>5, <2>1, <2>2, <2>3, <2>7, Zenon DEF callerBoundary, c
    <2>8. CASE resolveBoundary(w)
      BY <1>5, <2>1, <2>2, <2>3, <2>8, Zenon DEF resolveBoundary, c
    <2> QED
      BY <1>7, <2>4, <2>5, <2>6, <2>7, <2>8, Zenon
  <1>8. ASSUME NEW w \in Workers, createKey(w) \/ RevokeAsAdmin(w) \/ createGroup(w) \/ createTenant(w)
        PROVE  DocumentsSound'
    <2>1. UNCHANGED policies /\ End(w) /\ call[w] # Idle
      BY <1>4, <1>8, Zenon DEF createKey, RevokeAsAdmin, createGroup, createTenant
    <2> QED
      BY <1>5, <2>1, Zenon
  <1>9. ASSUME NEW w \in Workers, createPolicy(w) PROVE DocumentsSound'
    <2> DEFINE doc == call[w].args.doc
    <2>1. call[w] # Idle /\ End(w)
      BY <1>4, <1>9, Zenon DEF createPolicy
    <2>2. \/ UNCHANGED policies
          \/ /\ ParseDocument(doc)
             /\ \E p : policies' = policies \union {p} /\ p.doc = doc
      <3>1. \/ UNCHANGED policies
            \/ ParseDocument(doc) /\ insertPolicy(call[w].args.name, doc)
        BY <1>9, Zenon DEF createPolicy
      <3>2. ASSUME insertPolicy(call[w].args.name, doc)
            PROVE  UNCHANGED policies \/ \E p : policies' = policies \union {p} /\ p.doc = doc
        <4> HIDE DEF doc
        <4> QED
          BY <3>2 DEF insertPolicy
      <3> QED
        BY <3>1, <3>2, Zenon
    <2>3. ASSUME ParseDocument(doc) PROVE Sound(doc)
      BY <2>1, <2>3, Zenon DEF DocumentsSound, ProbeUnused, Sound, ParseDocument
    <2>4. \A p \in policies' : Sound(p.doc)
      BY <2>2, <2>3, Zenon DEF DocumentsSound
    <2> QED
      BY <2>1, <2>4, Zenon DEF DocumentsSound, End
  <1>10. ASSUME NEW w \in Workers, deletePolicy(w) PROVE DocumentsSound'
    <2>1. call[w] # Idle /\ End(w) /\ policies' \subseteq policies
      BY <1>4, <1>10, Zenon DEF deletePolicy, removePolicy
    <2> QED
      BY <2>1, Zenon DEF DocumentsSound, End
  <1> QED
    BY <1>2, <1>3, <1>6, <1>7, <1>8, <1>9, <1>10, Zenon DEF AccessNext

(* A key created under a boundary is judged within it as long as it exists: *)
(* the boundary cannot be deleted (the foreign key of                       *)
(* api_keys.boundary_policy_id) and Intersect lets nothing past it.  The    *)
(* probe that stands for wildcards must be nobody's name.                   *)
THEOREM BoundedAlways == ProbeUnused => (AccessSpec => []BoundedKeysStayBounded)
  <1> SUFFICES ASSUME ProbeUnused PROVE AccessSpec => []BoundedKeysStayBounded
    BY Zenon
  <1>1. AccessInit => DocumentsSound
    BY DocumentsInit, Zenon
  <1>2. DocumentsSound /\ [AccessNext]_accessVars => DocumentsSound'
    BY DocumentsNext, Zenon
  <1>3. AccessInv /\ DocumentsSound => BoundedKeysStayBounded
    BY JudgedWithinBoundary, Zenon DEF BoundedKeysStayBounded
  <1> QED
    BY <1>1, <1>2, <1>3, AccessInvariance, PTL DEF AccessSpec
=============================================================================
