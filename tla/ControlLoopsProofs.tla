------------------------ MODULE ControlLoopsProofs ------------------------
(***************************************************************************)
(* What the scheduler and the retainer guarantee for every definition, any *)
(* schedule, any limits and any number of revisions, occurrences and       *)
(* manual runs: under Forbid two occurrences are never open at once, and   *)
(* retention removes finished runs only and keeps the history it is asked  *)
(* to keep.                                                                *)
(***************************************************************************)
EXTENDS ControlLoops, FiniteSetTheorems, TLAPS

(* The ledger as a set of keys. *)

Once(s) == \A i, j \in DOMAIN s : s[i] = s[j] => i = j

\* A tick under way: where it is, the revision and minute it read, and from
\* Select on the occurrences left to fire.
Ticking(t) ==
  /\ t = [at |-> t.at, rev |-> t.rev, now |-> t.now, todo |-> t.todo]
  /\ t.at \in TickSteps /\ t.rev \in RevisionIds /\ t.now \in Minutes
  /\ t.at \in {"create", "expose"} => t.todo \in Seq(Schedule) /\ t.todo # <<>>

\* What the ledger and the clock range over; a key has one row
\* (ux_job_run_occurrence).
LoopTypes ==
  /\ active \in RevisionIds /\ minute \in Minutes
  /\ ledger \in Seq(Keys) /\ Once(ledger)
  /\ phase \in [Keys -> LoopPhases]
  /\ tick # NoTask => Ticking(tick)

\* An occurrence that still counts as open.
OpenOccurrence(k) == k \in Rows \cap Scheduled /\ ~Terminal(phase[k])

\* Under Forbid: a tick fires one occurrence, between its count and its insert
\* no occurrence is open, and at no time are two.
Alone ==
  /\ tick # NoTask /\ tick.at \in {"create", "expose"} => Tail(tick.todo) = <<>>
  /\ tick # NoTask /\ tick.at = "create" => \A k : ~OpenOccurrence(k)
  /\ \A j, k : OpenOccurrence(j) /\ OpenOccurrence(k) => j = k

OneAtATime == MaxCatchUp <= 1 /\ \A g \in RevisionIds : Specs[g].concurrency = "Forbid"

LoopInv == LoopTypes /\ (OneAtATime => Alone)

\* A new row joins the others.
LEMMA RowAdded ==
  ASSUME LoopTypes, NEW k \in Keys, k \notin Rows
  PROVE  /\ Append(ledger, k) \in Seq(Keys) /\ Once(Append(ledger, k))
         /\ \A j : (\E i \in DOMAIN Append(ledger, k) : Append(ledger, k)[i] = j) <=> j \in Rows \/ j = k
<1> DEFINE s == Append(ledger, k)
<1>1. /\ s \in Seq(Keys) /\ Len(s) = Len(ledger) + 1 /\ Len(ledger) \in Nat
      /\ DOMAIN s = 1 .. Len(s) /\ DOMAIN ledger = 1 .. Len(ledger)
      /\ \A i \in DOMAIN ledger : s[i] = ledger[i]
      /\ s[Len(ledger) + 1] = k
  BY DEF LoopTypes
<1> HIDE DEF s
<1>2. \A i \in DOMAIN s : i \in DOMAIN ledger \/ i = Len(ledger) + 1
  BY <1>1
<1>3. Once(s)
  BY <1>1, <1>2, Zenon DEF LoopTypes, Once, Rows
<1>4. \A j : (\E i \in DOMAIN s : s[i] = j) <=> j \in Rows \/ j = k
  BY <1>1, <1>2 DEF Rows
<1> QED
  BY <1>1, <1>3, <1>4, Zenon DEF s

\* A removed row leaves the others.
LEMMA RowRemoved ==
  ASSUME LoopTypes, NEW n \in DOMAIN ledger
  PROVE  LET s == WithoutRow(n)
         IN  /\ s \in Seq(Keys) /\ Once(s)
             /\ \A j : (\E i \in DOMAIN s : s[i] = j) <=> j \in Rows /\ j # ledger[n]
<1> DEFINE a == SubSeq(ledger, 1, n - 1)
           b == SubSeq(ledger, n + 1, Len(ledger))
           s == a \o b
<1>1. ledger \in Seq(Keys) /\ Len(ledger) \in Nat /\ n \in 1 .. Len(ledger) /\ DOMAIN ledger = 1 .. Len(ledger)
  BY DEF LoopTypes
<1>2. a \in Seq(Keys) /\ Len(a) = n - 1 /\ \A i \in 1 .. n - 1 : a[i] = ledger[i]
  BY <1>1
<1>3. b \in Seq(Keys) /\ Len(b) = Len(ledger) - n /\ \A i \in 1 .. Len(ledger) - n : b[i] = ledger[n + i]
  BY <1>1
<1> HIDE DEF a, b
<1>4. /\ s \in Seq(Keys) /\ Len(s) = Len(ledger) - 1 /\ DOMAIN s = 1 .. Len(ledger) - 1
      /\ \A i \in 1 .. Len(ledger) - 1 : s[i] = IF i < n THEN ledger[i] ELSE ledger[i + 1]
  <2>1. /\ s \in Seq(Keys) /\ Len(s) = Len(a) + Len(b)
        /\ \A i \in 1 .. Len(s) : s[i] = IF i <= Len(a) THEN a[i] ELSE b[i - Len(a)]
    <3>1. a \in Seq(Keys) /\ b \in Seq(Keys)
      BY <1>2, <1>3, Zenon
    <3> QED
      BY <3>1
  <2> HIDE DEF s
  <2>2. Len(s) = Len(ledger) - 1 /\ DOMAIN s = 1 .. Len(ledger) - 1
    BY <1>1, <1>2, <1>3, <2>1
  <2>3. ASSUME NEW i \in 1 .. Len(ledger) - 1, i < n PROVE s[i] = ledger[i]
    BY <1>1, <1>2, <2>1, <2>2, <2>3
  <2>4. ASSUME NEW i \in 1 .. Len(ledger) - 1, ~(i < n) PROVE s[i] = ledger[i + 1]
    <3>1. s[i] = b[i - (n - 1)] /\ i - (n - 1) \in 1 .. Len(ledger) - n
      <4>1. i <= Len(ledger) - 1 /\ i >= n /\ i \in Int /\ n \in Int /\ Len(ledger) \in Int
        BY <1>1, <2>4
      <4>2. i \in 1 .. Len(s) /\ ~(i <= Len(a)) /\ i - Len(a) = i - (n - 1)
        BY <1>2, <2>2, <2>4, <4>1
      <4>3. i - (n - 1) \in 1 .. Len(ledger) - n
        BY <4>1
      <4> QED
        BY <2>1, <4>2, <4>3, Zenon
    <3>2. n + (i - (n - 1)) = i + 1
      BY <1>1, <2>4
    <3> QED
      BY <1>3, <3>1, <3>2, Zenon
  <2> QED
    BY <2>1, <2>2, <2>3, <2>4, Zenon
<1> HIDE DEF s
<1>5. Once(s)
  <2> SUFFICES ASSUME NEW i \in DOMAIN s, NEW j \in DOMAIN s, s[i] = s[j] PROVE i = j
    BY Zenon DEF Once
  <2> DEFINE At(m) == IF m < n THEN m ELSE m + 1
  <2>1. /\ At(i) \in DOMAIN ledger /\ s[i] = ledger[At(i)]
        /\ At(j) \in DOMAIN ledger /\ s[j] = ledger[At(j)]
    BY <1>1, <1>4
  <2>2. At(i) = At(j)
    BY <2>1, Zenon DEF LoopTypes, Once
  <2> QED
    BY <1>1, <1>4, <2>2
<1>6. ASSUME NEW j, j \in Rows, j # ledger[n] PROVE \E i \in DOMAIN s : s[i] = j
  <2>1. PICK m \in DOMAIN ledger : ledger[m] = j
    BY <1>6, Zenon DEF Rows
  <2>2. m < n => m \in DOMAIN s /\ s[m] = j
    BY <1>1, <1>4, <2>1
  <2>3. m > n => m - 1 \in DOMAIN s /\ s[m - 1] = j
    BY <1>1, <1>4, <2>1
  <2> QED
    BY <1>1, <1>6, <2>1, <2>2, <2>3
<1>7. ASSUME NEW j, NEW i \in DOMAIN s, s[i] = j PROVE j \in Rows /\ j # ledger[n]
  <2>1. PICK m \in DOMAIN ledger : ledger[m] = j /\ m # n
    <3>1. i < n => i \in DOMAIN ledger /\ ledger[i] = j /\ i # n
      BY <1>1, <1>4, <1>7
    <3>2. ~(i < n) => i + 1 \in DOMAIN ledger /\ ledger[i + 1] = j /\ i + 1 # n
      BY <1>1, <1>4, <1>7
    <3> QED
      BY <3>1, <3>2, Zenon
  <2> QED
    BY <1>1, <2>1, Zenon DEF Rows, LoopTypes, Once
<1> QED
  BY <1>4, <1>5, <1>6, <1>7, Zenon DEF s, a, b, WithoutRow

\* CreateOccurrenceForTenant adds the key's row, Pending, or changes nothing.
LEMMA CreateRowAdds ==
  ASSUME LoopTypes, NEW k \in Keys, CreateRow(k)
  PROVE  /\ ledger' \in Seq(Keys) /\ Once(ledger') /\ phase' \in [Keys -> LoopPhases]
         /\ Rows' = Rows \cup {k}
         /\ \A j \in Keys : j # k \/ k \in Rows => phase'[j] = phase[j]
<1>1. CASE k \in Rows
  BY <1>1, Zenon DEF CreateRow, LoopTypes, Rows
<1>2. CASE k \notin Rows
  <2>1. ledger' = Append(ledger, k) /\ phase' = [phase EXCEPT ![k] = "Pending"]
    BY <1>2, Zenon DEF CreateRow
  <2>2. phase' \in [Keys -> LoopPhases] /\ \A j \in Keys : j # k => phase'[j] = phase[j]
    BY <2>1, Zenon DEF LoopTypes, LoopPhases
  <2>3. Rows' = Rows \cup {k}
    BY <1>2, <2>1, RowAdded DEF Rows
  <2> QED
    BY <1>2, <2>1, <2>2, <2>3, RowAdded, Zenon
<1> QED
  BY <1>1, <1>2, Zenon

-----------------------------------------------------------------------------
(* The steps. *)

\* A step that leaves ledger, phases and tick alone.
LEMMA QuietKeeps ==
  ASSUME LoopInv, active' \in RevisionIds, minute' \in Minutes, UNCHANGED <<ledger, phase, tick>>
  PROVE  LoopInv'
<1>1. Rows' = Rows
  BY Zenon DEF Rows
<1>2. \A k : OpenOccurrence(k)' <=> OpenOccurrence(k)
  BY <1>1, Zenon DEF OpenOccurrence, Terminal
<1>3. LoopTypes'
  BY Zenon DEF LoopInv, LoopTypes, Once
<1> QED
  BY <1>2, <1>3, Zenon DEF LoopInv, Alone, OneAtATime

\* A step of the tick that fires nothing.
LEMMA TickMoves ==
  ASSUME LoopInv, UNCHANGED <<active, minute, ledger, phase>>,
         tick' # NoTask => Ticking(tick') /\ tick'.at \notin {"create", "expose"}
  PROVE  LoopInv'
<1>1. Rows' = Rows
  BY Zenon DEF Rows
<1>2. \A k : OpenOccurrence(k)' <=> OpenOccurrence(k)
  BY <1>1, Zenon DEF OpenOccurrence, Terminal
<1>3. LoopTypes'
  BY Zenon DEF LoopInv, LoopTypes, Once, Ticking
<1> QED
  BY <1>2, <1>3, Zenon DEF LoopInv, Alone, OneAtATime

\* A step after which no occurrence is open that was not open before.
LEMMA FewerOpen ==
  ASSUME LoopInv, LoopTypes', UNCHANGED tick, \A k : OpenOccurrence(k)' => OpenOccurrence(k)
  PROVE  LoopInv'
BY Zenon DEF LoopInv, Alone, OneAtATime

\* A run that executes does not reopen.
LEMMA RunMovesKeeps ==
  ASSUME LoopInv, NEW k \in Keys, RunMoves(k)
  PROVE  LoopInv'
<1>1. /\ UNCHANGED <<active, minute, ledger, tick>> /\ ~Terminal(phase[k])
      /\ \E p \in LoopPhases : phase' = [phase EXCEPT ![k] = p]
  BY Zenon DEF RunMoves, Terminal, LoopPhases
<1>2. PICK p \in LoopPhases : phase' = [phase EXCEPT ![k] = p]
  BY <1>1, Zenon
<1>3. phase' \in [Keys -> LoopPhases] /\ \A j \in Keys : j # k => phase'[j] = phase[j]
  BY <1>2, Zenon DEF LoopInv, LoopTypes
<1>4. Rows' = Rows
  BY <1>1, Zenon DEF Rows
<1>5. LoopTypes'
  BY <1>1, <1>3, Zenon DEF LoopInv, LoopTypes, Once
<1>6. \A j : OpenOccurrence(j)' => OpenOccurrence(j)
  BY <1>1, <1>3, <1>4, Zenon DEF OpenOccurrence, Keys, Terminal
<1> QED
  BY <1>1, <1>5, <1>6, FewerOpen, Zenon

\* A manual run is no occurrence of the schedule.
LEMMA MaterializeKeepsLoop ==
  ASSUME LoopInv, NEW k \in Manual, materializeManualRun(k)
  PROVE  LoopInv'
<1>1. k \in Keys /\ k \notin Scheduled
  BY LoopConstants, Zenon DEF Keys, Manual, Scheduled
<1>2. CreateRow(k) /\ UNCHANGED <<active, minute, tick>>
  BY Zenon DEF materializeManualRun
<1>3. LoopTypes
  BY Zenon DEF LoopInv
<1>4. /\ ledger' \in Seq(Keys) /\ Once(ledger') /\ phase' \in [Keys -> LoopPhases]
      /\ Rows' = Rows \cup {k}
      /\ \A j \in Keys : j # k \/ k \in Rows => phase'[j] = phase[j]
  BY <1>1, <1>2, <1>3, CreateRowAdds, Zenon
<1>5. LoopTypes'
  BY <1>2, <1>3, <1>4, Zenon DEF LoopTypes
<1>6. \A j : OpenOccurrence(j)' => OpenOccurrence(j)
  BY <1>1, <1>4, Zenon DEF OpenOccurrence, Keys, Terminal
<1> QED
  BY <1>2, <1>5, <1>6, FewerOpen, Zenon

\* DeleteRun takes away one row, or none.
LEMMA DeleteTakes ==
  ASSUME LoopTypes, DeleteRun
  PROVE  \/ UNCHANGED <<ledger, phase>>
         \/ \E k \in Rows : /\ Terminal(phase[k])
                            /\ ledger' \in Seq(Keys) /\ Once(ledger')
                            /\ Rows' = Rows \ {k}
                            /\ phase' = [phase EXCEPT ![k] = "none"]
<1> DEFINE k == Head(sweep.todo).key
<1>1. CASE ~(k \in Rows /\ Deletable(k))
  BY <1>1, Zenon DEF DeleteRun
<1>2. CASE k \in Rows /\ Deletable(k)
  <2>1. PICK i \in DOMAIN ledger : ledger[i] = k /\ ledger' = WithoutRow(i)
    BY <1>2, Zenon DEF DeleteRun
  <2>2. phase' = [phase EXCEPT ![k] = "none"]
    BY <1>2, Zenon DEF DeleteRun
  <2> HIDE DEF k
  <2>3. /\ ledger' \in Seq(Keys) /\ Once(ledger')
        /\ \A j : (\E n \in DOMAIN ledger' : ledger'[n] = j) <=> j \in Rows /\ j # k
    BY <2>1, RowRemoved
  <2>4. Rows' = Rows \ {k}
    BY <2>3, Zenon DEF Rows
  <2> QED
    BY <1>2, <2>2, <2>3, <2>4, Zenon DEF Deletable
<1> QED
  BY <1>1, <1>2, Zenon

\* Retention opens nothing.
LEMMA DeleteKeeps ==
  ASSUME LoopInv, DeleteRun
  PROVE  LoopInv'
<1>1. UNCHANGED <<active, minute, tick>> /\ LoopTypes
  BY Zenon DEF DeleteRun, LoopInv
<1>2. CASE UNCHANGED <<ledger, phase>>
  BY <1>1, <1>2, QuietKeeps, Zenon DEF LoopTypes
<1>3. CASE ~UNCHANGED <<ledger, phase>>
  <2>1. PICK k \in Rows : /\ ledger' \in Seq(Keys) /\ Once(ledger') /\ Rows' = Rows \ {k}
                          /\ phase' = [phase EXCEPT ![k] = "none"]
    BY <1>1, <1>3, DeleteTakes, Zenon
  <2>2. phase' \in [Keys -> LoopPhases] /\ \A j \in Keys : j # k => phase'[j] = phase[j]
    BY <1>1, <2>1, Zenon DEF LoopTypes, LoopPhases
  <2>3. LoopTypes'
    BY <1>1, <2>1, <2>2, Zenon DEF LoopTypes
  <2>4. \A j : OpenOccurrence(j)' => OpenOccurrence(j)
    BY <2>1, <2>2, Zenon DEF OpenOccurrence, Keys, Terminal
  <2> QED
    BY <1>1, <2>3, <2>4, FewerOpen, Zenon
<1> QED
  BY <1>2, <1>3, Zenon

-----------------------------------------------------------------------------
(* Firing. *)

\* There are finitely many minutes.
LEMMA MinutesFinite ==
  ASSUME NEW ms \in SUBSET Minutes
  PROVE  IsFiniteSet(ms)
<1>1. 0 \in Int /\ MaxMinute \in Int
  BY LoopConstants
<1>2. IsFiniteSet(Minutes)
  BY <1>1, FS_Interval, Zenon DEF Minutes
<1> QED
  BY <1>2, FS_Subset, Zenon

\* The newest of some minutes is one minute.
LEMMA OneNewest ==
  ASSUME NEW ms \in SUBSET Minutes, NEW a \in NewestOf(ms, 1), NEW b \in NewestOf(ms, 1)
  PROVE  a = b
<1>1. ASSUME NEW t \in ms, Cardinality({u \in ms : u > t}) < 1
      PROVE  \A u \in ms : ~(u > t)
  <2> DEFINE later == {u \in ms : u > t}
  <2>1. IsFiniteSet(later)
    BY MinutesFinite, Zenon
  <2> HIDE DEF later
  <2>2. Cardinality(later) \in Nat /\ Cardinality(later) < 1
    BY <1>1, <2>1, FS_CardinalityType, Zenon DEF later
  <2>3. Cardinality(later) = 0
    BY <2>2
  <2>4. later = {}
    BY <2>1, <2>3, FS_EmptySet, Zenon
  <2> QED
    BY <2>4, Zenon DEF later
<1>2. a \in ms /\ b \in ms /\ ~(a > b) /\ ~(b > a)
  BY <1>1, Zenon DEF NewestOf
<1> QED
  BY <1>2, LoopConstants DEF Minutes

\* selectOccurrences picks minutes of the schedule; without catching up, one.
LEMMA DueIsScheduled ==
  ASSUME NEW policy, NEW now \in Minutes
  PROVE  LET due == selectOccurrences(Schedule, policy, now, Grace, MaxCatchUp)
         IN  /\ due \subseteq Schedule
             /\ MaxCatchUp <= 1 => \A a, b \in due : a = b
<1> DEFINE ms == matchesInWindow(Schedule, now, Grace)
           due == selectOccurrences(Schedule, policy, now, Grace, MaxCatchUp)
<1>1. ms \subseteq Schedule /\ ms \subseteq Minutes
  BY LoopConstants, Zenon DEF matchesInWindow
<1>2. due = NewestOf(ms, 1) \/ due = {} \/ due = NewestOf(ms, IF MaxCatchUp < 1 THEN 1 ELSE MaxCatchUp)
  BY Zenon DEF selectOccurrences
<1>3. \A n : NewestOf(ms, n) \subseteq ms
  BY Zenon DEF NewestOf
<1>4. ASSUME MaxCatchUp <= 1 PROVE (IF MaxCatchUp < 1 THEN 1 ELSE MaxCatchUp) = 1
  BY <1>4, LoopConstants
<1> HIDE DEF ms, due
<1>5. due \subseteq Schedule
  BY <1>1, <1>2, <1>3, Zenon
<1>6. ASSUME MaxCatchUp <= 1, NEW a \in due, NEW b \in due PROVE a = b
  <2>1. due = NewestOf(ms, 1)
    BY <1>2, <1>4, <1>6, Zenon
  <2> QED
    BY <1>1, <1>6, <2>1, OneNewest, Zenon
<1> QED
  BY <1>5, <1>6, Zenon DEF due

\* InOrder lists what it is given, all of it.
LEMMA InOrderLists ==
  ASSUME NEW ms \in SUBSET Schedule, ms # {}, NEW todo \in InOrder(ms)
  PROVE  /\ todo \in Seq(Schedule) /\ todo # <<>>
         /\ (\A a, b \in ms : a = b) => Tail(todo) = <<>>
<1> DEFINE n == Cardinality(ms)
<1>1. IsFiniteSet(ms)
  BY LoopConstants, MinutesFinite, Zenon
<1>2. n \in Nat /\ n # 0
  BY <1>1, FS_CardinalityType, FS_EmptySet, Zenon
<1>3. todo \in [1 .. n -> ms]
  BY Zenon DEF InOrder
<1>4. (\A a, b \in ms : a = b) => n = 1
  <2>1. PICK a \in ms : TRUE
    BY Zenon
  <2>2. (\A b, c \in ms : b = c) => ms = {a}
    BY Zenon
  <2> QED
    BY <2>2, FS_Singleton, Zenon
<1> HIDE DEF n
<1>5. todo \in Seq(Schedule) /\ Len(todo) = n
  BY <1>2, <1>3
<1>6. todo # <<>>
  BY <1>2, <1>5
<1>7. n = 1 => Tail(todo) = <<>>
  <2>1. Tail(todo) \in Seq(Schedule) /\ Len(Tail(todo)) = n - 1
    BY <1>2, <1>5, <1>6
  <2>2. n = 1 => Len(Tail(todo)) = 0
    BY <1>2, <2>1
  <2>3. \A t \in Seq(Schedule) : Len(t) = 0 => t = <<>>
    OBVIOUS
  <2> QED
    BY <2>1, <2>2, <2>3, Zenon
<1> QED
  BY <1>4, <1>5, <1>6, <1>7, Zenon

\* The count: the occurrences to fire, and none open when Forbid lets them.
LEMMA SelectKeeps ==
  ASSUME LoopInv, Select
  PROVE  LoopInv'
<1> DEFINE spec == Specs[tick.rev]
           due == selectOccurrences(Schedule, spec.misfire, tick.now, Grace, MaxCatchUp)
           fires == due # {} /\ concurrencyAllows(spec)
<1>1. /\ LoopTypes /\ tick # NoTask /\ Ticking(tick) /\ UNCHANGED <<active, minute, ledger, phase>>
      /\ tick.rev \in RevisionIds /\ tick.now \in Minutes
  BY Zenon DEF Select, LoopInv, LoopTypes, Ticking, tables
<1>2. CASE ~fires
  <2>1. tick' = NoTask
    BY <1>2, Zenon DEF Select
  <2> QED
    BY <1>1, <2>1, TickMoves, Zenon
<1>3. CASE fires
  <2>1. PICK todo \in InOrder(due) : tick' = [tick EXCEPT !.at = "create", !.now = 0, !.todo = todo]
    BY <1>3, Zenon DEF Select
  <2>2. due \subseteq Schedule /\ (MaxCatchUp <= 1 => \A a, b \in due : a = b)
    BY <1>1, DueIsScheduled, Zenon
  <2>3. due # {} /\ concurrencyAllows(spec)
    BY <1>3, Zenon
  <2> HIDE DEF due
  <2>4. /\ todo \in Seq(Schedule) /\ todo # <<>>
        /\ (MaxCatchUp <= 1 => Tail(todo) = <<>>)
    BY <2>1, <2>2, <2>3, InOrderLists
  <2>5. tick' = [at |-> "create", rev |-> tick.rev, now |-> 0, todo |-> todo]
    BY <1>1, <2>1, Zenon DEF Ticking
  <2>6. Ticking(tick') /\ tick'.at = "create" /\ tick'.todo = todo
    BY <1>1, <2>4, <2>5, LoopConstants DEF Ticking, TickSteps, Minutes
  <2>7. LoopTypes'
    BY <1>1, <2>6, Zenon DEF LoopTypes, Once, Ticking
  <2>8. Rows' = Rows
    BY <1>1, Zenon DEF Rows
  <2>9. \A k : OpenOccurrence(k)' <=> OpenOccurrence(k)
    BY <1>1, <2>8, Zenon DEF OpenOccurrence, Terminal
  <2>10. OneAtATime => \A k : ~OpenOccurrence(k)
    BY <1>1, <2>3, Zenon DEF OneAtATime, concurrencyAllows, OpenOccurrence
  <2>11. OneAtATime' => OneAtATime
    BY Zenon DEF OneAtATime
  <2>12. OneAtATime => Alone'
    BY <2>4, <2>6, <2>9, <2>10, Zenon DEF Alone, OneAtATime
  <2> QED
    BY <2>7, <2>11, <2>12, Zenon DEF LoopInv
<1> QED
  BY <1>2, <1>3, Zenon

\* The insert: the occurrence's row is the only open one, and the tick goes on
\* with what is left.
LEMMA CreateOccurrenceKeeps ==
  ASSUME LoopInv, CreateOccurrence
  PROVE  LoopInv'
<1> DEFINE k == OccurrenceKeyOf(tick.rev, Head(tick.todo))
           rest == Tail(tick.todo)
<1>1. /\ LoopTypes /\ tick # NoTask /\ Ticking(tick) /\ tick.at = "create"
      /\ UNCHANGED <<active, minute>> /\ CreateRow(k)
      /\ tick.todo \in Seq(Schedule) /\ tick.todo # <<>> /\ tick.rev \in RevisionIds
  BY Zenon DEF CreateOccurrence, LoopInv, LoopTypes, Ticking
<1>2. k \in Scheduled /\ k \in Keys /\ rest \in Seq(Schedule)
  BY <1>1 DEF OccurrenceKeyOf, Scheduled, Keys
<1>3. \/ tick' = NoTask
      \/ rest # <<>> /\ tick' = [tick EXCEPT !.todo = rest]
      \/ tick' = [tick EXCEPT !.at = "expose"]
  BY Zenon DEF CreateOccurrence
<1> HIDE DEF k
<1>4. /\ ledger' \in Seq(Keys) /\ Once(ledger') /\ phase' \in [Keys -> LoopPhases]
      /\ Rows' = Rows \cup {k}
      /\ \A j \in Keys : j # k \/ k \in Rows => phase'[j] = phase[j]
  BY <1>1, <1>2, CreateRowAdds, Zenon
<1>5. tick' # NoTask => Ticking(tick') /\ (rest = <<>> => tick'.at = "expose" /\ Tail(tick'.todo) = <<>>)
  <2>1. CASE rest # <<>> /\ tick' = [tick EXCEPT !.todo = rest]
    <3>1. tick' = [at |-> "create", rev |-> tick.rev, now |-> tick.now, todo |-> rest]
      BY <1>1, <2>1, Zenon DEF Ticking
    <3> HIDE DEF rest
    <3> QED
      BY <1>1, <1>2, <2>1, <3>1, Zenon DEF Ticking, TickSteps
  <2>2. CASE tick' = [tick EXCEPT !.at = "expose"]
    <3>1. tick' = [at |-> "expose", rev |-> tick.rev, now |-> tick.now, todo |-> tick.todo]
      BY <1>1, <2>2, Zenon DEF Ticking
    <3> QED
      BY <1>1, <1>2, <3>1, Zenon DEF Ticking, TickSteps
  <2> QED
    BY <1>3, <2>1, <2>2, Zenon
<1>6. LoopTypes'
  BY <1>1, <1>4, <1>5, Zenon DEF LoopTypes
<1>7. \A j : OpenOccurrence(j)' => OpenOccurrence(j) \/ j = k
  BY <1>4, Zenon DEF OpenOccurrence, Keys, Terminal
<1>8. ASSUME OneAtATime PROVE Alone'
  <2>1. (\A j : ~OpenOccurrence(j)) /\ rest = <<>>
    BY <1>1, <1>8, Zenon DEF LoopInv, Alone
  <2> QED
    BY <1>5, <1>7, <2>1, Zenon DEF Alone
<1> QED
  BY <1>6, <1>8, Zenon DEF LoopInv, OneAtATime

\* The publish: with one occurrence per tick it is the tick's last step.
LEMMA ExposeKeeps ==
  ASSUME LoopInv, ExposeOccurrence
  PROVE  LoopInv'
<1> DEFINE rest == Tail(tick.todo)
<1>1. /\ LoopTypes /\ tick # NoTask /\ Ticking(tick) /\ tick.at = "expose"
      /\ UNCHANGED <<active, minute, ledger, phase>>
      /\ tick.todo \in Seq(Schedule) /\ tick.todo # <<>> /\ rest \in Seq(Schedule)
  BY DEF ExposeOccurrence, LoopInv, LoopTypes, Ticking, tables
<1>2. CASE rest = <<>>
  <2>1. tick' = NoTask
    BY <1>2, Zenon DEF ExposeOccurrence
  <2> QED
    BY <1>1, <2>1, TickMoves, Zenon
<1>3. CASE rest # <<>>
  <2>1. tick' = [tick EXCEPT !.at = "create", !.todo = rest]
    BY <1>3, Zenon DEF ExposeOccurrence
  <2>2. tick' = [at |-> "create", rev |-> tick.rev, now |-> tick.now, todo |-> rest]
    BY <1>1, <2>1, Zenon DEF Ticking
  <2>3. ~OneAtATime
    BY <1>1, <1>3, Zenon DEF LoopInv, Alone
  <2> HIDE DEF rest
  <2>4. Ticking(tick')
    BY <1>1, <1>3, <2>2, Zenon DEF Ticking, TickSteps
  <2>5. LoopTypes'
    BY <1>1, <2>4, Zenon DEF LoopTypes, Once
  <2> QED
    BY <2>3, <2>5, Zenon DEF LoopInv, OneAtATime
<1> QED
  BY <1>2, <1>3, Zenon

\* The other steps of a tick fire nothing.
LEMMA EarlyTickKeeps ==
  ASSUME LoopInv, TickStarts \/ repairOpenRuns \/ Publish \/ TickFails
  PROVE  LoopInv'
<1>1. LoopTypes /\ UNCHANGED <<active, minute, ledger, phase>>
  BY Zenon DEF TickStarts, repairOpenRuns, Publish, TickFails, LoopInv, tables
<1>2. CASE TickStarts
  <2>1. tick' = [at |-> "repair", rev |-> active, now |-> minute, todo |-> <<>>]
    BY <1>2, Zenon DEF TickStarts
  <2>2. Ticking(tick') /\ tick'.at \notin {"create", "expose"}
    BY <1>1, <2>1, Zenon DEF LoopTypes, Ticking, TickSteps
  <2> QED
    BY <1>1, <2>2, TickMoves, Zenon
<1>3. CASE repairOpenRuns
  <2>1. PICK at \in {"count", "publish"} : tick' = [tick EXCEPT !.at = at, !.todo = OpenRuns]
    BY <1>3, Zenon DEF repairOpenRuns
  <2>2. Ticking(tick)
    BY <1>1, <1>3, Zenon DEF repairOpenRuns, LoopTypes
  <2>3. tick' = [at |-> at, rev |-> tick.rev, now |-> tick.now, todo |-> OpenRuns]
    BY <2>1, <2>2, Zenon DEF Ticking
  <2>4. Ticking(tick') /\ tick'.at \notin {"create", "expose"}
    BY <2>2, <2>3, Zenon DEF Ticking, TickSteps
  <2> QED
    BY <1>1, <2>4, TickMoves, Zenon
<1>4. CASE Publish
  <2>1. PICK at \in {"count", "publish"} : tick' = [tick EXCEPT !.todo = Tail(@), !.at = at]
    BY <1>4, Zenon DEF Publish
  <2>2. Ticking(tick)
    BY <1>1, <1>4, Zenon DEF Publish, LoopTypes
  <2>3. tick' = [at |-> at, rev |-> tick.rev, now |-> tick.now, todo |-> Tail(tick.todo)]
    BY <2>1, <2>2, Zenon DEF Ticking
  <2>4. Ticking(tick') /\ tick'.at \notin {"create", "expose"}
    BY <2>2, <2>3, Zenon DEF Ticking, TickSteps
  <2> QED
    BY <1>1, <2>4, TickMoves
<1>5. CASE TickFails
  <2>1. tick' = NoTask
    BY <1>5, Zenon DEF TickFails
  <2> QED
    BY <1>1, <2>1, TickMoves, Zenon
<1> QED
  BY <1>2, <1>3, <1>4, <1>5, Zenon

\* The definition, the clock, the API, the cache and the rest of a sweep touch
\* neither a row nor the tick.
LEMMA ElsewhereKeeps ==
  ASSUME LoopInv,
         \/ ProjectDefinition \/ MinutePasses \/ SweepStarts \/ PrunableRuns \/ Remove \/ SweepFails
         \/ \E m \in Manuals : TriggerManual(m)
         \/ \E k \in Manual : ObserveRun(k)
  PROVE  LoopInv'
<1>1. UNCHANGED <<ledger, phase, tick>>
  BY Zenon DEF ProjectDefinition, MinutePasses, SweepStarts, PrunableRuns, Remove, SweepFails,
         TriggerManual, ObserveRun, tables
<1>2. active' \in RevisionIds
  BY Zenon DEF ProjectDefinition, MinutePasses, SweepStarts, PrunableRuns, Remove, SweepFails,
         TriggerManual, ObserveRun, tables, LoopInv, LoopTypes
<1>3. minute' \in Minutes
  <2>1. minute' = minute \/ (minute < MaxMinute /\ minute' = minute + 1)
    BY Zenon DEF ProjectDefinition, MinutePasses, SweepStarts, PrunableRuns, Remove, SweepFails,
           TriggerManual, ObserveRun
  <2> QED
    BY <2>1, LoopConstants DEF LoopInv, LoopTypes, Minutes
<1> QED
  BY <1>1, <1>2, <1>3, QuietKeeps, Zenon

-----------------------------------------------------------------------------
(* The theorems. *)

\* Every step keeps the invariant.
LEMMA LoopStep ==
  ASSUME LoopInv, [Next]_vars
  PROVE  LoopInv'
<1>1. ASSUME NEW k \in Keys, RunMoves(k) PROVE LoopInv'
  BY <1>1, RunMovesKeeps, Zenon
<1>2. ASSUME NEW k \in Manual, materializeManualRun(k) PROVE LoopInv'
  BY <1>2, MaterializeKeepsLoop
<1>3. CASE UNCHANGED vars
  BY <1>3, QuietKeeps, Zenon DEF vars, tables, LoopInv, LoopTypes
<1> QED
  BY <1>1, <1>2, <1>3, SelectKeeps, CreateOccurrenceKeeps, ExposeKeeps, EarlyTickKeeps,
     DeleteKeeps, ElsewhereKeeps, Zenon
  DEF Next, TickNext, SweepNext

\* The loops keep the ledger's keys unique and typed, and under Forbid at most
\* one occurrence open.
THEOREM LoopInvariance == Spec => []LoopInv
<1>1. Init => LoopInv
  <2> SUFFICES ASSUME Init PROVE LoopInv
    BY Zenon
  <2>1. Rows = {} /\ ledger = <<>> /\ tick = NoTask
    BY DEF Init, Rows
  <2>2. LoopTypes
    BY <2>1, LoopConstants DEF Init, LoopTypes, Once, Minutes, LoopPhases
  <2> QED
    BY <2>1, <2>2, Zenon DEF LoopInv, Alone, OpenOccurrence
<1> QED
  BY <1>1, LoopStep, PTL DEF Spec

\* concurrencyAllows (schedule.go:350), for any schedule, grace and misfire
\* policies: while every revision says Forbid and a tick catches up on at most
\* one occurrence, no two scheduled runs are open at once.
THEOREM ForbidAlwaysHolds == Spec => []ForbidNeverStacks
<1>1. LoopInv => ForbidNeverStacks
  <2> SUFFICES ASSUME LoopInv, OneAtATime
               PROVE  Cardinality({k \in Rows \cap Scheduled : ~Terminal(phase[k])}) <= 1
    BY Zenon DEF ForbidNeverStacks, OneAtATime
  <2> DEFINE open == {k \in Rows \cap Scheduled : ~Terminal(phase[k])}
  <2>1. \A j, k \in open : j = k
    BY Zenon DEF LoopInv, Alone, OpenOccurrence
  <2> HIDE DEF open
  <2>2. CASE open = {}
    BY <2>2, FS_EmptySet DEF open
  <2>3. CASE open # {}
    <3>1. PICK k \in open : TRUE
      BY <2>3, Zenon
    <3>2. open = {k}
      BY <2>1, <3>1, Zenon
    <3>3. Cardinality(open) = 1
      BY <3>2, FS_Singleton, Zenon
    <3> QED
      BY <3>3 DEF open
  <2> QED
    BY <2>2, <2>3, Zenon
<1> QED
  BY <1>1, LoopInvariance, PTL

\* DeleteRun's predicate (control_plane_repository.go:800), for any number of
\* runs and however long ago the sweep listed them: a row that goes was finished.
THEOREM OnlyFinishedPruned == Spec => OnlyFinishedRunsPruned
<1>1. LoopInv /\ [Next]_vars => [\A k \in Rows : k \notin Rows' => Terminal(phase[k])]_vars
  <2> SUFFICES ASSUME LoopInv, Next
               PROVE  \A k \in Rows : k \notin Rows' => Terminal(phase[k])
    BY Zenon DEF vars
  <2>1. LoopTypes
    BY Zenon DEF LoopInv
  <2>2. CASE DeleteRun
    <3>1. CASE UNCHANGED ledger
      BY <3>1, Zenon DEF Rows
    <3>2. CASE ledger' # ledger
      BY <2>1, <2>2, <3>2, DeleteTakes, Zenon
    <3> QED
      BY <3>1, <3>2, Zenon
  <2>3. CASE CreateOccurrence
    <3>1. PICK k \in Keys : CreateRow(k)
      BY <2>1, <2>3 DEF CreateOccurrence, LoopTypes, Ticking, OccurrenceKeyOf, Keys, Scheduled
    <3> QED
      BY <2>1, <3>1, CreateRowAdds, Zenon
  <2>4. ASSUME NEW k \in Manual, materializeManualRun(k) PROVE Rows' = Rows \cup {k}
    BY <2>1, <2>4, CreateRowAdds, Zenon DEF materializeManualRun, Keys
  <2>5. CASE UNCHANGED ledger
    BY <2>5 DEF Rows
  <2>6. DeleteRun \/ CreateOccurrence \/ UNCHANGED ledger \/ \E k \in Manual : materializeManualRun(k)
    BY Zenon DEF Next, TickNext, SweepNext, ProjectDefinition, MinutePasses, TriggerManual, ObserveRun,
           RunMoves, TickStarts, repairOpenRuns, Publish, Select, ExposeOccurrence, TickFails,
           SweepStarts, PrunableRuns, Remove, SweepFails, tables
  <2> QED
    BY <2>2, <2>3, <2>4, <2>5, <2>6, Zenon
<1> QED
  BY <1>1, LoopInvariance, PTL DEF Spec, OnlyFinishedRunsPruned

-----------------------------------------------------------------------------
(* Retention.  What a sweep has listed and not yet come to is as good as gone:
   the history that counts is the rest. *)

\* The runs a sweep has still to remove.
Listed == IF sweep = NoTask \/ sweep.at = "list" THEN {} ELSE {sweep.todo[n].key : n \in DOMAIN sweep.todo}

Staying == Rows \ Listed

Kept(rows, outcome, p) == {k \in rows : outcome[k] = p}

Enough(rows, outcome, p) ==
  \E g \in RevisionIds : Cardinality(Kept(rows, outcome, p)) >= KeepOf(Specs[g], p)

Entries == [key : Keys, phase : LoopPhases]

\* A sweep under way: a listing names each run once, and names rows.
Sweeping(s) ==
  /\ s = [at |-> s.at, rev |-> s.rev, todo |-> s.todo]
  /\ s.at \in {"list", "remove", "delete"}
  /\ s.at = "list" => s.rev \in RevisionIds
  /\ s.at # "list" =>
       /\ s.todo \in Seq(Entries) /\ s.todo # <<>>
       /\ \A m, n \in DOMAIN s.todo : s.todo[m].key = s.todo[n].key => m = n
       /\ \A n \in DOMAIN s.todo : s.todo[n].key \in Rows

\* Every outcome that lost a run, or is about to, keeps enough others.
HistoryInv ==
  /\ sweep # NoTask => Sweeping(sweep)
  /\ \A p \in pruned : Terminal(p) /\ Enough(Staying, phase, p)
  /\ sweep # NoTask /\ sweep.at # "list" =>
       \A n \in DOMAIN sweep.todo : Terminal(sweep.todo[n].phase) => Enough(Staying, phase, sweep.todo[n].phase)

\* A ledger has finitely many rows.
LEMMA RowsFinite ==
  ASSUME NEW s \in Seq(Keys), NEW S, \A k \in S : \E i \in DOMAIN s : s[i] = k
  PROVE  IsFiniteSet(S) /\ Cardinality(S) \in Nat
<1> DEFINE R == {s[i] : i \in 1 .. Len(s)}
<1>1. Len(s) \in Nat /\ DOMAIN s = 1 .. Len(s)
  OBVIOUS
<1>2. IsFiniteSet(1 .. Len(s))
  BY <1>1, FS_Interval
<1>3. s \in Surjection(1 .. Len(s), R)
  BY <1>1 DEF Surjection
<1>4. IsFiniteSet(R)
  BY <1>2, <1>3, FS_Surjection, Zenon
<1>5. S \subseteq R
  BY <1>1, Zenon
<1> QED
  BY <1>4, <1>5, FS_Subset, FS_CardinalityType, Zenon

\* The limits are numbers.
LEMMA KeepIsNatural ==
  ASSUME NEW g \in RevisionIds, NEW p
  PROVE  KeepOf(Specs[g], p) \in Nat
<1>1. Specs[g].keepSuccessful \in Int /\ Specs[g].keepFailed \in Int
  BY LoopConstants, Zenon
<1> QED
  BY <1>1 DEF KeepOf, historyLimit

\* More rows of an outcome are no fewer.
LEMMA EnoughGrows ==
  ASSUME NEW s \in Seq(Keys), NEW R, \A k \in R : \E i \in DOMAIN s : s[i] = k,
         NEW Q, NEW f, NEW h, NEW p, Enough(Q, f, p), Kept(Q, f, p) \subseteq Kept(R, h, p)
  PROVE  Enough(R, h, p)
<1>1. PICK g \in RevisionIds : Cardinality(Kept(Q, f, p)) >= KeepOf(Specs[g], p)
  BY Zenon DEF Enough
<1>2. IsFiniteSet(Kept(R, h, p)) /\ Cardinality(Kept(R, h, p)) \in Nat
  BY RowsFinite, Zenon DEF Kept
<1>3. Cardinality(Kept(Q, f, p)) <= Cardinality(Kept(R, h, p)) /\ Cardinality(Kept(Q, f, p)) \in Nat
  BY <1>2, FS_Subset, FS_CardinalityType, Zenon
<1>4. Cardinality(Kept(R, h, p)) >= KeepOf(Specs[g], p)
  BY <1>1, <1>2, <1>3, KeepIsNatural
<1> QED
  BY <1>4, Zenon DEF Enough

\* Some numbers up to n have a largest one.
LEMMA Largest ==
  ASSUME NEW n \in Nat, NEW T \in SUBSET (1 .. n), T # {}
  PROVE  \E x \in T : \A y \in T : y <= x
<1> DEFINE R == OpToRel(<, Nat)
           U == {n - y : y \in T}
<1>1. IsWellFoundedOn(R, Nat) /\ \A u, v \in Nat : <<v, u>> \in R <=> v < u
  BY NatLessThanWellFounded, Zenon DEF OpToRel
<1>2. U \subseteq Nat /\ U # {}
  <2>1. \A y \in T : n - y \in Nat
    OBVIOUS
  <2>2. PICK y \in T : TRUE
    BY Zenon
  <2>3. n - y \in U
    BY Zenon
  <2> QED
    BY <2>1, <2>3, Zenon
<1> HIDE DEF R
<1>3. PICK u \in U : \A v \in U : <<v, u>> \notin R
  BY <1>1, <1>2, WFMin, Zenon
<1>4. PICK x \in T : u = n - x
  BY Zenon
<1>5. \A y \in T : n - y \in U
  BY Zenon
<1> HIDE DEF U
<1>6. \A y \in T : ~(n - y < n - x)
  BY <1>1, <1>2, <1>3, <1>4, <1>5, Zenon
<1> QED
  BY <1>4, <1>6

\* The ranking: an outcome of which a row is beyond the limit has the limit of
\* rows that are not, the ones newer than the newest of those beyond it.
LEMMA NewestStay ==
  ASSUME LoopTypes, NEW g \in RevisionIds, NEW p,
         NEW beyond, beyond = Prunable(ledger, phase, {}, Specs[g]),
         NEW m \in beyond, phase[ledger[m]] = p,
         NEW rest, rest = {k \in Rows : phase[k] = p /\ \A i \in beyond : ledger[i] # k}
  PROVE  Cardinality(rest) >= KeepOf(Specs[g], p)
<1> DEFINE same == {i \in beyond : phase[ledger[i]] = p}
<1>1. Len(ledger) \in Nat /\ DOMAIN ledger = 1 .. Len(ledger) /\ ledger \in Seq(Keys)
  BY DEF LoopTypes
<1>2. same \in SUBSET (1 .. Len(ledger)) /\ same # {}
  BY <1>1, Zenon DEF Prunable
<1>3. PICK i \in same : \A j \in same : j <= i
  BY <1>1, <1>2, Largest, Zenon
<1> DEFINE newer == {j \in DOMAIN ledger : j > i /\ ledger[j] \notin {} /\ phase[ledger[j]] = phase[ledger[i]]}
<1>4. Cardinality(newer) >= KeepOf(Specs[g], p)
  BY <1>3, Zenon DEF Prunable
<1>5. \A j \in newer : ledger[j] \in rest
  <2> SUFFICES ASSUME NEW j \in newer, NEW b \in beyond, ledger[b] = ledger[j] PROVE FALSE
    BY <1>3, Zenon DEF Rows
  <2>1. b = j
    BY Zenon DEF LoopTypes, Once, Prunable
  <2>2. j \in same /\ j > i
    BY <1>3, <2>1, Zenon
  <2>3. i \in Nat /\ j \in Nat /\ j <= i
    BY <1>1, <1>2, <1>3, <2>2
  <2> QED
    BY <2>2, <2>3
<1> DEFINE f == [j \in newer |-> ledger[j]]
<1>6. f \in Injection(newer, rest)
  BY <1>5, Zenon DEF Injection, IsInjective, LoopTypes, Once
<1>7. IsFiniteSet(rest) /\ Cardinality(rest) \in Nat
  BY <1>1, RowsFinite, Zenon DEF Rows
<1> HIDE DEF newer, f
<1>8. IsFiniteSet(newer) /\ Cardinality(newer) <= Cardinality(rest)
  BY <1>6, <1>7, FS_Injection, Zenon
<1>9. Cardinality(newer) \in Nat
  BY <1>8, FS_CardinalityType, Zenon
<1> QED
  BY <1>4, <1>7, <1>8, <1>9, KeepIsNatural

\* A step that takes no row, changes no finished one and extends no listing.
LEMMA HistoryQuiet ==
  ASSUME LoopTypes, LoopTypes', HistoryInv, Rows \subseteq Rows', pruned' = pruned,
         \A k \in Rows : Terminal(phase[k]) => phase'[k] = phase[k],
         \/ sweep' = NoTask
         \/ Sweeping(sweep') /\ sweep'.at = "list"
         \/ /\ sweep # NoTask /\ sweep.at # "list" /\ sweep' # NoTask
            /\ Sweeping(sweep') /\ sweep'.at # "list" /\ sweep'.todo = sweep.todo
  PROVE  HistoryInv'
<1>1. Listed' \subseteq Listed
  BY Zenon DEF Listed
<1>2. \A k \in Staying' : \E i \in DOMAIN ledger' : ledger'[i] = k
  BY Zenon DEF Staying, Rows
<1>3. ASSUME NEW p, Terminal(p), Enough(Staying, phase, p) PROVE Enough(Staying', phase', p)
  <2>1. Kept(Staying, phase, p) \subseteq Kept(Staying', phase', p)
    BY <1>1, <1>3, Zenon DEF Kept, Staying
  <2>2. ledger' \in Seq(Keys)
    BY Zenon DEF LoopTypes
  <2> QED
    BY <1>2, <1>3, <2>1, <2>2, EnoughGrows, Zenon
<1>4. sweep' # NoTask /\ sweep'.at # "list" =>
        /\ sweep # NoTask /\ sweep.at # "list" /\ sweep'.todo = sweep.todo
  BY Zenon
<1>5. sweep' # NoTask => Sweeping(sweep)'
  BY Zenon DEF Sweeping
<1> QED
  BY <1>3, <1>4, <1>5, Zenon DEF HistoryInv, Terminal

\* A sweep that stays as it is.
LEMMA SweepUntouched ==
  ASSUME HistoryInv, sweep' = sweep
  PROVE  \/ sweep' = NoTask
         \/ Sweeping(sweep') /\ sweep'.at = "list"
         \/ /\ sweep # NoTask /\ sweep.at # "list" /\ sweep' # NoTask
            /\ Sweeping(sweep') /\ sweep'.at # "list" /\ sweep'.todo = sweep.todo
BY Zenon DEF HistoryInv

\* The listing: what it leaves out is enough of every outcome it lists.
LEMMA ListingLeavesEnough ==
  ASSUME LoopTypes, HistoryInv, PrunableRuns
  PROVE  HistoryInv'
<1> DEFINE g == sweep.rev
           beyond == Prunable(ledger, phase, {}, Specs[g])
<1>1. /\ sweep # NoTask /\ sweep.at = "list" /\ Sweeping(sweep) /\ g \in RevisionIds
      /\ UNCHANGED <<active, minute, ledger, phase, tick, pruned>>
  BY Zenon DEF PrunableRuns, HistoryInv, Sweeping, tables
<1>2. LoopTypes' /\ Rows' = Rows /\ Listed = {}
  BY <1>1, Zenon DEF LoopTypes, Once, Ticking, Rows, Listed
<1>3. CASE beyond = {}
  <2>1. sweep' = NoTask
    BY <1>3, Zenon DEF PrunableRuns
  <2> QED
    BY <1>1, <1>2, <2>1, HistoryQuiet
<1>4. CASE beyond # {}
  <2>1. PICK at \in InOrder(beyond) :
          sweep' = [sweep EXCEPT !.at = "remove", !.rev = 0,
                      !.todo = [n \in DOMAIN at |-> [key |-> ledger[at[n]], phase |-> phase[ledger[at[n]]]]]]
    BY <1>4, Zenon DEF PrunableRuns
  <2> DEFINE todo == [n \in DOMAIN at |-> [key |-> ledger[at[n]], phase |-> phase[ledger[at[n]]]]]
             N == Cardinality(beyond)
  <2>2. beyond \in SUBSET DOMAIN ledger /\ DOMAIN ledger = 1 .. Len(ledger) /\ Len(ledger) \in Nat
    BY DEF Prunable, LoopTypes
  <2>3. IsFiniteSet(beyond) /\ N \in Nat /\ N # 0
    <3>1. IsFiniteSet(1 .. Len(ledger))
      BY <2>2, FS_Interval
    <3>2. IsFiniteSet(beyond)
      BY <2>2, <3>1, FS_Subset, Zenon
    <3> QED
      BY <1>4, <3>2, FS_CardinalityType, FS_EmptySet, Zenon
  <2>4. at \in [1 .. N -> beyond] /\ \A i, j \in 1 .. N : i < j => at[i] < at[j]
    BY Zenon DEF InOrder
  <2> HIDE DEF beyond, N
  <2>5. \A i, j \in DOMAIN at : at[i] = at[j] => i = j
    <3> SUFFICES ASSUME NEW i \in 1 .. N, NEW j \in 1 .. N, at[i] = at[j] PROVE i = j
      BY <2>4, Zenon
    <3>1. at[i] \in Int /\ at[j] \in Int
      BY <2>2, <2>4
    <3> QED
      BY <2>3, <2>4, <3>1
  <2>6. \A n \in DOMAIN at : /\ at[n] \in beyond /\ ledger[at[n]] \in Rows /\ ledger[at[n]] \in Keys
                             /\ phase[ledger[at[n]]] \in LoopPhases
    <3>1. \A b \in beyond : ledger[b] \in Rows /\ ledger[b] \in Keys
      BY <2>2 DEF Rows, LoopTypes
    <3> QED
      BY <2>4, <3>1, Zenon DEF LoopTypes
  <2>7. sweep' = [at |-> "remove", rev |-> 0, todo |-> todo]
    BY <1>1, <2>1, Zenon DEF Sweeping
  <2>8. todo \in Seq(Entries) /\ todo # <<>> /\ DOMAIN todo = DOMAIN at
    <3>1. todo \in [1 .. N -> Entries]
      BY <2>4, <2>6, Zenon DEF Entries
    <3> HIDE DEF todo
    <3> QED
      BY <2>3, <2>4, <3>1
  <2>9. \A m, n \in DOMAIN todo : todo[m].key = todo[n].key => m = n
    BY <2>5, <2>6, <2>2, <2>8, Zenon DEF LoopTypes, Once
  <2>10. sweep' # NoTask => Sweeping(sweep)'
    BY <1>2, <2>6, <2>7, <2>8, <2>9, Zenon DEF Sweeping
  <2>11. \A k \in Listed' : \E b \in beyond : ledger[b] = k
    BY <2>6, <2>7, <2>8, Zenon DEF Listed
  <2>12. /\ \A k \in Staying' : \E i \in DOMAIN ledger' : ledger'[i] = k
         /\ ledger' \in Seq(Keys)
    BY <1>2, Zenon DEF Staying, Rows, LoopTypes
  <2>13. ASSUME NEW b \in beyond, NEW p, phase[ledger[b]] = p PROVE Enough(Staying', phase', p)
    <3> DEFINE rest == {k \in Rows : phase[k] = p /\ \A i \in beyond : ledger[i] # k}
    <3>1. Cardinality(rest) >= KeepOf(Specs[g], p)
      BY <1>1, <2>13, NewestStay DEF beyond
    <3>2. Kept(rest, phase, p) = rest /\ rest \subseteq Kept(Staying', phase', p)
      BY <1>1, <1>2, <2>11, Zenon DEF Kept, Staying
    <3>3. Enough(rest, phase, p)
      BY <1>1, <3>1, <3>2, Zenon DEF Enough
    <3> QED
      BY <2>12, <3>2, <3>3, EnoughGrows, Zenon
  <2>14. ASSUME NEW p \in pruned' PROVE Terminal(p) /\ Enough(Staying', phase', p)
    <3>1. p \in pruned /\ Terminal(p) /\ Enough(Staying, phase, p)
      BY <1>1, <2>14, Zenon DEF HistoryInv
    <3>2. CASE \E b \in beyond : phase[ledger[b]] = p
      BY <2>13, <3>1, <3>2, Zenon
    <3>3. CASE \A b \in beyond : phase[ledger[b]] # p
      <4>1. Kept(Staying, phase, p) \subseteq Kept(Staying', phase', p)
        BY <1>1, <1>2, <2>11, <3>3, Zenon DEF Kept, Staying
      <4> QED
        BY <2>12, <3>1, <4>1, EnoughGrows, Zenon
    <3> QED
      BY <3>2, <3>3, Zenon
  <2>15. \A n \in DOMAIN sweep'.todo : Enough(Staying', phase', sweep'.todo[n].phase)
    BY <2>6, <2>7, <2>8, <2>13, Zenon
  <2> QED
    BY <2>10, <2>14, <2>15, Zenon DEF HistoryInv, Terminal
<1> QED
  BY <1>3, <1>4, Zenon

\* The delete: the run was listed, so no history that counts is lost with it.
LEMMA DeleteLeavesEnough ==
  ASSUME LoopTypes, LoopTypes', HistoryInv, DeleteRun
  PROVE  HistoryInv'
<1> DEFINE k == Head(sweep.todo).key
           rest == Tail(sweep.todo)
           taken == k \in Rows /\ Deletable(k)
<1>1. /\ sweep # NoTask /\ sweep.at = "delete" /\ Sweeping(sweep)
      /\ sweep.todo \in Seq(Entries) /\ sweep.todo # <<>>
      /\ \A m, n \in DOMAIN sweep.todo : sweep.todo[m].key = sweep.todo[n].key => m = n
      /\ \A n \in DOMAIN sweep.todo : sweep.todo[n].key \in Rows
  BY Zenon DEF DeleteRun, HistoryInv, Sweeping
<1>2. /\ 1 \in DOMAIN sweep.todo /\ Head(sweep.todo) = sweep.todo[1] /\ k \in Keys
      /\ rest \in Seq(Entries)
      /\ \A n \in DOMAIN rest : /\ n \in Nat /\ n + 1 \in DOMAIN sweep.todo /\ n + 1 # 1
                                /\ rest[n] = sweep.todo[n + 1]
  <2> DEFINE t == sweep.todo
  <2>1. t \in Seq(Entries) /\ t # <<>>
    BY <1>1, Zenon
  <2> HIDE DEF t
  <2>2. 1 \in DOMAIN t /\ Head(t) = t[1] /\ Head(t) \in Entries /\ Tail(t) \in Seq(Entries)
    BY <2>1
  <2>3. \A n \in DOMAIN Tail(t) : n \in Nat /\ n + 1 \in DOMAIN t /\ n + 1 # 1 /\ Tail(t)[n] = t[n + 1]
    BY <2>1
  <2>4. Head(t).key \in Keys
    BY <2>2, Zenon DEF Entries
  <2> QED
    BY <2>2, <2>3, <2>4, Zenon DEF t
<1>3. sweep' = IF rest = <<>> THEN NoTask ELSE [sweep EXCEPT !.at = "remove", !.todo = rest]
  BY Zenon DEF DeleteRun
<1>4. ledger' \in Seq(Keys) /\ phase \in [Keys -> LoopPhases] /\ Rows \subseteq Keys
  BY DEF LoopTypes, Rows
<1>5. /\ Rows' = IF taken THEN Rows \ {k} ELSE Rows
      /\ phase' = IF taken THEN [phase EXCEPT ![k] = "none"] ELSE phase
      /\ pruned' = IF taken THEN pruned \cup ({phase[k]} \cap {Head(sweep.todo).phase}) ELSE pruned
  <2>1. CASE ~taken
    BY <2>1, Zenon DEF DeleteRun, Rows
  <2>2. CASE taken
    <3>1. PICK i \in DOMAIN ledger : ledger[i] = k /\ ledger' = WithoutRow(i)
      BY <2>2, Zenon DEF DeleteRun
    <3>2. /\ phase' = [phase EXCEPT ![k] = "none"]
          /\ pruned' = pruned \cup ({phase[k]} \cap {Head(sweep.todo).phase})
      BY <2>2, Zenon DEF DeleteRun
    <3> HIDE DEF k
    <3>3. \A j : (\E n \in DOMAIN ledger' : ledger'[n] = j) <=> j \in Rows /\ j # k
      BY <3>1, RowRemoved
    <3>4. Rows' = Rows \ {k}
      BY <3>3, Zenon DEF Rows
    <3> QED
      BY <2>2, <3>2, <3>4, Zenon
  <2> QED
    BY <2>1, <2>2, Zenon
<1>6. sweep' # NoTask =>
        /\ rest # <<>> /\ sweep' = [at |-> "remove", rev |-> sweep.rev, todo |-> rest]
        /\ sweep'.at = "remove" /\ sweep'.todo = rest
  BY <1>1, <1>3, Zenon DEF Sweeping
<1>7. taken => Terminal(phase[k])
  BY Zenon DEF Deletable
<1> HIDE DEF k, rest, taken
<1>8. \A n \in DOMAIN rest : rest[n].key # k /\ \E m \in DOMAIN sweep.todo : rest[n] = sweep.todo[m]
  BY <1>1, <1>2, Zenon DEF k
<1>9. \A m, n \in DOMAIN rest : rest[m].key = rest[n].key => m = n
  <2> SUFFICES ASSUME NEW m \in DOMAIN rest, NEW n \in DOMAIN rest, rest[m].key = rest[n].key PROVE m = n
    BY Zenon
  <2>1. m + 1 = n + 1
    BY <1>1, <1>2
  <2> QED
    BY <1>2, <2>1
<1>10. sweep' # NoTask => Sweeping(sweep)'
  <2>1. \A n \in DOMAIN rest : rest[n].key \in Rows'
    BY <1>1, <1>5, <1>8, Zenon
  <2> QED
    BY <1>2, <1>6, <1>9, <2>1 DEF Sweeping
<1>11. Listed' \subseteq Listed /\ k \in Listed
  <2>1. Listed = {sweep.todo[n].key : n \in DOMAIN sweep.todo}
    BY <1>1, Zenon DEF Listed
  <2>2. \A j \in Listed' : \E n \in DOMAIN rest : j = rest[n].key
    BY <1>6, Zenon DEF Listed
  <2>3. \A n \in DOMAIN sweep.todo : sweep.todo[n].key \in Listed
    BY <2>1, Zenon
  <2>4. ASSUME NEW j \in Listed' PROVE j \in Listed
    <3>1. PICK n \in DOMAIN rest : j = rest[n].key
      BY <2>2, <2>4, Zenon
    <3>2. PICK m \in DOMAIN sweep.todo : rest[n] = sweep.todo[m]
      BY <1>8, Zenon
    <3> QED
      BY <2>3, <3>1, <3>2, Zenon
  <2> QED
    BY <1>2, <2>3, <2>4, Zenon DEF k
<1>12. ASSUME NEW p, Enough(Staying, phase, p) PROVE Enough(Staying', phase', p)
  <2>1. Kept(Staying, phase, p) \subseteq Kept(Staying', phase', p)
    BY <1>4, <1>5, <1>11, Zenon DEF Kept, Staying
  <2>2. \A j \in Staying' : \E i \in DOMAIN ledger' : ledger'[i] = j
    BY Zenon DEF Staying, Rows
  <2> QED
    BY <1>4, <1>12, <2>1, <2>2, EnoughGrows, Zenon
<1>13. \A n \in DOMAIN sweep.todo : Terminal(sweep.todo[n].phase) => Enough(Staying, phase, sweep.todo[n].phase)
  BY <1>1, Zenon DEF HistoryInv
<1>14. ASSUME NEW p \in pruned' PROVE Terminal(p) /\ Enough(Staying', phase', p)
  <2>1. p \in pruned \/ (taken /\ p = phase[k] /\ p = sweep.todo[1].phase)
    BY <1>2, <1>5, <1>14, Zenon
  <2>2. Terminal(p) /\ Enough(Staying, phase, p)
    BY <1>2, <1>7, <1>13, <2>1, Zenon DEF HistoryInv
  <2> QED
    BY <1>12, <2>2, Zenon
<1>15. sweep' # NoTask =>
         \A n \in DOMAIN sweep'.todo :
           Terminal(sweep'.todo[n].phase) => Enough(Staying', phase', sweep'.todo[n].phase)
  BY <1>6, <1>8, <1>12, <1>13, Zenon
<1> QED
  BY <1>10, <1>14, <1>15, Zenon DEF HistoryInv, Terminal

\* Every step keeps the history.
LEMMA HistoryStep ==
  ASSUME LoopInv, LoopInv', HistoryInv, [Next]_vars
  PROVE  HistoryInv'
<1>1. LoopTypes /\ LoopTypes'
  BY Zenon DEF LoopInv
<1>2. ASSUME Rows \subseteq Rows', UNCHANGED <<sweep, pruned>>,
             \A k \in Rows : Terminal(phase[k]) => phase'[k] = phase[k]
      PROVE  HistoryInv'
  BY <1>1, <1>2, SweepUntouched, HistoryQuiet, Zenon
<1>3. ASSUME UNCHANGED <<ledger, phase, sweep, pruned>> PROVE HistoryInv'
  BY <1>2, <1>3, Zenon DEF Rows
<1>4. ASSUME NEW k \in Keys, CreateRow(k), UNCHANGED <<sweep, pruned>> PROVE HistoryInv'
  <2>1. Rows' = Rows \cup {k} /\ \A j \in Keys : j # k \/ k \in Rows => phase'[j] = phase[j]
    BY <1>1, <1>4, CreateRowAdds, Zenon
  <2>2. Rows \subseteq Keys
    BY <1>1 DEF LoopTypes, Rows
  <2> QED
    BY <1>2, <1>4, <2>1, <2>2, Zenon
<1>5. ASSUME NEW k \in Keys, RunMoves(k) PROVE HistoryInv'
  <2>1. /\ UNCHANGED <<ledger, sweep, pruned>> /\ ~Terminal(phase[k])
        /\ \E p \in LoopPhases : phase' = [phase EXCEPT ![k] = p]
    BY <1>5, Zenon DEF RunMoves, Terminal, LoopPhases
  <2>2. \A j \in Keys : j # k => phase'[j] = phase[j]
    BY <1>1, <2>1, Zenon DEF LoopTypes
  <2>3. Rows' = Rows /\ Rows \subseteq Keys
    BY <1>1, <2>1 DEF LoopTypes, Rows
  <2> QED
    BY <1>2, <2>1, <2>2, <2>3, Zenon
<1>6. CASE CreateOccurrence
  <2>1. PICK k \in Keys : CreateRow(k)
    BY <1>1, <1>6 DEF CreateOccurrence, LoopTypes, Ticking, OccurrenceKeyOf, Keys, Scheduled
  <2> QED
    BY <1>4, <1>6, <2>1, Zenon DEF CreateOccurrence
<1>7. ASSUME NEW k \in Manual, materializeManualRun(k) PROVE HistoryInv'
  BY <1>4, <1>7, Zenon DEF materializeManualRun, Keys
<1>8. CASE SweepStarts
  <2>1. /\ UNCHANGED <<ledger, phase, pruned>> /\ active \in RevisionIds
        /\ sweep' = [at |-> "list", rev |-> active, todo |-> <<>>]
    BY <1>1, <1>8, Zenon DEF SweepStarts, tables, LoopTypes
  <2>2. Sweeping(sweep') /\ sweep'.at = "list" /\ Rows' = Rows
    BY <2>1, Zenon DEF Sweeping, Rows
  <2> QED
    BY <1>1, <2>1, <2>2, HistoryQuiet, Zenon
<1>9. CASE SweepFails
  <2>1. UNCHANGED <<ledger, phase, pruned>> /\ sweep' = NoTask
    BY <1>9, Zenon DEF SweepFails, tables
  <2> QED
    BY <1>1, <2>1, HistoryQuiet, Zenon DEF Rows
<1>10. CASE Remove
  <2>1. /\ UNCHANGED <<ledger, phase, pruned>> /\ sweep # NoTask /\ sweep.at = "remove" /\ Sweeping(sweep)
        /\ sweep' = [sweep EXCEPT !.at = "delete"]
    BY <1>10, Zenon DEF Remove, tables, HistoryInv
  <2>2. sweep' = [at |-> "delete", rev |-> sweep.rev, todo |-> sweep.todo]
    BY <2>1, Zenon DEF Sweeping
  <2>3. Sweeping(sweep') /\ sweep'.at # "list" /\ sweep'.todo = sweep.todo /\ Rows' = Rows
    BY <2>1, <2>2 DEF Sweeping, Rows
  <2> QED
    BY <1>1, <2>1, <2>3, HistoryQuiet, Zenon
<1>11. \/ UNCHANGED <<ledger, phase, sweep, pruned>>
       \/ CreateOccurrence \/ SweepStarts \/ SweepFails \/ Remove \/ PrunableRuns \/ DeleteRun
       \/ \E k \in Keys : RunMoves(k)
       \/ \E k \in Manual : materializeManualRun(k)
  BY Zenon DEF Next, TickNext, SweepNext, ProjectDefinition, MinutePasses, TriggerManual, ObserveRun,
         TickStarts, repairOpenRuns, Publish, Select, ExposeOccurrence, TickFails, tables, vars
<1> QED
  BY <1>1, <1>3, <1>5, <1>6, <1>7, <1>8, <1>9, <1>10, <1>11, ListingLeavesEnough, DeleteLeavesEnough, Zenon

\* PrunableRuns and DeleteRun (control_plane_repository.go:764, 800), for any
\* limits, any number of runs and revisions, and any time between listing and
\* delete: an outcome of which retention removed a run keeps the limit of runs
\* that some revision of the definition asks for.
THEOREM HistoryAlwaysKept == Spec => []HistoryKept
<1>1. Init => HistoryInv
  BY Zenon DEF Init, HistoryInv
<1>2. LoopInv /\ LoopInv' /\ HistoryInv /\ [Next]_vars => HistoryInv'
  BY HistoryStep, Zenon
<1>3. LoopInv /\ HistoryInv => HistoryKept
  <2> SUFFICES ASSUME LoopTypes, HistoryInv, NEW p \in pruned
               PROVE  \E g \in RevisionIds : Cardinality({k \in Rows : phase[k] = p}) >= KeepOf(Specs[g], p)
    BY Zenon DEF HistoryKept, LoopInv
  <2>1. Enough(Staying, phase, p) /\ Kept(Staying, phase, p) \subseteq Kept(Rows, phase, p)
    BY Zenon DEF HistoryInv, Kept, Staying
  <2>2. ledger \in Seq(Keys) /\ \A k \in Rows : \E i \in DOMAIN ledger : ledger[i] = k
    BY Zenon DEF LoopTypes, Rows
  <2>3. Enough(Rows, phase, p)
    BY <2>1, <2>2, EnoughGrows, Zenon
  <2> QED
    BY <2>3, Zenon DEF Enough, Kept
<1> QED
  BY <1>1, <1>2, <1>3, LoopInvariance, PTL DEF Spec

=============================================================================
