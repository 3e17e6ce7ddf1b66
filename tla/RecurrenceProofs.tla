---------------------------- MODULE RecurrenceProofs ----------------------------
(***************************************************************************)
(* Proofs about Recurrence: for any rules, offsets of the local clock,     *)
(* instant of its shift and delay of a fire.                               *)
(***************************************************************************)
EXTENDS Recurrence, TLAPS

\* The hours of a local day.
HourOf(local) == local % 24
DayOf(local)  == local \div 24

\* The slot in hand was computed at `now`.
ChainInv ==
    /\ zone \in Zones /\ rule \in Rules /\ now \in Int
    /\ slot = NextRecurrence(rule, now)

----------------------------------------------------------------------------
(* Days and hours.                                                         *)

\* An instant is its day and its hour.
LEMMA DayAndHour ==
  ASSUME NEW x \in Int
  PROVE  /\ DayOf(x) \in Int /\ HourOf(x) \in 0..23
         /\ x = 24 * DayOf(x) + HourOf(x)
BY DEF DayOf, HourOf

\* And the other way round.
LEMMA HourOfDay ==
  ASSUME NEW d \in Int, NEW h \in 0..23
  PROVE  DayOf(24 * d + h) = d /\ HourOf(24 * d + h) = h
BY DEF DayOf, HourOf

\* Days added do not change the hour, whatever is then added to it.
LEMMA SameHour ==
  ASSUME NEW d \in Int, NEW x \in Int
  PROVE  HourOf(24 * d + x) = HourOf(x)
BY DEF HourOf

\* Of seven days in a row one is a given day of the week.
LEMMA OneOfSeven ==
  ASSUME NEW d \in Int, NEW weekday \in 0..6
  PROVE  \E k \in 1..7 : (d + k) % 7 = weekday
OBVIOUS

----------------------------------------------------------------------------
(* The loop of next_recurrence ends, at the first day it does not refuse.  *)

LEMMA Typed ==
  ASSUME zone \in Zones, NEW x \in Int
  PROVE  Offset(x) \in Int
BY RecurrenceAssumption DEF Offset, Zones

LEMMA RuleOnWallClock ==
  ASSUME NEW r \in Rules, r.kind \in {"daily", "weekly"}
  PROVE  r.hour \in 0..23 /\ (r.kind = "weekly" => r.weekday \in 0..6)
BY RecurrenceAssumption DEF Rules

\* What is refused on the k-th day.
LEMMA RefusedMeans ==
  ASSUME NEW r \in Rules, r.kind \in {"daily", "weekly"}, NEW local \in Int, NEW k \in Int
  PROVE  /\ Candidate(local, r.hour, k) = 24 * (DayOf(local) + k) + r.hour
         /\ Refused(r, local, k) <=>
              \/ 24 * (DayOf(local) + k) + r.hour <= local
              \/ r.kind = "weekly" /\ (DayOf(local) + k) % 7 # r.weekday
<1>1. Candidate(local, r.hour, k) = 24 * (DayOf(local) + k) + r.hour
  BY DEF Candidate, DayOf
<1>2. DayOf(local) + k \in Int /\ r.hour \in 0..23
  BY DayAndHour, RuleOnWallClock
<1>3. Candidate(local, r.hour, k) \div 24 = DayOf(local) + k
  BY <1>1, <1>2, HourOfDay DEF DayOf
<1> QED
  BY <1>1, <1>3 DEF Refused, Passed

\* The first of the days 0..7 that is not refused.
FirstDay(r, local, k) ==
    k \in 0..7 /\ ~Refused(r, local, k) /\ \A m \in 0..(k - 1) : Refused(r, local, m)

LEMMA OneIsLeast ==
  ASSUME NEW days, days \subseteq 0..7, days # {}
  PROVE  \E first \in days : \A k \in days : first <= k
<1> SUFFICES ASSUME \A n \in days : \E k \in days : k < n PROVE FALSE
  OBVIOUS
<1>1. 0 \notin days
  OBVIOUS
<1>2. 1 \notin days
  BY <1>1
<1>3. 2 \notin days
  BY <1>1, <1>2
<1>4. 3 \notin days
  BY <1>1, <1>2, <1>3
<1>5. 4 \notin days
  BY <1>1, <1>2, <1>3, <1>4
<1>6. 5 \notin days
  BY <1>1, <1>2, <1>3, <1>4, <1>5
<1>7. 6 \notin days
  BY <1>1, <1>2, <1>3, <1>4, <1>5, <1>6
<1>8. 7 \notin days
  BY <1>1, <1>2, <1>3, <1>4, <1>5, <1>6, <1>7
<1>9. PICK n \in days : TRUE
  OBVIOUS
<1>10. n \in 0..7
  BY <1>9
<1>11. \/ n = 0 \/ n = 1 \/ n = 2 \/ n = 3 \/ n = 4 \/ n = 5 \/ n = 6 \/ n = 7
  BY <1>10
<1> QED
  BY <1>1, <1>2, <1>3, <1>4, <1>5, <1>6, <1>7, <1>8, <1>9, <1>11

LEMMA SomeDayIsFirst ==
  ASSUME NEW r \in Rules, r.kind \in {"daily", "weekly"}, NEW local \in Int
  PROVE  \E k \in 0..7 : FirstDay(r, local, k)
<1> DEFINE Days == {k \in 0..7 : ~Refused(r, local, k)}
<1>1. DayOf(local) \in Int /\ local = 24 * DayOf(local) + HourOf(local) /\ HourOf(local) \in 0..23
  BY DayAndHour
<1>2. r.hour \in 0..23 /\ (r.kind = "weekly" => r.weekday \in 0..6)
  BY RuleOnWallClock
<1>3. PICK k \in 1..7 : r.kind = "weekly" => (DayOf(local) + k) % 7 = r.weekday
  BY <1>1, <1>2, OneOfSeven
<1>4. ~Refused(r, local, k)
  BY <1>1, <1>2, <1>3, RefusedMeans
<1>5. Days \subseteq 0..7 /\ Days # {}
  BY <1>4
<1>6. PICK first \in Days : \A m \in Days : first <= m
  BY <1>5, OneIsLeast
<1>7. \A m \in 0..(first - 1) : Refused(r, local, m)
  BY <1>6
<1> QED
  BY <1>6, <1>7 DEF FirstDay

\* What next_recurrence returns for a daily or weekly rule.
LEMMA NextIs ==
  ASSUME zone \in Zones, NEW r \in Rules, r.kind \in {"daily", "weekly"}, NEW after \in Int
  PROVE  \E k \in 0..7 :
            /\ FirstDay(r, after + Offset(after), k)
            /\ NextRecurrence(r, after)
                 = 24 * (DayOf(after + Offset(after)) + k) + r.hour - Offset(after)
<1> DEFINE local == after + Offset(after)
           first == CHOOSE n \in 0..7 : /\ ~Refused(r, local, n)
                                        /\ \A m \in 0..(n - 1) : Refused(r, local, m)
<1>1. local \in Int
  BY Typed
<1>2. FirstDay(r, local, first)
  BY <1>1, SomeDayIsFirst DEF FirstDay
<1>3. NextRecurrence(r, after) = Candidate(local, r.hour, first) - Offset(after)
  BY DEF NextRecurrence, NextOnLocalClock
<1> HIDE DEF local, first
<1>4. first \in Int /\ first \in 0..7
  BY <1>2 DEF FirstDay
<1>5. Candidate(local, r.hour, first) = 24 * (DayOf(local) + first) + r.hour
  BY <1>1, <1>4, RefusedMeans
<1>6. FirstDay(r, after + Offset(after), first)
  BY <1>2 DEF local
<1>7. NextRecurrence(r, after)
        = 24 * (DayOf(after + Offset(after)) + first) + r.hour - Offset(after)
  <2>1. Offset(after) \in Int /\ DayOf(local) + first \in Int /\ r.hour \in 0..23
    BY <1>1, <1>4, Typed, DayAndHour, RuleOnWallClock
  <2>2. NextRecurrence(r, after) = 24 * (DayOf(local) + first) + r.hour - Offset(after)
    BY <1>3, <1>5, <2>1
  <2> QED
    BY <2>2 DEF local
<1> QED
  BY <1>4, <1>6, <1>7

\* Every slot is an instant.
LEMMA SlotIsInstant ==
  ASSUME zone \in Zones, NEW r \in Rules, NEW after \in Int
  PROVE  NextRecurrence(r, after) \in Int
<1>1. CASE r.kind = "every"
  <2>1. r \in [kind : {"every"}, hours : Intervals]
    BY <1>1 DEF Rules
  <2>2. r.hours \in Nat
    BY <2>1, RecurrenceAssumption
  <2> QED
    BY <1>1, <2>2 DEF NextRecurrence
<1>2. CASE r.kind \in {"daily", "weekly"}
  <2>1. /\ Offset(after) \in Int /\ DayOf(after + Offset(after)) \in Int /\ r.hour \in 0..23
    BY <1>2, Typed, DayAndHour, RuleOnWallClock
  <2>2. PICK k \in 0..7 :
           NextRecurrence(r, after)
             = 24 * (DayOf(after + Offset(after)) + k) + r.hour - Offset(after)
    BY <1>2, NextIs
  <2> QED
    BY <2>1, <2>2
<1> QED
  BY <1>1, <1>2 DEF Rules

----------------------------------------------------------------------------
LEMMA ChainBegins == Init => ChainInv
BY DEF Init, ChainInv

LEMMA ChainGoesOn == ChainInv /\ [Fire]_vars => ChainInv'
<1> SUFFICES ASSUME ChainInv, [Fire]_vars PROVE ChainInv'
  OBVIOUS
<1>1. CASE Fire
  <2>1. PICK late \in 0..MaxLate :
           now' = slot + late /\ slot' = NextRecurrence(rule, now') /\ UNCHANGED <<zone, rule>>
    BY <1>1 DEF Fire
  <2>2. slot \in Int /\ MaxLate \in Nat
    BY SlotIsInstant, RecurrenceAssumption DEF ChainInv
  <2>3. now' \in Int
    BY <2>1, <2>2
  <2>4. slot' = NextRecurrence(rule, now)'
    BY <2>1 DEF NextRecurrence, NextOnLocalClock, Refused, Candidate, Passed, Offset
  <2> QED
    BY <2>1, <2>3, <2>4 DEF ChainInv, Zones, Rules
<1>2. CASE UNCHANGED vars
  BY <1>2 DEF vars, ChainInv, NextRecurrence, NextOnLocalClock, Refused, Candidate,
              Passed, Offset
<1> QED
  BY <1>1, <1>2

\* The slot on the local clock of the instant it was computed at.
LEMMA SlotOnClock ==
  ASSUME ChainInv, OnWallClock
  PROVE  \E k \in 0..7 :
            /\ FirstDay(rule, now + Offset(now), k)
            /\ slot + Offset(now) = 24 * (DayOf(now + Offset(now)) + k) + rule.hour
            /\ slot > now
            /\ rule.kind = "weekly" => (DayOf(now + Offset(now)) + k) % 7 = rule.weekday
<1>1. /\ rule \in Rules /\ rule.kind \in {"daily", "weekly"} /\ now \in Int
      /\ Offset(now) \in Int /\ rule.hour \in 0..23 /\ slot \in Int
      /\ DayOf(now + Offset(now)) \in Int
  BY Typed, RuleOnWallClock, SlotIsInstant, DayAndHour DEF ChainInv, OnWallClock
<1>2. PICK k \in 0..7 :
         /\ FirstDay(rule, now + Offset(now), k)
         /\ slot = 24 * (DayOf(now + Offset(now)) + k) + rule.hour - Offset(now)
  BY <1>1, NextIs DEF ChainInv
<1>3. slot + Offset(now) = 24 * (DayOf(now + Offset(now)) + k) + rule.hour
  BY <1>1, <1>2
<1>4. ~Refused(rule, now + Offset(now), k)
  BY <1>2 DEF FirstDay
<1>5. /\ ~(slot + Offset(now) <= now + Offset(now))
      /\ rule.kind = "weekly" => (DayOf(now + Offset(now)) + k) % 7 = rule.weekday
  BY <1>1, <1>3, <1>4, RefusedMeans
<1> QED
  BY <1>1, <1>2, <1>3, <1>5

\* next_recurrence lands on the first instant after "now" at which the wall clock
\* shows the rule, however late the event was fired: a backlog is one fire and no
\* occurrence is left out, as long as the offset stays what it was.
THEOREM NoOccurrenceSkipped == Spec => []FirstOccurrence
<1>1. ASSUME ChainInv, OnWallClock, Offset(slot) = Offset(now)
      PROVE  /\ slot > now /\ Occurs(rule, slot)
             /\ \A utc \in (now + 1)..(slot - 1) :
                   Offset(utc) = Offset(now) => ~Occurs(rule, utc)
  <2> DEFINE local == now + Offset(now)
             d     == DayOf(local)
  <2>1. /\ rule \in Rules /\ rule.kind \in {"daily", "weekly"} /\ now \in Int
        /\ Offset(now) \in Int /\ rule.hour \in 0..23 /\ slot \in Int
        /\ local \in Int /\ d \in Int
    BY <1>1, Typed, RuleOnWallClock, SlotIsInstant, DayAndHour DEF ChainInv, OnWallClock
  <2>2. PICK k \in 0..7 :
           /\ FirstDay(rule, local, k) /\ slot + Offset(now) = 24 * (d + k) + rule.hour
           /\ slot > now /\ (rule.kind = "weekly" => (d + k) % 7 = rule.weekday)
    BY <1>1, SlotOnClock
  <2>3. Occurs(rule, slot)
    <3> HIDE DEF d, local
    <3>1. d + k \in Int
      BY <2>1
    <3>2. /\ DayOf(24 * (d + k) + rule.hour) = d + k
          /\ HourOf(24 * (d + k) + rule.hour) = rule.hour
      BY <2>1, <3>1, HourOfDay
    <3>3. DayOf(slot + Offset(now)) = d + k /\ HourOf(slot + Offset(now)) = rule.hour
      BY <2>2, <3>2
    <3> QED
      BY <1>1, <2>2, <3>3 DEF Occurs, LocalHour, LocalWeekday, DayOf, HourOf
  <2>4. ASSUME NEW utc \in (now + 1)..(slot - 1), Offset(utc) = Offset(now), Occurs(rule, utc)
        PROVE  FALSE
    <3> DEFINE l == utc + Offset(now)
               m == DayOf(l) - d
    <3>1. /\ l \in Int /\ local < l /\ l < 24 * (d + k) + rule.hour
          /\ DayOf(l) \in Int /\ m \in Int /\ l = 24 * (d + m) + HourOf(l)
      BY <2>1, <2>2, DayAndHour
    <3>2. HourOf(l) = rule.hour /\ (rule.kind = "weekly" => (d + m) % 7 = rule.weekday)
      BY <2>1, <2>4, <3>1 DEF Occurs, LocalHour, LocalWeekday, DayOf, HourOf
    <3>3. local = 24 * d + HourOf(local) /\ HourOf(local) \in 0..23
      BY <2>1, DayAndHour
    <3> HIDE DEF l, m, local, d
    <3>4. m \in 0..(k - 1)
      BY <2>1, <3>1, <3>2, <3>3
    <3>5. Refused(rule, local, m)
      BY <2>2, <3>4 DEF FirstDay
    <3>6. ~Refused(rule, local, m)
      BY <2>1, <3>1, <3>2, RefusedMeans DEF d
    <3> QED
      BY <3>5, <3>6
  <2> QED
    BY <2>2, <2>3, <2>4
<1>2. ChainInv => FirstOccurrence
  BY <1>1 DEF FirstOccurrence
<1> QED
  BY <1>2, ChainBegins, ChainGoesOn, PTL DEF Spec

\* The local clock moves under a slot that was computed before: astimezone() gives
\* a fixed offset, so the slot is off by the shift and by no other amount, and it
\* always lies ahead.
THEOREM OffByNothingElse == Spec => []OffByTheShift
<1>1. ASSUME ChainInv, OnWallClock
      PROVE  slot > now /\ LocalHour(slot) = (rule.hour + Offset(slot) - Offset(now)) % 24
  <2>1. /\ Offset(now) \in Int /\ Offset(slot) \in Int /\ rule.hour \in 0..23 /\ slot \in Int
        /\ DayOf(now + Offset(now)) \in Int
    BY <1>1, Typed, RuleOnWallClock, SlotIsInstant, DayAndHour DEF ChainInv, OnWallClock
  <2>2. PICK k \in 0..7 :
           slot > now /\ slot + Offset(now) = 24 * (DayOf(now + Offset(now)) + k) + rule.hour
    BY <1>1, SlotOnClock
  <2> DEFINE d == DayOf(now + Offset(now)) + k
             x == rule.hour + Offset(slot) - Offset(now)
  <2>3. d \in Int /\ x \in Int /\ slot + Offset(now) = 24 * d + rule.hour
    BY <2>1, <2>2
  <2>4. (24 * d + x) % 24 = x % 24
    BY <2>3, SameHour DEF HourOf
  <2> HIDE DEF d
  <2>5. slot + Offset(slot) = 24 * d + x
    BY <2>1, <2>3
  <2> QED
    BY <2>2, <2>4, <2>5 DEF LocalHour
<1>2. ChainInv => OffByTheShift
  BY <1>1 DEF OffByTheShift
<1> QED
  BY <1>2, ChainBegins, ChainGoesOn, PTL DEF Spec
=============================================================================
