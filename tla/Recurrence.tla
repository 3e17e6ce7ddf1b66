------------------------------ MODULE Recurrence ------------------------------
(***************************************************************************)
(* scheduler/recurrence.py: the next slot of a recurring event, and the    *)
(* chain of slots the scheduler draws from it.                             *)
(*                                                                         *)
(* Times are whole hours.  The local clock is UTC plus an offset that may  *)
(* change once, forward or back, at ShiftAt: astimezone() takes the offset *)
(* in force at the instant it converts.  A rule is a record; parsing is    *)
(* not modelled.                                                           *)
(***************************************************************************)
EXTENDS Integers

CONSTANTS Hours,      \* the HH of the daily and weekly rules
          Weekdays,   \* the <dow> of the weekly rules
          Intervals,  \* the N of the every rules
          Offsets,    \* the hours the local clock may be ahead of UTC
          ShiftAt,    \* the instant its offset changes
          MaxLate,    \* bound: how late a slot is fired
          Horizon     \* bound: the last hour looked at

ASSUME RecurrenceAssumption ==
    /\ Hours \subseteq 0..23
    /\ Weekdays \subseteq 0..6
    /\ Intervals \subseteq Nat \ {0}
    /\ Offsets \subseteq Int
    /\ ShiftAt \in Nat /\ MaxLate \in Nat /\ Horizon \in Nat

VARIABLES zone,   \* the offsets before and from ShiftAt
          rule,   \* the event's rule
          now,    \* the instant of the last next_recurrence call
          slot    \* the slot it returned

vars == <<zone, rule, now, slot>>

Rules == [kind : {"daily"}, hour : Hours]
         \cup [kind : {"weekly"}, hour : Hours, weekday : Weekdays]
         \cup [kind : {"every"}, hours : Intervals]

Zones == [standing : Offsets, shifted : Offsets]

Offset(utc) == IF utc < ShiftAt THEN zone.standing ELSE zone.shifted
LocalHour(utc) == (utc + Offset(utc)) % 24
LocalWeekday(utc) == ((utc + Offset(utc)) \div 24) % 7

----------------------------------------------------------------------------
(* next_recurrence(rule, after_utc).                                       *)

\* The candidate on the k-th day from that of the local instant `after`.
Candidate(after, hour, k) == 24 * ((after \div 24) + k) + hour

\* Mutant of Passed: the loop stops at a candidate equal to `after`.
PassedStrictly(candidate, after) == candidate < after

\* The part of the loop condition that daily and weekly rules share.
Passed(candidate, after) == candidate <= after

\* while cand <= after_local [or cand.weekday() != target]: one day on.
Refused(r, after, k) ==
    LET candidate == Candidate(after, r.hour, k) IN
    \/ Passed(candidate, after)
    \/ r.kind = "weekly" /\ (candidate \div 24) % 7 # r.weekday

\* Mutant of NextOnLocalClock: the day is counted on the UTC clock.
NextOnUtcClock(r, after) ==
    LET k == CHOOSE n \in 0..7 : /\ ~Refused(r, after, n)
                                 /\ \A m \in 0..(n - 1) : Refused(r, after, m)
    IN  Candidate(after, r.hour, k)

\* Computed on the local clock as it stands at `after`: the tzinfo that
\* astimezone() attaches is a fixed offset, and adding days keeps it.
NextOnLocalClock(r, after) ==
    LET local == after + Offset(after)
        k == CHOOSE n \in 0..7 : /\ ~Refused(r, local, n)
                                 /\ \A m \in 0..(n - 1) : Refused(r, local, m)
    IN  Candidate(local, r.hour, k) - Offset(after)

NextRecurrence(r, after) ==
    IF r.kind = "every" THEN after + r.hours ELSE NextOnLocalClock(r, after)

----------------------------------------------------------------------------
(* A recurring event: created at some hour, fired at its slot or late, and  *)
(* rescheduled from the instant its action ended.                           *)

Init == /\ zone \in Zones
        /\ rule \in Rules
        /\ now \in 0..23
        /\ slot = NextRecurrence(rule, now)

Fire == \E late \in 0..MaxLate :
           /\ slot + late <= Horizon
           /\ now' = slot + late
           /\ slot' = NextRecurrence(rule, now')
           /\ UNCHANGED <<zone, rule>>

Spec == Init /\ [][Fire]_vars

----------------------------------------------------------------------------
(* Properties.                                                             *)

\* What the rule means: the instants at which the wall clock shows it.
Occurs(r, utc) == /\ LocalHour(utc) = r.hour
                  /\ r.kind = "weekly" => LocalWeekday(utc) = r.weekday

OnWallClock == rule.kind \in {"daily", "weekly"}

\* However late an event fires, its next slot is the first occurrence after
\* that instant, as long as the offset stays: a backlog collapses into one
\* fire and no later occurrence is skipped.
FirstOccurrence ==
    OnWallClock /\ Offset(slot) = Offset(now) =>
        /\ slot > now /\ Occurs(rule, slot)
        /\ \A utc \in (now + 1)..(slot - 1) :
              Offset(utc) = Offset(now) => ~Occurs(rule, utc)

\* A slot computed before the shift for an instant after it is off by the
\* shift, and by nothing else; the slot computed from it is right again.
OffByTheShift ==
    OnWallClock => /\ slot > now
                   /\ LocalHour(slot) =
                        (rule.hour + Offset(slot) - Offset(now)) % 24

\* "so they stay on the same local HH:MM across DST".
StaysOnWallClock == OnWallClock => LocalHour(slot) = rule.hour
=============================================================================
