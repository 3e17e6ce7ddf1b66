---------------------------- MODULE SchedulerProofs ----------------------------
(***************************************************************************)
(* Proofs about SchedulerThread, for any number of events and processes    *)
(* and any value of the bounds: what holds whatever the clock does, then   *)
(* what holds while the wall clock is never set back, which includes the   *)
(* refinement of EventLedger, and last what a single process loses: no     *)
(* wake-up.                                                                *)
(***************************************************************************)
EXTENDS SchedulerThread, FiniteSetTheorems, TLAPS

----------------------------------------------------------------------------
(* What the statements of the store do to the type of the table.           *)

\* Every statement keeps the table's type.
LEMMA StatementTypes ==
    ASSUME row \in [Events -> Row], NEW e \in Events, NEW p \in Procs,
           NEW t \in Triggers, NEW at \in Nat
    PROVE  /\ AddScheduledEvent(e, t, at) => row' \in [Events -> Row]
           /\ CancelUpdate(e) => row' \in [Events -> Row]
           /\ ClaimEventForFire(e, p) => row' \in [Events -> Row]
           /\ CompleteOneShot(e) => row' \in [Events -> Row]
           /\ RescheduleRecurring(e, at) => row' \in [Events -> Row]
           /\ MarkEventFailed(e) => row' \in [Events -> Row]
<1>1. AddScheduledEvent(e, t, at) => row' \in [Events -> Row]
  <2> DEFINE r == [NoRow EXCEPT !.status = "pending", !.trigger = t,
                                !.next_fire_at = at]
  <2>1. r \in Row
    BY DEF NoRow, Row, Statuses, Slots
  <2> QED BY <2>1 DEF AddScheduledEvent
<1>2. CancelUpdate(e) => row' \in [Events -> Row]
  BY DEF CancelUpdate, Row, Statuses, Slots
<1>3. ClaimEventForFire(e, p) => row' \in [Events -> Row]
  BY DEF ClaimEventForFire, Row, Statuses
<1>4. ASSUME NEW s \in Statuses, NEW x \in Slots
      PROVE  EndFire(e, s, x) => row' \in [Events -> Row]
  BY DEF EndFire, Row
<1> QED BY <1>1, <1>2, <1>3, <1>4
        DEF CompleteOneShot, RescheduleRecurring, MarkEventFailed, Statuses, Slots

\* So does the recovery.
LEMMA RecoveryType ==
    ASSUME row \in [Events -> Row], RecoverOrphanedFiring
    PROVE  row' \in [Events -> Row]
<1> DEFINE r(f) == [row[f] EXCEPT !.status = "needs_review",
                                  !.next_fire_at = None, !.lease_pid = None]
<1>1. \A f \in Events : row[f] \in Row
  OBVIOUS
<1>2. \A f \in Events : r(f) \in Row
  BY <1>1 DEF Row, Statuses, Slots
<1> QED BY <1>1, <1>2 DEF RecoverOrphanedFiring

\* A due list holds copies of rows, each with a slot that has come.
LEMMA DueCopies ==
    ASSUME row \in [Events -> Row], now \in Nat, NEW D \in GetDueEvents(now)
    PROVE  D \subseteq {d \in Item : d.at <= now}
<1>1. PICK X \in SUBSET {e \in Events : IsDue(e, now)} :
        D = {[id |-> e, at |-> row[e].next_fire_at] : e \in X}
  BY DEF GetDueEvents
<1>2. \A e \in X : row[e].next_fire_at \in Nat /\ row[e].next_fire_at <= now
  BY <1>1 DEF IsDue, Row, Slots
<1> QED BY <1>1, <1>2 DEF Item


----------------------------------------------------------------------------
(* Type correctness.                                                       *)

\* One step keeps TypeOK.
LEMMA TypeStep == TypeOK /\ [Next]_vars => TypeOK'
<1> SUFFICES ASSUME TypeOK, [Next]_vars PROVE TypeOK'
  OBVIOUS
<1> USE ThreadAssumption, StoreAssumption
    DEF TypeOK, Goto, PCs, HasCur, InFire, fire, loop, tools, cv, env, vars
<1>1. ASSUME NEW p \in Procs, Start(p) PROVE TypeOK'
  <2>1. pc' \in [Procs -> PCs] /\ pc'[p] \notin HasCur
    BY <1>1 DEF Start
  <2> QED BY <1>1, <2>1 DEF Start
<1>2. ASSUME NEW p \in Procs, Recover(p) PROVE TypeOK'
  BY <1>2, RecoveryType DEF Recover
<1>3. ASSUME NEW p \in Procs, Loop(p) PROVE TypeOK'
  <2>1. CASE LoopTop(p)
    BY <2>1 DEF LoopTop
  <2>2. CASE QueryDue(p)
    BY <2>2, DueCopies DEF QueryDue
  <2>3. CASE QueryRaises(p)
    BY <2>3 DEF QueryRaises, Raise
  <2>4. CASE NextDue(p)
    BY <2>4 DEF NextDue
  <2>5. CASE EndOfPass(p)
    BY <2>5 DEF EndOfPass
  <2>6. CASE Peek(p)
    BY <2>6 DEF Peek, SleepSeconds
  <2>7. CASE PeekRaises(p)
    BY <2>7 DEF PeekRaises, Raise
  <2>8. CASE Decide(p)
    BY <2>8 DEF Decide
  <2>9. CASE TimeOut(p)
    BY <2>9 DEF TimeOut
  <2> QED BY <1>3, <2>1, <2>2, <2>3, <2>4, <2>5, <2>6, <2>7, <2>8, <2>9 DEF Loop
<1>4. ASSUME NEW p \in Procs, Fire(p) PROVE TypeOK'
  <2> USE DEF FireReturns
  <2>0. pc[p] \in HasCur => cur[p].id \in Events /\ cur[p].at \in Nat
    BY DEF Item
  <2>1. CASE Claim(p)
    <3>1. row' \in [Events -> Row]
      BY <2>0, <2>1, StatementTypes DEF Claim, Triggers
    <3>2. claimed' \in [Events -> SUBSET Nat]
      BY <2>0, <2>1 DEF Claim, Claimable
    <3> QED BY <2>1, <3>1, <3>2 DEF Claim
  <2>2. CASE ClaimLost(p)
    BY <2>2 DEF ClaimLost
  <2>3. CASE ParseAction(p)
    BY <2>3 DEF ParseAction
  <2>4. CASE RefuseAction(p)
    <3>1. row' \in [Events -> Row]
      BY <2>0, <2>4, StatementTypes DEF RefuseAction, Triggers
    <3> QED BY <2>4, <3>1 DEF RefuseAction, Slots
  <2>5. CASE LockTurn(p)
    BY <2>5 DEF LockTurn
  <2>6. CASE RunAction(p)
    BY <2>6 DEF RunAction
  <2>7. CASE NextRecurrence(p)
    <3>1. nxt' \in [Procs -> Slots] /\ nxt'[p] \in Nat
      BY <2>7 DEF NextRecurrence, Slots
    <3> QED BY <2>7, <3>1 DEF NextRecurrence
  <2>8. CASE NoRecurrence(p)
    BY <2>8 DEF NoRecurrence
  <2>9. CASE Reschedule(p)
    <3>1. row' \in [Events -> Row]
      BY <2>0, <2>9, StatementTypes DEF Reschedule, Triggers
    <3>2. nxt' \in [Procs -> Slots]
      BY <2>9 DEF Reschedule, Slots
    <3> QED BY <2>9, <3>1, <3>2 DEF Reschedule
  <2>10. CASE RescheduleRaises(p)
    BY <2>10 DEF RescheduleRaises, Raise
  <2>11. CASE Settle(p)
    <3>1. row' \in [Events -> Row]
      BY <2>0, <2>11, StatementTypes DEF Settle, Triggers
    <3> QED BY <2>11, <3>1 DEF Settle, Slots
  <2>12. CASE FireRaises(p)
    BY <2>12 DEF FireRaises, Raise, Slots
  <2> QED BY <1>4, <2>1, <2>2, <2>3, <2>4, <2>5, <2>6, <2>7, <2>8, <2>9, <2>10,
             <2>11, <2>12 DEF Fire
<1>5. ASSUME NEW p \in Procs, Tools(p) PROVE TypeOK'
  <2>1. CASE BeginLiveTurn(p)
    BY <2>1 DEF BeginLiveTurn
  <2>2. CASE EndLiveTurn(p)
    BY <2>2 DEF EndLiveTurn
  <2>3. CASE CancelWrite(p)
    <3>1. row' \in [Events -> Row]
      BY <2>3, StatementTypes DEF CancelWrite, Triggers
    <3> QED BY <2>3, <3>1 DEF CancelWrite
  <2>4. CASE OnChange(p)
    BY <2>4 DEF OnChange, NotifyAll
  <2>5. ASSUME NEW e \in Events, CancelRead(p, e) PROVE TypeOK'
    BY <2>5 DEF CancelRead
  <2>6. ASSUME NEW e \in Events, NEW t \in Triggers, NEW at \in 0..MaxNow,
               ScheduleEvent(p, e, t, at)
        PROVE  TypeOK'
    <3>1. row' \in [Events -> Row]
      BY <2>6, StatementTypes DEF ScheduleEvent
    <3> QED BY <2>6, <3>1 DEF ScheduleEvent
  <2> QED BY <1>5, <2>1, <2>2, <2>3, <2>4, <2>5, <2>6 DEF Tools
<1>6. ASSUME NEW p \in Procs, Stop(p) PROVE TypeOK'
  BY <1>6 DEF Stop, NotifyAll
<1>7. ASSUME NEW p \in Procs, ProcessEnds(p) PROVE TypeOK'
  BY <1>7 DEF ProcessEnds, FireReturns, Slots
<1>8. CASE Tick
  BY <1>8 DEF Tick
<1>9. CASE SetBack \/ SetForward
  BY <1>9 DEF SetBack, SetForward
<1>10. CASE UNCHANGED vars
  BY <1>10
<1> QED BY <1>1, <1>2, <1>3, <1>4, <1>5, <1>6, <1>7, <1>8, <1>9, <1>10 DEF Next

\* Every reachable state is well typed, for any number of events, processes,
\* crashes, faults and clock corrections.
THEOREM TypeCorrect == Spec => []TypeOK
<1>1. Init => TypeOK
  BY ThreadAssumption, StoreAssumption
     DEF Init, TypeOK, StoreInit, NoRow, Row, Statuses, Triggers, Slots, PCs,
         HasCur, InFire
<1> QED BY <1>1, TypeStep, PTL DEF Spec

----------------------------------------------------------------------------
(* Who holds a row.  OneFirerPerEvent and FiringIsHeld are inductive only   *)
(* together: a claim needs the first to know that nobody else is in the     *)
(* event's fire, the end of a fire needs the second to know whose row it    *)
(* releases.                                                                *)

Holding == OneFirerPerEvent /\ FiringIsHeld
Gone == {"down", "recover", "dead"}

\* A step that neither writes the table nor moves a thread into or out of a
\* fire keeps the invariant.
LEMMA QuietStep ==
    ASSUME Holding, row' = row,
           \A p \in Procs : /\ pc'[p] \in InFire <=> pc[p] \in InFire
                            /\ pc[p] \in InFire => cur'[p] = cur[p]
                            /\ pc[p] \in Gone => pc'[p] \in Gone
    PROVE  Holding'
<1>1. \A p \in Procs, e \in Events : Firer(p, e)' <=> Firer(p, e)
  BY DEF Firer
<1>2. \A e \in Events : StatusOf(e)' = StatusOf(e)
  BY DEF StatusOf
<1>3. OneFirerPerEvent'
  BY <1>1, <1>2 DEF Holding, OneFirerPerEvent
<1>4. FiringIsHeld'
  BY <1>1, <1>2 DEF Holding, FiringIsHeld, Gone
<1> QED BY <1>3, <1>4 DEF Holding

\* A step after which no row is firing keeps it, if no thread begins a fire
\* and what was firing is over.
LEMMA SweepStep ==
    ASSUME Holding,
           \A e \in Events : /\ StatusOf(e)' # "firing"
                             /\ StatusOf(e) = "firing" => StatusOf(e)' \in Terminal
                             /\ StatusOf(e) # "firing" => row'[e] = row[e],
           \A p \in Procs : /\ pc'[p] \in InFire <=> pc[p] \in InFire
                            /\ cur'[p] = cur[p]
    PROVE  Holding'
<1>1. \A p \in Procs, e \in Events : Firer(p, e)' <=> Firer(p, e)
  BY DEF Firer
<1> QED BY <1>1 DEF Holding, OneFirerPerEvent, FiringIsHeld, StatusOf

\* The end of a fire: the row, if p still holds it, leaves 'firing', and p
\* leaves the fire.
LEMMA EndStep ==
    ASSUME TypeOK, Holding, NEW p \in Procs, NEW s \in Statuses \ {"firing"},
           NEW at, NEW e0 \in Events, e0 = cur[p].id, pc[p] \in InFire,
           EndFire(e0, s, at),
           pc' = [pc EXCEPT ![p] = "next"], cur' = [cur EXCEPT ![p] = None]
    PROVE  Holding'
<1>1. Firer(p, e0)
  BY DEF Firer
<1>2. \A q \in Procs \ {p}, e \in Events : Firer(q, e)' <=> Firer(q, e)
  BY DEF TypeOK, Firer
<1>3. \A e \in Events : ~Firer(p, e)'
  BY DEF TypeOK, Firer, InFire
<1>4. \A e \in Events \ {e0} : row'[e] = row[e]
  BY DEF EndFire, TypeOK
<1>5. StatusOf(e0)' # "firing"
  BY <1>1 DEF EndFire, TypeOK, StatusOf
<1>6. \A q \in Procs \ {p} : ~Firer(q, e0)
  BY <1>1 DEF Holding, OneFirerPerEvent
<1>7. OneFirerPerEvent'
  BY <1>2, <1>3, <1>4, <1>6 DEF Holding, OneFirerPerEvent, StatusOf
<1>8. FiringIsHeld'
  <2> SUFFICES ASSUME NEW e \in Events, StatusOf(e)' = "firing"
               PROVE  /\ row'[e].lease_pid \in Procs
                      /\ \/ Firer(row[e].lease_pid, e)'
                         \/ pc'[row'[e].lease_pid] \in Gone
    BY DEF FiringIsHeld, Gone
  <2>1. e # e0 /\ row'[e] = row[e]
    BY <1>4, <1>5 DEF StatusOf
  <2>2. /\ row[e].lease_pid \in Procs
        /\ Firer(row[e].lease_pid, e) \/ pc[row[e].lease_pid] \in Gone
    BY <2>1 DEF Holding, FiringIsHeld, StatusOf, Gone
  <2>3. row[e].lease_pid # p
    BY <2>1, <2>2 DEF Firer, InFire, Gone
  <2> QED BY <1>2, <2>1, <2>2, <2>3 DEF TypeOK
<1> QED BY <1>7, <1>8 DEF Holding

\* A tool's write: an insert, or a cancel whatever the status.
LEMMA OneRowStep ==
    ASSUME TypeOK, Holding, NEW e0 \in Events, pc' = pc, cur' = cur,
           \/ CancelUpdate(e0)
           \/ \E t \in Triggers, at \in Nat : AddScheduledEvent(e0, t, at)
    PROVE  Holding'
<1>1. \A p \in Procs, e \in Events : Firer(p, e)' <=> Firer(p, e)
  BY DEF Firer
<1>2. \A e \in Events \ {e0} : row'[e] = row[e]
  BY DEF CancelUpdate, AddScheduledEvent, TypeOK
<1>3. \/ StatusOf(e0)' = "cancelled"
      \/ StatusOf(e0) = "absent" /\ StatusOf(e0)' = "pending"
  <2>1. CancelUpdate(e0) => StatusOf(e0)' = "cancelled"
    BY DEF CancelUpdate, TypeOK, Row, StatusOf
  <2>2. ASSUME NEW t \in Triggers, NEW at \in Nat, AddScheduledEvent(e0, t, at)
        PROVE  StatusOf(e0) = "absent" /\ StatusOf(e0)' = "pending"
    <3> DEFINE r == [NoRow EXCEPT !.status = "pending", !.trigger = t,
                                  !.next_fire_at = at]
    <3>1. r.status = "pending"
      BY DEF NoRow
    <3> QED BY <2>2, <3>1 DEF AddScheduledEvent, TypeOK, StatusOf
  <2> QED BY <2>1, <2>2
<1>4. OneFirerPerEvent'
  BY <1>1, <1>2, <1>3 DEF Holding, OneFirerPerEvent, StatusOf, Terminal
<1>5. FiringIsHeld'
  BY <1>1, <1>2, <1>3 DEF Holding, FiringIsHeld, StatusOf
<1> QED BY <1>4, <1>5 DEF Holding

\* A claim: nobody else is in the event's fire, since the row was pending.
LEMMA ClaimStep ==
    ASSUME TypeOK, Holding, NEW p \in Procs, Claim(p)
    PROVE  Holding'
<1>1. PICK e0 \in Events : e0 = cur[p].id
  <2>1. cur[p] \in Item
    BY DEF TypeOK, HasCur, Claim, Goto
  <2> QED BY <2>1 DEF Item
<1>2. /\ pc[p] = "claim" /\ pc' = [pc EXCEPT ![p] = "parse"]
      /\ cur' = cur /\ StatusOf(e0) = "pending" /\ ClaimEventForFire(e0, p)
  BY <1>1 DEF Claim, Goto, Claimable, fire
<1>3. /\ \A q \in Procs : ~Firer(q, e0)
      /\ \A e \in Events : ~Firer(p, e)
  BY <1>2 DEF Holding, OneFirerPerEvent, Terminal, Firer, InFire
<1>4. \A q \in Procs, e \in Events :
          Firer(q, e)' <=> (Firer(q, e) \/ (q = p /\ e = e0))
  BY <1>1, <1>2, <1>3 DEF Firer, TypeOK, InFire
<1>5. /\ row'[e0].status = "firing" /\ row'[e0].lease_pid = p
      /\ \A e \in Events \ {e0} : row'[e] = row[e]
  BY <1>2 DEF ClaimEventForFire, TypeOK, Row
<1>6. OneFirerPerEvent'
  BY <1>3, <1>4, <1>5 DEF Holding, OneFirerPerEvent, StatusOf
<1>7. FiringIsHeld'
  <2> SUFFICES ASSUME NEW e \in Events, StatusOf(e)' = "firing"
               PROVE  /\ row'[e].lease_pid \in Procs
                      /\ \/ Firer(row[e].lease_pid, e)'
                         \/ pc'[row'[e].lease_pid] \in Gone
    BY DEF FiringIsHeld, Gone
  <2>1. CASE e = e0
    <3>1. Firer(p, e0)'
      BY <1>4
    <3> QED BY <2>1, <3>1, <1>5 DEF Firer
  <2>2. CASE e # e0
    <3>1. row'[e] = row[e] /\ StatusOf(e) = "firing"
      BY <2>2, <1>5 DEF StatusOf
    <3>2. /\ row[e].lease_pid \in Procs
          /\ Firer(row[e].lease_pid, e) \/ pc[row[e].lease_pid] \in Gone
      BY <3>1 DEF Holding, FiringIsHeld, Gone
    <3>3. pc[p] \notin Gone
      BY <1>2 DEF Gone
    <3>4. pc[row[e].lease_pid] \in Gone => pc'[row[e].lease_pid] \in Gone
      BY <1>2, <3>2, <3>3 DEF TypeOK
    <3>5. Firer(row[e].lease_pid, e) => Firer(row[e].lease_pid, e)'
      BY <1>4, <3>1, <3>2 DEF Firer
    <3> QED BY <3>1, <3>2, <3>4, <3>5
  <2> QED BY <2>1, <2>2
<1> QED BY <1>6, <1>7 DEF Holding

\* A thread that dies leaves its fire; its row stays and waits for a start().
LEMMA DeathStep ==
    ASSUME TypeOK, Holding, NEW p \in Procs, NEW to \in {"down", "dead"},
           row' = row, pc' = [pc EXCEPT ![p] = to],
           cur' = [cur EXCEPT ![p] = None]
    PROVE  Holding'
<1>1. \A q \in Procs \ {p}, e \in Events : Firer(q, e)' <=> Firer(q, e)
  BY DEF TypeOK, Firer
<1>2. pc'[p] \in Gone /\ \A e \in Events : ~Firer(p, e)'
  BY DEF TypeOK, Firer, InFire, Gone
<1>3. \A q \in Procs : pc[q] \in Gone => pc'[q] \in Gone
  BY <1>2 DEF TypeOK
<1>4. OneFirerPerEvent'
  BY <1>1, <1>2 DEF Holding, OneFirerPerEvent, StatusOf
<1>5. FiringIsHeld'
  BY <1>1, <1>2, <1>3 DEF Holding, FiringIsHeld, StatusOf, Gone
<1> QED BY <1>4, <1>5 DEF Holding

\* One step keeps Holding.
LEMMA HoldingStep == TypeOK /\ Holding /\ [Next]_vars => Holding'
<1> SUFFICES ASSUME TypeOK, Holding, [Next]_vars PROVE Holding'
  OBVIOUS
<1> USE DEF Goto, fire, loop, tools, cv, env, vars
<1>0. ASSUME NEW p \in Procs, NEW from, NEW to, pc[p] = from,
             pc' = [pc EXCEPT ![p] = to], from \in InFire <=> to \in InFire,
             from \in Gone => to \in Gone, row' = row,
             from \in InFire => cur' = cur,
             \A q \in Procs \ {p} : cur'[q] = cur[q]
      PROVE  Holding'
  BY <1>0, QuietStep DEF TypeOK
<1>1. ASSUME NEW p \in Procs, Start(p) PROVE Holding'
  <2>1. CASE Firing # {}
    BY <1>0, <1>1, <2>1 DEF Start, InFire, Gone
  <2>2. CASE Firing = {}
    <3>1. pc' = [pc EXCEPT ![p] = "top"] /\ pc[p] = "down" /\ cur' = cur /\ row' = row
      BY <1>1, <2>2 DEF Start
    <3>2. \A e \in Events : StatusOf(e) # "firing"
      BY <2>2 DEF Firing
    <3> QED BY <3>1, <3>2, SweepStep DEF TypeOK, InFire, StatusOf
  <2> QED BY <2>1, <2>2
<1>2. ASSUME NEW p \in Procs, Recover(p) PROVE Holding'
  <2>1. \A e \in Events :
           /\ StatusOf(e)' # "firing"
           /\ StatusOf(e) = "firing" => StatusOf(e)' \in Terminal
           /\ StatusOf(e) # "firing" => row'[e] = row[e]
    BY <1>2 DEF Recover, RecoverOrphanedFiring, StatusOf, TypeOK, Row, Terminal
  <2> QED BY <1>2, <2>1, SweepStep DEF Recover, TypeOK, InFire
<1>3. ASSUME NEW p \in Procs, Loop(p) PROVE Holding'
  <2> USE <1>0 DEF InFire, Gone
  <2>1. CASE LoopTop(p)
    BY <2>1 DEF LoopTop
  <2>2. CASE QueryDue(p)
    BY <2>2 DEF QueryDue
  <2>3. CASE QueryRaises(p)
    BY <2>3 DEF QueryRaises, Raise
  <2>4. CASE NextDue(p)
    BY <2>4 DEF NextDue, TypeOK
  <2>5. CASE EndOfPass(p)
    BY <2>5 DEF EndOfPass
  <2>6. CASE Peek(p)
    BY <2>6 DEF Peek
  <2>7. CASE PeekRaises(p)
    BY <2>7 DEF PeekRaises, Raise
  <2>8. CASE Decide(p)
    BY <2>8 DEF Decide
  <2>9. CASE TimeOut(p)
    BY <2>9 DEF TimeOut
  <2> QED BY <1>3, <2>1, <2>2, <2>3, <2>4, <2>5, <2>6, <2>7, <2>8, <2>9 DEF Loop
<1>4. ASSUME NEW p \in Procs, Fire(p) PROVE Holding'
  <2>0. pc[p] \in HasCur => cur[p].id \in Events
    BY DEF TypeOK, Item
  <2> USE DEF InFire, Gone
  <2>1. CASE Claim(p)
    BY <2>1, ClaimStep
  <2>2. CASE ClaimLost(p)
    BY <1>0, <2>2 DEF ClaimLost, TypeOK
  <2>3. CASE ParseAction(p)
    BY <1>0, <2>3 DEF ParseAction
  <2>4. CASE RefuseAction(p)
    BY <2>0, <2>4, EndStep
       DEF RefuseAction, FireReturns, MarkEventFailed, HasCur, Statuses
  <2>5. CASE LockTurn(p)
    BY <1>0, <2>5 DEF LockTurn
  <2>6. CASE RunAction(p)
    BY <1>0, <2>6 DEF RunAction
  <2>7. CASE NextRecurrence(p)
    BY <1>0, <2>7 DEF NextRecurrence
  <2>8. CASE NoRecurrence(p)
    BY <1>0, <2>8 DEF NoRecurrence
  <2>9. CASE Reschedule(p)
    BY <2>0, <2>9, EndStep
       DEF Reschedule, FireReturns, RescheduleRecurring, HasCur, Statuses
  <2>10. CASE RescheduleRaises(p)
    BY <1>0, <2>10 DEF RescheduleRaises, Raise
  <2>11. CASE Settle(p)
    BY <2>0, <2>11, EndStep
       DEF Settle, FireReturns, CompleteOneShot, MarkEventFailed, HasCur, Statuses
  <2>12. CASE FireRaises(p)
    <3>1. /\ pc' = [pc EXCEPT ![p] = "dead"] /\ cur' = [cur EXCEPT ![p] = None]
          /\ row' = row
      BY <2>12 DEF FireRaises, FireReturns, Raise
    <3> QED BY <3>1, DeathStep
  <2> QED BY <1>4, <2>1, <2>2, <2>3, <2>4, <2>5, <2>6, <2>7, <2>8, <2>9, <2>10,
             <2>11, <2>12 DEF Fire
<1>5. ASSUME NEW p \in Procs, Tools(p) PROVE Holding'
  <2>1. CASE BeginLiveTurn(p)
    BY <2>1, QuietStep DEF BeginLiveTurn
  <2>2. CASE EndLiveTurn(p)
    BY <2>2, QuietStep DEF EndLiveTurn
  <2>3. CASE CancelWrite(p)
    <3>1. PICK e0 \in Events : e0 = cancel[p]
      BY <2>3 DEF CancelWrite, TypeOK
    <3>2. CancelUpdate(e0) /\ pc' = pc /\ cur' = cur
      BY <2>3, <3>1 DEF CancelWrite
    <3> QED BY <3>1, <3>2, OneRowStep
  <2>4. CASE OnChange(p)
    BY <2>4, QuietStep DEF OnChange, NotifyAll, TypeOK, InFire, Gone
  <2>5. ASSUME NEW e \in Events, CancelRead(p, e) PROVE Holding'
    BY <2>5, QuietStep DEF CancelRead
  <2>6. ASSUME NEW e \in Events, NEW t \in Triggers, NEW at \in 0..MaxNow,
               ScheduleEvent(p, e, t, at)
        PROVE  Holding'
    <3>1. AddScheduledEvent(e, t, at) /\ pc' = pc /\ cur' = cur
      BY <2>6 DEF ScheduleEvent
    <3> QED BY <3>1, OneRowStep
  <2> QED BY <1>5, <2>1, <2>2, <2>3, <2>4, <2>5, <2>6 DEF Tools
<1>6. ASSUME NEW p \in Procs, Stop(p) PROVE Holding'
  BY <1>6, QuietStep DEF Stop, NotifyAll, TypeOK, InFire, Gone
<1>7. ASSUME NEW p \in Procs, ProcessEnds(p) PROVE Holding'
  <2>1. /\ pc' = [pc EXCEPT ![p] = "down"] /\ cur' = [cur EXCEPT ![p] = None]
        /\ row' = row
    BY <1>7 DEF ProcessEnds, FireReturns
  <2> QED BY <2>1, DeathStep
<1>8. CASE Tick
  BY <1>8, QuietStep DEF Tick
<1>9. CASE SetBack \/ SetForward
  BY <1>9, QuietStep DEF SetBack, SetForward
<1>10. CASE UNCHANGED vars
  BY <1>10, QuietStep
<1> QED BY <1>1, <1>2, <1>3, <1>4, <1>5, <1>6, <1>7, <1>8, <1>9, <1>10 DEF Next

\* No second thread, in this process or another, runs the action of an event
\* that one thread is firing, and nobody overwrites its row except to end the
\* event: under crashes, faults, clock corrections, cancels and recoveries.
THEOREM NoTwoFirers == Spec => []OneFirerPerEvent
<1>1. Init => Holding
  BY StoreAssumption
     DEF Init, StoreInit, NoRow, Holding, OneFirerPerEvent, FiringIsHeld, Firer,
         InFire, StatusOf
<1>2. Holding => OneFirerPerEvent
  BY DEF Holding
<1> QED BY <1>1, <1>2, TypeCorrect, HoldingStep, PTL DEF Spec

\* No firing row is orphaned out of sight of the next start().
THEOREM NoLostFire == Spec => []FiringIsHeld
<1>1. Init => Holding
  BY StoreAssumption
     DEF Init, StoreInit, NoRow, Holding, OneFirerPerEvent, FiringIsHeld, Firer,
         InFire, StatusOf
<1>2. Holding => FiringIsHeld
  BY DEF Holding
<1> QED BY <1>1, <1>2, TypeCorrect, HoldingStep, PTL DEF Spec

----------------------------------------------------------------------------
(* What a step may do to the table and to the locals of the threads.       *)

EndsOneShot(p) == pc[p] \in InFire /\ \E s \in {"done", "failed"} :
                      EndFire(cur[p].id, s, None)
Recurs(p) == pc[p] = "reschedule" /\ EndFire(cur[p].id, "pending", nxt[p])
Inserts(e) == \E t \in Triggers, at \in Nat : AddScheduledEvent(e, t, at)

\* The statements that write the table, and the claim, which history records.
TableStep ==
    \/ row' = row /\ claimed' = claimed
    \/ \E p \in Procs : Claim(p)
    \/ /\ claimed' = claimed
       /\ \/ RecoverOrphanedFiring
          \/ \E e \in Events : Inserts(e)
          \/ \E p \in Procs : \/ cancel[p] # None /\ CancelUpdate(cancel[p])
                              \/ EndsOneShot(p)
                              \/ Recurs(p)

\* The wall clock is never set back, though it may be set forward.
NeverSetBack == "back" \notin Corrections

\* Where due copies, the copy in hand, the next slot and the id in a cancel
\* come from, while the clock goes forward.
LocalStep ==
    /\ now' >= now
    /\ \A p \in Procs :
          /\ \A d \in due'[p] : d \in due[p] \/ d.at <= now
          /\ pc'[p] = "claim" =>
                cur'[p] \in due[p] \/ (pc[p] = "claim" /\ cur'[p] = cur[p])
          /\ pc'[p] = "reschedule" =>
                /\ cur'[p] = cur[p]
                /\ \/ pc[p] = "reschedule" /\ nxt'[p] = nxt[p]
                   \/ pc[p] = "clock" /\ nxt'[p] > now /\ claimed' = claimed
          /\ \A e \in Events : cancel'[p] = e =>
                cancel[p] = e \/ StatusOf(e) # "absent"

\* Every step is such a step.
LEMMA Steps ==
    TypeOK /\ NeverSetBack /\ [Next]_vars => TableStep /\ LocalStep
<1> SUFFICES ASSUME TypeOK, NeverSetBack, [Next]_vars PROVE TableStep /\ LocalStep
  OBVIOUS
<1> USE ThreadAssumption, StoreAssumption
    DEF TypeOK, Goto, fire, loop, tools, cv, env, vars, LocalStep
<1>1. ASSUME NEW p \in Procs, Start(p) PROVE TableStep /\ LocalStep
  BY <1>1 DEF Start, TableStep
<1>2. ASSUME NEW p \in Procs, Recover(p) PROVE TableStep /\ LocalStep
  BY <1>2 DEF Recover, TableStep
<1>3. ASSUME NEW p \in Procs, Loop(p) PROVE TableStep /\ LocalStep
  <2>0. row' = row /\ claimed' = claimed
    BY <1>3 DEF Loop, LoopTop, QueryDue, QueryRaises, NextDue, EndOfPass, Peek,
                PeekRaises, Decide, TimeOut, Raise
  <2> SUFFICES LocalStep
    BY <2>0 DEF TableStep
  <2>1. CASE LoopTop(p)
    BY <2>1 DEF LoopTop
  <2>2. CASE QueryDue(p)
    BY <2>2, DueCopies DEF QueryDue
  <2>3. CASE QueryRaises(p)
    BY <2>3 DEF QueryRaises, Raise
  <2>4. CASE NextDue(p)
    BY <2>4 DEF NextDue
  <2>5. CASE EndOfPass(p)
    BY <2>5 DEF EndOfPass
  <2>6. CASE Peek(p)
    BY <2>6 DEF Peek
  <2>7. CASE PeekRaises(p)
    BY <2>7 DEF PeekRaises, Raise
  <2>8. CASE Decide(p)
    BY <2>8 DEF Decide
  <2>9. CASE TimeOut(p)
    BY <2>9 DEF TimeOut
  <2> QED BY <1>3, <2>1, <2>2, <2>3, <2>4, <2>5, <2>6, <2>7, <2>8, <2>9 DEF Loop
<1>4. ASSUME NEW p \in Procs, Fire(p) PROVE TableStep /\ LocalStep
  <2> USE DEF FireReturns
  <2>1. CASE Claim(p)
    <3>1. TableStep
      BY <2>1 DEF TableStep
    <3> QED BY <2>1, <3>1 DEF Claim
  <2>2. CASE ClaimLost(p)
    BY <2>2 DEF ClaimLost, TableStep
  <2>3. CASE ParseAction(p)
    BY <2>3 DEF ParseAction, TableStep
  <2>4. CASE RefuseAction(p)
    BY <2>4 DEF RefuseAction, MarkEventFailed, TableStep, EndsOneShot, InFire
  <2>5. CASE LockTurn(p)
    BY <2>5 DEF LockTurn, TableStep
  <2>6. CASE RunAction(p)
    BY <2>6 DEF RunAction, TableStep
  <2>7. CASE NextRecurrence(p)
    BY <2>7 DEF NextRecurrence, TableStep
  <2>8. CASE NoRecurrence(p)
    BY <2>8 DEF NoRecurrence, TableStep
  <2>9. CASE Reschedule(p)
    BY <2>9 DEF Reschedule, RescheduleRecurring, TableStep, Recurs
  <2>10. CASE RescheduleRaises(p)
    BY <2>10 DEF RescheduleRaises, Raise, TableStep
  <2>11. CASE Settle(p)
    BY <2>11 DEF Settle, CompleteOneShot, MarkEventFailed, TableStep, EndsOneShot,
                 InFire
  <2>12. CASE FireRaises(p)
    BY <2>12 DEF FireRaises, Raise, TableStep
  <2> QED BY <1>4, <2>1, <2>2, <2>3, <2>4, <2>5, <2>6, <2>7, <2>8, <2>9, <2>10,
             <2>11, <2>12 DEF Fire
<1>5. ASSUME NEW p \in Procs, Tools(p) PROVE TableStep /\ LocalStep
  <2>1. CASE BeginLiveTurn(p)
    BY <2>1 DEF BeginLiveTurn, TableStep
  <2>2. CASE EndLiveTurn(p)
    BY <2>2 DEF EndLiveTurn, TableStep
  <2>3. CASE CancelWrite(p)
    BY <2>3 DEF CancelWrite, TableStep
  <2>4. CASE OnChange(p)
    BY <2>4 DEF OnChange, NotifyAll, TableStep
  <2>5. ASSUME NEW e \in Events, CancelRead(p, e) PROVE TableStep /\ LocalStep
    BY <2>5 DEF CancelRead, TableStep
  <2>6. ASSUME NEW e \in Events, NEW t \in Triggers, NEW at \in 0..MaxNow,
               ScheduleEvent(p, e, t, at)
        PROVE  TableStep /\ LocalStep
    BY <2>6 DEF ScheduleEvent, TableStep, Inserts
  <2> QED BY <1>5, <2>1, <2>2, <2>3, <2>4, <2>5, <2>6 DEF Tools
<1>6. ASSUME NEW p \in Procs, Stop(p) PROVE TableStep /\ LocalStep
  BY <1>6 DEF Stop, NotifyAll, TableStep
<1>7. ASSUME NEW p \in Procs, ProcessEnds(p) PROVE TableStep /\ LocalStep
  BY <1>7 DEF ProcessEnds, FireReturns, TableStep
<1>8. CASE Tick
  BY <1>8 DEF Tick, TableStep
<1>9. CASE SetBack \/ SetForward
  BY <1>9 DEF SetBack, SetForward, NeverSetBack, TableStep
<1>10. CASE UNCHANGED vars
  BY <1>10 DEF TableStep
<1> QED BY <1>1, <1>2, <1>3, <1>4, <1>5, <1>6, <1>7, <1>8, <1>9, <1>10 DEF Next

----------------------------------------------------------------------------
(* The effect of each statement on the rows.                               *)

\* What each statement does to the status, the slot and the count of each row.
LEMMA Effects ==
    ASSUME TypeOK, TypeOK', NEW e0 \in Events
    PROVE  /\ CancelUpdate(e0) =>
                 /\ StatusOf(e0)' = "cancelled"
                 /\ row'[e0].fire_count = row[e0].fire_count
                 /\ \A e \in Events \ {e0} : row'[e] = row[e]
           /\ Inserts(e0) =>
                 /\ StatusOf(e0) = "absent" /\ StatusOf(e0)' = "pending"
                 /\ row'[e0].next_fire_at \in Nat /\ row'[e0].fire_count = 0
                 /\ \A e \in Events \ {e0} : row'[e] = row[e]
           /\ \A s \in Statuses, at \in Slots : EndFire(e0, s, at) =>
                 \/ row' = row
                 \/ /\ StatusOf(e0) = "firing" /\ StatusOf(e0)' = s
                    /\ row'[e0].next_fire_at = at
                    /\ row'[e0].fire_count = row[e0].fire_count + 1
                    /\ \A e \in Events \ {e0} : row'[e] = row[e]
           /\ RecoverOrphanedFiring => \A e \in Events :
                 /\ row'[e].fire_count = row[e].fire_count
                 /\ \/ row'[e] = row[e] /\ StatusOf(e) # "firing"
                    \/ StatusOf(e) = "firing" /\ StatusOf(e)' = "needs_review"
<1> USE DEF TypeOK, StatusOf
<1>1. ASSUME CancelUpdate(e0)
      PROVE  /\ row'[e0].status = "cancelled"
             /\ row'[e0].fire_count = row[e0].fire_count
             /\ \A e \in Events \ {e0} : row'[e] = row[e]
  BY <1>1 DEF CancelUpdate, Row
<1>2. ASSUME NEW t \in Triggers, NEW at \in Nat, AddScheduledEvent(e0, t, at)
      PROVE  /\ row[e0].status = "absent" /\ row'[e0].status = "pending"
             /\ row'[e0].next_fire_at \in Nat /\ row'[e0].fire_count = 0
             /\ \A e \in Events \ {e0} : row'[e] = row[e]
  <2> DEFINE r == [NoRow EXCEPT !.status = "pending", !.trigger = t,
                                !.next_fire_at = at]
  <2>1. r.status = "pending" /\ r.next_fire_at = at /\ r.fire_count = 0
    BY DEF NoRow
  <2>2. row' = [row EXCEPT ![e0] = r] /\ row[e0].status = "absent"
    BY <1>2 DEF AddScheduledEvent
  <2> HIDE DEF r
  <2> QED BY <2>1, <2>2
<1>3. ASSUME NEW s \in Statuses, NEW at \in Slots, EndFire(e0, s, at)
      PROVE  \/ row' = row
             \/ /\ row[e0].status = "firing" /\ row'[e0].status = s
                /\ row'[e0].next_fire_at = at
                /\ row'[e0].fire_count = row[e0].fire_count + 1
                /\ \A e \in Events \ {e0} : row'[e] = row[e]
  BY <1>3 DEF EndFire
<1>4. ASSUME RecoverOrphanedFiring, NEW e \in Events
      PROVE  /\ row'[e].fire_count = row[e].fire_count
             /\ \/ row'[e] = row[e] /\ row[e].status # "firing"
                \/ row[e].status = "firing" /\ row'[e].status = "needs_review"
  <2>1. row[e] \in Row
    OBVIOUS
  <2>2. CASE row[e].status = "firing"
    <3>1. row'[e] = [row[e] EXCEPT !.status = "needs_review",
                                   !.next_fire_at = None, !.lease_pid = None]
      BY <1>4, <2>2 DEF RecoverOrphanedFiring
    <3> QED BY <2>1, <2>2, <3>1 DEF Row
  <2>3. CASE row[e].status # "firing"
    BY <1>4, <2>3 DEF RecoverOrphanedFiring
  <2> QED BY <2>2, <2>3
<1> QED BY <1>1, <1>2, <1>3, <1>4 DEF Inserts

\* A claim takes the slot its copy names, and history keeps it.
LEMMA ClaimEffect ==
    ASSUME TypeOK, NEW p \in Procs, Claim(p)
    PROVE  \E e0 \in Events :
              /\ e0 = cur[p].id /\ StatusOf(e0) = "pending"
              /\ row[e0].next_fire_at = cur[p].at /\ cur[p].at \in Nat
              /\ StatusOf(e0)' = "firing"
              /\ row'[e0].fire_count = row[e0].fire_count
              /\ \A e \in Events \ {e0} : row'[e] = row[e]
              /\ claimed' = [claimed EXCEPT ![e0] = claimed[e0] \cup {cur[p].at}]
              /\ pc[p] = "claim" /\ pc' = [pc EXCEPT ![p] = "parse"]
<1>1. cur[p] \in Item
  BY DEF TypeOK, HasCur, Claim, Goto
<1>2. PICK e0 \in Events : e0 = cur[p].id
  BY <1>1 DEF Item
<1>3. /\ Claimable(e0, cur[p].at) /\ ClaimEventForFire(e0, p)
      /\ claimed' = [claimed EXCEPT ![e0] = claimed[e0] \cup {row[e0].next_fire_at}]
      /\ pc[p] = "claim" /\ pc' = [pc EXCEPT ![p] = "parse"]
  BY <1>2 DEF Claim, Goto
<1>4. row'[e0].status = "firing" /\ row'[e0].fire_count = row[e0].fire_count
        /\ \A e \in Events \ {e0} : row'[e] = row[e]
  BY <1>3 DEF ClaimEventForFire, TypeOK, Row
<1> QED BY <1>1, <1>2, <1>3, <1>4 DEF Claimable, StatusOf, Item

----------------------------------------------------------------------------
(* Slots move forward.                                                     *)

\* With such a clock, what the loop holds in its hands has come, and what it is
\* about to write has not.
Forward ==
    /\ NeverSetBack
    /\ \A p \in Procs :
          /\ \A d \in due[p] : d.at <= now
          /\ pc[p] = "claim" => cur[p].at <= now
          /\ pc[p] = "reschedule" => \A s \in claimed[cur[p].id] : s < nxt[p]
          /\ \A e \in Events : cancel[p] = e => StatusOf(e) # "absent"
    /\ \A e \in Events : StatusOf(e) = "absent" => claimed[e] = {}
    /\ FiredNotEarly
    /\ SlotsMoveForward

\* One step keeps Forward.
LEMMA ForwardStep ==
    TypeOK /\ TypeOK' /\ Holding /\ Forward /\ [Next]_vars => Forward'
<1> SUFFICES ASSUME TypeOK, TypeOK', Holding, Forward, [Next]_vars PROVE Forward'
  OBVIOUS
<1> USE StoreAssumption
<1>0. TableStep /\ LocalStep
  BY Steps DEF Forward
<1>1. now \in Nat /\ now' \in Nat /\ now <= now'
  BY <1>0 DEF LocalStep, TypeOK
<1>2. \A e \in Events : \A s \in claimed[e] : s \in Nat /\ s <= now
  BY DEF Forward, FiredNotEarly, TypeOK
<1>3. ASSUME NEW p \in Procs
      PROVE  /\ \A d \in due'[p] : d.at <= now'
             /\ pc'[p] = "claim" => cur'[p].at <= now'
  <2>1. \A d \in due[p] : d.at \in Nat /\ d.at <= now
    BY DEF Forward, TypeOK, Item
  <2>2. \A d \in due'[p] : d.at \in Nat /\ d.at <= now
    BY <1>0, <2>1 DEF LocalStep, TypeOK, Item
  <2>3. pc'[p] = "claim" => cur'[p].at \in Nat /\ cur'[p].at <= now
    BY <1>0, <2>1 DEF LocalStep, TypeOK, Forward, HasCur, Item
  <2> QED BY <1>1, <2>2, <2>3
<1>4. \A p \in Procs : pc[p] \in HasCur => cur[p].id \in Events
  BY DEF TypeOK, Item
<1>5. ASSUME claimed' = claimed,
             \A e \in Events : StatusOf(e)' = "absent" => StatusOf(e) = "absent",
             \A e \in Events : StatusOf(e)' = "pending" =>
                \/ row'[e] = row[e]
                \/ /\ row'[e].next_fire_at \in Nat
                   /\ \A s \in claimed[e] : s < row'[e].next_fire_at
      PROVE  Forward'
  <2>1. FiredNotEarly'
    BY <1>1, <1>2, <1>5 DEF FiredNotEarly
  <2>2. SlotsMoveForward'
    BY <1>5 DEF SlotsMoveForward, Forward, StatusOf
  <2>3. ASSUME NEW p \in Procs, pc'[p] = "reschedule"
        PROVE  \A s \in claimed'[cur'[p].id] : s < nxt'[p]
    <3>1. CASE pc[p] = "reschedule" /\ nxt'[p] = nxt[p]
      BY <1>0, <1>5, <2>3, <3>1 DEF LocalStep, Forward
    <3>2. CASE pc[p] = "clock" /\ nxt'[p] > now
      <4>1. cur'[p] = cur[p] /\ cur[p].id \in Events
        BY <1>0, <1>4, <2>3, <3>2 DEF LocalStep, HasCur, InFire
      <4>2. nxt'[p] \in Nat
        BY <2>3 DEF TypeOK
      <4> QED BY <1>1, <1>2, <1>5, <3>2, <4>1, <4>2
    <3> QED BY <1>0, <2>3, <3>1, <3>2 DEF LocalStep
  <2>4. ASSUME NEW p \in Procs, NEW e \in Events, cancel'[p] = e
        PROVE  StatusOf(e)' # "absent"
    <3>1. StatusOf(e) # "absent"
      BY <1>0, <2>4 DEF LocalStep, Forward
    <3> QED BY <1>5, <3>1 DEF StatusOf
  <2>5. \A e \in Events : StatusOf(e)' = "absent" => claimed'[e] = {}
    BY <1>5 DEF Forward
  <2> QED BY <1>1, <1>3, <2>1, <2>2, <2>3, <2>4, <2>5 DEF Forward
<1>6. CASE row' = row /\ claimed' = claimed
  BY <1>5, <1>6 DEF StatusOf
<1>7. ASSUME NEW p \in Procs, Claim(p) PROVE Forward'
  <2>1. PICK e0 \in Events :
          /\ e0 = cur[p].id /\ StatusOf(e0) = "pending"
          /\ row[e0].next_fire_at = cur[p].at /\ cur[p].at \in Nat
          /\ StatusOf(e0)' = "firing"
          /\ \A e \in Events \ {e0} : row'[e] = row[e]
          /\ claimed' = [claimed EXCEPT ![e0] = claimed[e0] \cup {cur[p].at}]
          /\ pc[p] = "claim" /\ pc' = [pc EXCEPT ![p] = "parse"]
    BY <1>7, ClaimEffect
  <2>2. /\ claimed'[e0] = claimed[e0] \cup {cur[p].at}
        /\ \A e \in Events \ {e0} : claimed'[e] = claimed[e]
    BY <2>1 DEF TypeOK
  <2>3. cur[p].at <= now
    BY <2>1 DEF Forward
  <2>4. FiredNotEarly'
    BY <1>1, <1>2, <2>1, <2>2, <2>3 DEF FiredNotEarly
  <2>5. SlotsMoveForward'
    BY <2>1, <2>2 DEF SlotsMoveForward, Forward, StatusOf
  <2>6. ASSUME NEW q \in Procs, pc'[q] = "reschedule"
        PROVE  \A s \in claimed'[cur'[q].id] : s < nxt'[q]
    <3>1. q # p /\ pc[q] = "reschedule"
      BY <2>1, <2>6 DEF TypeOK
    <3>2. cur'[q] = cur[q] /\ nxt'[q] = nxt[q]
      BY <1>0, <2>6, <3>1 DEF LocalStep
    <3>3. cur[q].id \in Events /\ Firer(q, cur[q].id)
      BY <1>4, <3>1 DEF HasCur, InFire, Firer
    <3>4. cur[q].id # e0
      BY <2>1, <3>3 DEF Holding, OneFirerPerEvent, Terminal
    <3> QED BY <2>2, <3>1, <3>2, <3>3, <3>4 DEF Forward
  <2>7. ASSUME NEW q \in Procs, NEW e \in Events, cancel'[q] = e
        PROVE  StatusOf(e)' # "absent"
    <3>1. StatusOf(e) # "absent"
      BY <1>0, <2>7 DEF LocalStep, Forward
    <3> QED BY <2>1, <3>1 DEF StatusOf
  <2>8. \A e \in Events : StatusOf(e)' = "absent" => claimed'[e] = {}
    BY <2>1, <2>2 DEF Forward, StatusOf
  <2> QED BY <1>1, <1>3, <2>4, <2>5, <2>6, <2>7, <2>8 DEF Forward
<1>8. CASE claimed' = claimed /\ RecoverOrphanedFiring
  <2>1. \A e \in Events : row'[e] = row[e] \/ StatusOf(e)' = "needs_review"
    BY <1>8, Effects
  <2> QED BY <1>5, <1>8, <2>1 DEF StatusOf
<1>9. ASSUME NEW e0 \in Events, claimed' = claimed, Inserts(e0) PROVE Forward'
  <2>1. /\ StatusOf(e0) = "absent" /\ StatusOf(e0)' = "pending"
        /\ row'[e0].next_fire_at \in Nat
        /\ \A e \in Events \ {e0} : row'[e] = row[e]
    BY <1>9, Effects
  <2>2. claimed[e0] = {}
    BY <2>1 DEF Forward
  <2> QED BY <1>5, <1>9, <2>1, <2>2 DEF StatusOf
<1>10. ASSUME NEW p \in Procs, claimed' = claimed, cancel[p] # None,
              CancelUpdate(cancel[p])
       PROVE  Forward'
  <2>1. PICK e0 \in Events : e0 = cancel[p]
    BY <1>10 DEF TypeOK
  <2>2. StatusOf(e0)' = "cancelled" /\ \A e \in Events \ {e0} : row'[e] = row[e]
    BY <1>10, <2>1, Effects
  <2> QED BY <1>5, <1>10, <2>2 DEF StatusOf
<1>11. ASSUME NEW p \in Procs, claimed' = claimed, EndsOneShot(p) PROVE Forward'
  <2>1. PICK e0 \in Events, s \in {"done", "failed"} :
           e0 = cur[p].id /\ EndFire(e0, s, None)
    BY <1>4, <1>11 DEF EndsOneShot, HasCur
  <2>2. \/ row' = row
        \/ StatusOf(e0)' = s /\ \A e \in Events \ {e0} : row'[e] = row[e]
    BY <2>1, Effects DEF Statuses, Slots
  <2> QED BY <1>5, <1>11, <2>1, <2>2 DEF StatusOf
<1>12. ASSUME NEW p \in Procs, claimed' = claimed, Recurs(p) PROVE Forward'
  <2>1. PICK e0 \in Events : e0 = cur[p].id /\ EndFire(e0, "pending", nxt[p])
    BY <1>4, <1>12 DEF Recurs, HasCur, InFire
  <2>2. nxt[p] \in Nat /\ \A s \in claimed[e0] : s < nxt[p]
    BY <1>12, <2>1 DEF Recurs, Forward, TypeOK
  <2>3. \/ row' = row
        \/ /\ row'[e0].next_fire_at = nxt[p] /\ StatusOf(e0)' = "pending"
           /\ \A e \in Events \ {e0} : row'[e] = row[e]
    BY <2>1, <2>2, Effects DEF Statuses, Slots
  <2> QED BY <1>5, <1>12, <2>2, <2>3 DEF StatusOf
<1> QED BY <1>0, <1>6, <1>7, <1>8, <1>9, <1>10, <1>11, <1>12 DEF TableStep

\* Forward holds from the start, when the clock is never set back.
LEMMA ForwardInit == NeverSetBack /\ Init => Forward
BY StoreAssumption
   DEF Init, StoreInit, NoRow, StatusOf, Forward, FiredNotEarly, SlotsMoveForward

\* All that is kept while the clock goes forward.
LEMMA AllForward ==
    ASSUME NeverSetBack PROVE Spec => [](TypeOK /\ Holding /\ Forward)
<1>1. Spec => [](OneFirerPerEvent /\ FiringIsHeld)
  BY NoTwoFirers, NoLostFire, PTL
<1>2. Init => Forward
  BY ForwardInit
<1>3. TypeOK /\ TypeOK' /\ Holding /\ Forward /\ [Next]_vars => Forward'
  BY ForwardStep
<1>4. OneFirerPerEvent /\ FiringIsHeld => Holding
  BY DEF Holding
<1> QED BY <1>1, <1>2, <1>3, <1>4, TypeCorrect, PTL DEF Spec

\* While the clock is not set back, no action begins before the slot it was
\* scheduled for, for any number of events and processes.
THEOREM NeverEarly == ASSUME NeverSetBack PROVE Spec => []FiredNotEarly
<1>1. Forward => FiredNotEarly
  BY DEF Forward
<1> QED BY <1>1, AllForward, PTL

\* While the clock is not set back, a pending event waits for a slot later than
\* every slot it has fired.
THEOREM OnlyForward == ASSUME NeverSetBack PROVE Spec => []SlotsMoveForward
<1>1. Forward => SlotsMoveForward
  BY DEF Forward
<1> QED BY <1>1, AllForward, PTL

----------------------------------------------------------------------------
(* fire_count keeps account.                                               *)

Counted == FireCountAccounts /\ \A e \in Events : IsFiniteSet(claimed[e])

\* One step keeps the account.
LEMMA CountStep ==
    TypeOK /\ TypeOK' /\ Holding /\ Forward /\ Counted /\ [Next]_vars => Counted'
<1> SUFFICES ASSUME TypeOK, TypeOK', Holding, Forward, Counted, [Next]_vars
             PROVE  Counted'
  OBVIOUS
<1> USE StoreAssumption
<1>0. TableStep
  BY Steps DEF Forward
<1>1. \A e \in Events : /\ row[e].fire_count \in Nat
                        /\ IsFiniteSet(claimed[e]) /\ Cardinality(claimed[e]) \in Nat
  BY FS_CardinalityType DEF Counted, TypeOK, Row
<1>2. \A p \in Procs : pc[p] \in HasCur => cur[p].id \in Events
  BY DEF TypeOK, Item
<1> DEFINE Missing(e) == Cardinality(claimed[e]) - row[e].fire_count
<1>3. \A e \in Events :
        /\ StatusOf(e) \in {"firing", "needs_review"} => Missing(e) = 1
        /\ StatusOf(e) = "cancelled" => Missing(e) \in {0, 1}
        /\ StatusOf(e) \notin {"firing", "needs_review", "cancelled"} => Missing(e) = 0
        /\ Missing(e) \in {0, 1}
  BY DEF Counted, FireCountAccounts
<1>4. ASSUME claimed' = claimed,
             \A e \in Events :
                \/ row'[e] = row[e]
                \/ /\ row'[e].fire_count = row[e].fire_count
                   /\ \/ StatusOf(e)' = "cancelled"
                      \/ StatusOf(e) = "firing" /\ StatusOf(e)' = "needs_review"
                \/ /\ row'[e].fire_count = row[e].fire_count + 1
                   /\ StatusOf(e) = "firing"
                   /\ StatusOf(e)' \in {"done", "failed", "pending"}
                \/ /\ StatusOf(e) = "absent" /\ StatusOf(e)' = "pending"
                   /\ row'[e].fire_count = 0
      PROVE  Counted'
  <2>1. ASSUME NEW e \in Events
        PROVE  CASE StatusOf(e)' \in {"firing", "needs_review"} ->
                       Cardinality(claimed[e]) - row'[e].fire_count = 1
                 [] StatusOf(e)' = "cancelled" ->
                       Cardinality(claimed[e]) - row'[e].fire_count \in {0, 1}
                 [] OTHER -> Cardinality(claimed[e]) - row'[e].fire_count = 0
    <3>1. CASE row'[e] = row[e]
      BY <1>3, <3>1 DEF StatusOf
    <3>2. CASE row'[e].fire_count = row[e].fire_count /\ StatusOf(e)' = "cancelled"
      BY <1>3, <3>2
    <3>3. CASE /\ row'[e].fire_count = row[e].fire_count
               /\ StatusOf(e) = "firing" /\ StatusOf(e)' = "needs_review"
      BY <1>3, <3>3
    <3>4. CASE /\ row'[e].fire_count = row[e].fire_count + 1
               /\ StatusOf(e) = "firing"
               /\ StatusOf(e)' \in {"done", "failed", "pending"}
      BY <1>1, <1>3, <3>4
    <3>5. CASE /\ StatusOf(e) = "absent" /\ StatusOf(e)' = "pending"
               /\ row'[e].fire_count = 0
      <4>1. claimed[e] = {}
        BY <3>5 DEF Forward
      <4> QED BY <3>5, <4>1, FS_EmptySet
    <3> QED BY <1>4, <3>1, <3>2, <3>3, <3>4, <3>5
  <2> QED BY <1>1, <1>4, <2>1 DEF Counted, FireCountAccounts
<1>5. CASE row' = row /\ claimed' = claimed
  BY <1>4, <1>5
<1>6. ASSUME NEW p \in Procs, Claim(p) PROVE Counted'
  <2>1. PICK e0 \in Events :
          /\ e0 = cur[p].id /\ StatusOf(e0) = "pending"
          /\ row[e0].next_fire_at = cur[p].at /\ cur[p].at \in Nat
          /\ StatusOf(e0)' = "firing"
          /\ row'[e0].fire_count = row[e0].fire_count
          /\ \A e \in Events \ {e0} : row'[e] = row[e]
          /\ claimed' = [claimed EXCEPT ![e0] = claimed[e0] \cup {cur[p].at}]
    BY <1>6, ClaimEffect
  <2>2. cur[p].at \notin claimed[e0]
    BY <2>1 DEF Forward, SlotsMoveForward, TypeOK
  <2>3. /\ IsFiniteSet(claimed[e0] \cup {cur[p].at})
        /\ Cardinality(claimed[e0] \cup {cur[p].at}) = Cardinality(claimed[e0]) + 1
    BY <1>1, <2>2, FS_AddElement
  <2>4. /\ claimed'[e0] = claimed[e0] \cup {cur[p].at}
        /\ \A e \in Events \ {e0} : claimed'[e] = claimed[e]
    BY <2>1 DEF TypeOK
  <2>5. Cardinality(claimed'[e0]) - row'[e0].fire_count = 1
    <3>1. Cardinality(claimed[e0]) - row[e0].fire_count = 0
      BY <1>3, <2>1
    <3>2. /\ row'[e0].fire_count = row[e0].fire_count /\ row[e0].fire_count \in Nat
          /\ Cardinality(claimed[e0]) \in Nat
          /\ Cardinality(claimed'[e0]) = Cardinality(claimed[e0]) + 1
      BY <1>1, <2>1, <2>3, <2>4
    <3> HIDE DEF Missing
    <3> QED BY <3>1, <3>2
  <2>6. \A e \in Events \ {e0} :
          CASE StatusOf(e)' \in {"firing", "needs_review"} ->
                  Cardinality(claimed'[e]) - row'[e].fire_count = 1
            [] StatusOf(e)' = "cancelled" ->
                  Cardinality(claimed'[e]) - row'[e].fire_count \in {0, 1}
            [] OTHER -> Cardinality(claimed'[e]) - row'[e].fire_count = 0
    BY <1>3, <2>1, <2>4 DEF StatusOf
  <2>7. ASSUME NEW e \in Events
        PROVE  CASE StatusOf(e)' \in {"firing", "needs_review"} ->
                       Cardinality(claimed'[e]) - row'[e].fire_count = 1
                 [] StatusOf(e)' = "cancelled" ->
                       Cardinality(claimed'[e]) - row'[e].fire_count \in {0, 1}
                 [] OTHER -> Cardinality(claimed'[e]) - row'[e].fire_count = 0
    <3>1. CASE e = e0
      BY <2>1, <2>5, <3>1
    <3> QED BY <2>6, <3>1
  <2>8. \A e \in Events : IsFiniteSet(claimed'[e])
    BY <1>1, <2>3, <2>4
  <2>9. FireCountAccounts'
    BY <2>7 DEF FireCountAccounts
  <2> QED BY <2>8, <2>9 DEF Counted
<1>7. CASE claimed' = claimed /\ RecoverOrphanedFiring
  <2>1. ASSUME NEW e0 \in Events
        PROVE  \/ row'[e0] = row[e0]
               \/ /\ row'[e0].fire_count = row[e0].fire_count
                  /\ StatusOf(e0) = "firing" /\ StatusOf(e0)' = "needs_review"
    BY <1>7, Effects
  <2> QED BY <1>4, <1>7, <2>1
<1>8. ASSUME NEW e0 \in Events, claimed' = claimed, Inserts(e0) PROVE Counted'
  BY <1>4, <1>8, Effects
<1>9. ASSUME NEW p \in Procs, claimed' = claimed, cancel[p] # None,
             CancelUpdate(cancel[p])
      PROVE  Counted'
  <2>1. PICK e0 \in Events : e0 = cancel[p]
    BY <1>9 DEF TypeOK
  <2> QED BY <1>4, <1>9, <2>1, Effects
<1>10. ASSUME NEW p \in Procs, claimed' = claimed, EndsOneShot(p) PROVE Counted'
  <2>1. PICK e0 \in Events, s \in {"done", "failed"} :
           e0 = cur[p].id /\ EndFire(e0, s, None)
    BY <1>2, <1>10 DEF EndsOneShot, HasCur
  <2> QED BY <1>4, <1>10, <2>1, Effects DEF Statuses, Slots
<1>11. ASSUME NEW p \in Procs, claimed' = claimed, Recurs(p) PROVE Counted'
  <2>1. PICK e0 \in Events : e0 = cur[p].id /\ EndFire(e0, "pending", nxt[p])
    BY <1>2, <1>11 DEF Recurs, HasCur, InFire
  <2>2. nxt[p] \in Slots
    BY DEF TypeOK
  <2> QED BY <1>4, <1>11, <2>1, <2>2, Effects DEF Statuses
<1> QED BY <1>0, <1>5, <1>6, <1>7, <1>8, <1>9, <1>10, <1>11 DEF TableStep

\* While the clock is not set back, fire_count is the number of slots fired,
\* less the one that is running or was interrupted.
THEOREM CountsEveryFire == ASSUME NeverSetBack PROVE Spec => []FireCountAccounts
<1>1. Init => Counted
  BY FS_EmptySet
     DEF Init, StoreInit, NoRow, StatusOf, Counted, FireCountAccounts
<1>2. TypeOK /\ TypeOK' /\ Holding /\ Forward /\ Counted /\ [Next]_vars => Counted'
  BY CountStep
<1>3. Counted => FireCountAccounts
  BY DEF Counted
<1> QED BY <1>1, <1>2, <1>3, TypeCorrect, AllForward, PTL DEF Spec

----------------------------------------------------------------------------
(* The scheduler implements the ledger.                                    *)

\* The phase of an event is a function of its status.
LEMMA PhaseOf ==
    ASSUME NEW e \in Events
    PROVE  /\ phase[e] = CASE StatusOf(e) = "absent" -> "none"
                           [] StatusOf(e) = "pending" -> "waiting"
                           [] StatusOf(e) = "firing" -> "taken"
                           [] OTHER -> "over"
           /\ phase'[e] = CASE StatusOf(e)' = "absent" -> "none"
                            [] StatusOf(e)' = "pending" -> "waiting"
                            [] StatusOf(e)' = "firing" -> "taken"
                            [] OTHER -> "over"
BY DEF phase

\* One event changes its phase, the others keep theirs.
LEMMA PhaseOfOne ==
    ASSUME NEW e0 \in Events, \A e \in Events \ {e0} : row'[e] = row[e]
    PROVE  phase' = [phase EXCEPT ![e0] = phase'[e0]]
<1>1. \A e \in Events \ {e0} : phase'[e] = phase[e]
  BY PhaseOf DEF StatusOf
<1>2. DOMAIN phase = Events /\ DOMAIN phase' = Events
  BY DEF phase
<1>3. phase = [e \in Events |-> phase[e]] /\ phase' = [e \in Events |-> phase'[e]]
  BY DEF phase
<1> HIDE DEF phase
<1> QED BY <1>1, <1>2, <1>3

\* Every step is a step of the ledger, or changes nothing in it.
LEMMA LedgerStep ==
    TypeOK /\ TypeOK' /\ Holding /\ Forward /\ [Next]_vars
        => [Ledger!Next]_(Ledger!ledger)
<1> SUFFICES ASSUME TypeOK, TypeOK', Holding, Forward, [Next]_vars
             PROVE  Ledger!Next \/ UNCHANGED Ledger!ledger
  BY DEF Ledger!ledger
<1> USE StoreAssumption
<1>0. TableStep
  BY Steps DEF Forward
<1>1. \A p \in Procs : pc[p] \in HasCur => cur[p].id \in Events
  BY DEF TypeOK, Item
<1>2. \A e \in Events : StatusOf(e) \in Statuses /\ StatusOf(e)' \in Statuses
  BY DEF TypeOK, StatusOf, Row
<1>3. ASSUME NEW S \in SUBSET Events, claimed' = claimed,
             \A e \in S : /\ StatusOf(e)' \in Terminal
                          /\ StatusOf(e) \in {"pending", "firing"},
             \A e \in Events \ S : phase'[e] = phase[e]
      PROVE  Ledger!Next \/ UNCHANGED Ledger!ledger
  <2>1. \A e \in S : phase'[e] = "over" /\ phase[e] \in {"waiting", "taken"}
    BY <1>3, PhaseOf DEF Terminal
  <2>2. phase = [e \in Events |-> phase[e]] /\ phase' = [e \in Events |-> phase'[e]]
    BY DEF phase
  <2>3. phase' = [e \in Events |-> IF e \in S THEN "over" ELSE phase[e]]
    <3> HIDE DEF phase
    <3> QED BY <1>3, <2>1, <2>2
  <2>4. CASE S = {}
    <3>1. phase' = phase
      <4> HIDE DEF phase
      <4> QED BY <2>2, <2>3, <2>4
    <3> QED BY <1>3, <3>1 DEF Ledger!ledger
  <2>5. CASE S # {}
    <3>1. Ledger!Finish(S)
      BY <1>3, <2>1, <2>3, <2>5 DEF Ledger!Finish
    <3> QED BY <3>1 DEF Ledger!Next
  <2> QED BY <2>4, <2>5
<1>4. CASE row' = row /\ claimed' = claimed
  <2>1. phase' = phase
    BY <1>4 DEF phase, StatusOf
  <2> QED BY <1>4, <2>1 DEF Ledger!ledger
<1>5. ASSUME NEW p \in Procs, Claim(p) PROVE Ledger!Next
  <2>1. PICK e0 \in Events :
          /\ e0 = cur[p].id /\ StatusOf(e0) = "pending"
          /\ row[e0].next_fire_at = cur[p].at /\ cur[p].at \in Nat
          /\ StatusOf(e0)' = "firing"
          /\ \A e \in Events \ {e0} : row'[e] = row[e]
          /\ claimed' = [claimed EXCEPT ![e0] = claimed[e0] \cup {cur[p].at}]
    BY <1>5, ClaimEffect
  <2>2. phase[e0] = "waiting" /\ phase'[e0] = "taken"
    BY <2>1, PhaseOf
  <2>3. phase' = [phase EXCEPT ![e0] = "taken"]
    BY <2>1, <2>2, PhaseOfOne
  <2>4. cur[p].at \notin claimed[e0]
    BY <2>1 DEF Forward, SlotsMoveForward, TypeOK
  <2>5. cur[p].at \in claimed'[e0] \ claimed[e0]
    BY <2>1, <2>4 DEF TypeOK
  <2>6. Ledger!Take(e0)
    <3> HIDE DEF phase
    <3> QED BY <2>1, <2>2, <2>3, <2>5 DEF Ledger!Take
  <2> QED BY <2>6 DEF Ledger!Next
<1>6. CASE claimed' = claimed /\ RecoverOrphanedFiring
  <2>1. ASSUME NEW e \in Events
        PROVE  \/ row'[e] = row[e] /\ StatusOf(e) # "firing"
               \/ StatusOf(e) = "firing" /\ StatusOf(e)' = "needs_review"
    BY <1>6, Effects
  <2>2. \A e \in Events \ Firing : phase'[e] = phase[e]
    BY <2>1, PhaseOf DEF Firing, StatusOf
  <2>3. \A e \in Firing : StatusOf(e)' \in Terminal /\ StatusOf(e) = "firing"
    BY <2>1 DEF Firing, Terminal
  <2>4. Firing \in SUBSET Events
    BY DEF Firing
  <2> QED BY <1>3, <1>6, <2>2, <2>3, <2>4
<1>7. ASSUME NEW e0 \in Events, claimed' = claimed, Inserts(e0) PROVE Ledger!Next
  <2>1. /\ StatusOf(e0) = "absent" /\ StatusOf(e0)' = "pending"
        /\ \A e \in Events \ {e0} : row'[e] = row[e]
    BY <1>7, Effects
  <2>2. phase[e0] = "none" /\ phase'[e0] = "waiting"
    BY <2>1, PhaseOf
  <2>3. Ledger!Create(e0)
    BY <1>7, <2>1, <2>2, PhaseOfOne DEF Ledger!Create
  <2> QED BY <2>3 DEF Ledger!Next
<1>8. ASSUME NEW e0 \in Events, claimed' = claimed, StatusOf(e0) # "absent",
             StatusOf(e0)' \in Terminal, \A e \in Events \ {e0} : row'[e] = row[e]
      PROVE  Ledger!Next \/ UNCHANGED Ledger!ledger
  <2>1. \A e \in Events \ {e0} : phase'[e] = phase[e]
    BY <1>8, PhaseOf DEF StatusOf
  <2>2. CASE StatusOf(e0) \in {"pending", "firing"}
    <3>1. /\ {e0} \in SUBSET Events /\ \A e \in Events \ {e0} : phase'[e] = phase[e]
          /\ \A e \in {e0} : /\ StatusOf(e)' \in Terminal
                             /\ StatusOf(e) \in {"pending", "firing"}
      BY <1>8, <2>1, <2>2
    <3> HIDE DEF phase
    <3> QED BY <1>3, <1>8, <3>1
  <2>3. CASE StatusOf(e0) \notin {"pending", "firing"}
    <3>1. phase[e0] = "over" /\ phase'[e0] = "over"
      BY <1>8, <2>3, PhaseOf DEF Terminal
    <3>2. {} \in SUBSET Events /\ \A e \in Events \ {} : phase'[e] = phase[e]
      BY <2>1, <3>1
    <3> HIDE DEF phase
    <3> QED BY <1>3, <1>8, <3>2
  <2> QED BY <2>2, <2>3
<1>9. ASSUME NEW p \in Procs, claimed' = claimed, cancel[p] # None,
             CancelUpdate(cancel[p])
      PROVE  Ledger!Next \/ UNCHANGED Ledger!ledger
  <2>1. PICK e0 \in Events : e0 = cancel[p]
    BY <1>9 DEF TypeOK
  <2>2. StatusOf(e0)' = "cancelled" /\ \A e \in Events \ {e0} : row'[e] = row[e]
    BY <1>9, <2>1, Effects
  <2>3. StatusOf(e0) # "absent"
    BY <2>1 DEF Forward
  <2> QED BY <1>8, <1>9, <2>2, <2>3 DEF Terminal
<1>10. ASSUME NEW p \in Procs, claimed' = claimed, EndsOneShot(p)
       PROVE  Ledger!Next \/ UNCHANGED Ledger!ledger
  <2>1. PICK e0 \in Events, s \in {"done", "failed"} :
           e0 = cur[p].id /\ EndFire(e0, s, None)
    BY <1>1, <1>10 DEF EndsOneShot, HasCur
  <2>2. \/ row' = row
        \/ /\ StatusOf(e0) = "firing" /\ StatusOf(e0)' = s
           /\ \A e \in Events \ {e0} : row'[e] = row[e]
    BY <2>1, Effects DEF Statuses, Slots
  <2> QED BY <1>4, <1>8, <1>10, <2>2 DEF Terminal
<1>11. ASSUME NEW p \in Procs, claimed' = claimed, Recurs(p)
       PROVE  Ledger!Next \/ UNCHANGED Ledger!ledger
  <2>1. PICK e0 \in Events : e0 = cur[p].id /\ EndFire(e0, "pending", nxt[p])
    BY <1>1, <1>11 DEF Recurs, HasCur, InFire
  <2>2. nxt[p] \in Slots
    BY DEF TypeOK
  <2>3. \/ row' = row
        \/ /\ StatusOf(e0) = "firing" /\ StatusOf(e0)' = "pending"
           /\ \A e \in Events \ {e0} : row'[e] = row[e]
    BY <2>1, <2>2, Effects DEF Statuses
  <2>4. CASE row' = row
    BY <1>4, <1>11, <2>4
  <2>5. CASE row' # row
    <3>1. phase[e0] = "taken" /\ phase'[e0] = "waiting"
      BY <2>3, <2>5, PhaseOf
    <3>2. Ledger!PutBack(e0)
      BY <1>11, <2>3, <2>5, <3>1, PhaseOfOne DEF Ledger!PutBack
    <3> QED BY <3>2 DEF Ledger!Next
  <2> QED BY <2>4, <2>5
<1> QED BY <1>0, <1>4, <1>5, <1>6, <1>7, <1>9, <1>10, <1>11 DEF TableStep

\* While the clock is not set back, the table and its threads, deaths,
\* recoveries and racing tools included, implement the ledger: a slot is handed
\* out at most once, and an event that is over stays over.
THEOREM KeepsTheLedger == ASSUME NeverSetBack PROVE Spec => ImplementsLedger
<1>1. Init => Ledger!Init
  BY DEF Init, StoreInit, NoRow, Ledger!Init, phase, StatusOf
<1>2. TypeOK /\ TypeOK' /\ Holding /\ Forward /\ [Next]_vars
        => [Ledger!Next]_(Ledger!ledger)
  BY LedgerStep
<1> QED BY <1>1, <1>2, TypeCorrect, AllForward, PTL
        DEF Spec, ImplementsLedger, Ledger!Spec

----------------------------------------------------------------------------
(* No wake-up is lost.                                                     *)

\* The loop has peeked, and nothing is about to make it look again.
Asleep(p) ==
    /\ pc[p] \in {"decide", "wait"} /\ ~notify[p]
    /\ pc[p] = "decide" => ~wake[p]

\* A loop asleep wakes for the next slot.
Attentive ==
    /\ budget.fault = 0
    /\ \A e \in Events : StatusOf(e) = "pending" =>
          /\ row[e].next_fire_at \in Nat
          /\ \A p \in Procs :
                Asleep(p) => left[p] = 0
                               \/ now + left[p] <= row[e].next_fire_at + jumped[p]

\* No row has become pending or changed its slot.
Calm == \A e \in Events : StatusOf(e)' = "pending" => row'[e] = row[e]

\* A thread asleep after a calm step was asleep before, with the same timeout.
LEMMA CalmStep ==
    ASSUME Attentive, Calm, budget'.fault = 0,
           UNCHANGED <<now, jumped>>,
           \A p \in Procs : Asleep(p)' => Asleep(p) /\ left'[p] = left[p]
    PROVE  Attentive'
<1>1. \A e \in Events : StatusOf(e)' = "pending" =>
         StatusOf(e) = "pending" /\ row'[e].next_fire_at = row[e].next_fire_at
  BY DEF Calm, StatusOf
<1>2. ASSUME NEW e \in Events, StatusOf(e)' = "pending", NEW p \in Procs, Asleep(p)'
      PROVE  left'[p] = 0 \/ now' + left'[p] <= row'[e].next_fire_at + jumped'[p]
  BY <1>1, <1>2 DEF Attentive
<1> QED BY <1>1, <1>2 DEF Attentive

\* When the only process is awake its rows may change at will.
LEMMA AwakeStep ==
    ASSUME budget'.fault = 0, \A p \in Procs : ~Asleep(p)',
           \A e \in Events : StatusOf(e)' = "pending" => row'[e].next_fire_at \in Nat
    PROVE  Attentive'
BY DEF Attentive

LEMMA AttentiveStep ==
    ASSUME \A p, q \in Procs : p = q,
           TypeOK, TypeOK', Attentive, [Next]_vars
    PROVE  Attentive'
<1> USE ThreadAssumption, StoreAssumption
    DEF Goto, fire, loop, tools, cv, env, vars
<1>0. /\ pc \in [Procs -> PCs] /\ wake \in [Procs -> BOOLEAN] /\ notify \in [Procs -> BOOLEAN]
      /\ left \in [Procs -> Nat] /\ now \in Nat /\ jumped \in [Procs -> Nat]
      /\ budget \in [clock : Nat, crash : Nat, fault : Nat] /\ budget.fault = 0
      /\ \A p \in Procs : pc[p] \in HasCur => cur[p].id \in Events
  BY DEF TypeOK, Attentive, Item
<1>1. UNCHANGED row => Calm
  BY DEF Calm, StatusOf
<1>2. Calm => \A e \in Events : StatusOf(e)' = "pending" => row'[e].next_fire_at \in Nat
  BY DEF Calm, Attentive, StatusOf
<1>3. ASSUME NEW p \in Procs, Calm, UNCHANGED budget, pc'[p] \notin {"decide", "wait"}
      PROVE  Attentive'
  <2>1. \A q \in Procs : ~Asleep(q)'
    BY <1>3 DEF Asleep
  <2> QED BY <1>0, <1>2, <1>3, <2>1, AwakeStep
<1>4. ASSUME NEW p \in Procs, NEW e \in Events, NEW s \in {"done", "failed"},
             EndFire(e, s, None)
      PROVE  Calm
  <2>1. s \in Statuses /\ None \in Slots /\ s # "pending"
    BY DEF Statuses, Slots
  <2>2. \/ row' = row
        \/ StatusOf(e)' = s /\ \A f \in Events \ {e} : row'[f] = row[f]
    BY <1>4, <2>1, Effects
  <2> QED BY <1>1, <2>1, <2>2 DEF Calm
<1>5. ASSUME NEW p \in Procs, Start(p) \/ Recover(p) PROVE Attentive'
  <2>1. CASE Start(p)
    BY <1>0, <1>1, <1>3, <2>1 DEF Start
  <2>2. CASE Recover(p)
    <3>1. Calm
      BY <2>2, Effects DEF Recover, Calm
    <3> QED BY <1>0, <1>3, <2>2, <3>1 DEF Recover
  <2> QED BY <1>5, <2>1, <2>2
<1>6. ASSUME NEW p \in Procs, Loop(p) PROVE Attentive'
  <2>1. CASE LoopTop(p)
    BY <1>0, <1>1, <1>3, <2>1 DEF LoopTop
  <2>2. CASE QueryDue(p)
    BY <1>0, <1>1, <1>3, <2>2 DEF QueryDue
  <2>3. CASE NextDue(p)
    BY <1>0, <1>1, <1>3, <2>3 DEF NextDue
  <2>4. CASE EndOfPass(p)
    BY <1>0, <1>1, <1>3, <2>4 DEF EndOfPass
  <2>5. CASE QueryRaises(p) \/ PeekRaises(p)
    BY <1>0, <2>5 DEF QueryRaises, PeekRaises, Raise
  <2>6. CASE Peek(p)
    <3>1. PICK d \in SleepSeconds : left' = [left EXCEPT ![p] = d]
      BY <2>6 DEF Peek
    <3>2. UNCHANGED <<row, now, budget>> /\ left'[p] = d /\ jumped'[p] = 0
      BY <1>0, <2>6, <3>1 DEF Peek
    <3>3. \A e \in Events : StatusOf(e) = "pending" =>
             d = 0 \/ now + d <= row[e].next_fire_at
      BY <3>1 DEF SleepSeconds
    <3> QED BY <3>2, <3>3 DEF Attentive, StatusOf
  <2>7. CASE Decide(p)
    <3>1. UNCHANGED <<row, budget, notify, wake, left, now, jumped>>
      BY <2>7 DEF Decide
    <3>2. ASSUME NEW q \in Procs, Asleep(q)' PROVE Asleep(q)
      BY <1>0, <2>7, <3>1, <3>2 DEF Decide, Asleep
    <3> QED BY <1>0, <1>1, <3>1, <3>2, CalmStep
  <2>8. CASE TimeOut(p)
    BY <1>0, <1>1, <1>3, <2>8 DEF TimeOut
  <2> QED BY <1>6, <2>1, <2>2, <2>3, <2>4, <2>5, <2>6, <2>7, <2>8 DEF Loop
<1>7. ASSUME NEW p \in Procs, Fire(p) PROVE Attentive'
  <2>1. CASE Claim(p)
    <3>1. Calm
      BY <2>1, ClaimEffect DEF Calm
    <3> QED BY <1>0, <1>3, <2>1, <3>1 DEF Claim
  <2>2. CASE ClaimLost(p)
    BY <1>0, <1>1, <1>3, <2>2 DEF ClaimLost
  <2>3. CASE ParseAction(p)
    BY <1>0, <1>1, <1>3, <2>3 DEF ParseAction
  <2>4. CASE RefuseAction(p)
    <3>1. Calm
      BY <1>0, <1>4, <2>4 DEF RefuseAction, MarkEventFailed, HasCur, InFire
    <3> QED BY <1>0, <1>3, <2>4, <3>1 DEF RefuseAction
  <2>5. CASE LockTurn(p)
    BY <1>0, <1>1, <1>3, <2>5 DEF LockTurn
  <2>6. CASE RunAction(p)
    BY <1>0, <1>1, <1>3, <2>6 DEF RunAction
  <2>7. CASE NextRecurrence(p)
    BY <1>0, <1>1, <1>3, <2>7 DEF NextRecurrence
  <2>8. CASE NoRecurrence(p)
    BY <1>0, <1>1, <1>3, <2>8 DEF NoRecurrence
  <2>9. CASE Reschedule(p)
    <3>1. PICK e \in Events, at \in Nat : EndFire(e, "pending", at)
      BY <1>0, <2>9 DEF Reschedule, RescheduleRecurring, HasCur, InFire, TypeOK
    <3>2. \/ row' = row
          \/ row'[e].next_fire_at = at /\ \A f \in Events \ {e} : row'[f] = row[f]
      BY <3>1, Effects DEF Statuses, Slots
    <3>3. \A f \in Events : StatusOf(f)' = "pending" => row'[f].next_fire_at \in Nat
      BY <3>1, <3>2 DEF Attentive, StatusOf
    <3>4. \A q \in Procs : ~Asleep(q)'
      BY <1>0, <2>9 DEF Reschedule, Asleep
    <3> QED BY <1>0, <2>9, <3>3, <3>4, AwakeStep DEF Reschedule
  <2>10. CASE RescheduleRaises(p) \/ FireRaises(p)
    BY <1>0, <2>10 DEF RescheduleRaises, FireRaises, Raise
  <2>11. CASE Settle(p)
    <3>1. Calm
      BY <1>0, <1>4, <2>11 DEF Settle, CompleteOneShot, MarkEventFailed, HasCur, InFire
    <3> QED BY <1>0, <1>3, <2>11, <3>1 DEF Settle
  <2> QED BY <1>7, <2>1, <2>2, <2>3, <2>4, <2>5, <2>6, <2>7, <2>8, <2>9, <2>10, <2>11
          DEF Fire
<1>8. ASSUME NEW p \in Procs, Tools(p) PROVE Attentive'
  <2>1. ASSUME BeginLiveTurn(p) \/ EndLiveTurn(p) \/ \E e \in Events : CancelRead(p, e)
        PROVE  Attentive'
    <3>1. UNCHANGED <<row, budget, pc, notify, wake, left, now, jumped>>
      BY <2>1 DEF BeginLiveTurn, EndLiveTurn, CancelRead
    <3> QED BY <1>0, <1>1, <3>1, CalmStep DEF Asleep
  <2>2. CASE CancelWrite(p)
    <3>1. cancel[p] \in Events /\ CancelUpdate(cancel[p])
      BY <2>2 DEF CancelWrite, TypeOK
    <3>2. Calm
      BY <3>1, Effects DEF Calm
    <3>3. \A q \in Procs : ~Asleep(q)'
      BY <1>0, <2>2 DEF CancelWrite, Asleep
    <3> QED BY <1>0, <1>2, <2>2, <3>2, <3>3, AwakeStep DEF CancelWrite
  <2>3. CASE OnChange(p)
    <3>1. UNCHANGED <<row, budget>> /\ wake'[p] /\ pc'[p] # "wait"
      BY <1>0, <2>3 DEF OnChange, NotifyAll
    <3>2. \A q \in Procs : ~Asleep(q)'
      BY <3>1 DEF Asleep
    <3> QED BY <1>0, <1>1, <1>2, <3>1, <3>2, AwakeStep
  <2>4. ASSUME NEW e \in Events, NEW t \in Triggers, NEW at \in 0..MaxNow,
               ScheduleEvent(p, e, t, at)
        PROVE  Attentive'
    <3>1. Inserts(e)
      BY <2>4 DEF ScheduleEvent, Inserts
    <3>2. \A f \in Events : StatusOf(f)' = "pending" => row'[f].next_fire_at \in Nat
      BY <3>1, Effects DEF Attentive, StatusOf
    <3>3. \A q \in Procs : ~Asleep(q)'
      BY <1>0, <2>4 DEF ScheduleEvent, Asleep
    <3> QED BY <1>0, <2>4, <3>2, <3>3, AwakeStep DEF ScheduleEvent
  <2> QED BY <1>8, <2>1, <2>2, <2>3, <2>4 DEF Tools
<1>9. ASSUME NEW p \in Procs, Stop(p) PROVE Attentive'
  <2>1. UNCHANGED <<row, budget, notify, wake, left, now, jumped>>
    BY <1>9 DEF Stop
  <2>2. ASSUME NEW q \in Procs, Asleep(q)' PROVE Asleep(q)
    BY <1>0, <1>9, <2>1, <2>2 DEF Stop, NotifyAll, Asleep
  <2> QED BY <1>0, <1>1, <2>1, <2>2, CalmStep
<1>10. ASSUME NEW p \in Procs, ProcessEnds(p) PROVE Attentive'
  <2>1. UNCHANGED row /\ pc'[p] = "down" /\ budget'.fault = 0
    BY <1>0, <1>10 DEF ProcessEnds
  <2>2. \A q \in Procs : ~Asleep(q)'
    BY <2>1 DEF Asleep
  <2> QED BY <1>1, <1>2, <2>1, <2>2, AwakeStep
<1>11. ASSUME Tick \/ SetBack \/ SetForward PROVE Attentive'
  <2>1. /\ UNCHANGED <<row, pc, notify, wake>> /\ budget'.fault = 0
        /\ \/ /\ now' = now + 1 /\ jumped' = jumped
              /\ left' = [p \in Procs |-> IF left[p] > 0 THEN left[p] - 1 ELSE 0]
           \/ now' = now - 1 /\ jumped' = jumped /\ left' = left
           \/ now' = now + 1 /\ jumped' = [p \in Procs |-> jumped[p] + 1] /\ left' = left
    BY <1>0, <1>11 DEF Tick, SetBack, SetForward
  <2>2. ASSUME NEW e \in Events, StatusOf(e)' = "pending", NEW p \in Procs, Asleep(p)'
        PROVE  left'[p] = 0 \/ now' + left'[p] <= row'[e].next_fire_at + jumped'[p]
    <3>1. /\ row'[e].next_fire_at = row[e].next_fire_at /\ row[e].next_fire_at \in Nat
          /\ left[p] = 0 \/ now + left[p] <= row[e].next_fire_at + jumped[p]
      BY <2>1, <2>2 DEF Attentive, Asleep, StatusOf
    <3> QED BY <1>0, <2>1, <3>1
  <2> QED BY <2>1, <2>2 DEF Attentive, StatusOf
<1>12. CASE UNCHANGED vars
  BY <1>12 DEF Attentive, Asleep, StatusOf
<1> QED BY <1>5, <1>6, <1>7, <1>8, <1>9, <1>10, <1>11, <1>12 DEF Next

\* With one process and a store that answers, the loop never sleeps past a slot,
\* but for what the wall clock leaps forward during the sleep: an event added or
\* cancelled between its peek and its wait, or during the wait, makes it look
\* again, however the clock is corrected and whenever the process dies.  (A second
\* process is not told, and after a failed peek the loop sleeps for its whole
\* interval.)
THEOREM NoWakeupLost ==
    ASSUME \A p, q \in Procs : p = q, MaxFault = 0 PROVE Spec => []NoOversleep
<1>1. Init => Attentive
  BY StoreAssumption DEF Init, StoreInit, NoRow, StatusOf, Attentive
<1>2. TypeOK /\ TypeOK' /\ Attentive /\ [Next]_vars => Attentive'
  BY AttentiveStep
<1>3. Attentive => NoOversleep
  BY DEF Attentive, Asleep, NoOversleep
<1> QED BY <1>1, <1>2, <1>3, TypeCorrect, PTL DEF Spec
=============================================================================
