---------------------------- MODULE SchedulerStore ----------------------------
(***************************************************************************)
(* The scheduled_events table of the organizer store                       *)
(* (organizer/store.py), shared by every process that opens the same       *)
(* artifacts/organizer database.  Each operator below is one SQL statement *)
(* as it is committed: the store's RLock only orders the threads of one    *)
(* process, so two processes interleave between statements.                *)
(*                                                                         *)
(* Times are whole seconds, as now_iso() and _iso() truncate them.  Titles *)
(* and action payloads are not modelled: an event is its identity.         *)
(***************************************************************************)
EXTENDS Integers, FiniteSets

CONSTANTS Events,    \* the identities add_scheduled_event may create
          Procs,     \* the processes sharing the database
          None,      \* SQL NULL
          DueLimit   \* the LIMIT of get_due_events

ASSUME StoreAssumption ==
    /\ None \notin Nat
    /\ None \notin Procs
    /\ None \notin Events
    /\ DueLimit \in Nat \ {0}

VARIABLE row         \* [Events -> Row]

Statuses == {"absent", "pending", "firing", "done", "failed",
             "cancelled", "needs_review"}
Triggers == {"one_shot", "recurring"}
Slots == Nat \cup {None}

Row == [status       : Statuses,
        trigger      : Triggers,
        next_fire_at : Slots,
        lease_pid    : Procs \cup {None},
        fire_count   : Nat]

\* A row that has not been inserted yet.
NoRow == [status |-> "absent", trigger |-> "one_shot", next_fire_at |-> None,
          lease_pid |-> None, fire_count |-> 0]

StoreInit == row = [e \in Events |-> NoRow]

StatusOf(e) == row[e].status
Firing == {e \in Events : StatusOf(e) = "firing"}
\* The statuses from which no statement of the store leads back to a firing.
Terminal == {"done", "failed", "cancelled", "needs_review"}

----------------------------------------------------------------------------
(* Statements that read.                                                   *)

IsDue(e, now) ==
    /\ StatusOf(e) = "pending"
    /\ row[e].next_fire_at # None
    /\ row[e].next_fire_at <= now

\* ORDER BY next_fire_at LIMIT ?: the earliest rows, ties in any order.
\* What get_due_events returns is a copy that later statements leave behind.
GetDueEvents(now) ==
    LET due == {e \in Events : IsDue(e, now)}
        Earliest(D) == /\ Cardinality(D) <= DueLimit
                       /\ D # due => Cardinality(D) = DueLimit
                       /\ \A d \in D, f \in due \ D :
                             row[d].next_fire_at <= row[f].next_fire_at
    IN  {{[id |-> e, at |-> row[e].next_fire_at] : e \in D} :
            D \in {X \in SUBSET due : Earliest(X)}}

----------------------------------------------------------------------------
(* Statements that write.                                                  *)

AddScheduledEvent(e, trigger, at) ==
    /\ StatusOf(e) = "absent"
    /\ row' = [row EXCEPT ![e] = [NoRow EXCEPT !.status = "pending",
                                              !.trigger = trigger,
                                              !.next_fire_at = at]]

\* cancel_scheduled_event's UPDATE names the id alone, whatever the status.
CancelUpdate(e) ==
    row' = [row EXCEPT ![e] = [@ EXCEPT !.status = "cancelled",
                                        !.next_fire_at = None]]

\* Mutants of Claimable: half of the compare-and-set forgotten.
ClaimableAnyStatus(e, expected) == row[e].next_fire_at = expected
ClaimableAnySlot(e, expected) == StatusOf(e) = "pending"

\* The compare-and-set of claim_event_for_fire, and its rowcount test.
Claimable(e, expected) ==
    StatusOf(e) = "pending" /\ row[e].next_fire_at = expected

ClaimEventForFire(e, p) ==
    row' = [row EXCEPT ![e] = [@ EXCEPT !.status = "firing", !.lease_pid = p]]

\* Mutant of EndFire: no WHERE status = 'firing'.
EndFireAnyStatus(e, status, at) ==
    row' = [row EXCEPT ![e] = [status |-> status, trigger |-> row[e].trigger,
                               next_fire_at |-> at, lease_pid |-> None,
                               fire_count |-> row[e].fire_count + 1]]

\* The end of a fire.  WHERE status = 'firing': a row that left 'firing'
\* meanwhile is untouched.
EndFire(e, status, at) ==
    row' = IF StatusOf(e) = "firing"
           THEN [row EXCEPT ![e] = [status |-> status,
                                    trigger |-> row[e].trigger,
                                    next_fire_at |-> at,
                                    lease_pid |-> None,
                                    fire_count |-> row[e].fire_count + 1]]
           ELSE row

\* Mutant of RescheduleRecurring: fire_count is not counted up.
RescheduleUncounted(e, at) ==
    row' = IF StatusOf(e) = "firing"
           THEN [row EXCEPT ![e] = [status |-> "pending",
                                    trigger |-> row[e].trigger,
                                    next_fire_at |-> at, lease_pid |-> None,
                                    fire_count |-> row[e].fire_count]]
           ELSE row

CompleteOneShot(e) == EndFire(e, "done", None)
RescheduleRecurring(e, at) == EndFire(e, "pending", at)
MarkEventFailed(e) == EndFire(e, "failed", None)

\* Mutant of RecoverOrphanedFiring: start() recovers nothing.
RecoverNothing == row' = row

\* UPDATE ... WHERE status = 'firing': every firing row, whoever holds it.
RecoverOrphanedFiring ==
    row' = [e \in Events |->
              IF StatusOf(e) = "firing"
              THEN [row[e] EXCEPT !.status = "needs_review",
                                  !.next_fire_at = None, !.lease_pid = None]
              ELSE row[e]]
=============================================================================
