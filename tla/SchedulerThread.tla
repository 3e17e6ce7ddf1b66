---------------------------- MODULE SchedulerThread ----------------------------
(***************************************************************************)
(* scheduler/scheduler.py: the background loop that claims due events and  *)
(* runs them under the turn lock, in one or more processes over one store, *)
(* beside live turns whose tools add and cancel events.  A process may die *)
(* between any two steps; its rows stay, its memory goes.                  *)
(*                                                                         *)
(* Between two passes the loop waits on a condition variable, until the    *)
(* next pending event or for a cap of check_interval_s, or until wake().   *)
(***************************************************************************)
EXTENDS SchedulerStore

CONSTANTS MaxNow,       \* bound: the wall clock stays within 0..MaxNow
          Corrections,  \* the ways in which the wall clock is corrected: "back",
                        \* "forward" (or the machine sleeps)
          MaxCorrections,  \* bound: how often it is
          MaxCrash,     \* bound: how many process deaths
          MaxFault,     \* bound: how many store calls of the loop raise
          MaxSleep,     \* the cap on one wait: check_interval_s, max_sleep_s
          Live,         \* bound: the processes whose user speaks meanwhile
          Periods,      \* how far past `now` next_recurrence may land
          Unparseable   \* events whose stored action parse_action refuses

ASSUME ThreadAssumption ==
    /\ {MaxNow, MaxCorrections, MaxCrash, MaxFault} \subseteq Nat
    /\ Corrections \subseteq {"back", "forward"}
    /\ MaxSleep \in Nat \ {0}
    /\ Live \in SUBSET Procs
    /\ Periods \in SUBSET (Nat \ {0})
    /\ Unparseable \in SUBSET Events

VARIABLES now,      \* the wall clock every process reads
          pc,       \* [Procs -> PCs]: where the scheduler thread of p stands
          due,      \* [Procs -> set of row copies]: the rest of the due list
          cur,      \* [Procs -> row copy or None]: the event in _fire
          nxt,      \* [Procs -> Slots]: the next slot _fire computed
          ok,       \* [Procs -> BOOLEAN]: result.ok of the action
          turn,     \* [Procs -> {"free", "sched", "live"}]: the turn lock
          cancel,   \* [Procs -> event or None]: row read by a cancel tool
          notify,   \* [Procs -> BOOLEAN]: a tool wrote, on_change() is next
          stop,     \* [Procs -> BOOLEAN]: SchedulerThread._stop
          wake,     \* [Procs -> BOOLEAN]: SchedulerThread._pending_wake
          left,     \* [Procs -> Nat]: what is left of the wait's timeout
          claimed,  \* history, [Events -> SUBSET Nat]: slots ever claimed
          jumped,   \* history, [Procs -> Nat]: clock set forward since the peek
          budget    \* what is left of the bounds on the environment

fire  == <<due, cur, nxt, ok>>        \* the locals of _fire_due and _fire
loop  == <<pc, fire>>
tools == <<turn, cancel, notify>>
cv    == <<stop, wake, left>>
env   == <<now, jumped, budget>>
vars  == <<row, loop, tools, cv, env, claimed>>

\* A copy of a row, as far as _fire_due uses it.
Item == [id : Events, at : Nat]

\* down: no process.  recover: start() saw firing rows.  dead: an exception
\* ended the thread.  exited: the loop returned.  The rest name the line the
\* loop is about to run.
PCs == {"down", "recover", "top", "query", "next", "claim", "parse", "lock",
        "run", "clock", "reschedule", "settle", "peek", "decide", "wait",
        "exited", "dead"}
\* The steps of _fire between a successful claim and the row's last update.
InFire == {"parse", "lock", "run", "clock", "reschedule", "settle"}
HasCur == InFire \cup {"claim"}

Init ==
    /\ StoreInit
    /\ now = 0
    /\ pc = [p \in Procs |-> "down"]
    /\ due = [p \in Procs |-> {}]
    /\ cur = [p \in Procs |-> None]
    /\ nxt = [p \in Procs |-> None]
    /\ ok = [p \in Procs |-> FALSE]
    /\ turn = [p \in Procs |-> "free"]
    /\ cancel = [p \in Procs |-> None]
    /\ notify = [p \in Procs |-> FALSE]
    /\ stop = [p \in Procs |-> FALSE]
    /\ wake = [p \in Procs |-> FALSE]
    /\ left = [p \in Procs |-> 0]
    /\ claimed = [e \in Events |-> {}]
    /\ jumped = [p \in Procs |-> 0]
    /\ budget = [clock |-> MaxCorrections, crash |-> MaxCrash,
                 fault |-> MaxFault]

Goto(p, from, to) == pc[p] = from /\ pc' = [pc EXCEPT ![p] = to]

\* The store's RLock: a tool of p that is inside cancel_scheduled_event keeps
\* the other threads of p out of the store.
StoreFree(p) == cancel[p] = None

\* A store call of the loop raises (locked database, full disk).
Raise(p) == /\ StoreFree(p)
            /\ budget.fault > 0
            /\ budget' = [budget EXCEPT !.fault = @ - 1]
            /\ UNCHANGED <<row, now, jumped, tools, stop, wake, claimed>>

----------------------------------------------------------------------------
(* start() and the loop.                                                   *)

\* A process comes up; recover_orphaned_firing selects the firing rows.
Start(p) ==
    /\ Goto(p, "down", IF Firing # {} THEN "recover" ELSE "top")
    /\ UNCHANGED <<row, fire, tools, cv, env, claimed>>

Recover(p) ==
    /\ Goto(p, "recover", "top")
    /\ RecoverOrphanedFiring
    /\ UNCHANGED <<fire, tools, cv, env, claimed>>

\* _pending_wake is consumed before the pass, so that a wake() during the
\* pass is seen after it.
LoopTop(p) ==
    /\ Goto(p, "top", IF stop[p] THEN "exited" ELSE "query")
    /\ wake' = [wake EXCEPT ![p] = stop[p] /\ @]
    /\ UNCHANGED <<row, fire, tools, stop, left, env, claimed>>

QueryDue(p) ==
    /\ Goto(p, "query", "next")
    /\ StoreFree(p)
    /\ \E snapshot \in GetDueEvents(now) : due' = [due EXCEPT ![p] = snapshot]
    /\ UNCHANGED <<row, cur, nxt, ok, tools, cv, env, claimed>>

\* The one failure _fire_due catches: the pass ends.
QueryRaises(p) ==
    /\ Goto(p, "query", "peek")
    /\ Raise(p)
    /\ UNCHANGED <<fire, left>>

\* The for loop of _fire_due: the earliest copy left, unless stopping.
NextDue(p) ==
    /\ due[p] # {} /\ ~stop[p]
    /\ Goto(p, "next", "claim")
    /\ \E d \in due[p] :
          /\ \A f \in due[p] : d.at <= f.at
          /\ cur' = [cur EXCEPT ![p] = d]
          /\ due' = [due EXCEPT ![p] = @ \ {d}]
    /\ UNCHANGED <<row, nxt, ok, tools, cv, env, claimed>>

EndOfPass(p) ==
    /\ due[p] = {} \/ stop[p]
    /\ Goto(p, "next", "peek")
    /\ due' = [due EXCEPT ![p] = {}]
    /\ UNCHANGED <<row, cur, nxt, ok, tools, cv, env, claimed>>

\* _sleep_seconds: until the earliest pending slot, within 0..MaxSleep (a set
\* of one element).
SleepSeconds ==
    LET slots == {row[e].next_fire_at : e \in {f \in Events : StatusOf(f) = "pending"}}
        fits(d) == \A s \in slots : d = 0 \/ now + d <= s
    IN  {d \in 0..MaxSleep : fits(d) /\ (fits(d + 1) => d = MaxSleep)}

Peek(p) ==
    /\ StoreFree(p)
    /\ Goto(p, "peek", "decide")
    /\ \E d \in SleepSeconds : left' = [left EXCEPT ![p] = d]
    /\ jumped' = [jumped EXCEPT ![p] = 0]
    /\ UNCHANGED <<row, fire, tools, stop, wake, now, budget, claimed>>

\* A failed peek is caught: the loop sleeps for check_interval_s.
PeekRaises(p) ==
    /\ Goto(p, "peek", "decide")
    /\ left' = [left EXCEPT ![p] = MaxSleep]
    /\ Raise(p)
    /\ UNCHANGED fire

\* Mutant of Decide: _pending_wake is not looked at before the wait.
DecideWithoutWake(p) ==
    /\ Goto(p, "decide", IF stop[p] THEN "exited" ELSE "wait")
    /\ UNCHANGED <<row, fire, tools, cv, env, claimed>>

\* Under the cv: return, go round again for a wake() that came during the
\* pass, or wait.
Decide(p) ==
    /\ Goto(p, "decide", CASE stop[p] -> "exited"
                           [] ~stop[p] /\ wake[p] -> "top"
                           [] OTHER -> "wait")
    /\ UNCHANGED <<row, fire, tools, cv, env, claimed>>

\* Mutant of TimeOut: a wait without a timeout, which only wake() ends.
WaitForever(p) ==
    /\ wake[p]
    /\ Goto(p, "wait", "top")
    /\ UNCHANGED <<row, fire, tools, cv, env, claimed>>

\* The wait times out.  At MaxNow no second passes any more: every timeout
\* is then taken to have run out.
TimeOut(p) ==
    /\ left[p] = 0 \/ now = MaxNow
    /\ Goto(p, "wait", "top")
    /\ UNCHANGED <<row, fire, tools, cv, env, claimed>>

\* notify_all(): a waiting loop goes on to its next pass.
NotifyAll(p) == pc' = [pc EXCEPT ![p] = IF @ = "wait" THEN "top" ELSE @]

----------------------------------------------------------------------------
(* _fire.                                                                  *)

Claim(p) ==
    LET e == cur[p].id IN
    /\ Goto(p, "claim", "parse")
    /\ StoreFree(p)
    /\ Claimable(e, cur[p].at)
    /\ ClaimEventForFire(e, p)
    /\ claimed' = [claimed EXCEPT ![e] = @ \cup {row[e].next_fire_at}]
    /\ UNCHANGED <<fire, tools, cv, env>>

\* "lost the race / already advanced": on to the next copy.
ClaimLost(p) ==
    /\ Goto(p, "claim", "next")
    /\ StoreFree(p)
    /\ ~Claimable(cur[p].id, cur[p].at)
    /\ cur' = [cur EXCEPT ![p] = None]
    /\ UNCHANGED <<row, due, nxt, ok, tools, cv, env, claimed>>

ParseAction(p) ==
    /\ Goto(p, "parse", "lock")
    /\ cur[p].id \notin Unparseable
    /\ UNCHANGED <<row, fire, tools, cv, env, claimed>>

\* The end of _fire: the locals are gone.
FireReturns(p) ==
    /\ cur' = [cur EXCEPT ![p] = None]
    /\ nxt' = [nxt EXCEPT ![p] = None]
    /\ ok' = [ok EXCEPT ![p] = FALSE]

\* Mutant of RefuseAction: a refused action returns without mark_event_failed.
RefuseSilently(p) ==
    /\ Goto(p, "parse", "next")
    /\ cur[p].id \in Unparseable
    /\ StoreFree(p)
    /\ FireReturns(p)
    /\ UNCHANGED <<row, due, tools, cv, env, claimed>>

RefuseAction(p) ==
    /\ Goto(p, "parse", "next")
    /\ cur[p].id \in Unparseable
    /\ StoreFree(p)
    /\ MarkEventFailed(cur[p].id)
    /\ FireReturns(p)
    /\ UNCHANGED <<due, tools, cv, env, claimed>>

LockTurn(p) ==
    /\ turn[p] = "free"
    /\ Goto(p, "lock", "run")
    /\ turn' = [turn EXCEPT ![p] = "sched"]
    /\ UNCHANGED <<row, fire, cancel, notify, cv, env, claimed>>

\* on_fire and the executor's steps, to the release of the turn lock.
RunAction(p) ==
    /\ Goto(p, "run", "clock")
    /\ \E b \in BOOLEAN : ok' = [ok EXCEPT ![p] = b]
    /\ turn' = [turn EXCEPT ![p] = "free"]
    /\ UNCHANGED <<row, due, cur, nxt, cancel, notify, cv, env, claimed>>

\* Mutant of NextRecurrence: a candidate equal to the clock is taken.
NextRecurrenceInclusive(p) ==
    /\ Goto(p, "clock", "reschedule")
    /\ row[cur[p].id].trigger = "recurring"
    /\ \E d \in Periods : nxt' = [nxt EXCEPT ![p] = now + d - 1]
    /\ UNCHANGED <<row, due, cur, ok, tools, cv, env, claimed>>

\* next_recurrence lands strictly after the clock it is given.
NextRecurrence(p) ==
    /\ Goto(p, "clock", "reschedule")
    /\ row[cur[p].id].trigger = "recurring"
    /\ \E d \in Periods : nxt' = [nxt EXCEPT ![p] = now + d]
    /\ UNCHANGED <<row, due, cur, ok, tools, cv, env, claimed>>

\* Mutant of NoRecurrence: a one-shot event is rescheduled, to no slot.
RescheduleOneShot(p) ==
    /\ Goto(p, "clock", "reschedule")
    /\ row[cur[p].id].trigger = "one_shot"
    /\ UNCHANGED <<row, fire, tools, cv, env, claimed>>

NoRecurrence(p) ==
    /\ Goto(p, "clock", "settle")
    /\ row[cur[p].id].trigger = "one_shot"
    /\ UNCHANGED <<row, fire, tools, cv, env, claimed>>

Reschedule(p) ==
    /\ Goto(p, "reschedule", "next")
    /\ StoreFree(p)
    /\ RescheduleRecurring(cur[p].id, nxt[p])
    /\ FireReturns(p)
    /\ UNCHANGED <<due, tools, cv, env, claimed>>

\* except Exception around next_recurrence AND the UPDATE: "stop recurring".
RescheduleRaises(p) ==
    /\ Goto(p, "reschedule", "settle")
    /\ Raise(p)
    /\ UNCHANGED <<fire, left>>

Settle(p) ==
    /\ Goto(p, "settle", "next")
    /\ StoreFree(p)
    /\ IF ok[p] THEN CompleteOneShot(cur[p].id) ELSE MarkEventFailed(cur[p].id)
    /\ FireReturns(p)
    /\ UNCHANGED <<due, tools, cv, env, claimed>>

\* The claim, the refusal and the settlement are in no try: the thread ends.
FireRaises(p) ==
    /\ \E from \in {"claim", "parse", "settle"} :
          /\ Goto(p, from, "dead")
          /\ from = "parse" => cur[p].id \in Unparseable
    /\ due' = [due EXCEPT ![p] = {}]
    /\ FireReturns(p)
    /\ Raise(p)
    /\ UNCHANGED left

----------------------------------------------------------------------------
(* The rest of the process: live turns and their tools, stop, death.       *)

Up(p) == pc[p] \notin {"down", "recover"}

BeginLiveTurn(p) ==
    /\ p \in Live /\ Up(p) /\ ~stop[p] /\ turn[p] = "free"
    /\ turn' = [turn EXCEPT ![p] = "live"]
    /\ UNCHANGED <<row, loop, cancel, notify, cv, env, claimed>>

EndLiveTurn(p) ==
    /\ turn[p] = "live" /\ cancel[p] = None /\ ~notify[p]
    /\ turn' = [turn EXCEPT ![p] = "free"]
    /\ UNCHANGED <<row, loop, cancel, notify, cv, env, claimed>>

\* Tools run in a live turn, or as a step of a scheduled action, one by one.
ToolMayRun(p) ==
    /\ turn[p] = "live" \/ pc[p] = "run"
    /\ cancel[p] = None /\ ~notify[p]

ScheduleEvent(p, e, trigger, at) ==
    /\ ToolMayRun(p)
    /\ AddScheduledEvent(e, trigger, at)
    /\ notify' = [notify EXCEPT ![p] = TRUE]
    /\ UNCHANGED <<loop, turn, cancel, cv, env, claimed>>

\* cancel_scheduled_event reads the row, refuses a firing one ...
CancelRead(p, e) ==
    /\ ToolMayRun(p)
    /\ StatusOf(e) \notin {"absent", "firing"}
    /\ cancel' = [cancel EXCEPT ![p] = e]
    /\ UNCHANGED <<row, loop, turn, notify, cv, env, claimed>>

\* ... and only then begins the transaction that updates it.
CancelWrite(p) ==
    /\ cancel[p] # None
    /\ CancelUpdate(cancel[p])
    /\ cancel' = [cancel EXCEPT ![p] = None]
    /\ notify' = [notify EXCEPT ![p] = TRUE]
    /\ UNCHANGED <<loop, turn, cv, env, claimed>>

\* on_change(): wake().
OnChange(p) ==
    /\ notify[p]
    /\ notify' = [notify EXCEPT ![p] = FALSE]
    /\ wake' = [wake EXCEPT ![p] = TRUE]
    /\ NotifyAll(p)
    /\ UNCHANGED <<row, fire, turn, cancel, stop, left, env, claimed>>

Stop(p) ==
    /\ Up(p) /\ ~stop[p] /\ turn[p] # "live"
    /\ stop' = [stop EXCEPT ![p] = TRUE]
    /\ NotifyAll(p)
    /\ UNCHANGED <<row, fire, tools, wake, left, env, claimed>>

\* The process ends: killed, or after stop()'s two-second join.  The thread
\* is a daemon, so it ends wherever it stands.
ProcessEnds(p) ==
    /\ pc[p] # "down"
    /\ \/ stop[p] /\ UNCHANGED budget
       \/ /\ ~stop[p] /\ budget.crash > 0
          /\ budget' = [budget EXCEPT !.crash = @ - 1]
    /\ pc' = [pc EXCEPT ![p] = "down"]
    /\ due' = [due EXCEPT ![p] = {}]
    /\ FireReturns(p)
    /\ turn' = [turn EXCEPT ![p] = "free"]
    /\ cancel' = [cancel EXCEPT ![p] = None]
    /\ notify' = [notify EXCEPT ![p] = FALSE]
    /\ stop' = [stop EXCEPT ![p] = FALSE]
    /\ wake' = [wake EXCEPT ![p] = FALSE]
    /\ left' = [left EXCEPT ![p] = 0]
    /\ UNCHANGED <<row, now, jumped, claimed>>

\* A second passes; the waits' timeouts run down.  The peek and the wait that
\* uses it are microseconds apart: no whole second falls between them.
Tick == /\ now < MaxNow
        /\ \A p \in Procs : pc[p] # "decide"
        /\ now' = now + 1
        /\ left' = [p \in Procs |-> IF left[p] > 0 THEN left[p] - 1 ELSE 0]
        /\ UNCHANGED <<row, loop, tools, stop, wake, jumped, budget, claimed>>

\* The wall clock is corrected backwards; a wait's timeout is monotonic.
SetBack == /\ "back" \in Corrections /\ now > 0 /\ budget.clock > 0
           /\ now' = now - 1
           /\ budget' = [budget EXCEPT !.clock = @ - 1]
           /\ UNCHANGED <<row, loop, tools, cv, jumped, claimed>>

\* The wall clock is corrected forwards, or the machine has slept: the timeout
\* of a wait, which is monotonic, does not run down with it.
SetForward == /\ "forward" \in Corrections /\ now < MaxNow /\ budget.clock > 0
              /\ now' = now + 1
              /\ jumped' = [p \in Procs |-> jumped[p] + 1]
              /\ budget' = [budget EXCEPT !.clock = @ - 1]
              /\ UNCHANGED <<row, loop, tools, cv, claimed>>

----------------------------------------------------------------------------

Loop(p) == LoopTop(p) \/ QueryDue(p) \/ QueryRaises(p) \/ NextDue(p)
           \/ EndOfPass(p) \/ Peek(p) \/ PeekRaises(p) \/ Decide(p) \/ TimeOut(p)
Fire(p) == Claim(p) \/ ClaimLost(p) \/ ParseAction(p) \/ RefuseAction(p)
           \/ LockTurn(p) \/ RunAction(p) \/ NextRecurrence(p) \/ NoRecurrence(p)
           \/ Reschedule(p) \/ RescheduleRaises(p) \/ Settle(p) \/ FireRaises(p)
Tools(p) == \/ BeginLiveTurn(p) \/ EndLiveTurn(p) \/ CancelWrite(p) \/ OnChange(p)
            \/ \E e \in Events :
                  \/ CancelRead(p, e)
                  \/ \E trigger \in Triggers, at \in 0..MaxNow :
                        ScheduleEvent(p, e, trigger, at)

Next == \/ \E p \in Procs : \/ Start(p) \/ Recover(p) \/ Loop(p) \/ Fire(p)
                            \/ Tools(p) \/ Stop(p) \/ ProcessEnds(p)
        \/ Tick \/ SetBack \/ SetForward

Spec == Init /\ [][Next]_vars

\* The loop is a running thread.  It waits for two locks: the store's, which a
\* cancel tool keeps for one statement, and the turn lock, which is free
\* whenever the voice loop listens (a live turn makes at most
\* max_tool_iterations rounds of tool calls).  Neither is held forever and
\* neither is taken back at once, so a step enabled again and again is taken.
\* Time passes.
FairSpec ==
    /\ Spec
    /\ \A p \in Procs : /\ SF_vars(Loop(p)) /\ SF_vars(Fire(p))
                        /\ SF_vars(EndLiveTurn(p))
                        /\ WF_vars(CancelWrite(p)) /\ WF_vars(OnChange(p))
    /\ WF_vars(Tick)

----------------------------------------------------------------------------
(* Properties.                                                             *)

TypeOK ==
    /\ row \in [Events -> Row]
    /\ now \in Nat
    /\ pc \in [Procs -> PCs]
    /\ due \in [Procs -> SUBSET Item]
    /\ cur \in [Procs -> Item \cup {None}]
    /\ \A p \in Procs : pc[p] \in HasCur => cur[p] \in Item
    /\ nxt \in [Procs -> Slots]
    /\ \A p \in Procs : pc[p] = "reschedule" => nxt[p] \in Nat
    /\ ok \in [Procs -> BOOLEAN]
    /\ turn \in [Procs -> {"free", "sched", "live"}]
    /\ cancel \in [Procs -> Events \cup {None}]
    /\ notify \in [Procs -> BOOLEAN]
    /\ stop \in [Procs -> BOOLEAN]
    /\ wake \in [Procs -> BOOLEAN]
    /\ left \in [Procs -> 0..MaxSleep]
    /\ claimed \in [Events -> SUBSET Nat]
    /\ jumped \in [Procs -> Nat]
    /\ budget \in [clock : Nat, crash : Nat, fault : Nat]

Firer(p, e) == pc[p] \in InFire /\ cur[p].id = e

\* A thread between its claim and its last update still holds the row, or the
\* row is over (another process cancelled or recovered it); no second thread
\* is ever running the same event's action.
OneFirerPerEvent ==
    \A p \in Procs, e \in Events :
        Firer(p, e) =>
            /\ \/ StatusOf(e) = "firing" /\ row[e].lease_pid = p
               \/ StatusOf(e) \in Terminal
            /\ \A q \in Procs \ {p} : ~Firer(q, e)

\* A firing row is never left behind unseen: its lease names a thread that is
\* still firing it, or one that died and whose next start() recovers it.
FiringIsHeld ==
    \A e \in Events : StatusOf(e) = "firing" =>
        /\ row[e].lease_pid \in Procs
        /\ \/ Firer(row[e].lease_pid, e)
           \/ pc[row[e].lease_pid] \in {"down", "recover", "dead"}

\* An action never begins before the slot it was scheduled for, however stale
\* the due list the thread works from.
FiredNotEarly == \A e \in Events : \A s \in claimed[e] : s <= now

\* A pending row waits for a slot later than every slot it has fired.
SlotsMoveForward ==
    \A e \in Events : StatusOf(e) = "pending" =>
        row[e].next_fire_at \in Nat /\ \A s \in claimed[e] : s < row[e].next_fire_at

\* fire_count is the number of slots fired, less the one that is running or
\* was interrupted.
FireCountAccounts ==
    \A e \in Events :
        LET missing == Cardinality(claimed[e]) - row[e].fire_count IN
        CASE StatusOf(e) \in {"firing", "needs_review"} -> missing = 1
          [] StatusOf(e) = "cancelled" -> missing \in {0, 1}
          [] OTHER -> missing = 0

\* No wake-up is lost: while the only process of the store waits, its timeout
\* runs out no later than the next pending slot, or a tool is about to wake it.
\* Only what the wall clock has leapt forward since the peek may come on top: the
\* slot is then late, by that leap and never by more than the cap of the wait.
NoOversleep ==
    \A p \in Procs, e \in Events :
        pc[p] = "wait" /\ StatusOf(e) = "pending" /\ ~notify[p]
            => left[p] = 0 \/ now + left[p] <= row[e].next_fire_at + jumped[p]

\* "makes double-fire impossible": no slot of an event is claimed twice.
NoDoubleFire ==
    [][\A e \in Events : StatusOf(e) = "pending" /\ row'[e].status = "firing"
          => row[e].next_fire_at \notin claimed[e]]_vars

\* "Events left 'firing' by a crash": recovery takes no event from a thread
\* that is alive and firing it.
RecoverOnlyOrphans ==
    [][\A e \in Events : StatusOf(e) = "firing" /\ row'[e].status = "needs_review"
          => ~Firer(row[e].lease_pid, e)]_vars

\* The store and its threads implement the ledger.
phase == [e \in Events |->
            CASE StatusOf(e) = "absent" -> "none"
              [] StatusOf(e) = "pending" -> "waiting"
              [] StatusOf(e) = "firing" -> "taken"
              [] OTHER -> "over"]
Ledger == INSTANCE EventLedger WITH phase <- phase, used <- claimed
ImplementsLedger == Ledger!Spec

Serving(p) == pc[p] \notin {"down", "recover", "exited", "dead"} /\ ~stop[p]

\* A due event does not stay pending while some process's loop lives, although
\* each pass takes only the DueLimit earliest.
DueIsServed ==
    \A e \in Events :
        IsDue(e, now) ~> (~IsDue(e, now) \/ \A p \in Procs : ~Serving(p))

\* A fire that began comes to an end: the row leaves 'firing', or the process
\* that held it is gone.
FiringEnds ==
    \A e \in Events :
        StatusOf(e) = "firing" ~> (StatusOf(e) # "firing" \/ \A p \in Procs : ~Serving(p))
=============================================================================
