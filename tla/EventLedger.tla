------------------------------ MODULE EventLedger ------------------------------
(***************************************************************************)
(* What the scheduler promises about each event, without processes, locks  *)
(* or a database: a slot is handed out for firing at most once, and an     *)
(* event that is over is never handed out again.                           *)
(***************************************************************************)
EXTENDS Integers

CONSTANT Events

VARIABLES phase,    \* [Events -> {"none", "waiting", "taken", "over"}]
          used      \* [Events -> SUBSET Nat]: the slots handed out

Phases == {"none", "waiting", "taken", "over"}
ledger == <<phase, used>>

Init == /\ phase = [e \in Events |-> "none"]
        /\ used = [e \in Events |-> {}]

Create(e) == /\ phase[e] = "none"
             /\ phase' = [phase EXCEPT ![e] = "waiting"]
             /\ UNCHANGED used

\* A slot is handed out that this event never had before.
Take(e) == /\ phase[e] = "waiting"
           /\ phase' = [phase EXCEPT ![e] = "taken"]
           /\ \E s \in used'[e] \ used[e] :
                 used' = [used EXCEPT ![e] = @ \cup {s}]

\* A recurring event waits for its next slot.
PutBack(e) == /\ phase[e] = "taken"
              /\ phase' = [phase EXCEPT ![e] = "waiting"]
              /\ UNCHANGED used

\* One statement may end several events at once.
Finish(S) == /\ S # {}
             /\ \A e \in S : phase[e] \in {"waiting", "taken"}
             /\ phase' = [e \in Events |-> IF e \in S THEN "over" ELSE phase[e]]
             /\ UNCHANGED used

Next == \/ \E e \in Events : Create(e) \/ Take(e) \/ PutBack(e)
        \/ \E S \in SUBSET Events : Finish(S)

Spec == Init /\ [][Next]_ledger
=============================================================================
