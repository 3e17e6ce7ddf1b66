------------------------------- MODULE TurnMemory -------------------------------
(***************************************************************************)
(* What a conversation promises about its memory, without response ids,    *)
(* histories, summaries and rounds of tools.  The memory is the set of     *)
(* turns the next request will be shown.  One request is out at a time; a  *)
(* turn adds itself and nothing else; a compaction changes nothing, unless *)
(* it fails, which is a reset, or the model has condensed the conversation *)
(* itself; nothing is ever lost in part; and what a reset has forgotten,   *)
(* the turn it was asked in included, does not come back.  A reset from    *)
(* outside that crosses a request voids the promise.                       *)
(***************************************************************************)
EXTENDS Integers

CONSTANT Askers       \* who sends requests

VARIABLES asked,      \* how many turns have been asked
          requests,   \* the requests out: who asks, and for what
          known,      \* the turns the next request is shown
          forgotten,  \* the turns asked before the last reset
          disturbed   \* a reset has crossed a request

conversation == <<asked, requests, known, forgotten, disturbed>>

Init == /\ asked = 0 /\ requests = {} /\ known = {} /\ forgotten = {}
        /\ disturbed = FALSE

AskTurn == /\ requests = {}
           /\ \E asker \in Askers : requests' = {<<asker, "turn">>}
           /\ asked' = asked + 1
           /\ UNCHANGED <<known, forgotten, disturbed>>

AskSummary == /\ requests = {}
              /\ \E asker \in Askers : requests' = {<<asker, "summary">>}
              /\ UNCHANGED <<asked, known, forgotten, disturbed>>

\* The model that is asked for a summary calls a tool instead.
CallsTool == \E asker \in Askers : /\ requests = {<<asker, "summary">>}
                                   /\ requests' = {<<asker, "condensed">>}

\* Whatever happens in a request may be the end of it.
GoesOn == requests' \in {requests, {}} \/ CallsTool

\* By the answer, or by a summary of its own.
Learn == /\ \E asker \in Askers : requests = {<<asker, "turn">>}
         /\ asked \notin forgotten
         /\ known' = known \cup {asked}
         /\ GoesOn
         /\ UNCHANGED <<asked, forgotten, disturbed>>

\* By a tool, by a scheduled step or for want of a summary.
Reset == /\ known' = {} /\ forgotten' = 1..asked
         /\ GoesOn
         /\ UNCHANGED <<asked, disturbed>>

Condense == CallsTool /\ UNCHANGED <<asked, known, forgotten, disturbed>>

\* Its acknowledgement is taken for the summary.
Lose == /\ \E asker \in Askers : requests = {<<asker, "condensed">>}
        /\ known' = {}
        /\ requests' = {}
        /\ UNCHANGED <<asked, forgotten, disturbed>>

End == /\ requests # {} /\ requests' = {}
       /\ UNCHANGED <<asked, known, forgotten, disturbed>>

Cross == /\ requests # {}
         /\ disturbed' = TRUE
         /\ known' = {} /\ forgotten' = 1..asked
         /\ UNCHANGED <<asked, requests>>

Disturbed == /\ disturbed
             /\ known' \subseteq 1..asked /\ forgotten' \in {forgotten, 1..asked}
             /\ GoesOn
             /\ UNCHANGED <<asked, disturbed>>

Next == \/ AskTurn \/ AskSummary \/ Learn \/ Condense \/ Lose \/ End
        \/ Reset \/ Cross \/ Disturbed

Spec == Init /\ [][Next]_conversation
=============================================================================
