------------------------------ MODULE SpokenAnswer ------------------------------
(***************************************************************************)
(* What a streaming player promises about one answer, without its queues   *)
(* and its synthesis: the pieces are heard in the order in which they are  *)
(* given, one at a time and none twice; none is taken up after an          *)
(* interruption, or behind a cancel, or when finish() has returned (one    *)
(* taken up just before an interruption may begin to sound, to be broken   *)
(* off); and finish() says what became of the answer: all of it was heard, *)
(* somebody interrupted it, or something failed.                           *)
(***************************************************************************)
EXTENDS Integers, Sequences

VARIABLES given,    \* how many pieces have been given
          heard,    \* those heard to their end, in order
          voice,    \* "silent", "speaking" (has taken up) the next piece, or "gone"
          hushed,   \* somebody has interrupted
          broken,   \* something has failed
          stage,    \* what the caller has asked for, and the answer it got
          allowed   \* the pieces a cancel has left to be heard

answer == <<given, heard, voice, hushed, broken, stage, allowed>>

Init == /\ given = 0 /\ heard = <<>> /\ voice = "silent"
        /\ hushed = FALSE /\ broken = FALSE
        /\ stage = "open" /\ allowed = {}

\* The caller has no answer from finish() yet.
Asked == stage \in {"open", "closing", "cancelled"}

Give == /\ stage = "open"
        /\ given' = given + 1
        /\ UNCHANGED <<heard, voice, hushed, broken, stage, allowed>>

MayBeHeard(piece) == piece <= given /\ (stage = "cancelled" => piece \in allowed)

Begin == /\ Asked /\ voice = "silent" /\ ~hushed
         /\ MayBeHeard(Len(heard) + 1)
         /\ voice' = "speaking"
         /\ UNCHANGED <<given, heard, hushed, broken, stage, allowed>>

Hear == /\ Asked /\ voice = "speaking"
        /\ MayBeHeard(Len(heard) + 1)
        /\ heard' = Append(heard, Len(heard) + 1)
        /\ voice' = "silent"
        /\ UNCHANGED <<given, hushed, broken, stage, allowed>>

BreakOff == /\ voice = "speaking" /\ hushed
            /\ voice' = "gone"
            /\ UNCHANGED <<given, heard, hushed, broken, stage, allowed>>

\* The voice goes for a reason.
Leave == /\ voice = "silent"
         /\ \/ hushed \/ broken \/ stage = "cancelled"
            \/ stage = "closing" /\ Len(heard) = given
         /\ voice' = "gone"
         /\ UNCHANGED <<given, heard, hushed, broken, stage, allowed>>

\* A failure of the synthesis, or one that takes the voice with it.
Break == /\ Asked
         /\ broken' = TRUE
         /\ voice' \in {voice, "gone"}
         /\ UNCHANGED <<given, heard, hushed, stage, allowed>>

Hush == /\ hushed' = TRUE
        /\ UNCHANGED <<given, heard, voice, broken, stage, allowed>>

Close == /\ stage = "open"
         /\ stage' = "closing"
         /\ UNCHANGED <<given, heard, voice, hushed, broken, allowed>>

Cancel == /\ stage = "open"
          /\ stage' = "cancelled"
          /\ allowed' \in SUBSET (1..given) /\ DOMAIN heard \subseteq allowed'
          /\ UNCHANGED <<given, heard, voice, hushed, broken>>

Return == /\ stage = "closing" /\ voice = "gone"
          /\ \/ stage' = "failed" /\ broken
             \/ stage' = "cut" /\ hushed
             \/ stage' = "whole" /\ Len(heard) = given
          /\ UNCHANGED <<given, heard, voice, hushed, broken, allowed>>

Next == \/ Give \/ Close \/ Cancel \/ Return
        \/ Begin \/ Hear \/ BreakOff \/ Leave \/ Break \/ Hush

Spec == Init /\ [][Next]_answer
=============================================================================
