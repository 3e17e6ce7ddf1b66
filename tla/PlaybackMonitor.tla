---------------------------- MODULE PlaybackMonitor ----------------------------
(***************************************************************************)
(* wake/interruptions.py, PlaybackWakeMonitor: while the assistant speaks, *)
(* a thread per turn reads the microphone, transcribes what it hears and   *)
(* raises the interrupt event when that wakes the assistant.               *)
(*                                                                         *)
(* stop() gives the thread three seconds.  The microphone delivers a block *)
(* every few milliseconds, so the thread outlasts them in a transcription  *)
(* and what follows it, never in a read.                                   *)
(***************************************************************************)
EXTENDS Integers

CONSTANTS MaxTurns  \* the command turns: each has its monitor

ASSUME MonitorAssumption == MaxTurns \in Nat \ {0}

Turns == 1..MaxTurns

VARIABLES monitor,   \* where each turn's monitor thread is
          stopping,  \* _stop_event
          interrupt, \* interrupt_event
          result     \* _result: what woke the assistant

monitorVars == <<monitor, stopping, interrupt, result>>

Heard == {"nothing", "wake", "command", "quit"}

MonitorPlaces == {"off", "reading", "queued", "transcribing", "waking", "over"}

MonitorTypeOK ==
    /\ monitor \in [Turns -> MonitorPlaces]
    /\ stopping \in [Turns -> BOOLEAN]
    /\ interrupt \in [Turns -> BOOLEAN]
    /\ result \in [Turns -> Heard]

MonitorInit ==
    /\ monitor = [t \in Turns |-> "off"]
    /\ stopping = [t \in Turns |-> FALSE]
    /\ interrupt = [t \in Turns |-> FALSE]
    /\ result = [t \in Turns |-> "nothing"]

Goes(t, from, to) == monitor[t] = from /\ monitor' = [monitor EXCEPT ![t] = to]

\* Mutant of NextChunk: the loop does not look at the stop event.
NextChunkAlways(t) == "reading"

\* while not self._stop_event.is_set(): the next block, or the end.
NextChunk(t) == IF stopping[t] THEN "over" ELSE "reading"

MonitorStart(t) ==
    /\ Goes(t, "off", "reading")
    /\ UNCHANGED <<stopping, interrupt, result>>

MonitorStop(t) ==
    /\ stopping' = [stopping EXCEPT ![t] = TRUE]
    /\ UNCHANGED <<monitor, interrupt, result>>

\* A block arrives: silence, the speech so far goes on, or it was too short.
MonitorReads(t) ==
    /\ Goes(t, "reading", NextChunk(t))
    /\ UNCHANGED <<stopping, interrupt, result>>

\* A block arrives: with it, speech has begun.  stop() waits for the callback
\* that reports it, and it is one step with the block.
MonitorSpeechStarts(t) ==
    /\ Goes(t, "reading", NextChunk(t))
    /\ UNCHANGED <<stopping, interrupt, result>>

\* A block arrives: with it, an utterance is complete.  It is dropped when the
\* monitor is stopping or it is too short.
MonitorUtterance(t) ==
    /\ ~stopping[t]
    /\ Goes(t, "reading", "queued")
    /\ UNCHANGED <<stopping, interrupt, result>>

MonitorTranscribes(t) ==
    /\ Goes(t, "queued", "transcribing")
    /\ UNCHANGED <<stopping, interrupt, result>>

\* No text or no wake phrase.
MonitorHearsNothing(t) ==
    /\ Goes(t, "transcribing", NextChunk(t))
    /\ UNCHANGED <<stopping, interrupt, result>>

\* The transcription raises: the thread ends with nothing.
MonitorFails(t) ==
    /\ Goes(t, "transcribing", "over")
    /\ UNCHANGED <<stopping, interrupt, result>>

\* Mutant of MonitorHearsWake: the event is raised before the result is kept.
MonitorRaisesFirst(t) ==
    /\ Goes(t, "transcribing", "waking")
    /\ interrupt' = [interrupt EXCEPT ![t] = TRUE]
    /\ UNCHANGED <<stopping, result>>

MonitorHearsWake(t) ==
    /\ Goes(t, "transcribing", "waking")
    /\ \E heard \in Heard \ {"nothing"} : result' = [result EXCEPT ![t] = heard]
    /\ UNCHANGED <<stopping, interrupt>>

\* The callback has been called, and the event is raised.
MonitorRaises(t) ==
    /\ Goes(t, "waking", "over")
    /\ interrupt' = [interrupt EXCEPT ![t] = TRUE]
    /\ stopping' = [stopping EXCEPT ![t] = TRUE]
    /\ UNCHANGED result

\* What stop() waits for: the thread has ended, or three seconds have passed.
Joined(t) == monitor[t] # "reading"
=============================================================================
