---------------------------- MODULE StreamingPlayer ----------------------------
(***************************************************************************)
(* tts/streaming.py, StreamingSpeechPlayer: the texts of an answer go      *)
(* through a queue to the synthesis thread, the audio through a queue to   *)
(* the playback thread.  The caller enqueues texts and then waits in       *)
(* finish(), or gives up with cancel(), which waits one second for each    *)
(* thread.  The wake monitor may set the interrupt event at any time.      *)
(* (Without a speaker nothing is played; there is one here.)               *)
(***************************************************************************)
EXTENDS Integers, Sequences

CONSTANT MaxTexts   \* bound: texts of an answer

ASSUME PlayerAssumption == MaxTexts \in Nat

VARIABLES textQueue, audioQueue,  \* _text_queue, _audio_queue
          synthesizing, playing,  \* the chunk in hand, Nobody or Ended
          closed,                 \* _closed
          interruptEvent,         \* _interrupt_event
          interrupted,            \* _interrupted
          ttsError,               \* _error
          caller,                 \* where the caller is
          enqueued,               \* history: texts accepted
          played,                 \* history: chunks played to the end, in order
          atCancel                \* history: chunks played or queued when cancel() came

playerVars == <<textQueue, audioQueue, synthesizing, playing, closed, interruptEvent,
                interrupted, ttsError, caller, enqueued, played, atCancel>>

Sentinel == 0
Waiting  == -1   \* a thread in Queue.get()
Ended    == -2   \* a thread that has returned
Texts    == 1..MaxTexts

PlayerTypeOK ==
    /\ textQueue \in Seq(Texts \cup {Sentinel})
    /\ audioQueue \in Seq(Texts \cup {Sentinel})
    /\ synthesizing \in Texts \cup {Waiting, Ended}
    /\ playing \in Texts \cup {Waiting, Ended}
    /\ {closed, interruptEvent, interrupted, ttsError} \subseteq BOOLEAN
    /\ caller \in {"streaming", "finishing", "finished", "failed", "cancelling",
                   "cancelled"}
    /\ enqueued \in 0..MaxTexts
    /\ played \in Seq(Texts) /\ atCancel \subseteq Texts

\* __init__ starts both threads.
PlayerInit ==
    /\ textQueue = <<>> /\ audioQueue = <<>>
    /\ synthesizing = Waiting /\ playing = Waiting
    /\ closed = FALSE /\ interruptEvent = FALSE
    /\ interrupted = FALSE /\ ttsError = FALSE
    /\ caller = "streaming" /\ enqueued = 0 /\ played = <<>> /\ atCancel = {}

----------------------------------------------------------------------------
\* The caller.
EnqueueText ==
    /\ caller = "streaming" /\ ~closed /\ enqueued < MaxTexts
    /\ enqueued' = enqueued + 1
    /\ textQueue' = Append(textQueue, enqueued + 1)
    /\ UNCHANGED <<audioQueue, synthesizing, playing, closed, interruptEvent,
                   interrupted, ttsError, caller, played, atCancel>>

Finish ==
    /\ caller = "streaming"
    /\ closed' = TRUE
    /\ textQueue' = Append(textQueue, Sentinel)
    /\ caller' = "finishing"
    /\ UNCHANGED <<audioQueue, synthesizing, playing, interruptEvent, interrupted,
                   ttsError, enqueued, played, atCancel>>

\* Mutant of FinishReturns: the playback thread is not joined.
ReturnsWhilePlaying ==
    /\ caller = "finishing"
    /\ synthesizing = Ended
    /\ caller' = IF ttsError THEN "failed" ELSE "finished"
    /\ UNCHANGED <<textQueue, audioQueue, synthesizing, playing, closed,
                   interruptEvent, interrupted, ttsError, enqueued, played, atCancel>>

\* Both joins return.
FinishReturns ==
    /\ caller = "finishing"
    /\ synthesizing = Ended /\ playing = Ended
    /\ caller' = IF ttsError THEN "failed" ELSE "finished"
    /\ UNCHANGED <<textQueue, audioQueue, synthesizing, playing, closed,
                   interruptEvent, interrupted, ttsError, enqueued, played, atCancel>>

\* The turn raises while it streams.
Cancel ==
    /\ caller = "streaming" /\ ~closed
    /\ closed' = TRUE /\ interrupted' = TRUE
    /\ textQueue' = Append(textQueue, Sentinel)
    /\ audioQueue' = Append(audioQueue, Sentinel)
    /\ caller' = "cancelling"
    /\ atCancel' = {k \in Texts : \/ playing = k
                                  \/ \E i \in DOMAIN audioQueue : audioQueue[i] = k
                                  \/ \E i \in DOMAIN played : played[i] = k}
    /\ UNCHANGED <<synthesizing, playing, interruptEvent, ttsError, enqueued, played>>

\* The joins return, or their second is over: the threads may be running still.
CancelReturns ==
    /\ caller = "cancelling"
    /\ caller' = "cancelled"
    /\ UNCHANGED <<textQueue, audioQueue, synthesizing, playing, closed,
                   interruptEvent, interrupted, ttsError, enqueued, played, atCancel>>

Interrupt ==
    /\ ~interruptEvent
    /\ interruptEvent' = TRUE
    /\ UNCHANGED <<textQueue, audioQueue, synthesizing, playing, closed, interrupted,
                   ttsError, caller, enqueued, played, atCancel>>

----------------------------------------------------------------------------
\* _run_tts.  Its end, of whatever kind, puts a sentinel behind the audio.
TtsTakes ==
    /\ synthesizing = Waiting /\ textQueue # <<>>
    /\ textQueue' = Tail(textQueue)
    /\ LET text == Head(textQueue) IN
       \/ /\ text = Sentinel
          /\ synthesizing' = Ended
          /\ audioQueue' = Append(audioQueue, Sentinel)
          /\ UNCHANGED interrupted
       \/ /\ text # Sentinel /\ interruptEvent      \* skipped
          /\ interrupted' = TRUE
          /\ UNCHANGED <<synthesizing, audioQueue>>
       \/ /\ text # Sentinel /\ ~interruptEvent
          /\ synthesizing' = text
          /\ UNCHANGED <<interrupted, audioQueue>>
    /\ UNCHANGED <<playing, closed, interruptEvent, ttsError, caller, enqueued, played,
                   atCancel>>

Synthesized ==
    /\ synthesizing \in Texts
    /\ audioQueue' = Append(audioQueue, synthesizing)
    /\ synthesizing' = Waiting
    /\ UNCHANGED <<textQueue, playing, closed, interruptEvent, interrupted, ttsError,
                   caller, enqueued, played, atCancel>>

SynthesisRaises ==
    /\ synthesizing \in Texts
    /\ ttsError' = TRUE
    /\ synthesizing' = Ended
    /\ audioQueue' = Append(audioQueue, Sentinel)
    /\ UNCHANGED <<textQueue, playing, closed, interruptEvent, interrupted, caller,
                   enqueued, played, atCancel>>

\* Mutant of SeesInterrupt: the chunk is left out, and nothing says so.
SkipsQuietly(item) ==
    /\ interruptEvent
    /\ playing' = Ended
    /\ UNCHANGED interrupted

\* The event is set before the chunk begins.
SeesInterrupt(item) ==
    /\ interruptEvent
    /\ interrupted' = TRUE
    /\ playing' = Ended

\* _run_playback, up to its look at the interrupt event: a chunk that is playing
\* is one past that look.  An event set between it and the start of the sound is
\* an Interrupt of a chunk that is playing, which the first poll cuts.
PlaybackTakes ==
    /\ playing = Waiting /\ audioQueue # <<>>
    /\ audioQueue' = Tail(audioQueue)
    /\ LET item == Head(audioQueue) IN
       \/ item = Sentinel /\ playing' = Ended /\ UNCHANGED interrupted
       \/ item # Sentinel /\ SeesInterrupt(item)
       \/ item # Sentinel /\ ~interruptEvent /\ playing' = item /\ UNCHANGED interrupted
    /\ UNCHANGED <<textQueue, synthesizing, closed, interruptEvent, ttsError, caller,
                   enqueued, played, atCancel>>

\* play_interruptible: to the end, ...
PlayedThrough ==
    /\ playing \in Texts
    /\ played' = Append(played, playing)
    /\ playing' = Waiting
    /\ UNCHANGED <<textQueue, audioQueue, synthesizing, closed, interruptEvent,
                   interrupted, ttsError, caller, enqueued, atCancel>>

\* ... or until it polls the event.
PlaybackCut ==
    /\ playing \in Texts /\ interruptEvent
    /\ interrupted' = TRUE
    /\ playing' = Ended
    /\ UNCHANGED <<textQueue, audioQueue, synthesizing, closed, interruptEvent,
                   ttsError, caller, enqueued, played, atCancel>>

PlaybackRaises ==
    /\ playing \in Texts
    /\ ttsError' = TRUE
    /\ playing' = Ended
    /\ UNCHANGED <<textQueue, audioQueue, synthesizing, closed, interruptEvent,
                   interrupted, caller, enqueued, played, atCancel>>

----------------------------------------------------------------------------
CallerNext   == EnqueueText \/ Finish \/ Cancel
TtsNext      == TtsTakes \/ Synthesized \/ SynthesisRaises
PlaybackNext == PlaybackTakes \/ PlayedThrough \/ PlaybackCut \/ PlaybackRaises
JoinNext     == FinishReturns \/ CancelReturns

PlayerNext == CallerNext \/ Interrupt \/ TtsNext \/ PlaybackNext \/ JoinNext

PlayerSpec == PlayerInit /\ [][PlayerNext]_playerVars

\* Synthesis and playback of a chunk end; the threads go on.
PlayerFairness ==
    WF_playerVars(TtsNext) /\ WF_playerVars(PlaybackNext) /\ WF_playerVars(JoinNext)

----------------------------------------------------------------------------
\* What is heard is the answer from its beginning without a gap; a finish()
\* that reports no interruption has played all of it; and after cancel()
\* nothing is heard that was not waiting to be played by then, although the
\* threads outlive the cancel and go on synthesizing.  (What ImplementsAnswer
\* says implies it.)
SaidInFull ==
    /\ \A i \in DOMAIN played : played[i] = i
    /\ caller = "finished" /\ ~interrupted => Len(played) = enqueued
    /\ caller \in {"cancelling", "cancelled"} =>
         \A i \in DOMAIN played : played[i] \in atCancel

\* The two threads and their queues are one voice that speaks the answer: no
\* piece begins after an interruption, after finish() has returned or behind
\* a cancel, and finish() reports an interruption or an error only if there
\* was one, and otherwise an answer that was heard to its end.
Voice == CASE playing = Waiting -> "silent"
           [] playing = Ended -> "gone"
           [] OTHER -> "speaking"
Stage == CASE caller = "streaming" -> "open"
           [] caller = "finishing" -> "closing"
           [] caller = "finished" -> IF interrupted THEN "cut" ELSE "whole"
           [] caller = "failed" -> "failed"
           [] OTHER -> "cancelled"
Answer == INSTANCE SpokenAnswer WITH
    given   <- enqueued,
    heard   <- played,
    voice   <- Voice,
    hushed  <- interruptEvent,
    broken  <- ttsError,
    stage   <- Stage,
    allowed <- atCancel
ImplementsAnswer == Answer!Spec
=============================================================================
