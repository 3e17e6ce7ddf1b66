-------------------------------- MODULE WakeLoop --------------------------------
(***************************************************************************)
(* cli.py, run_wake_loop: the thread that listens, transcribes and takes   *)
(* the turns, with the threads around it: the preview workers, the monitor *)
(* of each turn, the player, and the scheduler, whose fires take the turn  *)
(* lock.  The background audio is lowered and restored by all of them.     *)
(*                                                                         *)
(* What is heard, how long it lasts and what the language model, the       *)
(* voice and the tools do are choices; display, logging and saved audio    *)
(* are left out.                                                           *)
(***************************************************************************)
EXTENDS AudioDucker, InterimPreview, PlaybackMonitor

CONSTANTS None,        \* no owner of a lock
          MaxCommands, \* max_commands; 0 is no limit
          MaxFires,    \* bound: the events the scheduler fires
          Faults,      \* whether the voice may fail in a turn
          Keyboard     \* whether Ctrl+C may be pressed

ASSUME LoopAssumption ==
    /\ MaxCommands \in Nat /\ MaxFires \in Nat
    /\ Faults \in BOOLEAN /\ Keyboard \in BOOLEAN
    /\ None \notin {"main", "scheduler"}

VARIABLES main,      \* where the loop is
          then,      \* where it goes when restore() has returned
          streaming, \* stream_tts
          awaiting,  \* the router's _awaiting_command
          count,     \* command_count
          command,   \* what the turn is about
          queued,    \* the result's queued_command
          raised,    \* the turn ended with an exception
          player,    \* the turn's playback
          turnLock,  \* its holder
          sttLock,   \* held by who is transcribing, or free
          fires,     \* events fired
          speaking,  \* a fire speaks
          stop,      \* the stop file exists
          ctrlC      \* the loop was ended from the keyboard

\* The turn, the scheduler's thread, and what happens to the process.
turnVars == <<streaming, count, command, queued, raised>>
schedulerVars == <<fires, speaking>>
outsideVars == <<stop, ctrlC>>
loopVars == <<main, then, awaiting, player, turnLock, sttLock,
              turnVars, schedulerVars, outsideVars>>

vars == <<duckerVars, previewVars, monitorVars, loopVars>>

MainPlaces == {"listen", "speech", "stt", "transcribing", "wake", "turn",
               "generate", "synthesize", "finish", "join", "restore",
               "restoring", "settle", "after", "leave", "exited"}

TypeOK ==
    /\ DuckerTypeOK /\ PreviewTypeOK /\ MonitorTypeOK
    /\ main \in MainPlaces /\ then \in MainPlaces
    /\ streaming \in BOOLEAN /\ awaiting \in BOOLEAN
    /\ count \in 0..MaxTurns
    /\ command \in {"nothing", "command", "quit"}
    /\ queued \in {"nothing", "command", "quit"}
    /\ raised \in BOOLEAN
    /\ player \in {"off", "playing", "ended", "cut", "failed"}
    /\ turnLock \in {None, "main", "scheduler"}
    /\ sttLock \in {"free", "held"}
    /\ fires \in 0..MaxFires
    /\ speaking \in BOOLEAN /\ stop \in BOOLEAN /\ ctrlC \in BOOLEAN

Init ==
    /\ DuckerInit /\ PreviewInit /\ MonitorInit
    /\ main = "listen" /\ then = "leave"
    /\ streaming \in BOOLEAN /\ awaiting = FALSE
    /\ count = 0 /\ command = "nothing" /\ queued = "nothing" /\ raised = FALSE
    /\ player = "off" /\ turnLock = None /\ sttLock = "free"
    /\ fires = 0 /\ speaking = FALSE
    /\ stop = FALSE /\ ctrlC = FALSE

SttAcquired == sttLock = "free" /\ sttLock' = "held"
SttReleased == sttLock' = "free"

MainGoes(from, to) == main = from /\ main' = to

\* What a step of one part leaves alone.
OnlyLoop == UNCHANGED <<duckerVars, previewVars, monitorVars>>

----------------------------------------------------------------------------
(* Listening.  The segmenter calls the preview as it goes.                  *)

SpeechStarts ==
    /\ MainGoes("listen", "speech")
    /\ PreviewStart
    /\ UNCHANGED <<duckerVars, monitorVars, then, awaiting, player,
                   turnLock, sttLock, turnVars, schedulerVars, outsideVars>>

SpeechGoesOn ==
    /\ main = "speech"
    /\ PreviewAdd
    /\ UNCHANGED <<duckerVars, monitorVars, loopVars>>

\* A captured utterance: the stop file is looked at, short ones are skipped.
SpeechEnds ==
    /\ \/ stop /\ MainGoes("speech", "leave")
       \/ ~stop /\ MainGoes("speech", "listen")
       \/ ~stop /\ MainGoes("speech", "stt")
    /\ PreviewFinish
    /\ UNCHANGED <<duckerVars, monitorVars, then, awaiting, player,
                   turnLock, sttLock, turnVars, schedulerVars, outsideVars>>

\* Mutant of StopSeen: the stop file is looked at only in an utterance.
StopSeenInSpeech ==
    /\ stop
    /\ MainGoes("speech", "leave")
    /\ OnlyLoop
    /\ UNCHANGED <<then, awaiting, player, turnLock, sttLock, turnVars,
                   schedulerVars, outsideVars>>

\* _chunks_until_stop_requested: the next block is not passed on.
StopSeen ==
    /\ stop
    /\ \/ MainGoes("listen", "leave")
       \/ MainGoes("speech", "leave")
    /\ OnlyLoop
    /\ UNCHANGED <<then, awaiting, player, turnLock, sttLock, turnVars,
                   schedulerVars, outsideVars>>

Transcribe ==
    /\ MainGoes("stt", "transcribing")
    /\ SttAcquired
    /\ OnlyLoop
    /\ UNCHANGED <<then, awaiting, player, turnLock, turnVars,
                   schedulerVars, outsideVars>>

\* The router: an awaited command, the wake phrase with a command or without
\* one, or nothing for the assistant.
Route ==
    /\ SttReleased
    /\ \/ /\ MainGoes("transcribing", "listen")  \* no text, or not woken
          /\ UNCHANGED <<awaiting, command>>
       \/ /\ ~awaiting /\ MainGoes("transcribing", "wake")
          /\ awaiting' = TRUE
          /\ UNCHANGED command
       \/ /\ MainGoes("transcribing", "turn")
          /\ awaiting' = FALSE
          /\ command' \in {"command", "quit"}
    /\ OnlyLoop
    /\ UNCHANGED <<then, streaming, count, queued, raised, player, turnLock,
                   schedulerVars, outsideVars>>

\* The model raises: nothing in the loop catches it.
TranscribeRaises ==
    /\ Faults
    /\ MainGoes("transcribing", "leave")
    /\ SttReleased
    /\ OnlyLoop
    /\ UNCHANGED <<then, awaiting, player, turnLock, turnVars,
                   schedulerVars, outsideVars>>

WakeDetected ==
    /\ MainGoes("wake", "listen")
    /\ Duck
    /\ UNCHANGED <<previewVars, monitorVars, then, awaiting, player,
                   turnLock, sttLock, turnVars, schedulerVars, outsideVars>>

----------------------------------------------------------------------------
(* A turn: run_command_turn_safe.                                          *)

\* Mutant of TakesTurnLock: the turn does not wait for a fire.
TurnUnlocked == turnLock' = "main"

TakesTurnLock == turnLock = None /\ turnLock' = "main"

\* The turn lock is taken and the command counted.  A quit restores the audio
\* and takes no turn; any other command lowers it; a streamed answer plays,
\* and is listened over, from the start.
BeginTurn ==
    /\ main = "turn"
    /\ count < MaxTurns
    /\ TakesTurnLock
    /\ count' = count + 1
    /\ queued' = "nothing" /\ raised' = FALSE
    /\ \/ /\ command = "quit"
          /\ main' = "restore" /\ then' = "settle" /\ player' = "off"
          /\ UNCHANGED <<duckerVars, monitorVars>>
       \/ /\ command # "quit"
          /\ main' = "generate" /\ UNCHANGED then
          /\ Duck
          /\ IF streaming THEN MonitorStart(count + 1) /\ player' = "playing"
                          ELSE UNCHANGED monitorVars /\ player' = "off"
    /\ UNCHANGED <<previewVars, awaiting, streaming, command, sttLock,
                   schedulerVars, outsideVars>>

\* The model has answered, or failed and an apology stands in.
Generated ==
    /\ MainGoes("generate", IF streaming THEN "finish" ELSE "synthesize")
    /\ OnlyLoop
    /\ UNCHANGED <<then, awaiting, player, turnLock, sttLock, turnVars,
                   schedulerVars, outsideVars>>

\* The whole answer is synthesized before it plays, or the voice fails.
Synthesized ==
    /\ MainGoes("synthesize", "finish")
    /\ MonitorStart(count) /\ player' = "playing"
    /\ UNCHANGED <<duckerVars, previewVars, then, awaiting, turnLock,
                   sttLock, turnVars, schedulerVars, outsideVars>>

SynthesisRaises ==
    /\ Faults
    /\ MainGoes("synthesize", "settle")
    /\ raised' = TRUE
    /\ OnlyLoop
    /\ UNCHANGED <<then, streaming, awaiting, count, command, queued,
                   player, turnLock, sttLock, schedulerVars, outsideVars>>

\* The player's threads: the audio ends, is cut by the interrupt event, or
\* the voice or the device fails.
PlayerSteps ==
    /\ player = "playing"
    /\ \/ (main = "finish" \/ ctrlC) /\ player' = "ended"
       \/ interrupt[count] /\ player' = "cut"
       \/ Faults /\ player' = "failed"
    /\ OnlyLoop
    /\ UNCHANGED <<main, then, awaiting, turnLock, sttLock, turnVars,
                   schedulerVars, outsideVars>>

\* player.finish() or play_interruptible() has returned or raised: finally,
\* the monitor is stopped.
PlaybackOver ==
    /\ MainGoes("finish", "join")
    /\ player \in {"ended", "cut", "failed"}
    /\ raised' = (player = "failed")
    /\ MonitorStop(count)
    /\ UNCHANGED <<duckerVars, previewVars, then, streaming, awaiting,
                   count, command, queued, player, turnLock, sttLock,
                   schedulerVars, outsideVars>>

\* It has ended or is left behind, and the audio is restored.
MonitorJoined ==
    /\ MainGoes("join", "restore") /\ then' = "settle"
    /\ Joined(count)
    /\ OnlyLoop
    /\ UNCHANGED <<awaiting, player, turnLock, sttLock, turnVars,
                   schedulerVars, outsideVars>>

RestoreBegins ==
    /\ MainGoes("restore", IF snapshots # Nothing THEN "restoring" ELSE then)
    /\ TakeSnapshots
    /\ UNCHANGED <<previewVars, monitorVars, then, awaiting, player, turnLock,
                   sttLock, turnVars, schedulerVars, outsideVars>>

RestoreGoesOn ==
    /\ RestoreOne \/ RestoreFails
    /\ MainGoes("restoring", IF restoring' = Nothing THEN then ELSE "restoring")
    /\ UNCHANGED <<previewVars, monitorVars, then, awaiting, player, turnLock,
                   sttLock, turnVars, schedulerVars, outsideVars>>

\* Mutant of CommandOf: the bare wake phrase is queued as well.
AnyHeard(heard) == heard

\* _queued_interruption_command: only a command is worth a turn.
CommandOf(heard) == IF heard = "wake" THEN "nothing" ELSE heard

\* What interrupted the playback becomes the next command.  The turn lock is
\* released; after an exception the audio is restored once more.
Settle ==
    /\ queued' = IF ~raised /\ player = "cut" THEN CommandOf(result[count])
                                              ELSE "nothing"
    /\ \/ ctrlC /\ MainGoes("settle", "leave") /\ UNCHANGED then
       \/ ~ctrlC /\ raised /\ MainGoes("settle", "restore") /\ then' = "after"
       \/ ~ctrlC /\ ~raised /\ MainGoes("settle", "after") /\ UNCHANGED then
    /\ turnLock' = None
    /\ OnlyLoop
    /\ UNCHANGED <<awaiting, player, sttLock, streaming, count, command,
                   raised, schedulerVars, outsideVars>>

\* Mutant of LimitReached: the limit is looked at after the queued commands.
LimitReachedLate == MaxCommands # 0 /\ count >= MaxCommands /\ queued = "nothing"

\* Mutant of LimitReached: one command too early.
LimitNear == MaxCommands # 0 /\ count + 1 >= MaxCommands

LimitReached == MaxCommands # 0 /\ count >= MaxCommands

\* The stop file is looked at, a quit ends the loop, a queued command is the
\* next turn, and the limit ends the loop.
AfterTurn ==
    /\ \/ stop /\ MainGoes("after", "leave") /\ UNCHANGED command
       \/ command = "quit" /\ MainGoes("after", "leave") /\ UNCHANGED command
       \/ /\ ~stop /\ command # "quit" /\ queued # "nothing" /\ ~LimitReached
          /\ MainGoes("after", "turn") /\ command' = queued
       \/ /\ LimitReached
          /\ MainGoes("after", "leave") /\ UNCHANGED command
       \/ /\ ~stop /\ command # "quit" /\ queued = "nothing" /\ ~LimitReached
          /\ MainGoes("after", "listen") /\ UNCHANGED command
    /\ OnlyLoop
    /\ UNCHANGED <<then, streaming, awaiting, count, queued, raised, player,
                   turnLock, sttLock, schedulerVars, outsideVars>>

----------------------------------------------------------------------------
(* The end.                                                                *)

\* Ctrl+C while listening or transcribing ends the loop; in a turn, its
\* finally clauses come first.  The player is not cancelled: its threads go
\* on with what they play.
CtrlC ==
    /\ Keyboard /\ ~ctrlC
    /\ ctrlC' = TRUE
    /\ \/ /\ main \in {"listen", "speech", "stt", "turn"} /\ main' = "leave"
          /\ UNCHANGED <<monitorVars, turnLock, sttLock>>
       \/ /\ MainGoes("transcribing", "leave")
          /\ SttReleased
          /\ UNCHANGED <<monitorVars, turnLock>>
       \/ /\ main \in {"generate", "synthesize"} /\ ~streaming
          /\ main' = "leave" /\ turnLock' = None
          /\ UNCHANGED <<monitorVars, sttLock>>
       \/ /\ main = "finish" \/ (main = "generate" /\ streaming)
          /\ main' = "join"
          /\ MonitorStop(count)
          /\ UNCHANGED <<turnLock, sttLock>>
    /\ UNCHANGED <<duckerVars, previewVars, then, awaiting, player, turnVars,
                   schedulerVars, stop>>

\* finally: the scheduler is stopped, and not waited for beyond a timeout; the
\* audio is restored.
Leave ==
    /\ MainGoes("leave", "restore") /\ then' = "exited"
    /\ OnlyLoop
    /\ UNCHANGED <<awaiting, player, turnLock, sttLock, turnVars,
                   schedulerVars, outsideVars>>

\* The desktop host asks the loop to stop.
RequestStop ==
    /\ main # "exited" /\ ~stop /\ stop' = TRUE
    /\ OnlyLoop
    /\ UNCHANGED <<main, then, awaiting, player, turnLock, sttLock, ctrlC,
                   turnVars, schedulerVars>>

----------------------------------------------------------------------------
(* The scheduler's thread: SchedulerThread's LockTurn and RunAction, whose  *)
(* action speaks.  A fire that waits for the turn lock survives the stop.   *)

FireSpeaks ==
    /\ main # "exited"
    /\ fires < MaxFires /\ fires' = fires + 1
    /\ turnLock = None /\ turnLock' = "scheduler"
    /\ speaking' = TRUE
    /\ OnlyLoop
    /\ UNCHANGED <<main, then, awaiting, player, sttLock, turnVars, outsideVars>>

\* Mutant of FireEnds: the turn lock is not released.
FireEndsLocked ==
    /\ speaking /\ speaking' = FALSE
    /\ OnlyLoop
    /\ UNCHANGED <<main, then, awaiting, player, turnLock, sttLock, fires,
                   turnVars, outsideVars>>

FireEnds ==
    /\ speaking /\ speaking' = FALSE
    /\ turnLock' = None
    /\ OnlyLoop
    /\ UNCHANGED <<main, then, awaiting, player, sttLock, fires, turnVars,
                   outsideVars>>

----------------------------------------------------------------------------
(* The preview workers and the monitors: they transcribe under the speech  *)
(* lock, and their reports lower the background audio.                     *)

LoopButStt == <<main, then, awaiting, player, turnLock, turnVars,
                schedulerVars, outsideVars>>

WorkerStep(w) ==
    \/ /\ \/ WorkerTranscribes(w) /\ SttAcquired
          \/ WorkerHearsNothing(w) /\ SttReleased
          \/ WorkerHearsWake(w) /\ SttReleased
       /\ UNCHANGED <<duckerVars, monitorVars, LoopButStt>>
    \/ /\ WorkerReported(w) /\ Duck
       /\ UNCHANGED <<monitorVars, loopVars>>

MonitorStep(t) ==
    \/ /\ MonitorReads(t) \/ MonitorUtterance(t)
       /\ UNCHANGED <<duckerVars, previewVars, loopVars>>
    \/ /\ \/ MonitorTranscribes(t) /\ SttAcquired
          \/ MonitorHearsNothing(t) /\ SttReleased
          \/ MonitorHearsWake(t) /\ SttReleased
          \/ Faults /\ MonitorFails(t) /\ SttReleased
       /\ UNCHANGED <<duckerVars, previewVars, LoopButStt>>
    \/ /\ MonitorSpeechStarts(t) \/ MonitorRaises(t)
       /\ Duck
       /\ UNCHANGED <<previewVars, loopVars>>

----------------------------------------------------------------------------
\* What the main thread does of itself: it may listen for as long as nobody
\* speaks, and an utterance has a longest length.
MainStep ==
    \/ SpeechEnds \/ StopSeen \/ Transcribe \/ Route \/ TranscribeRaises
    \/ WakeDetected \/ BeginTurn \/ Generated \/ Synthesized \/ SynthesisRaises
    \/ PlaybackOver \/ MonitorJoined \/ RestoreBegins \/ RestoreGoesOn
    \/ Settle \/ AfterTurn \/ Leave

\* The process has ended; nothing else may stop the loop for good.
Exited == main = "exited" /\ UNCHANGED vars

Next ==
    \/ MainStep \/ SpeechStarts \/ SpeechGoesOn
    \/ CtrlC \/ RequestStop \/ PlayerSteps
    \/ FireSpeaks \/ FireEnds
    \/ \E w \in Workers : WorkerStep(w)
    \/ \E t \in Turns : MonitorStep(t)
    \/ Exited

\* Threads are scheduled; nobody has to speak, and no event need be due.
Fairness ==
    /\ WF_vars(MainStep) /\ WF_vars(PlayerSteps)
    /\ WF_vars(FireSpeaks) /\ WF_vars(FireEnds)
    /\ \A w \in Workers : WF_vars(WorkerStep(w))
    /\ \A t \in Turns : WF_vars(MonitorStep(t))

Spec == Init /\ [][Next]_vars
FairSpec == Spec /\ Fairness

----------------------------------------------------------------------------
(* Properties.                                                             *)

\* The turn lock keeps a scheduled event from speaking over a live turn, until
\* Ctrl+C, which leaves the player playing.
OneVoice == ~(player = "playing" /\ speaking) \/ ctrlC

\* The microphone's blocks come from one generator: a second thread inside it
\* raises.  The loop and the monitors of all turns, stopped in time or not,
\* take it in turns.
MicHasOneReader ==
    /\ \A t, u \in Turns :
          monitor[t] = "reading" /\ monitor[u] = "reading" => t = u
    /\ \A t \in Turns :
          monitor[t] = "reading" => main \notin {"listen", "speech", "exited"}

\* When the playback was cut, the turn knows by what.
CutMeansHeard == player = "cut" => result[count] # "nothing"

\* The loop never takes more commands than it was told to, barge-ins included.
AtMostMaxCommands == MaxCommands # 0 => count <= MaxCommands

\* A turn that a command cut short is followed by the turn of that command,
\* unless the loop is ending.
BargeInIsNext ==
    [][ main = "after" /\ main' # "after" /\ ~raised /\ player = "cut"
          /\ command # "quit" /\ result[count] \in {"command", "quit"} =>
        \/ main' = "turn" /\ command' = result[count]
        \/ main' = "leave" /\ (stop \/ count = MaxCommands) ]_vars

\* "If the interruption also includes a command, it is queued as the next
\* turn": the monitor heard a command over the playback, and the turn ends.
CommandIsQueued ==
    [][ main = "settle" /\ main' = "after" /\ command # "quit"
          /\ result[count] = "command" => queued' = "command" ]_vars

\* The host's stop is honoured, wherever the loop is.
StopIsHonoured == stop ~> main = "exited"

\* A command that was accepted gets its turn, whoever has the turn lock, and
\* the loop listens again or ends.
TurnEnds == main = "turn" ~> main \in {"listen", "leave"}
=============================================================================
