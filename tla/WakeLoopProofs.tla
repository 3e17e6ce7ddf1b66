----------------------------- MODULE WakeLoopProofs -----------------------------
(***************************************************************************)
(* Proofs about WakeLoop, for any number of turns, utterances, workers,    *)
(* sessions and fires.                                                     *)
(*                                                                         *)
(* The invariant has a part for each resource the threads share: the turn  *)
(* lock, the count of commands, the microphone, what cut the playback, the *)
(* volumes and the interim report.                                         *)
(***************************************************************************)
EXTENDS WakeLoop, TLAPS

\* run_command_turn is running: between the taking and the release of the lock.
MidTurn ==
    \/ main \in {"generate", "synthesize", "finish", "join", "settle"}
    \/ main \in {"restore", "restoring"} /\ then = "settle"

\* The answer may be heard.
Audible == main = "finish" \/ (main = "generate" /\ streaming)

\* The answer is not there yet.
Silent == main = "synthesize" \/ (main = "generate" /\ ~streaming)

\* Who has the turn lock, who speaks and where the loop is agree.
LockHeld ==
    /\ speaking => turnLock = "scheduler"
    /\ MidTurn => turnLock = "main"
    /\ player = "playing" => ctrlC \/ Audible

\* Whoever listens for a command has one left.
CommandsLeft ==
    /\ then \in {"leave", "settle", "after", "exited"}
    /\ MaxCommands # 0
         /\ main \in {"listen", "speech", "stt", "transcribing", "wake", "turn"}
       => count < MaxCommands
    /\ AtMostMaxCommands

\* Where the loop speaks, a turn has begun; a captured utterance has an end.
Begun ==
    /\ MidTurn \/ player \in {"playing", "cut"} => count # 0
    /\ main = "speech" => utterance < 2 * MaxUtterances

\* A monitor that still works belongs to the answer that is heard, or has been
\* told to stop, and then only stop() itself may find it reading.
MonitorsStopped ==
    /\ \A t \in Turns : t > count => monitor[t] = "off"
    /\ Silent => monitor[count] = "off"
    /\ \A t \in Turns : monitor[t] \notin {"off", "over"} =>
          \/ t = count /\ Audible
          \/ stopping[t] /\ (monitor[t] = "reading" => t = count /\ main = "join")

\* An interrupt event is raised after its result is kept.
ResultFirst ==
    /\ \A t \in Turns :
          monitor[t] = "waking" \/ interrupt[t] => result[t] # "nothing"
    /\ CutMeansHeard

\* What the ducker remembers is what the user has set.
Remembered ==
    /\ main # "restoring" => restoring = Nothing
    /\ ~spoiled =>
          /\ \A s \in DOMAIN restoring : restoring[s] = user[s]
          /\ \A s \in DOMAIN snapshots : snapshots[s] = user[s]
          /\ \A s \in Sessions :
                volume[s] = user[s] \/ s \in DOMAIN snapshots \cup DOMAIN restoring

\* An utterance yet to come has no report, nor has this one unless _detected.
ReportedOnce ==
    /\ \A u \in Utterances :
          u > utterance \/ (u = utterance /\ ~detected) => reports[u] = 0
    /\ OneReportPerUtterance

\* The turn that is over knows what barged in: the monitor that raised the event
\* has ended, and the player, unless Ctrl+C is ending the loop.
QueueKept ==
    /\ \A t \in Turns : interrupt[t] => monitor[t] = "over"
    /\ player = "cut" => interrupt[count]
    /\ ctrlC => \/ main \in {"leave", "join", "settle", "exited"}
                \/ main \in {"restore", "restoring"} /\ then \in {"settle", "exited"}
    /\ main \in {"restore", "restoring"} /\ then = "after" => raised
    /\ main = "after" /\ ~raised /\ player = "cut" =>
          queued = CommandOf(result[count])

Inv == /\ TypeOK /\ LockHeld /\ CommandsLeft /\ Begun /\ MonitorsStopped
       /\ ResultFirst /\ QueueKept /\ Remembered /\ ReportedOnce

----------------------------------------------------------------------------
(* Types, part by part.                                                    *)

\* duck() keeps the types of the ducker.
LEMMA DuckType == DuckerTypeOK /\ Duck => DuckerTypeOK'
<1> SUFFICES ASSUME DuckerTypeOK, Duck PROVE DuckerTypeOK'
  OBVIOUS
<1> USE DuckerAssumption DEF DuckerTypeOK, duckerVars
<1>1. \A s \in Sessions : Ducked(s) \in Volumes
  BY DEF Ducked, Volumes
<1>2. CASE AlreadyDucked /\ UNCHANGED duckerVars
  BY <1>2
<1>3. CASE DuckAll
  <2>1. volume' \in [Sessions -> Volumes]
    BY <1>1, <1>3 DEF DuckAll
  <2>2. snapshots' \in UNION {[S -> Volumes] : S \in SUBSET Sessions}
    BY <1>3 DEF DuckAll
  <2> QED BY <1>3, <2>1, <2>2 DEF DuckAll
<1>4. CASE DuckFails
  <2>1. volume' \in [Sessions -> Volumes]
    BY <1>1, <1>4 DEF DuckFails
  <2> QED BY <1>4, <2>1 DEF DuckFails
<1> QED BY <1>2, <1>3, <1>4 DEF Duck

\* So do the steps of restore().
LEMMA RestoreType ==
    ASSUME DuckerTypeOK, TakeSnapshots \/ RestoreOne \/ RestoreFails
    PROVE  DuckerTypeOK'
<1> USE DuckerAssumption DEF DuckerTypeOK
<1>1. CASE TakeSnapshots
  <2>1. Nothing \in [{} -> Volumes]
    BY DEF Nothing
  <2> QED BY <1>1, <2>1 DEF TakeSnapshots
<1>2. PICK S \in SUBSET Sessions : restoring \in [S -> Volumes]
  OBVIOUS
<1>3. ASSUME NEW s \in DOMAIN restoring
      PROVE  Restrict(restoring, DOMAIN restoring \ {s})
                \in UNION {[R -> Volumes] : R \in SUBSET Sessions}
  <2>1. Restrict(restoring, DOMAIN restoring \ {s}) \in [S \ {s} -> Volumes]
    BY <1>2 DEF Restrict
  <2> QED BY <2>1
<1>4. CASE RestoreOne
  <2>1. PICK s \in DOMAIN restoring :
          /\ volume' = [volume EXCEPT ![s] = restoring[s]]
          /\ restoring' = Restrict(restoring, DOMAIN restoring \ {s})
          /\ UNCHANGED <<user, snapshots, comFaults, spoiled>>
    BY <1>4 DEF RestoreOne
  <2>2. restoring[s] \in Volumes
    BY <1>2
  <2> QED BY <1>3, <2>1, <2>2
<1>5. CASE RestoreFails
  BY <1>3, <1>5 DEF RestoreFails
<1> QED BY <1>1, <1>4, <1>5

\* _maybe_schedule keeps the type of what it may change.
LEMMA ScheduleType ==
    ASSUME NEW id \in 0..(2 * MaxUtterances), NEW current, NEW spoken,
           NEW e \in BOOLEAN, NEW f \in [Workers -> Worker],
           MaybeSchedule(id, current, spoken, [running |-> e, worker |-> f])
    PROVE  running' \in BOOLEAN /\ worker' \in [Workers -> Worker]
<1>1. CASE running' = e /\ worker' = f
  BY <1>1
<1>2. CASE \E w \in Workers :
             /\ worker' = [f EXCEPT ![w] = [at |-> "queued", utterance |-> id]]
             /\ running' = TRUE
  <2>1. [at |-> "queued", utterance |-> id] \in Worker
    BY DEF Worker, WorkerPlaces, Utterances
  <2> QED BY <1>2, <2>1
<1> QED BY <1>1, <1>2 DEF MaybeSchedule

\* The operations of the preview and its workers keep its types.
LEMMA PreviewTypes ==
    ASSUME PreviewTypeOK
    PROVE  /\ PreviewStart \/ PreviewAdd => PreviewTypeOK'
           /\ PreviewFinish /\ utterance < 2 * MaxUtterances => PreviewTypeOK'
           /\ \A w \in Workers :
                 WorkerTranscribes(w) \/ WorkerHearsNothing(w)
                   \/ WorkerHearsWake(w) \/ WorkerReported(w) => PreviewTypeOK'
<1> USE PreviewAssumption DEF PreviewTypeOK, Utterances
<1>1. ASSUME PreviewStart PROVE PreviewTypeOK'
  <2>1. utterance + 1 \in 0..(2 * MaxUtterances)
    BY <1>1 DEF PreviewStart
  <2> QED BY <1>1, <2>1, ScheduleType DEF PreviewStart
<1>2. ASSUME PreviewAdd PROVE PreviewTypeOK'
  BY <1>2, ScheduleType DEF PreviewAdd
<1>3. ASSUME PreviewFinish, utterance < 2 * MaxUtterances PROVE PreviewTypeOK'
  <2>1. utterance' \in 0..(2 * MaxUtterances)
    BY <1>3 DEF PreviewFinish
  <2> QED BY <1>3, <2>1 DEF PreviewFinish
<1>4. ASSUME NEW w \in Workers,
             UNCHANGED <<utterance, chunks, detected, reports>>, Ends(w)
      PROVE  PreviewTypeOK'
  <2>1. Off \in Worker
    BY DEF Off, Worker, WorkerPlaces
  <2>2. [worker EXCEPT ![w] = Off] \in [Workers -> Worker]
    BY <2>1
  <2>3. worker[w].utterance \in 0..(2 * MaxUtterances)
    BY DEF Worker
  <2> QED BY <1>4, <2>2, <2>3, ScheduleType DEF Ends
<1>5. ASSUME NEW w \in Workers, WorkerTranscribes(w) \/ WorkerHearsWake(w)
      PROVE  PreviewTypeOK'
  <2>1. worker' \in [Workers -> Worker]
    BY <1>5 DEF WorkerTranscribes, WorkerHearsWake, Worker, WorkerPlaces
  <2>2. reports' \in [Utterances -> Nat]
    BY <1>5 DEF WorkerTranscribes, WorkerHearsWake
  <2> QED BY <1>5, <2>1, <2>2 DEF WorkerTranscribes, WorkerHearsWake
<1> QED BY <1>1, <1>2, <1>3, <1>4, <1>5 DEF WorkerHearsNothing, WorkerReported

\* The operations of a monitor and its thread keep its types.
LEMMA MonitorTypes ==
    ASSUME MonitorTypeOK, NEW t \in Turns
    PROVE  MonitorStart(t) \/ MonitorStop(t) \/ MonitorReads(t)
             \/ MonitorSpeechStarts(t) \/ MonitorUtterance(t)
             \/ MonitorTranscribes(t) \/ MonitorHearsNothing(t)
             \/ MonitorFails(t) \/ MonitorHearsWake(t) \/ MonitorRaises(t)
               => MonitorTypeOK'
BY DEF MonitorTypeOK, MonitorStart, MonitorStop, MonitorReads,
       MonitorSpeechStarts, MonitorUtterance, MonitorTranscribes,
       MonitorHearsNothing, MonitorFails, MonitorHearsWake, MonitorRaises,
       Goes, NextChunk, MonitorPlaces, Heard

----------------------------------------------------------------------------
(* Every action keeps the types; the parts of the invariant tell it which  *)
(* turn's monitor is read and that an utterance in progress has an end.    *)

\* One step keeps TypeOK.
LEMMA TypeStep == Inv /\ [Next]_vars => TypeOK'
<1> SUFFICES ASSUME Inv, [Next]_vars PROVE TypeOK'
  OBVIOUS
<1> USE LoopAssumption DEF Inv, TypeOK, MainGoes, OnlyLoop, MainPlaces, loopVars,
        turnVars, schedulerVars, outsideVars, SttAcquired, SttReleased
<1>0. /\ UNCHANGED duckerVars => DuckerTypeOK'
      /\ UNCHANGED previewVars => PreviewTypeOK'
      /\ UNCHANGED monitorVars => MonitorTypeOK'
  BY DEF DuckerTypeOK, duckerVars, PreviewTypeOK, previewVars,
         MonitorTypeOK, monitorVars
<1>a. count \in Turns => result[count] \in Heard
  BY DEF MonitorTypeOK
<1>b. main \in {"generate", "synthesize", "finish", "join", "settle"}
        \/ player \in {"playing", "cut"} => count \in Turns
  BY MonitorAssumption DEF Begun, MidTurn, Turns
<1>1. CASE SpeechStarts
  BY <1>0, <1>1, PreviewTypes DEF SpeechStarts
<1>2. CASE SpeechGoesOn
  BY <1>0, <1>2, PreviewTypes DEF SpeechGoesOn
<1>3. CASE SpeechEnds
  <2>1. utterance < 2 * MaxUtterances
    BY <1>3 DEF SpeechEnds, Begun
  <2> QED BY <1>0, <1>3, <2>1, PreviewTypes DEF SpeechEnds
<1>4. CASE StopSeen
  BY <1>0, <1>4 DEF StopSeen
<1>5. CASE Transcribe
  BY <1>0, <1>5 DEF Transcribe
<1>6. CASE Route
  <2>1. DuckerTypeOK' /\ PreviewTypeOK' /\ MonitorTypeOK'
    BY <1>0, <1>6 DEF Route
  <2>2. main' \in MainPlaces /\ command' \in {"nothing", "command", "quit"}
    BY <1>6 DEF Route
  <2>3. awaiting' \in BOOLEAN
    BY <1>6 DEF Route
  <2> QED BY <1>6, <2>1, <2>2, <2>3 DEF Route
<1>7. CASE TranscribeRaises
  BY <1>0, <1>7 DEF TranscribeRaises
<1>8. CASE WakeDetected
  BY <1>0, <1>8, DuckType DEF WakeDetected
<1>9. CASE BeginTurn
  <2>1. count' \in 0..MaxTurns /\ count + 1 \in Turns
    BY <1>9, MonitorAssumption DEF BeginTurn, Turns
  <2>2. DuckerTypeOK' /\ PreviewTypeOK' /\ MonitorTypeOK'
    <3>1. UNCHANGED duckerVars \/ Duck
      BY <1>9 DEF BeginTurn
    <3>2. UNCHANGED monitorVars \/ MonitorStart(count + 1)
      BY <1>9 DEF BeginTurn
    <3>3. UNCHANGED previewVars
      BY <1>9 DEF BeginTurn
    <3>4. MonitorStart(count + 1) => MonitorTypeOK'
      BY <2>1, MonitorTypes
    <3> QED BY <1>0, <3>1, <3>2, <3>3, <3>4, DuckType
  <2>3. /\ main' \in MainPlaces /\ then' \in MainPlaces
        /\ player' \in {"off", "playing", "ended", "cut", "failed"}
        /\ turnLock' \in {None, "main", "scheduler"}
    BY <1>9 DEF BeginTurn, TakesTurnLock
  <2> QED BY <1>9, <2>1, <2>2, <2>3 DEF BeginTurn
<1>10. CASE Generated
  BY <1>0, <1>10 DEF Generated
<1>11. CASE Synthesized
  BY <1>0, <1>11, <1>b, MonitorTypes DEF Synthesized
<1>12. CASE SynthesisRaises
  BY <1>0, <1>12 DEF SynthesisRaises
<1>13. CASE PlayerSteps
  BY <1>0, <1>13 DEF PlayerSteps
<1>14. CASE PlaybackOver
  BY <1>0, <1>14, <1>b, MonitorTypes DEF PlaybackOver
<1>15. CASE MonitorJoined
  BY <1>0, <1>15 DEF MonitorJoined
<1>16. CASE RestoreBegins
  BY <1>0, <1>16, RestoreType DEF RestoreBegins
<1>17. CASE RestoreGoesOn
  BY <1>0, <1>17, RestoreType DEF RestoreGoesOn
<1>18. CASE Settle
  BY <1>0, <1>18, <1>a, <1>b DEF Settle, CommandOf, Heard
<1>19. CASE AfterTurn
  BY <1>0, <1>19 DEF AfterTurn
<1>20. CASE CtrlC
  BY <1>0, <1>20, <1>b, MonitorTypes DEF CtrlC
<1>21. CASE Leave
  BY <1>0, <1>21 DEF Leave
<1>22. CASE RequestStop
  BY <1>0, <1>22 DEF RequestStop
<1>23. CASE FireSpeaks
  BY <1>0, <1>23 DEF FireSpeaks
<1>24. CASE FireEnds
  <2>1. DuckerTypeOK' /\ PreviewTypeOK' /\ MonitorTypeOK'
    BY <1>0, <1>24 DEF FireEnds
  <2>2. speaking' \in BOOLEAN /\ turnLock' \in {None, "main", "scheduler"}
    BY <1>24 DEF FireEnds
  <2> QED BY <1>24, <2>1, <2>2 DEF FireEnds
<1>25. ASSUME NEW w \in Workers, WorkerStep(w) PROVE TypeOK'
  BY <1>0, <1>25, DuckType, PreviewTypes DEF WorkerStep, LoopButStt
<1>26. ASSUME NEW t \in Turns, MonitorStep(t) PROVE TypeOK'
  BY <1>0, <1>26, DuckType, MonitorTypes DEF MonitorStep, LoopButStt
<1>27. CASE UNCHANGED vars
  BY <1>0, <1>27 DEF vars
<1> QED BY <1>1, <1>2, <1>3, <1>4, <1>5, <1>6, <1>7, <1>8, <1>9, <1>10, <1>11,
           <1>12, <1>13, <1>14, <1>15, <1>16, <1>17, <1>18, <1>19, <1>20, <1>21,
           <1>22, <1>23, <1>24, <1>25, <1>26, <1>27 DEF Next, MainStep, Exited

----------------------------------------------------------------------------
(* The main thread's actions, by what they are about.                      *)

Listening == \/ SpeechStarts \/ SpeechGoesOn \/ SpeechEnds \/ StopSeen
             \/ Transcribe \/ Route \/ TranscribeRaises \/ WakeDetected
Answering == Generated \/ Synthesized \/ SynthesisRaises
Restoring == RestoreBegins \/ RestoreGoesOn
Ending    == Settle \/ AfterTurn \/ Leave
Outside   == RequestStop \/ FireSpeaks \/ FireEnds

\* Every step is of one of these kinds.
LEMMA Kinds ==
    [Next]_vars => \/ Listening \/ BeginTurn \/ Answering \/ PlayerSteps
                   \/ PlaybackOver \/ MonitorJoined \/ Restoring \/ Ending
                   \/ CtrlC \/ Outside
                   \/ \E w \in Workers : WorkerStep(w)
                   \/ \E t \in Turns : MonitorStep(t)
                   \/ UNCHANGED vars
BY DEF Next, MainStep, Exited, Listening, Answering, Restoring, Ending, Outside

\* A turn's lock and its voice.
LEMMA LockStep == Inv /\ [Next]_vars => LockHeld'
<1> SUFFICES ASSUME Inv, [Next]_vars PROVE LockHeld'
  OBVIOUS
<1> USE LoopAssumption DEF Inv, TypeOK, LockHeld, MidTurn, Audible, MainGoes,
        loopVars, turnVars, schedulerVars, outsideVars
<1>1. CASE Listening
  BY <1>1 DEF Listening, SpeechStarts, SpeechGoesOn, SpeechEnds, StopSeen,
              Transcribe, Route, TranscribeRaises, WakeDetected
<1>2. CASE BeginTurn
  BY <1>2 DEF BeginTurn, TakesTurnLock
<1>3. CASE Answering
  BY <1>3 DEF Answering, Generated, Synthesized, SynthesisRaises
<1>4. CASE PlayerSteps
  BY <1>4 DEF PlayerSteps
<1>5. CASE PlaybackOver \/ MonitorJoined
  BY <1>5 DEF PlaybackOver, MonitorJoined
<1>6. CASE Restoring
  BY <1>6 DEF Restoring, RestoreBegins, RestoreGoesOn, CommandsLeft
<1>7. CASE Ending
  BY <1>7 DEF Ending, Settle, AfterTurn, Leave
<1>8. CASE CtrlC
  BY <1>8 DEF CtrlC
<1>9. CASE Outside
  BY <1>9 DEF Outside, RequestStop, FireSpeaks, FireEnds
<1>10. ASSUME NEW w \in Workers, WorkerStep(w) PROVE LockHeld'
  BY <1>10 DEF WorkerStep, LoopButStt
<1>11. ASSUME NEW t \in Turns, MonitorStep(t) PROVE LockHeld'
  BY <1>11 DEF MonitorStep, LoopButStt
<1>12. CASE UNCHANGED vars
  BY <1>12 DEF vars
<1> QED BY <1>1, <1>2, <1>3, <1>4, <1>5, <1>6, <1>7, <1>8, <1>9, <1>10, <1>11,
           <1>12, Kinds

\* The commands that are left.
LEMMA CommandsStep == Inv /\ [Next]_vars => CommandsLeft'
<1> SUFFICES ASSUME Inv, [Next]_vars PROVE CommandsLeft'
  OBVIOUS
<1> USE LoopAssumption DEF Inv, TypeOK, CommandsLeft, AtMostMaxCommands, MainGoes,
        loopVars, turnVars, schedulerVars, outsideVars
<1>1. CASE Listening
  BY <1>1 DEF Listening, SpeechStarts, SpeechGoesOn, SpeechEnds, StopSeen,
              Transcribe, Route, TranscribeRaises, WakeDetected
<1>2. CASE BeginTurn
  BY <1>2 DEF BeginTurn, TakesTurnLock
<1>3. CASE Answering
  BY <1>3 DEF Answering, Generated, Synthesized, SynthesisRaises
<1>4. CASE PlayerSteps
  BY <1>4 DEF PlayerSteps
<1>5. CASE PlaybackOver \/ MonitorJoined
  BY <1>5 DEF PlaybackOver, MonitorJoined
<1>6. CASE Restoring
  BY <1>6 DEF Restoring, RestoreBegins, RestoreGoesOn
<1>7. CASE Ending
  BY <1>7 DEF Ending, Settle, AfterTurn, Leave, LimitReached
<1>8. CASE CtrlC
  BY <1>8 DEF CtrlC
<1>9. CASE Outside
  BY <1>9 DEF Outside, RequestStop, FireSpeaks, FireEnds
<1>10. ASSUME NEW w \in Workers, WorkerStep(w) PROVE CommandsLeft'
  BY <1>10 DEF WorkerStep, LoopButStt
<1>11. ASSUME NEW t \in Turns, MonitorStep(t) PROVE CommandsLeft'
  BY <1>11 DEF MonitorStep, LoopButStt
<1>12. CASE UNCHANGED vars
  BY <1>12 DEF vars
<1> QED BY <1>1, <1>2, <1>3, <1>4, <1>5, <1>6, <1>7, <1>8, <1>9, <1>10, <1>11,
           <1>12, Kinds

\* What has begun.
LEMMA BegunStep == Inv /\ [Next]_vars => Begun'
<1> SUFFICES ASSUME Inv, [Next]_vars PROVE Begun'
  OBVIOUS
<1> USE LoopAssumption, PreviewAssumption, MonitorAssumption
        DEF Inv, TypeOK, Begun, MidTurn, MainGoes, PreviewTypeOK, previewVars,
        loopVars, turnVars, schedulerVars, outsideVars, OnlyLoop
<1>1. CASE Listening
  BY <1>1 DEF Listening, SpeechStarts, SpeechGoesOn, SpeechEnds, StopSeen,
              Transcribe, Route, TranscribeRaises, WakeDetected,
              PreviewStart, PreviewAdd, PreviewFinish
<1>2. CASE BeginTurn
  BY <1>2 DEF BeginTurn, TakesTurnLock
<1>3. CASE Answering
  BY <1>3 DEF Answering, Generated, Synthesized, SynthesisRaises
<1>4. CASE PlayerSteps
  BY <1>4 DEF PlayerSteps
<1>5. CASE PlaybackOver \/ MonitorJoined
  BY <1>5 DEF PlaybackOver, MonitorJoined
<1>6. CASE Restoring
  BY <1>6 DEF Restoring, RestoreBegins, RestoreGoesOn, CommandsLeft
<1>7. CASE Ending
  BY <1>7 DEF Ending, Settle, AfterTurn, Leave
<1>8. CASE CtrlC
  BY <1>8 DEF CtrlC
<1>9. CASE Outside
  BY <1>9 DEF Outside, RequestStop, FireSpeaks, FireEnds
<1>10. ASSUME NEW w \in Workers, WorkerStep(w) PROVE Begun'
  BY <1>10 DEF WorkerStep, LoopButStt, WorkerTranscribes, WorkerHearsNothing,
               WorkerHearsWake, WorkerReported
<1>11. ASSUME NEW t \in Turns, MonitorStep(t) PROVE Begun'
  BY <1>11 DEF MonitorStep, LoopButStt
<1>12. CASE UNCHANGED vars
  BY <1>12 DEF vars
<1> QED BY <1>1, <1>2, <1>3, <1>4, <1>5, <1>6, <1>7, <1>8, <1>9, <1>10, <1>11,
           <1>12, Kinds

\* Only the turn in progress may have its monitor at work and not told to stop.
LEMMA MonitorsStep == Inv /\ [Next]_vars => MonitorsStopped'
<1> SUFFICES ASSUME Inv, [Next]_vars PROVE MonitorsStopped'
  OBVIOUS
<1> USE LoopAssumption, MonitorAssumption
        DEF Inv, TypeOK, MonitorsStopped, Silent, Audible, MainGoes,
        MonitorTypeOK, MonitorPlaces, monitorVars, Turns, Goes,
        loopVars, turnVars, schedulerVars, outsideVars, OnlyLoop
<1>1. CASE Listening
  BY <1>1 DEF Listening, SpeechStarts, SpeechGoesOn, SpeechEnds, StopSeen,
              Transcribe, Route, TranscribeRaises, WakeDetected
<1>2. CASE BeginTurn
  BY <1>2 DEF BeginTurn, MonitorStart
<1>3. CASE Answering
  BY <1>3 DEF Answering, Generated, Synthesized, SynthesisRaises, MonitorStart
<1>4. CASE PlayerSteps
  BY <1>4 DEF PlayerSteps
<1>5. CASE PlaybackOver \/ MonitorJoined
  BY <1>5 DEF PlaybackOver, MonitorJoined, MonitorStop, Joined
<1>6. CASE Restoring
  BY <1>6 DEF Restoring, RestoreBegins, RestoreGoesOn, CommandsLeft
<1>7. CASE Ending
  BY <1>7 DEF Ending, Settle, AfterTurn, Leave
<1>8. CASE CtrlC
  BY <1>8 DEF CtrlC, MonitorStop
<1>9. CASE Outside
  BY <1>9 DEF Outside, RequestStop, FireSpeaks, FireEnds
<1>10. ASSUME NEW w \in Workers, WorkerStep(w) PROVE MonitorsStopped'
  BY <1>10 DEF WorkerStep, LoopButStt
<1>11. ASSUME NEW t \in Turns, MonitorStep(t) PROVE MonitorsStopped'
  BY <1>11 DEF MonitorStep, LoopButStt, MonitorReads, MonitorUtterance,
               MonitorTranscribes, MonitorHearsNothing, MonitorHearsWake,
               MonitorFails, MonitorSpeechStarts, MonitorRaises, NextChunk
<1>12. CASE UNCHANGED vars
  BY <1>12 DEF vars
<1> QED BY <1>1, <1>2, <1>3, <1>4, <1>5, <1>6, <1>7, <1>8, <1>9, <1>10, <1>11,
           <1>12, Kinds

\* The result is there before the event, and stays.
LEMMA ResultStep == Inv /\ [Next]_vars => ResultFirst'
<1> SUFFICES ASSUME Inv, [Next]_vars PROVE ResultFirst'
  OBVIOUS
<1> USE LoopAssumption, MonitorAssumption
        DEF Inv, TypeOK, ResultFirst, CutMeansHeard, Begun, MainGoes,
        MonitorTypeOK, Heard, monitorVars, Turns, Goes,
        loopVars, turnVars, schedulerVars, outsideVars, OnlyLoop
<1>1. CASE Listening
  BY <1>1 DEF Listening, SpeechStarts, SpeechGoesOn, SpeechEnds, StopSeen,
              Transcribe, Route, TranscribeRaises, WakeDetected
<1>2. CASE BeginTurn
  BY <1>2 DEF BeginTurn, MonitorStart
<1>3. CASE Answering
  BY <1>3 DEF Answering, Generated, Synthesized, SynthesisRaises, MonitorStart
<1>4. CASE PlayerSteps
  BY <1>4 DEF PlayerSteps
<1>5. CASE PlaybackOver \/ MonitorJoined
  BY <1>5 DEF PlaybackOver, MonitorJoined, MonitorStop
<1>6. CASE Restoring
  BY <1>6 DEF Restoring, RestoreBegins, RestoreGoesOn
<1>7. CASE Ending
  BY <1>7 DEF Ending, Settle, AfterTurn, Leave
<1>8. CASE CtrlC
  BY <1>8 DEF CtrlC, MonitorStop
<1>9. CASE Outside
  BY <1>9 DEF Outside, RequestStop, FireSpeaks, FireEnds
<1>10. ASSUME NEW w \in Workers, WorkerStep(w) PROVE ResultFirst'
  BY <1>10 DEF WorkerStep, LoopButStt
<1>11. ASSUME NEW t \in Turns, MonitorStep(t) PROVE ResultFirst'
  BY <1>11 DEF MonitorStep, LoopButStt, MonitorReads, MonitorUtterance,
               MonitorTranscribes, MonitorHearsNothing, MonitorHearsWake,
               MonitorFails, MonitorSpeechStarts, MonitorRaises, NextChunk
<1>12. CASE UNCHANGED vars
  BY <1>12 DEF vars
<1> QED BY <1>1, <1>2, <1>3, <1>4, <1>5, <1>6, <1>7, <1>8, <1>9, <1>10, <1>11,
           <1>12, Kinds

\* What barged in is kept until the turn is over.
LEMMA QueueStep == Inv /\ [Next]_vars => QueueKept'
<1> SUFFICES ASSUME Inv, [Next]_vars PROVE QueueKept'
  OBVIOUS
<1> USE LoopAssumption, MonitorAssumption
        DEF Inv, TypeOK, QueueKept, Begun, CommandsLeft, LockHeld, Audible, MidTurn,
        MainGoes, MonitorTypeOK, MonitorPlaces, monitorVars, Turns, Goes,
        loopVars, turnVars, schedulerVars, outsideVars, OnlyLoop
<1>1. CASE Listening
  BY <1>1 DEF Listening, SpeechStarts, SpeechGoesOn, SpeechEnds, StopSeen,
              Transcribe, Route, TranscribeRaises, WakeDetected
<1>2. CASE BeginTurn
  BY <1>2 DEF BeginTurn, MonitorStart, MonitorsStopped
<1>3. CASE Answering
  BY <1>3 DEF Answering, Generated, Synthesized, SynthesisRaises, MonitorStart
<1>4. CASE PlayerSteps
  BY <1>4 DEF PlayerSteps
<1>5. CASE PlaybackOver \/ MonitorJoined
  BY <1>5 DEF PlaybackOver, MonitorJoined, MonitorStop
<1>6. CASE Restoring
  BY <1>6 DEF Restoring, RestoreBegins, RestoreGoesOn
<1>7. CASE Ending
  BY <1>7 DEF Ending, Settle, AfterTurn, Leave
<1>8. CASE CtrlC
  BY <1>8 DEF CtrlC, MonitorStop
<1>9. CASE Outside
  BY <1>9 DEF Outside, RequestStop, FireSpeaks, FireEnds
<1>10. ASSUME NEW w \in Workers, WorkerStep(w) PROVE QueueKept'
  BY <1>10 DEF WorkerStep, LoopButStt
<1>11. ASSUME NEW t \in Turns, MonitorStep(t) PROVE QueueKept'
  BY <1>11 DEF MonitorStep, LoopButStt, MonitorReads, MonitorUtterance,
               MonitorTranscribes, MonitorHearsNothing, MonitorHearsWake,
               MonitorFails, MonitorSpeechStarts, MonitorRaises, NextChunk
<1>12. CASE UNCHANGED vars
  BY <1>12 DEF vars
<1> QED BY <1>1, <1>2, <1>3, <1>4, <1>5, <1>6, <1>7, <1>8, <1>9, <1>10, <1>11,
           <1>12, Kinds

----------------------------------------------------------------------------
(* The volumes.  What the ducker promises is said without the main thread: *)
(* Exact is the second half of Remembered.                                 *)

Exact == ~spoiled =>
    /\ \A s \in DOMAIN restoring : restoring[s] = user[s]
    /\ \A s \in DOMAIN snapshots : snapshots[s] = user[s]
    /\ \A s \in Sessions :
          volume[s] = user[s] \/ s \in DOMAIN snapshots \cup DOMAIN restoring

\* duck() keeps it, and never writes what restore() has taken.
LEMMA DuckExact ==
    ASSUME DuckerTypeOK, Exact, Duck
    PROVE  Exact' /\ restoring' = restoring
<1> USE DEF Exact
<1>1. CASE AlreadyDucked /\ UNCHANGED duckerVars
  BY <1>1 DEF duckerVars
<1>2. CASE DuckAll
  <2>1. CASE restoring = Nothing
    <3>1. DOMAIN snapshots = {} /\ DOMAIN restoring = {}
      BY <1>2, <2>1 DEF DuckAll, AlreadyDucked, Nothing
    <3>2. ~spoiled => \A s \in Sessions : volume[s] = user[s]
      BY <3>1
    <3>3. DOMAIN snapshots' = Sessions
      BY <1>2 DEF DuckAll, DuckerTypeOK
    <3>4. UNCHANGED <<user, restoring>> /\ snapshots' = volume
            /\ (~spoiled' => ~spoiled)
      BY <1>2 DEF DuckAll
    <3> QED BY <3>1, <3>2, <3>3, <3>4
  <2>2. CASE restoring # Nothing
    BY <1>2, <2>2 DEF DuckAll
  <2> QED BY <2>1, <2>2
<1>3. CASE DuckFails
  BY <1>3 DEF DuckFails
<1> QED BY <1>1, <1>2, <1>3 DEF Duck

\* restore() keeps it, when it begins with none under way.
LEMMA RestoreExact ==
    ASSUME DuckerTypeOK, Exact
    PROVE  /\ TakeSnapshots /\ restoring = Nothing => Exact'
           /\ RestoreOne \/ RestoreFails => Exact'
<1> USE DEF Exact
<1>1. ASSUME TakeSnapshots, restoring = Nothing PROVE Exact'
  <2>1. DOMAIN restoring = {} /\ DOMAIN snapshots' = {}
    BY <1>1 DEF TakeSnapshots, Nothing
  <2>2. restoring' = snapshots /\ UNCHANGED <<user, volume, spoiled>>
    BY <1>1 DEF TakeSnapshots
  <2> QED BY <2>1, <2>2
<1>2. ASSUME RestoreOne PROVE Exact'
  <2>1. PICK s \in DOMAIN restoring :
          /\ volume' = [volume EXCEPT ![s] = restoring[s]]
          /\ restoring' = Restrict(restoring, DOMAIN restoring \ {s})
          /\ UNCHANGED <<user, snapshots, comFaults, spoiled>>
    BY <1>2 DEF RestoreOne
  <2>2. /\ DOMAIN restoring' = DOMAIN restoring \ {s}
        /\ \A x \in DOMAIN restoring' : restoring'[x] = restoring[x]
    BY <2>1 DEF Restrict
  <2>3. s \in Sessions /\ volume'[s] = restoring[s]
          /\ \A x \in Sessions \ {s} : volume'[x] = volume[x]
    BY <2>1 DEF DuckerTypeOK
  <2> QED BY <2>1, <2>2, <2>3
<1>3. ASSUME RestoreFails PROVE Exact'
  BY <1>3 DEF RestoreFails
<1> QED BY <1>1, <1>2, <1>3

\* What the main thread and the others do to the volumes keeps them.
LEMMA RememberedStep == Inv /\ [Next]_vars => Remembered'
<1> SUFFICES ASSUME Inv, [Next]_vars PROVE Remembered'
  OBVIOUS
<1> USE DEF MainGoes
<1>1. /\ Remembered <=> (main # "restoring" => restoring = Nothing) /\ Exact
      /\ Remembered' <=> (main' # "restoring" => restoring' = Nothing) /\ Exact'
  BY DEF Remembered, Exact
<1>2. DuckerTypeOK /\ Exact /\ (main # "restoring" => restoring = Nothing)
        /\ then # "restoring" /\ main \in MainPlaces
  BY <1>1 DEF Inv, TypeOK, CommandsLeft
<1>3. ASSUME UNCHANGED duckerVars \/ Duck, main = "restoring" => main' = "restoring"
      PROVE  Remembered'
  <2>1. Exact' /\ restoring' = restoring
    <3>1. CASE UNCHANGED duckerVars
      BY <1>2, <3>1 DEF duckerVars, Exact
    <3> QED BY <1>2, <1>3, <3>1, DuckExact
  <2> QED BY <1>1, <1>2, <1>3, <2>1
<1> USE DEF MainGoes, OnlyLoop, loopVars, turnVars
<1>4. CASE Listening
  BY <1>3, <1>4 DEF Listening, SpeechStarts, SpeechGoesOn, SpeechEnds, StopSeen,
                    Transcribe, Route, TranscribeRaises, WakeDetected
<1>5. CASE BeginTurn
  BY <1>3, <1>5 DEF BeginTurn
<1>6. CASE Answering \/ PlayerSteps
  BY <1>3, <1>6 DEF Answering, Generated, Synthesized, SynthesisRaises, PlayerSteps
<1>7. CASE PlaybackOver \/ MonitorJoined
  BY <1>3, <1>7 DEF PlaybackOver, MonitorJoined
<1>8. CASE RestoreBegins
  <2>1. restoring = Nothing
    BY <1>2, <1>8 DEF RestoreBegins
  <2>2. Exact'
    BY <1>2, <1>8, <2>1, RestoreExact DEF RestoreBegins
  <2>3. main' # "restoring" => restoring' = Nothing
    BY <1>2, <1>8 DEF RestoreBegins, TakeSnapshots
  <2> QED BY <1>1, <2>2, <2>3
<1>9. CASE RestoreGoesOn
  <2>1. Exact'
    BY <1>2, <1>9, RestoreExact DEF RestoreGoesOn
  <2>2. main' # "restoring" => restoring' = Nothing
    BY <1>9 DEF RestoreGoesOn
  <2> QED BY <1>1, <2>1, <2>2
<1>10. CASE Ending \/ CtrlC
  BY <1>3, <1>10 DEF Ending, Settle, AfterTurn, Leave, CtrlC
<1>11. CASE Outside
  BY <1>3, <1>11 DEF Outside, RequestStop, FireSpeaks, FireEnds
<1>12. ASSUME NEW w \in Workers, WorkerStep(w) PROVE Remembered'
  BY <1>3, <1>12 DEF WorkerStep, LoopButStt
<1>13. ASSUME NEW t \in Turns, MonitorStep(t) PROVE Remembered'
  BY <1>3, <1>13 DEF MonitorStep, LoopButStt
<1>14. CASE UNCHANGED vars
  BY <1>3, <1>14 DEF vars
<1> QED BY <1>4, <1>5, <1>6, <1>7, <1>8, <1>9, <1>10, <1>11, <1>12, <1>13, <1>14,
           Kinds DEF Restoring

----------------------------------------------------------------------------
(* The interim report.                                                     *)

\* No new report, and the utterance's own is not forgotten.
LEMMA QuietReports ==
    ASSUME ReportedOnce, PreviewTypeOK, reports' = reports,
           \/ utterance' = utterance /\ detected' = detected
           \/ utterance' = utterance + 1
    PROVE  ReportedOnce'
BY PreviewAssumption DEF ReportedOnce, OneReportPerUtterance, PreviewTypeOK, Utterances

\* One report per utterance.
LEMMA ReportedStep == Inv /\ [Next]_vars => ReportedOnce'
<1> SUFFICES ASSUME Inv, [Next]_vars PROVE ReportedOnce'
  OBVIOUS
<1>1. ReportedOnce /\ PreviewTypeOK /\ worker \in [Workers -> Worker]
  BY DEF Inv, TypeOK, PreviewTypeOK
<1>2. UNCHANGED previewVars => ReportedOnce'
  BY <1>1, QuietReports DEF previewVars
<1>3. ASSUME PreviewStart \/ PreviewAdd \/ PreviewFinish PROVE ReportedOnce'
  <2>1. CASE PreviewStart
    BY <1>1, <2>1, QuietReports DEF PreviewStart
  <2>2. CASE PreviewAdd
    BY <1>1, <2>2, QuietReports DEF PreviewAdd
  <2>3. CASE PreviewFinish
    BY <1>1, <2>3, QuietReports DEF PreviewFinish
  <2> QED BY <1>3, <2>1, <2>2, <2>3
<1>4. ASSUME NEW w \in Workers, WorkerStep(w) PROVE ReportedOnce'
  <2>1. CASE WorkerTranscribes(w)
    BY <1>1, <2>1, QuietReports DEF WorkerTranscribes
  <2>2. CASE WorkerHearsNothing(w) \/ WorkerReported(w)
    BY <1>1, <2>2, QuietReports DEF WorkerHearsNothing, WorkerReported
  <2>3. CASE WorkerHearsWake(w)
    <3>1. /\ worker[w].utterance = utterance /\ ~detected /\ detected'
          /\ utterance' = utterance
          /\ reports' = [reports EXCEPT ![utterance] = @ + 1]
      BY <2>3 DEF WorkerHearsWake, Stale
    <3> QED BY <1>1, <3>1, PreviewAssumption
               DEF ReportedOnce, OneReportPerUtterance, PreviewTypeOK, Utterances
  <2> QED BY <1>2, <1>4, <2>1, <2>2, <2>3 DEF WorkerStep, previewVars
<1> USE DEF OnlyLoop
<1>5. CASE Listening
  BY <1>2, <1>3, <1>5
     DEF Listening, SpeechStarts, SpeechGoesOn, SpeechEnds, StopSeen,
         Transcribe, Route, TranscribeRaises, WakeDetected
<1>6. CASE BeginTurn \/ Answering \/ PlayerSteps
  BY <1>2, <1>6 DEF BeginTurn, Answering, Generated, Synthesized, SynthesisRaises,
                    PlayerSteps
<1>7. CASE PlaybackOver \/ MonitorJoined \/ Restoring
  BY <1>2, <1>7 DEF PlaybackOver, MonitorJoined, Restoring, RestoreBegins,
                    RestoreGoesOn
<1>8. CASE Ending \/ CtrlC \/ Outside
  BY <1>2, <1>8 DEF Ending, Settle, AfterTurn, Leave, CtrlC, Outside, RequestStop,
                    FireSpeaks, FireEnds
<1>9. ASSUME NEW t \in Turns, MonitorStep(t) PROVE ReportedOnce'
  BY <1>2, <1>9 DEF MonitorStep
<1>10. CASE UNCHANGED vars
  BY <1>2, <1>10 DEF vars
<1> QED BY <1>4, <1>5, <1>6, <1>7, <1>8, <1>9, <1>10, Kinds

----------------------------------------------------------------------------
(* The theorems.                                                           *)

\* The invariant holds at the start, and every step keeps it.
LEMMA Invariance == Spec => []Inv
<1>1. Init => Inv
  <2> SUFFICES ASSUME Init PROVE Inv
    OBVIOUS
  <2>0. /\ 0 \in 0..MaxTurns /\ 0 \in 0..MaxFires /\ 0 \in 0..MaxComFaults
        /\ 0 \in 0..(2 * MaxUtterances) /\ 0 < 2 * MaxUtterances
    BY DuckerAssumption, PreviewAssumption, MonitorAssumption, LoopAssumption
  <2>1. Nothing \in [{} -> Volumes] /\ DOMAIN Nothing = {}
    BY DEF Nothing
  <2>2. DuckerTypeOK
    <3>1. user \in [Sessions -> Volumes] /\ volume = user
      BY DEF Init, DuckerInit, Volumes
    <3>2. Nothing \in UNION {[S -> Volumes] : S \in SUBSET Sessions}
      BY <2>1
    <3> QED BY <2>0, <3>1, <3>2 DEF Init, DuckerInit, DuckerTypeOK
  <2>3. PreviewTypeOK /\ ReportedOnce
    <3>1. Off \in Worker /\ Off.at # "reporting"
      BY <2>0 DEF Off, Worker, WorkerPlaces, Utterances
    <3>2. \A w \in Workers : worker[w] = Off
      BY DEF Init, PreviewInit
    <3>3. ReportedOnce
      BY DEF Init, PreviewInit, ReportedOnce, OneReportPerUtterance
    <3> QED BY <2>0, <3>1, <3>3 DEF Init, PreviewInit, PreviewTypeOK, Utterances
  <2>4. MonitorTypeOK
    BY DEF Init, MonitorInit, MonitorTypeOK, MonitorPlaces, Heard
  <2>5. TypeOK
    BY <2>0, <2>2, <2>3, <2>4 DEF Init, TypeOK, MainPlaces
  <2>6. Remembered
    BY <2>1 DEF Init, DuckerInit, Remembered
  <2>7. LockHeld /\ CommandsLeft /\ Begun
    BY LoopAssumption
       DEF Init, LockHeld, CommandsLeft, AtMostMaxCommands, Begun, MidTurn
  <2>8. MonitorsStopped /\ ResultFirst
    BY MonitorAssumption
       DEF Init, MonitorInit, MonitorsStopped, Silent, Audible, ResultFirst,
           CutMeansHeard
  <2>9. QueueKept
    BY DEF Init, MonitorInit, QueueKept
  <2> QED BY <2>3, <2>5, <2>6, <2>7, <2>8, <2>9 DEF Inv
<1>2. Inv /\ [Next]_vars => Inv'
  BY TypeStep, LockStep, CommandsStep, BegunStep, MonitorsStep, ResultStep,
     QueueStep, RememberedStep, ReportedStep DEF Inv
<1> QED BY <1>1, <1>2, PTL DEF Spec

\* Every reachable state of the loop is well typed.
THEOREM LoopTypeCorrect == Spec => []TypeOK
<1>1. Inv => TypeOK
  BY DEF Inv
<1> QED BY <1>1, Invariance, PTL

\* A scheduled event never speaks over a live turn, unless Ctrl+C has cut the
\* turn and left its player playing.
THEOREM TurnLockKeepsOneVoice == Spec => []OneVoice
<1>1. Inv => OneVoice
  BY DEF Inv, LockHeld, MidTurn, Audible, OneVoice
<1> QED BY <1>1, Invariance, PTL

\* No two threads are ever inside the microphone's generator, however late a
\* monitor of an earlier turn ends.
THEOREM MicIsSafe == Spec => []MicHasOneReader
<1>1. Inv => MicHasOneReader
  BY DEF Inv, MonitorsStopped, Audible, MicHasOneReader
<1> QED BY <1>1, Invariance, PTL

\* A playback that was cut short was cut by something that was heard and kept.
THEOREM CutHasCause == Spec => []CutMeansHeard
<1>1. Inv => CutMeansHeard
  BY DEF Inv, ResultFirst
<1> QED BY <1>1, Invariance, PTL

\* The limit holds over the commands said and those that barge in.
THEOREM LimitHolds == Spec => []AtMostMaxCommands
<1>1. Inv => AtMostMaxCommands
  BY DEF Inv, CommandsLeft
<1> QED BY <1>1, Invariance, PTL

\* One utterance is reported once, by however many workers it was heard.
THEOREM ReportsOnce == Spec => []OneReportPerUtterance
<1>1. Inv => OneReportPerUtterance
  BY DEF Inv, ReportedOnce
<1> QED BY <1>1, Invariance, PTL

\* The volumes can be put back exactly, for any sessions, volumes and turns,
\* unless duck and restore have overlapped or a volume call has failed.
THEOREM VolumesKept == Spec => []ExactUnlessSpoiled
<1>1. Inv => ExactUnlessSpoiled
  BY DEF Inv, Remembered, ExactUnlessSpoiled
<1> QED BY <1>1, Invariance, PTL
\* A turn cut short by a command is followed by the turn of that command, unless
\* the loop was told to stop or has taken its last command.
THEOREM BargeInTakesTurn == Spec => BargeInIsNext
<1> DEFINE A ==
      main = "after" /\ main' # "after" /\ ~raised /\ player = "cut"
          /\ command # "quit" /\ result[count] \in {"command", "quit"} =>
        \/ main' = "turn" /\ command' = result[count]
        \/ main' = "leave" /\ (stop \/ count = MaxCommands)
<1>1. Inv /\ [Next]_vars => A
  <2> SUFFICES ASSUME Inv, [Next]_vars, main = "after", main' # "after", ~raised,
                      player = "cut", command # "quit",
                      result[count] \in {"command", "quit"}
               PROVE  \/ main' = "turn" /\ command' = result[count]
                      \/ main' = "leave" /\ (stop \/ count = MaxCommands)
    OBVIOUS
  <2>1. queued = result[count] /\ queued # "nothing"
    BY DEF Inv, QueueKept, CommandOf
  <2>2. AfterTurn
    BY Kinds
       DEF MainGoes, Listening, SpeechStarts, SpeechGoesOn, SpeechEnds, StopSeen,
           Transcribe, Route, TranscribeRaises, WakeDetected, BeginTurn, Answering,
           Generated, Synthesized, SynthesisRaises, PlayerSteps, PlaybackOver,
           MonitorJoined, Restoring, RestoreBegins, RestoreGoesOn, Ending, Settle,
           Leave, CtrlC, Outside, RequestStop, FireSpeaks, FireEnds,
           WorkerStep, MonitorStep, LoopButStt, loopVars, vars
  <2>3. LimitReached => count = MaxCommands
    BY LoopAssumption
       DEF LimitReached, Inv, TypeOK, CommandsLeft, AtMostMaxCommands
  <2> QED BY <2>1, <2>2, <2>3 DEF AfterTurn, MainGoes
<1> QED BY <1>1, Invariance, PTL DEF Spec, BargeInIsNext
=============================================================================
