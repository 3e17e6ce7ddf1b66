------------------------------- MODULE MicInput -------------------------------
(***************************************************************************)
(* audio/capture.py, MicrophoneInput.chunks, and audio/vad.py,             *)
(* UtteranceSegmenter.utterances, which reads it.                          *)
(*                                                                         *)
(* The callback of the audio device puts each block in a bounded queue; if *)
(* it is full it takes the oldest out and puts the block again: three      *)
(* calls, between which the reader takes blocks out.  A call that raises   *)
(* ends the stream.  Blocks are numbered; whether one is speech is open.   *)
(***************************************************************************)
EXTENDS Integers, Sequences, SequencesExt

CONSTANTS MaxBlocks,    \* bound: blocks captured
          QueueSize,    \* maxsize (32 in the code)
          PreRoll,      \* _pre_roll_chunks
          SpeechStart,  \* _speech_start_chunks
          SpeechEnd,    \* _speech_end_chunks
          MaxChunks     \* _max_chunks

ASSUME MicAssumption ==
    {MaxBlocks, QueueSize, PreRoll, SpeechStart, SpeechEnd, MaxChunks} \subseteq Nat \ {0}

VARIABLES captured,   \* blocks the device has delivered
          blockQueue, \* queue
          callback,   \* where the callback is
          streamOpen, \* the device calls it
          preRoll, active, speechRun, silenceRun, inSpeech,  \* of utterances()
          speech,     \* history: the blocks classified as speech
          utterance,  \* history: the last utterance yielded
          used,       \* history: blocks of the utterances before it
          emptied     \* history: blocks taken since the callback found it full

micVars == <<captured, blockQueue, callback, streamOpen, preRoll, active, speechRun,
             silenceRun, inSpeech, speech, utterance, used, emptied>>
deviceVars    == <<captured, callback, streamOpen>>
segmenterVars == <<preRoll, active, speechRun, silenceRun, inSpeech, speech,
                   utterance, used>>

Blocks == 1..MaxBlocks

MicTypeOK ==
    /\ captured \in 0..MaxBlocks
    /\ blockQueue \in Seq(Blocks) /\ Len(blockQueue) <= QueueSize
    /\ callback \in {"idle", "put", "drop", "again"}
    /\ streamOpen \in BOOLEAN /\ inSpeech \in BOOLEAN
    /\ preRoll \in Seq(Blocks) /\ Len(preRoll) <= PreRoll
    /\ active \in Seq(Blocks) /\ utterance \in Seq(Blocks)
    /\ speechRun \in 0..SpeechStart /\ silenceRun \in 0..SpeechEnd
    /\ speech \subseteq Blocks /\ used \subseteq Blocks
    /\ emptied \in 0..QueueSize

MicInit ==
    /\ captured = 0 /\ blockQueue = <<>> /\ callback = "idle" /\ streamOpen = TRUE
    /\ preRoll = <<>> /\ active = <<>>
    /\ speechRun = 0 /\ silenceRun = 0 /\ inSpeech = FALSE
    /\ speech = {} /\ utterance = <<>> /\ used = {} /\ emptied = 0

----------------------------------------------------------------------------
\* callback(): a block with a status flag is left out.
BlockArrives ==
    /\ streamOpen /\ callback = "idle" /\ captured < MaxBlocks
    /\ captured' = captured + 1
    /\ callback' \in {"put", "idle"}
    /\ UNCHANGED <<blockQueue, streamOpen, segmenterVars, emptied>>

\* queue.put_nowait(mono)
PutNowait ==
    /\ callback = "put"
    /\ IF Len(blockQueue) < QueueSize
       THEN blockQueue' = Append(blockQueue, captured) /\ callback' = "idle"
       ELSE UNCHANGED blockQueue /\ callback' = "drop"
    /\ emptied' = 0
    /\ UNCHANGED <<captured, streamOpen, segmenterVars>>

\* _ = queue.get_nowait(): raises when the reader has emptied it meanwhile.
DropOldest ==
    /\ callback = "drop"
    /\ IF blockQueue = <<>>
       THEN streamOpen' = FALSE /\ callback' = "idle" /\ UNCHANGED blockQueue
       ELSE blockQueue' = Tail(blockQueue) /\ callback' = "again" /\ UNCHANGED streamOpen
    /\ UNCHANGED <<captured, segmenterVars, emptied>>

\* queue.put_nowait(mono) again: the callback is the only one that puts.
PutAgain ==
    /\ callback = "again"
    /\ blockQueue' = Append(blockQueue, captured)
    /\ callback' = "idle"
    /\ UNCHANGED <<captured, streamOpen, segmenterVars, emptied>>

----------------------------------------------------------------------------
\* Mutant of Newest: one block too many is kept.
NewestOneMore(s, n) == SubSeq(s, IF Len(s) > n + 1 THEN Len(s) - n ELSE 1, Len(s))

\* deque(maxlen=...)
Newest(s, n) == SubSeq(s, IF Len(s) > n THEN Len(s) - n + 1 ELSE 1, Len(s))

\* Mutant of PreRollAfter: pre_roll.clear() is left out.
PreRollKept(s) == Newest(s, PreRoll)

\* An utterance over, the next begins with an empty pre-roll.
PreRollAfter(s) == <<>>

\* A block out of speech: the run that is long enough starts an utterance
\* with all of the pre-roll.
OutOfSpeech(block, isSpeech) ==
    LET run == IF isSpeech THEN speechRun + 1 ELSE 0 IN
    /\ ~inSpeech
    /\ preRoll' = Newest(Append(preRoll, block), PreRoll)
    /\ speechRun' = run
    /\ inSpeech' = (run >= SpeechStart)
    /\ active' = IF run >= SpeechStart THEN preRoll' ELSE active
    /\ silenceRun' = IF run >= SpeechStart THEN 0 ELSE silenceRun
    /\ UNCHANGED <<utterance, used>>

\* A block in speech: silence or the bound ends the utterance.
InSpeech(block, isSpeech) ==
    LET silence == IF isSpeech THEN 0 ELSE silenceRun + 1
        all     == Append(active, block)
    IN
    /\ inSpeech
    /\ IF silence >= SpeechEnd \/ Len(all) >= MaxChunks
       THEN /\ utterance' = all /\ used' = used \cup ToSet(utterance)
            /\ active' = <<>> /\ preRoll' = PreRollAfter(preRoll)
            /\ speechRun' = 0 /\ silenceRun' = 0 /\ inSpeech' = FALSE
       ELSE /\ active' = all /\ silenceRun' = silence
            /\ UNCHANGED <<utterance, used, preRoll, speechRun, inSpeech>>

\* The reader takes a block and classifies it.
ReadBlock ==
    /\ blockQueue # <<>>
    /\ blockQueue' = Tail(blockQueue)
    /\ emptied' = IF callback = "drop" THEN emptied + 1 ELSE emptied
    /\ \E isSpeech \in BOOLEAN :
          /\ speech' = IF isSpeech THEN speech \cup {Head(blockQueue)} ELSE speech
          /\ \/ OutOfSpeech(Head(blockQueue), isSpeech)
             \/ InSpeech(Head(blockQueue), isSpeech)
    /\ UNCHANGED deviceVars

DeviceNext == BlockArrives \/ PutNowait \/ DropOldest \/ PutAgain

MicNext == DeviceNext \/ ReadBlock

MicSpec == MicInit /\ [][MicNext]_micVars

----------------------------------------------------------------------------
\* What is kept of the run of speech that starts an utterance: nothing makes
\* config.py's pre-roll as long as that run.
RunKept == IF SpeechStart < PreRoll THEN SpeechStart ELSE PreRoll

\* An utterance is made of blocks in the order they were captured, none of
\* them in an earlier utterance; it begins with the whole run of speech that
\* started it, or with as much of it as the pre-roll holds; and it is no longer
\* than the bound allows.
WholeUtterance ==
    utterance # <<>> =>
      /\ \A i, j \in DOMAIN utterance : i < j => utterance[i] < utterance[j]
      /\ ToSet(utterance) \cap used = {}
      /\ \E start \in 1..(PreRoll - RunKept + 1) :
            \A i \in start..(start + RunKept - 1) : utterance[i] \in speech
      /\ Len(utterance) <= IF MaxChunks > PreRoll + 1 THEN MaxChunks ELSE PreRoll + 1

\* A lagging reader costs the oldest blocks and never the stream, unless it
\* takes a full queue's blocks while the callback is between two calls.
StreamSurvives == streamOpen \/ emptied = QueueSize

\* What is transcribed is what was said, and capture goes on.
UtteranceIsWhole == WholeUtterance /\ StreamSurvives
=============================================================================
