----------------------------- MODULE InterimPreview -----------------------------
(***************************************************************************)
(* wake/live_preview.py, InterimWakePreview: workers that transcribe the   *)
(* speech heard so far and report the wake phrase before the speaker       *)
(* pauses.  Each action is one region under the preview's lock, or one     *)
(* step of a worker; the speech-to-text lock and what the report does      *)
(* belong to the module that composes this one.                            *)
(***************************************************************************)
EXTENDS Integers

CONSTANTS Workers,       \* bound: the worker threads alive at once
          MaxUtterances  \* bound: the utterances heard

ASSUME PreviewAssumption == MaxUtterances \in Nat \ {0}

VARIABLES utterance,  \* _utterance_id
          chunks,     \* _chunks is not empty: speech is being captured
          running,    \* _worker_running
          detected,   \* _detected
          worker,     \* each worker's place and the utterance it works for
          reports     \* history: how often each utterance has been reported

previewVars == <<utterance, chunks, running, detected, worker, reports>>

Utterances == 0..(2 * MaxUtterances)

WorkerPlaces == {"off", "queued", "transcribing", "reporting"}

Worker == [at : WorkerPlaces, utterance : Utterances]

PreviewTypeOK ==
    /\ utterance \in Utterances
    /\ chunks \in BOOLEAN /\ running \in BOOLEAN /\ detected \in BOOLEAN
    /\ worker \in [Workers -> Worker]
    /\ reports \in [Utterances -> Nat]

Off == [at |-> "off", utterance |-> 0]

PreviewInit ==
    /\ utterance = 0
    /\ chunks = FALSE /\ running = FALSE /\ detected = FALSE
    /\ worker = [w \in Workers |-> Off]
    /\ reports = [u \in Utterances |-> 0]

At(w, place) == worker[w].at = place

\* _maybe_schedule: too little speech, too early, or a new worker; one that
\* calls this as its last act has left its place.
MaybeSchedule(id, current, spoken, free) ==
    \/ running' = free.running /\ worker' = free.worker
    \/ /\ ~detected' /\ ~free.running /\ id = current /\ spoken
       /\ \E w \in Workers :
             /\ free.worker[w].at = "off"
             /\ worker' = [free.worker EXCEPT
                             ![w] = [at |-> "queued", utterance |-> id]]
       /\ running' = TRUE

\* start(): a new utterance.  A worker of an older one may still run.
PreviewStart ==
    /\ utterance + 1 < 2 * MaxUtterances
    /\ utterance' = utterance + 1
    /\ chunks' = TRUE
    /\ detected' = FALSE
    /\ UNCHANGED reports
    /\ MaybeSchedule(utterance + 1, utterance + 1, TRUE,
                     [running |-> FALSE, worker |-> worker])

\* add_chunk(): more speech.
PreviewAdd ==
    /\ chunks
    /\ UNCHANGED <<utterance, chunks, detected, reports>>
    /\ MaybeSchedule(utterance, utterance, TRUE,
                     [running |-> running, worker |-> worker])

\* finish(): the speaker pauses.
PreviewFinish ==
    /\ utterance' = utterance + 1
    /\ chunks' = FALSE
    /\ UNCHANGED <<running, detected, worker, reports>>

\* _run_snapshot(): the worker has the speech-to-text lock.
WorkerTranscribes(w) ==
    /\ At(w, "queued")
    /\ worker' = [worker EXCEPT ![w].at = "transcribing"]
    /\ UNCHANGED <<utterance, chunks, running, detected, reports>>

\* finally: _worker_running is cleared, whoever set it, and the next snapshot
\* may be due.
Ends(w) ==
    MaybeSchedule(worker[w].utterance, utterance, chunks,
                  [running |-> FALSE, worker |-> [worker EXCEPT ![w] = Off]])

\* Mutant of Stale: it is not asked whether the utterance has been reported.
StaleOnlyById(w) == worker[w].utterance # utterance

\* utterance_id != self._utterance_id or self._detected
Stale(w) == worker[w].utterance # utterance \/ detected

\* No text or no wake phrase, or too late to report; or the transcription raised.
WorkerHearsNothing(w) ==
    /\ At(w, "transcribing")
    /\ UNCHANGED <<utterance, chunks, detected, reports>>
    /\ Ends(w)

WorkerHearsWake(w) ==
    /\ At(w, "transcribing") /\ ~Stale(w)
    /\ detected' = TRUE
    /\ worker' = [worker EXCEPT ![w].at = "reporting"]
    /\ reports' = [reports EXCEPT ![worker[w].utterance] = @ + 1]
    /\ UNCHANGED <<utterance, chunks, running>>

\* on_wake_detected has returned.
WorkerReported(w) ==
    /\ At(w, "reporting")
    /\ UNCHANGED <<utterance, chunks, detected, reports>>
    /\ Ends(w)

----------------------------------------------------------------------------
(* Properties.                                                             *)

\* However many workers listen to one utterance, at once or one after the
\* other, and however late, on_wake_detected is called for it once.  There can
\* be two at once: start() clears _worker_running, and so does the worker of an
\* older utterance when it ends.
OneReportPerUtterance == \A u \in Utterances : reports[u] <= 1
=============================================================================
