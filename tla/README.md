# TLA+ models of WhisperToMe

WhisperToMe is a voice assistant that runs on one machine: it listens for a wake
phrase, transcribes what follows, asks a language model, speaks the answer, and
can be interrupted while it speaks.  A scheduler fires stored events in the
background.  This directory holds TLA+ models of the parts whose correctness
depends on order - threads, processes that share a database, timeouts,
interruptions - with the TLC runs that check them and the TLAPS proofs that
extend some of the results to every size of the system.

Paths below are relative to `src/src/whispertome/` unless they begin with `src/`.

## 1. The system

One process runs `run_wake_loop` (`cli.py`).  Its threads and what they share:

    microphone --> segmenter --> wake loop ("main") --> router --> turn
                      |              |                               |
                      |              | stop file, Ctrl+C             | player threads,
                      v              v                               v playback monitor
               interim preview    turn lock  <---- scheduler thread ---- organizer.db
               (worker threads)      ^                               (other processes too)
                      |              |
                      v          compaction thread
               background audio ducker (lowered by all, restored by main)

The desktop host (`desktop/host.py`) is a second process: it starts the loop as a
child, stops it through a stop file, and is told when to show and hide its window
through two more files.  The turn lock is the one thing all talk to the model goes
through: a turn, a compaction and a scheduled fire each take it.

### Components

| Component | State | Operations | What makes it correct |
|---|---|---|---|
| scheduler thread `scheduler/scheduler.py` | `_stop`, `_pending_wake`, the local due list, the event in hand | `start`, `_run`, `_fire_due`, `_fire`, `_sleep_seconds`, `wake`, `stop` | a slot fires at most once, never early; a due event is served; a fire ends; no wake-up is lost |
| scheduled events store `organizer/store.py` 1346-1520 | the `scheduled_events` table | insert, cancel, due query, claim, complete, reschedule, fail, recover | a claim is exclusive, a row is never left `firing` unseen, `fire_count` counts |
| scheduler tools `scheduler/tools.py` | none | schedule, cancel, list | their writes mix with the loop's without breaking either |
| recurrence rules `scheduler/recurrence.py` | none | `next_recurrence` | the first occurrence strictly after "now" on the local clock |
| action executor `scheduler/executor.py` | the outputs so far | a step with a watchdog | a late worker does no harm after the turn lock is released |
| wake loop `cli.py` | place, count, queued command, locks | listen, transcribe, turn, barge-in, leave | one voice, one reader of the microphone, a barge-in is the next turn, a stop is honoured |
| background audio ducker `system/windows.py` | `_snapshots` | `duck`, `restore` | every volume comes back |
| interim preview `wake/live_preview.py` | `_utterance_id`, `_chunks`, `_worker_running`, `_detected` | `start`, `add_chunk`, `finish`, workers | one report for one utterance |
| playback monitor `wake/interruptions.py` | `_stop_event`, `interrupt_event`, `_result` | `start`, `stop`, its thread | a cut has a cause; no reader outlives its turn |
| wake command router `wake/router.py` | `_awaiting_command` | `process_utterance` | the command after a bare wake phrase is taken |
| utterance segmenter `audio/vad.py` | counters of voiced and silent blocks | `utterances` and its callbacks | start and end callbacks alternate; an utterance has a longest length |
| streaming player `tts/streaming.py` | two queues, two threads, `_closed`, `_interrupted` | `enqueue_text`, `finish`, `cancel` | chunks play in order and without a gap; `finish` returns; what is cut stays cut |
| conversation compaction `llm/compaction.py`, `llm/conversation_tools.py` | `_last_activity`, `_turns_since_compact` | `note_turn`, the idle thread, the usage trigger, `_compact` | one request at a time; what was said survives in the summary; an idle conversation is compacted |
| responders `llm/openai_responses.py`, `llm/cerebras_chat.py` | the last response id or the history, the summary, a pending reset | `generate` with rounds of tool calls, `reset_conversation`, `compact_conversation` | a reset forgets what it was meant to and an answered turn is remembered |
| agent tool loop `agent/tools.py` | a flag while a tool runs | `execute` | a tool that raises, or is unknown, is an answer to the model |
| desktop host `desktop/host.py` | child, `_stop_requested`, deadline, signal files, visibility | start, stop, poll, drain, hide, show | a stop ends the child and the window; the window is as it was last asked to be |
| secret vault `security/vault.py`, `onboarding.py` | `vault_meta`, `secrets`, `.env`, the environment | set-up, unlock, securing of `.env`, `change_password` | a key that was entrusted is in one place or the other; "ready" means there is a key |
| organizer store `organizer/store.py`, the rest, and `organizer/tools.py` | tasks, notes, lists, plans, people, preferences; the migration marker | one method per tool, of one or two statements | what a reply reports is stored whole; nothing is undone; a listing leaves nothing out unsaid |
| microphone capture `audio/capture.py` | a queue of 32 blocks | callback, `chunks` | a slow reader costs the oldest blocks, not the stream |
| text chunking `text/streaming.py`, `text/markdown.py` | the text so far, what was spoken | `push`, `finish` | the answer is spoken once, in order, whole, without its code |
| event bus `runtime/events.py` | queue, dispatcher | `publish`, `start`, `stop` | not modelled, see section 5 |
| Windows controls `system/windows.py`, `system/tools.py` | the volume, the brightness, the host's window (all of them Windows') | set, change, capture the desktop | changes add up; displays agree; a picture leaves the assistant out, and its window comes back |
| models, ONNX sessions, terminal, configuration, pipeline | little or none | calls | not modelled, see section 5 |

### What is hard to test

- Two processes on one database: the claim is a compare-and-set, the cancel and
  the recovery are not.
- A due list is a copy: every element may be stale when its turn comes.
- The wall clock is read twice in one fire, and may be corrected in between; the wait
  of the loop is counted from the wall clock and runs on a monotonic one.
- Four kinds of thread lower the background audio, one restores it, and the
  restore writes after it has let go of the lock.
- The monitor of a turn may outlive the three seconds `stop()` gives it.
- The player, the monitor and the turn race at the end of every answer.
- Ctrl+C unwinds through the `finally` clauses while the threads go on.
- A step of the scheduler that has timed out goes on in its worker: it resets the
  conversation, or writes to the database, under the turn that runs by then.
- A tool that resets the conversation only sets a flag; the flag acts when the
  response ends, and stays when the response fails.
- A stream may end without the event that carries its id; a model asked for a
  summary may store one itself and answer with an acknowledgement.
- The idle thread decides before it has the turn lock, and settles its counter after it
  has released it.
- A streamed answer is cut where a delta happens to end, and two parsers with different
  ideas of a fence decide what of it is code.
- Some methods of the organizer read in one statement and write in another, under a
  lock of their own process only.
- `.env` is emptied before it is written; a set-up and a change of the password have
  several transactions; any of them can be the last.
- The host looks at its signal files by their times of change, and deletes a command
  after it has read it; `taskkill` may take longer than the time it is given.
- The tools that change the volume, the brightness or the window take no lock: a late
  worker, the user, the host or a second capture comes between a read and its write.

`PROJECT.json` lists each at its line, with the properties aimed at it.

## 2. Modules

| Module | Models | Composes |
|---|---|---|
| `EventLedger` | what the scheduler promises about each event (abstract) | |
| `SchedulerStore` | the statements on `scheduled_events` | |
| `SchedulerThread` | the loop, `_fire`, tools, process death, the clock; properties | extends `SchedulerStore`, instantiates `EventLedger` |
| `MCSchedulerThread` | symmetry of the processes | `SchedulerThread` |
| `SchedulerProofs` | theorems | `SchedulerThread` |
| `Recurrence` | `next_recurrence` and the chain of slots | |
| `RecurrenceProofs` | theorems | `Recurrence` |
| `AudioDucker` | `duck` and `restore` | |
| `InterimPreview` | the preview and its workers | |
| `PlaybackMonitor` | the monitor of each turn | |
| `WakeLoop` | the loop and the turn, with all threads | the three above |
| `MCWakeLoop` | symmetry of the preview workers | `WakeLoop` |
| `WakeLoopProofs` | theorems | `WakeLoop` |
| `TurnMemory` | what a conversation promises to remember and to forget (abstract) | |
| `Conversation` | responders, tool loop, conversation tools, compaction | instantiates `TurnMemory` |
| `ConversationProofs` | theorems | `Conversation` |
| `OrganizerStore` | the statements on the other tables, the migration, the listings | |
| `OrganizerTools` | the tools in two processes, a late worker, process death | extends `OrganizerStore` |
| `OrganizerProofs` | theorems | `OrganizerTools` |
| `SpokenAnswer` | what a player promises about one answer (abstract) | |
| `StreamingPlayer` | the two queues and threads of the player | instantiates `SpokenAnswer` |
| `TextChunker` | what of a streamed answer is spoken | |
| `MicInput` | the capture queue and the segmenter that reads it | |
| `AudioProofs` | theorems | `StreamingPlayer`, `TextChunker`, `MicInput` |
| `Credentials` | the API keys in `.env` and in the vault, across runs | |
| `DesktopHost` | the window, the child process and the files between them | |
| `SystemControls` | the volume, the brightness and the picture of the desktop | |
| `HostProofs` | theorems | `Credentials`, `DesktopHost`, `SystemControls` |
| `Parts` | one run of seven components, side by side | `OrganizerTools` to `SystemControls` |
| `PartsProofs` | theorems | `Parts`, by those of its components |

### Scheduler

`row` is the table: status, trigger, `next_fire_at`, lease and `fire_count` of each
event, and nothing of title or payload.  Each operator of `SchedulerStore` is one
statement as committed.  The store's `RLock` orders the threads of one process
only, so processes interleave between statements; `cancel_scheduled_event`, which
reads and then updates by id, is two steps (`CancelRead`, `CancelWrite`), and the
other threads of its process are kept out of the store in between (`StoreFree`).

`pc[p]` is the line the scheduler thread of process `p` is about to run; `due[p]` is
the copy of the due rows it works through, `cur[p]`, `nxt[p]`, `ok[p]` the locals of
`_fire`.  `stop`, `wake` and `left` are the condition variable's side: `_stop`,
`_pending_wake` and the timeout that is left.  `Tick` is time that both clocks see;
`SetBack` and `SetForward` move the wall clock alone, and `jumped[p]` is what it has leapt
forward since the last peek of `p`.  `turn[p]` is the process's turn lock,
held by a fire or by a live turn, whose tools add and cancel events and then call
`on_change`, which wakes the loop.  `ProcessEnds` is a crash, or the end of a
stopped process while its daemon thread is still at work: memory goes, rows stay.
`claimed` is a history variable, the slots ever claimed.

The next slot is `now` plus any period of `Periods`: `next_recurrence` lands
strictly after the instant it is given, which `Recurrence` checks on the rules
themselves.  There, time is whole hours, a rule is a record, and the local clock is
UTC plus an offset that changes once.

### Wake loop

`main` is where the loop is.  The steps are the code's lock regions and waits: a
block in which nothing another thread can see happens is one step.  A turn
(`BeginTurn` ... `Settle`) is `run_command_turn_safe`: the turn lock, the count, the
ducking, the monitor and the player, the model's answer (streamed: it plays
from the start; not streamed: it is synthesized whole, then played), the join of the
monitor, the restore, the queued command, the release of the lock.  `AfterTurn` is
the code after the call: stop file, quit, queued command, limit.  What the user
says, what the transcription and the router make of it, how long anything takes,
and whether the voice fails are choices.

`PlaybackMonitor` has an instance of its state per turn, since an old monitor may
still transcribe during the next turns.  `InterimPreview` has a set of worker
threads; `start()` clears `_worker_running` whoever set it, so there can be several.
`AudioDucker` keeps `user`, the volume the user set, beside `volume` and
`_snapshots`; `spoiled` remembers that a duck overlapped a restore or a call failed.
`FireSpeaks` and `FireEnds` stand for `LockTurn` and `RunAction` of `SchedulerThread`.

Reading the code this way assumes, and names:

- The microphone delivers a block every few tens of milliseconds, so a stopped
  monitor never sits in a read for the three seconds of `stop()`.  A microphone that
  stalls without failing is not modelled.
- Nobody but the ducker changes the volumes, and there is a speaker (playback on).
- Ctrl+C arrives at one of the waits of the loop, not inside a `restore()` or a
  join; display code does not raise, so a turn fails in the model's voice only.
- `duck()` is one step: only the writes of a `restore()` fall within it, one session
  each, and each leaves what it would have left before or after.

### Conversation

A turn is its number.  `memory` is the set of turns behind `_last_response_id`, or in
`_history` (`provider` says which responder was built), `summary` the turns that
`_conversation_summary` stands for, `pending` the reset that waits for the end of a
response.  `req[th]` is the request a thread has out: what it was chained to, what the
model was shown, how many rounds of tools it has had, and what its own tools did to the
conversation.  A response is text, a call of one tool (`parallel_tool_calls` is off) or
an error.  `pc` has the wake loop and the idle thread; the scheduler is `step`, one
tool call that starts a new chat, in its fire or later without it.  `turnLock` is
re-entrant for the wake loop, which compacts inside its own turn when the token count
of an answer passes the trigger - a count only the OpenAI responder reports.

`said`, `old`, `lost` and the rest are history variables.  `lost` keeps the answered
turns that are forgotten although nobody asked for it, by reason:

- `unlinked`: the stream ended without `response.completed`, so there is a text and no id
  (`llm/openai_responses.py:299`);
- `leftover`: an earlier request failed after one of its tools had reset the
  conversation; the flag it left takes this turn (`llm/openai_responses.py:155`);
- `echo`: asked for a summary, the model called `conversation_compact` itself, and its
  acknowledgement replaced that summary (`llm/conversation_tools.py:57`).

A summary is taken to stand for all the model was shown when it wrote it.

`TurnMemory` is the same conversation without response ids, histories, summaries, rounds
of tools and threads' places: how many turns were asked, the requests out, the turns the
next request will be shown, and those that a reset has forgotten.  `ImplementsMemory` maps
`memory` and `summary` together to what is known (`Known`: a compaction leaves it as it is),
and a thread that waits for the model to its request (`RequestsOut`).  A pending reset maps
to nothing: the turns are forgotten when the tool is called.  What `lost` names by reason appears as
an `End` that teaches nothing or, for `echo`, as a summary that the model has
`condensed` already.

### The parts

`Parts` chooses one component at the start and moves only that one.  They share no
state, so the behaviours of each are its own, and one run does for seven; their union is
checked, not their product.

*Organizer.*  All tables are one function from ids to rows.  A tool of one statement is
one action; a tool of two (complete, append, a note on a person, a preference) is two,
with what it has read in `call[t]` and the store's `RLock` in `holder`.  The threads are
a turn, a late worker of the same process, and another process; a process may die
between any two statements and start again, which migrates `store.json` if the marker is
not set.  A write may raise.  Listings are operators: the sets a method may return, for
any order of the rows.

*Player.*  `textQueue` and `audioQueue` are the two queues, with their sentinel;
`synthesizing` and `playing` are what the two threads have in hand.  The caller streams
texts and then calls `finish()` or `cancel()`; the interrupt event is set at any time.
`SpokenAnswer` is the same answer without queues, sentinels and synthesis: a voice that
is silent, speaks the next piece or is gone, and a caller who is told that the answer was
heard whole, was cut, or failed.  `ImplementsAnswer` maps the playback thread to the voice
(`Voice`) and the caller, with `_interrupted`, to the stage (`Stage`).  `SaidInFull` follows
from it, by `AnswerPromisesAll`, and is not checked a second time.

*Chunker.*  A text is a sequence of tokens: words, marks that end sentences, white space with
and without the end of a line, fences, and a place where code begins without a fence.  A
delta is any few of them, so it may end inside a number ("3." and then "50"), in front of a
space or behind a fence.  What is spoken is a string of words and marks, named by their
positions, with spaces in front of some: `_emitted_spoken` joins its chunks with a space
whether the answer has one there or not (`spaced`), and `finish()` compares both (`StartsWith`).
The two parsers are two definitions: for `push()` every fence opens or closes (`Outside`),
for `finish()` one opens a block only if its line ends before the next fence (`Opens`).
`push` and `finish` are the two actions.

*Microphone.*  The callback is three steps, since the reader takes blocks between its
calls.  `ReadBlock` is one turn of the loop of `utterances()`.

*Credentials.*  `setupAt` is the place between two writes; `ProcessEnds` may come at each.
`page` is the text of `.env` while the file is empty.  Keys are names of providers.

*Desktop host.*  Each Tk callback is an action, since it runs to its end; the child, the
reader of its output, the grace period and the files are beside it.  The child may
ignore every request.

*System controls.*  `tool[t]` is the call a thread is in, with what it has read; the threads
are a turn and a late worker, and the user and the host act at any time.  A relative change
of the volume is a read and a write; a change of the brightness writes one display after
the other in a process that may be killed; a capture finds, hides, grabs and shows.  `stale`
marks a call that someone has come between, and `wantedVolume`, `even`, `wishShown` are
histories: what the changes add up to, the value all displays were given, and what the host
last did with its window.  `ControlsSettle` has four parts, each of which says what holds
without a lock, and when it does not: a change of the volume is lost only to one that comes
between its read and its write; the displays agree after a change that nobody interrupts; a
picture shows the assistant only if the host or another capture shows the window before it
is taken; the window stays as the host wants it unless the host hides it, or the process
dies, during a capture, or Windows does not show it.

## 3. Runs

| Run | Instance | States | What it shows |
|---|---|---|---|
| `fire_two_processes` | 1 event, 2 processes with a user in each, clock 0..1, one crash, one failing store call | 4 067 624 | types, exclusive fire, no lost fire, no early fire, slots move forward, `fire_count`, and that the whole implements `EventLedger` |
| `fire_liveness` | 1 process, 2 events (one action refused by the parser), passes of 1, clock 0..1, one correction, back or forward | 503 908 | no wake-up lost: a pending slot is overslept by a leap of the clock only; a due event served, a fire ends |
| `fire_double` (violated) | 1 event, 1 process, one clock correction | | a slot fires twice although the claim "makes double-fire impossible" |
| `fire_live_recovery` (violated) | 1 event, 2 processes | | a starting process recovers the row of a thread that is alive |
| `recurrence` | daily, weekly and interval rules over three weeks, shift forward, back or none, up to 25 h late | 16 416 | the next slot is the first occurrence; a shift moves only the slot already computed |
| `recurrence_dst` (violated) | one daily, one weekly rule, one shift | | the slot across the shift is an hour off |
| `wake_loop` | 2 utterances, 2 workers, 3 turns, limit 2, one fire, faults, Ctrl+C, stop | 6 729 890 | one voice, one reader, cuts have causes, the limit, one report, barge-in is next |
| `wake_liveness` | 1 utterance, 2 sessions quiet or loud, one failing volume call, 2 turns, one fire | 329 388 | exact volumes unless spoiled; a stop ends the loop; an accepted command gets its turn |
| `wake_barge_in` (violated) | 1 utterance, 1 session, 3 turns, limit 2, no failures | | a command heard over the end of an answer is dropped |
| `conversation` | 2 turns, 2 rounds of tools, 1 scheduled step, either provider | 231 078 | one request at a time, answers are kept but for three reasons, a stale flag costs one turn, an idle conversation is compacted, and the whole implements `TurnMemory`: among the rest, resets forget |
| `chunker_tail` (violated) | 6 tokens, deltas of up to 4 | | the rest of an answer without any code is lost |
| `parts` | see below | 1 253 854 | the properties of the seven parts, that the player implements `SpokenAnswer`, and that `finish()` and a closing window end |

The violated runs are the findings of `PROJECT.json`; each checks one sentence of a
doc or a comment against the code:

- *Double fire.*  `_fire` takes the next slot from a second reading of the clock
  (`scheduler.py:192`).  If the clock was set back during the action, the slot just
  fired is the next one again, and the claim has no memory of it.
- *Live recovery.*  `start()` marks every `firing` row `needs_review`.  A second
  process starting while the first speaks takes its row; the first one's reschedule
  then changes nothing, and a recurring event stops recurring.
- *DST.*  `astimezone()` attaches a fixed offset, so days are added in the offset of
  the starting instant.
- *Barge-in.*  A command is queued only if it cut the playback.  Heard while the
  last words play and transcribed after them, it is forgotten.
- *Tail.*  After the deltas "It costs 3." and "50 today. Anything else" the chunks spoken are
  "It costs 3." and "50 today."; joined with a space they are no beginning of the answer, and
  `finish()` (`text/streaming.py:40`) drops the rest.

Remarks without a run of their own:

- `research/journey.md` (line 439) promises an exact restore.  `ExactUnlessSpoiled` and its
  theorem say precisely when that holds: unless a duck comes while a restore is writing, or a
  volume call fails.
- A store call of `_fire` that raises ends the scheduler thread (`FireRaises`: `scheduler.py`
  guards the due query and the peek only).  `FiringIsHeld` and `ImplementsLedger` hold all the
  same: the next start recovers its row.
- `_compact` sets its counter to zero after it has released the turn lock
  (`llm/compaction.py:117`), and decides before it has it (98).  A turn noted in between is no
  longer counted, or is compacted at once.  `IdleCompacts` is about the counter.
- `push()` leaves out fenced code only.  Code without a fence is looked for in `finish()`; what
  of it was spoken by then is an exception in `SpokenText` (`SpokePast`).

### Bounds, and why they are enough

- One event and two processes: no statement touches two events except the recovery,
  and two claimants are what a compare-and-set is about.  Two events matter to the
  order and the limit of a pass, which `fire_liveness` covers.  One crash gives an
  orphan and its recovery.  The theorems remove these bounds for safety.
- The clock has two or three values: a slot is before, at or after it.
- One correction of the clock, either way (`Corrections`, `MaxCorrections`): a wait of one is
  overslept when the clock leaps by one.  The other passing run has none, since its properties
  are those of a clock that is not set back; the theorems allow any leaps forward.
- Two utterances and two workers: a worker of the utterance before, and its
  successor.  Three turns with a limit of two: a barge-in under and at the limit.
- `2 * MaxUtterances` bounds `_utterance_id`, which counts both starts and finishes.
- `MaxLate` of 25 hours skips a whole day; three weeks hold
  slots of a weekly rule on each side of the shift.
- Two turns in `conversation`: one that resets or is forgotten, and one that must not
  pay for it, or must.  Two rounds: a tool that resets and one that condenses, in either
  order.  The theorems remove all three bounds.
- `parts`, organizer: two texts, one legacy item, two rows added by users, one death: two
  processes that add a preference of the same key, a migration that comes twice, and a
  completion in between.  The window of a listing is 2 rows per row wanted (4 in the
  code), so that five rows can exceed it.
- `parts`, the others: three texts in the player (one heard, one in hand, one queued);
  seven tokens in deltas of up to two (a fence, its line, a word, the closing fence, and what
  is in front of it or behind it; the finding needs deltas of up to four); seven
  blocks, a queue of two and utterances of at most four (two utterances, a pre-roll cut
  off by its length); two providers and three attempts; one window; two displays, a scale
  of two values and changes by at most one (a change that is clamped and one that is not).
- Deadlock is checked in all runs but `Recurrence`'s, whose chain ends at `Horizon`, and
  those of `Conversation`, `TextChunker` and `Parts`, where turns, tokens, texts, blocks and
  rows run out and a window that is closed does nothing more.

### Fairness

`FairSpec` of `SchedulerThread`: strong fairness on the loop, on `_fire` and on the
end of a live turn, since each waits for a lock that is free again and again (a
cancel holds the store for one statement; a turn makes a bounded number of rounds);
weak fairness on the write after a read and on `on_change`; time passes.  Nothing
obliges a user to speak, a process to start or to crash, or a clock to be corrected.

`FairSpec` of `WakeLoop`: weak fairness on each thread's own steps - the main thread,
the player, each worker, each monitor, the scheduler.  Threads are scheduled, blocks
arrive, and every utterance has a longest length (`max_utterance_ms`), so `SpeechEnds`
is the main thread's.  There is none on speech starting, on Ctrl+C or on the stop.
`FireSpeaks` is fair because a waiting fire takes a free lock; `MaxFires` bounds how
often it competes with a turn, so that a turn's wait for the lock is finite: Python's
locks are not fair, and with an unbounded supply of due events nothing in the code
rules out that a turn waits for ever.

`ConvSpec`: weak fairness on the wake loop once a turn is under way, on the idle thread, on
the worker of a scheduled step and on time.  A request ends, because the clients have a
timeout and the rounds a limit; nobody need speak.  A compaction that fails is not an error to
`_compact`: `auto_compact` then resets, so the idle trigger does not stay due.

`PlayerFairness`: weak fairness on each of the two threads and on the joins; synthesis
and playback of one chunk end.  `HostFairness`: timers fire (weak), and of the
callbacks that race (strong) the poll gets its turn; a kill that is tried again and again
succeeds or raises (`KillRaises`, which is why `EndsWhenAsked` excepts it).

## 4. Proofs

All theorems hold for every value of the constants that the named assumptions
(`StoreAssumption` of `SchedulerStore` and of `OrganizerStore`, `ThreadAssumption`,
`RecurrenceAssumption`, `DuckerAssumption`, `PreviewAssumption`, `MonitorAssumption`,
`LoopAssumption`, `ConversationAssumption`, `ToolsAssumption`, `PlayerAssumption`,
`ChunkerAssumption`, `MicAssumption`, `CredentialsAssumption`, `ControlsAssumption`) allow.
`MicAssumption` asks for sizes that are positive and for nothing between them: `config.py`
reads them from the environment one by one.  No other fact is assumed, except where a theorem
of `SchedulerProofs` says so: four have `ASSUME NeverSetBack`, the wall clock is never set
back (forward it may be), and `NoWakeupLost` has one process and no failing call of the store.

**`SchedulerProofs`, first part** - for any clock.
`TypeCorrect` is by induction, one step per action.  `NoTwoFirers` (`OneFirerPerEvent`) and
`NoLostFire` (`FiringIsHeld`) are inductive only together (`Holding`): a claim needs
the first to know that nobody else is in the event's fire, the end of a fire needs
the second to know whose row it releases.  The first lets the row be over, because a
cancel or the recovery of another process may end it under a thread that fires.

**`SchedulerProofs`, second part** - for a clock that is not set back.
`Steps` sums up every action in two lists: how a step may write the table
(`TableStep`), and where the locals of the threads come from (`LocalStep`).
`Forward` is the invariant: a copied slot has come (`due`, `cur`), a computed one is
later than all that were fired (`nxt`), a cancel in progress has read a row that is
there, and the two properties themselves.  It needs `Holding`: when a claim adds a slot,
no other thread may be between `clock` and `reschedule` with the same event.
From it follow `NeverEarly`, `OnlyForward`, `CountsEveryFire` (with the finiteness of
the slots fired) and `KeepsTheLedger`: the refinement of `EventLedger`, where a claim is
`Take`, a reschedule `PutBack`, an insert `Create`, and a cancel, a settlement or a
recovery is `Finish` or, on rows that are over, a stutter.  The hypothesis is
necessary: `fire_double` is the counterexample without it.

`NoWakeupLost` (`NoOversleep`) is about any corrections of the clock, back and forward, and
any deaths: a slot may be overslept by what the wall clock has leapt forward since the peek
(`jumped`), and by nothing else, and never by more than a wait is long (`MaxSleep`, in
`TypeOK`).  `Attentive` extends the property back over the decision to wait: from its peek on,
a loop that nobody has told to look again has a timeout that ends no later than any pending
slot.  The property alone is not inductive, since a row added between the peek and the wait is
seen by nobody but `_pending_wake`. Both hypotheses are necessary: `on_change` does not reach
another process, and after a peek that fails the loop sleeps for its whole interval.

**`RecurrenceProofs`** - for any rules, delays, offsets and instant of the shift.  The
invariant (`ChainInv`) is only that the slot is what `next_recurrence` returned; the work is
in the lemmas: the loop ends within eight days (`SomeDayIsFirst`, by the seven days of a
week), what it returns is day and hour on the local clock as it stood (`NextIs`,
`SlotOnClock`), and an earlier occurrence would be a day that the loop refused.
`NoOccurrenceSkipped` and `OffByNothingElse` state `FirstOccurrence` and `OffByTheShift`.

**`WakeLoopProofs`** - for any number of turns, utterances, workers, sessions, fires.
`Inv` has a part per shared resource:

| Part | Says | For |
|---|---|---|
| `LockHeld` | who has the turn lock, who speaks and where the loop is agree; the player plays only where the answer is audible, or after Ctrl+C | `TurnLockKeepsOneVoice` |
| `CommandsLeft` | whoever listens for a command has one left | `LimitHolds` |
| `Begun` | where the loop speaks a turn has begun | all that index by `count` |
| `MonitorsStopped` | a monitor at work belongs to the audible answer or has been told to stop, and only `stop()` may find it reading | `MicIsSafe` |
| `ResultFirst` | the interrupt event is raised after its result is kept | `CutHasCause` |
| `QueueKept` | the turn that is over knows what cut it | `BargeInTakesTurn` |
| `Remembered` | what the ducker remembers is what the user set | `VolumesKept` |
| `ReportedOnce` | an utterance to come has no report, nor has the present one unless `_detected` is set | `ReportsOnce` |

**`ConversationProofs`** - for any number of turns, rounds and scheduled steps.

- `TypeIsKept`: `TypeInv` is the type invariant and what bounds the counters (`Bounded`).
- `ConversationIsOne`: `LockInv` adds that whoever is at a place that needs the turn lock
  has it (`Locks`), and that the flag of a tool call is up exactly in one (`ToolFlag`).
- `ResetForgets` and `AnswersAreKept` share `MemoryInv`: the turns before the last
  reset have been asked (`Dated`), a pending reset has emptied the memory (`Emptied`), and `Remembers`:
  beside the two properties, what is due of each request under way (`Sound(th)`: the
  model was shown all that is remembered, what the request is chained to is not older
  than the reset, unless the pending flag will keep it out).  Neither property is inductive
  without it, since an answer writes what its request has read rounds before.
- `FlagCostsOne` is an account: `Left`, the turns a leftover flag has taken, and one
  more while such a flag is waiting (`Stray`), are no more than the failed requests
  that left one.
- `ConversationRemembers` is the refinement of `TurnMemory`. Rounds, waits and the steps of
  the clock map to stutters. `RecallInv` adds to `MemoryInv` that only a request for a
  summary waits to be applied (`Asking`), and that a request which no tool of its own has
  reset was shown nothing but what is known, and its own turn if it has one (`Recalls`, of
  each request `Exact`). `Sound(th)`, in `MemoryInv`, is the converse; together they say
  that a summary changes nothing and that an answer adds one turn.
- `MemoryStaysForgotten`: `NextTurnFresh` follows from `ImplementsMemory`, so the run does not
  check it a second time.

`ImplementsMemory`, `KeepsWhatWasSaid` and `ForgetsAtMostOne` except a scheduled step that
resets, out of time and without the lock, under a request (`crossed`; `Disturbed` in
`TurnMemory`): then each can fail.

**`OrganizerProofs`** - for any rows, texts, legacy items and deaths.  One invariant,
`OrganizerInv`, carries four theorems:

| Part | Says | For |
|---|---|---|
| `RowsOK` | ids are given one after the other (`IdsInUse`), a key has one preference (`KeysUnique`), a legacy id is in its table | a new id is free, so an insert undoes nothing |
| `AckedOK` | what was reported is there, a checklist with its items | `StoreIsWhole` |
| `CallsHold`, `Knows(t)` | a call between its two statements holds the lock of its process, and the row it found is there, in its table | `NothingIsUndone`: a completion acts on the row it read |
| `NotesKnown` | a call that adds a note has read all notes of its own process, and what it has read of the other process's is there still or known to that process's call | `StoreIsWhole`: a note is lost only across processes |
| `RestOK` | the marker is set after the legacy rows are in | `StoreIsWhole` |

`NotesKnown` is the part a proof cannot do without: the notes column is written whole, from
what was read before, and only the lock of one process stands between two such calls.
`ListingsAreComplete` is a count: of more rows than were fetched nothing is claimed, of fewer
all are in the window.

**`AudioProofs`** - for any number of texts (`AnswerIsSaid`), and any sizes of the queue and
of the runs of blocks (`SpeechIsWhole`).  `PlayerInv` follows the texts through both queues:
what has been played, what is in hand and what waits follow each other (`InOrder`), none is
missing until somebody interrupts (`NoneMissing`), the sentinel comes last and is followed by
nothing that can still be heard (`TextsEnd`, `AllSaid`), and what can be heard after
`cancel()` was there before it (`CutThere`).  `MicInv` says the same of blocks, of which some
are dropped: those in the queue, those held and those yielded are in order (`BlocksInOrder`),
the run of speech that will start, or has started, an utterance is held, or as much of it as
the pre-roll takes (`SpeechHeld`, `RunKept`), and a stream that broke had its queue emptied
between two calls of one callback (`CallbackAt`).

`PlayerSpeaksTheAnswer` is the refinement of `SpokenAnswer`.  The synthesis maps to stutters,
but for its error; taking a piece maps to `Begin` or `Leave`, and which of its reasons a
`Leave` has is what the proof is about.  Beside `PlayerInv` it needs that nothing under way
was not enqueued (`Handed`) and that whatever set `_interrupted` was an interruption or a
cancel, and that nobody has `finish()`'s answer while a thread runs (`Reported`).

**`AudioProofs`, the chunker** - for an answer of any length and deltas of any size
(`TextIsSpoken`).  Until `finish()`, `ChunkerInv` says, what has gone out and what is pending
are together the list of the positions outside the fences, of which a token more changes
nothing but the end (`SafeGrows`), and what has a space in front of it in the answer was
spoken with one (`Spacing`).  That gives order and silence about code at once, the latter by a
count of fences: up to the first fence in a line the two parsers agree (`NotInBlock`).  What
`finish()` adds is the hard half.  The speech of the whole answer begins with what has gone
out unless something was spoken from behind a placeholder or a sentence was cut where it does
not end (`SpeechStartsSo`, by `SameBeginning` for the words and `Spacing` for the spaces); and
when it does not, everything not spoken comes behind all that was (`LostIsBehind`).  Two
definitions are closed forms for this proof's sake: `Ascending` names the element of each rank
instead of selecting one by one, and `ReadyBoundaries` is where the loop over
`_ready_boundary` may stop.  The facts about ranks need no more than that a set of numbers has
a least one (`LeastNumber`).

**`HostProofs`** - for any providers, displays and scale.  `KeysAreKept` adds two parts to
`KeyNeverLost`: where the keys are at each place between two writes (`Underway`: what `.env`
is about to lose is in the vault or in hand), and that, as long as nothing has gone wrong,
whoever is at the vault leaves it with the key of the configured provider (`VaultServes`).
`WindowsAreKept` extends `WindowIsKept` to a host that has not looked yet: the last wish is
what the window shows, or is in a file that has changed since (`AskedToShow`, `AskedToHide`).
`ControlsAreSettled` is the whole of `ControlsSettle`, for any displays and any scale.
`VolumeKept` and `DisplaysKept` add to its parts what a call in hand that is not `stale`
knows: its target is the volume and its change, and the displays it has done show its target.
`HidKept` says that a window a call has hidden is off the screen unless that call is `stale`,
and `WishKept` that whoever hides the window, or is about to, does so while the host wants it
shown - so that showing it again is right, whichever of several captures does it.

**`PartsProofs`** - a step of one component is a stutter of the others (`OnePartMoves`), so
`Parts` implements all seven (`PartsAreTheirs`); their theorems give `PartsTyped` (`PartsTypeOK`)
and `PartsKeepAll`, every safety property the run `parts` checks.  That a single component
moves in a behaviour is not used: the results hold of the product as well, which
TLC could not enumerate.

Every invariant was checked with TLC before it was proved.

**Only model-checked**: the leads-to properties (`DueIsServed`, `FiringEnds`,
`StopIsHonoured`, `TurnEnds`, `IdleCompacts`, `EndsWhenAsked`), since the prover has no
`ENABLED`.  Every invariant and action property of a passing run has a theorem.

## 5. Not modelled

Whole components:

- the event bus: a queue and a thread that calls the listeners, started once
  (`cli.py:1023`) and never stopped by the program; its only listener draws the state of
  the transcription, so nothing depends on its order or its loss;
- voice and speech models and ONNX sessions: numerical inference; the threads that call
  them are modelled, and a call ends with any result or raises;
- terminal interface: rendering; configuration: environment variables read into records;
  helpers: no state;
- the voice pipeline and the demo and diagnostic commands of `cli.py`: sequential
  calls of parts modelled here.

Within the modelled components:

- scheduler tools and recurrence: the parsing of arguments and rules, the list of next
  events; action executor: the templates of a step and the parsing of an action;
- wake loop: a loop without a speaker, saved audio; router: the fuzzy match, which is a choice;
- responders: requests, images, wording, the settings without memory;
- organizer: dates, priorities, tags, the order of a listing, the computed daily plan and
  the views that depend on the time, the prompt made of the preferences;
- chunker: a fence that arrives in pieces, backquotes other than three, the patterns of code
  without a fence but the one of a `package main`, the length at which a chunk without a
  sentence is cut (any white space may be the place), what is displayed;
- Windows controls: mute, the list of windows, focus and PowerShell, which are single calls, and
  `SystemVolumeDucker`, which nothing but a test uses;
- vault: the ciphers; host: drawing, fonts, the saved place of the window.

Not proved: what `NoOversleep` becomes when the store fails, or with a second process: a
sleep of at most `check_interval_s` past a slot.

## 6. Running it

    tlc -workers 2 -config FireTwoProcesses.cfg MCSchedulerThread
    tlapm SchedulerProofs.tla

Each run's module, configuration and properties are in `PROJECT.json`, which also maps
every definition to the lines it models and names, for each property, a mutated
definition that breaks it.  Mutants stand before the definition they mutate.
