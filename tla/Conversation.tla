------------------------------ MODULE Conversation ------------------------------
(***************************************************************************)
(* What the assistant remembers of a conversation: the responders of       *)
(* llm/openai_responses.py and llm/cerebras_chat.py with their rounds of   *)
(* tool calls, the tools of llm/conversation_tools.py that forget or       *)
(* condense the conversation, and the compaction manager of                *)
(* llm/compaction.py, whose idle thread and usage trigger do the same.     *)
(*                                                                         *)
(* A turn is its number; what is remembered is a set of turns.  A request  *)
(* is answered by text, by a call of a tool or by an error, as the service *)
(* likes.  A summary is the set of turns it stands for.                    *)
(*                                                                         *)
(* Threads: the wake loop, which takes the turn lock for a turn; the idle  *)
(* thread of the compaction manager, which takes it for a compaction; and  *)
(* the scheduler, one step of which starts a new chat under the lock, or   *)
(* later without it when the watchdog gave up waiting for it.              *)
(***************************************************************************)
EXTENDS Integers, FiniteSets

CONSTANTS NTurns,     \* bound: turns of the wake loop
          MaxRounds,  \* max_tool_iterations
          LateSteps,  \* bound: scheduled steps that start a new chat
          None

ASSUME ConversationAssumption ==
    /\ NTurns \in Nat /\ MaxRounds \in Nat \ {0} /\ LateSteps \in Nat
    /\ None \notin {"loop", "idle", "scheduler"}

VARIABLES
    provider,   \* which responder build_llm_responder has built
    memory,     \* the turns behind _last_response_id, or those of _history
    summary,    \* the turns _conversation_summary stands for
    pending,    \* _reset_after_current_response, _skip_current_turn_memory
    executing,  \* _executing_tool_call
    pc,         \* where each thread is
    req,        \* the request of each thread
    turnLock,   \* the owner of the turn lock (an RLock)
    count,      \* _turns_since_compact
    quiet,      \* idle_timeout_s has gone by since _last_activity
    stop,       \* _stop
    step,       \* the scheduled step that starts a new chat
    turns,      \* turns asked so far
    said,       \* history: turns answered since the last reset
    old,        \* history: turns asked before the last reset
    lost,       \* history: answered turns forgotten without a reset, by reason
    spoiled,    \* history: requests that failed after one of their tools reset
    crossed     \* history: a step out of time reset under a request

memoryVars == <<memory, summary, pending>>
countVars  == <<count, quiet>>
ghostVars  == <<said, old, lost, spoiled>>
convVars   == <<provider, memory, summary, pending, executing, pc, req, turnLock,
                count, quiet, stop, step, turns, said, old, lost, spoiled,
                crossed>>

Askers  == {"loop", "idle"}
Turns   == 1..NTurns
Reasons == {"leftover", "unlinked", "echo"}

\* Places of a thread with a request out, or with its answer not yet applied.
Out == {"waiting", "tool", "apply"}

\* turn 0 is the request for a summary.
Requests == [turn   : 0..NTurns,
             base   : SUBSET (0..NTurns),   \* the chain of previous_response_id
             seen   : SUBSET (0..NTurns),   \* with the summary: what the model knows
             rounds : 0..MaxRounds,
             own    : {"none", "reset", "compact"},  \* what its tools did last
             text   : {"blank", "text", "echo"}]

NoRequest == [turn |-> 0, base |-> {}, seen |-> {}, rounds |-> 0,
              own |-> "none", text |-> "blank"]

ConvTypeOK ==
    /\ provider \in {"openai", "cerebras"}
    /\ memory \subseteq 0..NTurns /\ summary \subseteq 0..NTurns
    /\ pending \in BOOLEAN /\ executing \in BOOLEAN
    /\ pc \in [Askers -> {"listening", "waiting", "tool", "note", "check", "acquire",
                          "apply", "unlock", "settle", "end", "cv", "gone"}]
    /\ req \in [Askers -> Requests]
    /\ turnLock \in Askers \cup {"scheduler", None}
    /\ count \in 0..NTurns
    /\ quiet \in BOOLEAN /\ stop \in BOOLEAN
    /\ crossed \in BOOLEAN
    /\ step \in [state : {"none", "running", "late"}, left : 0..LateSteps]
    /\ turns \in 0..NTurns
    /\ said \subseteq Turns /\ old \subseteq Turns
    /\ lost \in [Reasons -> SUBSET Turns]
    /\ spoiled \in Nat

ConvInit ==
    /\ provider \in {"openai", "cerebras"}
    /\ memory = {} /\ summary = {} /\ pending = FALSE /\ executing = FALSE
    /\ pc = [th \in Askers |-> IF th = "loop" THEN "listening" ELSE "cv"]
    /\ req = [th \in Askers |-> NoRequest]
    /\ turnLock = None
    /\ count = 0 /\ quiet = FALSE /\ stop = FALSE
    /\ step = [state |-> "none", left |-> LateSteps]
    /\ turns = 0 /\ said = {} /\ old = {}
    /\ lost = [r \in Reasons |-> {}] /\ spoiled = 0
    /\ crossed = FALSE

Goto(th, place) == pc' = [pc EXCEPT ![th] = place]

\* The request has been dealt with.
Forget(th) == req' = [req EXCEPT ![th] = NoRequest]

----------------------------------------------------------------------------
\* The responder.

\* reset_conversation(): within a tool call the turn under way is not
\* remembered either.
ResetConversation ==
    /\ memory' = {} /\ summary' = {}
    /\ pending' = (pending \/ executing)
    /\ said' = {} /\ old' = 1..turns

\* compact_conversation(summary): the same, with a summary that stands for
\* the given turns.
CompactConversation(carried) ==
    /\ memory' = {} /\ summary' = carried
    /\ pending' = (pending \/ executing)
    /\ UNCHANGED <<said, old>>

\* Mutant of RememberOpenAI: the pending reset is not looked at.
RememberAnyway(r) == r.base \cup {r.turn}

\* _remember_response_id: the new id stands for the chain it was asked with.
RememberOpenAI(r) == IF pending THEN {} ELSE r.base \cup {r.turn}

\* _remember_turn: two messages more.
RememberCerebras(r) == IF pending THEN memory ELSE memory \cup {r.turn}

\* Mutant of PendingAfter: the flag is left set.
PendingKept == pending

\* Either of them consumes the flag.
PendingAfter == FALSE

Remember(r) ==
    /\ memory' = IF provider = "openai" THEN RememberOpenAI(r)
                                        ELSE RememberCerebras(r)
    /\ pending' = PendingAfter

\* A turn that none of its own tools reset is one to be remembered.
Kept(r) == r.turn \in Turns /\ r.own = "none"

\* What an answered turn adds to the history; a flag left by another turn
\* makes it a lost one.
NoteSaid(r, linked) ==
    /\ said' = IF r.turn \in Turns /\ r.own # "reset" THEN said \cup {r.turn} ELSE said
    /\ lost' = IF ~Kept(r) THEN lost
               ELSE IF ~linked THEN [lost EXCEPT !["unlinked"] = @ \cup {r.turn}]
               ELSE IF pending THEN [lost EXCEPT !["leftover"] = @ \cup {r.turn}]
               ELSE lost
    /\ UNCHANGED old

\* A request that ends without an answer to remember leaves the flag set.
SpoiledAfter(r) == spoiled + (IF pending /\ r.own # "none" THEN 1 ELSE 0)

\* generate, generate_stream: the request shows the summary, what is
\* remembered and the new transcript.
Send(th, turn) ==
    /\ req' = [req EXCEPT ![th] =
                 [turn |-> turn, base |-> IF provider = "openai" THEN memory ELSE {},
                  seen |-> memory \cup summary \cup {turn},
                  rounds |-> 0, own |-> "none", text |-> "blank"]]
    /\ Goto(th, "waiting")

\* Where a request that has ended takes its thread.
After(r) == IF r.turn = 0 THEN "apply" ELSE "note"

\* The answer is text.
Answer(th) ==
    LET r == req[th] IN
    /\ pc[th] = "waiting"
    /\ Remember(r)
    /\ NoteSaid(r, TRUE)
    /\ \E text \in {"text", "echo"} :
          /\ text = "echo" => r.turn = 0 /\ r.own = "compact"
          /\ req' = [req EXCEPT ![th].text = text]
    /\ Goto(th, After(r))
    /\ UNCHANGED <<summary, spoiled, provider, executing, turnLock, countVars, stop,
                   step, turns, crossed>>

\* A stream that ends without response.completed has text and no id.
AnswerIncomplete(th) ==
    LET r == req[th] IN
    /\ pc[th] = "waiting"
    /\ provider = "openai" /\ r.turn # 0
    /\ NoteSaid(r, FALSE)
    /\ spoiled' = SpoiledAfter(r)
    /\ Goto(th, After(r))
    /\ UNCHANGED <<memoryVars, req, provider, executing, turnLock, countVars, stop,
                   step, turns, crossed>>

\* The request raises, or the text is empty.
Fail(th) ==
    LET r == req[th] IN
    /\ pc[th] = "waiting"
    /\ spoiled' = SpoiledAfter(r)
    /\ Goto(th, After(r))
    /\ UNCHANGED <<memoryVars, said, old, lost, req, provider, executing, turnLock,
                   countVars, stop, step, turns, crossed>>

\* _execute_tool_calls: the answer is a call of a tool, with arguments that
\* parse; the flag is up for the call.  (parallel_tool_calls is off: one call.)
BeginTool(th) ==
    /\ pc[th] = "waiting"
    /\ executing' = TRUE
    /\ Goto(th, "tool")
    /\ UNCHANGED <<memoryVars, ghostVars, req, provider, turnLock, countVars, stop,
                   step, turns, crossed>>

\* Mutant of MoreRounds: the loop runs once more.
OneMoreRound(r) == r.rounds <= MaxRounds

\* for _ in range(self._max_tool_iterations)
MoreRounds(r) == r.rounds < MaxRounds

\* The round is over: the next request follows, unless it was the last round.
EndRound(th, own) ==
    LET r == [req[th] EXCEPT !.rounds = @ + 1, !.own = own] IN
    /\ req' = [req EXCEPT ![th] = r]
    /\ Goto(th, IF MoreRounds(r) THEN "waiting" ELSE After(r))
    /\ spoiled' = IF MoreRounds(r) THEN spoiled
                  ELSE spoiled + (IF pending' /\ own # "none" THEN 1 ELSE 0)

\* Arguments that do not parse are an answer to the call.
BadArguments(th) ==
    /\ pc[th] = "waiting"
    /\ UNCHANGED memoryVars
    /\ EndRound(th, req[th].own)
    /\ UNCHANGED <<said, old, lost, provider, executing, turnLock, countVars, stop,
                   step, turns, crossed>>

\* AgentToolRegistry.execute with any tool of another component, an unknown
\* tool, one that raises, or conversation_compact with a blank summary.
OtherTool(th) ==
    /\ UNCHANGED <<memoryVars, said, old>>
    /\ EndRound(th, req[th].own)

\* conversation_start_new.
StartNewChat(th) ==
    /\ ResetConversation
    /\ EndRound(th, "reset")

\* What a summary by the model stands for: what it was shown, unless it has
\* started a new chat itself.
Carried(r) == IF r.own = "reset" THEN {} ELSE r.seen \ {0}

\* conversation_compact.
CompactContext(th) ==
    /\ CompactConversation(Carried(req[th]))
    /\ EndRound(th, IF req[th].own = "reset" THEN "reset" ELSE "compact")

EndTool(th) ==
    /\ pc[th] = "tool"
    /\ executing' = FALSE
    /\ OtherTool(th) \/ StartNewChat(th) \/ CompactContext(th)
    /\ UNCHANGED <<lost, provider, turnLock, countVars, stop, step, turns, crossed>>

----------------------------------------------------------------------------
\* The wake loop.

\* run_command_turn_safe: a turn runs under the turn lock, and asks.
BeginTurn ==
    /\ pc["loop"] = "listening" /\ turns < NTurns
    /\ turnLock = None
    /\ turnLock' = "loop"
    /\ turns' = turns + 1
    /\ Send("loop", turns + 1)
    /\ UNCHANGED <<memoryVars, ghostVars, provider, executing, countVars, stop,
                   step, crossed>>

\* self._turns_since_compact += 1
CountAfter == count + 1

\* The usage trigger needs the token counts of an answer, which only the
\* OpenAI responder reports.
MayTrip == provider = "openai" /\ req["loop"].text # "blank"

\* note_turn: a turn the model did not answer is noted too.
NoteTurn ==
    /\ pc["loop"] = "note"
    /\ count' = CountAfter
    /\ quiet' = FALSE
    /\ \/ MayTrip /\ Goto("loop", "check")
       \/ Goto("loop", "end")
    /\ Forget("loop")
    /\ UNCHANGED <<memoryVars, ghostVars, provider, executing, turnLock, stop,
                   step, turns, crossed>>

\* The player or the display raises: the turn ends without note_turn.
TurnRaises ==
    /\ pc["loop"] = "note"
    /\ Goto("loop", "end")
    /\ Forget("loop")
    /\ UNCHANGED <<memoryVars, ghostVars, provider, executing, turnLock,
                   countVars, stop, step, turns, crossed>>

EndTurn ==
    /\ pc["loop"] = "end"
    /\ turnLock' = None
    /\ Goto("loop", "listening")
    /\ UNCHANGED <<memoryVars, ghostVars, req, provider, executing, countVars, stop,
                   step, turns, crossed>>

\* The loop ends; stop() waits two seconds at most for the idle thread.
Stop ==
    /\ pc["loop"] = "listening"
    /\ stop' = TRUE
    /\ Goto("loop", "gone")
    /\ UNCHANGED <<memoryVars, ghostVars, req, provider, executing, turnLock,
                   countVars, step, turns, crossed>>

----------------------------------------------------------------------------
\* The compaction manager.

\* note_turn starts the timer again: before it, the time does not matter.
TimePasses ==
    /\ ~quiet /\ count > 0
    /\ quiet' = TRUE
    /\ UNCHANGED <<memoryVars, ghostVars, req, provider, executing, turnLock, count,
                   pc, stop, step, turns, crossed>>

\* Mutant of Due: an off-by-one.
DueAfterTwo == quiet /\ count > 1

Due == quiet /\ count > 0

\* _run: the wait ends with the timer, with a notify or with stop().
IdleDue ==
    /\ pc["idle"] = "cv"
    /\ ~stop /\ Due
    /\ Goto("idle", "check")
    /\ UNCHANGED <<memoryVars, ghostVars, req, provider, executing, turnLock,
                   countVars, stop, step, turns, crossed>>

IdleStops ==
    /\ pc["idle"] = "cv"
    /\ stop
    /\ Goto("idle", "gone")
    /\ UNCHANGED <<memoryVars, ghostVars, req, provider, executing, turnLock,
                   countVars, stop, step, turns, crossed>>

\* Where a compaction returns to: the end of the turn, or the wait.
Return(th) == IF th = "loop" THEN "end" ELSE "cv"

\* _compact: nothing to do when nothing was said since the last one.
Check(th) ==
    /\ pc[th] = "check"
    /\ Goto(th, IF count > 0 THEN "acquire" ELSE Return(th))
    /\ UNCHANGED <<memoryVars, ghostVars, req, provider, executing, turnLock,
                   countVars, stop, step, turns, crossed>>

\* Mutant of LockFree: _turn_lock is the nullcontext of a missing argument.
NoLock(th) == TRUE

\* The turn lock is free, or this thread's own: the loop compacts in its turn.
LockFree(th) == turnLock \in {None, th}

\* with self._turn_lock: auto_compact, which asks for a summary.
AskSummary(th) ==
    /\ pc[th] = "acquire"
    /\ LockFree(th)
    /\ turnLock' = th
    /\ Send(th, 0)
    /\ UNCHANGED <<memoryVars, ghostVars, provider, executing, countVars, stop,
                   step, turns, crossed>>

\* Mutant of SummaryKept: the text of the answer is dropped.
SummaryDropped(r) == {}

SummaryKept(r) == Carried(r)

\* The text becomes the summary; an acknowledgement of the model's own
\* conversation_compact replaces that summary, and stands for nothing.
ApplySummary(th) ==
    LET r == req[th] IN
    \/ /\ r.text = "text"
       /\ CompactConversation(SummaryKept(r))
       /\ UNCHANGED lost
    \/ /\ r.text = "echo"
       /\ CompactConversation({})
       /\ lost' = [lost EXCEPT !["echo"] = @ \cup said]
    \/ /\ r.text = "blank"       \* no summary: a clean reset
       /\ ResetConversation
       /\ UNCHANGED lost

Apply(th) ==
    /\ pc[th] = "apply"
    /\ ApplySummary(th)
    /\ Goto(th, IF th = "loop" THEN "settle" ELSE "unlock")
    /\ Forget(th)
    /\ UNCHANGED <<spoiled, provider, executing, turnLock, count, quiet,
                   stop, step, turns, crossed>>

\* The idle thread leaves the turn lock before it settles.
Unlock ==
    /\ pc["idle"] = "unlock"
    /\ turnLock' = None
    /\ Goto("idle", "settle")
    /\ UNCHANGED <<memoryVars, ghostVars, req, provider, executing, countVars, stop,
                   step, turns, crossed>>

Settle(th) ==
    /\ pc[th] = "settle"
    /\ count' = 0 /\ quiet' = FALSE
    /\ Goto(th, Return(th))
    /\ UNCHANGED <<memoryVars, ghostVars, req, provider, executing, turnLock,
                   stop, step, turns, crossed>>

----------------------------------------------------------------------------
\* The scheduler: one step of an action starts a new chat.

\* The fire holds the turn lock while its step runs in a worker.
StepStarts ==
    /\ step.state = "none" /\ step.left > 0
    /\ turnLock = None
    /\ turnLock' = "scheduler"
    /\ step' = [state |-> "running", left |-> step.left - 1]
    /\ UNCHANGED <<memoryVars, ghostVars, req, provider, executing, countVars, pc,
                   stop, turns, crossed>>

StepEnds ==
    /\ step.state = "running"
    /\ ResetConversation
    /\ turnLock' = None
    /\ step' = [step EXCEPT !.state = "none"]
    /\ UNCHANGED <<lost, spoiled, req, provider, executing, countVars, pc, stop,
                   turns, crossed>>

\* worker.join(step_timeout_s) gives up; the worker goes on.
StepTimesOut ==
    /\ step.state = "running"
    /\ turnLock' = None
    /\ step' = [step EXCEPT !.state = "late"]
    /\ UNCHANGED <<memoryVars, ghostVars, req, provider, executing, countVars, pc,
                   stop, turns, crossed>>

LateStepEnds ==
    /\ step.state = "late"
    /\ ResetConversation
    /\ crossed' = (crossed \/ \E th \in Askers : pc[th] \in Out)
    /\ step' = [step EXCEPT !.state = "none"]
    /\ UNCHANGED <<lost, spoiled, req, provider, executing, turnLock, countVars, pc,
                   stop, turns>>

----------------------------------------------------------------------------
AskerNext(th) ==
    \/ Answer(th) \/ AnswerIncomplete(th) \/ Fail(th)
    \/ BeginTool(th) \/ BadArguments(th) \/ EndTool(th)
    \/ Check(th) \/ AskSummary(th) \/ Apply(th) \/ Settle(th)

LoopNext == NoteTurn \/ TurnRaises \/ EndTurn \/ AskerNext("loop")
IdleNext == IdleDue \/ IdleStops \/ Unlock \/ AskerNext("idle")
StepNext == StepEnds \/ StepTimesOut \/ LateStepEnds

ConvNext ==
    \/ BeginTurn \/ Stop \/ TimePasses \/ StepStarts
    \/ LoopNext \/ IdleNext \/ StepNext

\* A user need not speak; a thread that can go on does, requests and tools
\* end (the client has a timeout), and the clock runs.
ConvSpec ==
    /\ ConvInit /\ [][ConvNext]_convVars
    /\ WF_convVars(LoopNext) /\ WF_convVars(IdleNext) /\ WF_convVars(StepNext)
    /\ WF_convVars(TimePasses)

----------------------------------------------------------------------------
\* At most one request is out at any time, whichever of a turn, the idle
\* thread, the usage trigger inside a turn and a scheduled step wants the
\* conversation, and a tool is running only within it.
OneConversation ==
    /\ \A th \in Askers : pc[th] \in Out \cup {"note"} => turnLock = th
    /\ executing <=> \E th \in Askers : pc[th] = "tool"

\* What conversation_start_new promises: "The next user turn will start
\* without prior chat history".  A turn from before a reset comes back in no
\* later request, the reset of a turn whose own answer was still to come
\* included, unless a scheduled step out of time reset under a request.
\* (What ImplementsMemory says implies it.)
NextTurnFresh ==
    crossed \/ (memory \cup summary) \cap old = {}

\* A turn the model has answered stays in what later turns are shown until
\* it is reset, through any compaction, except for what one of three known
\* ways loses.
KeepsWhatWasSaid ==
    crossed \/ said \subseteq memory \cup summary \cup UNION {lost[r] : r \in Reasons}

\* A flag that a failed turn left set costs one later turn and no more.
ForgetsAtMostOne ==
    crossed \/ Cardinality(lost["leftover"]) + (IF pending /\ \A th \in Askers :
                   pc[th] \notin Out THEN 1 ELSE 0) <= spoiled

\* The responders, the tools and the compaction are one memory: its next
\* request is shown the summary and what is remembered, in either provider.
Known == (memory \cup summary) \ {0}
About(r) == IF r.turn # 0 THEN "turn" ELSE IF r.own = "none" THEN "summary" ELSE "condensed"
RequestsOut == {<<th, About(req[th])>> : th \in {asker \in Askers : pc[asker] \in Out}}
Memory == INSTANCE TurnMemory WITH
    asked     <- turns,
    requests  <- RequestsOut,
    known     <- Known,
    forgotten <- old,
    disturbed <- crossed
ImplementsMemory == Memory!Spec

\* A conversation left alone is compacted in the end.
IdleCompacts == <>[](count = 0 \/ stop)
=============================================================================
