--------------------------- MODULE ConversationProofs ---------------------------
(***************************************************************************)
(* Proofs about Conversation, for any number of turns, rounds of tools and *)
(* scheduled steps.                                                        *)
(***************************************************************************)
EXTENDS Conversation, FiniteSetTheorems, TLAPS

\* A request is out, or one of its tools is running.
Talking == {"waiting", "tool"}

\* A thread is only where its program is; a request has a round left; and a
\* turn being asked is not counted yet.
Bounded ==
    /\ pc["loop"] \notin {"cv", "unlock"}
    /\ pc["idle"] \notin {"listening", "note", "end"}
    /\ pc["idle"] \in Out => req["idle"].turn = 0
    /\ \A th \in Askers : pc[th] \in Talking => req[th].rounds < MaxRounds
    /\ count <= turns
    /\ \/ pc["loop"] = "note"
       \/ pc["loop"] \in Talking /\ req["loop"].turn # 0
       => count < turns

TypeInv == ConvTypeOK /\ Bounded

LEMMA NoRequestTyped == NoRequest \in Requests
  BY ConversationAssumption DEF NoRequest, Requests

LEMMA InitTyped == ASSUME ConvInit PROVE TypeInv
<1>1. req \in [Askers -> Requests]
  BY NoRequestTyped DEF ConvInit
<1>2. step \in [state : {"none", "running", "late"}, left : 0..LateSteps]
  BY ConversationAssumption DEF ConvInit
<1>3. /\ count \in 0..NTurns /\ turns \in 0..NTurns /\ count <= turns
      /\ memory \subseteq 0..NTurns /\ summary \subseteq 0..NTurns /\ spoiled \in Nat
      /\ said \subseteq Turns /\ old \subseteq Turns
  BY ConversationAssumption DEF ConvInit
<1>4. lost \in [Reasons -> SUBSET Turns]
  BY DEF ConvInit
<1>5. /\ pc["loop"] = "listening" /\ pc["idle"] = "cv"
      /\ pc \in [Askers -> {"listening", "waiting", "tool", "note", "check", "acquire",
                            "apply", "unlock", "settle", "end", "cv", "gone"}]
  BY DEF ConvInit, Askers
<1>6. ConvTypeOK
  BY <1>1, <1>2, <1>3, <1>4, <1>5 DEF ConvInit, ConvTypeOK
<1>7. Bounded
  BY <1>3, <1>5 DEF Bounded, Askers, Out, Talking
<1> QED
  BY <1>6, <1>7 DEF TypeInv

\* Steps that touch nothing of the responders and send no request.
LEMMA PlainTyped ==
  ASSUME TypeInv,
         \/ EndTurn \/ Stop \/ TimePasses \/ IdleDue \/ IdleStops \/ Unlock
         \/ StepStarts \/ StepTimesOut
         \/ \E th \in Askers : Check(th) \/ Settle(th) \/ BeginTool(th)
  PROVE  TypeInv'
<1> USE ConversationAssumption
        DEF TypeInv, Bounded, Askers, Out, Talking, Turns, Goto, memoryVars, countVars, ghostVars
<1>1. CASE EndTurn
  BY <1>1 DEF ConvTypeOK, EndTurn
<1>2. CASE Stop
  BY <1>2 DEF ConvTypeOK, Stop
<1>3. CASE TimePasses
  BY <1>3 DEF ConvTypeOK, TimePasses
<1>4. CASE IdleDue
  BY <1>4 DEF ConvTypeOK, IdleDue
<1>5. CASE IdleStops
  BY <1>5 DEF ConvTypeOK, IdleStops
<1>6. CASE Unlock
  BY <1>6 DEF ConvTypeOK, Unlock
<1>7. CASE StepStarts
  BY <1>7 DEF ConvTypeOK, StepStarts
<1>8. CASE StepTimesOut
  BY <1>8 DEF ConvTypeOK, StepTimesOut
<1>9. ASSUME NEW th \in Askers, Check(th) PROVE TypeInv'
  BY <1>9 DEF ConvTypeOK, Check, Return
<1>10. ASSUME NEW th \in Askers, Settle(th) PROVE TypeInv'
  <2>1. UNCHANGED <<provider, memory, summary, pending, executing, req, turnLock, stop, step,
                    turns, said, old, lost, spoiled, crossed>>
    BY <1>10 DEF Settle
  <2>2. /\ count' = 0 /\ quiet' = FALSE
        /\ pc' = [pc EXCEPT ![th] = Return(th)] /\ pc[th] = "settle"
    BY <1>10 DEF ConvTypeOK, Settle
  <2>3. /\ pc' \in [Askers -> {"listening", "waiting", "tool", "note", "check", "acquire",
                              "apply", "unlock", "settle", "end", "cv", "gone"}]
        /\ count' \in 0..NTurns
    BY <2>1, <2>2 DEF ConvTypeOK, Return
  <2> HIDE DEF Askers, Turns
  <2>4. ConvTypeOK'
    BY <2>1, <2>2, <2>3 DEF ConvTypeOK
  <2>5. Bounded'
    BY <2>1, <2>2 DEF ConvTypeOK, Return, Askers
  <2> QED
    BY <2>4, <2>5
<1>11. ASSUME NEW th \in Askers, BeginTool(th) PROVE TypeInv'
  BY <1>11 DEF ConvTypeOK, BeginTool
<1> QED
  BY <1>1, <1>2, <1>3, <1>4, <1>5, <1>6, <1>7, <1>8, <1>9, <1>10, <1>11

\* What Send leaves in its thread's request.
Asked(turn) ==
    [turn |-> turn, base |-> IF provider = "openai" THEN memory ELSE {},
     seen |-> memory \cup summary \cup {turn}, rounds |-> 0, own |-> "none", text |-> "blank"]

LEMMA SendAsks ==
  ASSUME TypeInv, NEW th \in Askers, NEW turn \in 0..NTurns, Send(th, turn)
  PROVE  /\ Asked(turn) \in Requests
         /\ req' = [req EXCEPT ![th] = Asked(turn)] /\ req' \in [Askers -> Requests]
         /\ pc' = [pc EXCEPT ![th] = "waiting"]
<1>1. Asked(turn) \in Requests
  BY ConversationAssumption DEF Asked, TypeInv, ConvTypeOK, Requests
<1>3. req' = [req EXCEPT ![th] = Asked(turn)]
  BY DEF Send, Asked
<1> QED
  BY <1>1, <1>3 DEF Send, Goto, TypeInv, ConvTypeOK

LEMMA SentTyped ==
  ASSUME TypeInv, BeginTurn \/ \E th \in Askers : AskSummary(th)
  PROVE  TypeInv'
<1> USE ConversationAssumption DEF Out, Talking
<1>1. CASE BeginTurn
  <2>1. turns + 1 \in 0..NTurns
    BY <1>1 DEF BeginTurn, TypeInv, ConvTypeOK
  <2>2. /\ req' = [req EXCEPT !["loop"] = Asked(turns + 1)] /\ req' \in [Askers -> Requests]
        /\ pc' = [pc EXCEPT !["loop"] = "waiting"]
    BY <1>1, <2>1, SendAsks DEF BeginTurn, Askers
  <2>3. /\ turns' = turns + 1 /\ turnLock' = "loop"
        /\ UNCHANGED <<provider, memory, summary, pending, executing, count, quiet, stop, step,
                      said, old, lost, spoiled, crossed>>
    BY <1>1 DEF BeginTurn, memoryVars, ghostVars, countVars
  <2>4. ConvTypeOK'
    BY <2>1, <2>2, <2>3 DEF TypeInv, ConvTypeOK, Askers
  <2>5. Bounded'
    BY <2>1, <2>2, <2>3 DEF TypeInv, ConvTypeOK, Bounded, Askers, Asked
  <2> QED
    BY <2>4, <2>5 DEF TypeInv
<1>2. ASSUME NEW th \in Askers, AskSummary(th) PROVE TypeInv'
  <2>2. /\ req' = [req EXCEPT ![th] = Asked(0)] /\ req' \in [Askers -> Requests]
        /\ pc' = [pc EXCEPT ![th] = "waiting"]
    BY <1>2, SendAsks DEF AskSummary
  <2>3. /\ turnLock' = th
        /\ UNCHANGED <<provider, memory, summary, pending, executing, count, quiet, stop, step,
                      turns, said, old, lost, spoiled, crossed>>
    BY <1>2 DEF AskSummary, memoryVars, ghostVars, countVars
  <2>4. ConvTypeOK'
    BY <2>2, <2>3 DEF TypeInv, ConvTypeOK, Askers
  <2>5. Bounded'
    BY <2>2, <2>3 DEF TypeInv, ConvTypeOK, Bounded, Askers, Asked
  <2> QED
    BY <2>4, <2>5 DEF TypeInv
<1> QED
  BY <1>1, <1>2

Places == {"listening", "waiting", "tool", "note", "check", "acquire",
           "apply", "unlock", "settle", "end", "cv", "gone"}

\* Thread th has dealt with its request, and goes on to a place without one.
LEMMA ForgetTyped ==
  ASSUME TypeInv, NEW th \in Askers, NEW place \in Places \ {"waiting", "tool", "note", "apply"},
         Forget(th), Goto(th, place)
  PROVE  req' \in [Askers -> Requests] /\ pc' \in [Askers -> Places]
  BY NoRequestTyped DEF TypeInv, ConvTypeOK, Places, Forget, Goto

\* Steps that end a turn of the loop.
LEMMA NotedTyped ==
  ASSUME TypeInv, NoteTurn \/ TurnRaises
  PROVE  TypeInv'
<1>1. CASE NoteTurn
  <2>1. PICK place \in {"check", "end"} : Goto("loop", place)
    BY <1>1 DEF NoteTurn
  <2>2. req' \in [Askers -> Requests] /\ pc' \in [Askers -> Places]
    BY <1>1, <2>1, ForgetTyped DEF NoteTurn, Places, Askers
  <2>3. /\ pc["loop"] = "note" /\ count' = count + 1
        /\ pc' = [pc EXCEPT !["loop"] = place] /\ req' = [req EXCEPT !["loop"] = NoRequest]
    BY <1>1, <2>1 DEF NoteTurn, Goto, Forget, CountAfter
  <2>4. /\ quiet' \in BOOLEAN
    BY <1>1 DEF NoteTurn
  <2>5. UNCHANGED <<provider, memory, summary, pending, executing, turnLock, stop, step,
                    turns, said, old, lost, spoiled, crossed>>
    BY <1>1 DEF NoteTurn, memoryVars, ghostVars
  <2>6. count' \in 0..NTurns /\ count' <= turns'
    BY <2>3, <2>5, ConversationAssumption DEF TypeInv, ConvTypeOK, Bounded
  <2>7. ConvTypeOK'
    BY <2>2, <2>4, <2>5, <2>6 DEF TypeInv, ConvTypeOK, Places
  <2>8. Bounded'
    BY <2>1, <2>3, <2>5, <2>6 DEF TypeInv, ConvTypeOK, Bounded, Askers, Out, Talking
  <2> QED
    BY <2>7, <2>8 DEF TypeInv
<1>2. CASE TurnRaises
  <2>1. Goto("loop", "end") /\ Forget("loop")
    BY <1>2 DEF TurnRaises
  <2>2. req' \in [Askers -> Requests] /\ pc' \in [Askers -> Places]
    BY <2>1, ForgetTyped DEF Places, Askers
  <2>3. /\ pc' = [pc EXCEPT !["loop"] = "end"] /\ req' = [req EXCEPT !["loop"] = NoRequest]
    BY <2>1 DEF Goto, Forget
  <2>4. UNCHANGED <<provider, memory, summary, pending, executing, turnLock, stop, step,
                    count, quiet, turns, said, old, lost, spoiled, crossed>>
    BY <1>2 DEF TurnRaises, memoryVars, ghostVars, countVars
  <2>5. ConvTypeOK'
    BY <2>2, <2>4 DEF TypeInv, ConvTypeOK, Places
  <2>6. Bounded'
    BY <2>3, <2>4 DEF TypeInv, ConvTypeOK, Bounded, Askers, Out, Talking
  <2> QED
    BY <2>5, <2>6 DEF TypeInv
<1> QED
  BY <1>1, <1>2

\* What an answer leaves in the memory and the history.
LEMMA AnswerRemembers ==
  ASSUME TypeInv, NEW r \in Requests, NEW linked \in BOOLEAN, NoteSaid(r, linked)
  PROVE  /\ said' \subseteq Turns /\ old' \subseteq Turns
         /\ lost' \in [Reasons -> SUBSET Turns]
         /\ Remember(r) => memory' \subseteq 0..NTurns /\ pending' \in BOOLEAN
<1>1. r.base \subseteq 0..NTurns /\ r.turn \in 0..NTurns
  BY DEF Requests
<1>2. said' \subseteq Turns /\ old' \subseteq Turns
  BY DEF TypeInv, ConvTypeOK, NoteSaid
<1>3. lost' \in [Reasons -> SUBSET Turns]
  <2>1. CASE ~Kept(r)
    BY <2>1 DEF TypeInv, ConvTypeOK, NoteSaid
  <2>2. CASE Kept(r)
    <3>1. \A reason \in Reasons :
            [lost EXCEPT ![reason] = @ \cup {r.turn}] \in [Reasons -> SUBSET Turns]
      BY <2>2 DEF TypeInv, ConvTypeOK, Kept
    <3> QED
      BY <2>2, <3>1 DEF TypeInv, ConvTypeOK, NoteSaid, Reasons
  <2> QED
    BY <2>1, <2>2
<1>4. ASSUME Remember(r) PROVE memory' \subseteq 0..NTurns /\ pending' \in BOOLEAN
  BY <1>1, <1>4 DEF TypeInv, ConvTypeOK, Remember, RememberOpenAI, RememberCerebras, PendingAfter
<1> QED
  BY <1>2, <1>3, <1>4

\* The end of a request: what it was asked for decides where its thread goes.
LEMMA AfterTyped ==
  ASSUME TypeInv, NEW th \in Askers, pc[th] \in Talking, NEW r, r.turn = req[th].turn,
         req' \in [Askers -> Requests], req'[th].turn = req[th].turn,
         \A other \in Askers \ {th} : req'[other] = req[other],
         Goto(th, After(r)), UNCHANGED <<count, turns>>
  PROVE  pc' \in [Askers -> Places] /\ Bounded'
<1>1. After(r) \in {"apply", "note"} /\ (After(r) = "note" <=> req[th].turn # 0)
  BY DEF After
<1>2. pc' = [pc EXCEPT ![th] = After(r)] /\ pc \in [Askers -> Places]
  BY DEF Goto, TypeInv, ConvTypeOK, Places
<1>3. pc' \in [Askers -> Places]
  BY <1>1, <1>2 DEF Places
<1>4. Bounded'
  BY <1>1, <1>2, ConversationAssumption
     DEF TypeInv, ConvTypeOK, Bounded, Askers, Out, Talking, Requests
<1> QED
  BY <1>3, <1>4

LEMMA SpoiledTyped ==
  ASSUME TypeInv, NEW r, spoiled' = SpoiledAfter(r)
  PROVE  spoiled' \in Nat
<1>1. (IF pending /\ r.own # "none" THEN 1 ELSE 0) \in 0..1
  OBVIOUS
<1> QED
  BY <1>1 DEF TypeInv, ConvTypeOK, SpoiledAfter

LEMMA AnsweredTyped ==
  ASSUME TypeInv, NEW th \in Askers, Answer(th) \/ AnswerIncomplete(th) \/ Fail(th)
  PROVE  TypeInv'
<1> DEFINE r == req[th]
<1>r. r \in Requests /\ r.turn \in 0..NTurns
  BY DEF TypeInv, ConvTypeOK, Requests
<1>1. CASE Answer(th)
  <2>1. PICK text \in {"text", "echo"} : req' = [req EXCEPT ![th].text = text]
    BY <1>1 DEF Answer
  <2>2. /\ req' \in [Askers -> Requests] /\ req'[th].turn = req[th].turn
        /\ \A other \in Askers \ {th} : req'[other] = req[other]
    BY <2>1 DEF TypeInv, ConvTypeOK, Requests
  <2>3. /\ pc[th] \in Talking /\ Goto(th, After(r)) /\ Remember(r) /\ NoteSaid(r, TRUE)
        /\ UNCHANGED <<count, turns>>
    BY <1>1 DEF Answer, Talking, countVars
  <2>4. pc' \in [Askers -> Places] /\ Bounded'
    BY <2>2, <2>3, AfterTyped
  <2>5. /\ said' \subseteq Turns /\ old' \subseteq Turns /\ lost' \in [Reasons -> SUBSET Turns]
        /\ memory' \subseteq 0..NTurns /\ pending' \in BOOLEAN
    BY <1>r, <2>3, AnswerRemembers
  <2>6. UNCHANGED <<summary, spoiled, provider, executing, turnLock, count, quiet,
                    stop, step, turns, crossed>>
    BY <1>1 DEF Answer, countVars
  <2>7. ConvTypeOK'
    BY <2>2, <2>4, <2>5, <2>6 DEF TypeInv, ConvTypeOK, Places
  <2> QED
    BY <2>4, <2>7 DEF TypeInv
<1>2. CASE AnswerIncomplete(th)
  <2>3. /\ pc[th] \in Talking /\ Goto(th, After(r)) /\ NoteSaid(r, FALSE)
        /\ spoiled' = SpoiledAfter(r)
    BY <1>2 DEF AnswerIncomplete, Talking
  <2>6. UNCHANGED <<memory, summary, pending, req, provider, executing, turnLock, count, quiet,
                    stop, step, turns, crossed>>
    BY <1>2 DEF AnswerIncomplete, countVars, memoryVars
  <2>4. pc' \in [Askers -> Places] /\ Bounded'
    BY <2>3, <2>6, AfterTyped DEF TypeInv, ConvTypeOK
  <2>5. /\ said' \subseteq Turns /\ old' \subseteq Turns /\ lost' \in [Reasons -> SUBSET Turns]
        /\ spoiled' \in Nat
    BY <1>r, <2>3, AnswerRemembers, SpoiledTyped
  <2>7. ConvTypeOK'
    BY <2>4, <2>5, <2>6 DEF TypeInv, ConvTypeOK, Places
  <2> QED
    BY <2>4, <2>7 DEF TypeInv
<1>3. CASE Fail(th)
  <2>3. /\ pc[th] \in Talking /\ Goto(th, After(r)) /\ spoiled' = SpoiledAfter(r)
    BY <1>3 DEF Fail, Talking
  <2>6. UNCHANGED <<memory, summary, pending, said, old, lost, req, provider, executing, turnLock,
                    count, quiet, stop, step, turns, crossed>>
    BY <1>3 DEF Fail, countVars, memoryVars
  <2>4. pc' \in [Askers -> Places] /\ Bounded'
    BY <2>3, <2>6, AfterTyped DEF TypeInv, ConvTypeOK
  <2>5. spoiled' \in Nat
    BY <2>3, SpoiledTyped
  <2>7. ConvTypeOK'
    BY <2>4, <2>5, <2>6 DEF TypeInv, ConvTypeOK, Places
  <2> QED
    BY <2>4, <2>7 DEF TypeInv
<1> QED
  BY <1>1, <1>2, <1>3

\* A round of tools that is over leaves the request with one round less.
LEMMA RoundTyped ==
  ASSUME TypeInv, NEW th \in Askers, pc[th] \in Talking, NEW own \in {"none", "reset", "compact"},
         EndRound(th, own), UNCHANGED <<count, turns>>
  PROVE  /\ req' \in [Askers -> Requests] /\ pc' \in [Askers -> Places]
         /\ spoiled' \in Nat /\ Bounded'
<1> DEFINE r == [req[th] EXCEPT !.rounds = @ + 1, !.own = own]
<1>1. req[th] \in Requests /\ req[th].rounds < MaxRounds
  BY DEF TypeInv, ConvTypeOK, Bounded
<1>2. /\ r \in Requests /\ r.turn = req[th].turn /\ r.rounds = req[th].rounds + 1
  <2> DEFINE q == [req[th] EXCEPT !.rounds = req[th].rounds + 1]
  <2>1. q \in Requests /\ q.turn = req[th].turn /\ q.rounds = req[th].rounds + 1
    BY <1>1, ConversationAssumption DEF Requests
  <2>2. r = [q EXCEPT !.own = own]
    BY <1>1 DEF Requests
  <2> HIDE DEF q, r
  <2> QED
    BY <2>1, <2>2 DEF Requests
<1>3. /\ req' = [req EXCEPT ![th] = r]
      /\ Goto(th, IF MoreRounds(r) THEN "waiting" ELSE After(r))
      /\ spoiled' = IF MoreRounds(r) THEN spoiled
                    ELSE spoiled + (IF pending' /\ own # "none" THEN 1 ELSE 0)
  BY DEF EndRound
<1> HIDE DEF r
<1>4. /\ req' \in [Askers -> Requests] /\ req'[th] = r
      /\ \A other \in Askers \ {th} : req'[other] = req[other]
  BY <1>2, <1>3 DEF TypeInv, ConvTypeOK
<1>5. (IF pending' /\ own # "none" THEN 1 ELSE 0) \in 0..1
  OBVIOUS
<1>6. spoiled' \in Nat
  BY <1>3, <1>5 DEF TypeInv, ConvTypeOK
<1>7. CASE MoreRounds(r)
  <2>1. pc' = [pc EXCEPT ![th] = "waiting"] /\ pc \in [Askers -> Places]
    BY <1>3, <1>7 DEF Goto, TypeInv, ConvTypeOK, Places
  <2>2. pc' \in [Askers -> Places]
    BY <2>1 DEF Places
  <2>3. r.rounds < MaxRounds
    BY <1>7 DEF MoreRounds
  <2>4. Bounded'
    BY <1>2, <1>4, <2>1, <2>3, ConversationAssumption
       DEF TypeInv, ConvTypeOK, Bounded, Askers, Out, Talking, Requests
  <2> QED
    BY <1>4, <1>6, <2>2, <2>4
<1>8. CASE ~MoreRounds(r)
  <2>1. pc' \in [Askers -> Places] /\ Bounded'
    BY <1>2, <1>3, <1>4, <1>8, AfterTyped
  <2> QED
    BY <1>4, <1>6, <2>1
<1> QED
  BY <1>7, <1>8

\* What a reset or a compaction leaves is typed.
LEMMA ClearedTyped ==
  ASSUME TypeInv,
         ResetConversation
         \/ \E carried \in SUBSET (0..NTurns) : CompactConversation(carried)
  PROVE  /\ memory' = {} /\ summary' \subseteq 0..NTurns /\ pending' \in BOOLEAN
         /\ said' \subseteq Turns /\ old' \subseteq Turns
<1>1. /\ turns \in 0..NTurns /\ pending \in BOOLEAN /\ executing \in BOOLEAN
      /\ said \subseteq Turns /\ old \subseteq Turns
  BY DEF TypeInv, ConvTypeOK
<1>2. pending \/ executing \in BOOLEAN
  BY <1>1
<1>3. CASE ResetConversation
  <2>1. 1..turns \subseteq Turns
    BY <1>1, ConversationAssumption DEF Turns
  <2>2. pending' \in BOOLEAN
    BY <1>2, <1>3, Zenon DEF ResetConversation
  <2> QED
    BY <1>3, <2>1, <2>2 DEF ResetConversation
<1>4. ASSUME NEW carried \in SUBSET (0..NTurns), CompactConversation(carried)
      PROVE  /\ memory' = {} /\ summary' \subseteq 0..NTurns /\ pending' \in BOOLEAN
             /\ said' \subseteq Turns /\ old' \subseteq Turns
  <2>1. pending' \in BOOLEAN
    BY <1>2, <1>4, Zenon DEF CompactConversation
  <2> QED
    BY <1>1, <1>4, <2>1 DEF CompactConversation
<1> QED
  BY <1>3, <1>4

LEMMA ToolTyped ==
  ASSUME TypeInv, NEW th \in Askers, BadArguments(th) \/ EndTool(th)
  PROVE  TypeInv'
<1>r. /\ req[th] \in Requests /\ req[th].own \in {"none", "reset", "compact"}
      /\ req[th].seen \subseteq 0..NTurns
  BY DEF TypeInv, ConvTypeOK, Requests
<1>t. pc[th] \in Talking /\ UNCHANGED <<count, turns>>
  BY DEF BadArguments, EndTool, Talking, countVars
<1>1. PICK own \in {"none", "reset", "compact"} : EndRound(th, own)
  BY <1>r DEF BadArguments, EndTool, OtherTool, StartNewChat, CompactContext
<1>2. /\ req' \in [Askers -> Requests] /\ pc' \in [Askers -> Places]
      /\ spoiled' \in Nat /\ Bounded'
  BY <1>t, <1>1, RoundTyped
<1>3. /\ memory' \subseteq 0..NTurns /\ summary' \subseteq 0..NTurns /\ pending' \in BOOLEAN
      /\ said' \subseteq Turns /\ old' \subseteq Turns
  <2>1. CASE UNCHANGED <<memoryVars, said, old>>
    BY <2>1 DEF TypeInv, ConvTypeOK, memoryVars
  <2>2. CASE StartNewChat(th)
    BY <2>2, ClearedTyped DEF StartNewChat
  <2>3. CASE CompactContext(th)
    <3>1. Carried(req[th]) \in SUBSET (0..NTurns)
      BY <1>r DEF Carried
    <3> QED
      BY <2>3, <3>1, ClearedTyped DEF CompactContext
  <2> QED
    BY <2>1, <2>2, <2>3 DEF BadArguments, EndTool, OtherTool
<1>4. executing' \in BOOLEAN
  BY DEF TypeInv, ConvTypeOK, BadArguments, EndTool
<1>5. UNCHANGED <<lost, provider, turnLock, count, quiet, stop, step, turns, crossed>>
  BY DEF BadArguments, EndTool, countVars
<1>6. ConvTypeOK'
  BY <1>2, <1>3, <1>4, <1>5 DEF TypeInv, ConvTypeOK, Places
<1> QED
  BY <1>2, <1>6 DEF TypeInv

LEMMA AppliedTyped ==
  ASSUME TypeInv, NEW th \in Askers, Apply(th)
  PROVE  TypeInv'
<1>r. req[th] \in Requests /\ req[th].seen \subseteq 0..NTurns
  BY DEF TypeInv, ConvTypeOK, Requests
<1>1. PICK place \in {"settle", "unlock"} :
        Goto(th, place) /\ (place = "unlock" => th = "idle")
  BY DEF Apply, Askers
<1>2. req' \in [Askers -> Requests] /\ pc' \in [Askers -> Places]
  BY <1>1, ForgetTyped DEF Apply, Places
<1>3. ResetConversation \/ \E carried \in SUBSET (0..NTurns) : CompactConversation(carried)
  <2>1. Carried(req[th]) \in SUBSET (0..NTurns) /\ {} \in SUBSET (0..NTurns)
    BY <1>r DEF Carried
  <2> QED
    BY <2>1 DEF Apply, ApplySummary, SummaryKept
<1>4. /\ memory' \subseteq 0..NTurns /\ summary' \subseteq 0..NTurns /\ pending' \in BOOLEAN
      /\ said' \subseteq Turns /\ old' \subseteq Turns
  BY <1>3, ClearedTyped
<1>5. lost' \in [Reasons -> SUBSET Turns]
  BY DEF TypeInv, ConvTypeOK, Apply, ApplySummary, Reasons
<1>6. /\ pc[th] = "apply" /\ Forget(th)
      /\ UNCHANGED <<spoiled, provider, executing, turnLock, count, quiet, stop, step,
                     turns, crossed>>
  BY DEF Apply
<1>7. ConvTypeOK'
  BY <1>2, <1>4, <1>5, <1>6 DEF TypeInv, ConvTypeOK, Places
<1>8. Bounded'
  BY <1>1, <1>6, <1>r DEF TypeInv, ConvTypeOK, Bounded, Askers, Out, Talking, Forget, Goto, NoRequest
<1> QED
  BY <1>7, <1>8 DEF TypeInv

LEMMA StepTyped ==
  ASSUME TypeInv, StepEnds \/ LateStepEnds
  PROVE  TypeInv'
<1>1. /\ memory' \subseteq 0..NTurns /\ summary' \subseteq 0..NTurns /\ pending' \in BOOLEAN
      /\ said' \subseteq Turns /\ old' \subseteq Turns
  BY ClearedTyped DEF StepEnds, LateStepEnds
<1>2. /\ step' \in [state : {"none", "running", "late"}, left : 0..LateSteps]
      /\ turnLock' \in Askers \cup {"scheduler", None}
  BY DEF TypeInv, ConvTypeOK, StepEnds, LateStepEnds
<1>3. crossed' \in BOOLEAN
  <2>1. CASE StepEnds
    BY <2>1 DEF TypeInv, ConvTypeOK, StepEnds
  <2>2. CASE LateStepEnds
    BY <2>2, Zenon DEF LateStepEnds
  <2> QED
    BY <2>1, <2>2
<1>4. UNCHANGED <<lost, spoiled, req, provider, executing, count, quiet, pc, stop,
                  turns>>
  BY DEF StepEnds, LateStepEnds, countVars
<1>5. ConvTypeOK'
  BY <1>1, <1>2, <1>3, <1>4 DEF TypeInv, ConvTypeOK
<1>6. Bounded'
  BY <1>4 DEF TypeInv, Bounded
<1> QED
  BY <1>5, <1>6 DEF TypeInv

LEMMA StutterTyped == ASSUME TypeInv, UNCHANGED convVars PROVE TypeInv'
  BY DEF TypeInv, ConvTypeOK, Bounded, convVars

LEMMA TypeKept == ASSUME TypeInv, [ConvNext]_convVars PROVE TypeInv'
<1>1. CASE UNCHANGED convVars
  BY <1>1, StutterTyped
<1>2. ASSUME NEW th \in Askers, AskerNext(th) PROVE TypeInv'
  BY <1>2, PlainTyped, SentTyped, AnsweredTyped, ToolTyped, AppliedTyped DEF AskerNext
<1>3. "loop" \in Askers /\ "idle" \in Askers
  BY DEF Askers
<1>4. CASE LoopNext
  BY <1>2, <1>3, <1>4, NotedTyped, PlainTyped DEF LoopNext
<1>5. CASE IdleNext
  BY <1>2, <1>3, <1>5, PlainTyped DEF IdleNext
<1>6. CASE StepNext
  BY <1>6, PlainTyped, StepTyped DEF StepNext
<1>7. CASE BeginTurn \/ Stop \/ TimePasses \/ StepStarts
  BY <1>7, PlainTyped, SentTyped
<1> QED
  BY <1>1, <1>4, <1>5, <1>6, <1>7 DEF ConvNext

\* ConvTypeOK holds in every state: no request goes round more often than
\* max_tool_iterations allows (MoreRounds), and the counter of turns counts
\* no turn twice.
THEOREM TypeIsKept == ConvSpec => [](ConvTypeOK /\ Bounded)
<1>1. ConvInit => TypeInv
  BY InitTyped
<1>2. TypeInv /\ [ConvNext]_convVars => TypeInv'
  BY TypeKept
<1>3. TypeInv => ConvTypeOK /\ Bounded
  BY DEF TypeInv
<1> QED
  BY <1>1, <1>2, <1>3, PTL DEF ConvSpec

----------------------------------------------------------------------------
\* One conversation: who is where holds the lock, the flag says a tool runs.

\* Thread th, at this place, has the turn lock.
Holds(th, place) ==
    IF th = "loop" THEN place \notin {"listening", "gone"} ELSE place \in Out \cup {"unlock"}

Locks ==
    /\ \A th \in Askers : Holds(th, pc[th]) => turnLock = th
    /\ step.state = "running" => turnLock = "scheduler"

ToolFlag == executing <=> \E th \in Askers : pc[th] = "tool"

LockInv == TypeInv /\ Locks /\ ToolFlag

\* A step that moves one thread to a place where it needs no lock it has not.
LEMMA MoveKeepsLocks ==
  ASSUME LockInv, NEW th \in Askers, NEW place \in Places, Goto(th, place),
         UNCHANGED <<turnLock, step>>, Holds(th, place) => Holds(th, pc[th])
  PROVE  Locks'
  BY DEF LockInv, TypeInv, ConvTypeOK, Locks, Goto, Askers, Holds

LEMMA MoveKeepsFlag ==
  ASSUME LockInv, NEW th \in Askers, NEW place \in Places \ {"tool"}, Goto(th, place),
         pc[th] # "tool", UNCHANGED executing
  PROVE  ToolFlag'
<1>1. pc \in [Askers -> Places] /\ pc' = [pc EXCEPT ![th] = place]
  BY DEF LockInv, TypeInv, ConvTypeOK, Goto, Places
<1>2. \A other \in Askers : pc'[other] = "tool" <=> pc[other] = "tool"
  BY <1>1
<1> QED
  BY <1>2, Zenon DEF LockInv, ToolFlag

\* Where a round of tools takes its thread.
LEMMA RoundGoes ==
  ASSUME NEW th \in Askers, NEW own, EndRound(th, own)
  PROVE  \E place \in {"waiting", "apply", "note"} : Goto(th, place)
  BY DEF EndRound, After

LEMMA AskerKeepsLocks ==
  ASSUME LockInv, NEW th \in Askers, AskerNext(th)
  PROVE  Locks' /\ ToolFlag'
<1>h. \A p \in Out : Holds(th, p)
  BY DEF Holds, Out, Askers
<1>1. CASE Answer(th) \/ AnswerIncomplete(th) \/ Fail(th) \/ BadArguments(th)
  <2>1. /\ pc[th] = "waiting" /\ UNCHANGED <<turnLock, step, executing>>
    BY <1>1 DEF Answer, AnswerIncomplete, Fail, BadArguments
  <2>2. PICK place \in {"waiting", "apply", "note"} : Goto(th, place)
    BY <1>1, RoundGoes DEF Answer, AnswerIncomplete, Fail, BadArguments, After
  <2>3. place \in Places \ {"tool"}
    BY DEF Places
  <2>4. Holds(th, pc[th])
    BY <1>h, <2>1 DEF Out
  <2> QED
    BY <2>1, <2>2, <2>3, <2>4, MoveKeepsLocks, MoveKeepsFlag
<1>2. CASE BeginTool(th)
  <2>1. /\ pc[th] = "waiting" /\ UNCHANGED <<turnLock, step>> /\ executing' = TRUE
        /\ Goto(th, "tool")
    BY <1>2 DEF BeginTool
  <2>2. Locks'
    BY <1>h, <2>1, MoveKeepsLocks DEF Out, Places
  <2>3. pc'[th] = "tool"
    BY <2>1 DEF Goto, LockInv, TypeInv, ConvTypeOK
  <2> QED
    BY <2>1, <2>2, <2>3, Zenon DEF ToolFlag
<1>3. CASE EndTool(th)
  <2>1. /\ pc[th] = "tool" /\ UNCHANGED <<turnLock, step>> /\ executing' = FALSE
    BY <1>3 DEF EndTool
  <2>2. PICK place \in {"waiting", "apply", "note"} : Goto(th, place)
    BY <1>3, RoundGoes DEF EndTool, OtherTool, StartNewChat, CompactContext
  <2>3. Locks'
    BY <1>h, <2>1, <2>2, MoveKeepsLocks DEF Out, Places
  <2>4. \A other \in Askers : pc'[other] # "tool"
    BY <2>1, <2>2 DEF LockInv, TypeInv, ConvTypeOK, Locks, Holds, Out, Goto, Askers
  <2> QED
    BY <2>1, <2>3, <2>4, Zenon DEF ToolFlag
<1>4. CASE Check(th)
  <2>1. PICK place \in {"acquire", "end", "cv"} :
          Goto(th, place) /\ (th = "idle" => place # "end")
    BY <1>4 DEF Check, Return, Askers
  <2>2. /\ pc[th] = "check" /\ UNCHANGED <<turnLock, step, executing>>
    BY <1>4 DEF Check
  <2>3. Holds(th, place) => Holds(th, pc[th])
    BY <2>1, <2>2 DEF Holds, Askers, Out
  <2> QED
    BY <2>1, <2>2, <2>3, MoveKeepsLocks, MoveKeepsFlag DEF Places
<1>5. CASE AskSummary(th)
  <2>1. /\ pc[th] = "acquire" /\ turnLock \in {None, th} /\ turnLock' = th
        /\ Goto(th, "waiting") /\ UNCHANGED <<step, executing>>
    BY <1>5 DEF AskSummary, Send, LockFree
  <2>2. Locks'
    BY <2>1, ConversationAssumption DEF LockInv, TypeInv, ConvTypeOK, Locks, Goto, Askers, Holds, Out
  <2> QED
    BY <2>1, <2>2, MoveKeepsFlag DEF Places
<1>6. CASE Apply(th)
  <2>1. PICK place \in {"settle", "unlock"} : Goto(th, place)
    BY <1>6 DEF Apply
  <2>2. /\ pc[th] = "apply" /\ UNCHANGED <<turnLock, step, executing>>
    BY <1>6 DEF Apply
  <2> QED
    BY <1>h, <2>1, <2>2, MoveKeepsLocks, MoveKeepsFlag DEF Places, Out
<1>7. CASE Settle(th)
  <2>1. PICK place \in {"end", "cv"} : Goto(th, place)
    BY <1>7 DEF Settle, Return
  <2>2. /\ pc[th] = "settle" /\ UNCHANGED <<turnLock, step, executing>>
    BY <1>7 DEF Settle
  <2>3. Holds(th, place) => Holds(th, pc[th])
    BY <2>1, <2>2 DEF Holds, Askers, Out
  <2> QED
    BY <2>1, <2>2, <2>3, MoveKeepsLocks, MoveKeepsFlag DEF Places
<1> QED
  BY <1>1, <1>2, <1>3, <1>4, <1>5, <1>6, <1>7 DEF AskerNext

\* Steps that move no thread.
LEMMA StillKeepsLocks ==
  ASSUME LockInv, UNCHANGED <<pc, executing>>,
         \/ UNCHANGED <<turnLock, step>>
         \/ turnLock = None /\ turnLock' = "scheduler" /\ step'.state = "running"
         \/ turnLock = "scheduler" /\ turnLock' = None /\ step'.state # "running"
         \/ turnLock' = turnLock /\ step'.state # "running"
  PROVE  Locks' /\ ToolFlag'
<1>1. Locks'
  BY ConversationAssumption DEF LockInv, TypeInv, ConvTypeOK, Locks, Askers
<1>2. ToolFlag'
  BY Zenon DEF LockInv, ToolFlag
<1> QED
  BY <1>1, <1>2

LEMMA LocksKept == ASSUME LockInv, [ConvNext]_convVars PROVE LockInv'
<1>t. TypeInv'
  BY TypeKept DEF LockInv
<1>a. "loop" \in Askers /\ "idle" \in Askers
  BY DEF Askers
<1>0. CASE UNCHANGED convVars
  BY <1>0, <1>t, StillKeepsLocks DEF convVars, LockInv
<1>1. ASSUME NEW th \in Askers, AskerNext(th) PROVE LockInv'
  BY <1>t, <1>1, AskerKeepsLocks DEF LockInv
<1>2. CASE NoteTurn \/ TurnRaises
  <2>1. PICK place \in {"check", "end"} : Goto("loop", place)
    BY <1>2 DEF NoteTurn, TurnRaises
  <2>2. pc["loop"] = "note" /\ UNCHANGED <<turnLock, step, executing>>
    BY <1>2 DEF NoteTurn, TurnRaises
  <2>3. Holds("loop", pc["loop"])
    BY <2>2 DEF Holds
  <2> QED
    BY <1>t, <1>a, <2>1, <2>2, <2>3, MoveKeepsLocks, MoveKeepsFlag DEF Places, LockInv
<1>3. CASE EndTurn \/ Unlock
  <2>1. PICK th \in Askers, place \in {"listening", "settle"} :
          Goto(th, place) /\ pc[th] # "tool" /\ Holds(th, pc[th]) /\ ~Holds(th, place)
    BY <1>3 DEF EndTurn, Unlock, Askers, Holds, Out
  <2>2. turnLock' = None /\ UNCHANGED <<step, executing>>
    BY <1>3 DEF EndTurn, Unlock
  <2>3. Locks'
    BY <2>1, <2>2, ConversationAssumption DEF LockInv, TypeInv, ConvTypeOK, Locks, Goto, Askers, Holds
  <2> QED
    BY <1>t, <2>1, <2>2, <2>3, MoveKeepsFlag DEF Places, LockInv
<1>4. CASE Stop \/ IdleDue \/ IdleStops
  <2>1. PICK th \in Askers, place \in {"gone", "check"} :
          Goto(th, place) /\ pc[th] # "tool" /\ ~Holds(th, place)
    BY <1>4 DEF Stop, IdleDue, IdleStops, Askers, Holds, Out
  <2>2. UNCHANGED <<turnLock, step, executing>>
    BY <1>4 DEF Stop, IdleDue, IdleStops
  <2> QED
    BY <1>t, <2>1, <2>2, MoveKeepsLocks, MoveKeepsFlag DEF Places, LockInv
<1>5. CASE BeginTurn
  <2>1. /\ turnLock = None /\ turnLock' = "loop" /\ pc["loop"] = "listening"
        /\ Goto("loop", "waiting") /\ UNCHANGED <<step, executing>>
    BY <1>5 DEF BeginTurn, Send
  <2>2. Locks'
    BY <2>1, ConversationAssumption DEF LockInv, TypeInv, ConvTypeOK, Locks, Goto, Askers, Holds, Out
  <2> QED
    BY <1>t, <1>a, <2>1, <2>2, MoveKeepsFlag DEF Places, LockInv
<1>6. CASE TimePasses
  BY <1>6, <1>t, StillKeepsLocks DEF TimePasses, LockInv
<1>7. CASE StepStarts
  <2>1. step'.state = "running"
    BY <1>7 DEF StepStarts
  <2> QED
    BY <1>7, <1>t, <2>1, StillKeepsLocks DEF StepStarts, LockInv
<1>8. CASE StepEnds \/ StepTimesOut
  <2>1. step'.state # "running" /\ turnLock = "scheduler"
    BY <1>8 DEF StepEnds, StepTimesOut, LockInv, TypeInv, ConvTypeOK, Locks
  <2> QED
    BY <1>8, <1>t, <2>1, StillKeepsLocks DEF StepEnds, StepTimesOut, LockInv
<1>9. CASE LateStepEnds
  <2>1. step'.state # "running"
    BY <1>9 DEF LateStepEnds, LockInv, TypeInv, ConvTypeOK
  <2> QED
    BY <1>9, <1>t, <2>1, StillKeepsLocks DEF LateStepEnds, LockInv
<1> QED
  BY <1>a, <1>0, <1>1, <1>2, <1>3, <1>4, <1>5, <1>6, <1>7, <1>8, <1>9
     DEF ConvNext, LoopNext, IdleNext, StepNext

LEMMA LocksBegin == ASSUME ConvInit PROVE LockInv
<1>1. Locks
  BY DEF ConvInit, Locks, Holds, Askers, Out
<1>2. ToolFlag
  BY DEF ConvInit, ToolFlag, Askers
<1> QED
  BY <1>1, <1>2, InitTyped DEF LockInv

LEMMA LocksSuffice == ASSUME LockInv PROVE OneConversation
<1>1. ASSUME NEW th \in Askers, pc[th] \in Out \cup {"note"} PROVE turnLock = th
  BY <1>1 DEF LockInv, TypeInv, Bounded, Locks, Holds, Askers, Out
<1>2. executing <=> \E th \in Askers : pc[th] = "tool"
  BY Zenon DEF LockInv, ToolFlag
<1> QED
  BY <1>1, <1>2, Zenon DEF OneConversation

\* OneConversation holds in every state, for any number of turns, rounds and
\* scheduled steps: run_command_turn_safe, _compact and _fire share one lock.
THEOREM ConversationIsOne == ConvSpec => []OneConversation
<1>1. ConvInit => LockInv
  BY LocksBegin
<1>2. LockInv /\ [ConvNext]_convVars => LockInv'
  BY LocksKept
<1>3. LockInv => OneConversation
  BY LocksSuffice
<1> QED
  BY <1>1, <1>2, <1>3, PTL DEF ConvSpec

----------------------------------------------------------------------------
\* What is remembered: each request out is in step with the memory.

\* What later turns are shown, and what is known to have been lost.
Shown == memory \cup summary \cup UNION {lost[reason] : reason \in Reasons}

\* A request out knows what the memory knows; its own reset has left nothing,
\* its own compaction has left what it was shown, and either waits for the
\* answer with the flag set.
Sound(th) ==
    LET r == req[th] IN
    /\ r.own = "reset" => said = {}
    /\ r.own # "reset" => /\ memory \cup summary \subseteq r.seen \cup {0}
                          /\ r.turn \in r.seen
                          /\ (r.base \cup r.seen) \cap old = {}
    /\ pc[th] \in Talking =>
          /\ r.own = "none" => r.base = IF provider = "openai" THEN memory ELSE {}
          /\ r.own = "compact" => summary = r.seen \ {0}
          /\ r.own # "none" => pending

Remembers ==
    /\ said \subseteq Shown
    /\ (memory \cup summary) \cap old = {}
    /\ \A th \in Askers : pc[th] \in Out => Sound(th)

Dated   == old \subseteq 1..turns
Emptied == pending => memory = {}

MemoryInv == LockInv /\ Dated /\ Emptied /\ (crossed \/ Remembers)

\* One request at a time, and none while a scheduled step has the lock.
LEMMA OneOut ==
  ASSUME LockInv, NEW th \in Askers, pc[th] \in Out
  PROVE  /\ turnLock = th /\ step.state # "running"
         /\ \A other \in Askers \ {th} : pc[other] \notin Out
         /\ executing <=> pc[th] = "tool"
<1>1. \A other \in Askers : pc[other] \in Out => turnLock = other
  BY DEF LockInv, Locks, Holds, Askers, Out
<1>2. th # "scheduler"
  BY DEF Askers
<1>3. /\ turnLock = th /\ step.state # "running"
      /\ \A other \in Askers \ {th} : pc[other] \notin Out
  BY <1>1, <1>2 DEF LockInv, Locks
<1>4. executing <=> pc[th] = "tool"
  BY <1>3, Zenon DEF LockInv, ToolFlag, Out
<1> QED
  BY <1>3, <1>4

LEMMA QuietRemembers ==
  ASSUME Remembers, UNCHANGED <<provider, memory, summary, pending, said, old, lost>>,
         \A th \in Askers : pc'[th] \in Out =>
            /\ pc[th] \in Out /\ (pc'[th] \in Talking => pc[th] \in Talking)
            /\ req'[th].own = req[th].own /\ req'[th].turn = req[th].turn
            /\ req'[th].base = req[th].base /\ req'[th].seen = req[th].seen
  PROVE  Remembers'
<1>1. Shown' = Shown
  BY DEF Shown
<1>2. ASSUME NEW th \in Askers, pc'[th] \in Out PROVE Sound(th)'
  BY <1>2 DEF Remembers, Sound
<1> QED
  BY <1>1, <1>2 DEF Remembers

\* A step of the first group leaves every other thread and its request alone.
LEMMA Elsewhere ==
  ASSUME LockInv, NEW th \in Askers, pc[th] \in Out, NEW place, Goto(th, place),
         NEW other \in Askers \ {th}
  PROVE  pc'[other] = pc[other] /\ pc'[other] \notin Out /\ pc'[th] = place
  BY OneOut DEF LockInv, TypeInv, ConvTypeOK, Goto

LEMMA RoundLeaves ==
  ASSUME LockInv, NEW th \in Askers, NEW own, EndRound(th, own)
  PROVE  /\ req'[th].own = own /\ req'[th].turn = req[th].turn
         /\ req'[th].base = req[th].base /\ req'[th].seen = req[th].seen
         /\ \A other \in Askers \ {th} : req'[other] = req[other] /\ pc'[other] = pc[other]
<1>1. PICK place \in {"waiting", "apply", "note"} : Goto(th, place)
  BY RoundGoes
<1>2. \A other \in Askers \ {th} : pc'[other] = pc[other]
  BY <1>1 DEF Goto, LockInv, TypeInv, ConvTypeOK
<1> DEFINE r == [req[th] EXCEPT !.rounds = @ + 1, !.own = own]
<1>3. req' = [req EXCEPT ![th] = r]
  BY DEF EndRound
<1>4. req[th] \in Requests
  BY DEF LockInv, TypeInv, ConvTypeOK
<1>5. r.own = own /\ r.turn = req[th].turn /\ r.base = req[th].base /\ r.seen = req[th].seen
  BY <1>4 DEF Requests
<1> HIDE DEF r
<1> QED
  BY <1>2, <1>3, <1>5 DEF LockInv, TypeInv, ConvTypeOK

LEMMA ResetRemembers ==
  ASSUME ResetConversation,
         \A th \in Askers : pc'[th] \in Out => req'[th].own = "reset" /\ pending'
  PROVE  Remembers'
<1>1. memory' = {} /\ summary' = {} /\ said' = {}
  BY DEF ResetConversation
<1> QED
  BY <1>1 DEF Remembers, Sound

\* A compaction keeps what its request was shown.
LEMMA CompactRemembers ==
  ASSUME LockInv, Remembers, NEW th \in Askers, pc[th] \in Out,
         CompactConversation(Carried(req[th])), UNCHANGED lost
  PROVE  said' \subseteq Shown' /\ (memory' \cup summary') \cap old' = {}
<1>1. Sound(th) /\ 0 \notin said
  BY DEF Remembers, LockInv, TypeInv, ConvTypeOK, Turns
<1>2. memory' = {} /\ summary' = Carried(req[th]) /\ said' = said /\ old' = old
  BY DEF CompactConversation
<1>3. CASE req[th].own = "reset"
  BY <1>1, <1>2, <1>3 DEF Sound, Carried
<1>4. CASE req[th].own # "reset"
  <2>1. summary' = req[th].seen \ {0}
    BY <1>2, <1>4 DEF Carried
  <2>2. memory \cup summary \subseteq summary' \cup {0} /\ summary' \cap old = {}
    BY <1>1, <1>4, <2>1 DEF Sound
  <2>3. Shown \subseteq Shown' \cup {0}
    BY <2>2 DEF Shown
  <2> QED
    BY <1>1, <1>2, <2>2, <2>3 DEF Remembers
<1> QED
  BY <1>3, <1>4

LEMMA SendRemembers ==
  ASSUME LockInv, Dated, Remembers, NEW th \in Askers, NEW turn \in 0..NTurns, Send(th, turn),
         turn = 0 \/ turn > turns, \A other \in Askers \ {th} : pc[other] \notin Out,
         UNCHANGED <<provider, memory, summary, pending, said, old, lost>>
  PROVE  Remembers'
<1>1. req'[th] = Asked(turn) /\ \A other \in Askers \ {th} : pc'[other] \notin Out
  BY SendAsks DEF LockInv, TypeInv, ConvTypeOK
<1>2. turn \notin old
  BY DEF Dated, LockInv, TypeInv, ConvTypeOK
<1>3. Shown' = Shown
  BY DEF Shown
<1>4. Sound(th)'
  BY <1>1, <1>2 DEF Sound, Asked, Remembers
<1> QED
  BY <1>1, <1>3, <1>4 DEF Remembers

LEMMA AnswerRemembersWell ==
  ASSUME LockInv, Emptied, Remembers, NEW th \in Askers,
         Answer(th) \/ AnswerIncomplete(th)
  PROVE  Remembers'
<1> DEFINE r == req[th]
<1>1. /\ pc[th] = "waiting" /\ pc[th] \in Out /\ pc[th] \in Talking /\ Sound(th)
      /\ UNCHANGED <<provider, summary, old>> /\ Goto(th, After(r))
  BY DEF Answer, AnswerIncomplete, NoteSaid, Remembers, Out, Talking, memoryVars
<1>2. /\ \A other \in Askers \ {th} : pc'[other] \notin Out
      /\ pc'[th] \notin Talking
  <2>1. PICK place \in {"apply", "note"} : Goto(th, place)
    BY <1>1 DEF After
  <2>2. pc'[th] = place
    BY <2>1 DEF Goto, LockInv, TypeInv, ConvTypeOK
  <2>3. ASSUME NEW other \in Askers \ {th} PROVE pc'[other] \notin Out
    BY <1>1, <2>1, Elsewhere
  <2> QED
    BY <2>2, <2>3 DEF Talking
<1>3. /\ req'[th].own = r.own /\ req'[th].turn = r.turn
      /\ req'[th].base = r.base /\ req'[th].seen = r.seen
  <2>1. ASSUME NEW text, req' = [req EXCEPT ![th].text = text]
        PROVE  /\ req'[th].own = r.own /\ req'[th].turn = r.turn
               /\ req'[th].base = r.base /\ req'[th].seen = r.seen
    BY <2>1 DEF LockInv, TypeInv, ConvTypeOK, Requests
  <2>2. req' = req \/ \E text : req' = [req EXCEPT ![th].text = text]
    BY DEF Answer, AnswerIncomplete
  <2> QED
    BY <2>1, <2>2
<1>4. said' = IF r.turn \in Turns /\ r.own # "reset" THEN said \cup {r.turn} ELSE said
  BY DEF Answer, AnswerIncomplete, NoteSaid
<1>5. \A reason \in Reasons : lost[reason] \subseteq lost'[reason]
  BY DEF Answer, AnswerIncomplete, NoteSaid, LockInv, TypeInv, ConvTypeOK
<1>6. Shown \subseteq memory \cup summary \cup UNION {lost'[reason] : reason \in Reasons}
  BY <1>5 DEF Shown
\* A turn whose tools have reset is not remembered; another one is, unless
\* the flag of a failed turn or a missing id has it lost.
<1>7. /\ memory' = memory \/ (memory' = memory \cup {r.turn} /\ r.own = "none")
      /\ r.own = "none" /\ r.turn \in Turns => r.turn \in Shown'
  <2>1. CASE Answer(th)
    <3>1. memory' = IF pending THEN memory ELSE memory \cup {r.turn}
      BY <1>1, <2>1 DEF Answer, Remember, RememberOpenAI, RememberCerebras, Sound, Emptied,
                        LockInv, TypeInv, ConvTypeOK, Requests
    <3>2. ~pending => r.own = "none"
      BY <1>1 DEF Sound, LockInv, TypeInv, ConvTypeOK, Requests
    <3>3. r.own = "none" /\ r.turn \in Turns /\ pending => r.turn \in lost'["leftover"]
      BY <2>1 DEF Answer, NoteSaid, Kept, LockInv, TypeInv, ConvTypeOK, Reasons
    <3> QED
      BY <3>1, <3>2, <3>3 DEF Shown, Reasons
  <2>2. CASE AnswerIncomplete(th)
    <3>1. memory' = memory
      BY <2>2 DEF AnswerIncomplete, memoryVars
    <3>2. r.own = "none" /\ r.turn \in Turns => r.turn \in lost'["unlinked"]
      BY <2>2 DEF AnswerIncomplete, NoteSaid, Kept, LockInv, TypeInv, ConvTypeOK, Reasons
    <3> QED
      BY <3>1, <3>2 DEF Shown, Reasons
  <2> QED
    BY <2>1, <2>2
<1>8. r.own = "compact" /\ r.turn \in Turns => r.turn \in Shown'
  BY <1>1 DEF Sound, Shown, Turns
<1>9. said' \subseteq Shown'
  <2>1. Shown \subseteq Shown'
    BY <1>1, <1>6, <1>7 DEF Shown
  <2>2. r.own \in {"none", "reset", "compact"}
    BY DEF LockInv, TypeInv, ConvTypeOK, Requests
  <2> QED
    BY <1>4, <1>7, <1>8, <2>1, <2>2 DEF Remembers
<1>10. (memory' \cup summary') \cap old' = {}
  BY <1>1, <1>7 DEF Remembers, Sound
<1>11. Sound(th)'
  BY <1>1, <1>2, <1>3, <1>4, <1>7 DEF Sound
<1> QED
  BY <1>2, <1>9, <1>10, <1>11 DEF Remembers

LEMMA ToolRemembers ==
  ASSUME LockInv, Remembers, NEW th \in Askers, BadArguments(th) \/ EndTool(th)
  PROVE  Remembers'
<1>1. /\ pc[th] \in Out /\ pc[th] \in Talking /\ Sound(th)
      /\ UNCHANGED <<provider, lost>>
  BY DEF BadArguments, EndTool, Out, Talking, Remembers
<1>2. ASSUME NEW own, EndRound(th, own)
      PROVE  /\ req'[th].own = own /\ req'[th].turn = req[th].turn
             /\ req'[th].base = req[th].base /\ req'[th].seen = req[th].seen
             /\ \A other \in Askers \ {th} :
                   req'[other] = req[other] /\ pc'[other] = pc[other] /\ pc'[other] \notin Out
  BY <1>1, <1>2, RoundLeaves, OneOut
<1>3. CASE BadArguments(th) \/ OtherTool(th)
  <2>1. EndRound(th, req[th].own) /\ UNCHANGED <<memory, summary, pending, said, old>>
    BY <1>3 DEF BadArguments, OtherTool, memoryVars
  <2> QED
    BY <1>1, <1>2, <2>1, QuietRemembers
<1>4. ASSUME EndTool(th), ResetConversation \/ CompactConversation(Carried(req[th])) PROVE pending'
  <2>1. executing
    BY <1>1, <1>4, OneOut DEF EndTool
  <2> QED
    BY <1>4, <2>1, Zenon DEF ResetConversation, CompactConversation
<1>5. CASE EndTool(th) /\ StartNewChat(th)
  BY <1>2, <1>4, <1>5, ResetRemembers DEF StartNewChat
<1>6. CASE EndTool(th) /\ CompactContext(th)
  <2> DEFINE own == IF req[th].own = "reset" THEN "reset" ELSE "compact"
  <2>1. EndRound(th, own) /\ CompactConversation(Carried(req[th])) /\ pending'
    BY <1>4, <1>6 DEF CompactContext
  <2>2. said' \subseteq Shown' /\ (memory' \cup summary') \cap old' = {}
    BY <1>1, <2>1, CompactRemembers
  <2>3. memory' = {} /\ summary' = Carried(req[th]) /\ said' = said /\ old' = old
    BY <2>1 DEF CompactConversation
  <2>4. Sound(th)'
    BY <1>1, <1>2, <2>1, <2>3 DEF Sound, Carried
  <2> QED
    BY <1>2, <2>1, <2>2, <2>4 DEF Remembers
<1> QED
  BY <1>3, <1>5, <1>6 DEF EndTool

LEMMA ApplyRemembers ==
  ASSUME LockInv, Remembers, NEW th \in Askers, Apply(th)
  PROVE  Remembers'
<1>1. pc[th] \in Out /\ pc[th] = "apply"
  BY DEF Apply, Out
<1>2. PICK place \in {"settle", "unlock"} : Goto(th, place)
  BY DEF Apply
<1>3. \A other \in Askers : pc'[other] \notin Out
  <2>1. pc'[th] = place
    BY <1>2 DEF Goto, LockInv, TypeInv, ConvTypeOK
  <2>2. ASSUME NEW other \in Askers \ {th} PROVE pc'[other] \notin Out
    BY <1>1, <1>2, Elsewhere
  <2> QED
    BY <2>1, <2>2 DEF Out
<1>4. CASE CompactConversation(SummaryKept(req[th])) /\ UNCHANGED lost
  BY <1>1, <1>3, <1>4, CompactRemembers DEF SummaryKept, Remembers
<1>5. CASE CompactConversation({}) /\ lost' = [lost EXCEPT !["echo"] = @ \cup said]
  <2>1. said \subseteq lost'["echo"] /\ "echo" \in Reasons
    BY <1>5 DEF LockInv, TypeInv, ConvTypeOK, Reasons
  <2>2. said' \subseteq Shown'
    BY <1>5, <2>1 DEF CompactConversation, Shown
  <2> QED
    BY <1>3, <1>5, <2>2 DEF CompactConversation, Remembers
<1>6. CASE ResetConversation
  BY <1>3, <1>6, ResetRemembers
<1> QED
  BY <1>4, <1>5, <1>6 DEF Apply, ApplySummary

\* What one thread does of itself, in one lemma.
LEMMA AskerRemembers ==
  ASSUME LockInv, Dated, Emptied, Remembers, NEW th \in Askers, AskerNext(th)
  PROVE  Remembers'
<1>1. CASE Answer(th) \/ AnswerIncomplete(th)
  BY <1>1, AnswerRemembersWell
<1>2. CASE BadArguments(th) \/ EndTool(th)
  BY <1>2, ToolRemembers
<1>3. CASE Apply(th)
  BY <1>3, ApplyRemembers
<1>4. CASE AskSummary(th)
  <2>1. /\ turnLock \in {None, th} /\ Send(th, 0) /\ 0 \in 0..NTurns
        /\ UNCHANGED <<provider, memory, summary, pending, said, old, lost>>
    BY <1>4, ConversationAssumption DEF AskSummary, LockFree, memoryVars, ghostVars
  <2>2. \A other \in Askers \ {th} : pc[other] \notin Out
    BY <2>1, OneOut, ConversationAssumption DEF Askers
  <2> QED
    BY <2>1, <2>2, SendRemembers
<1>5. CASE Fail(th) \/ BeginTool(th) \/ Check(th) \/ Settle(th)
  <2>1. UNCHANGED <<provider, memory, summary, pending, said, old, lost, req>>
    BY <1>5 DEF Fail, BeginTool, Check, Settle, memoryVars, ghostVars
  <2>2. PICK place \in Places : Goto(th, place) /\ (place \in Out => pc[th] = "waiting")
    BY <1>5 DEF Fail, BeginTool, Check, Settle, After, Return, Places, Out
  <2>3. place \in Talking => pc[th] \in Talking
    BY <2>2 DEF Talking, Out
  <2>4. \A other \in Askers : pc'[other] = IF other = th THEN place ELSE pc[other]
    BY <2>2 DEF Goto, LockInv, TypeInv, ConvTypeOK
  <2> QED
    BY <2>1, <2>2, <2>3, <2>4, QuietRemembers DEF Out
<1> QED
  BY <1>1, <1>2, <1>3, <1>4, <1>5 DEF AskerNext

\* Steps of the loop, the idle thread and the clock that ask nothing.
LEMMA PlainRemembers ==
  ASSUME LockInv, Remembers,
         \/ NoteTurn \/ TurnRaises \/ EndTurn \/ Stop \/ TimePasses
         \/ IdleDue \/ IdleStops \/ Unlock \/ StepStarts \/ StepTimesOut
  PROVE  Remembers'
<1>1. UNCHANGED <<provider, memory, summary, pending, said, old, lost>>
  BY DEF NoteTurn, TurnRaises, EndTurn, Stop, TimePasses, IdleDue, IdleStops, Unlock,
         StepStarts, StepTimesOut, memoryVars, ghostVars
<1>2. \A th \in Askers : pc'[th] \in Out => pc'[th] = pc[th] /\ req'[th] = req[th]
  <2>1. CASE NoteTurn \/ TurnRaises
    <3>1. PICK place \in {"check", "end"} : Goto("loop", place) /\ Forget("loop")
      BY <2>1 DEF NoteTurn, TurnRaises
    <3> QED
      BY <3>1 DEF Goto, Forget, Askers, Out, LockInv, TypeInv, ConvTypeOK
  <2>2. CASE EndTurn \/ Stop \/ IdleDue \/ IdleStops \/ Unlock
    <3>1. PICK th \in Askers, place \in {"listening", "gone", "check", "settle"} : Goto(th, place)
      BY <2>2 DEF EndTurn, Stop, IdleDue, IdleStops, Unlock, Askers
    <3>2. req' = req
      BY <2>2 DEF EndTurn, Stop, IdleDue, IdleStops, Unlock
    <3> QED
      BY <3>1, <3>2 DEF Goto, Out, LockInv, TypeInv, ConvTypeOK
  <2>3. CASE TimePasses \/ StepStarts \/ StepTimesOut
    BY <2>3 DEF TimePasses, StepStarts, StepTimesOut
  <2> QED
    BY <2>1, <2>2, <2>3
<1> QED
  BY <1>1, <1>2, QuietRemembers

LEMMA RemembersKept ==
  ASSUME LockInv, Dated, Emptied, Remembers, [ConvNext]_convVars, ~crossed'
  PROVE  Remembers'
<1>a. "loop" \in Askers /\ "idle" \in Askers
  BY DEF Askers
<1>1. CASE UNCHANGED convVars
  <2>1. UNCHANGED <<provider, memory, summary, pending, said, old, lost, pc, req>>
    BY <1>1 DEF convVars
  <2> QED
    BY <2>1, QuietRemembers
<1>2. CASE BeginTurn
  <2>1. /\ turnLock = None /\ Send("loop", turns + 1)
        /\ UNCHANGED <<provider, memory, summary, pending, said, old, lost>>
    BY <1>2 DEF BeginTurn, memoryVars, ghostVars
  <2>2. turns + 1 \in 0..NTurns /\ turns + 1 > turns
    BY <1>2, ConversationAssumption DEF BeginTurn, LockInv, TypeInv, ConvTypeOK
  <2>3. \A other \in Askers \ {"loop"} : pc[other] \notin Out
    BY <2>1, OneOut, ConversationAssumption DEF Askers
  <2> QED
    BY <1>a, <2>1, <2>2, <2>3, SendRemembers
<1>3. CASE StepEnds
  <2>1. \A th \in Askers : pc[th] \notin Out
    BY <1>3, OneOut DEF StepEnds
  <2>2. ResetConversation /\ pc' = pc
    BY <1>3 DEF StepEnds
  <2> QED
    BY <2>1, <2>2, ResetRemembers
<1>4. CASE LateStepEnds
  <2>1. \A th \in Askers : pc[th] \notin Out
    BY <1>4, Zenon DEF LateStepEnds
  <2>2. ResetConversation /\ pc' = pc
    BY <1>4 DEF LateStepEnds
  <2> QED
    BY <2>1, <2>2, ResetRemembers
<1> QED
  BY <1>a, <1>1, <1>2, <1>3, <1>4, AskerRemembers, PlainRemembers
     DEF ConvNext, LoopNext, IdleNext, StepNext

\* What any step may do to the memory, the dates and the marks.
LEMMA Moves ==
  ASSUME LockInv, [ConvNext]_convVars
  PROVE  /\ memory' = {} \/ pending' = FALSE \/ UNCHANGED <<memory, pending>>
         /\ old' = old \/ old' = 1..turns
         /\ turns' = turns \/ turns' = turns + 1
         /\ crossed => crossed'
<1> USE DEF memoryVars, ghostVars, ResetConversation, CompactConversation
<1>a. "loop" \in Askers /\ "idle" \in Askers
  BY DEF Askers
<1>0. CASE UNCHANGED convVars
  BY <1>0 DEF convVars
<1>1. ASSUME NEW th \in Askers, AskerNext(th)
      PROVE  /\ memory' = {} \/ pending' = FALSE \/ UNCHANGED <<memory, pending>>
             /\ old' = old \/ old' = 1..turns
             /\ turns' = turns /\ crossed' = crossed
  <2>1. CASE Answer(th) \/ AnswerIncomplete(th)
    BY <2>1 DEF Answer, AnswerIncomplete, Remember, PendingAfter, NoteSaid
  <2>2. CASE Fail(th) \/ BeginTool(th) \/ BadArguments(th) \/ Check(th) \/ AskSummary(th) \/ Settle(th)
    BY <2>2 DEF Fail, BeginTool, BadArguments, Check, AskSummary, Settle
  <2>3. CASE EndTool(th)
    BY <2>3 DEF EndTool, OtherTool, StartNewChat, CompactContext
  <2>4. CASE Apply(th)
    BY <2>4 DEF Apply, ApplySummary
  <2> QED
    BY <1>1, <2>1, <2>2, <2>3, <2>4 DEF AskerNext
<1>2. CASE NoteTurn \/ TurnRaises \/ EndTurn \/ IdleDue \/ IdleStops \/ Unlock
  BY <1>2 DEF NoteTurn, TurnRaises, EndTurn, IdleDue, IdleStops, Unlock
<1>3. CASE BeginTurn \/ Stop \/ TimePasses \/ StepStarts
  BY <1>3 DEF BeginTurn, Stop, TimePasses, StepStarts
<1>4. CASE StepEnds \/ StepTimesOut
  BY <1>4 DEF StepEnds, StepTimesOut
<1>5. CASE LateStepEnds
  <2>1. crossed => crossed'
    BY <1>5, Zenon DEF LateStepEnds
  <2> QED
    BY <1>5, <2>1 DEF LateStepEnds
<1> QED
  BY <1>a, <1>0, <1>1, <1>2, <1>3, <1>4, <1>5 DEF ConvNext, LoopNext, IdleNext, StepNext

LEMMA MemoryBegins == ASSUME ConvInit PROVE MemoryInv
<1>1. LockInv
  BY LocksBegin
<1>2. Dated /\ Emptied /\ Remembers
  BY DEF ConvInit, Dated, Emptied, Remembers, Askers, Out
<1> QED
  BY <1>1, <1>2 DEF MemoryInv

LEMMA MemoryKept == ASSUME MemoryInv, [ConvNext]_convVars PROVE MemoryInv'
<1>1. LockInv'
  BY LocksKept DEF MemoryInv
<1>2. Emptied'
  BY Moves DEF MemoryInv, Emptied
<1>3. Dated'
  <2>1. /\ old' = old \/ old' = 1..turns
        /\ turns' = turns \/ turns' = turns + 1
    BY Moves, Zenon DEF MemoryInv
  <2>2. turns \in Nat /\ old \subseteq 1..turns
    BY ConversationAssumption DEF MemoryInv, Dated, LockInv, TypeInv, ConvTypeOK
  <2>3. 1..turns \subseteq 1..turns'
    BY <2>1, <2>2
  <2> QED
    BY <2>1, <2>2, <2>3 DEF Dated
<1>4. crossed' \/ Remembers'
  BY Moves, RemembersKept DEF MemoryInv
<1> QED
  BY <1>1, <1>2, <1>3, <1>4 DEF MemoryInv

\* NextTurnFresh holds in every state: a turn from before a reset comes back
\* in no request, wherever the reset came from and whatever failed after it,
\* unless a scheduled step out of time reset under a request.
THEOREM ResetForgets == ConvSpec => []NextTurnFresh
<1>1. MemoryInv => NextTurnFresh
  BY Zenon DEF MemoryInv, Remembers, NextTurnFresh
<1>2. ConvInit => MemoryInv
  BY MemoryBegins
<1>3. MemoryInv /\ [ConvNext]_convVars => MemoryInv'
  BY MemoryKept
<1> QED
  BY <1>1, <1>2, <1>3, PTL DEF ConvSpec

\* KeepsWhatWasSaid holds in every state: an answered turn stays in what the
\* model is shown, through any compaction, unless one of three known ways
\* (a flag left set, an answer without an id, an echoed summary) loses it.
THEOREM AnswersAreKept == ConvSpec => []KeepsWhatWasSaid
<1>1. MemoryInv => KeepsWhatWasSaid
  BY Zenon DEF MemoryInv, Remembers, KeepsWhatWasSaid, Shown
<1>2. ConvInit => MemoryInv
  BY MemoryBegins
<1>3. MemoryInv /\ [ConvNext]_convVars => MemoryInv'
  BY MemoryKept
<1> QED
  BY <1>1, <1>2, <1>3, PTL DEF ConvSpec

----------------------------------------------------------------------------
\* A flag left set costs one turn.

\* A flag that no request under way will consume for itself.
Stray == pending /\ \A th \in Askers : pc[th] \in Talking => req[th].own = "none"

Left == lost["leftover"]

LeftInv == crossed \/ Cardinality(Left) + (IF Stray THEN 1 ELSE 0) <= spoiled

LEMMA TurnsAreFinite ==
  ASSUME NEW set \in SUBSET Turns
  PROVE  IsFiniteSet(set) /\ Cardinality(set) \in Nat
<1>1. IsFiniteSet(Turns)
  BY FS_Interval, ConversationAssumption DEF Turns
<1> QED
  BY <1>1, FS_Subset, FS_CardinalityType

\* The three things a step may do to the account.
LEMMA AccountKept ==
  ASSUME LockInv, LockInv', LeftInv, crossed => crossed',
         \/ Left' = Left /\ spoiled' = spoiled /\ (Stray' => Stray)
         \/ Left' = Left /\ spoiled' = spoiled + 1
         \/ /\ spoiled' = spoiled /\ ~Stray'
            /\ Left' = Left \/ (Stray /\ \E turn : Left' = Left \cup {turn})
         \/ crossed'
  PROVE  LeftInv'
<1> DEFINE owed  == IF Stray THEN 1 ELSE 0
           owed2 == IF Stray' THEN 1 ELSE 0
           card  == Cardinality(Left)
           card2 == Cardinality(Left')
<1>0. Left \in SUBSET Turns /\ Left' \in SUBSET Turns
  BY DEF LockInv, TypeInv, ConvTypeOK, Left, Reasons
<1>1. card \in Nat /\ card2 \in Nat /\ owed \in 0..1 /\ owed2 \in 0..1
  BY <1>0, TurnsAreFinite
<1>2. spoiled \in Nat
  BY DEF LockInv, TypeInv, ConvTypeOK
<1>3. ASSUME NEW turn, Left' = Left \cup {turn} PROVE card2 <= card + 1
  <2>1. Cardinality(Left \cup {turn}) = card \/ Cardinality(Left \cup {turn}) = card + 1
    BY <1>0, TurnsAreFinite, FS_AddElement
  <2> QED
    BY <1>1, <1>3, <2>1
<1>4. CASE crossed'
  BY <1>4, Zenon DEF LeftInv
<1>5. ASSUME ~crossed' PROVE card2 + owed2 <= spoiled'
  <2>1. card + owed <= spoiled
    BY <1>5, Zenon DEF LeftInv
  <2>2. CASE Left' = Left /\ spoiled' = spoiled /\ (Stray' => Stray)
    <3>1. card2 = card
      BY <2>2, Zenon
    <3>2. owed2 <= owed
      BY <2>2
    <3> HIDE DEF card, card2, owed, owed2
    <3> QED
      BY <1>1, <1>2, <2>1, <2>2, <3>1, <3>2
  <2>3. CASE Left' = Left /\ spoiled' = spoiled + 1
    <3>1. card2 = card
      BY <2>3, Zenon
    <3> HIDE DEF card, card2, owed, owed2
    <3> QED
      BY <1>1, <1>2, <2>1, <2>3, <3>1
  <2>4. CASE spoiled' = spoiled /\ ~Stray' /\ Left' = Left
    <3>1. card2 = card /\ owed2 = 0
      BY <2>4, Zenon
    <3> HIDE DEF card, card2, owed, owed2
    <3> QED
      BY <1>1, <1>2, <2>1, <2>4, <3>1
  <2>5. CASE spoiled' = spoiled /\ ~Stray' /\ Stray /\ \E turn : Left' = Left \cup {turn}
    <3>1. owed = 1 /\ owed2 = 0
      BY <2>5, Zenon
    <3>2. card2 <= card + 1
      BY <1>3, <2>5
    <3> HIDE DEF card, card2, owed, owed2
    <3> QED
      BY <1>1, <1>2, <2>1, <2>5, <3>1, <3>2
  <2> QED
    BY <1>5, <2>2, <2>3, <2>4, <2>5
<1> QED
  BY <1>4, <1>5, Zenon DEF LeftInv

\* The flag goes on straying only where it strayed before.
LEMMA StrayBefore ==
  ASSUME pending' => pending,
         \A th \in Askers : pc[th] \in Talking =>
             req[th].own = "none" \/ (pc'[th] \in Talking /\ req'[th].own # "none")
  PROVE  Stray' => Stray
  BY Zenon DEF Stray

\* What one step does to the account.
Accounted ==
    \/ Left' = Left /\ spoiled' = spoiled /\ (Stray' => Stray)
    \/ Left' = Left /\ spoiled' = spoiled + 1
    \/ /\ spoiled' = spoiled /\ ~Stray'
       /\ Left' = Left \/ (Stray /\ \E turn : Left' = Left \cup {turn})
    \/ crossed'

\* A reset outside a tool call raises no flag.
LEMMA IdleReset ==
  ASSUME LockInv, ResetConversation \/ \E carried : CompactConversation(carried),
         \A th \in Askers : pc[th] # "tool"
  PROVE  pending' => pending
<1>1. ~executing
  BY Zenon DEF LockInv, ToolFlag
<1> QED
  BY <1>1, Zenon DEF ResetConversation, CompactConversation

LEMMA AnswerAccounted ==
  ASSUME LockInv, NEW th \in Askers, Answer(th) \/ AnswerIncomplete(th) \/ Fail(th)
  PROVE  Accounted
<1> DEFINE r == req[th]
<1>1. pc[th] = "waiting" /\ pc[th] \in Out /\ pc[th] \in Talking
  BY DEF Answer, AnswerIncomplete, Fail, Out, Talking
<1>o. \A other \in Askers \ {th} : pc[other] \notin Talking
  BY <1>1, OneOut DEF Out, Talking
<1>2. CASE Answer(th)
  <2>1. spoiled' = spoiled /\ pending' = FALSE
    BY <1>2 DEF Answer, Remember, PendingAfter
  <2>2. Left' = Left \/ (r.own = "none" /\ pending /\ Left' = Left \cup {r.turn})
    BY <1>2 DEF Answer, NoteSaid, Kept, Left, LockInv, TypeInv, ConvTypeOK, Reasons
  <2>3. r.own = "none" /\ pending => Stray
    BY <1>o, Zenon DEF Stray
  <2>4. ~Stray'
    BY <2>1, Zenon DEF Stray
  <2> QED
    BY <2>1, <2>2, <2>3, <2>4 DEF Accounted
<1>3. CASE AnswerIncomplete(th) \/ Fail(th)
  <2>1. /\ spoiled' = SpoiledAfter(r) /\ pending' = pending /\ req' = req
        /\ Goto(th, After(r))
    BY <1>3 DEF AnswerIncomplete, Fail, memoryVars
  <2>2. Left' = Left
    BY <1>3 DEF AnswerIncomplete, Fail, NoteSaid, Left, LockInv, TypeInv, ConvTypeOK, Reasons
  <2>3. CASE pending /\ r.own # "none"
    <3>1. spoiled' = spoiled + 1
      BY <2>1, <2>3 DEF SpoiledAfter
    <3> QED
      BY <2>2, <3>1 DEF Accounted
  <2>4. CASE ~(pending /\ r.own # "none")
    <3>1. spoiled' = spoiled
      BY <2>1, <2>4 DEF SpoiledAfter, LockInv, TypeInv, ConvTypeOK
    <3>2. Stray' => Stray
      BY <1>o, <2>1, <2>4, Zenon DEF Stray
    <3> QED
      BY <2>2, <3>1, <3>2 DEF Accounted
  <2> QED
    BY <2>3, <2>4
<1> QED
  BY <1>2, <1>3

LEMMA ToolAccounted ==
  ASSUME LockInv, NEW th \in Askers, BadArguments(th) \/ EndTool(th)
  PROVE  Accounted
<1>1. pc[th] \in Out /\ pc[th] \in Talking /\ Left' = Left
  BY DEF BadArguments, EndTool, Out, Talking, Left
<1>2. PICK own : EndRound(th, own) /\ (req[th].own # "none" => own # "none")
               /\ (pending' = pending \/ own # "none")
  <2>1. CASE BadArguments(th) \/ OtherTool(th)
    BY <2>1 DEF BadArguments, OtherTool, memoryVars
  <2>2. CASE StartNewChat(th) \/ CompactContext(th)
    BY <2>2 DEF StartNewChat, CompactContext
  <2> QED
    BY <2>1, <2>2 DEF EndTool
<1>3. /\ req'[th].own = own
      /\ \A other \in Askers \ {th} : req'[other] = req[other] /\ pc'[other] = pc[other]
  BY <1>2, RoundLeaves
<1>o. \A other \in Askers \ {th} : pc[other] \notin Talking
  BY <1>1, OneOut DEF Out, Talking
<1> DEFINE r == [req[th] EXCEPT !.rounds = @ + 1, !.own = own]
<1>4. /\ Goto(th, IF MoreRounds(r) THEN "waiting" ELSE After(r))
      /\ spoiled' = IF MoreRounds(r) THEN spoiled
                    ELSE spoiled + (IF pending' /\ own # "none" THEN 1 ELSE 0)
  BY <1>2 DEF EndRound
<1> HIDE DEF r
<1>5. CASE ~MoreRounds(r) /\ pending' /\ own # "none"
  <2>1. spoiled' = spoiled + 1
    BY <1>4, <1>5
  <2> QED
    BY <1>1, <2>1 DEF Accounted
<1>6. CASE ~MoreRounds(r) /\ ~(pending' /\ own # "none")
  <2>1. spoiled' = spoiled
    BY <1>4, <1>6 DEF LockInv, TypeInv, ConvTypeOK
  <2>2. ~Stray' \/ (req[th].own = "none" /\ pending' = pending)
    BY <1>2, <1>6, Zenon DEF Stray
  <2>3. Stray' => Stray
    BY <1>o, <2>2, Zenon DEF Stray
  <2> QED
    BY <1>1, <2>1, <2>3 DEF Accounted
<1>7. CASE MoreRounds(r)
  <2>1. spoiled' = spoiled
    BY <1>4, <1>7
  <2>2. pc'[th] \in Talking
    BY <1>4, <1>7 DEF Goto, Talking, LockInv, TypeInv, ConvTypeOK
  <2>3. own # "none" => ~Stray'
    BY <1>3, <2>2, Zenon DEF Stray
  <2>4. own = "none" => (Stray' => Stray)
    BY <1>2, <1>o, Zenon DEF Stray
  <2> QED
    BY <1>1, <2>1, <2>3, <2>4 DEF Accounted
<1> QED
  BY <1>5, <1>6, <1>7

\* Steps that leave the flag alone, and the requests under way.
LEMMA QuietAccounted ==
  ASSUME UNCHANGED <<pending, lost, spoiled>>,
         \A th \in Askers : pc[th] \in Talking => pc'[th] \in Talking /\ req'[th] = req[th]
  PROVE  Accounted
<1>1. Stray' => Stray
  BY StrayBefore
<1> QED
  BY <1>1 DEF Accounted, Left

LEMMA PlainAccounted ==
  ASSUME LockInv,
         \/ BeginTurn \/ NoteTurn \/ TurnRaises \/ EndTurn \/ Stop \/ TimePasses
         \/ IdleDue \/ IdleStops \/ Unlock \/ StepStarts \/ StepTimesOut
         \/ \E th \in Askers : BeginTool(th) \/ Check(th) \/ Settle(th) \/ AskSummary(th)
  PROVE  Accounted
<1>1. UNCHANGED <<pending, lost, spoiled>>
  BY DEF BeginTurn, NoteTurn, TurnRaises, EndTurn, Stop, TimePasses, IdleDue, IdleStops, Unlock,
         StepStarts, StepTimesOut, BeginTool, Check, Settle, AskSummary, memoryVars, ghostVars
<1>2. CASE UNCHANGED <<pc, req>>
  BY <1>1, <1>2, QuietAccounted
<1>3. ASSUME NEW th \in Askers, NEW place, Goto(th, place),
             pc[th] \notin Talking \/ (place \in Talking /\ req' = req),
             req' = req \/ \E new : req' = [req EXCEPT ![th] = new]
      PROVE  Accounted
  <2>1. \A other \in Askers :
          pc[other] \in Talking => pc'[other] \in Talking /\ req'[other] = req[other]
    BY <1>3 DEF Goto, LockInv, TypeInv, ConvTypeOK
  <2> QED
    BY <1>1, <2>1, QuietAccounted
<1>4. CASE BeginTurn \/ NoteTurn \/ TurnRaises
  <2>1. PICK place : Goto("loop", place)
    BY <1>4 DEF BeginTurn, Send, NoteTurn, TurnRaises
  <2>2. "loop" \in Askers /\ pc["loop"] \notin Talking /\ \E new : req' = [req EXCEPT !["loop"] = new]
    BY <1>4 DEF BeginTurn, Send, NoteTurn, TurnRaises, Forget, Askers, Talking
  <2> QED
    BY <1>3, <2>1, <2>2
<1>5. CASE EndTurn \/ Stop \/ IdleDue \/ IdleStops \/ Unlock
  <2>1. PICK th \in Askers : (\E place : Goto(th, place)) /\ pc[th] \notin Talking
    BY <1>5 DEF EndTurn, Stop, IdleDue, IdleStops, Unlock, Askers, Talking
  <2>2. req' = req
    BY <1>5 DEF EndTurn, Stop, IdleDue, IdleStops, Unlock
  <2> QED
    BY <1>3, <2>1, <2>2
<1>6. CASE TimePasses \/ StepStarts \/ StepTimesOut
  BY <1>2, <1>6 DEF TimePasses, StepStarts, StepTimesOut
<1>7. ASSUME NEW th \in Askers, BeginTool(th) \/ Check(th) \/ Settle(th) \/ AskSummary(th)
      PROVE  Accounted
  <2>1. PICK place : Goto(th, place) /\ (pc[th] \in Talking => place \in Talking /\ req' = req)
    BY <1>7 DEF BeginTool, Check, Settle, AskSummary, Send, Talking
  <2>2. req' = req \/ \E new : req' = [req EXCEPT ![th] = new]
    BY <1>7 DEF BeginTool, Check, Settle, AskSummary, Send
  <2> QED
    BY <1>3, <2>1, <2>2
<1> QED
  BY <1>4, <1>5, <1>6, <1>7

LEMMA ResetAccounted ==
  ASSUME LockInv, StepEnds \/ LateStepEnds \/ \E th \in Askers : Apply(th)
  PROVE  Accounted
<1>1. CASE StepEnds \/ LateStepEnds
  <2>1. (\A th \in Askers : pc[th] \notin Out) \/ crossed'
    BY <1>1, OneOut DEF StepEnds, LateStepEnds
  <2>2. ASSUME \A th \in Askers : pc[th] \notin Out PROVE Accounted
    <3>1. \A th \in Askers : pc[th] \notin Talking /\ pc[th] # "tool"
      BY <2>2 DEF Out, Talking
    <3>2. pending' => pending
      BY <1>1, <3>1, IdleReset DEF StepEnds, LateStepEnds
    <3>3. Stray' => Stray
      BY <3>1, <3>2, StrayBefore
    <3> QED
      BY <1>1, <3>3 DEF StepEnds, LateStepEnds, Accounted, Left
  <2> QED
    BY <2>1, <2>2 DEF Accounted
<1>2. ASSUME NEW th \in Askers, Apply(th) PROVE Accounted
  <2>1. pc[th] = "apply" /\ \A other \in Askers \ {th} : pc[other] \notin Out
    BY <1>2, OneOut DEF Apply, Out
  <2>2. \A other \in Askers : pc[other] \notin Talking /\ pc[other] # "tool"
    BY <2>1 DEF Out, Talking
  <2>3. pending' => pending
    BY <1>2, <2>2, IdleReset DEF Apply, ApplySummary
  <2>4. Stray' => Stray
    BY <2>2, <2>3, StrayBefore
  <2>5. Left' = Left /\ spoiled' = spoiled
    BY <1>2 DEF Apply, ApplySummary, Left, LockInv, TypeInv, ConvTypeOK, Reasons
  <2> QED
    BY <2>4, <2>5 DEF Accounted
<1> QED
  BY <1>1, <1>2

LEMMA AccountStep == ASSUME LockInv, [ConvNext]_convVars PROVE Accounted
<1>a. "loop" \in Askers /\ "idle" \in Askers
  BY DEF Askers
<1>1. CASE UNCHANGED convVars
  <2>1. UNCHANGED <<pending, lost, spoiled, pc, req>>
    BY <1>1 DEF convVars
  <2> QED
    BY <2>1, QuietAccounted
<1>2. ASSUME NEW th \in Askers, AskerNext(th) PROVE Accounted
  BY <1>2, AnswerAccounted, ToolAccounted, PlainAccounted, ResetAccounted DEF AskerNext
<1> QED
  BY <1>a, <1>1, <1>2, PlainAccounted, ResetAccounted DEF ConvNext, LoopNext, IdleNext, StepNext

\* ForgetsAtMostOne holds in every state: the answered turns that a flag left
\* set has cost are no more than the requests that failed after a reset.
THEOREM FlagCostsOne == ConvSpec => []ForgetsAtMostOne
<1> DEFINE Inv == LockInv /\ LeftInv
<1>1. ConvInit => Inv
  <2>1. ASSUME ConvInit PROVE LeftInv
    <3>1. ~Stray
      BY <2>1, Zenon DEF ConvInit, Stray
    <3>2. Cardinality(Left) = 0 /\ spoiled = 0
      BY <2>1, FS_EmptySet DEF ConvInit, Left, Reasons
    <3>3. Cardinality(Left) + 0 <= spoiled
      BY <3>2
    <3> QED
      BY <3>1, <3>3 DEF LeftInv
  <2> QED
    BY <2>1, LocksBegin
<1>2. Inv /\ [ConvNext]_convVars => Inv'
  BY LocksKept, Moves, AccountStep, AccountKept DEF Accounted
<1>3. Inv => ForgetsAtMostOne
  <2> SUFFICES ASSUME Inv, ~crossed
               PROVE  Cardinality(Left) + (IF pending /\ \A th \in Askers : pc[th] \notin Out
                                           THEN 1 ELSE 0) <= spoiled
    BY Zenon DEF ForgetsAtMostOne, Left
  <2> DEFINE free == IF pending /\ \A th \in Askers : pc[th] \notin Out THEN 1 ELSE 0
             owed == IF Stray THEN 1 ELSE 0
             card == Cardinality(Left)
  <2>1. free = 1 => owed = 1
    BY DEF Stray, Out, Talking
  <2>2. card + owed <= spoiled
    BY Zenon DEF LeftInv
  <2>3. card \in Nat /\ spoiled \in Nat
    <3>1. Left \in SUBSET Turns
      BY DEF LockInv, TypeInv, ConvTypeOK, Left, Reasons
    <3> QED
      BY <3>1, TurnsAreFinite DEF LockInv, TypeInv, ConvTypeOK
  <2>4. free \in 0..1 /\ owed \in 0..1
    OBVIOUS
  <2> HIDE DEF free, owed, card
  <2>5. card + free <= spoiled
    BY <2>1, <2>2, <2>3, <2>4
  <2> QED
    BY <2>5 DEF free, card
<1> QED
  BY <1>1, <1>2, <1>3, PTL DEF ConvSpec

----------------------------------------------------------------------------
(* The conversation implements TurnMemory.                                 *)

\* Nothing is known, shown or asked about that has not been asked; only a
\* request for a summary is applied, and an acknowledgement is of its own tool.
Asking ==
    /\ memory \cup summary \subseteq 0..turns
    /\ \A th \in Askers : pc[th] \in Out =>
          LET r == req[th] IN
          /\ r.base \cup r.seen \subseteq 0..turns /\ r.turn \in {0, turns}
          /\ pc[th] \in Talking => r.text = "blank"
          /\ pc[th] = "apply" => r.turn = 0 /\ (r.text = "echo" => r.own = "compact")

\* A request has been shown no more than is known: what its tools have left,
\* and the turn it asks.
Exact(th) ==
    LET r == req[th] IN
    /\ r.own = "reset" => Known = {}
    /\ r.own # "reset" => r.seen \subseteq Known \cup {0, r.turn}

Recalls == \A th \in Askers : pc[th] \in Out => Exact(th)

RecallInv == MemoryInv /\ Asking /\ (crossed \/ Recalls)

\* What has to be shown of every step.
Recalled == Asking' /\ (crossed' \/ Recalls') /\ [Memory!Next]_(Memory!conversation)

\* Where one thread at most has a request out.
LEMMA OnlyRequest ==
  ASSUME NEW f, NEW g, NEW th \in Askers, \A other \in Askers \ {th} : f[other] \notin Out
  PROVE  {<<asker, About(g[asker])>> : asker \in {a \in Askers : f[a] \in Out}}
           = IF f[th] \in Out THEN {<<th, About(g[th])>>} ELSE {}
OBVIOUS

\* The turns are numbers, and what is known are some of them.
LEMMA KnownTurns ==
  ASSUME MemoryInv, Asking
  PROVE  turns \in Nat /\ Known \subseteq 1..turns /\ old \subseteq 1..turns
<1>1. turns \in Nat /\ old \subseteq 1..turns
  BY ConversationAssumption DEF MemoryInv, Dated, LockInv, TypeInv, ConvTypeOK
<1>2. ASSUME NEW t \in Known PROVE t \in 1..turns
  <2>1. t \in 0..turns /\ t # 0
    BY <1>2 DEF Asking, Known
  <2> QED
    BY <1>1, <2>1
<1> QED
  BY <1>1, <1>2

\* Steps that leave the memory, and end a request or leave it.
LEMMA QuietRecalls ==
  ASSUME RecallInv, UNCHANGED <<memory, summary, old, turns, crossed>>,
         \A th \in Askers : pc'[th] \in Out =>
            /\ pc[th] \in Out
            /\ pc'[th] \in Talking => pc[th] \in Talking
            /\ pc'[th] = "apply" => req[th].turn = 0 /\ (req[th].text # "echo" \/ pc[th] = "apply")
            /\ req'[th].own = req[th].own /\ req'[th].turn = req[th].turn
            /\ req'[th].base = req[th].base /\ req'[th].seen = req[th].seen
            /\ req'[th].text = req[th].text,
         \/ \A th \in Askers : pc[th] \in Out => pc'[th] \in Out
         \/ \A th \in Askers : pc'[th] \notin Out
  PROVE  Recalled
<1>1. Known' = Known
  BY DEF Known
<1>2. Asking'
  <2>1. ASSUME NEW th \in Askers, pc'[th] \in Out
        PROVE  LET r == req'[th] IN
               /\ r.base \cup r.seen \subseteq 0..turns /\ r.turn \in {0, turns}
               /\ pc'[th] \in Talking => r.text = "blank"
               /\ pc'[th] = "apply" => r.turn = 0 /\ (r.text = "echo" => r.own = "compact")
    BY <2>1 DEF RecallInv, Asking
  <2> QED
    BY <2>1 DEF RecallInv, Asking
<1>3. crossed' \/ Recalls'
  BY <1>1 DEF RecallInv, Recalls, Exact
<1>4. CASE \A th \in Askers : pc[th] \in Out => pc'[th] \in Out
  <2>1. {th \in Askers : pc'[th] \in Out} = {th \in Askers : pc[th] \in Out}
    BY <1>4
  <2>2. \A th \in {a \in Askers : pc[a] \in Out} : About(req'[th]) = About(req[th])
    BY <1>4 DEF About
  <2>3. RequestsOut' = RequestsOut
    BY <2>1, <2>2 DEF RequestsOut
  <2> QED
    BY <1>1, <1>2, <1>3, <2>3 DEF Recalled, Memory!conversation
<1>5. CASE \A th \in Askers : pc'[th] \notin Out
  <2>1. RequestsOut' = {}
    BY <1>5 DEF RequestsOut
  <2>2. [Memory!Next]_(Memory!conversation)
    BY <1>1, <2>1 DEF Memory!Next, Memory!End, Memory!conversation
  <2> QED
    BY <1>2, <1>3, <2>2 DEF Recalled
<1> QED
  BY <1>4, <1>5

\* A request that is sent has been shown all that is known.
LEMMA SendRecalls ==
  ASSUME RecallInv, NEW th \in Askers, NEW turn \in 0..NTurns, Send(th, turn),
         UNCHANGED <<memory, summary, old, crossed>>,
         \A other \in Askers : pc[other] \notin Out,
         \/ turn = 0 /\ turns' = turns
         \/ turn = turns + 1 /\ turns' = turns + 1
  PROVE  Recalled
<1>1. req'[th] = Asked(turn) /\ pc'[th] = "waiting" /\ \A other \in Askers \ {th} : pc'[other] \notin Out
  BY SendAsks DEF RecallInv, MemoryInv, LockInv, TypeInv, ConvTypeOK
<1>2. /\ Asked(turn).turn = turn /\ Asked(turn).own = "none" /\ Asked(turn).text = "blank"
      /\ Asked(turn).base \subseteq memory /\ Asked(turn).seen = memory \cup summary \cup {turn}
  BY DEF Asked
<1>3. Known' = Known
  BY DEF Known
<1>4. turns \in Nat /\ turns' \in Nat /\ 0..turns \subseteq 0..turns' /\ turn \in 0..turns'
      /\ turn \in {0, turns'}
  BY KnownTurns DEF RecallInv
<1>5. Asking'
  BY <1>1, <1>2, <1>4 DEF RecallInv, Asking, Talking
<1>6. Recalls'
  BY <1>1, <1>2, <1>3 DEF Recalls, Exact, Known
<1>7. RequestsOut = {} /\ RequestsOut' = {<<th, About(Asked(turn))>>}
  <2>1. RequestsOut' = {<<th, About(req'[th])>>}
    BY <1>1, OnlyRequest, Zenon DEF RequestsOut, Out
  <2> QED
    BY <1>1, <2>1 DEF RequestsOut
<1>8. CASE turn = 0 /\ turns' = turns
  <2>1. About(Asked(turn)) = "summary"
    BY <1>2, <1>8 DEF About
  <2> QED
    BY <1>3, <1>5, <1>6, <1>7, <1>8, <2>1 DEF Recalled, Memory!Next, Memory!AskSummary
<1>9. CASE turn = turns + 1 /\ turns' = turns + 1
  <2>1. About(Asked(turn)) = "turn"
    BY <1>2, <1>4, <1>9 DEF About
  <2> QED
    BY <1>3, <1>5, <1>6, <1>7, <1>9, <2>1 DEF Recalled, Memory!Next, Memory!AskTurn
<1> QED
  BY <1>8, <1>9

\* A request that goes on, or ends, whatever it has done: the shape of the
\* steps below.
LEMMA RequestGoesOn ==
  ASSUME RecallInv, NEW th \in Askers, pc[th] \in Out, NEW place \in Places, Goto(th, place),
         place \in Out => /\ req'[th].turn = req[th].turn
                          /\ req'[th].own = req[th].own \/ req'[th].own # "none"
  PROVE  /\ RequestsOut = {<<th, About(req[th])>>}
         /\ RequestsOut' = IF place \in Out THEN {<<th, About(req'[th])>>} ELSE {}
         /\ pc'[th] = place /\ \A other \in Askers \ {th} : pc'[other] \notin Out
         /\ Memory!GoesOn
<1>1. pc'[th] = place /\ \A other \in Askers \ {th} : pc[other] \notin Out /\ pc'[other] \notin Out
  <2>1. pc'[th] = place
    BY DEF Goto, RecallInv, MemoryInv, LockInv, TypeInv, ConvTypeOK
  <2>2. LockInv
    BY DEF RecallInv, MemoryInv
  <2>3. ASSUME NEW other \in Askers \ {th} PROVE pc[other] \notin Out /\ pc'[other] \notin Out
    BY <2>2, Elsewhere, OneOut
  <2> QED
    BY <2>1, <2>3
<1>2. RequestsOut = {<<th, About(req[th])>>}
  BY <1>1, OnlyRequest, Zenon DEF RequestsOut
<1>3. RequestsOut' = IF place \in Out THEN {<<th, About(req'[th])>>} ELSE {}
  BY <1>1, OnlyRequest, Zenon DEF RequestsOut
<1>4. place \in Out => \/ About(req'[th]) = About(req[th])
                       \/ About(req[th]) = "summary" /\ About(req'[th]) = "condensed"
  BY DEF About
<1>5. Memory!GoesOn
  BY <1>2, <1>3, <1>4 DEF Memory!GoesOn, Memory!CallsTool
<1> QED
  BY <1>1, <1>2, <1>3, <1>5

\* After a reset has crossed a request all that is promised is who asks.
LEMMA DisturbedStep ==
  ASSUME RecallInv, Asking', crossed, UNCHANGED <<turns, crossed>>,
         old' = old \/ old' = 1..turns, Memory!GoesOn
  PROVE  Recalled
<1>1. Known' \subseteq 1..turns
  <2>1. ASSUME NEW t \in Known' PROVE t \in 1..turns
    <3>1. t \in 0..turns /\ t # 0
      BY <2>1 DEF Asking, Known
    <3> QED
      BY <3>1, KnownTurns DEF RecallInv
  <2> QED
    BY <2>1
<1>2. Memory!Next
  BY <1>1 DEF Memory!Next, Memory!Disturbed
<1> QED
  BY <1>2 DEF Recalled

\* The answer of a turn adds it, unless the flag is set; that of a request for
\* a summary adds nothing.
LEMMA AnswerRecalls ==
  ASSUME RecallInv, NEW th \in Askers, Answer(th)
  PROVE  Recalled
<1> DEFINE r == req[th]
<1> DEFINE place == After(r)
<1>1. /\ pc[th] = "waiting" /\ pc[th] \in Out /\ pc[th] \in Talking
      /\ UNCHANGED <<provider, summary, old, turns, crossed>>
      /\ Goto(th, place) /\ place \in {"apply", "note"} /\ (place = "apply" <=> r.turn = 0)
  BY DEF Answer, NoteSaid, After, Out, Talking
<1>2. /\ req'[th].turn = r.turn /\ req'[th].own = r.own
      /\ req'[th].base = r.base /\ req'[th].seen = r.seen
      /\ req'[th].text = "echo" => r.own = "compact"
  <2>1. PICK text \in {"text", "echo"} : /\ text = "echo" => r.own = "compact"
                                         /\ req' = [req EXCEPT ![th].text = text]
    BY DEF Answer
  <2> QED
    BY <2>1 DEF RecallInv, MemoryInv, LockInv, TypeInv, ConvTypeOK, Requests
<1>3. /\ RequestsOut = {<<th, About(r)>>}
      /\ RequestsOut' = IF place = "apply" THEN {<<th, About(req'[th])>>} ELSE {}
      /\ pc'[th] = place /\ \A other \in Askers \ {th} : pc'[other] \notin Out
      /\ Memory!GoesOn
  <2>1. /\ place \in Places /\ (place \in Out <=> place = "apply") /\ place \notin Talking
    BY <1>1 DEF Places, Out, Talking
  <2> HIDE DEF place
  <2> QED
    BY <1>1, <1>2, <2>1, RequestGoesOn
<1>4. Asking /\ turns \in Nat /\ r.base \subseteq 0..turns /\ r.turn \in 0..turns /\ r.turn \in {0, turns}
  BY <1>1, KnownTurns DEF RecallInv, Asking
<1>5. memory' \subseteq 0..turns
  BY <1>4 DEF Answer, Remember, RememberOpenAI, RememberCerebras, Asking
<1>6. Asking'
  BY <1>1, <1>2, <1>3, <1>4, <1>5 DEF Asking, Out, Talking
<1>7. CASE crossed
  BY <1>1, <1>3, <1>6, <1>7, DisturbedStep
<1>8. CASE ~crossed
  <2>1. Sound(th) /\ Exact(th) /\ Emptied
    BY <1>1, <1>8 DEF RecallInv, MemoryInv, Remembers, Recalls
  <2>2. memory' = IF pending THEN memory ELSE memory \cup {r.turn}
    BY <1>1, <2>1 DEF Answer, Remember, RememberOpenAI, RememberCerebras, Sound, Emptied,
                      RecallInv, MemoryInv, LockInv, TypeInv, ConvTypeOK, Requests
  <2>3. ~pending => r.own = "none"
    BY <1>1, <2>1 DEF Sound, RecallInv, MemoryInv, LockInv, TypeInv, ConvTypeOK, Requests
  <2>4. CASE r.turn = 0
    <3>1. Known' = Known
      BY <1>1, <2>2, <2>4 DEF Known
    <3>2. Recalls'
      BY <1>2, <1>3, <2>1, <3>1 DEF Recalls, Exact
    <3>3. RequestsOut' = RequestsOut
      BY <1>1, <1>2, <1>3, <2>4 DEF About
    <3> QED
      BY <1>1, <1>6, <3>1, <3>2, <3>3 DEF Recalled, Memory!conversation
  <2>5. CASE r.turn # 0
    <3>1. Recalls' /\ RequestsOut' = {}
      BY <1>1, <1>3, <2>5 DEF Recalls, Out
    <3>2. CASE pending
      <4>1. Known' = Known
        BY <1>1, <2>2, <3>2 DEF Known
      <4>2. Memory!End
        BY <1>1, <1>3, <3>1, <4>1 DEF Memory!End
      <4> QED
        BY <1>6, <3>1, <4>2 DEF Recalled, Memory!Next
    <3>3. CASE ~pending
      <4>1. Known' = Known \cup {turns} /\ turns = r.turn
        BY <1>1, <1>4, <2>2, <2>5, <3>3 DEF Known
      <4>2. turns \notin old
        BY <2>1, <2>3, <3>3, <4>1 DEF Sound
      <4>3. RequestsOut = {<<th, "turn">>}
        BY <1>3, <2>5 DEF About
      <4>4. Memory!Learn
        BY <1>1, <1>3, <4>1, <4>2, <4>3 DEF Memory!Learn
      <4> QED
        BY <1>6, <3>1, <4>4 DEF Recalled, Memory!Next
    <3> QED
      BY <3>2, <3>3
  <2> QED
    BY <2>4, <2>5
<1> QED
  BY <1>7, <1>8

\* A tool of another component, or one whose arguments do not parse, leaves
\* the memory; a new chat empties it; a summary by the model keeps it.
LEMMA ToolRecalls ==
  ASSUME RecallInv, NEW th \in Askers, BadArguments(th) \/ EndTool(th)
  PROVE  Recalled
<1> DEFINE r == req[th]
<1>1. /\ LockInv /\ pc[th] \in Out /\ pc[th] \in Talking
      /\ UNCHANGED <<provider, turns, crossed>>
      /\ Asking /\ turns \in Nat /\ r \in Requests
      /\ r.base \cup r.seen \subseteq 0..turns /\ r.turn \in {0, turns} /\ r.text = "blank"
  BY KnownTurns DEF BadArguments, EndTool, Out, Talking, RecallInv, MemoryInv, Asking, LockInv,
                    TypeInv, ConvTypeOK
\* What the end of the round leaves.
<1>2. ASSUME NEW own, EndRound(th, own), own = r.own \/ own # "none",
             old' = old \/ old' = 1..turns, memory' \cup summary' \subseteq 0..turns
      PROVE  /\ req'[th].own = own /\ req'[th].turn = r.turn /\ req'[th].seen = r.seen
             /\ req'[th].base = r.base /\ req'[th].text = "blank"
             /\ \A other \in Askers \ {th} : pc'[other] \notin Out
             /\ pc'[th] \in {"waiting", "apply", "note"} /\ (pc'[th] = "apply" => r.turn = 0)
             /\ pc'[th] = "note" => r.turn # 0
             /\ RequestsOut = {<<th, About(r)>>}
             /\ RequestsOut' = IF pc'[th] \in Out THEN {<<th, About(req'[th])>>} ELSE {}
             /\ Memory!GoesOn /\ Asking'
             /\ crossed => Recalled
  <2>1. /\ req'[th].own = own /\ req'[th].turn = r.turn
        /\ req'[th].base = r.base /\ req'[th].seen = r.seen
    BY <1>1, <1>2, RoundLeaves
  <2>2. req'[th].text = "blank"
    BY <1>1, <1>2 DEF EndRound, LockInv, TypeInv, ConvTypeOK, Requests
  <2>3. PICK place \in {"waiting", "apply", "note"} :
          Goto(th, place) /\ (place = "apply" => r.turn = 0) /\ (place = "note" => r.turn # 0)
    BY <1>1, <1>2 DEF EndRound, After, Requests
  <2>4. place \in Places
    BY DEF Places
  <2>5. /\ RequestsOut = {<<th, About(r)>>}
        /\ RequestsOut' = IF place \in Out THEN {<<th, About(req'[th])>>} ELSE {}
        /\ pc'[th] = place /\ \A other \in Askers \ {th} : pc'[other] \notin Out
        /\ Memory!GoesOn
    BY <1>1, <1>2, <2>1, <2>3, <2>4, RequestGoesOn
  <2>6. Asking'
    BY <1>1, <1>2, <2>1, <2>2, <2>3, <2>5 DEF Asking, Out, Talking
  <2>7. crossed => Recalled
    BY <1>1, <1>2, <2>5, <2>6, DisturbedStep
  <2> QED
    BY <2>1, <2>2, <2>3, <2>5, <2>6, <2>7
<1>3. CASE BadArguments(th) \/ OtherTool(th)
  <2>1. EndRound(th, r.own) /\ UNCHANGED <<memory, summary, old>>
    BY <1>3 DEF BadArguments, OtherTool, memoryVars
  <2>2. Known' = Known /\ memory' \cup summary' \subseteq 0..turns
    BY <1>1, <2>1 DEF Known, Asking
  <2>3. /\ req'[th].own = r.own /\ req'[th].turn = r.turn /\ req'[th].seen = r.seen
        /\ \A other \in Askers \ {th} : pc'[other] \notin Out
        /\ RequestsOut = {<<th, About(r)>>}
        /\ RequestsOut' = IF pc'[th] \in Out THEN {<<th, About(req'[th])>>} ELSE {}
        /\ Asking'
    BY <1>2, <2>1, <2>2
  <2>4. crossed' \/ Recalls'
    BY <1>1, <2>2, <2>3 DEF Recalls, Exact, RecallInv
  <2>5. RequestsOut' = RequestsOut \/ RequestsOut' = {}
    BY <2>3 DEF About
  <2>6. RequestsOut # {}
    BY <2>3
  <2>7. [Memory!Next]_(Memory!conversation)
    BY <1>1, <2>1, <2>2, <2>5, <2>6 DEF Memory!Next, Memory!End, Memory!conversation
  <2> QED
    BY <2>3, <2>4, <2>7 DEF Recalled
<1>4. CASE StartNewChat(th)
  <2>1. /\ EndRound(th, "reset") /\ memory' = {} /\ summary' = {} /\ old' = 1..turns
    BY <1>4 DEF StartNewChat, ResetConversation
  <2>2. memory' \cup summary' \subseteq 0..turns /\ Known' = {}
    BY <2>1 DEF Known
  <2>3. /\ req'[th].own = "reset" /\ \A other \in Askers \ {th} : pc'[other] \notin Out
        /\ Memory!GoesOn /\ Asking'
    BY <1>2, <2>1, <2>2
  <2>4. Recalls'
    BY <2>2, <2>3 DEF Recalls, Exact
  <2>5. Memory!Reset
    BY <1>1, <2>1, <2>2, <2>3 DEF Memory!Reset
  <2> QED
    BY <2>3, <2>4, <2>5 DEF Recalled, Memory!Next
<1>5. CASE CompactContext(th)
  <2> DEFINE own == IF r.own = "reset" THEN "reset" ELSE "compact"
  <2>1. /\ EndRound(th, own) /\ memory' = {} /\ summary' = Carried(r) /\ old' = old
    BY <1>5 DEF CompactContext, CompactConversation
  <2>2. memory' \cup summary' \subseteq 0..turns
    BY <1>1, <2>1 DEF Carried
  <2>3. /\ req'[th].own = own /\ req'[th].turn = r.turn /\ req'[th].seen = r.seen
        /\ \A other \in Askers \ {th} : pc'[other] \notin Out
        /\ pc'[th] = "note" => r.turn # 0
        /\ pc'[th] \in {"waiting", "apply", "note"}
        /\ RequestsOut = {<<th, About(r)>>}
        /\ RequestsOut' = IF pc'[th] \in Out THEN {<<th, About(req'[th])>>} ELSE {}
        /\ Memory!GoesOn /\ Asking'
        /\ crossed => Recalled
    BY <1>2, <2>1, <2>2
  <2>4. ASSUME ~crossed PROVE Recalled
    <3>1. Sound(th) /\ Exact(th)
      BY <1>1, <2>4 DEF RecallInv, MemoryInv, Remembers, Recalls
    <3>2. Known' = Carried(r)
      BY <2>1 DEF Known, Carried
    <3>3. CASE r.own = "reset"
      <4>1. Known' = Known
        BY <3>1, <3>2, <3>3 DEF Exact, Carried
      <4>2. Recalls'
        BY <2>3, <3>1, <3>3, <4>1 DEF Recalls, Exact
      <4>3. RequestsOut' = RequestsOut \/ RequestsOut' = {}
        BY <2>3, <3>3 DEF About
      <4>4. RequestsOut # {}
        BY <2>3
      <4>5. [Memory!Next]_(Memory!conversation)
        BY <1>1, <2>1, <4>1, <4>3, <4>4 DEF Memory!Next, Memory!End, Memory!conversation
      <4> QED
        BY <2>3, <4>2, <4>5 DEF Recalled
    <3>4. CASE r.own # "reset"
      <4>1. Known' = r.seen \ {0}
        BY <3>2, <3>4 DEF Carried
      <4>2. Recalls'
        BY <2>3, <3>4, <4>1 DEF Recalls, Exact
      <4>3. /\ Known \subseteq r.seen /\ r.turn \in r.seen /\ r.seen \cap old = {}
            /\ r.seen \subseteq Known \cup {0, r.turn}
        BY <3>1, <3>4 DEF Sound, Exact, Known
      <4>4. CASE r.turn = 0
        <5>1. Known' = Known
          BY <4>1, <4>3, <4>4 DEF Known
        <5>2. RequestsOut' = {<<th, "condensed">>}
          BY <2>3, <3>4, <4>4 DEF About, Out
        <5>3. RequestsOut = {<<th, "condensed">>} \/ RequestsOut = {<<th, "summary">>}
          BY <2>3, <4>4 DEF About
        <5>4. [Memory!Next]_(Memory!conversation)
          BY <1>1, <2>1, <5>1, <5>2, <5>3
             DEF Memory!Next, Memory!Condense, Memory!CallsTool, Memory!conversation
        <5> QED
          BY <2>3, <4>2, <5>4 DEF Recalled
      <4>5. CASE r.turn # 0
        <5>1. Known' = Known \cup {turns} /\ turns = r.turn /\ turns \notin old
          BY <1>1, <4>1, <4>3, <4>5 DEF Known
        <5>2. RequestsOut = {<<th, "turn">>}
          BY <2>3, <4>5 DEF About
        <5>3. Memory!Learn
          BY <1>1, <2>1, <2>3, <5>1, <5>2 DEF Memory!Learn
        <5> QED
          BY <2>3, <4>2, <5>3 DEF Recalled, Memory!Next
      <4> QED
        BY <4>4, <4>5
    <3> QED
      BY <3>3, <3>4
  <2> QED
    BY <2>3, <2>4
<1> QED
  BY <1>3, <1>4, <1>5 DEF EndTool

\* A summary that is applied changes nothing, is a reset for want of one, or
\* is the acknowledgement of the model's own.
LEMMA ApplyRecalls ==
  ASSUME RecallInv, NEW th \in Askers, Apply(th)
  PROVE  Recalled
<1> DEFINE r == req[th]
<1>1. /\ LockInv /\ pc[th] = "apply" /\ pc[th] \in Out
      /\ UNCHANGED <<turns, crossed>> /\ r \in Requests
      /\ Asking /\ turns \in Nat /\ r.seen \subseteq 0..turns /\ r.turn = 0
      /\ r.text = "echo" => r.own = "compact"
  BY KnownTurns DEF Apply, Out, RecallInv, MemoryInv, Asking, LockInv, TypeInv, ConvTypeOK
<1>2. PICK place \in {"settle", "unlock"} : Goto(th, place)
  BY DEF Apply
<1>3. /\ RequestsOut = {<<th, About(r)>>} /\ RequestsOut' = {}
      /\ \A other \in Askers : pc'[other] \notin Out
      /\ Memory!GoesOn
  <2>1. place \in Places /\ place \notin Out
    BY DEF Places, Out
  <2> QED
    BY <1>1, <1>2, <2>1, RequestGoesOn
<1>4. Recalls'
  BY <1>3 DEF Recalls
<1>5. ASSUME memory' \cup summary' \subseteq 0..turns PROVE Asking'
  BY <1>1, <1>3, <1>5 DEF Asking
<1>6. CASE r.text = "text" /\ CompactConversation(SummaryKept(r))
  <2>1. memory' = {} /\ summary' = Carried(r) /\ old' = old
    BY <1>6 DEF CompactConversation, SummaryKept
  <2>2. Asking'
    BY <1>1, <1>5, <2>1 DEF Carried
  <2>3. ASSUME ~crossed PROVE Recalled
    <3>1. Sound(th) /\ Exact(th)
      BY <1>1, <2>3 DEF RecallInv, MemoryInv, Remembers, Recalls
    <3>2. Known' = Known
      BY <1>1, <2>1, <3>1 DEF Sound, Exact, Known, Carried
    <3>3. Memory!End
      BY <1>1, <1>3, <2>1, <3>2 DEF Memory!End
    <3> QED
      BY <1>4, <2>2, <3>3 DEF Recalled, Memory!Next
  <2>4. CASE crossed
    BY <1>1, <1>3, <2>1, <2>2, <2>4, DisturbedStep
  <2> QED
    BY <2>3, <2>4
<1>7. CASE r.text = "echo" /\ CompactConversation({})
  <2>1. memory' = {} /\ summary' = {} /\ old' = old
    BY <1>7 DEF CompactConversation
  <2>2. Asking' /\ Known' = {}
    BY <1>5, <2>1 DEF Known
  <2>3. RequestsOut = {<<th, "condensed">>}
    BY <1>1, <1>3, <1>7 DEF About
  <2>4. Memory!Lose
    BY <1>1, <1>3, <2>1, <2>2, <2>3 DEF Memory!Lose
  <2> QED
    BY <1>4, <2>2, <2>4 DEF Recalled, Memory!Next
<1>8. CASE ResetConversation
  <2>1. memory' = {} /\ summary' = {} /\ old' = 1..turns
    BY <1>8 DEF ResetConversation
  <2>2. Asking' /\ Known' = {}
    BY <1>5, <2>1 DEF Known
  <2>3. Memory!Reset
    BY <1>1, <1>3, <2>1, <2>2 DEF Memory!Reset
  <2> QED
    BY <1>4, <2>2, <2>3 DEF Recalled, Memory!Next
<1> QED
  BY <1>6, <1>7, <1>8 DEF Apply, ApplySummary

\* What one thread does of itself.
LEMMA AskerRecalls ==
  ASSUME RecallInv, NEW th \in Askers, AskerNext(th)
  PROVE  Recalled
<1>0. LockInv /\ pc \in [Askers -> Places]
  BY DEF RecallInv, MemoryInv, LockInv, TypeInv, ConvTypeOK, Places
<1>1. CASE AskSummary(th)
  <2>1. /\ turnLock \in {None, th} /\ Send(th, 0) /\ 0 \in 0..NTurns /\ pc[th] = "acquire"
        /\ UNCHANGED <<memory, summary, old, crossed, turns>>
    BY <1>1, ConversationAssumption DEF AskSummary, LockFree, memoryVars, ghostVars
  <2>2. ASSUME NEW other \in Askers, pc[other] \in Out PROVE FALSE
    <3>1. turnLock = other /\ other # None
      BY <1>0, <2>2, OneOut, ConversationAssumption DEF Askers
    <3> QED
      BY <2>1, <2>2, <3>1 DEF Out
  <2> QED
    BY <2>1, <2>2, SendRecalls
<1>2. CASE AnswerIncomplete(th) \/ Fail(th) \/ BeginTool(th) \/ Check(th) \/ Settle(th)
  <2>1. UNCHANGED <<memory, summary, old, turns, crossed, req>>
    BY <1>2 DEF AnswerIncomplete, Fail, BeginTool, Check, Settle, NoteSaid, memoryVars, ghostVars
  <2>2. PICK place \in Places :
          /\ Goto(th, place)
          /\ place \in Out <=> place \in {"tool", "apply"}
          /\ place \in Out => pc[th] = "waiting"
          /\ place = "apply" => req[th].turn = 0
          /\ pc[th] \in Out => place \in {"tool", "apply", "note"}
    BY <1>2 DEF AnswerIncomplete, Fail, BeginTool, Check, Settle, After, Return, Places, Out
  <2>3. \A other \in Askers : pc'[other] = IF other = th THEN place ELSE pc[other]
    BY <1>0, <2>2 DEF Goto
  <2>4. pc[th] = "waiting" => req[th].text # "echo"
    BY DEF RecallInv, Asking, Out, Talking
  <2>5. \/ \A other \in Askers : pc[other] \in Out => pc'[other] \in Out
        \/ \A other \in Askers : pc'[other] \notin Out
    <3>1. CASE pc[th] \in Out /\ place \notin Out
      BY <1>0, <2>2, <2>3, <3>1, Elsewhere
    <3>2. CASE pc[th] \notin Out \/ place \in Out
      BY <2>3, <3>2
    <3> QED
      BY <3>1, <3>2
  <2>6. ASSUME NEW other \in Askers, pc'[other] \in Out
        PROVE  /\ pc[other] \in Out
               /\ pc'[other] \in Talking => pc[other] \in Talking
               /\ pc'[other] = "apply" =>
                     req[other].turn = 0 /\ (req[other].text # "echo" \/ pc[other] = "apply")
    <3>1. CASE other = th
      BY <2>2, <2>3, <2>4, <2>6, <3>1 DEF Out, Talking
    <3>2. CASE other # th
      BY <2>3, <2>6, <3>2 DEF RecallInv, Asking
    <3> QED
      BY <3>1, <3>2
  <2> QED
    BY <2>1, <2>5, <2>6, QuietRecalls
<1> QED
  BY <1>1, <1>2, AnswerRecalls, ToolRecalls, ApplyRecalls DEF AskerNext

\* Steps of the loop, the idle thread and the clock that ask nothing.
LEMMA PlainRecalls ==
  ASSUME RecallInv,
         \/ NoteTurn \/ TurnRaises \/ EndTurn \/ Stop \/ TimePasses
         \/ IdleDue \/ IdleStops \/ Unlock \/ StepStarts \/ StepTimesOut
  PROVE  Recalled
<1>1. UNCHANGED <<memory, summary, old, turns, crossed>>
  BY DEF NoteTurn, TurnRaises, EndTurn, Stop, TimePasses, IdleDue, IdleStops, Unlock,
         StepStarts, StepTimesOut, memoryVars, ghostVars
<1>2. \A th \in Askers : /\ pc'[th] \in Out <=> pc[th] \in Out
                         /\ pc'[th] \in Out => pc'[th] = pc[th] /\ req'[th] = req[th]
  <2> USE DEF RecallInv, MemoryInv, LockInv, TypeInv, ConvTypeOK
  <2>1. CASE NoteTurn \/ TurnRaises
    <3>1. PICK place \in {"check", "end"} : Goto("loop", place) /\ Forget("loop")
      BY <2>1 DEF NoteTurn, TurnRaises
    <3>2. pc["loop"] = "note"
      BY <2>1 DEF NoteTurn, TurnRaises
    <3> QED
      BY <3>1, <3>2 DEF Goto, Forget, Askers, Out
  <2>2. CASE EndTurn \/ Stop \/ IdleDue \/ IdleStops \/ Unlock
    <3>1. PICK th \in Askers, place \in {"listening", "gone", "check", "settle"} :
            Goto(th, place) /\ pc[th] \in {"end", "listening", "cv", "unlock"}
      BY <2>2 DEF EndTurn, Stop, IdleDue, IdleStops, Unlock, Askers
    <3>2. req' = req
      BY <2>2 DEF EndTurn, Stop, IdleDue, IdleStops, Unlock
    <3> QED
      BY <3>1, <3>2 DEF Goto, Out
  <2>3. CASE TimePasses \/ StepStarts \/ StepTimesOut
    BY <2>3 DEF TimePasses, StepStarts, StepTimesOut
  <2> QED
    BY <2>1, <2>2, <2>3
<1>3. \A th \in Askers : pc'[th] = "apply" => req[th].turn = 0
  BY <1>2 DEF RecallInv, Asking, Out
<1> QED
  BY <1>1, <1>2, <1>3, QuietRecalls

\* A scheduled step resets between two requests, or crosses one.
LEMMA StepRecalls ==
  ASSUME RecallInv, StepEnds \/ LateStepEnds
  PROVE  Recalled
<1>1. memory' = {} /\ summary' = {} /\ old' = 1..turns /\ UNCHANGED <<turns, pc, req>>
  BY DEF StepEnds, LateStepEnds, ResetConversation
<1>2. Known' = {} /\ RequestsOut' = RequestsOut /\ turns \in Nat
  BY <1>1, KnownTurns DEF Known, RequestsOut, RecallInv
<1>3. Asking'
  BY <1>1 DEF RecallInv, Asking
<1>4. CASE \E th \in Askers : pc[th] \in Out
  <2>1. LateStepEnds
    BY <1>4, OneOut DEF StepEnds, RecallInv, MemoryInv
  <2>2. crossed'
    BY <1>4, <2>1, Zenon DEF LateStepEnds
  <2>3. RequestsOut # {}
    BY <1>4 DEF RequestsOut
  <2>4. Memory!Cross
    BY <1>1, <1>2, <2>2, <2>3 DEF Memory!Cross, LockInv, TypeInv, ConvTypeOK
  <2> QED
    BY <1>3, <2>2, <2>4 DEF Recalled, Memory!Next
<1>5. CASE ~ \E th \in Askers : pc[th] \in Out
  <2>1. Recalls'
    BY <1>1, <1>5, Zenon DEF Recalls
  <2>2. crossed' = crossed
    <3>1. CASE StepEnds
      BY <3>1 DEF StepEnds
    <3>2. CASE LateStepEnds
      <4>1. crossed \in BOOLEAN
        BY DEF RecallInv, MemoryInv, LockInv, TypeInv, ConvTypeOK
      <4> QED
        BY <1>5, <3>2, <4>1, Zenon DEF LateStepEnds
    <3> QED
      BY <3>1, <3>2
  <2>3. Memory!Reset
    BY <1>1, <1>2, <2>2 DEF Memory!Reset, Memory!GoesOn
  <2> QED
    BY <1>3, <2>1, <2>3 DEF Recalled, Memory!Next
<1> QED
  BY <1>4, <1>5

LEMMA RecallKept ==
  ASSUME RecallInv, [ConvNext]_convVars
  PROVE  RecallInv' /\ [Memory!Next]_(Memory!conversation)
<1>1. ASSUME UNCHANGED convVars PROVE Recalled
  <2>1. UNCHANGED <<memory, summary, old, turns, crossed, pc, req>>
    BY <1>1 DEF convVars
  <2>2. \A th \in Askers : pc[th] = "apply" => req[th].turn = 0
    BY DEF RecallInv, Asking, Out
  <2> QED
    BY <2>1, <2>2, QuietRecalls
<1>2. ASSUME BeginTurn PROVE Recalled
  <2>1. /\ turnLock = None /\ Send("loop", turns + 1) /\ turns' = turns + 1
        /\ UNCHANGED <<memory, summary, old, crossed>>
    BY <1>2 DEF BeginTurn, memoryVars, ghostVars
  <2>2. turns + 1 \in 0..NTurns
    BY <1>2, ConversationAssumption
       DEF BeginTurn, RecallInv, MemoryInv, LockInv, TypeInv, ConvTypeOK
  <2>3. \A other \in Askers : pc[other] \notin Out
    BY <2>1, OneOut, ConversationAssumption DEF Askers, RecallInv, MemoryInv
  <2>4. "loop" \in Askers
    BY DEF Askers
  <2> QED
    BY <2>1, <2>2, <2>3, <2>4, SendRecalls
<1>3. ASSUME \E th \in Askers : AskerNext(th) PROVE Recalled
  BY <1>3, AskerRecalls
<1>4. \/ UNCHANGED convVars \/ BeginTurn
      \/ \E th \in Askers : AskerNext(th)
      \/ NoteTurn \/ TurnRaises \/ EndTurn \/ Stop \/ TimePasses
      \/ IdleDue \/ IdleStops \/ Unlock \/ StepStarts \/ StepTimesOut
      \/ StepEnds \/ LateStepEnds
  <2>1. "loop" \in Askers /\ "idle" \in Askers
    BY DEF Askers
  <2> QED
    BY <2>1 DEF ConvNext, LoopNext, IdleNext, StepNext
<1>5. Recalled
  BY <1>1, <1>2, <1>3, <1>4, PlainRecalls, StepRecalls
<1> QED
  BY <1>5, MemoryKept DEF Recalled, RecallInv

\* The responders, the tools of the conversation and the compaction implement
\* TurnMemory, for any number of turns, rounds and scheduled steps and with
\* either provider: one request is out at a time, a turn adds itself and no
\* other, a summary stands for all that was known, nothing is lost in part,
\* and what a reset forgot, the turn under way included, stays forgotten -
\* until a scheduled step out of time resets under a request.
THEOREM ConversationRemembers == ConvSpec => ImplementsMemory
<1>1. ConvInit => RecallInv /\ Memory!Init
  <2>1. ASSUME ConvInit PROVE \A th \in Askers : pc[th] \notin Out
    BY <2>1 DEF ConvInit, Askers, Out
  <2>2. ASSUME ConvInit PROVE Asking /\ Recalls
    BY <2>1, <2>2 DEF ConvInit, Asking, Recalls
  <2>3. ASSUME ConvInit PROVE Memory!Init
    BY <2>1, <2>3 DEF ConvInit, Memory!Init, Known, RequestsOut
  <2> QED
    BY <2>2, <2>3, MemoryBegins DEF RecallInv
<1>2. RecallInv /\ [ConvNext]_convVars => RecallInv' /\ [Memory!Next]_(Memory!conversation)
  BY RecallKept
<1> QED
  BY <1>1, <1>2, PTL DEF ConvSpec, ImplementsMemory, Memory!Spec

\* What TurnMemory promises is no weaker than NextTurnFresh: whatever keeps it
\* shows no request a turn from before a reset.
THEOREM MemoryStaysForgotten == ImplementsMemory => []NextTurnFresh
<1> DEFINE Fresh == 0 \notin old /\ (crossed \/ Known \cap old = {})
<1>1. Memory!Init => Fresh
  BY DEF Memory!Init
<1>2. ASSUME Fresh, [Memory!Next]_(Memory!conversation) PROVE Fresh'
  <2>1. CASE \/ Memory!AskTurn \/ Memory!AskSummary \/ Memory!Condense \/ Memory!End
             \/ UNCHANGED Memory!conversation
    <3>1. UNCHANGED <<Known, old, crossed>>
      BY <2>1 DEF Memory!AskTurn, Memory!AskSummary, Memory!Condense, Memory!End,
                  Memory!conversation
    <3> QED
      BY <1>2, <3>1
  <2>2. CASE Memory!Learn
    BY <1>2, <2>2 DEF Memory!Learn
  <2>3. CASE Memory!Lose \/ Memory!Reset \/ Memory!Cross
    <3>1. Known' = {} /\ (old' = old \/ old' = 1..turns)
      BY <2>3 DEF Memory!Lose, Memory!Reset, Memory!Cross
    <3>2. 0 \notin 1..turns
      BY SMT
    <3> QED
      BY <1>2, <3>1, <3>2
  <2>4. CASE Memory!Disturbed
    <3>1. crossed' /\ (old' = old \/ old' = 1..turns) /\ 0 \notin 1..turns
      BY <2>4, ConversationAssumption DEF Memory!Disturbed
    <3> QED
      BY <1>2, <3>1
  <2> QED
    BY <1>2, <2>1, <2>2, <2>3, <2>4 DEF Memory!Next
<1>3. Fresh => NextTurnFresh
  BY DEF Known, NextTurnFresh
<1> HIDE DEF Fresh
<1> QED
  BY <1>1, <1>2, <1>3, PTL DEF ImplementsMemory, Memory!Spec
=============================================================================
