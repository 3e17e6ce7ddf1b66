------------------------------ MODULE AudioProofs ------------------------------
(***************************************************************************)
(* Proofs about the speech that goes out and comes in: StreamingPlayer,    *)
(* for any number of texts, which implements SpokenAnswer; MicInput, for   *)
(* any sizes of its queue and its runs of blocks; and TextChunker, for an  *)
(* answer of any length and any deltas and chunks.                         *)
(***************************************************************************)
EXTENDS StreamingPlayer, MicInput, TextChunker, FiniteSetTheorems, SequenceTheorems,
        WellFoundedInduction, TLAPS

----------------------------------------------------------------------------
\* The player.  The chunks played and in hand, and those that follow in a queue.
Heard  == Len(played) + (IF playing \in Texts THEN 1 ELSE 0)
Coming == Heard + Len(audioQueue)
InHand == IF synthesizing \in Texts THEN 1 ELSE 0

\* No sentinel up to position i, or nowhere.
Clear(q, i) == \A j \in 1..i : q[j] # Sentinel
AllClear(q) == Clear(q, Len(q))

\* A sentinel ends the texts, and is there until the synthesis has ended.
TextsEnd ==
    /\ closed <=> caller # "streaming"
    /\ \A i \in DOMAIN textQueue : textQueue[i] = Sentinel => closed /\ i = Len(textQueue)
    /\ closed /\ synthesizing # Ended
         => textQueue # <<>> /\ textQueue[Len(textQueue)] = Sentinel
    /\ synthesizing = Ended => playing = Ended \/ ~AllClear(audioQueue)

\* The chunks that can still be heard follow each other.
InOrder ==
    /\ \A i \in DOMAIN played : played[i] = i
    /\ playing \in Texts => playing = Len(played) + 1
    /\ playing # Ended =>
         \A i \in DOMAIN audioQueue : Clear(audioQueue, i) => audioQueue[i] = Heard + i
    /\ playing # Ended /\ AllClear(audioQueue) /\ synthesizing \in Texts
         => synthesizing = Coming + 1

\* Without an interruption, so do the texts, and none is missing.
NoneMissing ==
    /\ interrupted => interruptEvent \/ playing = Ended \/ ~AllClear(audioQueue)
    /\ playing # Ended /\ AllClear(audioQueue) /\ ~interrupted =>
         /\ \A i \in DOMAIN textQueue :
               textQueue[i] # Sentinel => textQueue[i] = Coming + InHand + i
         /\ enqueued = Coming + InHand + Len(textQueue) - (IF closed THEN 1 ELSE 0)

\* The end of the synthesis and then that of the playback, without an error.
AllSaid ==
    ~interrupted /\ ~ttsError =>
      /\ playing # Ended /\ ~AllClear(audioQueue) =>
           /\ synthesizing = Ended /\ closed
           /\ \A i \in DOMAIN audioQueue : audioQueue[i] = Sentinel => i = Len(audioQueue)
           /\ enqueued = Coming - 1
      /\ playing = Ended => synthesizing = Ended /\ closed /\ enqueued = Len(played)

\* What can be heard after cancel() is in front of its sentinel.
CutThere ==
    caller \in {"cancelling", "cancelled"} =>
      /\ \A i \in DOMAIN played : played[i] \in atCancel
      /\ playing \in Texts => playing \in atCancel
      /\ playing # Ended =>
           /\ ~AllClear(audioQueue)
           /\ \A i \in DOMAIN audioQueue : Clear(audioQueue, i) => audioQueue[i] \in atCancel

\* finish() has returned without an error.
BothEnded == caller = "finished" => synthesizing = Ended /\ playing = Ended /\ ~ttsError

PlayerInv ==
    PlayerTypeOK /\ TextsEnd /\ InOrder /\ NoneMissing /\ AllSaid /\ CutThere /\ BothEnded

----------------------------------------------------------------------------
\* What a sequence is after an Append and a Tail, and where its sentinels are.
LEMMA Appended ==
  ASSUME NEW S, NEW q \in Seq(S), NEW e \in S
  PROVE  /\ Append(q, e) \in Seq(S) /\ Append(q, e) # <<>>
         /\ Len(q) \in Nat /\ DOMAIN q = 1..Len(q)
         /\ Len(Append(q, e)) = Len(q) + 1
         /\ DOMAIN Append(q, e) = 1..(Len(q) + 1)
         /\ \A i \in 1..Len(q) : Append(q, e)[i] = q[i]
         /\ Append(q, e)[Len(q) + 1] = e
         /\ \A i \in 1..Len(q) : Clear(Append(q, e), i) <=> Clear(q, i)
         /\ AllClear(Append(q, e)) <=> AllClear(q) /\ e # Sentinel
<1>1. /\ Append(q, e) \in Seq(S) /\ Append(q, e) # <<>>
      /\ Len(Append(q, e)) = Len(q) + 1
      /\ \A i \in 1..Len(q) : Append(q, e)[i] = q[i]
      /\ Append(q, e)[Len(q) + 1] = e
  BY AppendProperties
<1>2. /\ Len(q) \in Nat /\ DOMAIN q = 1..Len(q)
      /\ DOMAIN Append(q, e) = 1..(Len(q) + 1)
  BY <1>1, LenProperties
<1>3. \A i \in 1..Len(q) : Clear(Append(q, e), i) <=> Clear(q, i)
  BY <1>1, <1>2 DEF Clear
<1>4. AllClear(Append(q, e)) <=> AllClear(q) /\ e # Sentinel
  BY <1>1, <1>2 DEF AllClear, Clear
<1> QED
  BY <1>1, <1>2, <1>3, <1>4

LEMMA Headless ==
  ASSUME NEW S, NEW q \in Seq(S), q # <<>>
  PROVE  /\ Tail(q) \in Seq(S) /\ Head(q) = q[1] /\ Head(q) \in S
         /\ Len(q) \in Nat \ {0} /\ DOMAIN q = 1..Len(q)
         /\ Len(Tail(q)) = Len(q) - 1 /\ DOMAIN Tail(q) = 1..(Len(q) - 1)
         /\ \A i \in 1..(Len(q) - 1) : Tail(q)[i] = q[i + 1]
         /\ Head(q) # Sentinel =>
              /\ \A i \in 1..(Len(q) - 1) : Clear(Tail(q), i) <=> Clear(q, i + 1)
              /\ AllClear(Tail(q)) <=> AllClear(q)
         /\ Head(q) = Sentinel => ~AllClear(q)
<1>1. /\ Head(q) \in S /\ Tail(q) \in Seq(S) /\ Len(Tail(q)) = Len(q) - 1
      /\ \A i \in 1..Len(Tail(q)) : Tail(q)[i] = q[i + 1]
  BY HeadTailProperties
<1>2. /\ Len(q) \in Nat \ {0} /\ DOMAIN q = 1..Len(q)
      /\ DOMAIN Tail(q) = 1..(Len(q) - 1)
  BY <1>1, LenProperties, EmptySeq
<1>3. Head(q) = q[1]
  BY <1>2
<1>4. ASSUME Head(q) # Sentinel, NEW i \in 0..(Len(q) - 1)
      PROVE  Clear(Tail(q), i) <=> Clear(q, i + 1)
  <2>1. Clear(q, i + 1) => Clear(Tail(q), i)
    BY <1>1, <1>2 DEF Clear
  <2>2. ASSUME Clear(Tail(q), i), NEW j \in 1..(i + 1) PROVE q[j] # Sentinel
    <3>1. CASE j = 1
      BY <3>1, <1>3, <1>4
    <3>2. CASE j # 1
      <4>1. j - 1 \in 1..i /\ j - 1 \in 1..Len(Tail(q)) /\ (j - 1) + 1 = j
        BY <3>2, <1>1, <1>2
      <4> QED
        BY <4>1, <2>2, <1>1 DEF Clear
    <3> QED
      BY <3>1, <3>2
  <2> QED
    BY <2>1, <2>2 DEF Clear
<1>5. Head(q) # Sentinel => (AllClear(Tail(q)) <=> AllClear(q))
  BY <1>1, <1>2, <1>4 DEF AllClear
<1>6. Head(q) = Sentinel => ~AllClear(q)
  BY <1>2, <1>3 DEF AllClear, Clear
<1> QED
  BY <1>1, <1>2, <1>3, <1>4, <1>5, <1>6

----------------------------------------------------------------------------
\* How many chunks there are.
LEMMA Counts ==
  ASSUME PlayerTypeOK
  PROVE  /\ Len(textQueue) \in Nat /\ DOMAIN textQueue = 1..Len(textQueue)
         /\ Len(audioQueue) \in Nat /\ DOMAIN audioQueue = 1..Len(audioQueue)
         /\ Len(played) \in Nat /\ DOMAIN played = 1..Len(played)
         /\ Heard \in Nat /\ Coming \in Nat /\ InHand \in 0..1
<1>1. /\ Len(textQueue) \in Nat /\ DOMAIN textQueue = 1..Len(textQueue)
      /\ Len(audioQueue) \in Nat /\ DOMAIN audioQueue = 1..Len(audioQueue)
      /\ Len(played) \in Nat /\ DOMAIN played = 1..Len(played)
  BY LenProperties DEF PlayerTypeOK
<1> QED
  BY <1>1 DEF Heard, Coming, InHand

\* A step that leaves the queues and the chunks in hand leaves their order.
LEMMA OrderStays ==
  ASSUME PlayerInv, UNCHANGED <<audioQueue, played, playing, synthesizing>>
  PROVE  /\ InOrder' /\ Heard' = Heard /\ Coming' = Coming /\ InHand' = InHand
         /\ AllClear(audioQueue)' <=> AllClear(audioQueue)
BY DEF PlayerInv, InOrder, Heard, Coming, InHand, AllClear, Clear

\* enqueue_text puts the next text behind the others.
LEMMA EnqueueTextKeeps == ASSUME PlayerInv, EnqueueText PROVE PlayerInv'
<1> USE PlayerAssumption DEF EnqueueText
<1>1. /\ PlayerTypeOK /\ ~closed' /\ enqueued + 1 \in Texts /\ enqueued + 1 # Sentinel
      /\ textQueue \in Seq(Texts \cup {Sentinel})
  BY DEF PlayerInv, PlayerTypeOK, Texts, Sentinel
<1>2. /\ textQueue' \in Seq(Texts \cup {Sentinel})
      /\ Len(textQueue') = Len(textQueue) + 1
      /\ DOMAIN textQueue' = 1..(Len(textQueue) + 1)
      /\ \A i \in 1..Len(textQueue) : textQueue'[i] = textQueue[i]
      /\ textQueue'[Len(textQueue) + 1] = enqueued + 1
  BY <1>1, Appended
<1>3. InOrder' /\ Heard' = Heard /\ Coming' = Coming /\ InHand' = InHand
      /\ (AllClear(audioQueue)' <=> AllClear(audioQueue))
  BY OrderStays
<1>4. PlayerTypeOK'
  BY <1>1, <1>2 DEF PlayerTypeOK, Texts
<1>5. TextsEnd'
  BY <1>1, <1>2, <1>3, Counts DEF PlayerInv, TextsEnd
<1>6. NoneMissing'
  <2>1. interrupted' => interruptEvent' \/ playing' = Ended \/ ~AllClear(audioQueue)'
    BY <1>3 DEF PlayerInv, NoneMissing
  <2>2. ASSUME playing # Ended, AllClear(audioQueue), ~interrupted
        PROVE  /\ \A i \in DOMAIN textQueue' :
                     textQueue'[i] # Sentinel => textQueue'[i] = Coming + InHand + i
               /\ enqueued' = Coming + InHand + Len(textQueue') - 0
    <3>1. /\ \A i \in DOMAIN textQueue :
                textQueue[i] # Sentinel => textQueue[i] = Coming + InHand + i
          /\ enqueued = Coming + InHand + Len(textQueue)
      BY <1>1, <2>2, Counts DEF PlayerInv, NoneMissing
    <3>2. enqueued + 1 = Coming + InHand + (Len(textQueue) + 1)
      <4>1. Coming \in Nat /\ InHand \in Nat /\ Len(textQueue) \in Nat
        BY <1>1, Counts
      <4> QED
        BY <3>1, <4>1
    <3>3. \A i \in 1..Len(textQueue) :
             textQueue'[i] # Sentinel => textQueue'[i] = Coming + InHand + i
      BY <1>1, <1>2, <3>1, Counts
    <3>4. \A i \in 1..(Len(textQueue) + 1) : i \in 1..Len(textQueue) \/ i = Len(textQueue) + 1
      BY <1>1, Counts
    <3> QED
      BY <1>1, <1>2, <3>2, <3>3, <3>4, Counts
  <2> QED
    BY <1>1, <1>3, <2>1, <2>2 DEF NoneMissing
<1>7. AllSaid' /\ CutThere' /\ BothEnded'
  BY <1>3 DEF PlayerInv, TextsEnd, AllSaid, CutThere, BothEnded, PlayerTypeOK
<1> QED
  BY <1>3, <1>4, <1>5, <1>6, <1>7 DEF PlayerInv

\* finish puts the sentinel behind the texts.
LEMMA FinishKeeps == ASSUME PlayerInv, Finish PROVE PlayerInv'
<1> USE DEF Finish
<1>1. PlayerTypeOK /\ textQueue \in Seq(Texts \cup {Sentinel}) /\ ~closed
  BY DEF PlayerInv, PlayerTypeOK, TextsEnd
<1>2. /\ textQueue' \in Seq(Texts \cup {Sentinel}) /\ textQueue' # <<>>
      /\ Len(textQueue') = Len(textQueue) + 1
      /\ DOMAIN textQueue' = 1..(Len(textQueue) + 1)
      /\ \A i \in 1..Len(textQueue) : textQueue'[i] = textQueue[i]
      /\ textQueue'[Len(textQueue) + 1] = Sentinel
  BY <1>1, Appended
<1>3. InOrder' /\ Heard' = Heard /\ Coming' = Coming /\ InHand' = InHand
      /\ (AllClear(audioQueue)' <=> AllClear(audioQueue))
  BY OrderStays
<1>4. PlayerTypeOK'
  BY <1>1, <1>2 DEF PlayerTypeOK
<1>5. TextsEnd'
  BY <1>1, <1>2, <1>3, Counts DEF PlayerInv, TextsEnd
<1>6. NoneMissing'
  <2>1. interrupted' => interruptEvent' \/ playing' = Ended \/ ~AllClear(audioQueue)'
    BY <1>3 DEF PlayerInv, NoneMissing
  <2>2. ASSUME playing # Ended, AllClear(audioQueue), ~interrupted
        PROVE  /\ \A i \in DOMAIN textQueue' :
                     textQueue'[i] # Sentinel => textQueue'[i] = Coming + InHand + i
               /\ enqueued = Coming + InHand + (Len(textQueue) + 1) - 1
    <3>1. /\ \A i \in DOMAIN textQueue :
                textQueue[i] # Sentinel => textQueue[i] = Coming + InHand + i
          /\ enqueued = Coming + InHand + Len(textQueue)
      BY <1>1, <2>2, Counts DEF PlayerInv, NoneMissing
    <3> QED
      BY <1>1, <1>2, <3>1, Counts
  <2> QED
    BY <1>1, <1>2, <1>3, <2>1, <2>2, Counts DEF NoneMissing
<1>7. AllSaid' /\ CutThere' /\ BothEnded'
  BY <1>3 DEF PlayerInv, TextsEnd, AllSaid, CutThere, BothEnded, PlayerTypeOK
<1> QED
  BY <1>3, <1>4, <1>5, <1>6, <1>7 DEF PlayerInv

\* cancel puts a sentinel behind the texts and one behind the audio.
LEMMA CancelKeeps == ASSUME PlayerInv, Cancel PROVE PlayerInv'
<1> USE DEF Cancel
<1>1. /\ PlayerTypeOK /\ ~closed
      /\ textQueue \in Seq(Texts \cup {Sentinel}) /\ audioQueue \in Seq(Texts \cup {Sentinel})
  BY DEF PlayerInv, PlayerTypeOK
<1>2. /\ textQueue' \in Seq(Texts \cup {Sentinel}) /\ textQueue' # <<>>
      /\ Len(textQueue') = Len(textQueue) + 1
      /\ DOMAIN textQueue' = 1..(Len(textQueue) + 1)
      /\ \A i \in 1..Len(textQueue) : textQueue'[i] = textQueue[i]
      /\ textQueue'[Len(textQueue) + 1] = Sentinel
  BY <1>1, Appended
<1>3. /\ audioQueue' \in Seq(Texts \cup {Sentinel})
      /\ Len(audioQueue') = Len(audioQueue) + 1
      /\ DOMAIN audioQueue' = 1..(Len(audioQueue) + 1)
      /\ \A i \in 1..Len(audioQueue) :
           audioQueue'[i] = audioQueue[i] /\ (Clear(audioQueue', i) <=> Clear(audioQueue, i))
      /\ audioQueue'[Len(audioQueue) + 1] = Sentinel
      /\ ~AllClear(audioQueue')
  BY <1>1, Appended
<1>4. ~Clear(audioQueue', Len(audioQueue) + 1)
  BY <1>3 DEF AllClear
<1>5. atCancel' \subseteq Texts
  OBVIOUS
<1>6. PlayerTypeOK'
  BY <1>1, <1>2, <1>3, <1>5 DEF PlayerTypeOK
<1>7. TextsEnd'
  BY <1>1, <1>2, <1>3, Counts DEF PlayerInv, TextsEnd, AllClear
<1>8. InOrder'
  <2>1. Heard' = Heard
    BY DEF Heard
  <2> QED
    BY <1>1, <1>3, <1>4, <2>1, Counts DEF PlayerInv, InOrder, AllClear
<1>9. NoneMissing' /\ AllSaid' /\ BothEnded'
  BY <1>3 DEF NoneMissing, AllSaid, BothEnded, AllClear
<1>10. CutThere'
  <2>1. \A i \in DOMAIN played : played[i] \in atCancel'
    BY <1>1 DEF PlayerTypeOK
  <2>2. playing \in Texts => playing \in atCancel'
    OBVIOUS
  <2>3. \A i \in 1..Len(audioQueue) : audioQueue[i] # Sentinel => audioQueue[i] \in atCancel'
    BY <1>1, Counts
  <2>4. ASSUME NEW i \in DOMAIN audioQueue', Clear(audioQueue', i)
        PROVE  audioQueue'[i] \in atCancel'
    <3>1. i \in 1..Len(audioQueue)
      BY <2>4, <1>1, <1>3, <1>4, Counts
    <3>2. audioQueue'[i] # Sentinel
      BY <3>1, <2>4, <1>1, Counts DEF Clear
    <3> QED
      BY <3>1, <3>2, <2>3, <1>3
  <2> QED
    BY <1>3, <2>1, <2>2, <2>4 DEF CutThere, AllClear
<1> QED
  BY <1>6, <1>7, <1>8, <1>9, <1>10 DEF PlayerInv

\* The joins return.
LEMMA ReturnsKeep ==
  ASSUME PlayerInv, FinishReturns \/ CancelReturns PROVE PlayerInv'
<1> USE DEF FinishReturns, CancelReturns
<1>1. InOrder' /\ Heard' = Heard /\ Coming' = Coming /\ InHand' = InHand
      /\ (AllClear(audioQueue)' <=> AllClear(audioQueue))
  BY OrderStays
<1>2. PlayerTypeOK' /\ TextsEnd'
  BY <1>1 DEF PlayerInv, PlayerTypeOK, TextsEnd
<1>3. NoneMissing' /\ AllSaid'
  BY <1>1 DEF PlayerInv, NoneMissing, AllSaid
<1>4. CutThere'
  BY <1>1 DEF PlayerInv, CutThere, Clear
<1>5. BothEnded'
  BY DEF PlayerInv, PlayerTypeOK, BothEnded
<1> QED
  BY <1>1, <1>2, <1>3, <1>4, <1>5 DEF PlayerInv

\* The wake monitor sets the event.
LEMMA InterruptKeeps == ASSUME PlayerInv, Interrupt PROVE PlayerInv'
<1> USE DEF Interrupt
<1>1. InOrder' /\ Heard' = Heard /\ Coming' = Coming /\ InHand' = InHand
      /\ (AllClear(audioQueue)' <=> AllClear(audioQueue))
  BY OrderStays
<1>2. PlayerTypeOK' /\ TextsEnd'
  BY <1>1 DEF PlayerInv, PlayerTypeOK, TextsEnd
<1>3. NoneMissing' /\ AllSaid'
  BY <1>1 DEF PlayerInv, NoneMissing, AllSaid
<1>4. CutThere' /\ BothEnded'
  BY <1>1 DEF PlayerInv, CutThere, Clear, BothEnded
<1> QED
  BY <1>1, <1>2, <1>3, <1>4 DEF PlayerInv

\* A sentinel behind the audio: what is in front of it stays as it was.
LEMMA SentinelPut ==
  ASSUME PlayerInv, audioQueue' = Append(audioQueue, Sentinel), UNCHANGED <<played, playing>>
  PROVE  /\ audioQueue' \in Seq(Texts \cup {Sentinel})
         /\ Len(audioQueue') = Len(audioQueue) + 1
         /\ DOMAIN audioQueue' = 1..(Len(audioQueue) + 1)
         /\ \A i \in 1..Len(audioQueue) :
              audioQueue'[i] = audioQueue[i] /\ (Clear(audioQueue', i) <=> Clear(audioQueue, i))
         /\ ~AllClear(audioQueue')
         /\ Heard' = Heard /\ Coming' = Coming + 1
         /\ InOrder' /\ (UNCHANGED <<caller, atCancel>> => CutThere')
<1>1. PlayerTypeOK /\ audioQueue \in Seq(Texts \cup {Sentinel})
  BY DEF PlayerInv, PlayerTypeOK
<1>2. /\ audioQueue' \in Seq(Texts \cup {Sentinel})
      /\ Len(audioQueue') = Len(audioQueue) + 1
      /\ DOMAIN audioQueue' = 1..(Len(audioQueue) + 1)
      /\ \A i \in 1..Len(audioQueue) :
           audioQueue'[i] = audioQueue[i] /\ (Clear(audioQueue', i) <=> Clear(audioQueue, i))
      /\ ~AllClear(audioQueue')
  BY <1>1, Appended
<1>3. \A i \in DOMAIN audioQueue' : Clear(audioQueue', i) => i \in DOMAIN audioQueue
  BY <1>1, <1>2, Counts DEF AllClear
<1>4. Heard' = Heard /\ Coming' = Coming + 1
  <2>1. Heard' = Heard
    BY DEF Heard
  <2> QED
    BY <1>1, <1>2, <2>1, Counts DEF Coming
<1>5. InOrder'
  BY <1>1, <1>2, <1>3, <1>4, Counts DEF PlayerInv, InOrder
<1>6. UNCHANGED <<caller, atCancel>> => CutThere'
  BY <1>1, <1>2, <1>3, Counts DEF PlayerInv, CutThere
<1> QED
  BY <1>2, <1>4, <1>5, <1>6

\* _run_tts takes the sentinel, a text it skips, or a text it speaks.
LEMMA TtsTakesKeeps == ASSUME PlayerInv, TtsTakes PROVE PlayerInv'
<1> USE DEF TtsTakes
<1> DEFINE text == Head(textQueue)
<1>1. /\ PlayerTypeOK /\ synthesizing = Waiting /\ InHand = 0
      /\ synthesizing \notin Texts /\ synthesizing # Ended
      /\ textQueue \in Seq(Texts \cup {Sentinel}) /\ textQueue # <<>>
  BY DEF PlayerInv, PlayerTypeOK, InHand, Waiting, Ended, Texts
<1>2. /\ textQueue' \in Seq(Texts \cup {Sentinel})
      /\ text = textQueue[1] /\ text \in Texts \cup {Sentinel}
      /\ Len(textQueue) \in Nat \ {0} /\ DOMAIN textQueue = 1..Len(textQueue)
      /\ Len(textQueue') = Len(textQueue) - 1 /\ DOMAIN textQueue' = 1..(Len(textQueue) - 1)
      /\ \A i \in 1..(Len(textQueue) - 1) : textQueue'[i] = textQueue[i + 1]
  BY <1>1, Headless
<1>3. \A i \in 1..(Len(textQueue) - 1) : i + 1 \in DOMAIN textQueue
  BY <1>2
<1>4. (closed' <=> caller' # "streaming") /\ UNCHANGED <<closed, enqueued, played, playing>>
  BY DEF PlayerInv, TextsEnd
<1>5. \A i \in DOMAIN textQueue' : textQueue'[i] = Sentinel => closed' /\ i = Len(textQueue')
  BY <1>2, <1>3, <1>4 DEF PlayerInv, TextsEnd
<1>6. text # Sentinel /\ closed => textQueue' # <<>> /\ textQueue'[Len(textQueue')] = Sentinel
  <2> SUFFICES ASSUME text # Sentinel, closed
               PROVE  textQueue' # <<>> /\ textQueue'[Len(textQueue')] = Sentinel
    OBVIOUS
  <2>1. textQueue[Len(textQueue)] = Sentinel /\ Len(textQueue) - 1 \in 1..(Len(textQueue) - 1)
    BY <1>1, <1>2 DEF PlayerInv, TextsEnd
  <2>2. textQueue'[Len(textQueue) - 1] = textQueue[(Len(textQueue) - 1) + 1]
    BY <1>2, <2>1
  <2>3. textQueue' # <<>>
    <3>1. Len(textQueue') # 0 /\ Len(<<>>) = 0
      BY <1>2, <2>1
    <3> QED
      BY <3>1
  <2> QED
    BY <1>2, <2>1, <2>2, <2>3
<1>7. ~interrupted /\ ~ttsError => playing # Ended /\ AllClear(audioQueue)
  BY <1>1 DEF PlayerInv, AllSaid
<1>8. BothEnded'
  BY <1>1 DEF PlayerInv, BothEnded
<1>9. CASE text = Sentinel /\ synthesizing' = Ended /\ audioQueue' = Append(audioQueue, Sentinel)
           /\ UNCHANGED interrupted
  <2>1. /\ InOrder' /\ CutThere' /\ ~AllClear(audioQueue') /\ Coming' = Coming + 1
        /\ Len(audioQueue') = Len(audioQueue) + 1
        /\ DOMAIN audioQueue' = 1..(Len(audioQueue) + 1)
        /\ \A i \in 1..Len(audioQueue) : audioQueue'[i] = audioQueue[i]
        /\ audioQueue' \in Seq(Texts \cup {Sentinel})
    BY <1>9, SentinelPut
  <2>2. PlayerTypeOK'
    BY <1>1, <1>2, <1>9, <2>1 DEF PlayerTypeOK
  <2>3. TextsEnd'
    BY <1>4, <1>5, <1>9, <2>1 DEF TextsEnd, AllClear
  <2>4. NoneMissing'
    BY <2>1 DEF NoneMissing, AllClear
  <2>5. closed /\ Len(textQueue) = 1
    BY <1>2, <1>9 DEF PlayerInv, TextsEnd
  <2>6. ~interrupted /\ ~ttsError =>
          /\ enqueued = Coming
          /\ \A i \in DOMAIN audioQueue' : audioQueue'[i] = Sentinel => i = Len(audioQueue')
    <3> SUFFICES ASSUME ~interrupted, ~ttsError
                 PROVE  /\ enqueued = Coming
                        /\ \A i \in DOMAIN audioQueue' :
                              audioQueue'[i] = Sentinel => i = Len(audioQueue')
      OBVIOUS
    <3>1. enqueued = Coming + 0 + 1 - 1
      BY <1>1, <1>7, <2>5 DEF PlayerInv, NoneMissing
    <3>2. \A i \in 1..Len(audioQueue) : audioQueue[i] # Sentinel
      BY <1>7 DEF AllClear, Clear
    <3> QED
      BY <1>1, <2>1, <3>1, <3>2, Counts
  <2>7. AllSaid'
    <3>1. Coming = (Coming + 1) - 1
      BY <1>1, Counts
    <3> QED
      BY <1>4, <1>7, <1>9, <2>1, <2>5, <2>6, <3>1 DEF AllSaid
  <2> QED
    BY <1>8, <2>1, <2>2, <2>3, <2>4, <2>7 DEF PlayerInv
<1>10. CASE text # Sentinel /\ interruptEvent /\ interrupted'
            /\ UNCHANGED <<synthesizing, audioQueue>>
  <2>1. InOrder'
    BY <1>10, OrderStays
  <2>2. PlayerTypeOK'
    BY <1>1, <1>2, <1>10 DEF PlayerTypeOK
  <2>3. TextsEnd'
    BY <1>1, <1>4, <1>5, <1>6, <1>10 DEF TextsEnd
  <2>4. NoneMissing' /\ AllSaid'
    BY <1>10 DEF NoneMissing, AllSaid
  <2>5. CutThere'
    BY <1>10 DEF PlayerInv, CutThere, AllClear, Clear
  <2> QED
    BY <1>8, <2>1, <2>2, <2>3, <2>4, <2>5 DEF PlayerInv
<1>11. CASE text # Sentinel /\ ~interruptEvent /\ synthesizing' = text
            /\ UNCHANGED <<interrupted, audioQueue>>
  <2>1. /\ text \in Texts /\ text # Ended /\ InHand' = 1
        /\ Heard' = Heard /\ Coming' = Coming
        /\ (AllClear(audioQueue)' <=> AllClear(audioQueue))
    BY <1>2, <1>4, <1>11 DEF Heard, Coming, InHand, Texts, Ended, AllClear, Clear
  <2>2. PlayerTypeOK'
    BY <1>1, <1>2, <1>11, <2>1 DEF PlayerTypeOK
  <2>3. TextsEnd'
    BY <1>4, <1>5, <1>6, <1>11, <2>1 DEF TextsEnd
  <2>4. playing # Ended /\ AllClear(audioQueue) =>
          /\ ~interrupted
          /\ \A i \in DOMAIN textQueue : textQueue[i] # Sentinel => textQueue[i] = Coming + 0 + i
          /\ enqueued = Coming + 0 + Len(textQueue) - (IF closed THEN 1 ELSE 0)
    BY <1>1, <1>11 DEF PlayerInv, NoneMissing
  <2>5. Coming \in Nat /\ (IF closed THEN 1 ELSE 0) \in Int
    BY <1>1, Counts
  <2>6. InOrder'
    <3>1. playing # Ended /\ AllClear(audioQueue) => text = Coming + 1
      BY <1>2, <1>11, <2>4, <2>5
    <3>2. /\ \A i \in DOMAIN played : played[i] = i
          /\ playing \in Texts => playing = Len(played) + 1
          /\ playing # Ended =>
               \A i \in DOMAIN audioQueue : Clear(audioQueue, i) => audioQueue[i] = Heard + i
      BY DEF PlayerInv, InOrder
    <3> QED
      BY <1>4, <1>11, <2>1, <3>1, <3>2 DEF InOrder
  <2>7. NoneMissing'
    <3>1. playing # Ended /\ AllClear(audioQueue) =>
            /\ \A i \in DOMAIN textQueue' :
                  textQueue'[i] # Sentinel => textQueue'[i] = Coming + 1 + i
            /\ enqueued = Coming + 1 + Len(textQueue') - (IF closed THEN 1 ELSE 0)
      <4>1. /\ Coming + 0 + Len(textQueue) = Coming + 1 + Len(textQueue')
            /\ \A i \in DOMAIN textQueue' : Coming + 0 + (i + 1) = Coming + 1 + i
        BY <1>2, <2>5
      <4>2. playing # Ended /\ AllClear(audioQueue) =>
              enqueued = Coming + 1 + Len(textQueue') - (IF closed THEN 1 ELSE 0)
        BY <1>2, <2>4, <2>5, <4>1
      <4>3. playing # Ended /\ AllClear(audioQueue) =>
              \A i \in DOMAIN textQueue' :
                 textQueue[i + 1] # Sentinel => textQueue[i + 1] = Coming + 1 + i
        BY <1>2, <1>3, <2>4, <2>5, <4>1
      <4> QED
        BY <1>2, <4>2, <4>3
    <3> QED
      BY <1>4, <1>11, <2>1, <2>4, <3>1 DEF PlayerInv, NoneMissing
  <2>8. AllSaid'
    BY <1>4, <1>7, <1>11, <2>1 DEF AllSaid
  <2>9. CutThere'
    BY <1>11 DEF PlayerInv, CutThere, AllClear, Clear
  <2> QED
    BY <1>8, <2>2, <2>3, <2>6, <2>7, <2>8, <2>9 DEF PlayerInv
<1> QED
  BY <1>9, <1>10, <1>11

\* The chunk is synthesized and goes behind the audio.
LEMMA SynthesizedKeeps == ASSUME PlayerInv, Synthesized PROVE PlayerInv'
<1> USE DEF Synthesized
<1>1. /\ PlayerTypeOK /\ synthesizing \in Texts /\ synthesizing # Sentinel
      /\ synthesizing # Ended /\ synthesizing' \notin Texts /\ synthesizing' # Ended
      /\ audioQueue \in Seq(Texts \cup {Sentinel})
  BY DEF PlayerInv, PlayerTypeOK, Texts, Sentinel, Waiting, Ended
<1>2. /\ audioQueue' \in Seq(Texts \cup {Sentinel})
      /\ Len(audioQueue') = Len(audioQueue) + 1
      /\ DOMAIN audioQueue' = 1..(Len(audioQueue) + 1)
      /\ \A i \in 1..Len(audioQueue) :
           audioQueue'[i] = audioQueue[i] /\ (Clear(audioQueue', i) <=> Clear(audioQueue, i))
      /\ audioQueue'[Len(audioQueue) + 1] = synthesizing
      /\ AllClear(audioQueue') <=> AllClear(audioQueue)
  BY <1>1, Appended
<1>3. Clear(audioQueue', Len(audioQueue) + 1) <=> AllClear(audioQueue)
  BY <1>2 DEF AllClear
<1>4. /\ Heard' = Heard /\ Coming' = Coming + 1 /\ InHand = 1 /\ InHand' = 0
  <2>1. Heard' = Heard /\ InHand = 1 /\ InHand' = 0
    BY <1>1 DEF Heard, InHand
  <2> QED
    BY <1>1, <1>2, <2>1, Counts DEF Coming
<1>5. PlayerTypeOK'
  BY <1>1, <1>2 DEF PlayerTypeOK
<1>6. TextsEnd'
  BY <1>1, <1>2 DEF PlayerInv, TextsEnd, AllClear
<1>7. ~interrupted /\ ~ttsError => playing # Ended /\ AllClear(audioQueue)
  BY <1>1 DEF PlayerInv, AllSaid
<1>8. InOrder'
  <2>1. ASSUME playing # Ended, NEW i \in DOMAIN audioQueue', Clear(audioQueue', i)
        PROVE  audioQueue'[i] = Heard + i
    <3>1. CASE i \in 1..Len(audioQueue)
      BY <1>1, <1>2, <2>1, <3>1, Counts DEF PlayerInv, InOrder
    <3>2. CASE i = Len(audioQueue) + 1
      <4>1. synthesizing = Coming + 1
        BY <1>1, <1>3, <2>1, <3>2 DEF PlayerInv, InOrder
      <4> QED
        BY <1>1, <1>2, <3>2, <4>1, Counts DEF Coming
    <3> QED
      BY <1>1, <1>2, <3>1, <3>2, Counts
  <2>2. /\ \A i \in DOMAIN played : played[i] = i
        /\ playing \in Texts => playing = Len(played) + 1
    BY DEF PlayerInv, InOrder
  <2> QED
    BY <1>1, <1>4, <2>1, <2>2 DEF InOrder
<1>9. NoneMissing'
  <2>1. playing # Ended /\ AllClear(audioQueue) /\ ~interrupted =>
          /\ \A i \in DOMAIN textQueue :
                textQueue[i] # Sentinel => textQueue[i] = Coming + 1 + i
          /\ enqueued = Coming + 1 + Len(textQueue) - (IF closed THEN 1 ELSE 0)
    BY <1>4 DEF PlayerInv, NoneMissing
  <2>2. \A i \in DOMAIN textQueue : (Coming + 1) + 0 + i = Coming + 1 + i
    BY <1>1, Counts
  <2>3. (Coming + 1) + 0 + Len(textQueue) = Coming + 1 + Len(textQueue)
    BY <1>1, Counts
  <2>4. interrupted => interruptEvent \/ playing = Ended \/ ~AllClear(audioQueue)
    BY DEF PlayerInv, NoneMissing
  <2> QED
    BY <1>2, <1>4, <2>1, <2>2, <2>3, <2>4 DEF NoneMissing, AllClear
<1>10. AllSaid'
  BY <1>2, <1>7 DEF AllSaid, AllClear
<1>11. CutThere'
  BY <1>1, <1>2, <1>3, Counts DEF PlayerInv, CutThere, AllClear
<1>12. BothEnded'
  BY <1>1 DEF PlayerInv, BothEnded
<1> QED
  BY <1>5, <1>6, <1>8, <1>9, <1>10, <1>11, <1>12 DEF PlayerInv

\* The synthesis raises: its end is a sentinel too.
LEMMA SynthesisRaisesKeeps == ASSUME PlayerInv, SynthesisRaises PROVE PlayerInv'
<1> USE DEF SynthesisRaises
<1>1. PlayerTypeOK /\ synthesizing \in Texts /\ synthesizing # Ended
  BY DEF PlayerInv, PlayerTypeOK, Texts, Ended
<1>2. /\ InOrder' /\ CutThere' /\ ~AllClear(audioQueue')
      /\ audioQueue' \in Seq(Texts \cup {Sentinel})
  BY SentinelPut
<1>3. PlayerTypeOK'
  BY <1>1, <1>2 DEF PlayerTypeOK
<1>4. TextsEnd'
  BY <1>2 DEF PlayerInv, TextsEnd, AllClear
<1>5. NoneMissing' /\ AllSaid'
  BY <1>2 DEF NoneMissing, AllSaid, AllClear
<1>6. BothEnded'
  BY <1>1 DEF PlayerInv, BothEnded
<1> QED
  BY <1>2, <1>3, <1>4, <1>5, <1>6 DEF PlayerInv

\* _run_playback takes a sentinel, sees the interruption, or plays the next chunk.
LEMMA PlaybackTakesKeeps == ASSUME PlayerInv, PlaybackTakes PROVE PlayerInv'
<1> USE DEF PlaybackTakes
<1> DEFINE item == Head(audioQueue)
<1>1. /\ PlayerTypeOK /\ playing = Waiting /\ playing \notin Texts /\ playing # Ended
      /\ Ended \notin Texts
      /\ audioQueue \in Seq(Texts \cup {Sentinel}) /\ audioQueue # <<>>
  BY DEF PlayerInv, PlayerTypeOK, Waiting, Ended, Texts
<1>2. Heard = Len(played) /\ Coming = Len(played) + Len(audioQueue) /\ Len(played) \in Nat
  BY <1>1, Counts DEF Heard, Coming
<1>3. /\ audioQueue' \in Seq(Texts \cup {Sentinel})
      /\ item = audioQueue[1] /\ item \in Texts \cup {Sentinel}
      /\ Len(audioQueue) \in Nat \ {0} /\ DOMAIN audioQueue = 1..Len(audioQueue)
      /\ Len(audioQueue') = Len(audioQueue) - 1
      /\ DOMAIN audioQueue' = 1..(Len(audioQueue) - 1)
      /\ \A i \in 1..(Len(audioQueue) - 1) : audioQueue'[i] = audioQueue[i + 1]
      /\ item # Sentinel =>
           /\ \A i \in 1..(Len(audioQueue) - 1) :
                Clear(audioQueue', i) <=> Clear(audioQueue, i + 1)
           /\ AllClear(audioQueue') <=> AllClear(audioQueue)
      /\ item = Sentinel => ~AllClear(audioQueue)
  BY <1>1, Headless
<1>4. BothEnded'
  BY <1>1 DEF PlayerInv, BothEnded
<1>5. CASE playing' = Ended /\ ((item = Sentinel /\ UNCHANGED interrupted) \/ interrupted')
  <2>1. PlayerTypeOK'
    BY <1>1, <1>3, <1>5 DEF PlayerTypeOK, SeesInterrupt
  <2>2. TextsEnd' /\ NoneMissing'
    BY <1>5 DEF PlayerInv, TextsEnd, NoneMissing
  <2>3. InOrder'
    BY <1>1, <1>5 DEF PlayerInv, InOrder
  <2>4. AllSaid'
    <3>1. ASSUME ~interrupted', ~ttsError'
          PROVE  synthesizing = Ended /\ closed /\ enqueued = Len(played)
      <4>1. /\ synthesizing = Ended /\ closed /\ enqueued = Coming - 1
            /\ \A i \in DOMAIN audioQueue : audioQueue[i] = Sentinel => i = Len(audioQueue)
        BY <1>1, <1>3, <1>5, <3>1 DEF PlayerInv, AllSaid
      <4>2. Len(audioQueue) = 1
        BY <1>3, <1>5, <3>1, <4>1
      <4> QED
        BY <1>2, <4>1, <4>2
    <3> QED
      BY <1>5, <3>1 DEF AllSaid
  <2>5. CutThere'
    BY <1>1, <1>5 DEF PlayerInv, CutThere
  <2> QED
    BY <1>4, <2>1, <2>2, <2>3, <2>4, <2>5 DEF PlayerInv
<1>6. CASE item # Sentinel /\ ~interruptEvent /\ playing' = item /\ UNCHANGED interrupted
  <2>1. /\ item \in Texts /\ item # Ended
        /\ AllClear(audioQueue') <=> AllClear(audioQueue)
        /\ \A i \in DOMAIN audioQueue' :
             /\ i + 1 \in DOMAIN audioQueue /\ audioQueue'[i] = audioQueue[i + 1]
             /\ Clear(audioQueue', i) <=> Clear(audioQueue, i + 1)
    BY <1>1, <1>3, <1>6
  <2>2. Clear(audioQueue, 1) /\ 1 \in DOMAIN audioQueue
    BY <1>3, <1>6 DEF Clear
  <2>3. Heard' = Heard + 1 /\ Coming' = Coming /\ InHand' = InHand
    <3>1. Heard' = Len(played) + 1 /\ InHand' = InHand
      BY <1>6, <2>1 DEF Heard, InHand
    <3> QED
      BY <1>2, <1>3, <3>1 DEF Coming
  <2>4. PlayerTypeOK'
    BY <1>1, <1>3, <1>6, <2>1 DEF PlayerTypeOK
  <2>5. TextsEnd'
    BY <1>1, <2>1 DEF PlayerInv, TextsEnd
  <2>6. InOrder'
    <3>1. item = Len(played) + 1
      BY <1>1, <1>2, <1>3, <2>2 DEF PlayerInv, InOrder
    <3>2. \A i \in DOMAIN audioQueue' : Clear(audioQueue', i) => audioQueue'[i] = Heard + 1 + i
      <4>1. \A i \in DOMAIN audioQueue' :
               Clear(audioQueue', i) => audioQueue'[i] = Heard + (i + 1)
        BY <1>1, <2>1 DEF PlayerInv, InOrder
      <4> QED
        BY <1>2, <1>3, <4>1
    <3>3. \A i \in DOMAIN played : played[i] = i
      BY DEF PlayerInv, InOrder
    <3>4. AllClear(audioQueue) /\ synthesizing \in Texts => synthesizing = Coming + 1
      BY <1>1 DEF PlayerInv, InOrder
    <3> QED
      BY <1>6, <2>1, <2>3, <3>1, <3>2, <3>3, <3>4 DEF InOrder
  <2>7. NoneMissing'
    BY <1>1, <1>6, <2>1, <2>3 DEF PlayerInv, NoneMissing
  <2>8. AllSaid'
    <3>1. \A i \in DOMAIN audioQueue' :
             i + 1 = Len(audioQueue) => i = Len(audioQueue')
      BY <1>3
    <3> QED
      BY <1>1, <1>6, <2>1, <2>3, <3>1 DEF PlayerInv, AllSaid
  <2>9. CutThere'
    BY <1>1, <1>3, <1>6, <2>1, <2>2 DEF PlayerInv, CutThere
  <2> QED
    BY <1>4, <2>4, <2>5, <2>6, <2>7, <2>8, <2>9 DEF PlayerInv
<1> QED
  BY <1>5, <1>6 DEF SeesInterrupt

\* play_interruptible plays the chunk to its end.
LEMMA PlayedThroughKeeps == ASSUME PlayerInv, PlayedThrough PROVE PlayerInv'
<1> USE DEF PlayedThrough
<1>1. /\ PlayerTypeOK /\ playing \in Texts /\ playing # Ended
      /\ playing' \notin Texts /\ playing' # Ended
  BY DEF PlayerInv, PlayerTypeOK, Waiting, Ended, Texts
<1>2. /\ played' \in Seq(Texts) /\ DOMAIN played = 1..Len(played)
      /\ Len(played') = Len(played) + 1 /\ DOMAIN played' = 1..(Len(played) + 1)
      /\ \A i \in 1..Len(played) : played'[i] = played[i]
      /\ played'[Len(played) + 1] = playing
  BY <1>1, Appended DEF PlayerTypeOK
<1>3. \A i \in DOMAIN played' : i \in DOMAIN played \/ i = Len(played) + 1
  BY <1>1, <1>2, Counts
<1>4. Heard' = Heard /\ Coming' = Coming /\ InHand' = InHand
  <2>1. Heard' = Heard /\ InHand' = InHand
    BY <1>1, <1>2, Counts DEF Heard, InHand
  <2> QED
    BY <2>1 DEF Coming
<1>5. AllClear(audioQueue)' <=> AllClear(audioQueue)
  BY DEF AllClear, Clear
<1>6. PlayerTypeOK'
  BY <1>1, <1>2 DEF PlayerTypeOK
<1>7. TextsEnd'
  BY <1>1, <1>5 DEF PlayerInv, TextsEnd
<1>8. InOrder'
  <2>1. \A i \in DOMAIN played' : played'[i] = i
    BY <1>1, <1>2, <1>3 DEF PlayerInv, InOrder
  <2> QED
    BY <1>1, <1>4, <1>5, <2>1 DEF PlayerInv, InOrder
<1>9. NoneMissing'
  BY <1>1, <1>4, <1>5 DEF PlayerInv, NoneMissing
<1>10. AllSaid'
  BY <1>1, <1>4, <1>5 DEF PlayerInv, AllSaid
<1>11. CutThere'
  BY <1>1, <1>2, <1>3, <1>5 DEF PlayerInv, CutThere
<1>12. BothEnded'
  BY <1>1 DEF PlayerInv, BothEnded
<1> QED
  BY <1>6, <1>7, <1>8, <1>9, <1>10, <1>11, <1>12 DEF PlayerInv

\* The playback ends in a chunk, cut by the event or by an error.
LEMMA PlaybackEndsKeeps ==
  ASSUME PlayerInv, PlaybackCut \/ PlaybackRaises PROVE PlayerInv'
<1> USE DEF PlaybackCut, PlaybackRaises
<1>1. playing \in Texts /\ playing # Ended /\ playing' = Ended /\ Ended \notin Texts
  BY DEF Texts, Ended
<1>2. PlayerTypeOK'
  BY DEF PlayerInv, PlayerTypeOK
<1>3. TextsEnd' /\ InOrder'
  BY <1>1 DEF PlayerInv, TextsEnd, InOrder
<1>4. NoneMissing' /\ AllSaid'
  BY <1>1 DEF NoneMissing, AllSaid
<1>5. CutThere'
  BY <1>1 DEF PlayerInv, CutThere
<1>6. BothEnded'
  BY <1>1 DEF PlayerInv, BothEnded
<1> QED
  BY <1>2, <1>3, <1>4, <1>5, <1>6 DEF PlayerInv

LEMMA PlayerInvKept == ASSUME PlayerInv, [PlayerNext]_playerVars PROVE PlayerInv'
<1>1. CASE UNCHANGED playerVars
  <2> USE <1>1 DEF playerVars
  <2>1. InOrder' /\ Heard' = Heard /\ Coming' = Coming /\ InHand' = InHand
        /\ (AllClear(audioQueue)' <=> AllClear(audioQueue))
    BY OrderStays
  <2>2. PlayerTypeOK' /\ TextsEnd' /\ BothEnded'
    BY <2>1 DEF PlayerInv, PlayerTypeOK, TextsEnd, BothEnded
  <2>3. NoneMissing' /\ AllSaid'
    BY <2>1 DEF PlayerInv, NoneMissing, AllSaid
  <2>4. CutThere'
    BY <2>1 DEF PlayerInv, CutThere, Clear
  <2> QED
    BY <2>1, <2>2, <2>3, <2>4 DEF PlayerInv
<1>2. CASE CallerNext
  BY <1>2, EnqueueTextKeeps, FinishKeeps, CancelKeeps DEF CallerNext
<1>3. CASE TtsNext
  BY <1>3, TtsTakesKeeps, SynthesizedKeeps, SynthesisRaisesKeeps DEF TtsNext
<1>4. CASE PlaybackNext
  BY <1>4, PlaybackTakesKeeps, PlayedThroughKeeps, PlaybackEndsKeeps DEF PlaybackNext
<1> QED
  BY <1>1, <1>2, <1>3, <1>4, InterruptKeeps, ReturnsKeep DEF PlayerNext, JoinNext

LEMMA PlayerInvInit == PlayerInit => PlayerInv
<1> SUFFICES ASSUME PlayerInit PROVE PlayerInv
  OBVIOUS
<1>1. Len(<<>>) = 0 /\ DOMAIN <<>> = {}
  OBVIOUS
<1>2. PlayerTypeOK
  <2>1. {closed, interruptEvent, interrupted, ttsError} \subseteq BOOLEAN
    BY DEF PlayerInit
  <2>2. /\ textQueue \in Seq(Texts \cup {Sentinel})
        /\ audioQueue \in Seq(Texts \cup {Sentinel})
        /\ played \in Seq(Texts) /\ atCancel \subseteq Texts
    BY DEF PlayerInit
  <2> QED
    BY <2>1, <2>2, PlayerAssumption DEF PlayerInit, PlayerTypeOK
<1>3. Heard = 0 /\ Coming = 0 /\ InHand = 0
  BY <1>1 DEF PlayerInit, Heard, Coming, InHand, Texts, Waiting
<1>4. TextsEnd /\ CutThere /\ BothEnded
  BY <1>1 DEF PlayerInit, TextsEnd, CutThere, BothEnded, Waiting, Ended
<1>5. InOrder
  BY <1>1 DEF PlayerInit, InOrder, Texts, Waiting
<1>6. NoneMissing
  BY <1>1, <1>3 DEF PlayerInit, NoneMissing
<1>7. AllSaid
  BY <1>1 DEF PlayerInit, AllSaid, AllClear, Clear, Waiting, Ended
<1> QED
  BY <1>2, <1>4, <1>5, <1>6, <1>7 DEF PlayerInv

\* For any number of texts: what is heard is the answer from its beginning
\* without a gap, all of it when finish() reports no interruption, and nothing
\* that was not waiting to be played when cancel() came.
THEOREM AnswerIsSaid == PlayerSpec => []SaidInFull
<1>1. PlayerInv => SaidInFull
  <2> SUFFICES ASSUME PlayerInv PROVE SaidInFull
    OBVIOUS
  <2>1. \A i \in DOMAIN played : played[i] = i
    BY DEF PlayerInv, InOrder
  <2>2. caller = "finished" /\ ~interrupted => Len(played) = enqueued
    BY DEF PlayerInv, BothEnded, AllSaid
  <2>3. caller \in {"cancelling", "cancelled"} => \A i \in DOMAIN played : played[i] \in atCancel
    BY DEF PlayerInv, CutThere
  <2> QED
    BY <2>1, <2>2, <2>3 DEF SaidInFull
<1> QED
  BY <1>1, PlayerInvInit, PlayerInvKept, PTL DEF PlayerSpec

----------------------------------------------------------------------------
(* The player implements SpokenAnswer.                                     *)

\* All that is under way has been enqueued.
OfThis(q) == \A i \in DOMAIN q : q[i] <= enqueued
Handed ==
    /\ OfThis(textQueue) /\ OfThis(audioQueue) /\ OfThis(played)
    /\ synthesizing <= enqueued /\ playing <= enqueued
    /\ \A k \in atCancel : k <= enqueued

\* Both threads have ended when finish() returns, and it was not for nothing
\* that the answer was cut.
Reported ==
    /\ caller \in {"finished", "failed"} => synthesizing = Ended /\ playing = Ended
    /\ interrupted => interruptEvent \/ caller \in {"cancelling", "cancelled"}

LEMMA EnqueuedGrows ==
  ASSUME PlayerTypeOK, [PlayerNext]_playerVars
  PROVE  enqueued \in Nat /\ enqueued' \in Nat /\ enqueued <= enqueued'
BY PlayerAssumption
   DEF PlayerTypeOK, playerVars, PlayerNext, CallerNext, TtsNext, PlaybackNext, JoinNext,
       EnqueueText, Finish, Cancel, Interrupt, TtsTakes, Synthesized, SynthesisRaises,
       PlaybackTakes, PlayedThrough, PlaybackCut, PlaybackRaises, FinishReturns, CancelReturns

\* What a queue has been given and has lost was enqueued.
LEMMA OfThisStays ==
  ASSUME PlayerTypeOK, [PlayerNext]_playerVars, NEW q \in Seq(Int), OfThis(q)
  PROVE  /\ \A i \in DOMAIN q : q[i] <= enqueued'
         /\ \A e \in Int : e <= enqueued' => \A i \in DOMAIN Append(q, e) : Append(q, e)[i] <= enqueued'
         /\ q # <<>> => Head(q) <= enqueued' /\ \A i \in DOMAIN Tail(q) : Tail(q)[i] <= enqueued'
<1>1. enqueued \in Nat /\ enqueued' \in Nat /\ enqueued <= enqueued'
  BY EnqueuedGrows
<1>2. ASSUME NEW i \in DOMAIN q PROVE q[i] <= enqueued'
  <2>1. q[i] \in Int /\ q[i] <= enqueued
    BY LenProperties, ElementOfSeq DEF OfThis
  <2> QED
    BY <1>1, <2>1
<1>3. ASSUME NEW e \in Int, e <= enqueued', NEW i \in DOMAIN Append(q, e)
      PROVE  Append(q, e)[i] <= enqueued'
  BY <1>2, <1>3, Appended
<1>4. ASSUME q # <<>>
      PROVE  Head(q) <= enqueued' /\ \A i \in DOMAIN Tail(q) : Tail(q)[i] <= enqueued'
  <2>1. /\ Head(q) = q[1] /\ Len(q) \in Nat \ {0} /\ DOMAIN q = 1..Len(q)
        /\ DOMAIN Tail(q) = 1..(Len(q) - 1) /\ \A i \in 1..(Len(q) - 1) : Tail(q)[i] = q[i + 1]
    BY <1>4, Headless
  <2> QED
    BY <1>2, <2>1
<1> QED
  BY <1>2, <1>3, <1>4

LEMMA HandedKept == ASSUME PlayerTypeOK, Handed, [PlayerNext]_playerVars PROVE Handed'
<1>1. /\ enqueued \in Nat /\ enqueued' \in Nat /\ enqueued <= enqueued'
  BY EnqueuedGrows
<1>2. /\ textQueue \in Seq(Int) /\ audioQueue \in Seq(Int) /\ played \in Seq(Int)
      /\ synthesizing \in Int /\ playing \in Int /\ \A k \in atCancel : k \in Int
  <2>1. Texts \cup {Sentinel} \subseteq Int /\ Texts \subseteq Int /\ Waiting \in Int /\ Ended \in Int
    BY PlayerAssumption DEF Texts, Sentinel, Waiting, Ended
  <2> QED
    BY <2>1, SeqMonotonic DEF PlayerTypeOK
<1>3. Sentinel \in Int /\ Sentinel <= enqueued' /\ Waiting <= enqueued' /\ Ended <= enqueued'
  BY <1>1 DEF Sentinel, Waiting, Ended
<1>4. synthesizing <= enqueued' /\ playing <= enqueued' /\ \A k \in atCancel : k <= enqueued'
  BY <1>1, <1>2 DEF Handed
<1>5. OfThis(textQueue)'
  <2>1. \/ textQueue' = textQueue
        \/ textQueue' = Append(textQueue, Sentinel)
        \/ textQueue' = Append(textQueue, enqueued') /\ enqueued' \in Int /\ enqueued' <= enqueued'
        \/ textQueue # <<>> /\ textQueue' = Tail(textQueue)
    BY <1>1 DEF playerVars, PlayerNext, CallerNext, TtsNext, PlaybackNext, JoinNext,
       EnqueueText, Finish, Cancel, Interrupt, TtsTakes, Synthesized, SynthesisRaises,
       PlaybackTakes, PlayedThrough, PlaybackCut, PlaybackRaises, FinishReturns, CancelReturns
  <2> QED
    BY <1>2, <1>3, <2>1, OfThisStays DEF OfThis, Handed
<1>6. OfThis(audioQueue)'
  <2>1. \/ audioQueue' = audioQueue
        \/ audioQueue' = Append(audioQueue, Sentinel)
        \/ audioQueue' = Append(audioQueue, synthesizing)
        \/ audioQueue # <<>> /\ audioQueue' = Tail(audioQueue)
    BY DEF playerVars, PlayerNext, CallerNext, TtsNext, PlaybackNext, JoinNext,
       EnqueueText, Finish, Cancel, Interrupt, TtsTakes, Synthesized, SynthesisRaises,
       PlaybackTakes, PlayedThrough, PlaybackCut, PlaybackRaises, FinishReturns, CancelReturns
  <2> QED
    BY <1>2, <1>3, <1>4, <2>1, OfThisStays DEF OfThis, Handed
<1>7. OfThis(played)'
  <2>1. played' = played \/ played' = Append(played, playing)
    BY DEF playerVars, PlayerNext, CallerNext, TtsNext, PlaybackNext, JoinNext,
       EnqueueText, Finish, Cancel, Interrupt, TtsTakes, Synthesized, SynthesisRaises,
       PlaybackTakes, PlayedThrough, PlaybackCut, PlaybackRaises, FinishReturns, CancelReturns
  <2> QED
    BY <1>2, <1>4, <2>1, OfThisStays DEF OfThis, Handed
<1>8. synthesizing' <= enqueued'
  <2>1. \/ synthesizing' \in {synthesizing, Waiting, Ended}
        \/ textQueue # <<>> /\ synthesizing' = Head(textQueue)
    BY DEF playerVars, PlayerNext, CallerNext, TtsNext, PlaybackNext, JoinNext,
       EnqueueText, Finish, Cancel, Interrupt, TtsTakes, Synthesized, SynthesisRaises,
       PlaybackTakes, PlayedThrough, PlaybackCut, PlaybackRaises, FinishReturns, CancelReturns
  <2> QED
    BY <1>2, <1>3, <1>4, <2>1, OfThisStays DEF Handed
<1>9. playing' <= enqueued'
  <2>1. \/ playing' \in {playing, Waiting, Ended}
        \/ audioQueue # <<>> /\ playing' = Head(audioQueue)
    BY DEF playerVars, PlayerNext, CallerNext, TtsNext, PlaybackNext, JoinNext, SeesInterrupt,
       EnqueueText, Finish, Cancel, Interrupt, TtsTakes, Synthesized, SynthesisRaises,
       PlaybackTakes, PlayedThrough, PlaybackCut, PlaybackRaises, FinishReturns, CancelReturns
  <2> QED
    BY <1>2, <1>3, <1>4, <2>1, OfThisStays DEF Handed
<1>10. \A k \in atCancel' : k <= enqueued'
  <2>1. CASE atCancel' = atCancel
    BY <1>4, <2>1
  <2>2. CASE Cancel
    <3>1. \A k \in atCancel' :
             \/ playing = k
             \/ \E i \in DOMAIN audioQueue : audioQueue[i] = k
             \/ \E j \in DOMAIN played : played[j] = k
      BY <2>2 DEF Cancel
    <3> QED
      BY <1>2, <1>4, <3>1, OfThisStays DEF Handed
  <2>3. atCancel' = atCancel \/ Cancel
    BY DEF playerVars, PlayerNext, CallerNext, TtsNext, PlaybackNext, JoinNext,
       EnqueueText, Finish, Interrupt, TtsTakes, Synthesized, SynthesisRaises,
       PlaybackTakes, PlayedThrough, PlaybackCut, PlaybackRaises, FinishReturns, CancelReturns
  <2> QED
    BY <2>1, <2>2, <2>3
<1> QED
  BY <1>5, <1>6, <1>7, <1>8, <1>9, <1>10 DEF Handed

LEMMA ReportedKept ==
  ASSUME PlayerTypeOK, Reported, [PlayerNext]_playerVars PROVE Reported'
<1>1. CASE UNCHANGED playerVars
  BY <1>1 DEF Reported, playerVars
<1>2. CASE CallerNext \/ Interrupt \/ JoinNext
  BY <1>2 DEF Reported, CallerNext, JoinNext, EnqueueText, Finish, Cancel, Interrupt,
              FinishReturns, CancelReturns
<1>3. CASE TtsNext
  BY <1>3, PlayerAssumption
     DEF Reported, TtsNext, TtsTakes, Synthesized, SynthesisRaises, Texts, Waiting, Ended
<1>4. CASE PlaybackNext
  BY <1>4, PlayerAssumption
     DEF Reported, PlaybackNext, PlaybackTakes, SeesInterrupt, PlayedThrough, PlaybackCut,
         PlaybackRaises, Texts, Waiting, Ended
<1> QED
  BY <1>1, <1>2, <1>3, <1>4 DEF PlayerNext

\* How the voice and the stage follow from the threads and the caller.
LEMMA VoiceIs ==
  ASSUME PlayerTypeOK
  PROVE  /\ Waiting \notin Texts /\ Ended \notin Texts /\ Waiting # Ended
         /\ playing = Waiting => Voice = "silent"
         /\ playing = Ended => Voice = "gone"
         /\ playing \in Texts => Voice = "speaking"
BY DEF PlayerTypeOK, Voice, Waiting, Ended, Texts

\* While a thread of the player runs, the caller has no answer from finish().
LEMMA StillAsked ==
  ASSUME PlayerTypeOK, Reported, playing # Ended \/ synthesizing # Ended
  PROVE  Answer!Asked /\ (Stage = "cancelled" <=> caller \in {"cancelling", "cancelled"})
<1>1. caller \in {"streaming", "finishing", "cancelling", "cancelled"}
  BY DEF PlayerTypeOK, Reported
<1> QED
  BY <1>1 DEF Answer!Asked, Stage

\* The caller's steps.
LEMMA CallerStep ==
  ASSUME PlayerInv, Handed', CallerNext \/ Interrupt
  PROVE  Answer!Next
<1>1. CASE EnqueueText
  BY <1>1 DEF EnqueueText, Answer!Next, Answer!Give, Stage, Voice
<1>2. CASE Finish
  BY <1>2 DEF Finish, Answer!Next, Answer!Close, Stage, Voice
<1>3. CASE Cancel
  <2>1. ASSUME NEW k \in atCancel' PROVE k \in 1..enqueued
    <3>1. atCancel' \subseteq Texts /\ enqueued' = enqueued
      BY <1>3 DEF Cancel
    <3>2. k \in Nat /\ k >= 1 /\ k <= enqueued /\ enqueued \in Nat
      BY <3>1, PlayerAssumption DEF Handed, Texts, PlayerInv, PlayerTypeOK
    <3> QED
      BY <3>2
  <2>2. atCancel' \in SUBSET (1..enqueued)
    BY <2>1
  <2>3. Stage = "open" /\ Stage' = "cancelled" /\ Voice' = Voice
    BY <1>3 DEF Cancel, Stage, Voice
  <2>4. DOMAIN played \subseteq atCancel'
    <3>1. /\ played \in Seq(Texts) /\ \A i \in DOMAIN played : played[i] = i
          /\ \A i \in DOMAIN played : played[i] \in Texts
      BY DEF PlayerInv, InOrder, PlayerTypeOK
    <3> QED
      BY <1>3, <3>1 DEF Cancel
  <2> QED
    BY <1>3, <2>2, <2>3, <2>4 DEF Cancel, Answer!Next, Answer!Cancel
<1>4. CASE Interrupt
  BY <1>4 DEF Interrupt, Answer!Next, Answer!Hush, Stage, Voice
<1> QED
  BY <1>1, <1>2, <1>3, <1>4 DEF CallerNext

\* finish() returns what has become of the answer; cancel() has said it before.
LEMMA JoinStep ==
  ASSUME PlayerInv, Reported, JoinNext
  PROVE  [Answer!Next]_(Answer!answer)
<1>1. CASE FinishReturns
  <2>1. /\ caller = "finishing" /\ playing = Ended
        /\ caller' = (IF ttsError THEN "failed" ELSE "finished") /\ interrupted' = interrupted
        /\ UNCHANGED <<enqueued, played, interruptEvent, ttsError, atCancel, playing>>
    BY <1>1 DEF FinishReturns
  <2>2. Stage = "closing" /\ Voice = "gone" /\ Voice' = Voice
    BY <2>1, VoiceIs DEF Stage, Voice, PlayerInv
  <2>3. CASE ttsError
    <3>1. Stage' = "failed"
      BY <2>1, <2>3 DEF Stage
    <3> QED
      BY <2>1, <2>2, <2>3, <3>1 DEF Answer!Next, Answer!Return
  <2>4. CASE ~ttsError /\ interrupted
    <3>1. Stage' = "cut" /\ interruptEvent
      BY <2>1, <2>4 DEF Stage, Reported
    <3> QED
      BY <2>1, <2>2, <3>1 DEF Answer!Next, Answer!Return
  <2>5. CASE ~ttsError /\ ~interrupted
    <3>1. Stage' = "whole" /\ Len(played) = enqueued
      BY <2>1, <2>5 DEF Stage, PlayerInv, AllSaid
    <3> QED
      BY <2>1, <2>2, <3>1 DEF Answer!Next, Answer!Return
  <2> QED
    BY <2>3, <2>4, <2>5
<1>2. CASE CancelReturns
  BY <1>2 DEF CancelReturns, Answer!answer, Stage, Voice
<1> QED
  BY <1>1, <1>2 DEF JoinNext

\* The synthesis is not heard; only its error counts.
LEMMA TtsStep ==
  ASSUME PlayerInv, Reported, TtsNext
  PROVE  [Answer!Next]_(Answer!answer)
<1>1. PlayerTypeOK /\ synthesizing # Ended
  BY PlayerAssumption DEF PlayerInv, TtsNext, TtsTakes, Synthesized, SynthesisRaises, Waiting,
                          Ended, Texts
<1>2. caller # "finished"
  BY <1>1 DEF Reported
<1>3. CASE TtsTakes \/ Synthesized
  <2>1. Stage' = Stage /\ Voice' = Voice
    BY <1>2, <1>3 DEF TtsTakes, Synthesized, Stage, Voice
  <2> QED
    BY <1>3, <2>1 DEF TtsTakes, Synthesized, Answer!answer
<1>4. CASE SynthesisRaises
  <2>1. Stage' = Stage /\ Voice' = Voice /\ Answer!Asked
    BY <1>1, <1>4, StillAsked DEF SynthesisRaises, Stage, Voice
  <2> QED
    BY <1>4, <2>1 DEF SynthesisRaises, Answer!Next, Answer!Break
<1> QED
  BY <1>3, <1>4 DEF TtsNext

\* The playback takes the next piece, or leaves: interrupted, at the sentinel
\* of a cancel or of a failed synthesis, or when all has been heard.
LEMMA TakeStep ==
  ASSUME PlayerInv, Handed, Reported, PlaybackTakes
  PROVE  Answer!Next
<1> DEFINE item == Head(audioQueue)
<1>1. /\ PlayerTypeOK /\ playing = Waiting /\ playing # Ended /\ playing \notin Texts
      /\ audioQueue \in Seq(Texts \cup {Sentinel}) /\ audioQueue # <<>>
      /\ Len(played) \in Nat
      /\ UNCHANGED <<enqueued, played, interruptEvent, ttsError, caller, atCancel>>
  BY Counts DEF PlaybackTakes, PlayerInv, PlayerTypeOK, Waiting, Ended, Texts
<1>2. /\ item = audioQueue[1] /\ item \in Texts \cup {Sentinel}
      /\ Len(audioQueue) \in Nat \ {0} /\ DOMAIN audioQueue = 1..Len(audioQueue)
      /\ 1 \in DOMAIN audioQueue
      /\ item = Sentinel => ~AllClear(audioQueue)
  BY <1>1, Headless
<1>3. /\ Voice = "silent" /\ Answer!Asked /\ Stage' = Stage
      /\ Stage = "cancelled" <=> caller \in {"cancelling", "cancelled"}
      /\ Stage = "closing" <=> caller = "finishing"
  <2>1. Voice = "silent" /\ Answer!Asked
        /\ (Stage = "cancelled" <=> caller \in {"cancelling", "cancelled"})
    BY <1>1, VoiceIs, StillAsked
  <2>2. caller \in {"streaming", "finishing", "cancelling", "cancelled"}
    BY <1>1 DEF PlayerTypeOK, Reported
  <2> QED
    BY <1>1, <2>1, <2>2 DEF Stage
<1>4. Heard = Len(played) /\ Coming = Len(played) + Len(audioQueue)
  BY <1>1, Counts DEF Heard, Coming
<1>5. CASE item = Sentinel /\ playing' = Ended /\ UNCHANGED interrupted
  <2>1. Voice' = "gone"
    BY <1>5 DEF Voice, Waiting, Ended
  <2>2. CASE interrupted
    <3>1. interruptEvent \/ Stage = "cancelled"
      BY <1>3, <2>2 DEF Reported
    <3> QED
      BY <1>1, <1>3, <2>1, <3>1 DEF Answer!Next, Answer!Leave
  <2>3. CASE ttsError
    BY <1>1, <1>3, <2>1, <2>3 DEF Answer!Next, Answer!Leave
  <2>4. CASE ~interrupted /\ ~ttsError
    <3>1. /\ closed /\ enqueued = Coming - 1
          /\ \A i \in DOMAIN audioQueue : audioQueue[i] = Sentinel => i = Len(audioQueue)
      BY <1>1, <1>2, <1>5, <2>4 DEF PlayerInv, AllSaid
    <3>2. Len(played) = enqueued
      BY <1>1, <1>2, <1>4, <1>5, <3>1
    <3>3. Stage \in {"cancelled", "closing"}
      BY <1>3, <3>1 DEF PlayerInv, TextsEnd, Answer!Asked, Stage
    <3> QED
      BY <1>1, <1>3, <2>1, <3>2, <3>3 DEF Answer!Next, Answer!Leave
  <2> QED
    BY <2>2, <2>3, <2>4
<1>6. CASE interruptEvent /\ playing' = Ended
  <2>1. Voice' = "gone"
    BY <1>6 DEF Voice, Waiting, Ended
  <2> QED
    BY <1>1, <1>3, <1>6, <2>1 DEF Answer!Next, Answer!Leave
<1>7. CASE item # Sentinel /\ ~interruptEvent /\ playing' = item
  <2>1. Clear(audioQueue, 1)
    BY <1>2, <1>7 DEF Clear
  <2>2. item = Len(played) + 1
    BY <1>1, <1>2, <1>4, <2>1 DEF PlayerInv, InOrder
  <2>3. item <= enqueued
    BY <1>2 DEF Handed, OfThis
  <2>4. Stage = "cancelled" => item \in atCancel
    BY <1>1, <1>2, <1>3, <2>1 DEF PlayerInv, CutThere
  <2>5. Voice' = "speaking"
    BY <1>2, <1>7, PlayerAssumption DEF Voice, Waiting, Ended, Texts
  <2> QED
    BY <1>1, <1>3, <1>7, <2>2, <2>3, <2>4, <2>5
       DEF Answer!Next, Answer!Begin, Answer!MayBeHeard
<1> QED
  BY <1>5, <1>6, <1>7 DEF PlaybackTakes, SeesInterrupt

\* A piece in hand is heard to its end, is cut, or raises.
LEMMA PieceStep ==
  ASSUME PlayerInv, Handed, Reported, PlayedThrough \/ PlaybackCut \/ PlaybackRaises
  PROVE  Answer!Next
<1>1. /\ PlayerTypeOK /\ playing \in Texts /\ playing # Ended /\ Len(played) \in Nat
      /\ UNCHANGED <<enqueued, interruptEvent, caller, atCancel>>
  BY Counts, VoiceIs DEF PlayedThrough, PlaybackCut, PlaybackRaises, PlayerInv
<1>2. /\ Voice = "speaking" /\ Answer!Asked
      /\ Stage = "cancelled" <=> caller \in {"cancelling", "cancelled"}
  BY <1>1, VoiceIs, StillAsked
<1>3. Stage' = Stage
  <2>1. caller # "finished"
    BY <1>1 DEF Reported
  <2> QED
    BY <1>1, <2>1 DEF Stage
<1>4. CASE PlayedThrough
  <2>1. playing = Len(played) + 1 /\ playing <= enqueued
    BY <1>1 DEF PlayerInv, InOrder, Handed
  <2>2. played' = Append(played, Len(played) + 1)
    BY <1>4, <2>1 DEF PlayedThrough
  <2>3. Stage = "cancelled" => playing \in atCancel
    BY <1>1, <1>2 DEF PlayerInv, CutThere
  <2>4. Voice' = "silent"
    BY <1>4 DEF PlayedThrough, Voice, Waiting, Ended
  <2> QED
    BY <1>1, <1>2, <1>3, <1>4, <2>1, <2>2, <2>3, <2>4
       DEF PlayedThrough, Answer!Next, Answer!Hear, Answer!MayBeHeard
<1>5. CASE PlaybackCut
  <2>1. Voice' = "gone"
    BY <1>5 DEF PlaybackCut, Voice, Waiting, Ended
  <2> QED
    BY <1>1, <1>2, <1>3, <1>5, <2>1 DEF PlaybackCut, Answer!Next, Answer!BreakOff
<1>6. CASE PlaybackRaises
  <2>1. Voice' = "gone"
    BY <1>6 DEF PlaybackRaises, Voice, Waiting, Ended
  <2> QED
    BY <1>1, <1>2, <1>3, <1>6, <2>1 DEF PlaybackRaises, Answer!Next, Answer!Break
<1> QED
  BY <1>4, <1>5, <1>6

LEMMA AnswerStep ==
  ASSUME PlayerInv, Handed, Handed', Reported, [PlayerNext]_playerVars
  PROVE  [Answer!Next]_(Answer!answer)
<1>1. CASE CallerNext \/ Interrupt
  BY <1>1, CallerStep
<1>2. CASE JoinNext
  BY <1>2, JoinStep
<1>3. CASE TtsNext
  BY <1>3, TtsStep
<1>4. CASE PlaybackNext
  BY <1>4, TakeStep, PieceStep DEF PlaybackNext
<1>5. CASE UNCHANGED playerVars
  BY <1>5 DEF playerVars, Answer!answer, Stage, Voice
<1> QED
  BY <1>1, <1>2, <1>3, <1>4, <1>5 DEF PlayerNext

\* The player keeps what SpokenAnswer promises, for any number of texts and
\* whenever the wake monitor interrupts, the caller cancels or a thread fails:
\* no piece begins after an interruption, after finish() has returned or
\* behind a cancel, the pieces are heard in their order, and finish() reports
\* an interruption or an error only if there was one, and otherwise an answer
\* that was heard to its end.
THEOREM PlayerSpeaksTheAnswer == PlayerSpec => ImplementsAnswer
<1>1. PlayerInit => Handed /\ Reported /\ Answer!Init
  BY DEF PlayerInit, Handed, Reported, OfThis, Answer!Init, Voice, Stage, Waiting, Ended
<1>2. PlayerInv => PlayerTypeOK
  BY DEF PlayerInv
<1> QED
  BY <1>1, <1>2, PlayerInvInit, PlayerInvKept, HandedKept, ReportedKept, AnswerStep, PTL
     DEF PlayerSpec, ImplementsAnswer, Answer!Spec

\* What SpokenAnswer leaves of SaidInFull: the promise is no weaker.
SaidSoFar ==
    /\ played \in Seq(Nat) /\ enqueued \in Nat
    /\ \A i \in DOMAIN played : played[i] = i
    /\ Stage = "whole" => Len(played) = enqueued
    /\ Stage = "cancelled" => DOMAIN played \subseteq atCancel

LEMMA SaidSoFarKept ==
  ASSUME SaidSoFar, [Answer!Next]_(Answer!answer) PROVE SaidSoFar'
<1>1. /\ played \in Seq(Nat) /\ Len(played) \in Nat /\ DOMAIN played = 1..Len(played)
  BY DEF SaidSoFar
<1>2. CASE Answer!Hear
  <2>1. played' = Append(played, Len(played) + 1) /\ enqueued' = enqueued
        /\ Stage' = Stage /\ atCancel' = atCancel
    BY <1>2 DEF Answer!Hear
  <2>2. /\ played' \in Seq(Nat) /\ DOMAIN played' = 1..(Len(played) + 1)
        /\ \A i \in 1..Len(played) : played'[i] = played[i]
        /\ played'[Len(played) + 1] = Len(played) + 1
    <3>1. Len(played) + 1 \in Nat
      BY <1>1
    <3> QED
      BY <1>1, <2>1, <3>1, Appended
  <2>3. Stage # "whole" /\ (Stage = "cancelled" => Len(played) + 1 \in atCancel)
    BY <1>2 DEF Answer!Hear, Answer!Asked, Answer!MayBeHeard
  <2>4. \A i \in DOMAIN played' : i \in DOMAIN played \/ i = Len(played) + 1
    BY <1>1, <2>2
  <2> QED
    BY <1>1, <2>1, <2>2, <2>3, <2>4 DEF SaidSoFar
<1>3. CASE Answer!Give
  BY <1>3 DEF Answer!Give, SaidSoFar
<1>4. CASE Answer!Close \/ Answer!Cancel \/ Answer!Return
  BY <1>4 DEF Answer!Close, Answer!Cancel, Answer!Return, SaidSoFar
<1>5. CASE \/ Answer!Begin \/ Answer!BreakOff \/ Answer!Leave \/ Answer!Break
           \/ Answer!Hush \/ UNCHANGED Answer!answer
  <2>1. UNCHANGED <<enqueued, played, Stage, atCancel>>
    BY <1>5 DEF Answer!Begin, Answer!BreakOff, Answer!Leave, Answer!Break, Answer!Hush,
                Answer!answer
  <2> QED
    BY <2>1 DEF SaidSoFar
<1> QED
  BY <1>2, <1>3, <1>4, <1>5 DEF Answer!Next

\* What SpokenAnswer promises is no weaker than SaidInFull: whatever speaks
\* as it asks is heard in order and without a gap, in full when finish() says
\* so, and not behind a cancel.
THEOREM AnswerPromisesAll == ImplementsAnswer => []SaidInFull
<1>1. Answer!Init => SaidSoFar
  BY DEF Answer!Init, SaidSoFar
<1>2. SaidSoFar => SaidInFull
  <2> SUFFICES ASSUME SaidSoFar PROVE SaidInFull
    OBVIOUS
  <2>1. caller = "finished" /\ ~interrupted => Stage = "whole"
    BY DEF Stage
  <2>2. caller \in {"cancelling", "cancelled"} => Stage = "cancelled"
    BY DEF Stage
  <2> QED
    BY <2>1, <2>2 DEF SaidSoFar, SaidInFull
<1> QED
  BY <1>1, <1>2, SaidSoFarKept, PTL DEF ImplementsAnswer, Answer!Spec

----------------------------------------------------------------------------
\* The microphone.  The last block the callback is done with, and the blocks
\* the segmenter holds.
Passed == IF callback = "idle" THEN captured ELSE captured - 1
Held   == IF inSpeech THEN active ELSE preRoll

Rising(s) == \A i, j \in DOMAIN s : i < j => s[i] < s[j]

\* Blocks that came before those in the queue and those that may follow them.
Earlier(B) == \A b \in B : b <= Passed /\ \A i \in DOMAIN blockQueue : b < blockQueue[i]

\* The run of speech that starts an utterance is in the blocks s.
Begun(s) ==
    \E start \in 1..(PreRoll - RunKept + 1) :
      /\ start + RunKept - 1 <= Len(s)
      /\ \A i \in start..(start + RunKept - 1) : s[i] \in speech

\* Where the callback is, and how much of a full queue has been taken since.
CallbackAt ==
    /\ callback # "idle" => captured > 0
    /\ callback = "drop" => emptied + Len(blockQueue) = QueueSize
    /\ callback = "again" => Len(blockQueue) < QueueSize
    /\ ~streamOpen => callback = "idle" /\ emptied = QueueSize

\* The blocks in the queue, those held and those yielded follow each other.
BlocksInOrder ==
    /\ Rising(blockQueue) /\ \A i \in DOMAIN blockQueue : blockQueue[i] <= Passed
    /\ Rising(Held) /\ \A i \in DOMAIN Held : i <= Held[i]
    /\ Earlier(ToSet(Held)) /\ Earlier(used \cup ToSet(utterance))
    /\ \A b \in used \cup ToSet(utterance) : \A i \in DOMAIN Held : b < Held[i]

\* The run of speech is the end of the pre-roll, or all of it, and then in the
\* utterance.
SpeechHeld ==
    /\ ~inSpeech =>
         /\ speechRun < SpeechStart /\ (speechRun <= Len(preRoll) \/ Len(preRoll) = PreRoll)
         /\ \A i \in DOMAIN preRoll : i > Len(preRoll) - speechRun => preRoll[i] \in speech
    /\ inSpeech =>
         /\ Begun(active)
         /\ Len(active) <= IF MaxChunks > PreRoll + 1 THEN MaxChunks - 1 ELSE PreRoll

MicInv == MicTypeOK /\ CallbackAt /\ BlocksInOrder /\ SpeechHeld /\ WholeUtterance

\* deque(maxlen=n) holds the last n, or all if there are fewer.
LEMMA NewestOf ==
  ASSUME NEW S, NEW s \in Seq(S), s # <<>>, NEW n \in Nat \ {0}
  PROVE  /\ Newest(s, n) \in Seq(S)
         /\ Len(Newest(s, n)) = IF Len(s) > n THEN n ELSE Len(s)
         /\ \A i \in 1..Len(Newest(s, n)) :
              /\ i + (Len(s) - Len(Newest(s, n))) \in DOMAIN s
              /\ Newest(s, n)[i] = s[i + (Len(s) - Len(Newest(s, n)))]
<1> DEFINE first == IF Len(s) > n THEN Len(s) - n + 1 ELSE 1
<1>1. Len(s) \in Nat \ {0} /\ DOMAIN s = 1..Len(s)
  BY LenProperties, EmptySeq
<1>2. /\ first \in 1..(Len(s) + 1) /\ first <= Len(s) /\ Len(s) \in (first - 1)..Len(s)
      /\ Len(s) - first + 1 = IF Len(s) > n THEN n ELSE Len(s)
  BY <1>1
<1>3. Newest(s, n) = SubSeq(s, first, Len(s))
  BY DEF Newest
<1>4. /\ Newest(s, n) \in Seq(S)
      /\ Len(Newest(s, n)) = Len(s) - first + 1
      /\ \A i \in 1..(Len(s) - first + 1) : Newest(s, n)[i] = s[first + i - 1]
  BY <1>1, <1>2, <1>3, SubSeqProperties
<1>5. ASSUME NEW i \in 1..(Len(s) - first + 1)
      PROVE  /\ i + (Len(s) - Len(Newest(s, n))) = first + i - 1
             /\ i + (Len(s) - Len(Newest(s, n))) \in 1..Len(s)
  BY <1>1, <1>2, <1>4
<1> QED
  BY <1>1, <1>2, <1>4, <1>5

LEMMA MicTyped ==
  ASSUME MicTypeOK
  PROVE  /\ {MaxBlocks, QueueSize, PreRoll, SpeechStart, SpeechEnd, MaxChunks} \subseteq Nat \ {0}
         /\ RunKept \in 1..PreRoll /\ RunKept <= SpeechStart /\ Blocks \subseteq Nat \ {0}
         /\ Len(blockQueue) \in Nat /\ DOMAIN blockQueue = 1..Len(blockQueue)
         /\ \A i \in DOMAIN blockQueue : blockQueue[i] \in Blocks
         /\ captured \in Int /\ Passed \in Int
         /\ Held \in Seq(Blocks) /\ Len(Held) \in Nat /\ DOMAIN Held = 1..Len(Held)
         /\ \A i \in DOMAIN Held : Held[i] \in Blocks
         /\ used \cup ToSet(utterance) \subseteq Blocks /\ ToSet(Held) \subseteq Blocks
<1>1. /\ {MaxBlocks, QueueSize, PreRoll, SpeechStart, SpeechEnd, MaxChunks} \subseteq Nat \ {0}
      /\ RunKept \in 1..PreRoll /\ RunKept <= SpeechStart
  BY MicAssumption DEF RunKept
<1>2. Blocks \subseteq Nat \ {0}
  BY <1>1 DEF Blocks
<1>3. captured \in Int /\ Passed \in Int
  BY <1>1 DEF MicTypeOK, Passed
<1>4. /\ Len(blockQueue) \in Nat /\ DOMAIN blockQueue = 1..Len(blockQueue)
      /\ \A i \in DOMAIN blockQueue : blockQueue[i] \in Blocks
  BY LenProperties DEF MicTypeOK
<1>5. Held \in Seq(Blocks)
  BY DEF MicTypeOK, Held
<1>6. /\ Len(Held) \in Nat /\ DOMAIN Held = 1..Len(Held)
      /\ \A i \in DOMAIN Held : Held[i] \in Blocks
  BY <1>5, LenProperties
<1>7. used \cup ToSet(utterance) \subseteq Blocks /\ ToSet(Held) \subseteq Blocks
  <2>1. DOMAIN utterance = 1..Len(utterance) /\ \A i \in DOMAIN utterance : utterance[i] \in Blocks
    BY LenProperties DEF MicTypeOK
  <2> QED
    BY <1>6, <2>1 DEF ToSet, MicTypeOK
<1> QED
  BY <1>1, <1>2, <1>3, <1>4, <1>5, <1>6, <1>7

\* The callback's steps leave what the segmenter holds, and what they put in
\* the queue is later than all that was there.
LEMMA DeviceOrder ==
  ASSUME MicInv, UNCHANGED segmenterVars,
         captured' \in Int, Passed <= Passed', Passed' \in Int,
         blockQueue' \in Seq(Blocks), Rising(blockQueue'),
         \A i \in DOMAIN blockQueue' :
            /\ blockQueue'[i] <= Passed'
            /\ \/ \E j \in DOMAIN blockQueue : blockQueue'[i] = blockQueue[j]
               \/ blockQueue'[i] > Passed
  PROVE  BlocksInOrder' /\ SpeechHeld' /\ WholeUtterance'
<1>1. SpeechHeld' /\ WholeUtterance' /\ Held' = Held
  BY DEF MicInv, SpeechHeld, WholeUtterance, Held, Begun, segmenterVars
<1>2. MicTypeOK /\ BlocksInOrder
  BY DEF MicInv
<1>3. \A i \in DOMAIN blockQueue' : blockQueue'[i] \in Nat
  BY <1>2, MicTyped, LenProperties
<1>4. ASSUME NEW B, B \subseteq Blocks, Earlier(B) PROVE Earlier(B)'
  BY <1>2, <1>3, <1>4, MicTyped DEF Earlier
<1>5. Earlier(ToSet(Held))' /\ Earlier(used \cup ToSet(utterance))'
  BY <1>1, <1>2, <1>4, MicTyped DEF BlocksInOrder, segmenterVars, Earlier
<1> QED
  BY <1>1, <1>2, <1>5 DEF BlocksInOrder, Rising, segmenterVars

LEMMA BlockArrivesKeeps == ASSUME MicInv, BlockArrives PROVE MicInv'
<1> USE DEF BlockArrives
<1>1. MicTypeOK /\ Passed = captured /\ UNCHANGED segmenterVars
  BY DEF MicInv, Passed
<1>2. captured' \in 1..MaxBlocks /\ Passed' \in Int /\ Passed <= Passed'
  BY <1>1, MicTyped DEF MicTypeOK, Passed
<1>3. MicTypeOK'
  BY <1>1, <1>2 DEF MicTypeOK, segmenterVars
<1>4. CallbackAt'
  BY <1>1, <1>2 DEF MicInv, CallbackAt
<1>5. BlocksInOrder' /\ SpeechHeld' /\ WholeUtterance'
  <2>1. blockQueue' \in Seq(Blocks) /\ Rising(blockQueue')
    BY <1>1 DEF MicInv, MicTypeOK, BlocksInOrder
  <2>2. \A i \in DOMAIN blockQueue' : blockQueue'[i] <= Passed /\ blockQueue'[i] \in Nat
    BY <1>1, MicTyped DEF MicInv, BlocksInOrder
  <2>3. \A i \in DOMAIN blockQueue' : blockQueue'[i] <= Passed'
    BY <1>1, <1>2, <2>2, MicTyped
  <2> QED
    BY <1>1, <1>2, <2>1, <2>3, DeviceOrder
<1> QED
  BY <1>3, <1>4, <1>5 DEF MicInv

\* The block behind the others in the queue.
LEMMA BlockPut ==
  ASSUME MicInv, callback # "idle", callback' = "idle", Len(blockQueue) < QueueSize,
         blockQueue' = Append(blockQueue, captured), UNCHANGED <<captured, segmenterVars>>
  PROVE  /\ blockQueue' \in Seq(Blocks) /\ Len(blockQueue') <= QueueSize
         /\ BlocksInOrder' /\ SpeechHeld' /\ WholeUtterance'
<1>1. MicTypeOK /\ captured \in Blocks /\ blockQueue \in Seq(Blocks)
  BY MicTyped DEF MicInv, MicTypeOK, CallbackAt, Blocks
<1>2. /\ blockQueue' \in Seq(Blocks)
      /\ Len(blockQueue') = Len(blockQueue) + 1
      /\ DOMAIN blockQueue' = 1..(Len(blockQueue) + 1)
      /\ \A i \in 1..Len(blockQueue) : blockQueue'[i] = blockQueue[i]
      /\ blockQueue'[Len(blockQueue) + 1] = captured
  BY <1>1, Appended
<1>3. captured' \in Int /\ Passed = captured - 1 /\ Passed' = captured
  BY <1>1, MicTyped DEF Passed
<1>4. \A i \in DOMAIN blockQueue : blockQueue[i] < captured /\ blockQueue[i] \in Nat
  <2>1. \A i \in DOMAIN blockQueue : blockQueue[i] <= captured - 1 /\ blockQueue[i] \in Nat
    BY <1>1, <1>3, MicTyped DEF MicInv, BlocksInOrder
  <2>2. captured \in Int
    BY <1>1, MicTyped
  <2> QED
    BY <2>1, <2>2
<1>5. Rising(blockQueue')
  BY <1>1, <1>2, <1>4, MicTyped DEF MicInv, BlocksInOrder, Rising
<1>6. \A i \in DOMAIN blockQueue' :
         /\ blockQueue'[i] <= captured
         /\ (\E j \in DOMAIN blockQueue : blockQueue'[i] = blockQueue[j]) \/ blockQueue'[i] > captured - 1
  BY <1>1, <1>2, <1>4, MicTyped
<1>7. captured - 1 <= captured /\ captured \in Int
  BY <1>1, MicTyped
<1>8. BlocksInOrder' /\ SpeechHeld' /\ WholeUtterance'
  BY <1>2, <1>3, <1>5, <1>6, <1>7, DeviceOrder
<1>9. Len(blockQueue') <= QueueSize
  BY <1>1, <1>2, MicTyped
<1> QED
  BY <1>2, <1>8, <1>9

LEMMA PutNowaitKeeps == ASSUME MicInv, PutNowait PROVE MicInv'
<1> USE DEF PutNowait
<1>1. MicTypeOK
  BY DEF MicInv
<1>2. CASE Len(blockQueue) < QueueSize /\ blockQueue' = Append(blockQueue, captured)
           /\ callback' = "idle"
  <2>1. /\ blockQueue' \in Seq(Blocks) /\ Len(blockQueue') <= QueueSize
        /\ BlocksInOrder' /\ SpeechHeld' /\ WholeUtterance'
    BY <1>2, BlockPut
  <2>2. MicTypeOK'
    BY <1>1, <1>2, <2>1, MicTyped DEF MicTypeOK, segmenterVars
  <2>3. CallbackAt'
    BY <1>2 DEF MicInv, CallbackAt
  <2> QED
    BY <2>1, <2>2, <2>3 DEF MicInv
<1>3. CASE ~(Len(blockQueue) < QueueSize) /\ UNCHANGED blockQueue /\ callback' = "drop"
  <2>1. Len(blockQueue) = QueueSize
    BY <1>1, <1>3, MicTyped DEF MicTypeOK
  <2>2. MicTypeOK'
    BY <1>1, <1>3, MicTyped DEF MicTypeOK, segmenterVars
  <2>3. CallbackAt'
    BY <1>1, <1>3, <2>1, MicTyped DEF MicInv, CallbackAt
  <2>4. BlocksInOrder' /\ SpeechHeld' /\ WholeUtterance'
    <3>1. Passed' = Passed
      BY <1>3 DEF Passed
    <3> QED
      BY <1>3, <3>1 DEF MicInv, BlocksInOrder, SpeechHeld, WholeUtterance, Held, Begun,
                        Rising, Earlier, segmenterVars
  <2> QED
    BY <2>2, <2>3, <2>4 DEF MicInv
<1> QED
  BY <1>2, <1>3

LEMMA DropOldestKeeps == ASSUME MicInv, DropOldest PROVE MicInv'
<1> USE DEF DropOldest
<1>1. MicTypeOK /\ UNCHANGED segmenterVars /\ UNCHANGED captured
  BY DEF MicInv
<1>2. Passed = captured - 1
  BY DEF Passed
<1>3. CASE blockQueue = <<>> /\ ~streamOpen' /\ callback' = "idle" /\ UNCHANGED blockQueue
  <2>1. MicTypeOK'
    BY <1>1, <1>3 DEF MicTypeOK, segmenterVars
  <2>2. CallbackAt'
    <3>1. Len(blockQueue) = 0
      BY <1>3
    <3> QED
      BY <1>1, <1>3, <3>1 DEF MicInv, CallbackAt, MicTypeOK
  <2>3. Passed' = captured /\ captured - 1 <= captured /\ captured \in Int
    BY <1>1, <1>3, MicTyped DEF Passed
  <2>4. blockQueue' \in Seq(Blocks) /\ DOMAIN blockQueue' = {}
    BY <1>3
  <2>5. BlocksInOrder' /\ SpeechHeld' /\ WholeUtterance'
    BY <1>1, <1>2, <2>3, <2>4, DeviceOrder DEF Rising
  <2> QED
    BY <2>1, <2>2, <2>5 DEF MicInv
<1>4. CASE blockQueue # <<>> /\ blockQueue' = Tail(blockQueue) /\ callback' = "again"
           /\ UNCHANGED streamOpen
  <2>1. /\ blockQueue' \in Seq(Blocks) /\ Len(blockQueue) \in Nat \ {0}
        /\ DOMAIN blockQueue = 1..Len(blockQueue)
        /\ Len(blockQueue') = Len(blockQueue) - 1
        /\ DOMAIN blockQueue' = 1..(Len(blockQueue) - 1)
        /\ \A i \in 1..(Len(blockQueue) - 1) : blockQueue'[i] = blockQueue[i + 1]
    BY <1>1, <1>4, Headless DEF MicTypeOK
  <2>2. Len(blockQueue') < QueueSize
    BY <1>1, <2>1, MicTyped DEF MicTypeOK
  <2>3. MicTypeOK'
    BY <1>1, <1>4, <2>1, <2>2, MicTyped DEF MicTypeOK, segmenterVars
  <2>4. CallbackAt'
    BY <1>1, <1>4, <2>2 DEF MicInv, CallbackAt
  <2>5. Passed' = Passed /\ Passed \in Int /\ captured \in Int
    BY <1>1, <1>2, <1>4, MicTyped DEF Passed
  <2>6. \A i \in DOMAIN blockQueue' : i + 1 \in DOMAIN blockQueue
    BY <2>1
  <2>7. Rising(blockQueue')
    BY <2>1, <2>6 DEF MicInv, BlocksInOrder, Rising
  <2>8. BlocksInOrder' /\ SpeechHeld' /\ WholeUtterance'
    <3>1. \A i \in DOMAIN blockQueue' :
             blockQueue'[i] <= Passed /\ \E j \in DOMAIN blockQueue : blockQueue'[i] = blockQueue[j]
      BY <2>1, <2>6 DEF MicInv, BlocksInOrder
    <3>2. Passed <= Passed
      BY <2>5
    <3> QED
      BY <1>1, <2>1, <2>5, <2>7, <3>1, <3>2, DeviceOrder
  <2> QED
    BY <2>3, <2>4, <2>8 DEF MicInv
<1> QED
  BY <1>3, <1>4

LEMMA PutAgainKeeps == ASSUME MicInv, PutAgain PROVE MicInv'
<1> USE DEF PutAgain
<1>1. MicTypeOK /\ Len(blockQueue) < QueueSize
  BY DEF MicInv, CallbackAt
<1>2. /\ blockQueue' \in Seq(Blocks) /\ Len(blockQueue') <= QueueSize
      /\ BlocksInOrder' /\ SpeechHeld' /\ WholeUtterance'
  BY <1>1, BlockPut
<1>3. MicTypeOK'
  BY <1>1, <1>2 DEF MicTypeOK, segmenterVars
<1>4. CallbackAt'
  BY DEF MicInv, CallbackAt
<1> QED
  BY <1>2, <1>3, <1>4 DEF MicInv

\* The block the segmenter takes is later than all it holds and has yielded,
\* and earlier than what is left in the queue.
LEMMA BlockTaken ==
  ASSUME MicInv, blockQueue # <<>>, blockQueue' = Tail(blockQueue), UNCHANGED deviceVars,
         NEW all, all = Append(Held, Head(blockQueue))
  PROVE  /\ blockQueue' \in Seq(Blocks) /\ Len(blockQueue') = Len(blockQueue) - 1
         /\ Len(blockQueue) \in Nat \ {0}
         /\ Rising(blockQueue') /\ \A i \in DOMAIN blockQueue' : blockQueue'[i] <= Passed'
         /\ all \in Seq(Blocks) /\ all # <<>> /\ Rising(all)
         /\ Len(Held) \in Nat /\ Len(all) = Len(Held) + 1 /\ DOMAIN all = 1..(Len(Held) + 1)
         /\ \A i \in 1..Len(Held) : all[i] = Held[i]
         /\ all[Len(Held) + 1] = Head(blockQueue)
         /\ \A i \in DOMAIN all : i <= all[i] /\ all[i] \in Blocks
         /\ \A b \in used \cup ToSet(utterance) : \A i \in DOMAIN all : b < all[i]
         /\ \A b \in ToSet(all) \cup used \cup ToSet(utterance) :
              b <= Passed' /\ \A i \in DOMAIN blockQueue' : b < blockQueue'[i]
<1> DEFINE block == Head(blockQueue)
<1>1. MicTypeOK /\ BlocksInOrder
  BY DEF MicInv
<1>2. /\ blockQueue' \in Seq(Blocks) /\ block = blockQueue[1] /\ block \in Blocks
      /\ Len(blockQueue) \in Nat \ {0} /\ DOMAIN blockQueue = 1..Len(blockQueue)
      /\ Len(blockQueue') = Len(blockQueue) - 1
      /\ DOMAIN blockQueue' = 1..(Len(blockQueue) - 1)
      /\ \A i \in 1..(Len(blockQueue) - 1) : blockQueue'[i] = blockQueue[i + 1]
  BY <1>1, Headless DEF MicTypeOK
<1>3. \A i \in DOMAIN blockQueue' : i + 1 \in DOMAIN blockQueue /\ 1 < i + 1
  BY <1>2
<1>4. 1 \in DOMAIN blockQueue /\ Passed' = Passed
  BY <1>2 DEF deviceVars, Passed
<1>5. /\ \A i \in DOMAIN blockQueue' :
           /\ block < blockQueue'[i] /\ blockQueue'[i] <= Passed'
           /\ \E j \in DOMAIN blockQueue : blockQueue'[i] = blockQueue[j]
      /\ block <= Passed' /\ Rising(blockQueue')
  BY <1>1, <1>2, <1>3, <1>4 DEF BlocksInOrder, Rising
<1>6. /\ Held \in Seq(Blocks) /\ Len(Held) \in Nat /\ DOMAIN Held = 1..Len(Held)
      /\ \A i \in DOMAIN Held : Held[i] \in Blocks
      /\ Blocks \subseteq Nat \ {0} /\ used \cup ToSet(utterance) \subseteq Blocks
  BY <1>1, MicTyped
<1>7. /\ all \in Seq(Blocks) /\ all # <<>>
      /\ Len(all) = Len(Held) + 1 /\ DOMAIN all = 1..(Len(Held) + 1)
      /\ \A i \in 1..Len(Held) : all[i] = Held[i]
      /\ all[Len(Held) + 1] = block
  BY <1>2, <1>6, Appended
<1>8. \A i \in DOMAIN all : i \in DOMAIN Held \/ i = Len(Held) + 1
  BY <1>6, <1>7
<1>9. \A i \in DOMAIN Held : Held[i] < block /\ i <= Held[i]
  BY <1>1, <1>2, <1>4 DEF BlocksInOrder, Earlier, ToSet
<1>10. \A b \in used \cup ToSet(utterance) : b < block /\ \A i \in DOMAIN Held : b < Held[i]
  BY <1>1, <1>2, <1>4 DEF BlocksInOrder, Earlier
<1>11. Rising(all)
  <2>1. ASSUME NEW i \in DOMAIN all, NEW j \in DOMAIN all, i < j PROVE all[i] < all[j]
    <3>1. i \in DOMAIN Held
      BY <1>6, <1>7, <2>1
    <3>2. CASE j \in DOMAIN Held
      BY <1>1, <1>6, <1>7, <2>1, <3>1, <3>2 DEF BlocksInOrder, Rising
    <3>3. CASE j = Len(Held) + 1
      BY <1>6, <1>7, <1>9, <3>1, <3>3
    <3> QED
      BY <1>8, <3>2, <3>3
  <2> QED
    BY <2>1 DEF Rising
<1>12. \A i \in DOMAIN all : i <= all[i] /\ all[i] \in Blocks
  <2>1. Len(Held) + 1 <= block
    <3>1. CASE Len(Held) = 0
      <4>1. block \in Nat /\ block # 0
        BY <1>2, <1>6
      <4> QED
        BY <3>1, <4>1
    <3>2. CASE Len(Held) # 0
      <4>1. Len(Held) \in DOMAIN Held
        BY <1>6, <3>2
      <4>2. Held[Len(Held)] < block /\ Len(Held) <= Held[Len(Held)] /\ Held[Len(Held)] \in Nat
        BY <1>6, <1>9, <4>1
      <4>3. block \in Nat
        BY <1>2, <1>6
      <4> QED
        BY <1>6, <4>2, <4>3
    <3> QED
      BY <3>1, <3>2
  <2> QED
    BY <1>2, <1>6, <1>7, <1>8, <1>9, <2>1
<1>13. \A b \in used \cup ToSet(utterance) : \A i \in DOMAIN all : b < all[i]
  BY <1>6, <1>7, <1>8, <1>10
<1>14. ASSUME NEW b \in ToSet(all) \cup used \cup ToSet(utterance)
       PROVE  b <= Passed' /\ \A i \in DOMAIN blockQueue' : b < blockQueue'[i]
  <2>1. CASE b \in used \cup ToSet(utterance) \cup ToSet(Held)
    BY <1>1, <1>2, <1>3, <1>4, <2>1 DEF BlocksInOrder, Earlier
  <2>2. CASE b = block
    BY <1>5, <2>2
  <2>3. b \in ToSet(all) => b \in ToSet(Held) \/ b = block
    BY <1>6, <1>7, <1>8 DEF ToSet
  <2> QED
    BY <2>1, <2>2, <2>3
<1> QED
  BY <1>2, <1>5, <1>6, <1>7, <1>11, <1>12, <1>13, <1>14

\* What is held after a block that leaves the utterances as they were.
LEMMA HeldKept ==
  ASSUME MicInv, blockQueue # <<>>, blockQueue' = Tail(blockQueue), UNCHANGED deviceVars,
         NEW all, all = Append(Held, Head(blockQueue)), UNCHANGED <<used, utterance>>,
         Held' \in Seq(Blocks), NEW k \in Nat,
         \A i \in DOMAIN Held' : i + k \in DOMAIN all /\ Held'[i] = all[i + k]
  PROVE  BlocksInOrder'
<1>1. /\ Rising(blockQueue') /\ \A i \in DOMAIN blockQueue' : blockQueue'[i] <= Passed'
      /\ Rising(all) /\ \A i \in DOMAIN all : i <= all[i] /\ all[i] \in Blocks
      /\ \A b \in used \cup ToSet(utterance) : \A i \in DOMAIN all : b < all[i]
      /\ \A b \in ToSet(all) \cup used \cup ToSet(utterance) :
           b <= Passed' /\ \A i \in DOMAIN blockQueue' : b < blockQueue'[i]
  BY BlockTaken
<1>2. DOMAIN Held' \subseteq Nat /\ Blocks \subseteq Nat
  BY LenProperties, MicTyped DEF MicInv
<1>3. Rising(Held')
  <2>1. \A i, j \in DOMAIN Held' : i < j => i + k < j + k
    BY <1>2
  <2> QED
    BY <1>1, <2>1 DEF Rising
<1>4. \A i \in DOMAIN Held' : i <= Held'[i]
  <2>1. ASSUME NEW i \in DOMAIN Held' PROVE i <= Held'[i]
    <3>1. i + k <= all[i + k] /\ all[i + k] \in Nat /\ i \in Nat
      BY <1>1, <1>2
    <3> QED
      BY <3>1
  <2> QED
    BY <2>1
<1>5. ToSet(Held') \subseteq ToSet(all)
  BY DEF ToSet
<1>6. Earlier(ToSet(Held))' /\ Earlier(used \cup ToSet(utterance))'
  <2>1. Earlier(ToSet(Held))'
    BY <1>1, <1>5 DEF Earlier
  <2>2. Earlier(used \cup ToSet(utterance))'
    <3>1. used' = used /\ ToSet(utterance)' = ToSet(utterance)
      BY DEF ToSet
    <3> QED
      BY <1>1, <3>1 DEF Earlier
  <2> QED
    BY <2>1, <2>2
<1>7. \A b \in used \cup ToSet(utterance) : \A i \in DOMAIN Held' : b < Held'[i]
  BY <1>1
<1> QED
  BY <1>1, <1>3, <1>4, <1>6, <1>7 DEF BlocksInOrder, Rising, ToSet

\* A block out of speech.
LEMMA OutOfSpeechKeeps ==
  ASSUME MicInv, ReadBlock, NEW isSpeech \in BOOLEAN,
         speech' = IF isSpeech THEN speech \cup {Head(blockQueue)} ELSE speech,
         OutOfSpeech(Head(blockQueue), isSpeech)
  PROVE  /\ BlocksInOrder' /\ SpeechHeld' /\ WholeUtterance'
         /\ preRoll' \in Seq(Blocks) /\ Len(preRoll') <= PreRoll
         /\ active' \in Seq(Blocks) /\ utterance' \in Seq(Blocks) /\ used' \subseteq Blocks
         /\ speechRun' \in 0..SpeechStart /\ silenceRun' \in 0..SpeechEnd
         /\ inSpeech' \in BOOLEAN
<1> DEFINE block == Head(blockQueue)
           all   == Append(preRoll, block)
           run   == IF isSpeech THEN speechRun + 1 ELSE 0
           k     == Len(all) - Len(preRoll')
<1>1. /\ MicTypeOK /\ ~inSpeech /\ Held = preRoll
      /\ preRoll' = Newest(all, PreRoll) /\ speechRun' = run
      /\ inSpeech' = (run >= SpeechStart)
      /\ active' = IF run >= SpeechStart THEN preRoll' ELSE active
      /\ silenceRun' = IF run >= SpeechStart THEN 0 ELSE silenceRun
      /\ UNCHANGED <<utterance, used>>
  BY DEF MicInv, OutOfSpeech, Held
<1>2. blockQueue # <<>> /\ blockQueue' = Tail(blockQueue) /\ UNCHANGED deviceVars
  BY DEF ReadBlock
<1>3. /\ all \in Seq(Blocks) /\ all # <<>>
      /\ Len(preRoll) \in Nat /\ Len(all) = Len(preRoll) + 1
      /\ DOMAIN all = 1..(Len(preRoll) + 1)
      /\ \A i \in 1..Len(preRoll) : all[i] = preRoll[i]
      /\ all[Len(preRoll) + 1] = block
  BY <1>1, <1>2, BlockTaken
<1>4. {MaxBlocks, PreRoll, SpeechStart, SpeechEnd, MaxChunks} \subseteq Nat \ {0}
      /\ RunKept \in 1..PreRoll /\ RunKept <= SpeechStart /\ Blocks \subseteq Nat \ {0}
  BY <1>1, MicTyped
<1>5. /\ preRoll' \in Seq(Blocks)
      /\ Len(preRoll') = IF Len(all) > PreRoll THEN PreRoll ELSE Len(all)
      /\ \A i \in 1..Len(preRoll') : i + k \in DOMAIN all /\ preRoll'[i] = all[i + k]
  BY <1>1, <1>3, <1>4, NewestOf
<1>6. /\ Len(preRoll') \in Nat \ {0} /\ Len(preRoll') <= PreRoll /\ k \in Nat
      /\ DOMAIN preRoll' = 1..Len(preRoll')
      /\ Len(preRoll') + k = Len(preRoll) + 1
  BY <1>3, <1>4, <1>5, LenProperties
<1>7. Held' = preRoll'
  BY <1>1 DEF Held
<1>8. BlocksInOrder'
  <2>1. /\ all = Append(Held, Head(blockQueue)) /\ Held' \in Seq(Blocks) /\ k \in Nat
        /\ \A i \in DOMAIN Held' : i + k \in DOMAIN all /\ Held'[i] = all[i + k]
    BY <1>1, <1>5, <1>6, <1>7
  <2> HIDE DEF all, k
  <2> QED
    BY <1>1, <1>2, <2>1, HeldKept
<1>9. /\ speechRun < SpeechStart /\ (speechRun <= Len(preRoll) \/ Len(preRoll) = PreRoll)
      /\ speechRun \in Nat
      /\ \A i \in 1..Len(preRoll) : i > Len(preRoll) - speechRun => preRoll[i] \in speech
  BY <1>1, LenProperties DEF MicInv, MicTypeOK, SpeechHeld
<1>10. /\ run \in Nat /\ run <= SpeechStart
       /\ run <= Len(preRoll') \/ Len(preRoll') = PreRoll
  BY <1>3, <1>4, <1>5, <1>9
<1>11. \A i \in 1..Len(preRoll') : i > Len(preRoll') - run => preRoll'[i] \in speech'
  <2> SUFFICES ASSUME isSpeech, NEW i \in 1..Len(preRoll'), i > Len(preRoll') - (speechRun + 1)
               PROVE  preRoll'[i] \in speech'
    BY <1>6
  <2>1. i + k \in 1..(Len(preRoll) + 1) /\ i + k > Len(preRoll) - speechRun
    BY <1>3, <1>5, <1>6, <1>9
  <2>2. preRoll'[i] = all[i + k]
    BY <1>5
  <2>3. CASE i + k = Len(preRoll) + 1
    BY <1>3, <2>2, <2>3
  <2>4. CASE i + k # Len(preRoll) + 1
    <3>1. i + k \in 1..Len(preRoll)
      <4> HIDE DEF k
      <4> QED
        BY <1>3, <1>6, <2>1, <2>4
    <3> QED
      BY <1>3, <1>9, <2>1, <2>2, <3>1
  <2> QED
    BY <2>3, <2>4
<1>12. SpeechHeld'
  <2> HIDE DEF run
  <2>1. CASE run >= SpeechStart
    <3> DEFINE start == Len(preRoll') - RunKept + 1
    <3>1. run = SpeechStart /\ RunKept <= Len(preRoll')
      BY <1>4, <1>6, <1>10, <2>1
    <3>2. start \in 1..(PreRoll - RunKept + 1) /\ start + RunKept - 1 = Len(preRoll')
      BY <1>4, <1>6, <3>1
    <3>3. \A i \in start..(start + RunKept - 1) : preRoll'[i] \in speech'
      <4>1. ASSUME NEW i \in start..(start + RunKept - 1)
            PROVE  i \in 1..Len(preRoll') /\ i > Len(preRoll') - run
        BY <1>4, <1>6, <3>1, <3>2
      <4> QED
        BY <1>11, <4>1
    <3>4. Begun(active)'
      <4>1. active' = preRoll'
        BY <1>1, <2>1
      <4>2. start + RunKept - 1 <= Len(preRoll')
        BY <1>6, <3>2
      <4> HIDE DEF start
      <4> QED
        BY <3>2, <3>3, <4>1, <4>2 DEF Begun, RunKept
    <3>5. Len(active') <= IF MaxChunks > PreRoll + 1 THEN MaxChunks - 1 ELSE PreRoll
      BY <1>1, <1>4, <1>6, <2>1
    <3> QED
      BY <1>1, <2>1, <3>4, <3>5 DEF SpeechHeld
  <2>2. CASE ~(run >= SpeechStart)
    <3>1. ~inSpeech' /\ speechRun' < SpeechStart
      <4>1. ~inSpeech'
        BY <1>1, <2>2
      <4>2. run < SpeechStart
        BY <1>4, <1>10, <2>2
      <4> QED
        BY <1>1, <4>1, <4>2
    <3> QED
      BY <1>1, <1>6, <1>10, <1>11, <3>1 DEF SpeechHeld
  <2> QED
    BY <2>1, <2>2
<1>13. WholeUtterance'
  <2>1. speech \subseteq speech'
    OBVIOUS
  <2> QED
    BY <1>1, <2>1 DEF MicInv, WholeUtterance
<1>14. active' \in Seq(Blocks) /\ utterance' \in Seq(Blocks) /\ used' \subseteq Blocks
  BY <1>1, <1>5 DEF MicTypeOK
<1>15. silenceRun' \in 0..SpeechEnd
  BY <1>1, <1>4 DEF MicTypeOK
<1>16. speechRun' \in 0..SpeechStart
  BY <1>1, <1>4, <1>10
<1>17. inSpeech' \in BOOLEAN
  BY <1>1
<1> QED
  BY <1>5, <1>6, <1>8, <1>12, <1>13, <1>14, <1>15, <1>16, <1>17

\* A block in speech, which may end the utterance.
LEMMA InSpeechKeeps ==
  ASSUME MicInv, ReadBlock, NEW isSpeech \in BOOLEAN,
         speech' = IF isSpeech THEN speech \cup {Head(blockQueue)} ELSE speech,
         InSpeech(Head(blockQueue), isSpeech)
  PROVE  /\ BlocksInOrder' /\ SpeechHeld' /\ WholeUtterance'
         /\ preRoll' \in Seq(Blocks) /\ Len(preRoll') <= PreRoll
         /\ active' \in Seq(Blocks) /\ utterance' \in Seq(Blocks) /\ used' \subseteq Blocks
         /\ speechRun' \in 0..SpeechStart /\ silenceRun' \in 0..SpeechEnd
         /\ inSpeech' \in BOOLEAN
<1> DEFINE block   == Head(blockQueue)
           all     == Append(active, block)
           silence == IF isSpeech THEN 0 ELSE silenceRun + 1
<1>1. MicTypeOK /\ inSpeech /\ Held = active
  BY DEF MicInv, InSpeech, Held
<1>2. blockQueue # <<>> /\ blockQueue' = Tail(blockQueue) /\ UNCHANGED deviceVars
  BY DEF ReadBlock
<1>3. /\ all \in Seq(Blocks) /\ all # <<>> /\ Rising(all)
      /\ Len(active) \in Nat /\ Len(all) = Len(active) + 1
      /\ DOMAIN all = 1..(Len(active) + 1)
      /\ \A i \in 1..Len(active) : all[i] = active[i]
      /\ \A i \in DOMAIN all : i <= all[i] /\ all[i] \in Blocks
      /\ \A b \in used \cup ToSet(utterance) : \A i \in DOMAIN all : b < all[i]
      /\ \A b \in ToSet(all) \cup used \cup ToSet(utterance) :
           b <= Passed' /\ \A i \in DOMAIN blockQueue' : b < blockQueue'[i]
      /\ Rising(blockQueue') /\ \A i \in DOMAIN blockQueue' : blockQueue'[i] <= Passed'
  BY <1>1, <1>2, BlockTaken
<1>4. /\ {MaxBlocks, PreRoll, SpeechStart, SpeechEnd, MaxChunks} \subseteq Nat \ {0}
      /\ RunKept \in 1..PreRoll /\ RunKept <= SpeechStart /\ Blocks \subseteq Nat \ {0}
      /\ used \cup ToSet(utterance) \subseteq Blocks
  BY <1>1, MicTyped
<1>5. speech \subseteq speech'
  OBVIOUS
<1>6. \E start \in 1..(PreRoll - RunKept + 1) :
         /\ start + RunKept - 1 <= Len(all)
         /\ \A i \in start..(start + RunKept - 1) : all[i] \in speech'
  <2>1. PICK start \in 1..(PreRoll - RunKept + 1) :
           /\ start + RunKept - 1 <= Len(active)
           /\ \A i \in start..(start + RunKept - 1) : active[i] \in speech
    BY <1>1 DEF MicInv, SpeechHeld, Begun
  <2>2. start + RunKept - 1 <= Len(all)
    BY <1>3, <1>4, <2>1
  <2>3. \A i \in start..(start + RunKept - 1) : i \in 1..Len(active)
    BY <1>3, <1>4, <2>1
  <2>4. \A i \in start..(start + RunKept - 1) : all[i] \in speech'
    BY <1>3, <1>5, <2>1, <2>3
  <2> QED
    BY <2>1, <2>2, <2>4
<1>7. Len(active) <= IF MaxChunks > PreRoll + 1 THEN MaxChunks - 1 ELSE PreRoll
  BY <1>1 DEF MicInv, SpeechHeld
<1>8. CASE silence >= SpeechEnd \/ Len(all) >= MaxChunks
  <2>1. /\ utterance' = all /\ used' = used \cup ToSet(utterance)
        /\ active' = <<>> /\ preRoll' = <<>> /\ speechRun' = 0 /\ silenceRun' = 0
        /\ inSpeech' = FALSE
    BY <1>8 DEF InSpeech, PreRollAfter
  <2>2. Held' = <<>> /\ DOMAIN Held' = {} /\ ToSet(Held') = {}
    BY <2>1 DEF Held, ToSet
  <2>3. BlocksInOrder'
    <3>1. Earlier(used \cup ToSet(utterance))'
      BY <1>3, <2>1 DEF Earlier
    <3>2. Earlier(ToSet(Held))' /\ Rising(Held')
      BY <2>2 DEF Earlier, Rising
    <3> QED
      BY <1>3, <2>2, <3>1, <3>2 DEF BlocksInOrder, Rising
  <2>4. SpeechHeld'
    BY <1>4, <2>1 DEF SpeechHeld
  <2>5. ToSet(all) \cap (used \cup ToSet(utterance)) = {}
    <3>1. \A i \in DOMAIN all : all[i] \notin used \cup ToSet(utterance)
      <4>1. ASSUME NEW i \in DOMAIN all PROVE ~(all[i] < all[i])
        <5>1. all[i] \in Nat
          BY <1>3, <1>4
        <5> QED
          BY <5>1
      <4> QED
        BY <1>3, <4>1
    <3> QED
      BY <3>1 DEF ToSet
  <2>6. Len(all) <= IF MaxChunks > PreRoll + 1 THEN MaxChunks ELSE PreRoll + 1
    BY <1>3, <1>4, <1>7
  <2>7. \E start \in 1..(PreRoll - RunKept + 1) :
           \A i \in start..(start + RunKept - 1) : all[i] \in speech'
    BY <1>6
  <2>8. WholeUtterance'
    BY <1>3, <2>1, <2>5, <2>6, <2>7 DEF WholeUtterance, Rising, ToSet
  <2>9. ToSet(utterance) \subseteq Blocks /\ used \subseteq Blocks
    BY <1>4
  <2> QED
    <3>1. preRoll' \in Seq(Blocks) /\ Len(preRoll') <= PreRoll
      BY <1>4, <2>1
    <3>2. active' \in Seq(Blocks) /\ utterance' \in Seq(Blocks) /\ used' \subseteq Blocks
      BY <1>3, <2>1, <2>9
    <3>3. speechRun' \in 0..SpeechStart /\ silenceRun' \in 0..SpeechEnd
      BY <1>4, <2>1
    <3>4. inSpeech' \in BOOLEAN
      BY <2>1
    <3> QED
      BY <2>3, <2>4, <2>8, <3>1, <3>2, <3>3, <3>4
<1>9. CASE ~(silence >= SpeechEnd \/ Len(all) >= MaxChunks)
  <2>1. /\ active' = all /\ silenceRun' = silence
        /\ UNCHANGED <<utterance, used, preRoll, speechRun, inSpeech>>
    BY <1>9 DEF InSpeech
  <2>2. Held' = all
    BY <1>1, <2>1 DEF Held
  <2>3. BlocksInOrder'
    <3>1. \A i \in DOMAIN Held' : i + 0 \in DOMAIN all /\ Held'[i] = all[i + 0]
      BY <1>3, <2>2
    <3> QED
      <4>1. all = Append(Held, Head(blockQueue)) /\ Held' \in Seq(Blocks) /\ 0 \in Nat
        BY <1>1, <1>3, <2>2
      <4> HIDE DEF all
      <4> QED
        BY <1>2, <2>1, <3>1, <4>1, HeldKept
  <2>4. Len(all) <= IF MaxChunks > PreRoll + 1 THEN MaxChunks - 1 ELSE PreRoll
    BY <1>3, <1>4, <1>9
  <2>5. SpeechHeld'
    <3>1. Begun(active)'
      BY <1>6, <2>1 DEF Begun
    <3> QED
      BY <1>1, <2>1, <2>4, <3>1 DEF SpeechHeld
  <2>6. WholeUtterance'
    BY <1>5, <2>1 DEF MicInv, WholeUtterance
  <2>7. silenceRun' \in 0..SpeechEnd
    BY <1>1, <1>4, <1>9, <2>1 DEF MicTypeOK
  <2> QED
    BY <1>1, <1>3, <2>1, <2>3, <2>5, <2>6, <2>7 DEF MicTypeOK
<1> QED
  BY <1>8, <1>9

LEMMA ReadBlockKeeps == ASSUME MicInv, ReadBlock PROVE MicInv'
<1>1. /\ BlocksInOrder' /\ SpeechHeld' /\ WholeUtterance'
      /\ preRoll' \in Seq(Blocks) /\ Len(preRoll') <= PreRoll
      /\ active' \in Seq(Blocks) /\ utterance' \in Seq(Blocks) /\ used' \subseteq Blocks
      /\ speechRun' \in 0..SpeechStart /\ silenceRun' \in 0..SpeechEnd
      /\ inSpeech' \in BOOLEAN
  BY OutOfSpeechKeeps, InSpeechKeeps DEF ReadBlock
<1>2. /\ MicTypeOK /\ blockQueue # <<>> /\ blockQueue' = Tail(blockQueue)
      /\ UNCHANGED <<captured, callback, streamOpen>>
      /\ emptied' = IF callback = "drop" THEN emptied + 1 ELSE emptied
  BY DEF MicInv, ReadBlock, deviceVars
<1>3. /\ blockQueue' \in Seq(Blocks) /\ Len(blockQueue) \in Nat \ {0}
      /\ Len(blockQueue') = Len(blockQueue) - 1 /\ Head(blockQueue) \in Blocks
  BY <1>2, Headless DEF MicTypeOK
<1>4. QueueSize \in Nat \ {0} /\ Len(blockQueue) <= QueueSize /\ emptied \in 0..QueueSize
  BY <1>2, MicTyped DEF MicTypeOK
<1>5. emptied' \in 0..QueueSize /\ Len(blockQueue') <= QueueSize /\ CallbackAt'
  BY <1>2, <1>3, <1>4 DEF MicInv, CallbackAt
<1>6. speech' \subseteq Blocks
  BY <1>2, <1>3 DEF ReadBlock, MicTypeOK
<1>7. MicTypeOK'
  BY <1>1, <1>2, <1>3, <1>5, <1>6 DEF MicTypeOK
<1> QED
  BY <1>1, <1>5, <1>7 DEF MicInv

LEMMA MicInvInit == MicInit => MicInv
<1> SUFFICES ASSUME MicInit PROVE MicInv
  OBVIOUS
<1>1. {MaxBlocks, QueueSize, PreRoll, SpeechStart, SpeechEnd, MaxChunks} \subseteq Nat \ {0}
  BY MicAssumption
<1>2. Len(<<>>) = 0 /\ DOMAIN <<>> = {} /\ <<>> \in Seq(Blocks) /\ ToSet(<<>>) = {}
  BY DEF ToSet
<1>3. MicTypeOK
  <2>1. streamOpen \in BOOLEAN /\ inSpeech \in BOOLEAN
    BY DEF MicInit
  <2>2. /\ captured \in 0..MaxBlocks /\ speechRun \in 0..SpeechStart
        /\ silenceRun \in 0..SpeechEnd /\ emptied \in 0..QueueSize
        /\ Len(blockQueue) <= QueueSize /\ Len(preRoll) <= PreRoll
    BY <1>1, <1>2 DEF MicInit
  <2>3. /\ blockQueue \in Seq(Blocks) /\ preRoll \in Seq(Blocks)
        /\ active \in Seq(Blocks) /\ utterance \in Seq(Blocks)
        /\ speech \subseteq Blocks /\ used \subseteq Blocks
        /\ callback \in {"idle", "put", "drop", "again"}
    BY <1>2 DEF MicInit
  <2> QED
    BY <2>1, <2>2, <2>3 DEF MicTypeOK
<1>4. CallbackAt /\ WholeUtterance
  BY DEF MicInit, CallbackAt, WholeUtterance
<1>5. Held = <<>>
  BY DEF MicInit, Held
<1>6. BlocksInOrder
  BY <1>2, <1>5 DEF MicInit, BlocksInOrder, Rising, Earlier
<1>7. SpeechHeld
  BY <1>1, <1>2 DEF MicInit, SpeechHeld
<1> QED
  BY <1>3, <1>4, <1>6, <1>7 DEF MicInv

LEMMA MicInvKept == ASSUME MicInv, [MicNext]_micVars PROVE MicInv'
<1>1. CASE UNCHANGED micVars
  <2> USE <1>1 DEF micVars
  <2>1. MicTypeOK' /\ CallbackAt'
    BY DEF MicInv, MicTypeOK, CallbackAt
  <2>2. BlocksInOrder'
    BY DEF MicInv, BlocksInOrder, Rising, Earlier, Held, Passed, ToSet
  <2>3. SpeechHeld' /\ WholeUtterance'
    BY DEF MicInv, SpeechHeld, Begun, WholeUtterance, ToSet
  <2> QED
    BY <2>1, <2>2, <2>3 DEF MicInv
<1> QED
  BY <1>1, BlockArrivesKeeps, PutNowaitKeeps, DropOldestKeeps, PutAgainKeeps, ReadBlockKeeps
  DEF MicNext, DeviceNext

\* For any sizes of the queue and of the runs: the blocks of an utterance are
\* in order, in no other, with the run of speech that started it, and within
\* the bound; the stream ends only if the reader took all of a full queue
\* between two calls of the callback.
THEOREM SpeechIsWhole == MicSpec => []UtteranceIsWhole
<1>1. MicInv => UtteranceIsWhole
  BY DEF MicInv, CallbackAt, UtteranceIsWhole, StreamSurvives, MicTypeOK
<1> QED
  BY <1>1, MicInvInit, MicInvKept, PTL DEF MicSpec

----------------------------------------------------------------------------
(* The chunker.  Lists of positions are reasoned about by rank and by the  *)
(* least number of a set, not by induction over the text.                  *)

\* A set of numbers has a least one: all the induction the proofs here need.
LEMMA LeastNumber ==
  ASSUME NEW T \in SUBSET Nat, T # {}
  PROVE  \E n \in T : \A m \in T : n <= m
<1> DEFINE R == {ss \in Nat \X Nat : ss[1] < ss[2]}
<1>1. IsWellFoundedOn(R, Nat)
  BY NatLessThanWellFounded DEF OpToRel
<1> HIDE DEF R
<1>2. PICK n \in T : \A m \in T : ~(<<m, n>> \in R)
  BY <1>1, WFMin, Zenon
<1>3. \A m \in Nat : m < n => <<m, n>> \in R
  BY DEF R
<1>4. \A m \in T : m \in Nat
  OBVIOUS
<1>5. \A m \in T : ~(m < n)
  BY <1>2, <1>3, <1>4
<1> QED
  BY <1>4, <1>5

LEMMA GreatestNumber ==
  ASSUME NEW n \in Nat, NEW T \in SUBSET (0..n), T # {}
  PROVE  \E m \in T : \A k \in T : k <= m
<1> DEFINE U == {k \in 0..n : n - k \in T}
<1>1. U \in SUBSET Nat
  OBVIOUS
<1>2. PICK m \in T : m \in 0..n
  OBVIOUS
<1>3. n - m \in 0..n /\ n - (n - m) = m
  BY <1>2
<1>4. U # {}
  BY <1>2, <1>3
<1> HIDE DEF U
<1>5. PICK k \in U : \A j \in U : k <= j
  BY <1>1, <1>4, LeastNumber
<1>6. k \in 0..n /\ n - k \in T
  BY DEF U
<1>7. ASSUME NEW t \in T PROVE t <= n - k
  <2>1. t \in 0..n /\ n - t \in 0..n /\ n - (n - t) = t
    OBVIOUS
  <2>2. n - t \in U
    BY <2>1 DEF U
  <2> QED
    BY <1>5, <1>6, <2>1, <2>2
<1> QED
  BY <1>6, <1>7

----------------------------------------------------------------------------
\* The rank of a position is its place among them, and no two have the same.
LEMMA Ranks ==
  ASSUME NEW S \in SUBSET Nat, IsFiniteSet(S)
  PROVE  /\ Cardinality(S) \in Nat
         /\ \A x \in S : Rank(S, x) \in 1..Cardinality(S)
         /\ \A x, y \in S : x < y => Rank(S, x) < Rank(S, y)
<1>1. Cardinality(S) \in Nat /\ \A x \in S : x \in Nat
  BY FS_CardinalityType
<1>2. ASSUME NEW x \in S
      PROVE  /\ IsFiniteSet({j \in S : j <= x}) /\ Rank(S, x) \in Nat
             /\ Rank(S, x) <= Cardinality(S) /\ Rank(S, x) # 0
  <2> DEFINE U == {j \in S : j <= x}
  <2>1. U \in SUBSET S /\ x \in U
    OBVIOUS
  <2> HIDE DEF U
  <2>2. IsFiniteSet(U) /\ Cardinality(U) <= Cardinality(S)
    BY <2>1, FS_Subset
  <2>3. Cardinality(U) \in Nat /\ Cardinality(U) # 0
    BY <2>1, <2>2, FS_CardinalityType, FS_EmptySet
  <2> QED
    BY <2>2, <2>3 DEF U, Rank
<1>3. ASSUME NEW x \in S, NEW y \in S, x < y
      PROVE  Rank(S, x) < Rank(S, y)
  <2> DEFINE U == {j \in S : j <= x}
             V == {j \in S : j <= y}
  <2>1. U \in SUBSET V /\ y \in V /\ y \notin U
    <3>1. x \in Nat /\ y \in Nat
      BY <1>1
    <3>2. ASSUME NEW j \in S, j <= x PROVE j <= y
      <4>1. j \in Nat
        BY <1>1
      <4> QED
        BY <1>3, <3>1, <3>2, <4>1
    <3>3. U \in SUBSET V
      BY <3>2
    <3>4. y <= y /\ ~(y <= x)
      BY <1>3, <3>1
    <3> QED
      BY <3>3, <3>4
  <2>2. IsFiniteSet(V) /\ Cardinality(U) = Rank(S, x) /\ Cardinality(V) = Rank(S, y)
    BY <1>2 DEF Rank
  <2> HIDE DEF U, V
  <2>3. Cardinality(U) <= Cardinality(V) /\ Cardinality(U) # Cardinality(V)
    BY <2>1, <2>2, FS_Subset
  <2>4. Rank(S, x) \in Nat /\ Rank(S, y) \in Nat
    BY <1>2
  <2> QED
    BY <2>2, <2>3, <2>4
<1>4. \A x \in S : Rank(S, x) \in 1..Cardinality(S)
  <2>1. ASSUME NEW x \in S PROVE Rank(S, x) \in 1..Cardinality(S)
    <3>1. Rank(S, x) \in Nat /\ Rank(S, x) <= Cardinality(S) /\ Rank(S, x) # 0
      BY <1>2
    <3> QED
      BY <1>1, <3>1
  <2> QED
    BY <2>1
<1> QED
  BY <1>1, <1>3, <1>4

\* Every place is taken.
LEMMA EveryRank ==
  ASSUME NEW S \in SUBSET Nat, IsFiniteSet(S), NEW n \in 1..Cardinality(S)
  PROVE  \E x \in S : Rank(S, x) = n
<1> DEFINE N == 1..Cardinality(S)
           f == [x \in S |-> Rank(S, x)]
<1>1. Cardinality(S) \in Nat /\ \A x \in S : Rank(S, x) \in N
  BY Ranks
<1>2. \A x, y \in S : Rank(S, x) = Rank(S, y) => x = y
  <2>1. ASSUME NEW x \in S, NEW y \in S, Rank(S, x) = Rank(S, y) PROVE x = y
    <3>1. ~(x < y) /\ ~(y < x)
      BY <1>1, <2>1, Ranks
    <3> QED
      BY <3>1
  <2> QED
    BY <2>1
<1>3. f \in [S -> N] /\ \A x, y \in S : f[x] = f[y] => x = y
  BY <1>1, <1>2
<1>4. IsFiniteSet(N) /\ Cardinality(N) = Cardinality(S)
  BY <1>1, FS_Interval
<1> HIDE DEF f, N
<1>5. f \in Injection(S, N)
  BY <1>3 DEF Injection, IsInjective
<1>6. f \in Surjection(S, N)
  BY <1>4, <1>5, FS_Injection
<1>7. PICK x \in S : f[x] = n
  BY <1>6 DEF Surjection, N
<1> QED
  BY <1>7 DEF f

\* Ascending(S) lists S, each at its rank, and ascends.
LEMMA Ascends ==
  ASSUME NEW S \in SUBSET Nat, IsFiniteSet(S)
  PROVE  /\ Cardinality(S) \in Nat
         /\ Ascending(S) \in Seq(S) /\ Len(Ascending(S)) = Cardinality(S)
         /\ DOMAIN Ascending(S) = 1..Cardinality(S)
         /\ \A n \in 1..Cardinality(S) :
              Ascending(S)[n] \in S /\ Rank(S, Ascending(S)[n]) = n
         /\ \A x \in S : Rank(S, x) \in 1..Cardinality(S) /\ Ascending(S)[Rank(S, x)] = x
         /\ \A m, n \in 1..Cardinality(S) : m < n => Ascending(S)[m] < Ascending(S)[n]
<1> DEFINE c == Cardinality(S)
           A == Ascending(S)
<1>1. /\ c \in Nat /\ \A x \in S : Rank(S, x) \in 1..c
      /\ \A x \in S : x \in Nat
  BY Ranks
<1>2. A = [n \in 1..c |-> CHOOSE i \in S : Rank(S, i) = n]
  BY DEF Ascending
<1> HIDE DEF c, A
<1>3. \A n \in 1..c : \E x \in S : Rank(S, x) = n
  BY EveryRank DEF c
<1>4. \A n \in 1..c : A[n] \in S /\ Rank(S, A[n]) = n
  BY <1>2, <1>3
<1>5. A \in [1..c -> S]
  BY <1>2, <1>4
<1>6. A \in Seq(S) /\ Len(A) = c /\ DOMAIN A = 1..c
  BY <1>1, <1>5, SeqDef, LenProperties
<1>7. \A x, y \in S : (Rank(S, x) = Rank(S, y) => x = y) /\ (Rank(S, x) < Rank(S, y) => x < y)
  <2>1. ASSUME NEW x \in S, NEW y \in S
        PROVE  (Rank(S, x) = Rank(S, y) => x = y) /\ (Rank(S, x) < Rank(S, y) => x < y)
    <3>1. x \in Nat /\ y \in Nat /\ Rank(S, x) \in 1..c /\ Rank(S, y) \in 1..c
      BY <1>1
    <3>2. (x < y => Rank(S, x) < Rank(S, y)) /\ (y < x => Rank(S, y) < Rank(S, x))
      BY Ranks
    <3> QED
      BY <3>1, <3>2
  <2> QED
    BY <2>1
<1>8. \A x \in S : A[Rank(S, x)] = x
  BY <1>1, <1>4, <1>7
<1>9. \A m, n \in 1..c : m < n => A[m] < A[n]
  <2>1. ASSUME NEW m \in 1..c, NEW n \in 1..c, m < n PROVE A[m] < A[n]
    <3>1. A[m] \in S /\ A[n] \in S /\ Rank(S, A[m]) < Rank(S, A[n])
      BY <1>4, <2>1
    <3> QED
      BY <1>7, <3>1
  <2> QED
    BY <2>1
<1> QED
  BY <1>1, <1>4, <1>6, <1>8, <1>9 DEF A, c

\* A list begins as another does when they are of the same positions so far.
LEMMA SameBeginning ==
  ASSUME NEW S \in SUBSET Nat, IsFiniteSet(S), NEW T \in SUBSET Nat, IsFiniteSet(T),
         NEW n \in 0..Cardinality(S),
         \A k \in 1..n : \A j \in Nat : j <= Ascending(S)[k] => (j \in S <=> j \in T)
  PROVE  n <= Cardinality(T) /\ \A k \in 1..n : Ascending(T)[k] = Ascending(S)[k]
<1>1. Cardinality(S) \in Nat /\ Cardinality(T) \in Nat
  BY FS_CardinalityType
<1>2. ASSUME NEW k \in 1..n
      PROVE  Ascending(T)[k] = Ascending(S)[k] /\ k <= Cardinality(T)
  <2> DEFINE x == Ascending(S)[k]
  <2>1. k \in 1..Cardinality(S)
    BY <1>1
  <2>2. x \in S /\ Rank(S, x) = k
    BY <2>1, Ascends
  <2>3. \A j \in Nat : j <= x => (j \in S <=> j \in T)
    OBVIOUS
  <2> HIDE DEF x
  <2>4. x \in Nat /\ x <= x
    BY <2>2
  <2>5. {j \in T : j <= x} = {j \in S : j <= x}
    BY <2>3
  <2>6. Rank(T, x) = k
    BY <2>2, <2>5 DEF Rank
  <2>7. x \in T
    BY <2>2, <2>3, <2>4
  <2>8. Rank(T, x) \in 1..Cardinality(T) /\ Ascending(T)[Rank(T, x)] = x
    BY <2>7, Ascends
  <2> QED
    BY <1>1, <2>6, <2>8 DEF x
<1>3. n <= Cardinality(T)
  <2>1. CASE n = 0
    BY <1>1, <2>1
  <2>2. CASE n # 0
    <3>1. n \in 1..n
      BY <1>1, <2>2
    <3> QED
      BY <1>2, <3>1
  <2> QED
    BY <2>1, <2>2
<1> QED
  BY <1>2, <1>3

----------------------------------------------------------------------------
\* The positions push() can speak.
Outsides(text) == {i \in Are(text, {"word", "mark"}) : Outside(text, i)}

LEMMA PositionsOf ==
  ASSUME NEW text \in Seq(Tokens), NEW P \in SUBSET DOMAIN text
  PROVE  P \in SUBSET Nat /\ IsFiniteSet(P) /\ Cardinality(P) \in 0..Len(text)
<1>1. Len(text) \in Nat /\ DOMAIN text = 1..Len(text)
  BY LenProperties
<1>2. IsFiniteSet(1..Len(text)) /\ Cardinality(1..Len(text)) = Len(text)
  <2> DEFINE n == Len(text)
  <2>1. n \in Nat
    BY <1>1
  <2> HIDE DEF n
  <2>2. IsFiniteSet(1..n) /\ Cardinality(1..n) = n
    BY <2>1, FS_Interval
  <2> QED
    BY <2>2 DEF n
<1>3. IsFiniteSet(P) /\ Cardinality(P) <= Len(text)
  BY <1>1, <1>2, FS_Subset
<1> QED
  BY <1>1, <1>3, FS_CardinalityType

\* What comes later does not change what is outside the fences before it.
LEMMA OutsideBefore ==
  ASSUME NEW text \in Seq(Tokens), NEW more \in Seq(Tokens), Len(text) <= Len(more),
         \A i \in 1..Len(text) : more[i] = text[i]
  PROVE  /\ \A i \in 1..Len(text) : Outside(more, i) <=> Outside(text, i)
         /\ \A i \in 1..Len(text) : i \in Outsides(more) <=> i \in Outsides(text)
         /\ \A i \in 1..Len(text) : i \in SafeWhite(more) <=> i \in SafeWhite(text)
<1> DEFINE n == Len(text)
<1>1. /\ n \in Nat /\ DOMAIN text = 1..n /\ DOMAIN more = 1..Len(more)
      /\ \A i \in 1..n : i \in DOMAIN more /\ more[i] = text[i]
  BY LenProperties
<1>2. ASSUME NEW i \in 1..n PROVE Outside(more, i) <=> Outside(text, i)
  <2>1. {f \in Fences(more) : f < i} = {f \in Fences(text) : f < i}
    <3>1. ASSUME NEW f, f < i PROVE f \in Fences(more) <=> f \in Fences(text)
      <4>1. CASE f \in 1..n
        BY <1>1, <4>1 DEF Fences, Are
      <4>2. CASE f \notin 1..n
        <5>1. f \notin DOMAIN text
          BY <1>1, <4>2
        <5>2. f \notin DOMAIN more
          BY <1>1, <3>1, <4>2
        <5> QED
          BY <5>1, <5>2 DEF Fences, Are
      <4> QED
        BY <4>1, <4>2
    <3> QED
      BY <3>1
  <2> QED
    BY <1>1, <2>1 DEF Outside, FencesBefore
<1> QED
  BY <1>1, <1>2 DEF Outsides, SafeWhite, White, Are

\* So what can be spoken grows at its end.
LEMMA SafeGrows ==
  ASSUME NEW text \in Seq(Tokens), NEW more \in Seq(Tokens), Len(text) <= Len(more),
         \A i \in 1..Len(text) : more[i] = text[i]
  PROVE  IsPrefix(SpokenPrefixOutsideFences(text), SpokenPrefixOutsideFences(more))
<1> DEFINE S == Outsides(text)
           T == Outsides(more)
           A == Ascending(S)
           B == Ascending(T)
           n == Cardinality(S)
<1>1. /\ S \in SUBSET DOMAIN text /\ T \in SUBSET DOMAIN more
      /\ Len(text) \in Nat /\ DOMAIN text = 1..Len(text)
      /\ \A i \in 1..Len(text) : i \in T <=> i \in S
      /\ A = SpokenPrefixOutsideFences(text) /\ B = SpokenPrefixOutsideFences(more)
  BY LenProperties, OutsideBefore DEF Outsides, Are, SpokenPrefixOutsideFences
<1> HIDE DEF S, T
<1>2. S \in SUBSET Nat /\ IsFiniteSet(S) /\ T \in SUBSET Nat /\ IsFiniteSet(T) /\ n \in Nat
  BY <1>1, PositionsOf, FS_CardinalityType
<1>3. /\ Len(A) = n /\ A \in Seq(S) /\ (\A k \in 1..n : A[k] \in S)
      /\ Len(B) = Cardinality(T) /\ B \in Seq(T)
  BY <1>2, Ascends
<1>4. \A k \in 1..n : \A j \in Nat : j <= A[k] => (j \in S <=> j \in T)
  <2>1. ASSUME NEW k \in 1..n, NEW j \in Nat, j <= A[k] PROVE j \in S <=> j \in T
    <3>1. A[k] \in 1..Len(text)
      BY <1>1, <1>3
    <3>2. j = 0 \/ j \in 1..Len(text)
      BY <1>1, <2>1, <3>1
    <3>3. 0 \notin S /\ 0 \notin T
      <4>1. DOMAIN more = 1..Len(more) /\ Len(more) \in Nat
        BY LenProperties
      <4>2. 0 \notin 1..Len(more) /\ 0 \notin 1..Len(text)
        BY <1>1, <4>1
      <4> QED
        BY <1>1, <4>1, <4>2
    <3> QED
      BY <1>1, <3>2, <3>3
  <2> QED
    BY <2>1
<1> HIDE DEF A, B
<1>5. n <= Cardinality(T) /\ \A k \in 1..n : B[k] = A[k]
  <2>1. n \in 0..Cardinality(S)
    BY <1>2
  <2> QED
    BY <1>2, <1>4, <2>1, SameBeginning DEF A, B
<1> HIDE DEF n
<1>6. IsPrefix(A, B)
  <2>1. SubSeq(A, 1, n) = [k \in 1..n |-> A[k]] /\ SubSeq(B, 1, n) = [k \in 1..n |-> B[k]]
    BY <1>2, <1>3, <1>5
  <2>2. SubSeq(A, 1, n) = SubSeq(B, 1, n)
    BY <1>5, <2>1
  <2> QED
    BY <1>3, <1>5, <2>2 DEF IsPrefix
<1> QED
  BY <1>1, <1>6

----------------------------------------------------------------------------
\* What a list of positions of the answer is.
LEMMA Listed ==
  ASSUME NEW text \in Seq(Tokens), Len(text) <= MaxTokens, NEW P \in SUBSET DOMAIN text
  PROVE  /\ Ascending(P) \in Seq(1..MaxTokens) /\ Len(Ascending(P)) \in 0..MaxTokens
         /\ Len(Ascending(P)) = Cardinality(P) /\ Cardinality(P) \in Nat
<1>1. /\ P \in SUBSET Nat /\ IsFiniteSet(P) /\ Cardinality(P) \in 0..Len(text)
      /\ Len(text) \in Nat /\ DOMAIN text = 1..Len(text)
  BY PositionsOf, LenProperties
<1>2. P \subseteq 1..MaxTokens
  BY <1>1, ChunkerAssumption
<1>3. Ascending(P) \in Seq(P) /\ Len(Ascending(P)) = Cardinality(P)
  BY <1>1, Ascends
<1>4. Ascending(P) \in Seq(1..MaxTokens)
  BY <1>2, <1>3, SeqMonotonic
<1> QED
  BY <1>1, <1>3, <1>4, ChunkerAssumption

\* The rest of a list behind its beginning.
LEMMA RestOf ==
  ASSUME NEW P, NEW a \in Seq(P), NEW b \in Seq(P), IsPrefix(a, b)
  PROVE  /\ SubSeq(b, Len(a) + 1, Len(b)) \in Seq(P) /\ Len(a) <= Len(b)
         /\ a \o SubSeq(b, Len(a) + 1, Len(b)) = b
<1>1. Len(a) \in Nat /\ Len(b) \in Nat /\ Len(a) <= Len(b)
  BY LenProperties DEF IsPrefix
<1>2. a = SubSeq(b, 1, Len(a))
  BY SubSeqFull DEF IsPrefix
<1>3. \A i \in 1..Len(b) : b[i] \in P
  BY ElementOfSeq
<1>4. SubSeq(b, Len(a) + 1, Len(b)) \in Seq(P)
  <2>1. \A i \in (Len(a) + 1)..Len(b) : b[i] \in P
    BY <1>1, <1>3
  <2> QED
    BY <1>1, <2>1, SubSeqProperties
<1>5. SubSeq(b, 1, Len(a)) \o SubSeq(b, Len(a) + 1, Len(b)) = b
  <2> DEFINE m == Len(a)
  <2>1. 1 \in 1..(Len(b) + 1) /\ m \in (1 - 1)..Len(b) /\ Len(b) \in m..Len(b)
    BY <1>1
  <2> HIDE DEF m
  <2>2. SubSeq(b, 1, m) \o SubSeq(b, m + 1, Len(b)) = SubSeq(b, 1, Len(b))
    BY <2>1, ConcatAdjacentSubSeq
  <2> QED
    BY <2>2, SubSeqFull DEF m
<1> QED
  BY ONLY <1>1, <1>2, <1>4, <1>5

LEMMA Joined ==
  ASSUME NEW P, NEW e \in Seq(P), NEW a \in Seq(P), NEW b \in Seq(P)
  PROVE  (e \o a) \o b = e \o (a \o b) /\ e \o a \in Seq(P)
<1>1. (e \o a) \o b = e \o (a \o b)
  BY ConcatAssociative
<1>2. e \o a \in Seq(P)
  BY ConcatProperties
<1> QED
  BY <1>1, <1>2

\* What has gone out and what is pending are together what they were.
LEMMA DrainedParts ==
  ASSUME NEW P, NEW e \in Seq(P), NEW s \in Seq(P), NEW n \in 0..Len(s)
  PROVE  /\ e \o SubSeq(s, 1, n) \in Seq(P) /\ SubSeq(s, n + 1, Len(s)) \in Seq(P)
         /\ (e \o SubSeq(s, 1, n)) \o SubSeq(s, n + 1, Len(s)) = e \o s
<1>1. Len(s) \in Nat /\ \A i \in 1..Len(s) : s[i] \in P
  BY LenProperties, ElementOfSeq
<1>2. SubSeq(s, 1, n) \in Seq(P) /\ SubSeq(s, n + 1, Len(s)) \in Seq(P)
  BY <1>1, SubSeqProperties
<1>3. SubSeq(s, 1, n) \o SubSeq(s, n + 1, Len(s)) = s
  <2>1. 1 \in 1..(Len(s) + 1) /\ n \in (1 - 1)..Len(s) /\ Len(s) \in n..Len(s)
    BY <1>1
  <2>2. SubSeq(s, 1, n) \o SubSeq(s, n + 1, Len(s)) = SubSeq(s, 1, Len(s))
    BY <2>1, ConcatAdjacentSubSeq
  <2> QED
    BY <2>2, SubSeqFull
<1> DEFINE a == SubSeq(s, 1, n)
           b == SubSeq(s, n + 1, Len(s))
<1> HIDE DEF a, b
<1>4. a \in Seq(P) /\ b \in Seq(P)
  BY <1>2 DEF a, b
<1>5. e \o a \in Seq(P) /\ (e \o a) \o b = e \o (a \o b)
  BY <1>4, Joined
<1>6. a \o b = s
  BY <1>3 DEF a, b
<1>7. e \o (a \o b) = e \o s
  BY ONLY <1>6
<1>8. (e \o a) \o b = e \o s
  BY ONLY <1>5, <1>7
<1> QED
  BY <1>2, <1>5, <1>8 DEF a, b

----------------------------------------------------------------------------
\* The two parsers agree on blocks as long as no fence opened for push() alone:
\* between two fences that end their lines they take turns in the same way.
LEMMA NotInBlock ==
  ASSUME NEW text \in Seq(Tokens), NEW i \in DOMAIN text, Outside(text, i), InBlock(text, i)
  PROVE  \E f \in DOMAIN text : f < i /\ InlineFence(text, f)
<1> SUFFICES ASSUME \A f \in DOMAIN text : f < i => ~InlineFence(text, f) PROVE FALSE
  OBVIOUS
<1> DEFINE F == Fences(text)
           Up(x) == {g \in F : g < x}
<1>1. F \in SUBSET DOMAIN text /\ F \in SUBSET Nat /\ IsFiniteSet(F) /\ i \in Nat
  <2>1. F \in SUBSET DOMAIN text
    BY DEF Fences, Are
  <2>2. DOMAIN text = 1..Len(text) /\ Len(text) \in Nat
    BY LenProperties
  <2> QED
    BY <2>1, <2>2, PositionsOf
<1>2. PICK f \in F : f < i /\ Opens(text, f) /\ \A g \in F : ~(f < g /\ g < i)
  BY DEF InBlock
<1>3. \A x : FencesBefore(text, x) = Cardinality(Up(x))
  BY DEF FencesBefore
<1> DEFINE R == RunBefore(text, f)
<1>4. Cardinality(R) % 2 = 0
  BY <1>2 DEF Opens
<1>5. R = {g \in F : g < f /\ \A h \in F : g <= h /\ h < f => EndsItsLine(text, h)}
  BY DEF RunBefore
<1>6. Cardinality(Up(i)) % 2 = 0
  BY <1>3 DEF Outside
<1>7. \A h \in F : h < i /\ Cardinality(Up(h)) % 2 = 0 => EndsItsLine(text, h)
  BY <1>1, <1>3 DEF InlineFence
<1> HIDE DEF F, R
<1>8. \A x : Up(x) \in SUBSET F /\ IsFiniteSet(Up(x)) /\ Cardinality(Up(x)) \in Nat
  <2>1. \A x : Up(x) \in SUBSET F
    OBVIOUS
  <2> HIDE DEF Up
  <2> QED
    BY <1>1, <2>1, FS_Subset, FS_CardinalityType
<1>9. \A g \in F : g \in Nat
  BY <1>1
<1>10. Cardinality(Up(i)) = Cardinality(Up(f)) + 1
  <2>1. ASSUME NEW g \in F PROVE g < i <=> g < f \/ g = f
    BY <1>1, <1>2, <1>9
  <2>2. Up(i) = Up(f) \cup {f} /\ f \notin Up(f)
    BY <1>9, <2>1
  <2> QED
    BY <1>8, <2>2, FS_AddElement
<1> DEFINE Bad == {h \in F : h < f /\ ~EndsItsLine(text, h)}
<1>11. CASE Bad = {}
  <2>1. R = Up(f)
    <3>1. \A h \in F : h < f => EndsItsLine(text, h)
      BY <1>11
    <3> QED
      BY <1>5, <3>1
  <2> HIDE DEF Up
  <2>2. Cardinality(Up(f)) \in Nat /\ Cardinality(Up(f)) % 2 = 0
    BY <1>4, <1>8, <2>1
  <2> QED
    BY <1>6, <1>10, <2>2
<1>12. CASE Bad # {}
  <2>1. Bad \in SUBSET (0..f)
    BY <1>9
  <2>2. PICK h \in Bad : \A b \in Bad : b <= h
    BY <1>9, <1>12, <2>1, GreatestNumber
  <2>3. h \in F /\ h < f /\ ~EndsItsLine(text, h) /\ h \in Nat /\ f \in Nat /\ h < i
    BY <1>1, <1>2, <1>9
  <2>4. Cardinality(Up(h)) % 2 # 0
    BY <1>7, <2>3
  <2>5. R = {g \in F : h < g /\ g < f}
    <3>1. ASSUME NEW g \in F, g < f, h < g, NEW k \in F, g <= k, k < f
          PROVE  EndsItsLine(text, k)
      <4>1. ~(k <= h)
        BY <1>9, <2>3, <3>1
      <4>2. k \notin Bad
        BY <2>2, <4>1
      <4> QED
        BY <3>1, <4>2
    <3>2. ASSUME NEW g \in F, g < f, ~(h < g)
          PROVE  ~(\A k \in F : g <= k /\ k < f => EndsItsLine(text, k))
      <4>1. g <= h
        BY <1>9, <2>3, <3>2
      <4> QED
        BY <2>3, <4>1
    <3> QED
      BY <1>5, <3>1, <3>2
  <2>6. R \in SUBSET F /\ IsFiniteSet(R) /\ Cardinality(R) \in Nat
    <3>1. R \in SUBSET F
      BY <2>5
    <3> QED
      BY <1>1, <3>1, FS_Subset, FS_CardinalityType
  <2> DEFINE V == Up(h) \cup {h}
  <2>7. IsFiniteSet(V) /\ Cardinality(V) = Cardinality(Up(h)) + 1
    <3>1. h \notin Up(h)
      BY <2>3
    <3> HIDE DEF Up
    <3> QED
      BY <1>8, <3>1, FS_AddElement
  <2>8. Up(f) = V \cup R /\ V \cap R = {}
    <3>1. ASSUME NEW g \in F PROVE g < f <=> (g < h \/ g = h) \/ (h < g /\ g < f)
      BY <1>9, <2>3
    <3>2. ASSUME NEW g \in F PROVE ~((g < h \/ g = h) /\ h < g)
      BY <1>9, <2>3
    <3> QED
      BY <2>3, <2>5, <3>1, <3>2
  <2> HIDE DEF V, Up
  <2>9. Cardinality(Up(f)) = Cardinality(V) + Cardinality(R)
    <3>1. Cardinality(V \cup R) = Cardinality(V) + Cardinality(R) - Cardinality(V \cap R)
      BY <2>6, <2>7, FS_Union
    <3>2. Cardinality(V) \in Nat /\ Cardinality({}) = 0
      BY <1>8, <2>7, FS_EmptySet
    <3>3. Cardinality(Up(f)) = Cardinality(V) + Cardinality(R) - 0
      BY <2>8, <3>1, <3>2
    <3> QED
      BY <2>6, <3>2, <3>3
  <2> QED
    BY <1>4, <1>6, <1>8, <1>10, <2>4, <2>6, <2>7, <2>9
<1> QED
  BY <1>11, <1>12

----------------------------------------------------------------------------
\* What has a space in front of it in the answer was spoken with one.
Spacing ==
    \A k \in DOMAIN emitted :
       SpaceBefore(rawText, SafeWhite(rawText), emitted, k) => emitted[k] \in spaced

\* Until finish(), what has gone out and what is pending make what can be spoken.
ChunkerInv ==
    /\ ChunkerTypeOK
    /\ safePrefix = Len(SpokenPrefixOutsideFences(rawText))
    /\ ~finished => /\ emitted \o pendingSpoken = SpokenPrefixOutsideFences(rawText)
                    /\ Spacing
    /\ finished => SpokenText

LEMMA ChunkerBegins == ASSUME ChunkerInit PROVE ChunkerInv
<1>1. Outsides(<<>>) = {} /\ DOMAIN <<>> = {}
  BY DEF Outsides, Are
<1>2. Cardinality({}) = 0
  BY FS_EmptySet
<1>3. <<>> \in Seq(Tokens) /\ Len(<<>>) = 0 /\ <<>> \in Seq(1..MaxTokens)
  BY EmptySeq
<1>4. Ascending({}) = <<>>
  <2>1. {} \in SUBSET DOMAIN <<>> /\ Len(<<>>) <= MaxTokens
    BY <1>3, ChunkerAssumption
  <2>2. Ascending({}) \in Seq(1..MaxTokens) /\ Len(Ascending({})) = 0
    BY <1>2, <1>3, <2>1, Listed
  <2> QED
    BY <2>2, EmptySeq
<1>5. SpokenPrefixOutsideFences(<<>>) = <<>>
  BY <1>1, <1>4 DEF SpokenPrefixOutsideFences, Outsides
<1>6. <<>> \o <<>> = <<>>
  BY <1>3, ConcatEmptySeq
<1>7. /\ rawText = <<>> /\ safePrefix = 0 /\ pendingSpoken = <<>> /\ emitted = <<>>
      /\ spaced = {} /\ finished = FALSE
  BY DEF ChunkerInit
<1>8. ChunkerTypeOK
  <2>1. rawText \in Seq(Tokens) /\ pendingSpoken \in Seq(1..MaxTokens) /\ emitted \in Seq(1..MaxTokens)
    BY <1>3, <1>7, Zenon
  <2>2. Len(rawText) <= MaxTokens /\ safePrefix \in 0..MaxTokens
    BY <1>3, <1>7, ChunkerAssumption
  <2> QED
    BY <1>7, <2>1, <2>2 DEF ChunkerTypeOK
<1>9. Spacing
  BY <1>1, <1>7 DEF Spacing
<1> QED
  BY <1>3, <1>5, <1>6, <1>7, <1>8, <1>9 DEF ChunkerInv

\* What has gone out before finish() is how the list of the positions outside
\* the fences begins.
LEMMA BeginsSafe ==
  ASSUME ChunkerTypeOK, emitted \o pendingSpoken = SpokenPrefixOutsideFences(rawText)
  PROVE  /\ Outsides(rawText) \in SUBSET DOMAIN rawText /\ Outsides(rawText) \in SUBSET Nat
         /\ IsFiniteSet(Outsides(rawText))
         /\ Len(emitted) \in 0..Cardinality(Outsides(rawText))
         /\ DOMAIN emitted = 1..Len(emitted)
         /\ \A k \in 1..Len(emitted) : emitted[k] = Ascending(Outsides(rawText))[k]
<1> DEFINE O == Outsides(rawText)
           A == Ascending(O)
<1>1. /\ rawText \in Seq(Tokens) /\ emitted \in Seq(1..MaxTokens)
      /\ pendingSpoken \in Seq(1..MaxTokens)
  BY DEF ChunkerTypeOK
<1>2. O \in SUBSET DOMAIN rawText
  BY DEF Outsides, Are
<1>3. emitted \o pendingSpoken = A
  BY DEF SpokenPrefixOutsideFences, Outsides
<1> HIDE DEF O
<1>4. O \in SUBSET Nat /\ IsFiniteSet(O)
  BY <1>1, <1>2, PositionsOf
<1>5. Cardinality(O) \in Nat /\ Len(A) = Cardinality(O)
  BY <1>4, Ascends
<1> HIDE DEF A
<1>6. /\ Len(emitted) \in Nat /\ Len(pendingSpoken) \in Nat
      /\ DOMAIN emitted = 1..Len(emitted)
  BY <1>1, LenProperties
<1>7. /\ Len(A) = Len(emitted) + Len(pendingSpoken)
      /\ \A k \in 1..Len(emitted) : emitted[k] = A[k]
  <2> DEFINE P == 1..MaxTokens
  <2> HIDE DEF P
  <2>1. emitted \in Seq(P) /\ pendingSpoken \in Seq(P)
    BY <1>1 DEF P
  <2>2. /\ Len(emitted \o pendingSpoken) = Len(emitted) + Len(pendingSpoken)
        /\ \A i \in 1..(Len(emitted) + Len(pendingSpoken)) :
             (emitted \o pendingSpoken)[i]
               = IF i <= Len(emitted) THEN emitted[i] ELSE pendingSpoken[i - Len(emitted)]
    BY <2>1, ConcatProperties
  <2> QED
    BY <1>3, <1>6, <2>2
<1> QED
  BY <1>2, <1>4, <1>5, <1>6, <1>7 DEF A, O

\* A call sends the beginning of what is pending, with spaces where they are
\* in it, and everything at the end.
LEMMA Drained ==
  ASSUME NEW text, NEW W, NEW s \in Seq(1..MaxTokens), NEW final \in BOOLEAN,
         DrainReadyChunks(text, W, s, final), spaced \subseteq 1..MaxTokens
  PROVE  \E n \in 0..Len(s) :
           /\ final => n = Len(s)
           /\ emitted' = emitted \o SubSeq(s, 1, n)
           /\ pendingSpoken' = SubSeq(s, n + 1, Len(s))
           /\ spaced \subseteq spaced' /\ spaced' \subseteq 1..MaxTokens
           /\ (n = 0 => spaced' = spaced)
           /\ \A m \in 1..n : SpaceBefore(text, W, s, m) => s[m] \in spaced'
           /\ 1 <= n /\ emitted # <<>> /\ text[s[1]] # "mark" => s[1] \in spaced'
<1>1. PICK n \in ReadyBoundaries(text, W, s, final) :
        /\ emitted' = emitted \o SubSeq(s, 1, n)
        /\ spaced' = spaced \cup
             {s[k] : k \in {m \in 1..n : \/ SpaceBefore(text, W, s, m)
                                         \/ m = 1 /\ emitted # <<>> /\ text[s[m]] # "mark"}}
        /\ pendingSpoken' = SubSeq(s, n + 1, Len(s))
  BY DEF DrainReadyChunks
<1>2. Len(s) \in Nat /\ \A k \in 1..Len(s) : s[k] \in 1..MaxTokens
  BY LenProperties, ElementOfSeq
<1>3. n \in 0..Len(s) /\ (final => n = Len(s))
  BY <1>2 DEF ReadyBoundaries
<1>4. \A m \in 1..n : s[m] \in 1..MaxTokens
  BY <1>2, <1>3
<1>5. n = 0 => 1..n = {}
  BY <1>3
<1>6. spaced \subseteq spaced' /\ spaced' \subseteq 1..MaxTokens /\ (n = 0 => spaced' = spaced)
  BY <1>1, <1>4, <1>5
<1>7. \A m \in 1..n : SpaceBefore(text, W, s, m) => s[m] \in spaced'
  BY <1>1
<1>8. 1 <= n /\ emitted # <<>> /\ text[s[1]] # "mark" => s[1] \in spaced'
  <2>1. 1 <= n => 1 \in 1..n
    BY <1>3
  <2> QED
    BY <1>1, <2>1
<1> QED
  BY <1>1, <1>3, <1>6, <1>7, <1>8

LEMMA PushTextKeeps == ASSUME ChunkerInv, Push PROVE ChunkerInv'
<1>0. PICK size \in 1..PieceSize :
        \E delta \in [1..size -> Tokens] :
          LET text == rawText \o delta
              safe == SpokenPrefixOutsideFences(text)
          IN  /\ Len(text) <= MaxTokens /\ rawText' = text /\ safePrefix' = Len(safe)
              /\ DrainReadyChunks(text, SafeWhite(text),
                   pendingSpoken \o SubSeq(safe, safePrefix + 1, Len(safe)), FALSE)
  BY DEF Push
<1>1. PICK delta \in [1..size -> Tokens] :
        LET text == rawText \o delta
            safe == SpokenPrefixOutsideFences(text)
        IN  /\ Len(text) <= MaxTokens /\ rawText' = text /\ safePrefix' = Len(safe)
            /\ DrainReadyChunks(text, SafeWhite(text),
                 pendingSpoken \o SubSeq(safe, safePrefix + 1, Len(safe)), FALSE)
  BY <1>0
<1> DEFINE text == rawText \o delta
           W    == SafeWhite(text)
           safe == SpokenPrefixOutsideFences(rawText)
           more == SpokenPrefixOutsideFences(text)
           d    == SubSeq(more, Len(safe) + 1, Len(more))
           s    == pendingSpoken \o d
           P    == 1..MaxTokens
<1>2. /\ ~finished /\ finished' = FALSE /\ rawText \in Seq(Tokens) /\ Len(rawText) <= MaxTokens
      /\ safePrefix = Len(safe) /\ emitted \in Seq(P) /\ pendingSpoken \in Seq(P)
      /\ spaced \subseteq P /\ emitted \o pendingSpoken = safe /\ Spacing
  BY DEF Push, ChunkerInv, ChunkerTypeOK
<1>3. delta \in Seq(Tokens)
  <2>1. size \in Nat
    BY ChunkerAssumption
  <2> QED
    BY <2>1, SeqDef
<1>4. /\ text \in Seq(Tokens) /\ Len(text) <= MaxTokens /\ Len(rawText) <= Len(text)
      /\ Len(rawText) \in Nat /\ \A i \in 1..Len(rawText) : text[i] = rawText[i]
  <2>1. Len(rawText) \in Nat /\ Len(delta) \in Nat
    BY <1>2, <1>3, LenProperties
  <2>2. /\ text \in Seq(Tokens) /\ Len(text) = Len(rawText) + Len(delta)
        /\ \A i \in 1..(Len(rawText) + Len(delta)) :
             text[i] = IF i <= Len(rawText) THEN rawText[i] ELSE delta[i - Len(rawText)]
    BY <1>2, <1>3, ConcatProperties
  <2> QED
    BY <1>1, <2>1, <2>2
<1>5. rawText' = text /\ safePrefix' = Len(more) /\ DrainReadyChunks(text, W, s, FALSE)
  BY <1>1, <1>2
<1> HIDE DEF text, W
<1>6. safe \in Seq(P) /\ more \in Seq(P) /\ Len(more) \in 0..MaxTokens
  <2>1. Outsides(rawText) \in SUBSET DOMAIN rawText /\ Outsides(text) \in SUBSET DOMAIN text
    BY DEF Outsides, Are
  <2>2. safe = Ascending(Outsides(rawText)) /\ more = Ascending(Outsides(text))
    BY DEF SpokenPrefixOutsideFences, Outsides
  <2> HIDE DEF safe, more
  <2> QED
    BY <1>2, <1>4, <2>1, <2>2, Listed
<1>7. IsPrefix(safe, more)
  BY <1>2, <1>4, SafeGrows
<1> HIDE DEF safe, more, P
<1>8. d \in Seq(P) /\ safe \o d = more
  BY <1>6, <1>7, RestOf
<1> HIDE DEF d
<1>9. s \in Seq(P) /\ emitted \o s = more
  <2>1. emitted \in Seq(P) /\ pendingSpoken \in Seq(P) /\ d \in Seq(P)
    BY <1>2, <1>8
  <2>2. pendingSpoken \o d \in Seq(P)
    BY <2>1, ConcatProperties
  <2>3. (emitted \o pendingSpoken) \o d = emitted \o (pendingSpoken \o d)
    BY <2>1, Joined
  <2>4. emitted \o (pendingSpoken \o d) = more
    BY ONLY <1>2, <1>8, <2>3
  <2> QED
    BY <2>2, <2>4
<1> HIDE DEF s
<1>10. PICK n \in 0..Len(s) :
         /\ emitted' = emitted \o SubSeq(s, 1, n)
         /\ pendingSpoken' = SubSeq(s, n + 1, Len(s))
         /\ spaced \subseteq spaced' /\ spaced' \subseteq P
         /\ \A k \in 1..n : SpaceBefore(text, W, s, k) => s[k] \in spaced'
         /\ 1 <= n /\ emitted # <<>> /\ text[s[1]] # "mark" => s[1] \in spaced'
  BY <1>2, <1>5, <1>9, Drained DEF P
<1>11. /\ emitted' \in Seq(P) /\ pendingSpoken' \in Seq(P)
       /\ emitted' \o pendingSpoken' = more
  <2>1. /\ emitted \o SubSeq(s, 1, n) \in Seq(P) /\ SubSeq(s, n + 1, Len(s)) \in Seq(P)
        /\ (emitted \o SubSeq(s, 1, n)) \o SubSeq(s, n + 1, Len(s)) = emitted \o s
    <3>1. emitted \in Seq(P) /\ s \in Seq(P)
      BY <1>2, <1>9
    <3> QED
      BY <3>1, DrainedParts
  <2>2. (emitted \o SubSeq(s, 1, n)) \o SubSeq(s, n + 1, Len(s)) = more
    BY ONLY <1>9, <2>1
  <2> QED
    BY <1>10, <2>1, <2>2
<1>12. ChunkerTypeOK'
  BY <1>2, <1>4, <1>5, <1>6, <1>10, <1>11 DEF ChunkerTypeOK, P
<1>13. SpokenPrefixOutsideFences(rawText)' = more
  BY <1>5 DEF more, SpokenPrefixOutsideFences, Outside, FencesBefore, Fences, Are, Ascending, Rank
<1>14. Spacing'
  <2> DEFINE e == Len(emitted)
             E == emitted'
  <2>1. e \in Nat /\ Len(s) \in Nat /\ n \in Nat /\ DOMAIN emitted = 1..e
    BY <1>2, <1>9, LenProperties
  <2>2. /\ SubSeq(s, 1, n) \in Seq(P) /\ Len(SubSeq(s, 1, n)) = n
        /\ \A k \in 1..n : SubSeq(s, 1, n)[k] = s[k]
    <3>1. \A i \in 1..n : s[i] \in P
      <4>1. \A i \in 1..Len(s) : s[i] \in P
        BY <1>9, ElementOfSeq
      <4> QED
        BY <2>1, <4>1
    <3>2. 1 \in Int /\ n \in Int
      BY <2>1
    <3> QED
      BY <1>9, <2>1, <3>1, <3>2, SubSeqProperties
  <2>3. /\ Len(E) = e + n /\ DOMAIN E = 1..(e + n)
        /\ \A k \in 1..(e + n) : E[k] = IF k <= e THEN emitted[k] ELSE s[k - e]
    <3> DEFINE a == SubSeq(s, 1, n)
    <3>1. a \in Seq(P) /\ Len(a) = n /\ \A k \in 1..n : a[k] = s[k]
      BY <2>2
    <3>2. E = emitted \o a
      BY <1>10
    <3> HIDE DEF a, E
    <3>3. /\ emitted \o a \in Seq(P) /\ Len(emitted \o a) = e + n
          /\ \A i \in 1..(e + n) : (emitted \o a)[i] = IF i <= e THEN emitted[i] ELSE a[i - e]
      BY <1>2, <3>1, ConcatProperties
    <3>4. DOMAIN E = 1..(e + n)
      BY <3>2, <3>3, LenProperties
    <3>5. \A k \in 1..(e + n) : ~(k <= e) => k - e \in 1..n
      BY <2>1
    <3> QED
      BY <3>1, <3>2, <3>3, <3>4, <3>5
  <2>4. SafeWhite(rawText)' = W /\ rawText' = text
    BY <1>5 DEF W, SafeWhite, White, Are, Outside, FencesBefore, Fences
  <2> DEFINE X(k) == /\ k > 1 /\ text[E[k]] # "mark"
                     /\ text[E[k]] \in {"fence", "code"} \/ WhiteBehind(W, E, k - 1)
  <2>5. \A k : SpaceBefore(rawText, SafeWhite(rawText), emitted, k)' <=> X(k)
    BY <2>4 DEF SpaceBefore, WhiteBehind
  <2> HIDE DEF E
  <2>6. ASSUME NEW k \in 1..(e + n), X(k) PROVE E[k] \in spaced'
    <3>1. CASE k <= e
      <4>1. k \in 1..e /\ k - 1 \in 1..e /\ k - 1 \in 1..(e + n) /\ k - 1 <= e /\ (k - 1) + 1 = k
            /\ k - 1 < e /\ k - 1 < e + n
        BY <2>1, <2>6, <3>1
      <4>2. E[k] = emitted[k] /\ E[k - 1] = emitted[k - 1]
        BY <2>3, <3>1, <4>1
      <4>3. \A j \in 1..e : emitted[j] \in 1..Len(rawText)
        <5> DEFINE O == Outsides(rawText)
        <5>1. /\ ChunkerTypeOK
              /\ emitted \o pendingSpoken = SpokenPrefixOutsideFences(rawText)
          BY <1>2 DEF ChunkerInv, safe
        <5>2. /\ O \in SUBSET DOMAIN rawText /\ O \in SUBSET Nat /\ IsFiniteSet(O)
              /\ e \in 0..Cardinality(O) /\ \A j \in 1..e : emitted[j] = Ascending(O)[j]
          BY <5>1, BeginsSafe
        <5>3. Cardinality(O) \in Nat /\ \A j \in 1..Cardinality(O) : Ascending(O)[j] \in O
          BY <5>2, Ascends
        <5>4. DOMAIN rawText = 1..Len(rawText)
          BY <1>2, LenProperties
        <5> HIDE DEF O
        <5>5. \A j \in 1..e : j \in 1..Cardinality(O)
          BY <5>2, <5>3
        <5> QED
          BY <5>2, <5>3, <5>4, <5>5
      <4>4. text[emitted[k]] = rawText[emitted[k]]
        BY <1>4, <4>1, <4>3
      <4>5. ASSUME WhiteBehind(W, E, k - 1)
            PROVE  WhiteBehind(SafeWhite(rawText), emitted, k - 1)
        <5>1. PICK w \in W : emitted[k - 1] < w /\ w < emitted[k]
          BY <2>3, <4>1, <4>2, <4>5 DEF WhiteBehind
        <5>2. w \in SafeWhite(rawText)
          <6>1. w \in Nat
            BY <1>4, LenProperties DEF W, SafeWhite, White, Are
          <6>2. w \in 1..Len(rawText)
            BY <1>4, <4>1, <4>3, <5>1, <6>1
          <6> QED
            BY <1>2, <1>4, <6>2, OutsideBefore DEF W
        <5> QED
          BY <4>1, <5>1, <5>2 DEF WhiteBehind
      <4>6. SpaceBefore(rawText, SafeWhite(rawText), emitted, k)
        BY <2>6, <4>2, <4>4, <4>5 DEF SpaceBefore
      <4> QED
        BY <1>2, <1>10, <2>1, <4>1, <4>2, <4>6 DEF Spacing
    <3>2. CASE k = e + 1
      <4>1. 1 <= n /\ e # 0 /\ E[k] = s[1] /\ text[s[1]] # "mark"
        BY <2>1, <2>3, <2>6, <3>2
      <4>2. emitted # <<>>
        BY <4>1
      <4> QED
        BY <1>10, <4>1, <4>2
    <3>3. CASE k > e + 1
      <4> DEFINE j == k - e
      <4>1. /\ j \in 1..n /\ j - 1 \in 1..n /\ j > 1 /\ k - 1 \in 1..(e + n) /\ ~(k <= e)
            /\ ~(k - 1 <= e) /\ (k - 1) - e = j - 1 /\ (k - 1) + 1 = k /\ (j - 1) + 1 = j
            /\ k - 1 < e + n /\ j - 1 < Len(s)
        BY <2>1, <2>6, <3>3
      <4>2. E[k] = s[j] /\ E[k - 1] = s[j - 1]
        BY <2>3, <4>1
      <4> HIDE DEF j
      <4>3. WhiteBehind(W, E, k - 1) => WhiteBehind(W, s, j - 1)
        BY <2>3, <4>1, <4>2 DEF WhiteBehind
      <4>4. SpaceBefore(text, W, s, j)
        BY <2>6, <4>1, <4>2, <4>3 DEF SpaceBefore
      <4> QED
        BY <1>10, <4>1, <4>2, <4>4
    <3> QED
      BY <2>1, <2>6, <3>1, <3>2, <3>3
  <2> QED
    BY <2>3, <2>5, <2>6 DEF Spacing, E
<1> QED
  BY <1>2, <1>5, <1>11, <1>12, <1>13, <1>14 DEF ChunkerInv

----------------------------------------------------------------------------
\* What is spoken then is outside the fences, and in order.
LEMMA BeginningIsText ==
  ASSUME ChunkerTypeOK, emitted \o pendingSpoken = SpokenPrefixOutsideFences(rawText)
  PROVE  /\ NothingTwice /\ NeverSpeaksCode
         /\ \A i : Spoken(i) => i \in Outsides(rawText)
<1> DEFINE O == Outsides(rawText)
           A == Ascending(O)
           n == Len(emitted)
           c == Cardinality(O)
<1>1. /\ O \in SUBSET Nat /\ IsFiniteSet(O) /\ n \in 0..c /\ DOMAIN emitted = 1..n
      /\ \A k \in 1..n : emitted[k] = A[k]
  BY BeginsSafe
<1>2. /\ c \in Nat /\ \A k \in 1..c : A[k] \in O
      /\ \A k, m \in 1..c : k < m => A[k] < A[m]
  BY <1>1, Ascends
<1> HIDE DEF A, n, c
<1>3. ASSUME NEW k \in 1..(n - 1) PROVE emitted[k] < emitted[k + 1]
  <2>1. k \in 1..n /\ k + 1 \in 1..n /\ k \in 1..c /\ k + 1 \in 1..c /\ k < k + 1
    BY <1>1, <1>2
  <2> QED
    BY <1>1, <1>2, <2>1
<1>4. \A i : Spoken(i) => i \in O
  BY <1>1, <1>2 DEF Spoken
<1>5. NothingTwice
  BY <1>3 DEF NothingTwice, n
<1>6. NeverSpeaksCode
  <2>1. ASSUME NEW i \in DOMAIN rawText, Spoken(i), InBlock(rawText, i)
        PROVE  \E f \in DOMAIN rawText : f < i /\ InlineFence(rawText, f)
    <3>1. Outside(rawText, i)
      BY <1>4, <2>1 DEF Outsides
    <3>2. rawText \in Seq(Tokens)
      BY DEF ChunkerTypeOK
    <3> QED
      BY <2>1, <3>1, <3>2, NotInBlock
  <2> QED
    BY <2>1 DEF NeverSpeaksCode
<1> QED
  BY <1>4, <1>5, <1>6

\* What goes into the speech of the whole answer.
Speech(text) ==
    {i \in DOMAIN text :
       \/ i \in UnfencedCode(text) \/ Opens(text, i)
       \/ /\ text[i] \in {"word", "mark"} /\ ~InBlock(text, i)
          /\ \A c \in UnfencedCode(text) : i < c}

\* It begins with what has been spoken, unless a sentence was cut where it did
\* not end or something was spoken from behind code.
LEMMA SpeechStartsSo ==
  ASSUME ChunkerTypeOK, emitted \o pendingSpoken = SpokenPrefixOutsideFences(rawText),
         Spacing, ~CutInside, ~SpokePast
  PROVE  StartsWith(ParseSpokenMarkdown(rawText))
<1> DEFINE text == rawText
           O == Outsides(text)
           A == Ascending(O)
           G == Speech(text)
           B == Ascending(G)
           n == Len(emitted)
           c == Cardinality(O)
           U == UnfencedCode(text)
<1>1. /\ O \in SUBSET DOMAIN text /\ O \in SUBSET Nat /\ IsFiniteSet(O) /\ n \in 0..c
      /\ DOMAIN emitted = 1..n /\ \A k \in 1..n : emitted[k] = A[k]
  BY BeginsSafe
<1>2. /\ c \in Nat /\ (\A k \in 1..c : A[k] \in O)
      /\ \A k, m \in 1..c : k < m => A[k] < A[m]
  BY <1>1, Ascends
<1>3. text \in Seq(Tokens) /\ \A i : Spoken(i) => i \in O
  BY BeginningIsText DEF ChunkerTypeOK
<1>4. G \in SUBSET DOMAIN text /\ ParseSpokenMarkdown(text) = B
  BY DEF Speech, ParseSpokenMarkdown
<1>5. /\ Fences(text) \in SUBSET DOMAIN text /\ U \in SUBSET DOMAIN text
      /\ \A u \in U : text[u] = "code"
  BY DEF Fences, UnfencedCode, CodeLines, InlineCode, CodeStarts, Are
<1>6. \A i \in O : text[i] \in {"word", "mark"} /\ Outside(text, i)
  BY DEF Outsides, Are
<1>7. \A i \in DOMAIN text : text[i] \in {"word", "mark"} /\ Outside(text, i) => i \in O
  BY DEF Outsides, Are
<1>8. \A i : i \in G <=> /\ i \in DOMAIN text
                         /\ \/ i \in U \/ Opens(text, i)
                            \/ /\ text[i] \in {"word", "mark"} /\ ~InBlock(text, i)
                               /\ \A u \in U : i < u
  BY DEF Speech
<1> HIDE DEF O, G, A, B, c, n, U, text
<1>9. DOMAIN text \in SUBSET Nat
  BY <1>3, LenProperties
<1>10. G \in SUBSET Nat /\ IsFiniteSet(G)
  BY <1>3, <1>4, PositionsOf
<1>11. \A k \in 1..n : emitted[k] \in O /\ Spoken(emitted[k]) /\ emitted[k] \in Nat
  <2>1. \A k \in 1..n : k \in 1..c
    BY <1>1, <1>2
  <2> QED
    BY <1>1, <1>2, <2>1 DEF Spoken
\* No fence and no code is before what has been spoken.
<1>12. ASSUME NEW k \in 1..n, NEW t \in Fences(text) \cup U PROVE emitted[k] < t
  <2>1. ~Spoken(t)
    <3>1. text[t] \in {"fence", "code"}
      BY <1>5 DEF Fences, Are
    <3> QED
      BY <1>3, <1>6, <3>1
  <2>2. t \in DOMAIN text /\ emitted[k] \in DOMAIN text /\ Spoken(emitted[k])
    BY <1>1, <1>5, <1>11, <1>12
  <2>3. ~(t < emitted[k])
    BY <2>1, <2>2, <1>12 DEF SpokePast, text, U
  <2>4. t \in Nat /\ emitted[k] \in Nat /\ t # emitted[k]
    BY <1>9, <2>1, <2>2
  <2> QED
    BY <2>3, <2>4
<1>13. ASSUME NEW k \in 1..n, NEW j \in Nat, j <= emitted[k]
       PROVE  /\ j \in O <=> j \in G
              /\ j \in DOMAIN text /\ text[j] \notin {"fence", "code"} => Outside(text, j)
  <2>1. emitted[k] \in Nat
    BY <1>11
  <2>2. ASSUME NEW t \in Fences(text) \cup U PROVE j < t
    <3>1. emitted[k] < t /\ t \in Nat
      BY <1>5, <1>9, <1>12
    <3> QED
      BY <1>13, <2>1, <3>1
  <2>3. \A t \in Fences(text) \cup U : ~(t < j) /\ t # j
    <3>1. ASSUME NEW t \in Fences(text) \cup U PROVE ~(t < j) /\ t # j
      <4>1. t \in Nat /\ j < t
        BY <1>5, <1>9, <2>2
      <4> QED
        BY <4>1
    <3> QED
      BY <3>1
  <2>4. ~InBlock(text, j) /\ ~Opens(text, j) /\ j \notin U
    BY <2>3 DEF InBlock, Opens
  <2>5. FencesBefore(text, j) = 0
    <3>1. {f \in Fences(text) : f < j} = {}
      BY <2>3
    <3> QED
      BY <3>1, FS_EmptySet DEF FencesBefore
  <2>6. text[j] \notin {"fence", "code"} => Outside(text, j)
    BY <2>5 DEF Outside
  <2> QED
    BY <1>1, <1>6, <1>7, <1>8, <2>2, <2>4, <2>6
<1>14. n <= Cardinality(G) /\ \A k \in 1..n : B[k] = emitted[k]
  <2>1. \A k \in 1..n : \A j \in Nat : j <= Ascending(O)[k] => (j \in O <=> j \in G)
    BY <1>1, <1>13 DEF A
  <2>2. n \in 0..Cardinality(O)
    BY <1>1 DEF c
  <2>3. n <= Cardinality(G) /\ \A k \in 1..n : Ascending(G)[k] = Ascending(O)[k]
    BY <1>1, <1>10, <2>1, <2>2, SameBeginning
  <2> QED
    BY <1>1, <2>3 DEF A, B
<1>15. B \in Seq(G) /\ Len(B) = Cardinality(G) /\ Cardinality(G) \in Nat /\ n \in Nat
  BY <1>1, <1>2, <1>10, Ascends DEF B
<1>16. IsPrefix(emitted, B)
  <2>1. SubSeq(emitted, 1, n) = [k \in 1..n |-> emitted[k]]
    BY <1>15
  <2>2. SubSeq(B, 1, n) = [k \in 1..n |-> B[k]]
    BY <1>14, <1>15
  <2>3. SubSeq(emitted, 1, n) = SubSeq(B, 1, n)
    BY <1>14, <2>1, <2>2
  <2> QED
    BY <1>14, <1>15, <2>3 DEF IsPrefix, n
<1>17. ASSUME NEW k \in 1..n
       PROVE  emitted[k] \in spaced <=> SpaceBefore(text, White(text), B, k)
  <2>1. /\ k > 1 => k - 1 \in 1..n /\ (k - 1) + 1 = k /\ k - 1 < n /\ k - 1 < Len(B)
        /\ B[k] = emitted[k] /\ k \in DOMAIN emitted
    BY <1>1, <1>14, <1>15
  <2>2. /\ emitted[k] \in O /\ emitted[k] \in Nat /\ text[emitted[k]] \in {"word", "mark"}
    BY <1>6, <1>11
  <2>3. ASSUME emitted[k] \in spaced PROVE SpaceBefore(text, White(text), B, k)
    <3>1. SpaceBefore(text, SafeWhite(text), emitted, k)
      BY <2>1, <2>3 DEF CutInside, text
    <3>2. k > 1 /\ WhiteBehind(SafeWhite(text), emitted, k - 1)
      BY <2>2, <3>1 DEF SpaceBefore
    <3>3. PICK w \in SafeWhite(text) : emitted[k - 1] < w /\ w < emitted[k]
      BY <2>1, <3>2 DEF WhiteBehind, n
    <3>4. w \in White(text) /\ B[k - 1] = emitted[k - 1]
      BY <1>14, <2>1, <3>2 DEF SafeWhite
    <3>5. WhiteBehind(White(text), B, k - 1)
      BY <2>1, <3>2, <3>3, <3>4 DEF WhiteBehind
    <3> QED
      BY <2>1, <3>1, <3>5 DEF SpaceBefore
  <2>4. ASSUME SpaceBefore(text, White(text), B, k) PROVE emitted[k] \in spaced
    <3>1. k > 1 /\ WhiteBehind(White(text), B, k - 1) /\ text[emitted[k]] # "mark"
      BY <2>1, <2>2, <2>4 DEF SpaceBefore
    <3>2. PICK w \in White(text) : B[k - 1] < w /\ w < B[k]
      BY <2>1, <3>1 DEF WhiteBehind
    <3>3. w \in DOMAIN text /\ w \in Nat /\ text[w] \in {"space", "line"}
      BY <1>9 DEF White, Are
    <3>4. w <= emitted[k]
      BY <2>1, <2>2, <3>2, <3>3
    <3>5. w \in SafeWhite(text)
      BY <1>13, <3>3, <3>4 DEF SafeWhite
    <3>6. emitted[k - 1] = B[k - 1]
      BY <1>14, <2>1, <3>1
    <3>7. WhiteBehind(SafeWhite(text), emitted, k - 1)
      BY <2>1, <3>1, <3>2, <3>5, <3>6 DEF WhiteBehind, n
    <3>8. SpaceBefore(text, SafeWhite(text), emitted, k)
      BY <3>1, <3>7 DEF SpaceBefore
    <3> QED
      BY <2>1, <3>8 DEF Spacing, text
  <2> QED
    BY <2>3, <2>4
<1> QED
  BY <1>1, <1>4, <1>16, <1>17 DEF StartsWith, text

\* Every part of the speech is where the code says, or lost at the end.
InFull ==
    LET final == ParseSpokenMarkdown(rawText) IN
    \A n \in DOMAIN final :
       LET i == final[n] IN
       \/ Spoken(i)
       \/ ~Outside(rawText, i) /\ \E k \in DOMAIN rawText : i < k /\ Spoken(k)
       \/ /\ CutInside \/ SpokePast
          /\ \A k \in DOMAIN rawText : Spoken(k) => k < i

\* What finish() leaves out, when what has been spoken is not how the answer
\* begins, lies behind everything that has been spoken.
LEMMA LostIsBehind ==
  ASSUME ChunkerTypeOK, emitted \o pendingSpoken = SpokenPrefixOutsideFences(rawText),
         Spacing, ~StartsWith(ParseSpokenMarkdown(rawText))
  PROVE  InFull
<1> DEFINE O == Outsides(rawText)
           A == Ascending(O)
           n == Len(emitted)
           c == Cardinality(O)
           B == ParseSpokenMarkdown(rawText)
<1>1. /\ O \in SUBSET Nat /\ IsFiniteSet(O) /\ n \in 0..c /\ DOMAIN emitted = 1..n
      /\ \A k \in 1..n : emitted[k] = A[k]
  BY BeginsSafe
<1>2. /\ c \in Nat /\ (\A k \in 1..c : A[k] \in O)
      /\ (\A i \in O : Rank(O, i) \in 1..c /\ A[Rank(O, i)] = i)
      /\ \A k, m \in 1..c : k < m => A[k] < A[m]
  BY <1>1, Ascends
<1>3. \A i : Spoken(i) => i \in O
  BY BeginningIsText
<1>4. CutInside \/ SpokePast
  BY SpeechStartsSo
<1>5. \A m \in DOMAIN B : /\ B[m] \in DOMAIN rawText /\ B[m] \in Nat
                          /\ rawText[B[m]] \in {"word", "mark"} \/ ~Outside(rawText, B[m])
  <2> DEFINE G == Speech(rawText)
  <2>1. G \in SUBSET DOMAIN rawText /\ B = Ascending(G)
    BY DEF Speech, ParseSpokenMarkdown
  <2>2. \A i \in G : rawText[i] \in {"word", "mark"} \/ ~Outside(rawText, i)
    BY DEF Speech, Outside, Opens, Fences, Are, UnfencedCode, CodeLines, InlineCode, CodeStarts
  <2> HIDE DEF G, B
  <2>3. G \in SUBSET Nat /\ IsFiniteSet(G)
    BY <2>1, PositionsOf DEF ChunkerTypeOK
  <2>4. \A m \in DOMAIN B : B[m] \in G
    BY <2>1, <2>3, Ascends
  <2> QED
    BY <2>1, <2>2, <2>3, <2>4
<1>6. \A i \in DOMAIN rawText : rawText[i] \in {"word", "mark"} /\ Outside(rawText, i) => i \in O
  BY DEF Outsides, Are
<1> HIDE DEF O, A, n, c, B
<1>7. ASSUME NEW i \in O, ~Spoken(i), NEW j \in DOMAIN rawText, Spoken(j)
      PROVE  j < i
  <2>1. PICK m \in 1..n : emitted[m] = j
    BY <1>1, <1>7 DEF Spoken
  <2>2. Rank(O, i) \in 1..c /\ A[Rank(O, i)] = i
    BY <1>2
  <2>3. ~(Rank(O, i) \in 1..n)
    BY <1>1, <1>7, <2>2 DEF Spoken
  <2>4. m \in 1..c /\ m < Rank(O, i)
    BY <1>1, <1>2, <2>2, <2>3
  <2> QED
    BY <1>1, <1>2, <2>1, <2>2, <2>4
<1>8. ASSUME NEW m \in DOMAIN B, ~Spoken(B[m])
      PROVE  \/ ~Outside(rawText, B[m]) /\ \E k \in DOMAIN rawText : B[m] < k /\ Spoken(k)
             \/ \A k \in DOMAIN rawText : Spoken(k) => k < B[m]
  <2>1. CASE Outside(rawText, B[m])
    BY <1>5, <1>6, <1>7, <1>8, <2>1
  <2>2. CASE ~Outside(rawText, B[m])
    <3>1. ASSUME NEW k \in DOMAIN rawText, Spoken(k) PROVE k < B[m] \/ B[m] < k
      <4>1. k \in Nat /\ B[m] \in Nat /\ k # B[m]
        BY <1>1, <1>3, <1>5, <1>8, <3>1
      <4> QED
        BY <4>1
    <3> QED
      BY <2>2, <3>1
  <2> QED
    BY <2>1, <2>2
<1> QED
  BY <1>4, <1>8 DEF InFull, B

----------------------------------------------------------------------------
\* What is read off the text stays when the text does.
LEMMA SameText ==
  ASSUME rawText' = rawText
  PROVE  /\ (\A i : Outside(rawText, i)' <=> Outside(rawText, i))
         /\ (\A i : Opens(rawText, i)' <=> Opens(rawText, i))
         /\ (\A i : InBlock(rawText, i)' <=> InBlock(rawText, i))
         /\ (\A i : InlineFence(rawText, i)' <=> InlineFence(rawText, i))
         /\ Fences(rawText)' = Fences(rawText) /\ UnfencedCode(rawText)' = UnfencedCode(rawText)
         /\ SafeWhite(rawText)' = SafeWhite(rawText)
         /\ ParseSpokenMarkdown(rawText)' = ParseSpokenMarkdown(rawText)
<1>1. \A kinds : Are(rawText, kinds)' = Are(rawText, kinds)
  BY DEF Are
<1>2. Fences(rawText)' = Fences(rawText) /\ White(rawText)' = White(rawText)
  BY <1>1 DEF Fences, White
<1>3. \A i : FencesBefore(rawText, i)' = FencesBefore(rawText, i)
  BY <1>2 DEF FencesBefore
<1>4. \A i : Outside(rawText, i)' <=> Outside(rawText, i)
  BY <1>3 DEF Outside
<1>5. \A f : EndsItsLine(rawText, f)' <=> EndsItsLine(rawText, f)
  BY <1>1, <1>2 DEF EndsItsLine
<1>6. \A f : RunBefore(rawText, f)' = RunBefore(rawText, f)
  BY <1>2, <1>5 DEF RunBefore
<1>7. \A f : Opens(rawText, f)' <=> Opens(rawText, f)
  BY <1>2, <1>5, <1>6 DEF Opens
<1>8. \A i : InBlock(rawText, i)' <=> InBlock(rawText, i)
  BY <1>2, <1>7 DEF InBlock
<1>9. \A i : InlineFence(rawText, i)' <=> InlineFence(rawText, i)
  BY <1>2, <1>3, <1>5 DEF InlineFence
<1>10. CodeStarts(rawText)' = CodeStarts(rawText)
  BY <1>1 DEF CodeStarts
<1>11. CodeLines(rawText)' = CodeLines(rawText) /\ InlineCode(rawText)' = InlineCode(rawText)
  BY <1>1, <1>2, <1>10 DEF CodeLines, InlineCode
<1>12. UnfencedCode(rawText)' = UnfencedCode(rawText)
  BY <1>2, <1>11 DEF UnfencedCode
<1>13. SafeWhite(rawText)' = SafeWhite(rawText)
  BY <1>2, <1>4 DEF SafeWhite
<1>14. ParseSpokenMarkdown(rawText)' = ParseSpokenMarkdown(rawText)
  <2>1. Speech(rawText)' = Speech(rawText)
    BY <1>7, <1>8, <1>12 DEF Speech
  <2>2. ParseSpokenMarkdown(rawText) = Ascending(Speech(rawText))
    BY DEF ParseSpokenMarkdown, Speech
  <2>3. ParseSpokenMarkdown(rawText)' = Ascending(Speech(rawText)')
    BY DEF ParseSpokenMarkdown, Speech, Ascending, Rank
  <2> QED
    BY <2>1, <2>2, <2>3
<1> QED
  BY <1>2, <1>4, <1>7, <1>8, <1>9, <1>12, <1>13, <1>14

LEMMA SameInFull ==
  ASSUME InFull, rawText' = rawText, emitted' = emitted, spaced' = spaced
  PROVE  InFull'
<1>1. \A i : Spoken(i)' <=> Spoken(i)
  BY DEF Spoken
<1>2. CutInside' <=> CutInside
  BY SameText DEF CutInside, SpaceBefore, WhiteBehind
<1>3. SpokePast' <=> SpokePast
  BY <1>1, SameText DEF SpokePast
<1> QED
  BY <1>1, <1>2, <1>3, SameText DEF InFull

LEMMA FinishTextKeeps == ASSUME ChunkerInv, FinishText PROVE ChunkerInv'
<1> DEFINE final == ParseSpokenMarkdown(rawText)
           G == Speech(rawText)
           u == Unspoken(final)
           P == 1..MaxTokens
<1>1. /\ ~finished /\ finished' = TRUE /\ rawText' = rawText /\ safePrefix' = safePrefix
      /\ DrainReadyChunks(rawText, White(rawText), u, TRUE)
  BY DEF FinishText
<1>2. /\ ChunkerTypeOK /\ rawText \in Seq(Tokens) /\ Len(rawText) <= MaxTokens
      /\ emitted \in Seq(P) /\ pendingSpoken \in Seq(P) /\ spaced \subseteq P
      /\ emitted \o pendingSpoken = SpokenPrefixOutsideFences(rawText) /\ Spacing
      /\ safePrefix \in 0..MaxTokens /\ safePrefix = Len(SpokenPrefixOutsideFences(rawText))
  BY <1>1 DEF ChunkerInv, ChunkerTypeOK
<1>3. G \in SUBSET DOMAIN rawText /\ final = Ascending(G)
  BY DEF Speech, ParseSpokenMarkdown
<1>4. \A i \in G : InBlock(rawText, i) => Opens(rawText, i)
  BY DEF Speech, InBlock, UnfencedCode
<1> HIDE DEF G, final
<1>5. G \in SUBSET Nat /\ IsFiniteSet(G) /\ final \in Seq(P) /\ Len(final) \in Nat
  BY <1>2, <1>3, PositionsOf, Listed
<1> HIDE DEF P
<1>6. /\ u \in Seq(P)
      /\ StartsWith(final) => emitted \o u = final
      /\ ~StartsWith(final) => u = <<>>
  <2>1. CASE StartsWith(final)
    <3>1. u = SubSeq(final, Len(emitted) + 1, Len(final)) /\ IsPrefix(emitted, final)
      BY <2>1 DEF Unspoken, StartsWith
    <3> HIDE DEF u
    <3>2. /\ SubSeq(final, Len(emitted) + 1, Len(final)) \in Seq(P)
          /\ emitted \o SubSeq(final, Len(emitted) + 1, Len(final)) = final
      BY <1>2, <1>5, <3>1, RestOf
    <3> QED
      BY ONLY <2>1, <3>1, <3>2
  <2>2. CASE ~StartsWith(final)
    BY <2>2, EmptySeq DEF Unspoken
  <2> QED
    BY <2>1, <2>2
<1> HIDE DEF u
<1>7. PICK n \in 0..Len(u) :
        /\ n = Len(u) /\ emitted' = emitted \o SubSeq(u, 1, n)
        /\ pendingSpoken' = SubSeq(u, n + 1, Len(u))
        /\ spaced' \subseteq P /\ (n = 0 => spaced' = spaced)
  BY <1>1, <1>2, <1>6, Drained DEF P
<1>8. Len(u) \in Nat
  BY <1>6, LenProperties
<1>9. pendingSpoken' = <<>> /\ emitted' = emitted \o u /\ emitted' \in Seq(P)
  <2>1. SubSeq(u, n + 1, n) = <<>>
    BY <1>7, <1>8, SubSeqEmpty
  <2>2. SubSeq(u, 1, Len(u)) = u
    BY <1>6, SubSeqFull
  <2>3. emitted \o u \in Seq(P)
    BY <1>2, <1>6, ConcatProperties
  <2>4. emitted' = emitted \o u
    BY ONLY <1>7, <2>2
  <2> QED
    BY <1>7, <2>1, <2>3, <2>4
<1>10. ChunkerTypeOK'
  <2>1. pendingSpoken' \in Seq(P)
    BY <1>9, EmptySeq
  <2> QED
    BY <1>1, <1>2, <1>7, <1>9, <2>1 DEF ChunkerTypeOK, P
<1>11. safePrefix' = Len(SpokenPrefixOutsideFences(rawText))'
  BY <1>1, <1>2
     DEF SpokenPrefixOutsideFences, Ascending, Rank, Are, Outside, FencesBefore, Fences
<1>12. SpokenText'
  <2>1. CASE StartsWith(final)
    <3> DEFINE c == Cardinality(G)
               B == Ascending(G)
    <3>1. /\ c \in Nat /\ Len(B) = c /\ DOMAIN B = 1..c /\ \A k \in 1..c : B[k] \in G
          /\ \A i \in G : Rank(G, i) \in 1..c /\ B[Rank(G, i)] = i
          /\ \A k, m \in 1..c : k < m => B[k] < B[m]
      BY <1>5, Ascends
    <3>2. emitted' = B
      BY <1>3, <1>6, <1>9, <2>1
    <3> HIDE DEF c, B
    <3>3. NothingTwice'
      <4>1. ASSUME NEW k \in 1..(c - 1) PROVE B[k] < B[k + 1]
        <5>1. k \in 1..c /\ k + 1 \in 1..c /\ k < k + 1
          BY <3>1
        <5> QED
          BY <3>1, <5>1
      <4> QED
        BY <3>1, <3>2, <4>1 DEF NothingTwice
    <3>4. \A i : Spoken(i)' <=> i \in G
      BY <3>1, <3>2 DEF Spoken
    <3>5. NeverSpeaksCode'
      BY <1>1, <1>4, <3>4, SameText DEF NeverSpeaksCode
    <3>6. SpokenInFull'
      <4>1. ParseSpokenMarkdown(rawText)' = B
        BY <1>1, <1>3, SameText DEF B, final
      <4>2. \A m \in DOMAIN B : \E k \in DOMAIN emitted' : emitted'[k] = B[m]
        BY <3>2
      <4> QED
        BY <4>1, <4>2 DEF SpokenInFull, Spoken
    <3> QED
      BY <3>3, <3>5, <3>6 DEF SpokenText
  <2>2. CASE ~StartsWith(final)
    <3>1. emitted' = emitted /\ spaced' = spaced /\ rawText' = rawText
      <4>1. u = <<>> /\ Len(<<>>) = 0
        BY <1>6, <2>2
      <4>2. emitted \o <<>> = emitted
        BY <1>2, ConcatEmptySeq
      <4> QED
        BY <1>1, <1>7, <1>9, <4>1, <4>2
    <3>2. NothingTwice /\ NeverSpeaksCode
      BY <1>2, BeginningIsText
    <3>3. InFull
      BY <1>2, <2>2, LostIsBehind DEF final
    <3>4. NothingTwice'
      BY <3>1, <3>2 DEF NothingTwice
    <3>5. NeverSpeaksCode'
      BY <3>1, <3>2, SameText DEF NeverSpeaksCode, Spoken
    <3>6. InFull'
      BY <3>1, <3>3, SameInFull
    <3>7. SpokenInFull'
      BY <3>6 DEF InFull, SpokenInFull
    <3> QED
      BY <3>4, <3>5, <3>7 DEF SpokenText
  <2> QED
    BY <2>1, <2>2
<1> QED
  BY <1>1, <1>10, <1>11, <1>12 DEF ChunkerInv

LEMMA ChunkerStays == ASSUME ChunkerInv, UNCHANGED chunkerVars PROVE ChunkerInv'
<1>1. /\ rawText' = rawText /\ safePrefix' = safePrefix /\ pendingSpoken' = pendingSpoken
      /\ emitted' = emitted /\ spaced' = spaced /\ finished' = finished
  BY DEF chunkerVars
<1>2. ChunkerTypeOK'
  BY <1>1 DEF ChunkerInv, ChunkerTypeOK
<1>3. SpokenPrefixOutsideFences(rawText)' = SpokenPrefixOutsideFences(rawText)
  BY <1>1 DEF SpokenPrefixOutsideFences, Ascending, Rank, Are, Outside, FencesBefore, Fences
<1>4. SpokenText => SpokenText'
  <2>1. InFull => InFull'
    BY <1>1, SameInFull
  <2>2. (SpokenInFull <=> (finished => InFull)) /\ (SpokenInFull' <=> (finished' => InFull'))
    BY DEF SpokenInFull, InFull
  <2>3. NothingTwice => NothingTwice'
    BY <1>1 DEF NothingTwice
  <2>4. NeverSpeaksCode => NeverSpeaksCode'
    BY <1>1, SameText DEF NeverSpeaksCode, Spoken
  <2> QED
    BY <1>1, <2>1, <2>2, <2>3, <2>4 DEF SpokenText
<1>5. Spacing => Spacing'
  BY <1>1, SameText DEF Spacing, SpaceBefore, WhiteBehind
<1> QED
  BY <1>1, <1>2, <1>3, <1>4, <1>5 DEF ChunkerInv

LEMMA ChunkerInvSpeaks == ChunkerInv => SpokenText
<1> SUFFICES ASSUME ChunkerInv PROVE SpokenText
  OBVIOUS
<1>1. CASE finished
  BY <1>1 DEF ChunkerInv
<1>2. CASE ~finished
  <2>1. NothingTwice /\ NeverSpeaksCode
    BY <1>2, BeginningIsText DEF ChunkerInv
  <2> QED
    BY <1>2, <2>1 DEF SpokenText, SpokenInFull
<1> QED
  BY <1>1, <1>2

\* For every answer, however it is cut into deltas and however long a chunk may
\* be (push and finish of SpokenTextChunker): nothing is spoken twice or out of
\* order; no word of a block is, unless a fence in a line came before it; and
\* when it is over all of the speech has been spoken, but for what finish()
\* would put in front of something already spoken, and but for the rest of the
\* answer when there was such, or when a sentence was cut where it does not end.
THEOREM TextIsSpoken == ChunkerSpec => []SpokenText
<1>1. ChunkerInit => ChunkerInv
  BY ChunkerBegins
<1>2. ChunkerInv /\ [ChunkerNext]_chunkerVars => ChunkerInv'
  BY PushTextKeeps, FinishTextKeeps, ChunkerStays DEF ChunkerNext
<1> QED
  BY <1>1, <1>2, ChunkerInvSpeaks, PTL DEF ChunkerSpec

=============================================================================
