------------------------------ MODULE TextChunker ------------------------------
(***************************************************************************)
(* text/streaming.py, SpokenTextChunker, with the parts of                 *)
(* text/markdown.py it uses: an answer that arrives in pieces is cut into  *)
(* chunks for the player, and code in it is not to be read aloud.          *)
(*                                                                         *)
(* A text is a sequence of tokens: "word", a run of letters; "mark", one   *)
(* of . ! ?; "space" and "line", white space without and with the end of a *)
(* line; "fence", three backquotes; "code", no character at all but the    *)
(* place where "package main" begins with the word behind it.  A word      *)
(* directly behind a mark or a word has no space in front of it.  Fences   *)
(* arrive whole, and there is no other backquote.                          *)
(*                                                                         *)
(* What is spoken is a string of words and marks, named by their positions *)
(* in the text (so two of them are the same only in the same place), with  *)
(* single spaces in front of some of them.  The position of a block's      *)
(* first fence, or of "code", stands there for the phrase spoken instead.  *)
(***************************************************************************)
EXTENDS Integers, Sequences, FiniteSets, SequencesExt

CONSTANTS MaxTokens,   \* bound: tokens of an answer
          PieceSize    \* bound: tokens of one delta

ASSUME ChunkerAssumption == MaxTokens \in Nat /\ PieceSize \in Nat

VARIABLES rawText,       \* _raw_text
          safePrefix,    \* _safe_prefix_len, in words and marks
          pendingSpoken, \* _pending_spoken
          emitted,       \* _emitted_spoken: the words and marks of the chunks so far
          spaced,        \* ... and those of them with a space in front
          finished       \* finish() has been called

chunkerVars == <<rawText, safePrefix, pendingSpoken, emitted, spaced, finished>>

Tokens == {"word", "mark", "space", "line", "fence", "code"}

ChunkerTypeOK ==
    /\ rawText \in Seq(Tokens) /\ Len(rawText) <= MaxTokens
    /\ safePrefix \in 0..MaxTokens
    /\ pendingSpoken \in Seq(1..MaxTokens)
    /\ emitted \in Seq(1..MaxTokens) /\ spaced \subseteq 1..MaxTokens
    /\ finished \in BOOLEAN

ChunkerInit ==
    /\ rawText = <<>> /\ safePrefix = 0
    /\ pendingSpoken = <<>> /\ emitted = <<>> /\ spaced = {} /\ finished = FALSE

----------------------------------------------------------------------------
(* Two parsers of fences: the one of push() and the one of finish().       *)

Are(text, kinds) == {i \in DOMAIN text : text[i] \in kinds}

Fences(text) == Are(text, {"fence"})
White(text)  == Are(text, {"space", "line"})

FencesBefore(text, i) == Cardinality({f \in Fences(text) : f < i})

\* For push() every fence opens or closes.
Outside(text, i) == text[i] \notin {"fence", "code"} /\ FencesBefore(text, i) % 2 = 0

\* For finish() a fence can open a block when its line ends before the next fence.
EndsItsLine(text, f) ==
    \E l \in Are(text, {"line"}) : f < l /\ \A g \in Fences(text) : ~(f < g /\ g < l)

\* The fences of such a kind directly before f, each next to the other.
RunBefore(text, f) ==
    {g \in Fences(text) : g < f /\ \A h \in Fences(text) : g <= h /\ h < f => EndsItsLine(text, h)}

\* It does open one unless it closes one.
Opens(text, f) ==
    f \in Fences(text) /\ EndsItsLine(text, f) /\ Cardinality(RunBefore(text, f)) % 2 = 0

\* A block goes to the next fence, or to the end of the text.
InBlock(text, i) ==
    \E f \in Fences(text) :
       f < i /\ Opens(text, f) /\ \A g \in Fences(text) : ~(f < g /\ g < i)

\* The positions S of a text, as they come in it.
Rank(S, i)   == Cardinality({j \in S : j <= i})
Ascending(S) == [n \in 1..Cardinality(S) |-> CHOOSE i \in S : Rank(S, i) = n]

\* _spoken_prefix_outside_fences
SpokenPrefixOutsideFences(text) ==
    Ascending({i \in Are(text, {"word", "mark"}) : Outside(text, i)})

\* Code at the beginning of a line, _CODE_START_RE, and anywhere, _INLINE_CODE_RE:
\* there its word ends where it should.
CodeStarts(text) == {c \in Are(text, {"code"}) : c + 1 \in Are(text, {"word"})}
CodeLines(text) ==
    {c \in CodeStarts(text) :
       \A t \in 1..(c - 1) : t \in White(text) \/ \E l \in t..(c - 1) : text[l] = "line"}
InlineCode(text) == {c \in CodeStarts(text) : c + 2 \notin Are(text, {"word"})}

\* _extract_unfenced_code: in a text without a fence, where code begins that
\* goes to the end: the first line that does, or else the first place.
UnfencedCode(text) ==
    LET starts == IF CodeLines(text) # {} THEN CodeLines(text) ELSE InlineCode(text)
    IN  {c \in starts : Fences(text) = {} /\ \A d \in starts : c <= d}

\* parse_spoken_markdown(text).speech_text
ParseSpokenMarkdown(text) ==
    Ascending({i \in DOMAIN text :
                 \/ i \in UnfencedCode(text) \/ Opens(text, i)
                 \/ /\ text[i] \in {"word", "mark"} /\ ~InBlock(text, i)
                    /\ \A c \in UnfencedCode(text) : i < c})

----------------------------------------------------------------------------
(* A string s of positions, with the white space W of the text it is from. *)

\* There is white space behind s[n] in the string.
WhiteBehind(W, s, n) == \E w \in W : s[n] < w /\ (n < Len(s) => w < s[n + 1])

\* _normalize: s[n] comes with a space.  A mark never does; a phrase is joined
\* to the rest with spaces, and its block has white space of its own.
SpaceBefore(text, W, s, n) ==
    /\ n > 1 /\ text[s[n]] # "mark"
    /\ text[s[n]] \in {"fence", "code"} \/ WhiteBehind(W, s, n - 1)

\* _SENTENCE_END_RE: a mark with white space behind it, or with nothing.
SentenceEnds(text, W, s) ==
    {n \in DOMAIN s : text[s[n]] = "mark" /\ (n = Len(s) \/ WhiteBehind(W, s, n))}

\* _ready_boundary, asked until it has none: how many words and marks can go
\* out in one call.  Whole sentences do, and of the rest, when it is long, as
\* much as ends in white space; with finish() everything does.
ReadyBoundaries(text, W, s, final) ==
    IF final THEN {Len(s)}
    ELSE LET ends == SentenceEnds(text, W, s) IN
         {n \in 0..Len(s) : /\ \A e \in ends : e <= n
                            /\ n = 0 \/ n \in ends \/ WhiteBehind(W, s, n)}

\* _drain_ready_chunks: the chunks are joined with a space.
DrainReadyChunks(text, W, s, final) ==
    \E n \in ReadyBoundaries(text, W, s, final) :
       /\ emitted' = emitted \o SubSeq(s, 1, n)
       /\ spaced' = spaced \cup
            {s[k] : k \in {m \in 1..n : \/ SpaceBefore(text, W, s, m)
                                        \/ m = 1 /\ emitted # <<>> /\ text[s[m]] # "mark"}}
       /\ pendingSpoken' = SubSeq(s, n + 1, Len(s))

\* The white space push() keeps.
SafeWhite(text) == {w \in White(text) : Outside(text, w)}

\* Two fences side by side would be one of six backquotes; code begins with
\* its word, between words.
CanArrive(text) ==
    \A i \in 1..(Len(text) - 1) :
       /\ text[i] = "fence" => text[i + 1] # "fence"
       /\ text[i] = "code" => text[i + 1] = "word"
       /\ text[i + 1] = "code" => text[i] \in {"mark", "space", "line"}

\* push(delta)
Push ==
    /\ ~finished
    /\ \E n \in 1..PieceSize : \E delta \in [1..n -> Tokens] :
          LET text == rawText \o delta
              safe == SpokenPrefixOutsideFences(text)
          IN
          /\ Len(text) <= MaxTokens /\ CanArrive(text)
          /\ rawText' = text
          /\ safePrefix' = Len(safe)
          /\ DrainReadyChunks(text, SafeWhite(text),
                 pendingSpoken \o SubSeq(safe, safePrefix + 1, Len(safe)), FALSE)
    /\ UNCHANGED finished

\* final.startswith(emitted): the same words and marks, spaced in the same way
StartsWith(final) ==
    /\ IsPrefix(emitted, final)
    /\ \A k \in DOMAIN emitted :
          emitted[k] \in spaced <=> SpaceBefore(rawText, White(rawText), final, k)

\* Mutant of Unspoken: what is pending is what is left.
UnspokenPending(final) == pendingSpoken

\* The speech of the whole answer behind what has been spoken; nothing when
\* that is not where the answer begins.
Unspoken(final) ==
    IF StartsWith(final) THEN SubSeq(final, Len(emitted) + 1, Len(final)) ELSE <<>>

\* finish()
FinishText ==
    /\ ~finished
    /\ finished' = TRUE
    /\ DrainReadyChunks(rawText, White(rawText), Unspoken(ParseSpokenMarkdown(rawText)), TRUE)
    /\ UNCHANGED <<rawText, safePrefix>>

ChunkerNext == Push \/ FinishText

ChunkerSpec == ChunkerInit /\ [][ChunkerNext]_chunkerVars

----------------------------------------------------------------------------
Spoken(i) == \E k \in DOMAIN emitted : emitted[k] = i

\* Nothing is spoken twice or out of order.
NothingTwice == \A k \in 1..(Len(emitted) - 1) : emitted[k] < emitted[k + 1]

\* A fence in a line of the answer: push() leaves out what is behind it,
\* finish() does not, and from there on the two may disagree on what is code.
InlineFence(text, f) ==
    f \in Fences(text) /\ FencesBefore(text, f) % 2 = 0 /\ ~EndsItsLine(text, f)

\* No word of a block is spoken, unless there is a fence in a line before it.
NeverSpeaksCode ==
    \A i \in DOMAIN rawText :
       Spoken(i) /\ InBlock(rawText, i) =>
         Opens(rawText, i) \/ \E f \in DOMAIN rawText : f < i /\ InlineFence(rawText, f)

\* Something has been spoken from behind a fence or the beginning of code:
\* what finish() would put there can no longer be.
SpokePast ==
    \E i, k \in DOMAIN rawText :
       i < k /\ Spoken(k) /\ ~Spoken(i) /\ i \in Fences(rawText) \cup UnfencedCode(rawText)

\* A delta ended behind a mark that ends no sentence, as in "3." and "50":
\* there is a space in what was spoken and none in the answer.
CutInside ==
    \E k \in DOMAIN emitted :
       emitted[k] \in spaced /\ ~SpaceBefore(rawText, SafeWhite(rawText), emitted, k)

\* All of the speech of the answer is spoken, but for what finish() would put
\* in front of something already spoken.  When there was such, or a sentence
\* was cut where it did not end, what has not been spoken by then is lost:
\* the rest of the answer, and nothing else.
SpokenInFull ==
    finished =>
      LET final == ParseSpokenMarkdown(rawText) IN
      \A n \in DOMAIN final :
         LET i == final[n] IN
         \/ Spoken(i)
         \/ ~Outside(rawText, i) /\ \E k \in DOMAIN rawText : i < k /\ Spoken(k)
         \/ /\ CutInside \/ SpokePast
            /\ \A k \in DOMAIN rawText : Spoken(k) => k < i

SpokenText == NothingTwice /\ NeverSpeaksCode /\ SpokenInFull

\* test_streaming_text.py:15: finish() returns what push() has not, so an
\* answer without fences and code is spoken whole.  The code loses its tail when
\* a delta has ended inside a number.
PlainAnswerIsSpokenWhole ==
    finished /\ Are(rawText, {"fence", "code"}) = {} =>
      \A i \in Are(rawText, {"word", "mark"}) : Spoken(i)
=============================================================================
