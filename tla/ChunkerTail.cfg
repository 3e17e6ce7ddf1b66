SPECIFICATION ChunkerSpec
CONSTANTS
  MaxTokens = 6
  PieceSize = 4
CHECK_DEADLOCK FALSE
INVARIANTS
  PlainAnswerIsSpokenWhole
