SPECIFICATION FairPartsSpec
CONSTANTS
  Titles = {a, b}
  LegacyItems = 1
  WindowFactor = 2
  MaxRows = 2
  NoOne = none
  MaxDeaths = 1
  MaxTexts = 3
  MaxTokens = 7
  PieceSize = 2
  MaxBlocks = 7
  QueueSize = 2
  PreRoll = 3
  SpeechStart = 2
  SpeechEnd = 1
  MaxChunks = 4
  Providers = {openai, cerebras}
  DefaultName = openai
  Unset = unset
  Attempts = 3
  Displays = {display1, display2}
  Top = 1
  MaxDelta = 1
CHECK_DEADLOCK FALSE
INVARIANTS
  PartsTypeOK
  StoredWhole
  ListingIsComplete
  SpokenText
  UtteranceIsWhole
  KeyNeverLost
  WindowIsKept
  ControlsSettle
PROPERTIES
  NothingUndone
  ImplementsAnswer
  EndsWhenAsked
