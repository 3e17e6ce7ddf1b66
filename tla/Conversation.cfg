SPECIFICATION ConvSpec
CONSTANTS
  NTurns = 2
  MaxRounds = 2
  LateSteps = 1
  None = None
CHECK_DEADLOCK FALSE
INVARIANTS ConvTypeOK OneConversation KeepsWhatWasSaid ForgetsAtMostOne
PROPERTIES IdleCompacts ImplementsMemory
