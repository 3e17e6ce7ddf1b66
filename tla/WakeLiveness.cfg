SPECIFICATION FairSpec
CONSTANTS
  Sessions = {music, game}
  Target = 1
  UserVolumes = {0, 2}
  MaxComFaults = 1
  Workers = {w1}
  MaxUtterances = 1
  MaxTurns = 2
  None = none
  MaxCommands = 2
  MaxFires = 1
  Faults = FALSE
  Keyboard = FALSE
INVARIANTS ExactUnlessSpoiled
PROPERTIES StopIsHonoured TurnEnds
