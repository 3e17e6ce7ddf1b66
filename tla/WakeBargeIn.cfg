SPECIFICATION FairSpec
CONSTANTS
  Sessions = {music}
  Target = 1
  UserVolumes = {2}
  MaxComFaults = 0
  Workers = {w1}
  MaxUtterances = 1
  MaxTurns = 3
  None = none
  MaxCommands = 2
  MaxFires = 1
  Faults = FALSE
  Keyboard = FALSE
PROPERTIES CommandIsQueued
