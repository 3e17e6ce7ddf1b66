SPECIFICATION Spec
CONSTANTS
  Sessions = {music}
  Target = 1
  UserVolumes = {2}
  MaxComFaults = 0
  Workers = {w1, w2}
  MaxUtterances = 2
  MaxTurns = 3
  None = none
  MaxCommands = 2
  MaxFires = 1
  Faults = TRUE
  Keyboard = TRUE
SYMMETRY Interchangeable
INVARIANTS TypeOK OneVoice MicHasOneReader CutMeansHeard AtMostMaxCommands OneReportPerUtterance
PROPERTIES BargeInIsNext
