SPECIFICATION FairSpec
CONSTANTS
  Events = {e1, e2}
  Procs = {p1}
  None = None
  DueLimit = 1
  MaxNow = 1
  Corrections = {"back", "forward"}
  MaxCorrections = 1
  MaxCrash = 0
  MaxFault = 0
  MaxSleep = 1
  Live = {p1}
  Periods = {1}
  Unparseable = {e2}
INVARIANTS NoOversleep
PROPERTIES DueIsServed FiringEnds
