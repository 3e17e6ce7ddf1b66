SPECIFICATION Spec
CONSTANTS
  Events = {e1}
  Procs = {p1, p2}
  None = None
  DueLimit = 1
  MaxNow = 1
  Corrections = {}
  MaxCorrections = 0
  MaxCrash = 0
  MaxFault = 0
  MaxSleep = 1
  Live = {p1}
  Periods = {1}
  Unparseable = {}
PROPERTIES RecoverOnlyOrphans
