SPECIFICATION Spec
CONSTANTS
  Events = {e1}
  Procs = {p1}
  None = None
  DueLimit = 1
  MaxNow = 2
  Corrections = {"back"}
  MaxCorrections = 1
  MaxCrash = 0
  MaxFault = 0
  MaxSleep = 1
  Live = {p1}
  Periods = {1}
  Unparseable = {}
PROPERTIES NoDoubleFire
