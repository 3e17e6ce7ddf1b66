SPECIFICATION Spec
CONSTANTS
  Events = {e1}
  Procs = {p1, p2}
  None = None
  DueLimit = 1
  MaxNow = 1
  Corrections = {}
  MaxCorrections = 0
  MaxCrash = 1
  MaxFault = 1
  MaxSleep = 1
  Live = {p1, p2}
  Periods = {1}
  Unparseable = {}
INVARIANTS TypeOK OneFirerPerEvent FiringIsHeld FiredNotEarly SlotsMoveForward FireCountAccounts
PROPERTIES ImplementsLedger
SYMMETRY Interchangeable
