SPECIFICATION Spec
CONSTANTS
  Callers = {a, b}
  Executions = {1, 2}
  None = None
  MaxRuns = 2
  MaxVersion = 3
  MaxRevision = 3
  PageLimit = 1
  MaxFaults = 3
INVARIANTS LogIsReadable PagesAreGapless OldDataIsKept FailureRestores OpenIsNew
PROPERTIES NoLostUpdate WhatEndedStays WritesAreWhole
CHECK_DEADLOCK FALSE
SYMMETRY CallerSymmetry
