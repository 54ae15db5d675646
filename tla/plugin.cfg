SPECIFICATION Spec
CONSTANTS
  None = None
  role = role  child = child  grandchild = grandchild  NoOne = NoOne
  Sessions = {s1, s2}
  BufferMax = 1
  PendingMax = 1
  MaxDispatches = 2
  MaxEpochs = 2
  MaxAttempts = 2
  Family = {role, child, grandchild}
  Root = role
  Parent <- ParentDef
  Members = {role}
  MaxGens = 3
  MaxTurns = 2
  MaxJobs = 1
  Scopes = {"worker", "judge"}
  MaxEnsures = 4
SYMMETRY SessionSymmetry
INVARIANTS BlocksOnOwnEpoch FailureIsNotMissed NothingLeftBehind LateAgentsAreReleased UnrelatedAreReleased BookedIsMountable NothingStaysRegistered
PROPERTIES SafeIsQuiet
CHECK_DEADLOCK FALSE
