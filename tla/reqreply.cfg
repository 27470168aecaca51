SPECIFICATION FairSpec
CONSTANTS
  Calls = {a, b, c}
  None = none
  MaxCrashes = 2
INVARIANTS TypeOK NothingLeftBehind
PROPERTIES DropsOnlyLateReplies KeepsPromise EveryCallEnds
CHECK_DEADLOCK FALSE
