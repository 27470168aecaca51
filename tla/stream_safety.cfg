SPECIFICATION Spec
CONSTANTS
  Conns = {c1, c2}
  ChanCap = 2
  MaxReports = 2
  IncludeAlerts = TRUE
INVARIANTS TypeOK AtMostOneStream NeverSilent SleepDelaysNothing AtMostOneReadAfterDelete
PROPERTIES InOrderNoGap
CHECK_DEADLOCK FALSE
