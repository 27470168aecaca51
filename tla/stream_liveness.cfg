SPECIFICATION FairSpec
CONSTANTS
  Conns = {c1, c2}
  ChanCap = 1
  MaxReports = 2
  IncludeAlerts = FALSE
PROPERTIES EveryReadReportForwarded EveryErrorRetried DeletedDeviceStops
CHECK_DEADLOCK FALSE
