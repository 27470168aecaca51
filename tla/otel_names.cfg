SPECIFICATION MCSpec
CONSTANTS
  Settings <- MCSettings
  EnvSettings <- MCEnvSettings
  TopicName <- MCTopicName
  Contents <- MCContents
  ChannelSize = 1
  MaxGroups = 2
  MaxFaults = 2
  Contexts <- MCContexts
  MetricIDs <- MCMetricIDs
  Systems = {s1}
  MaxValues = 3
  Rows <- ShippedRows
  RepeatedIds = {"TemperatureReading"}
  Inputs <- MCInputs
INVARIANT NamedByOwnReport
CHECK_DEADLOCK FALSE
