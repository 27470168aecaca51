SPECIFICATION Spec
CONSTANTS
  Handlers = {h1, h2}
  Props = {"kafkaBroker", "kafkaAlertTopic", "otelCollector", "splunkURL"}
  Unset = unset
  MaxCrashes = 1
  MaxBusErrors = 1
INVARIANTS TypeOK OwnAnswersWhenAlone OnlyIntendedValues
PROPERTIES LoneHandlerEnds
CHECK_DEADLOCK FALSE
