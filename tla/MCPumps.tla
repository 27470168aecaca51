------------------------------ MODULE MCPumps ------------------------------
(***************************************************************************)
(* The pumps in one run.  They share nothing but the data bus: a behaviour *)
(* is of one of them, the others stay in an initial state.                 *)
(***************************************************************************)
EXTENDS KafkaPump, Gauges, OtelPump

VARIABLE pump

\* The broker's address comes from the environment, the topics, one of them with a "/",
\* and the certificate from configui.
MCSettings ==
  [broker |-> {"host:port"}, topic |-> {"", "t", "x/y"}, alertTopic |-> {"", "x/y"},
   partition |-> {"1"}, cert |-> {"", "unreadable"}]
MCEnvSettings ==
  [broker |-> "host:port", topic |-> "", alertTopic |-> "", partition |-> "1", cert |-> ""]
MCTopicName == [t \in {"", "t", "x/y"} |-> IF t = "x/y" THEN "x_y" ELSE t]
MCContents ==
  {[values |-> {"+0000", "other"}, events |-> {"rfc3339"}],
   [values |-> {}, events |-> {"rfc3339", "other"}],
   [values |-> {"other"}, events |-> {}]}

MCContexts ==
  {[text |-> "", spaced |-> FALSE, fqdd |-> FALSE],
   [text |-> "CPU.1", spaced |-> FALSE, fqdd |-> TRUE],
   [text |-> "SystemUsage", spaced |-> TRUE, fqdd |-> FALSE],
   [text |-> "SystemUsage", spaced |-> FALSE, fqdd |-> FALSE]}
MCMetricIDs ==
  {[text |-> "Power_Control", odd |-> TRUE], [text |-> "Power_Control", odd |-> FALSE]}

Row(report, id, enum, complete) ==
  [report |-> report, id |-> id, name |-> <<report, id>>, enum |-> enum, complete |-> complete]

\* A table whose repeated metric IDs are listed, ...
ListedRows ==
  {Row("cpusensor", "TemperatureReading", FALSE, TRUE),
   Row("fansensor", "TemperatureReading", TRUE, TRUE),
   Row("fansensor", "RPMReading", FALSE, TRUE),
   Row("nicstatistics", "LinkStatus", TRUE, TRUE),
   Row("nicstatistics", "RxBytes", FALSE, FALSE)}

\* ... and a part of redfishToOtel.yaml, in which some are not.
ShippedRows ==
  {Row("cpusensor", "TemperatureReading", FALSE, TRUE),
   Row("cpusensor", "LowerThresholdCritical", FALSE, TRUE),
   Row("fansensor", "LowerThresholdCritical", FALSE, TRUE),
   Row("fansensor", "RPMReading", FALSE, TRUE)}

Value(fqdd, id, reading, stamp) == [fqdd |-> fqdd, id |-> id, reading |-> reading, stamp |-> stamp]

MCInputs ==
  LET values ==
        {{}, {Value("Fan.1", "RPMReading", "number", "rfc3339"),
              Value("Fan.1", "TemperatureReading", "word", "rfc3339"),
              Value("Fan.2", "TemperatureReading", "number", "rfc3339")},
         {Value("Fan.1", "LowerThresholdCritical", "number", "rfc3339"),
          Value("Fan.1", "RPMReading", "number", "+0000")},
         {Value("Fan.2", "RPMReading", "word", "rfc3339"),
          Value("Fan.2", "LinkStatus", "word", "rfc3339")},
         {Value("Fan.2", "RxBytes", "number", "rfc3339")}}
  IN  [report : {"cpusensor", "fansensor", "memorymetrics"}, stamp : {"rfc3339", "other"},
       values : values, events : {{}, {"rfc3339"}, {"rfc3339", "other"}, {"other"}}]

MCInit ==
  /\ pump \in {"kafkapump", "gauges", "otelpump"}
  /\ KafkaInit /\ OtelInit
  /\ GaugesInit /\ (pump # "gauges" => program = "prometheuspump")

MCNext ==
  /\ UNCHANGED pump
  /\ \/ pump = "kafkapump" /\ KafkaNext /\ UNCHANGED <<gaugeVars, otelVars>>
     \/ pump = "gauges" /\ GaugesNext /\ UNCHANGED <<kafkaVars, otelVars>>
     \/ pump = "otelpump" /\ OtelNext /\ UNCHANGED <<kafkaVars, gaugeVars>>

MCSpec == MCInit /\ [][MCNext]_<<kafkaVars, gaugeVars, otelVars, pump>>

MCTypeOK == KafkaTypeOK /\ GaugesTypeOK /\ OtelTypeOK

=============================================================================
