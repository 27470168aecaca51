------------------------------ MODULE OtelPump ------------------------------
(***************************************************************************)
(* otelpump: load the table that names metrics, then turn each group into  *)
(* one OTLP request and post it (cmd/otelpump/otelpump.go, httpexporter.go *)
(* and the table, cmd/otelpump/redfishToOtel.yaml).                        *)
(*                                                                         *)
(* A row of the table is what the metric ID of a report is exported as; a  *)
(* data point is the value it was made from and the row that named it.     *)
(* Report names are in lower case, as viper and toOTLPMetrics make them.   *)
(***************************************************************************)
EXTENDS Naturals, FiniteSets

CONSTANTS
  Rows,         \* [report, id, name, enum, complete]: the rows of the table
  RepeatedIds,  \* its repeatedMetricIds
  Inputs        \* the groups looked at: [report, stamp, values, events]

NoInput == [report |-> "", stamp |-> "", values |-> {}, events |-> {}]

ASSUME OtelPumpConstants ==
  /\ IsFiniteSet(Rows)
  /\ \A r \in Rows : r.enum \in BOOLEAN /\ r.complete \in BOOLEAN /\ r.report # ""
  /\ \A g \in Inputs : \A v \in g.values : v.reading \in {"number", "word"}
  /\ NoInput \notin Inputs

VARIABLES
  unread,   \* reports of the table readOtelMeta has not come to
  table,    \* idrac2Otel: [key, row]
  opc,      \* where main is
  input,    \* the group convertAndSendOtelMetrics works on
  request,  \* what it exports: scopes of metrics, or log records
  received  \* the request the collector received last, with its group

otelVars == <<unread, table, opc, input, request, received>>

Reports == {r.report : r \in Rows}
NoRequest == [scopes |-> {}, logs |-> {}]

OtelInit ==
  /\ unread = Reports /\ table = {} /\ opc = "load"
  /\ input = NoInput /\ request = NoRequest /\ received = {}

-----------------------------------------------------------------------------
\* Mutation: repeated metric IDs are not kept apart.
KeyPlain(r) == [report |-> "", id |-> r.id]

\* A repeated metric ID is prefixed with its report.
Key(r) == [report |-> IF r.id \in RepeatedIds THEN r.report ELSE "", id |-> r.id]

\* readOtelMeta, report by report in the order of a Go map; a row without a name,
\* a type or a metric ID is skipped, a key that is there is overwritten.  Which of
\* a report's rows for one key comes last is left open.
ReadReport(report) ==
  /\ opc = "load" /\ report \in unread
  /\ LET rows == {r \in Rows : r.report = report /\ r.complete}
         keys == {Key(r) : r \in rows}
     IN  \E row \in [keys -> rows] :
           /\ \A k \in keys : Key(row[k]) = k
           /\ table' = {e \in table : e.key \notin keys}
                         \cup {[key |-> k, row |-> row[k]] : k \in keys}
  /\ unread' = unread \ {report}
  /\ opc' = IF unread' = {} THEN "take" ELSE "load"
  /\ UNCHANGED <<input, request, received>>

-----------------------------------------------------------------------------
Parses(stamp) == stamp = "rfc3339"

\* The plain metric ID first, then the one prefixed with the group's report.
Named(g, id) ==
  LET plain == {e.row : e \in {x \in table : x.key = [report |-> "", id |-> id]}}
  IN  IF plain # {} THEN plain
      ELSE {e.row : e \in {x \in table : x.key = [report |-> g.report, id |-> id]}}

\* groupMetricsByFQDDAndMetricId
Grouped(g) == {v \in g.values : Parses(v.stamp)}

FQDDs(g) == {v.fqdd : v \in Grouped(g)}
Under(g, f) == {v \in Grouped(g) : v.fqdd = f}

\* A number is a data point as it is, a word if the row has a mapping for it: a word
\* missing from a mapping and a row without one come to the same, and so do a metric
\* without points and no metric.  If the group's own timestamp does not parse there
\* are no points.
Points(g, f) ==
  {p \in [value : Under(g, f), row : Rows] :
     /\ Parses(g.stamp) /\ p.row \in Named(g, p.value.id)
     /\ p.value.reading = "number" \/ p.row.enum}

\* The attributes of a scope are those of the metric that comes first in the map,
\* if any has a row.
Attributes(g, f) ==
  LET rows == UNION {Named(g, v.id) : v \in Under(g, f)} IN
  IF Parses(g.stamp) /\ rows # {} THEN {{r} : r \in rows} ELSE {{}}

\* Each FQDD is a scope, one that ends up without metrics too.
toOTLPMetrics(g) ==
  \E attr \in [FQDDs(g) -> UNION {Attributes(g, f) : f \in FQDDs(g)}] :
    /\ \A f \in FQDDs(g) : attr[f] \in Attributes(g, f)
    /\ request' = [logs |-> {}, scopes |->
         {[fqdd |-> f, attributes |-> attr[f], points |-> Points(g, f)] : f \in FQDDs(g)}]

toOTLPLogs(g) == request' = [scopes |-> {}, logs |-> {e \in g.events : Parses(e)}]

\* Values come before events; a request with neither scopes nor records is not sent.
Convert(g) ==
  /\ opc = "take" /\ g.report # "memorymetrics"
  /\ \/ g.values # {} /\ toOTLPMetrics(g)
     \/ g.values = {} /\ g.events # {} /\ toOTLPLogs(g)
  /\ input' = g
  /\ opc' = IF request' = NoRequest THEN "take" ELSE "export"
  /\ UNCHANGED <<unread, table, received>>

\* doHTTP: 200 is success; any other answer, or none, is logged and the group dropped.
Export ==
  /\ opc = "export"
  /\ received' = {[input |-> input, request |-> request]}
  /\ opc' = "take" /\ input' = NoInput /\ request' = NoRequest
  /\ UNCHANGED <<unread, table>>

ExportFails ==
  /\ opc = "export"
  /\ opc' = "take" /\ input' = NoInput /\ request' = NoRequest
  /\ UNCHANGED <<unread, table, received>>

OtelNext ==
  \/ \E r \in Reports : ReadReport(r)
  \/ \E g \in Inputs : Convert(g)
  \/ Export \/ ExportFails

OtelSpec == OtelInit /\ [][OtelNext]_otelVars

-----------------------------------------------------------------------------
OtelTypeOK ==
  /\ unread \subseteq Reports
  /\ \A e, f \in table : e.key = f.key => e = f
  /\ \A e \in table : e.row \in Rows /\ e.key = Key(e.row)
  /\ opc \in {"load", "take", "export"}
  /\ input \in Inputs \cup {NoInput}

\* The rows the table of the file offers for a value: those of the group's own
\* report if the metric ID is a repeated one, of any report otherwise.
Meant(g, v) ==
  {r \in Rows : r.complete /\ r.id = v.id /\ (r.id \in RepeatedIds => r.report = g.report)}

\* Whatever order the maps have, a request holds each value that parses and has a
\* row it can be converted by, once, under its own FQDD, named by a row meant for
\* it, and nothing else.
ExportsWhatIsNamed ==
  \A x \in received : LET g == x.input IN
    \A v \in g.values :
      LET made == {p \in UNION {s.points : s \in x.request.scopes} : p.value = v}
          rows == {r \in Meant(g, v) : v.reading = "number" \/ r.enum}
      IN  /\ Cardinality(made) <= 1
          /\ \A p \in made : /\ p.row \in rows /\ Parses(v.stamp) /\ Parses(g.stamp)
                             /\ \E s \in x.request.scopes : s.fqdd = v.fqdd /\ p \in s.points
          /\ Parses(v.stamp) /\ Parses(g.stamp) /\ rows # {} /\ Cardinality(Meant(g, v)) = 1
             => made # {}

\* What the table says of a metric of a report: if the report has a row for a
\* metric ID, the metric is exported under that row's name.
NamedByOwnReport ==
  \A x \in received : \A s \in x.request.scopes : \A p \in s.points :
    (\E r \in Rows : r.complete /\ r.report = x.input.report /\ r.id = p.value.id)
      => p.row.report = x.input.report

=============================================================================
