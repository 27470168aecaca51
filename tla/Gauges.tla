------------------------------ MODULE Gauges ------------------------------
(***************************************************************************)
(* prometheuspump and victoriapump: every metric value becomes a sample of *)
(* a gauge that is registered when it is first needed                      *)
(* (cmd/prometheuspump/prometheuspump.go, cmd/victoriapump/victoriapump.go *)
(* and, external, the registry of the Prometheus client).                  *)
(*                                                                         *)
(* A context is its text without spaces, whether it had some, and whether  *)
(* it is an FQDD (has a dot); a metric without Dell's properties has an    *)
(* empty context.  Contexts have no other character a metric name cannot   *)
(* have, and none is the bare word "FQDD"; an ID is its text with ".", "-" *)
(* and " " as "_", and whether it had one of them.  A full name is what    *)
(* the parts joined with "_" say: contexts and IDs are such that different *)
(* parts give different names.                                             *)
(***************************************************************************)
EXTENDS Naturals, FiniteSets

CONSTANTS
  Contexts,   \* [text, spaced, fqdd], a subset of what reports have
  MetricIDs,  \* [text, odd]
  Systems,
  MaxValues   \* bound on the values handled

Readings == {"7", "3", "Up", "Degraded"}   \* MetricValue strings

ASSUME GaugesConstants ==
  /\ \A c \in Contexts : c.spaced \in BOOLEAN /\ c.fqdd \in BOOLEAN /\ c.text # "FQDD"
  /\ \A i \in MetricIDs : i.odd \in BOOLEAN
  /\ MaxValues \in Nat

VARIABLES
  program,     \* which of the two pumps it is
  collectors,  \* the gauges it knows: [context, name, gauge] with the two keys of the map
  registry,    \* the gauges registered: [full, labels]
  exported,    \* the samples: [gauge, system, fqdd, number]
  victoria,    \* the samples the last push that succeeded has delivered
  panicked,    \* the process has died in a panic
  handled,     \* counter of the bound
  seen,        \* history: the values handled, without their readings
  latest       \* history: for each metric seen the last value and its number

gaugeVars == <<program, collectors, registry, exported, victoria, panicked, handled, seen, latest>>

GaugesInit ==
  /\ program \in {"prometheuspump", "victoriapump"}
  /\ collectors = {} /\ registry = {} /\ exported = {} /\ victoria = {}
  /\ panicked = FALSE /\ handled = 0 /\ seen = {} /\ latest = {}

-----------------------------------------------------------------------------
\* Key of the outer map.  createOrUpdateGauge takes it before it removes the spaces.
ContextKey(v) ==
  IF v.context.fqdd THEN [text |-> "FQDD", spaced |-> FALSE]
  ELSE [text |-> v.context.text, spaced |-> v.context.spaced /\ program = "victoriapump"]

\* Only victoriapump replaces what a metric name cannot have.
NameKey(v) == IF program = "victoriapump" THEN [text |-> v.id.text, odd |-> FALSE] ELSE v.id

\* Namespace "PowerEdge", then the subsystem and the name, of which empty ones vanish:
\* victoriapump prefixes the name of an FQDD's metric with "PowerEdge_" as well.
FullName(v) ==
  [subsystem |-> CASE ~v.context.fqdd -> v.context.text
                   [] v.context.fqdd /\ program = "victoriapump" -> "PowerEdge"
                   [] OTHER -> "",
   name |-> NameKey(v)]

Labels(v) == {"ServiceTag", "HostName"} \cup IF v.context.fqdd THEN {"FQDD"} ELSE {}
Gauge(v) == [full |-> FullName(v), labels |-> Labels(v)]

\* ParseFloat; words count in prometheuspump for FQDDs only.
Number(v, reading) ==
  CASE reading = "7" -> 7
    [] reading = "3" -> 3
    [] reading = "Up" /\ (v.context.fqdd \/ program = "victoriapump") -> 1
    [] OTHER -> 0

KnownAs(v) == {c \in collectors : c.context = ContextKey(v) /\ c.name = NameKey(v)}

\* The labels of a sample: the context is one only for an FQDD.
Series(g, v) ==
  [gauge |-> g, system |-> v.system, fqdd |-> IF v.context.fqdd THEN v.context.text ELSE ""]
Set(g, v, n) ==
  {s \in exported : s.series # Series(g, v)} \cup {[series |-> Series(g, v), number |-> n]}

\* Two values whose contexts differ at most in spaces: one metric for the user.
SameMetric(v, w) ==
  /\ v.system = w.system /\ v.context.text = w.context.text
  /\ v.context.fqdd = w.context.fqdd /\ NameKey(v) = NameKey(w)

Note(v, n) ==
  /\ handled < MaxValues /\ handled' = handled + 1
  /\ seen' = seen \cup {v}
  /\ latest' = {l \in latest : ~SameMetric(l.value, v)} \cup {[value |-> v, number |-> n]}

\* Mutation: an existing gauge keeps the sample it was created with.
UpdateGaugeOnce(v, reading) ==
  /\ \E c \in KnownAs(v) : c.gauge.labels = Labels(v)
  /\ Note(v, Number(v, reading))
  /\ UNCHANGED <<program, collectors, registry, victoria, panicked, exported>>

UpdateGauge(v, reading) ==
  /\ \E c \in KnownAs(v) :
       /\ c.gauge.labels = Labels(v)
       /\ exported' = Set(c.gauge, v, Number(v, reading))
  /\ Note(v, Number(v, reading))
  /\ UNCHANGED <<program, collectors, registry, victoria, panicked>>

Registrable(v) == ~FullName(v).name.odd /\ \A g \in registry : g.full # FullName(v)

CreateGauge(v, reading) ==
  /\ KnownAs(v) = {} /\ Registrable(v)
  /\ registry' = registry \cup {Gauge(v)}
  /\ collectors' = collectors \cup {[context |-> ContextKey(v), name |-> NameKey(v), gauge |-> Gauge(v)]}
  /\ exported' = Set(Gauge(v), v, Number(v, reading))
  /\ Note(v, Number(v, reading))
  /\ UNCHANGED <<program, victoria, panicked>>

\* MustRegister on a name that is taken or not a name, WithLabelValues with
\* another number of labels than the gauge's.
Panic(v, reading) ==
  /\ IF KnownAs(v) = {} THEN ~Registrable(v)
     ELSE \E c \in KnownAs(v) : c.gauge.labels # Labels(v)
  /\ panicked' = TRUE
  /\ Note(v, Number(v, reading))
  /\ UNCHANGED <<program, collectors, registry, exported, victoria>>

\* After each group, here after any value: everything gathered is posted.  An error is
\* only logged, so a push that fails is one that does not happen; one that hangs, as
\* the client has no timeout, is a pump that stops.
pushToVictoriaMetrics ==
  /\ program = "victoriapump" /\ victoria # exported
  /\ victoria' = exported
  /\ UNCHANGED <<program, collectors, registry, exported, panicked, handled, seen, latest>>

Values == [context : Contexts, id : MetricIDs, system : Systems]

GaugesNext ==
  /\ ~panicked
  /\ \/ pushToVictoriaMetrics
     \/ \E v \in Values, r \in Readings : UpdateGauge(v, r) \/ CreateGauge(v, r) \/ Panic(v, r)

GaugesSpec == GaugesInit /\ [][GaugesNext]_gaugeVars

-----------------------------------------------------------------------------
GaugesTypeOK ==
  /\ program \in {"prometheuspump", "victoriapump"}
  /\ \A c, d \in collectors : c.context = d.context /\ c.name = d.name => c = d
  /\ {c.gauge : c \in collectors} = registry
  /\ panicked \in BOOLEAN /\ handled \in 0..MaxValues
  /\ seen \subseteq Values /\ {l.value : l \in latest} \subseteq seen

\* As long as the pump runs, the sample exported for a metric is the last reading
\* of it and of nothing else.  It dies only if a name is no metric name or two
\* values need one full name under different keys of the map, as in victoriapump a
\* context with spaces and without, and in prometheuspump an ID with an FQDD and
\* without any context.
LatestOrClash ==
  IF panicked
  THEN \E v, w \in seen : \/ FullName(v).name.odd
                          \/ FullName(v) = FullName(w) /\ ContextKey(v) # ContextKey(w)
  ELSE \A v \in seen, l \in latest : SameMetric(l.value, v) =>
         {s.number : s \in {x \in exported : x.series = Series(Gauge(v), v)}} = {l.number}

=============================================================================
