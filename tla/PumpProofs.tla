----------------------------- MODULE PumpProofs -----------------------------
(***************************************************************************)
(* Proofs about the pumps that turn values into metrics: otelpump, for any *)
(* table of names and any groups, and prometheuspump and victoriapump, for *)
(* any contexts, metric IDs and number of values; and that MCPumps runs    *)
(* these and kafkapump each by itself.                                     *)
(***************************************************************************)
EXTENDS MCPumps, KafkaPumpProofs

-----------------------------------------------------------------------------
\* otelpump

\* The table holds at most one complete row per key, and one for every key of the
\* reports read; groups are taken when all are read.
TableInv ==
  /\ unread \subseteq Reports
  /\ opc # "load" => unread = {}
  /\ \A e, f \in table : e.key = f.key => e = f
  /\ \A e \in table : e.row \in Rows /\ e.row.complete /\ e.key = Key(e.row)
  /\ \A r \in Rows : r.complete /\ r.report \notin unread => \E e \in table : e.key = Key(r)

\* The points of all scopes of a request made from one value.
Made(request_, v) == {p \in UNION {s.points : s \in request_.scopes} : p.value = v}

\* The rows meant for a value that can convert it.
Convertible(g, v) == {r \in Meant(g, v) : v.reading = "number" \/ r.enum}

\* What ExportsWhatIsNamed says of one request made from a group.
Faithful(g, request_) ==
  \A v \in g.values :
    /\ Cardinality(Made(request_, v)) <= 1
    /\ \A p \in Made(request_, v) :
         /\ p.row \in Convertible(g, v) /\ Parses(v.stamp) /\ Parses(g.stamp)
         /\ \E s \in request_.scopes : s.fqdd = v.fqdd /\ p \in s.points
    /\ Parses(v.stamp) /\ Parses(g.stamp) /\ Convertible(g, v) # {} /\ Cardinality(Meant(g, v)) = 1
       => Made(request_, v) # {}

OtelInv ==
  /\ TableInv
  /\ opc \in {"load", "take", "export"}
  /\ input \in Inputs \cup {NoInput}
  /\ \A g, q : opc = "export" /\ input = g /\ request = q => g \in Inputs /\ Faithful(g, q)
  /\ \A x \in received : Faithful(x.input, x.request)

\* The rows found for a metric ID are meant for it, and there is at most one.
LEMMA NamedIsMeant ==
  ASSUME TableInv, NEW g, NEW v
  PROVE  /\ Named(g, v.id) \subseteq Meant(g, v)
         /\ \A r, q \in Named(g, v.id) : r = q
<1> DEFINE plainKey == [report |-> "", id |-> v.id]
           ownKey == [report |-> g.report, id |-> v.id]
           At(k) == {e.row : e \in {x \in table : x.key = k}}
<1>1. Named(g, v.id) = At(plainKey) \/ Named(g, v.id) = At(ownKey)
  BY DEF Named
<1>2. At(plainKey) \subseteq Meant(g, v)
  <2> SUFFICES ASSUME NEW e \in table, e.key = plainKey PROVE e.row \in Meant(g, v)
    OBVIOUS
  <2>1. e.row \in Rows /\ e.row.complete /\ Key(e.row) = plainKey /\ e.row.report # ""
    BY OtelPumpConstants DEF TableInv
  <2>2. e.row.id = v.id /\ e.row.id \notin RepeatedIds
    BY <2>1 DEF Key
  <2> QED
    BY <2>1, <2>2 DEF Meant
<1>3. At(ownKey) \subseteq Meant(g, v)
  <2> SUFFICES ASSUME NEW e \in table, e.key = ownKey PROVE e.row \in Meant(g, v)
    OBVIOUS
  <2>1. e.row \in Rows /\ e.row.complete /\ Key(e.row) = ownKey
    BY DEF TableInv
  <2>2. e.row.id = v.id /\ (e.row.id \in RepeatedIds => e.row.report = g.report)
    BY <2>1 DEF Key
  <2> QED
    BY <2>1, <2>2 DEF Meant
<1>4. \A k : \A r, q \in At(k) : r = q
  BY DEF TableInv
<1> HIDE DEF At, plainKey, ownKey
<1>5. CASE Named(g, v.id) = At(plainKey)
  BY <1>2, <1>4, <1>5
<1>6. CASE Named(g, v.id) = At(ownKey)
  BY <1>3, <1>4, <1>6
<1> QED
  BY <1>1, <1>5, <1>6

\* With the whole table read, the only row meant for a value is found for it.
LEMMA OnlyRowIsNamed ==
  ASSUME TableInv, unread = {}, NEW g, NEW v, Cardinality(Meant(g, v)) = 1
  PROVE  Meant(g, v) \subseteq Named(g, v.id)
<1>1. IsFiniteSet(Meant(g, v))
  BY OtelPumpConstants, FS_Subset, Meant(g, v) \subseteq Rows DEF Meant
<1>2. PICK r : Meant(g, v) = {r}
  BY <1>1, FS_Singleton
<1>3. /\ r \in Rows /\ r.complete /\ r.id = v.id /\ r.report # ""
      /\ r.id \in RepeatedIds => r.report = g.report
  BY <1>2, OtelPumpConstants DEF Meant
<1>4. PICK e \in table : e.key = Key(r)
  BY <1>3 DEF TableInv
<1>5. e.row \in Rows /\ e.row.complete /\ Key(e.row) = Key(r) /\ e.row.report # ""
  BY <1>4, OtelPumpConstants DEF TableInv
<1>6. e.row.id = v.id /\ (e.row.id \in RepeatedIds => e.row.report = g.report)
  BY <1>3, <1>5 DEF Key
<1>7. e.row = r
  BY <1>2, <1>5, <1>6 DEF Meant
<1>8. CASE r.id \in RepeatedIds
  <2>1. e.key = [report |-> g.report, id |-> v.id]
    BY <1>3, <1>4, <1>8 DEF Key
  <2>2. {x \in table : x.key = [report |-> "", id |-> v.id]} = {}
    <3> SUFFICES ASSUME NEW x \in table, x.key = [report |-> "", id |-> v.id] PROVE FALSE
      OBVIOUS
    <3>1. x.row \in Rows /\ Key(x.row) = [report |-> "", id |-> v.id] /\ x.row.report # ""
      BY OtelPumpConstants DEF TableInv
    <3>2. x.row.id = v.id
      BY <3>1 DEF Key
    <3> QED
      BY <1>3, <1>8, <3>1, <3>2 DEF Key
  <2> QED
    BY <1>2, <1>7, <2>1, <2>2 DEF Named
<1>9. CASE r.id \notin RepeatedIds
  <2>1. e.key = [report |-> "", id |-> v.id]
    BY <1>3, <1>4, <1>9 DEF Key
  <2> QED
    BY <1>2, <1>7, <2>1 DEF Named
<1> QED
  BY <1>8, <1>9

\* The request toOTLPMetrics makes of a group is what ExportsWhatIsNamed asks for.
LEMMA MetricsFaithful ==
  ASSUME TableInv, unread = {}, NEW g, toOTLPMetrics(g)
  PROVE  Faithful(g, request')
<1> SUFFICES ASSUME NEW v \in g.values
             PROVE  /\ Cardinality(Made(request', v)) <= 1
                    /\ \A p \in Made(request', v) :
                         /\ p.row \in Convertible(g, v) /\ Parses(v.stamp) /\ Parses(g.stamp)
                         /\ \E s \in request'.scopes : s.fqdd = v.fqdd /\ p \in s.points
                    /\ /\ Parses(v.stamp) /\ Parses(g.stamp)
                       /\ Convertible(g, v) # {} /\ Cardinality(Meant(g, v)) = 1
                       => Made(request', v) # {}
  BY DEF Faithful
<1>1. PICK attr : request'.scopes =
        {[fqdd |-> f, attributes |-> attr[f], points |-> Points(g, f)] : f \in FQDDs(g)}
  BY DEF toOTLPMetrics
<1>2. ASSUME NEW p \in Made(request', v)
      PROVE  /\ v \in Grouped(g) /\ Parses(g.stamp) /\ p = [value |-> v, row |-> p.row]
             /\ p.row \in Rows /\ p.row \in Named(g, v.id) /\ (v.reading = "number" \/ p.row.enum)
             /\ p \in Points(g, v.fqdd)
  <2>1. PICK f \in FQDDs(g) : p \in Points(g, f) /\ p.value = v
    BY <1>1 DEF Made
  <2>2. /\ p \in [value : Under(g, f), row : Rows] /\ Parses(g.stamp)
        /\ p.row \in Named(g, p.value.id) /\ (p.value.reading = "number" \/ p.row.enum)
    BY <2>1 DEF Points
  <2> QED
    BY <2>1, <2>2 DEF Under
<1>3. \A p, q \in Made(request', v) : p = q
  <2> SUFFICES ASSUME NEW p \in Made(request', v), NEW q \in Made(request', v) PROVE p = q
    OBVIOUS
  <2>1. p = [value |-> v, row |-> p.row] /\ q = [value |-> v, row |-> q.row]
    BY <1>2
  <2>2. p.row = q.row
    BY <1>2, NamedIsMeant
  <2> QED
    BY <2>1, <2>2
<1>4. Cardinality(Made(request', v)) <= 1
  <2>1. CASE Made(request', v) = {}
    BY <2>1, FS_EmptySet
  <2>2. CASE Made(request', v) # {}
    <3>1. PICK p : Made(request', v) = {p}
      BY <1>3, <2>2
    <3>2. Cardinality(Made(request', v)) = 1
      BY <3>1, FS_Singleton
    <3> QED
      BY <3>2
  <2> QED
    BY <2>1, <2>2
<1>5. ASSUME NEW p \in Made(request', v)
      PROVE  /\ p.row \in Convertible(g, v) /\ Parses(v.stamp) /\ Parses(g.stamp)
             /\ \E s \in request'.scopes : s.fqdd = v.fqdd /\ p \in s.points
  <2>1. p.row \in Convertible(g, v)
    BY <1>2, NamedIsMeant DEF Convertible
  <2>2. Parses(v.stamp) /\ Parses(g.stamp) /\ v.fqdd \in FQDDs(g)
    BY <1>2 DEF Grouped, FQDDs
  <2>3. \E s \in request'.scopes : s.fqdd = v.fqdd /\ p \in s.points
    <3> DEFINE s == [fqdd |-> v.fqdd, attributes |-> attr[v.fqdd], points |-> Points(g, v.fqdd)]
    <3>1. s \in request'.scopes
      BY <1>1, <2>2
    <3>2. s.fqdd = v.fqdd /\ p \in s.points
      BY <1>2
    <3> QED
      BY <3>1, <3>2
  <2> QED
    BY <2>1, <2>2, <2>3
<1>6. ASSUME Parses(v.stamp), Parses(g.stamp), Convertible(g, v) # {}, Cardinality(Meant(g, v)) = 1
      PROVE  Made(request', v) # {}
  <2>1. PICK r \in Convertible(g, v) : TRUE
    BY <1>6
  <2>2. r \in Rows /\ r \in Named(g, v.id) /\ (v.reading = "number" \/ r.enum)
    BY <1>6, OnlyRowIsNamed DEF Convertible, Meant
  <2>3. v \in Under(g, v.fqdd) /\ v.fqdd \in FQDDs(g)
    BY <1>6 DEF Under, Grouped, FQDDs
  <2>4. [value |-> v, row |-> r] \in Points(g, v.fqdd)
    BY <1>6, <2>2, <2>3 DEF Points
  <2> DEFINE s == [fqdd |-> v.fqdd, attributes |-> attr[v.fqdd], points |-> Points(g, v.fqdd)]
  <2>5. s \in request'.scopes
    BY <1>1, <2>3
  <2>6. [value |-> v, row |-> r] \in UNION {t.points : t \in request'.scopes}
    BY <2>4, <2>5
  <2> QED
    BY <2>6 DEF Made
<1> QED
  BY <1>4, <1>5, <1>6

\* A request for events alone has no values to convert.
LEMMA LogsFaithful ==
  ASSUME NEW g, g.values = {}
  PROVE  Faithful(g, request')
BY DEF Faithful

\* Reading a report keeps one row per key, whichever comes last.
LEMMA ReadKeepsTable ==
  ASSUME TableInv, NEW report \in Reports, ReadReport(report)
  PROVE  TableInv'
<1> DEFINE rows == {r \in Rows : r.report = report /\ r.complete}
           keys == {Key(r) : r \in rows}
<1>1. PICK row \in [keys -> rows] :
        /\ \A k \in keys : Key(row[k]) = k
        /\ table' = {e \in table : e.key \notin keys} \cup {[key |-> k, row |-> row[k]] : k \in keys}
  BY DEF ReadReport
<1>2. unread' = unread \ {report} /\ (opc' # "load" => unread' = {})
  BY DEF ReadReport
<1>3. ASSUME NEW e \in table'
      PROVE  \/ e \in table /\ e.key \notin keys
             \/ e.key \in keys /\ e = [key |-> e.key, row |-> row[e.key]] /\ row[e.key] \in rows
                /\ Key(row[e.key]) = e.key
  BY <1>1
<1>4. \A e, f \in table' : e.key = f.key => e = f
  BY <1>3 DEF TableInv
<1>5. \A e \in table' : e.row \in Rows /\ e.row.complete /\ e.key = Key(e.row)
  <2> SUFFICES ASSUME NEW e \in table' PROVE e.row \in Rows /\ e.row.complete /\ e.key = Key(e.row)
    OBVIOUS
  <2>1. CASE e \in table
    BY <2>1 DEF TableInv
  <2>2. CASE e.key \in keys /\ e = [key |-> e.key, row |-> row[e.key]] /\ row[e.key] \in rows
              /\ Key(row[e.key]) = e.key
    BY <2>2
  <2> QED
    BY <1>3, <2>1, <2>2
<1>6. \A r \in Rows : r.complete /\ r.report \notin unread' => \E e \in table' : e.key = Key(r)
  <2> SUFFICES ASSUME NEW r \in Rows, r.complete, r.report \notin unread'
               PROVE  \E e \in table' : e.key = Key(r)
    OBVIOUS
  <2>1. CASE Key(r) \in keys
    <3> DEFINE e == [key |-> Key(r), row |-> row[Key(r)]]
    <3>1. e \in table'
      BY <1>1, <2>1
    <3> QED
      BY <3>1
  <2>2. CASE Key(r) \notin keys
    <3>1. r.report # report
      BY <2>2
    <3>2. PICK e \in table : e.key = Key(r)
      BY <1>2, <3>1 DEF TableInv
    <3> QED
      BY <1>1, <2>2, <3>2
  <2> QED
    BY <2>1, <2>2
<1> QED
  BY <1>2, <1>4, <1>5, <1>6, unread' \subseteq Reports DEF TableInv, Key, Reports

\* Every step of otelpump keeps its invariant.
LEMMA OtelStep ==
  ASSUME OtelInv, [OtelNext]_otelVars
  PROVE  OtelInv'
<1> USE DEF OtelInv
<1>1. CASE \E r \in Reports : ReadReport(r)
  <2> PICK r \in Reports : ReadReport(r)
    BY <1>1
  <2>1. TableInv'
    BY ReadKeepsTable
  <2>2. opc = "load" /\ opc' \in {"load", "take"} /\ UNCHANGED <<input, request, received>>
    BY DEF ReadReport
  <2> QED
    BY <2>1, <2>2
<1>2. CASE \E g \in Inputs : Convert(g)
  <2> PICK g \in Inputs : Convert(g)
    BY <1>2
  <2>1. /\ opc = "take" /\ opc' \in {"take", "export"} /\ input' = g
        /\ UNCHANGED <<unread, table, received>>
    BY DEF Convert
  <2>2. TableInv'
    BY <2>1 DEF TableInv, Key, Reports
  <2>3. Faithful(g, request')
    <3>1. unread = {}
      BY <2>1 DEF TableInv
    <3> QED
      BY <3>1, MetricsFaithful, LogsFaithful DEF Convert
  <2> QED
    BY <2>1, <2>2, <2>3
<1>3. CASE Export \/ ExportFails
  <2>1. /\ opc = "export" /\ opc' = "take" /\ input' = NoInput /\ UNCHANGED <<unread, table>>
        /\ \A x \in received' : x \in received \/ x = [input |-> input, request |-> request]
    BY <1>3 DEF Export, ExportFails
  <2>2. TableInv'
    BY <2>1 DEF TableInv, Key, Reports
  <2>3. \A x \in received' : Faithful(x.input, x.request)
    BY <2>1
  <2> QED
    BY <2>1, <2>2, <2>3
<1>4. CASE UNCHANGED otelVars
  <2>1. UNCHANGED <<unread, table, opc, input, request, received>>
    BY <1>4 DEF otelVars
  <2>2. TableInv'
    BY <2>1 DEF TableInv, Key, Reports
  <2> QED
    BY <2>1, <2>2
<1> QED
  BY <1>1, <1>2, <1>3, <1>4 DEF OtelNext

\* The inductive invariant of otelpump.
THEOREM OtelInvariant == OtelSpec => []OtelInv
<1>1. OtelInit => OtelInv
  BY DEF OtelInit, OtelInv, TableInv, Reports
<1> QED
  BY <1>1, OtelStep, PTL DEF OtelSpec

\* For every table and group, whatever order the maps have: each value that parses
\* and has a row it can be converted by is in the request once, under its own FQDD,
\* named by a row meant for it, and nothing else is.
THEOREM OtelExportsWhatIsNamed == OtelSpec => []ExportsWhatIsNamed
<1>1. OtelInv => ExportsWhatIsNamed
  <2> SUFFICES ASSUME OtelInv, NEW x \in received, NEW v \in x.input.values
               PROVE  LET g == x.input
                          made == {p \in UNION {s.points : s \in x.request.scopes} : p.value = v}
                          rows == {r \in Meant(g, v) : v.reading = "number" \/ r.enum}
                      IN  /\ Cardinality(made) <= 1
                          /\ \A p \in made :
                               /\ p.row \in rows /\ Parses(v.stamp) /\ Parses(g.stamp)
                               /\ \E s \in x.request.scopes : s.fqdd = v.fqdd /\ p \in s.points
                          /\ /\ Parses(v.stamp) /\ Parses(g.stamp) /\ rows # {}
                             /\ Cardinality(Meant(g, v)) = 1
                             => made # {}
    BY DEF ExportsWhatIsNamed
  <2>1. Faithful(x.input, x.request)
    BY DEF OtelInv
  <2> QED
    BY <2>1 DEF Faithful, Made, Convertible
<1> QED
  BY <1>1, OtelInvariant, PTL

\* otelpump's variables have their types: the table has one row per key.
THEOREM OtelTypeCorrect == OtelSpec => []OtelTypeOK
<1>1. OtelInv => OtelTypeOK
  BY DEF OtelInv, TableInv, OtelTypeOK
<1> QED
  BY <1>1, OtelInvariant, PTL

-----------------------------------------------------------------------------
\* prometheuspump and victoriapump

\* What the collectors hold for a value whose gauge has been created for it.
Entry(v) == [context |-> ContextKey(v), name |-> NameKey(v), gauge |-> Gauge(v)]

Samples(v) == {s.number : s \in {x \in exported : x.series = Series(Gauge(v), v)}}

\* Every gauge was created for a value seen, ...
Origins == \A c \in collectors : \E w \in seen : c = Entry(w)

\* ... and while the pump runs, every value seen has the gauge it needs, ...
Known == \A v \in seen : Entry(v) \in collectors

\* ... which has the last reading of its metric.
Current == \A v \in seen, l \in latest : SameMetric(l.value, v) => Samples(v) = {l.number}

\* A value whose name cannot be registered, or two that need one name under two keys.
Clash(v, w) ==
  \/ FullName(v).name.odd
  \/ FullName(v) = FullName(w) /\ ContextKey(v) # ContextKey(w)

GaugesInv ==
  /\ GaugesTypeOK /\ Origins
  /\ panicked => \E v, w \in seen : Clash(v, w)
  /\ ~panicked => Known /\ Current

\* The keys and names of a value depend on the program alone.
LEMMA SameProgram ==
  ASSUME program' = program, NEW v, NEW w
  PROVE  /\ ContextKey(v)' = ContextKey(v) /\ NameKey(v)' = NameKey(v)
         /\ FullName(v)' = FullName(v) /\ Gauge(v)' = Gauge(v) /\ Entry(v)' = Entry(v)
         /\ SameMetric(v, w)' = SameMetric(v, w) /\ Clash(v, w)' = Clash(v, w)
<1>1. ContextKey(v)' = ContextKey(v) /\ ContextKey(w)' = ContextKey(w)
  BY DEF ContextKey
<1>2. NameKey(v)' = NameKey(v) /\ NameKey(w)' = NameKey(w)
  BY DEF NameKey
<1>3. FullName(v)' = FullName(v) /\ FullName(w)' = FullName(w)
  BY <1>2 DEF FullName
<1>4. Gauge(v)' = Gauge(v)
  BY <1>3 DEF Gauge, Labels
<1> QED
  BY <1>1, <1>2, <1>3, <1>4 DEF Entry, SameMetric, Clash, Labels

\* Equal labels mean that both contexts are FQDDs or neither is.
LEMMA LabelsTell ==
  ASSUME NEW v \in Values, NEW w \in Values
  PROVE  Labels(v) = Labels(w) <=> v.context.fqdd = w.context.fqdd
<1>1. v.context.fqdd \in BOOLEAN /\ w.context.fqdd \in BOOLEAN
  BY GaugesConstants DEF Values
<1>2. ASSUME NEW u \in Values PROVE "FQDD" \in Labels(u) <=> u.context.fqdd
  BY GaugesConstants DEF Labels, Values
<1> QED
  BY <1>1, <1>2 DEF Labels

\* One key, one set of labels: no context is the bare word that stands for all FQDDs.
LEMMA OneKeyOneLabels ==
  ASSUME NEW v \in Values, NEW w \in Values, ContextKey(v) = ContextKey(w)
  PROVE  Labels(v) = Labels(w)
<1>1. ASSUME NEW u \in Values PROVE ContextKey(u).text = "FQDD" <=> u.context.fqdd
  <2>1. u.context.text # "FQDD" /\ u.context.fqdd \in BOOLEAN
    <3>1. u.context \in Contexts
      BY <1>1 DEF Values
    <3> QED
      BY <3>1, GaugesConstants
  <2>2. CASE u.context.fqdd
    BY <2>2 DEF ContextKey
  <2>3. CASE ~u.context.fqdd
    <3>1. ContextKey(u).text = u.context.text
      BY <2>3 DEF ContextKey
    <3> QED
      BY <2>1, <2>3, <3>1
  <2> QED
    BY <2>2, <2>3
<1>2. v.context.fqdd = w.context.fqdd
  <2>1. v.context.fqdd \in BOOLEAN /\ w.context.fqdd \in BOOLEAN
    BY GaugesConstants DEF Values
  <2> QED
    BY <1>1, <2>1
<1> QED
  BY <1>2, LabelsTell

\* One key and the same labels: one gauge.
LEMMA OneGauge ==
  ASSUME NEW v \in Values, NEW w \in Values, program \in {"prometheuspump", "victoriapump"},
         ContextKey(v) = ContextKey(w), NameKey(v) = NameKey(w), Labels(v) = Labels(w)
  PROVE  Gauge(v) = Gauge(w)
<1>1. v.context.fqdd = w.context.fqdd /\ v.context.fqdd \in BOOLEAN
  BY LabelsTell, GaugesConstants DEF Values
<1>2. CASE v.context.fqdd
  BY <1>1, <1>2 DEF FullName, Gauge
<1>3. CASE ~v.context.fqdd
  <2>1. v.context.text = w.context.text
    BY <1>1, <1>3 DEF ContextKey
  <2> QED
    BY <1>1, <1>3, <2>1 DEF FullName, Gauge
<1> QED
  BY <1>1, <1>2, <1>3

\* Two values are one metric exactly if they have one series.
LEMMA SeriesIsMetric ==
  ASSUME NEW v \in Values, NEW w \in Values, program \in {"prometheuspump", "victoriapump"}
  PROVE  SameMetric(v, w) <=> Series(Gauge(v), v) = Series(Gauge(w), w)
<1>1. v.context.fqdd \in BOOLEAN /\ w.context.fqdd \in BOOLEAN
  BY GaugesConstants DEF Values
<1>2. ASSUME SameMetric(v, w) PROVE Series(Gauge(v), v) = Series(Gauge(w), w)
  <2>1. Labels(v) = Labels(w)
    BY <1>2, LabelsTell DEF SameMetric
  <2>2. FullName(v) = FullName(w)
    BY <1>1, <1>2 DEF SameMetric, FullName
  <2> QED
    BY <1>2, <2>1, <2>2 DEF SameMetric, Series, Gauge
<1>3. ASSUME Series(Gauge(v), v) = Series(Gauge(w), w) PROVE SameMetric(v, w)
  <2>1. /\ v.system = w.system /\ FullName(v) = FullName(w) /\ Labels(v) = Labels(w)
        /\ v.context.fqdd /\ w.context.fqdd => v.context.text = w.context.text
    BY <1>1, <1>3 DEF Series, Gauge
  <2>2. v.context.fqdd = w.context.fqdd
    BY <2>1, LabelsTell
  <2>3. NameKey(v) = NameKey(w)
    BY <2>1 DEF FullName
  <2>4. ~v.context.fqdd => v.context.text = w.context.text
    BY <2>1, <2>2 DEF FullName
  <2> QED
    BY <1>1, <2>1, <2>2, <2>3, <2>4 DEF SameMetric
<1> QED
  BY <1>2, <1>3

\* A sample set for a value is its only one, and other metrics keep theirs.
LEMMA SetSample ==
  ASSUME GaugesTypeOK, Current, NEW v \in Values, NEW n,
         exported' = Set(Gauge(v), v, n), seen' = seen \cup {v}, program' = program,
         latest' = {l \in latest : ~SameMetric(l.value, v)} \cup {[value |-> v, number |-> n]}
  PROVE  Current'
<1> USE DEF GaugesTypeOK
<1>1. ASSUME NEW u \in Values
      PROVE  Samples(u)' = IF SameMetric(u, v) THEN {n} ELSE Samples(u)
  <2>1. Samples(u)' = {s.number : s \in {x \in exported' : x.series = Series(Gauge(u), u)}}
    <3>1. Gauge(u)' = Gauge(u)
      BY SameProgram
    <3> QED
      BY <3>1 DEF Samples, Series
  <2>2. exported' = {s \in exported : s.series # Series(Gauge(v), v)}
                      \cup {[series |-> Series(Gauge(v), v), number |-> n]}
    BY DEF Set
  <2>3. CASE SameMetric(u, v)
    <3>1. Series(Gauge(u), u) = Series(Gauge(v), v)
      BY <1>1, <2>3, SeriesIsMetric
    <3>2. {x \in exported' : x.series = Series(Gauge(u), u)}
            = {[series |-> Series(Gauge(v), v), number |-> n]}
      BY <2>2, <3>1
    <3>3. \A S, g : S = {[series |-> g, number |-> n]} => {s.number : s \in S} = {n}
      OBVIOUS
    <3>4. Samples(u)' = {n}
      BY <2>1, <3>2, <3>3
    <3> QED
      BY <2>3, <3>4
  <2>4. CASE ~SameMetric(u, v)
    <3>1. Series(Gauge(u), u) # Series(Gauge(v), v)
      BY <1>1, <2>4, SeriesIsMetric
    <3>2. {x \in exported' : x.series = Series(Gauge(u), u)}
            = {x \in exported : x.series = Series(Gauge(u), u)}
      BY <2>2, <3>1
    <3> QED
      BY <2>1, <2>4, <3>2 DEF Samples
  <2> QED
    BY <2>3, <2>4
<1> SUFFICES ASSUME NEW u \in seen', NEW l \in latest', SameMetric(l.value, u)
             PROVE  Samples(u)' = {l.number}
  BY SameProgram DEF Current
<1>2. u \in Values /\ (l \in latest => l.value \in Values)
  OBVIOUS
<1>3. CASE l = [value |-> v, number |-> n]
  <2>1. SameMetric(u, v)
    BY <1>3 DEF SameMetric
  <2> QED
    BY <1>1, <1>2, <1>3, <2>1
<1>4. CASE l \in latest /\ ~SameMetric(l.value, v)
  <2>1. ~SameMetric(u, v) /\ u # v
    BY <1>4 DEF SameMetric
  <2>2. u \in seen
    BY <2>1
  <2>3. Samples(u) = {l.number}
    BY <1>4, <2>2 DEF Current
  <2> QED
    BY <1>1, <1>2, <2>1, <2>3
<1> QED
  BY <1>3, <1>4

\* A panic has a clash behind it.
LEMMA PanicClashes ==
  ASSUME GaugesTypeOK, Origins, NEW v \in Values, NEW r, Panic(v, r)
  PROVE  \E u, w \in seen' : Clash(u, w)
<1> USE DEF GaugesTypeOK
<1>1. seen' = seen \cup {v}
  BY DEF Panic, Note
<1>2. CASE KnownAs(v) = {}
  <2>1. ~Registrable(v)
    BY <1>2 DEF Panic
  <2>2. CASE FullName(v).name.odd
    BY <1>1, <2>2 DEF Clash
  <2>3. CASE ~FullName(v).name.odd
    <3>1. PICK g \in registry : g.full = FullName(v)
      BY <2>1, <2>3 DEF Registrable
    <3>2. PICK c \in collectors : c.gauge = g
      BY <3>1
    <3>3. PICK w \in seen : c = Entry(w)
      BY <3>2 DEF Origins
    <3>4. FullName(w) = FullName(v)
      BY <3>1, <3>2, <3>3 DEF Entry, Gauge
    <3>5. NameKey(w) = NameKey(v)
      BY <3>4 DEF FullName
    <3>6. ContextKey(w) # ContextKey(v)
      BY <1>2, <3>3, <3>5 DEF KnownAs, Entry
    <3> QED
      BY <1>1, <3>4, <3>6 DEF Clash
  <2> QED
    BY <2>2, <2>3
<1>3. CASE KnownAs(v) # {}
  <2>1. PICK c \in KnownAs(v) : c.gauge.labels # Labels(v)
    BY <1>3 DEF Panic
  <2>2. PICK w \in seen : c = Entry(w)
    BY <2>1 DEF Origins, KnownAs
  <2>3. ContextKey(w) = ContextKey(v) /\ Labels(w) # Labels(v)
    BY <2>1, <2>2 DEF KnownAs, Entry, Gauge
  <2> QED
    BY <2>3, OneKeyOneLabels
<1> QED
  BY <1>2, <1>3

\* The bookkeeping of a value keeps its types.
LEMMA NoteType ==
  ASSUME GaugesTypeOK, NEW v \in Values, NEW n, Note(v, n)
  PROVE  /\ handled' \in 0 .. MaxValues /\ seen' = seen \cup {v} /\ seen' \subseteq Values
         /\ {l.value : l \in latest'} \subseteq seen'
<1>1. handled' \in 0 .. MaxValues
  BY GaugesConstants DEF Note, GaugesTypeOK
<1> QED
  BY <1>1 DEF Note, GaugesTypeOK

\* Every step of the pump keeps its invariant.
LEMMA GaugesStep ==
  ASSUME GaugesInv, [GaugesNext]_gaugeVars
  PROVE  GaugesInv'
<1> USE DEF GaugesInv
<1>1. ASSUME NEW v \in Values, NEW r \in Readings, ~panicked, UpdateGauge(v, r)
      PROVE  GaugesInv'
  <2>1. PICK c \in KnownAs(v) : /\ c.gauge.labels = Labels(v)
                                /\ exported' = Set(c.gauge, v, Number(v, r))
    BY <1>1 DEF UpdateGauge
  <2>2. /\ UNCHANGED <<program, collectors, registry, panicked>> /\ Note(v, Number(v, r))
    BY <1>1 DEF UpdateGauge
  <2>3. GaugesTypeOK'
    BY <2>2, NoteType DEF GaugesTypeOK
  <2>4. PICK w \in seen : c = Entry(w)
    BY <2>1 DEF Origins, KnownAs
  <2>5. c = Entry(v) /\ c.gauge = Gauge(v)
    <3>1. /\ ContextKey(w) = ContextKey(v) /\ NameKey(w) = NameKey(v) /\ Labels(w) = Labels(v)
          /\ w \in Values
      BY <2>1, <2>4 DEF KnownAs, Entry, Gauge, GaugesTypeOK
    <3>2. Gauge(v) = Gauge(w)
      BY <3>1, OneGauge DEF GaugesTypeOK
    <3> QED
      BY <2>4, <3>1, <3>2 DEF Entry
  <2>6. seen' = seen \cup {v}
    BY <2>2 DEF Note
  <2>7. Origins'
    BY <2>2, <2>6, SameProgram DEF Origins
  <2>8. Known'
    BY <1>1, <2>1, <2>2, <2>5, <2>6, SameProgram DEF Known, KnownAs
  <2>9. Current'
    BY <1>1, <2>1, <2>2, <2>5, SetSample DEF Note
  <2> QED
    BY <1>1, <2>2, <2>3, <2>7, <2>8, <2>9
<1>2. ASSUME NEW v \in Values, NEW r \in Readings, ~panicked, CreateGauge(v, r)
      PROVE  GaugesInv'
  <2>1. /\ KnownAs(v) = {} /\ UNCHANGED <<program, panicked>> /\ Note(v, Number(v, r))
        /\ registry' = registry \cup {Gauge(v)} /\ collectors' = collectors \cup {Entry(v)}
        /\ exported' = Set(Gauge(v), v, Number(v, r))
    BY <1>2 DEF CreateGauge, Entry
  <2>2. GaugesTypeOK'
    <3>1. \A c, d \in collectors' : c.context = d.context /\ c.name = d.name => c = d
      BY <2>1 DEF GaugesTypeOK, KnownAs, Entry
    <3>2. {c.gauge : c \in collectors'} = registry'
      <4>1. Entry(v).gauge = Gauge(v)
        BY DEF Entry
      <4> QED
        BY <2>1, <4>1 DEF GaugesTypeOK
    <3> QED
      BY <2>1, <3>1, <3>2, NoteType DEF GaugesTypeOK
  <2>3. seen' = seen \cup {v}
    BY <2>1 DEF Note
  <2>4. Origins'
    BY <2>1, <2>3, SameProgram DEF Origins
  <2>5. Known'
    BY <1>2, <2>1, <2>3, SameProgram DEF Known
  <2>6. Current'
    BY <1>2, <2>1, SetSample DEF Note
  <2> QED
    BY <1>2, <2>1, <2>2, <2>4, <2>5, <2>6
<1>3. ASSUME NEW v \in Values, NEW r \in Readings, ~panicked, Panic(v, r)
      PROVE  GaugesInv'
  <2>1. UNCHANGED <<program, collectors, registry>> /\ panicked' = TRUE /\ Note(v, Number(v, r))
    BY <1>3 DEF Panic
  <2>2. GaugesTypeOK'
    BY <2>1, NoteType DEF GaugesTypeOK
  <2>3. seen' = seen \cup {v}
    BY <2>1 DEF Note
  <2>4. Origins'
    BY <2>1, <2>3, SameProgram DEF Origins
  <2>5. (\E u, w \in seen : Clash(u, w))'
    BY <1>3, <2>1, PanicClashes, SameProgram
  <2> QED
    BY <2>1, <2>2, <2>4, <2>5
<1>4. ASSUME UNCHANGED <<program, collectors, registry, exported, panicked, handled, seen, latest>>
      PROVE  GaugesInv'
  <2>1. GaugesTypeOK'
    BY <1>4 DEF GaugesTypeOK, Values
  <2>2. Origins' /\ (panicked => \E v, w \in seen : Clash(v, w))'
    BY <1>4, SameProgram DEF Origins
  <2>3. Known => Known'
    BY <1>4, SameProgram DEF Known
  <2>4. Current => Current'
    <3>1. \A u : Samples(u)' = Samples(u)
      <4> TAKE u
      <4>1. Gauge(u)' = Gauge(u)
        BY <1>4, SameProgram
      <4> QED
        BY <1>4, <4>1 DEF Samples, Series
    <3> QED
      BY <1>4, <3>1, SameProgram DEF Current
  <2> QED
    BY <1>4, <2>1, <2>2, <2>3, <2>4
<1>5. CASE pushToVictoriaMetrics \/ UNCHANGED gaugeVars
  BY <1>4, <1>5 DEF pushToVictoriaMetrics, gaugeVars
<1> QED
  BY <1>1, <1>2, <1>3, <1>5 DEF GaugesNext

\* The inductive invariant of the two pumps.
THEOREM GaugesInvariant == GaugesSpec => []GaugesInv
<1>1. GaugesInit => GaugesInv
  <2> SUFFICES ASSUME GaugesInit PROVE GaugesInv
    OBVIOUS
  <2>1. handled \in 0 .. MaxValues
    BY GaugesConstants DEF GaugesInit
  <2>2. {c.gauge : c \in collectors} = registry /\ {l.value : l \in latest} \subseteq seen
    BY DEF GaugesInit
  <2> QED
    BY <2>1, <2>2 DEF GaugesInit, GaugesInv, GaugesTypeOK, Origins, Known, Current
<1> QED
  BY <1>1, GaugesStep, PTL DEF GaugesSpec

\* For any contexts and metric IDs: as long as the pump runs, the sample exported for
\* a metric is its last reading and of nothing else, and it dies only of a name that
\* is none or of two values that need one full name under different keys.
THEOREM GaugesLatestOrClash == GaugesSpec => []LatestOrClash
<1>1. GaugesInv => LatestOrClash
  BY DEF GaugesInv, GaugesTypeOK, LatestOrClash, Current, Samples, Clash
<1> QED
  BY <1>1, GaugesInvariant, PTL

\* The gauges registered are those the pump knows, one per pair of keys.
THEOREM GaugesTypeCorrect == GaugesSpec => []GaugesTypeOK
<1>1. GaugesInv => GaugesTypeOK
  BY DEF GaugesInv
<1> QED
  BY <1>1, GaugesInvariant, PTL

-----------------------------------------------------------------------------
\* The pumps together

\* A run of the pumps is a run of each: they have no variable in common, and
\* what is proved of one of them holds whatever the others do.
THEOREM EachPumpBehaves == MCSpec => KafkaSpec /\ GaugesSpec /\ OtelSpec
<1>1. MCInit => KafkaInit /\ GaugesInit /\ OtelInit
  BY DEF MCInit
<1>2. [MCNext]_<<kafkaVars, gaugeVars, otelVars, pump>>
        => [KafkaNext]_kafkaVars /\ [GaugesNext]_gaugeVars /\ [OtelNext]_otelVars
  BY DEF MCNext
<1> QED
  BY <1>1, <1>2, PTL DEF MCSpec, KafkaSpec, GaugesSpec, OtelSpec

\* Every variable of the pumps has its type.
THEOREM PumpsTypeCorrect == MCSpec => []MCTypeOK
<1>1. KafkaTypeOK /\ GaugesTypeOK /\ OtelTypeOK => MCTypeOK
  BY DEF MCTypeOK
<1> QED
  BY <1>1, EachPumpBehaves, KafkaTypeCorrect, GaugesTypeCorrect, OtelTypeCorrect, PTL

=============================================================================
