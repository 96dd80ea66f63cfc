------------------------------ MODULE WireFacts ------------------------------
(***************************************************************************)
(* A reading of messages and of records that shares nothing with the       *)
(* translation: the reference the admission properties compare against.    *)
(***************************************************************************)
EXTENDS Decode, TLC

(* What was sent and what was kept, each as a set of facts: the path to a  *)
(* leaf and the leaf, all as text.  An absent field states nothing.        *)
Text(name, text) == IF text \in {None, ""} THEN {} ELSE {<<name, text>>}
Number(name, n) == IF n \in {None, 0} THEN {} ELSE {<<name, ToString(n)>>}
At(path, facts) == {path \o f : f \in facts}
Each(name, facts) ==
    UNION {At(<<name, ToString(i)>>, facts[i]) : i \in DOMAIN facts}

RECURSIVE SaidValue(_)
SaidPairs(pairs) ==
    {<<"size", ToString(Len(pairs))>>}
    \cup UNION {At(<<pairs[i].key>>, SaidValue(pairs[i].value)) : i \in DOMAIN pairs}

SaidValue(av) ==
    CASE av.any = "string" -> {<<"String", av.text>>}
      [] av.any = "bool"   -> {<<"Bool", ToString(av.flag)>>}
      [] av.any = "int"    -> {<<"Int", ToString(av.int)>>}
      [] av.any = "double" -> {<<"Double", av.bits>>}
      [] av.any = "bytes"  -> {<<"Bytes", av.bytes>>}
      [] av.any = "array"  -> {<<"Array">>} \cup
            Each("Array", [i \in DOMAIN av.values |-> SaidValue(av.values[i])])
      [] av.any = "kvlist" -> {<<"KvList">>} \cup
            Each("KvList", [i \in DOMAIN av.values |->
                    At(<<av.values[i].key>>, SaidValue(av.values[i].value))])

RECURSIVE KeptValue(_)
KeptValue(v) ==
    CASE v.kind = "String" -> {<<"String", v.text>>}
      [] v.kind = "Bool"   -> {<<"Bool", ToString(v.flag)>>}
      [] v.kind = "Int"    -> {<<"Int", ToString(v.int)>>}
      [] v.kind = "Double" -> {<<"Double", v.bits>>}
      [] v.kind = "Bytes"  -> {<<"Bytes", v.bytes>>}
      [] v.kind = "Array"  -> {<<"Array">>} \cup
            Each("Array", [i \in DOMAIN v.items |-> KeptValue(v.items[i])])
      [] v.kind = "KvList" -> {<<"KvList">>} \cup
            Each("KvList", [i \in DOMAIN v.entries |->
                    At(<<v.entries[i].key>>, KeptValue(v.entries[i].value))])

KeptMap(map) ==
    {<<"size", ToString(Cardinality(DOMAIN map))>>}
    \cup UNION {At(<<k>>, KeptValue(map[k])) : k \in DOMAIN map}

(* The envelope.                                                           *)
SaidEnvelope(p) ==
    At(<<"resource">>, At(<<"attributes">>, SaidPairs(p.resource.attributes))
                       \cup At(<<"provenance">>, Text("schema", p.schema)
                                                 \cup Number("dropped", p.resource.dropped)))
    \cup At(<<"scope">>, At(<<"attributes">>, SaidPairs(p.scope.attributes))
                         \cup Text("name", p.scope.name) \cup Text("version", p.scope.version)
                         \cup Text("schema", p.scope_schema)
                         \cup Number("dropped", p.scope.dropped))
KeptEnvelope(r) ==
    At(<<"resource">>, At(<<"attributes">>, KeptMap(r.resource.attributes))
                       \cup At(<<"provenance">>, Text("schema", r.resource.schema_url)
                                                 \cup Number("dropped", r.resource.dropped)))
    \cup At(<<"scope">>, At(<<"attributes">>, KeptMap(r.scope.attributes))
                         \cup Text("name", r.scope.name) \cup Text("version", r.scope.version)
                         \cup Text("schema", r.scope.schema_url)
                         \cup Number("dropped", r.scope.dropped))

(* Spans, logs and points: what the message says, what the record says.  A *)
(* span's empty id is the zero id, a log's or a parent's is no id.         *)
SaidContext(m) ==
    {<<"trace_id", IF m.trace_id = "" THEN "zero" ELSE m.trace_id>>,
     <<"span_id", IF m.span_id = "" THEN "zero" ELSE m.span_id>>}
    \cup Each("tracestate", [i \in DOMAIN m.trace_state.members |->
              {<<Trim(m.trace_state.members[i].vendor),
                 Trim(m.trace_state.members[i].value)>>}])
KeptContext(c) ==
    {<<"trace_id", c.trace_id>>, <<"span_id", c.span_id>>}
    \cup Each("tracestate", [i \in DOMAIN c.tracestate |->
              {<<c.tracestate[i].vendor, c.tracestate[i].value>>}])

SaidSpan(m) ==
    SaidContext(m) \cup Text("parent", m.parent) \cup Number("end", m.end)
    \cup Number("kind", m.kind) \cup Number("status", m.status.code)
    \cup Text("message", m.status.message) \cup Text("plain", m.plain)
    \cup At(<<"attributes">>, SaidPairs(m.attributes))
    \cup Each("event", [i \in DOMAIN m.events |->
            Number("time", m.events[i].time) \cup Text("plain", m.events[i].plain)
            \cup SaidPairs(m.events[i].attributes)])
    \cup Each("link", [i \in DOMAIN m.links |->
            SaidContext(m.links[i]) \cup Text("plain", m.links[i].plain)
            \cup SaidPairs(m.links[i].attributes)])

NumberOf(names, name) == (CHOOSE i \in DOMAIN names : names[i] = name) - 1

KeptSpan(r) ==
    KeptContext(r.context) \cup Text("parent", r.parent) \cup Number("end", r.end)
    \cup Number("kind", NumberOf(<<"Unspecified", "Internal", "Server", "Client",
                                   "Producer", "Consumer">>, r.kind))
    \cup Number("status", NumberOf(<<"Unset", "Ok", "Error">>, r.status.code))
    \cup Text("message", r.status.message) \cup Text("plain", r.plain)
    \cup At(<<"attributes">>, KeptMap(r.attributes))
    \cup Each("event", [i \in DOMAIN r.events |->
            Number("time", r.events[i].time) \cup Text("plain", r.events[i].plain)
            \cup KeptMap(r.events[i].attributes)])
    \cup Each("link", [i \in DOMAIN r.links |->
            KeptContext(r.links[i].context) \cup Text("plain", r.links[i].plain)
            \cup KeptMap(r.links[i].attributes)])

SaidLog(m) ==
    Number("time", m.time) \cup Number("observed", m.observed)
    \cup Number("severity", m.severity) \cup Text("severity_text", m.severity_text)
    \cup Text("trace_id", m.trace_id) \cup Text("span_id", m.span_id)
    \cup Number("flags", m.flags) \cup Text("event_name", m.event_name)
    \cup Text("plain", m.plain) \cup At(<<"attributes">>, SaidPairs(m.attributes))
    \cup (IF m.body = None \/ m.body.any = "unset" THEN {}
          ELSE At(<<"body">>, SaidValue(m.body)))

KeptLog(r) ==
    Number("time", r.time) \cup Number("observed", r.observed)
    \cup Number("severity", r.severity) \cup Text("severity_text", r.severity_text)
    \cup Text("trace_id", r.trace_id) \cup Text("span_id", r.span_id)
    \cup Number("flags", r.flags) \cup Text("event_name", r.event_name)
    \cup Text("plain", r.plain) \cup At(<<"attributes">>, KeptMap(r.attributes))
    \cup (IF r.body = None THEN {} ELSE At(<<"body">>, KeptValue(r.body)))

(* A stream's facts are apart from its point's: the descriptor, the rest   *)
(* of the identity.  The summary's +0 states no sum.                       *)
SaidStream(m) ==
    At(<<"descriptor">>, Text("description", m.description) \cup Text("unit", m.unit)
                         \cup SaidPairs(m.metadata))
    \cup {<<"kind", m.data.kind>>} \cup Text("name", m.name)
    \cup (IF m.data.kind = "Sum" THEN {<<"monotonic", ToString(m.data.monotonic)>>}
          ELSE {})
    \cup (IF m.data.kind \in {"Sum", "Histogram", "ExponentialHistogram"}
          THEN Number("temporality", m.data.temporality) ELSE {})

KeptStream(s) ==
    At(<<"descriptor">>, Text("description", s.description) \cup Text("unit", s.unit)
                         \cup KeptMap(s.metadata))
    \cup {<<"kind", s.kind.kind>>} \cup Text("name", s.name)
    \cup (IF s.kind.kind = "Sum" THEN {<<"monotonic", ToString(s.kind.monotonic)>>}
          ELSE {})
    \cup (CASE s.temporality = "Delta" -> {<<"temporality", "1">>}
            [] s.temporality = "Cumulative" -> {<<"temporality", "2">>}
            [] OTHER -> {})

Amounts(x, names) == UNION {Number(n, x[n]) : n \in names \cap DOMAIN x}
Stated(x, names) == UNION {Text(n, x[n]) : n \in names \cap DOMAIN x}
Vectors == {"buckets", "bounds", "positive", "negative", "quantiles", "count"}

SaidPoint(m, kind) ==
    At(<<"attributes">>, SaidPairs(m.attributes)) \cup Number("start", m.start)
    \cup {<<"time", ToString(m.time)>>, <<"flags", ToString(m.flags)>>}
    \cup At(<<"payload">>,
          Amounts(m, Vectors) \cup Stated(m, {"value", "min", "max"})
          \cup (IF kind = "Summary" /\ m.sum = "+0" THEN {} ELSE Stated(m, {"sum"}))
          \cup (IF kind = "Summary" THEN {}
                ELSE Each("exemplar", [i \in DOMAIN m.exemplars |->
                    LET x == m.exemplars[i]
                    IN  SaidPairs(x.filtered) \cup Text("trace_id", x.trace_id)
                        \cup Text("span_id", x.span_id) \cup Text("value", x.value)
                        \cup Number("time", x.time)])))

KeptPoint(p) ==
    At(<<"attributes">>, KeptMap(p.attributes)) \cup Number("start", p.start)
    \cup {<<"time", ToString(p.time)>>, <<"flags", ToString(p.flags)>>}
    \cup At(<<"payload">>,
          Amounts(p, Vectors) \cup Stated(p, {"value", "min", "max", "sum"})
          \cup Each("exemplar", [i \in DOMAIN p.exemplars |->
                    LET x == p.exemplars[i]
                    IN  KeptMap(x.filtered) \cup Text("trace_id", x.trace_id)
                        \cup Text("span_id", x.span_id) \cup Text("value", x.value)
                        \cup Number("time", x.time)]))

-----------------------------------------------------------------------------
(* The facts of one record with its envelope.                              *)
Said(sig, p) ==
    SaidEnvelope(p) \cup
    (CASE sig = "spans" -> SaidSpan(p.item)
       [] sig = "logs"  -> SaidLog(p.item)
       [] sig = "metrics" ->
            At(<<"stream">>, SaidStream(p.item))
            \cup SaidPoint(p.item.data.points[p.nth], p.item.data.kind))

Kept(sig, r) ==
    CASE sig = "spans" -> KeptEnvelope(r) \cup KeptSpan(r)
      [] sig = "logs"  -> KeptEnvelope(r) \cup KeptLog(r)
      [] sig = "metrics" -> KeptEnvelope(r.stream)
            \cup At(<<"stream">>, KeptStream(r.stream)) \cup KeptPoint(r.point)

Prefixed(facts, path) == {f \in facts : Len(f) >= Len(path)
                                         /\ SubSeq(f, 1, Len(path)) = path}

(* What a resource says of its own provenance identifies nothing.          *)
Content(facts) == facts \ Prefixed(facts, <<"resource", "provenance">>)

(* The same entity: both valid ids of a span; of a point, all but its      *)
(* payload and its stream's descriptor, and but a gauge's start.           *)
IsGauge(facts) == <<"stream", "kind", "Gauge">> \in facts
Payload(facts) ==
    Prefixed(facts, <<"payload">>) \cup Prefixed(facts, <<"stream", "descriptor">>)
Unstarted(facts) ==
    IF IsGauge(facts) THEN Content(facts) \ Prefixed(facts, <<"start">>)
    ELSE Content(facts)

SameEntity(sig, a, b) ==
    CASE sig = "spans" ->
            \A id \in {"trace_id", "span_id"} :
                /\ Prefixed(a, <<id>>) = Prefixed(b, <<id>>)
                /\ <<id, "zero">> \notin a
      [] sig = "logs" -> FALSE
      [] sig = "metrics" -> Unstarted(a) \ Payload(a) = Unstarted(b) \ Payload(b)

SameContent(a, b) == Unstarted(a) = Unstarted(b)
=============================================================================
