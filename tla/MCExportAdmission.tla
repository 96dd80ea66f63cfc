-------------------------- MODULE MCExportAdmission --------------------------
(* A client that posts small exports drawn from hand-picked messages: each  *)
(* law of the telemetry model is met by one that keeps and one that breaks  *)
(* it.                                                                      *)
EXTENDS ExportAdmission

MCLimits ==
    [attributes_per_signal |-> 2, attributes_per_nested_set |-> 1,
     attribute_value_bytes |-> 700, span_events_per_span |-> 1,
     span_links_per_span |-> 1, exemplars_per_data_point |-> 1,
     key_value_list_depth |-> 2, data_points_per_export |-> 2,
     records_per_export |-> 2, numeric_vector_entries_per_data_point |-> 3]

MCSlot == [t \in {"Value", "SpanEvent", "SpanLink", "Exemplar", "u64", "Quantile"} |->
             IF t = "u64" THEN 16 ELSE IF t = "Quantile" THEN 32 ELSE 64]
MCBare == [t \in {" v "} |-> "v"]

(* Values.                                                                 *)
Str(t) == [any |-> "string", text |-> t]
Num(n) == [any |-> "int", int |-> n]
Arr(vs) == [any |-> "array", values |-> vs]
Kv(k, v) == [key |-> k, strindex |-> FALSE, value |-> v]
List(kvs) == [any |-> "kvlist", values |-> kvs]
One(v) == <<Kv("a", v)>>

Nested(n) == IF n = 0 THEN Num(1) ELSE IF n = 1 THEN Arr(<<Num(1)>>)
             ELSE IF n = 2 THEN List(One(Arr(<<Num(1)>>)))
             ELSE Arr(<<List(One(Arr(<<Num(1)>>)))>>)

(* Attribute sets: legal, in another order, repeated, too many, too deep,   *)
(* too large, mixed, unset, by reference.                                   *)
Pair == <<Kv("a", Str("x")), Kv("b", Nested(2))>>
Swapped == <<Pair[2], Pair[1]>>
Listed == <<Kv("c", List(<<Kv("a", Num(1)), Kv("b", Num(2))>>))>>
Relisted == <<Kv("c", List(<<Kv("b", Num(2)), Kv("a", Num(1))>>))>>
Bad == {<<Kv("a", Str("x")), Kv("a", Str("y"))>>,
        Pair \o <<Kv("c", Num(1))>>,
        One(Nested(3)),
        One(Arr(<<Str("long"), Str("long"), Str("long")>>)),
        One(Arr(<<Num(1), Str("x")>>)),
        One(List(<<Kv("a", Num(1)), Kv("a", Num(1))>>)),
        One([any |-> "unset"]),
        <<[key |-> "a", strindex |-> TRUE, value |-> Num(1)]>>}
Heavy == <<Kv("a", Str("long")), Kv("b", Str("long"))>>

(* Spans.                                                                  *)
NoState == [bytes |-> 0, members |-> <<>>]
State(v) == [bytes |-> 3, members |-> <<[vendor |-> "k", value |-> v]>>]

Span == [trace_id |-> "t", span_id |-> "s", trace_state |-> NoState, parent |-> "",
         kind |-> 1, end |-> 5, attributes |-> <<>>, events |-> <<>>, links |-> <<>>,
         status |-> [code |-> 0, message |-> ""], plain |-> "p"]
Event(set) == [time |-> 0, attributes |-> set, plain |-> "e"]
Link(id, set) == [trace_id |-> id, span_id |-> "", trace_state |-> NoState,
                  attributes |-> set, plain |-> "l"]

GoodSpans ==
    {Span, [Span EXCEPT !.plain = "q"], [Span EXCEPT !.span_id = ""],
     [Span EXCEPT !.parent = "zero"], [Span EXCEPT !.end = 0],
     [Span EXCEPT !.attributes = Pair], [Span EXCEPT !.attributes = Swapped],
     [Span EXCEPT !.attributes = Listed], [Span EXCEPT !.attributes = Relisted],
     [Span EXCEPT !.trace_state = State("v")], [Span EXCEPT !.trace_state = State(" v ")],
     [Span EXCEPT !.attributes = Heavy, !.events = <<Event(One(Str("long")))>>,
                  !.links = <<Link("t", One(Nested(2)))>>]}
BadSpans ==
    {[Span EXCEPT !.attributes = set] : set \in Bad}
    \cup {[Span EXCEPT !.links = <<Link("t", set)>>] : set \in {Pair, One(Nested(3))}}
    \cup {[Span EXCEPT !.events = <<Event(<<>>), Event(<<>>)>>],
          [Span EXCEPT !.links = <<Link("wide", <<>>)>>],
          [Span EXCEPT !.parent = "wide"], [Span EXCEPT !.kind = 6],
          [Span EXCEPT !.status.code = 3], [Span EXCEPT !.trace_state = State(None)],
          [Span EXCEPT !.trace_state.bytes = 99]}

(* Logs.                                                                   *)
Log == [time |-> 0, observed |-> 3, severity |-> 0, severity_text |-> "",
        body |-> None, attributes |-> <<>>, trace_id |-> "", span_id |-> "",
        flags |-> 0, event_name |-> "", plain |-> "p"]
GoodLogs ==
    {Log, [Log EXCEPT !.body = Nested(2)], [Log EXCEPT !.body = [any |-> "unset"]],
     [Log EXCEPT !.trace_id = "t", !.flags = 1], [Log EXCEPT !.trace_id = "zero"],
     [Log EXCEPT !.severity = 24, !.severity_text = "x"]}
BadLogs ==
    {[Log EXCEPT !.body = Nested(3)], [Log EXCEPT !.severity = 25],
     [Log EXCEPT !.severity = 256], [Log EXCEPT !.span_id = "wide"],
     [Log EXCEPT !.body = Arr(<<Num(1), Str("x")>>)]}

(* Metrics.                                                                *)
Point == [attributes |-> <<>>, exemplars |-> <<>>, start |-> 1, time |-> 2, flags |-> 0]
NumPt == Point @@ [value |-> "1"]
HistPt == Point @@ [count |-> 2, sum |-> "2", min |-> None, max |-> "1",
                    buckets |-> 2, bounds |-> 1]
ExpPt == Point @@ [count |-> 2, sum |-> None, min |-> None, max |-> None,
                   positive |-> 2, negative |-> None]
SumPt == Point @@ [count |-> 2, sum |-> "+0", quantiles |-> 2]
Sample(v, set, id) == [value |-> v, time |-> 4, filtered |-> set, trace_id |-> id,
                         span_id |-> ""]

Metric(data) == [name |-> "m", description |-> "", unit |-> "", metadata |-> <<>>,
                 data |-> data]
GaugeOf(ps) == Metric([kind |-> "Gauge", points |-> ps])
SumOf(t, ps) == Metric([kind |-> "Sum", monotonic |-> TRUE, temporality |-> t,
                        points |-> ps])
HistOf(t, ps) == Metric([kind |-> "Histogram", temporality |-> t, points |-> ps])
ExpOf(ps) == Metric([kind |-> "ExponentialHistogram", temporality |-> 1, points |-> ps])
SummaryOf(ps) == Metric([kind |-> "Summary", points |-> ps])
Described(m) == [m EXCEPT !.description = "d"]

GoodMetrics ==
    {GaugeOf(<<NumPt>>), GaugeOf(<<[NumPt EXCEPT !.start = 0]>>),
     GaugeOf(<<[NumPt EXCEPT !.value = "2"], NumPt>>),
     Described(GaugeOf(<<NumPt>>)), Described(GaugeOf(<<[NumPt EXCEPT !.time = 3]>>)),
     GaugeOf(<<[NumPt EXCEPT !.exemplars = <<Sample("1", One(Nested(2)), "")>>]>>),
     SumOf(1, <<NumPt>>), SumOf(2, <<NumPt, [NumPt EXCEPT !.start = 2]>>),
     [SumOf(1, <<NumPt>>) EXCEPT !.metadata = Heavy],
     HistOf(1, <<HistPt>>), ExpOf(<<ExpPt>>),
     SummaryOf(<<SumPt>>), SummaryOf(<<[SumPt EXCEPT !.sum = "-0"]>>)}
BadMetrics ==
    {Metric(None), SumOf(3, <<NumPt>>), SumOf(0, <<NumPt>>),
     SumOf(1, <<[NumPt EXCEPT !.start = 0]>>), SumOf(1, <<[NumPt EXCEPT !.value = None]>>),
     HistOf(1, <<[HistPt EXCEPT !.start = 0]>>), HistOf(1, <<[HistPt EXCEPT !.buckets = 3]>>),
     SummaryOf(<<SumPt, SumPt, SumPt>>),
     GaugeOf(<<[NumPt EXCEPT !.exemplars = <<Sample(None, <<>>, "")>>]>>),
     GaugeOf(<<[NumPt EXCEPT !.exemplars = <<Sample("1", Pair, "")>>]>>),
     [GaugeOf(<<NumPt>>) EXCEPT !.metadata = One(Nested(3))]}

(* Envelopes and exports.                                                  *)
Plain == [attributes |-> <<>>, entity_refs |-> FALSE, dropped |-> 0]
NoScope == [name |-> "n", version |-> "", attributes |-> <<>>, dropped |-> 0]
Envelopes(light) ==
    {<<Plain, "", NoScope, "">>}
    \cup IF light THEN {}
         ELSE {<<Plain, "u", NoScope, "">>, <<Plain, "", NoScope, "u">>,
               <<[Plain EXCEPT !.entity_refs = TRUE], "", NoScope, "">>,
               <<Plain, "", [NoScope EXCEPT !.attributes = One(Nested(3))], "">>}

Request(sig, e, items) ==
    [signal |-> sig, bytes |-> 1, parses |-> TRUE,
     groups |-> <<[resource |-> e[1], schema |-> e[2],
                   scopes |-> <<[scope |-> e[3], schema |-> e[4], items |-> items]>>]>>]

Requests(sig, good, bad, base) ==
    {Request(sig, e, <<i>>) : e \in Envelopes(TRUE), i \in good \cup bad}
    \cup {Request(sig, e, <<i>>) : e \in Envelopes(FALSE), i \in base}
    \cup {Request(sig, <<Plain, "", NoScope, "">>, <<i, j>>) : i \in base, j \in good}

Oversize == LET r == Request("spans", <<Plain, "", NoScope, "">>, <<Span, Span, Span>>)
            IN  {r, [r EXCEPT !.parses = FALSE], [r EXCEPT !.bytes = 9]}

(* Exports heavy enough for two of them, or one, to fill the queue.        *)
Laden == <<[Plain EXCEPT !.attributes = Heavy, !.dropped = 1], "",
           [NoScope EXCEPT !.attributes = Heavy], "">>
LadenSpan(id) ==
    [Span EXCEPT !.span_id = id, !.attributes = Heavy,
                 !.events = <<Event(One(Str("long")))>>, !.links = <<Link("t", One(Nested(2)))>>]
LadenSum(time) ==
    [SumOf(1, <<[NumPt EXCEPT !.time = time, !.attributes = Heavy]>>) EXCEPT !.metadata = Heavy]
Bulky == {Request("spans", Laden, <<LadenSpan("s")>>),
          Request("spans", Laden, <<LadenSpan("s"), LadenSpan("r")>>),
          Request("metrics", Laden, <<LadenSum(2)>>),
          Request("metrics", Laden, <<LadenSum(2), LadenSum(3)>>)}

MCExports ==
    Requests("spans", GoodSpans, BadSpans, {Span, [Span EXCEPT !.attributes = Heavy]})
    \cup Requests("logs", GoodLogs, BadLogs, {Log})
    \cup Requests("metrics", GoodMetrics, BadMetrics,
                  {GaugeOf(<<NumPt>>), SumOf(1, <<NumPt>>)})
    \cup Oversize \cup Bulky
=============================================================================
