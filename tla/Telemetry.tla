------------------------------ MODULE Telemetry ------------------------------
(***************************************************************************)
(* The records of the telemetry model and what makes two of them the same  *)
(* (crates/telemetry-model: context.rs, resources.rs, spans.rs, logs.rs,   *)
(* metrics.rs, identity.rs).  The strings and numbers a record carries     *)
(* verbatim, with no law of their own (names, flags, dropped counts), are  *)
(* one payload token, `plain`.                                             *)
(***************************************************************************)
EXTENDS Values, TLC

(* An all-zero id is invalid; it is preserved, and it identifies nothing.  *)
IsValid(id) == id # "zero"

(* A span's natural identity, when both ids are valid.                     *)
NaturalIdentity(span) ==
    IF IsValid(span.context.trace_id) /\ IsValid(span.context.span_id)
    THEN <<span.context.trace_id, span.context.span_id>> ELSE None

(* The trace context of spans and links; the order of the tracestate is    *)
(* semantic and nothing in it is merged.                                   *)
TraceContext(trace_id, span_id, tracestate) ==
    [trace_id |-> trace_id, span_id |-> span_id, tracestate |-> tracestate]

(* A resource is its attribute map: schema_url and the dropped count are   *)
(* provenance, compared by nothing that decides identity.                  *)
Resource(attributes, schema_url, dropped) ==
    [attributes |-> attributes, schema_url |-> schema_url, dropped |-> dropped]
ResourceIdentity(resource) == resource.attributes

(* A scope is its full field set.                                          *)
InstrumentationScope(name, version, attributes, schema_url, dropped) ==
    [name |-> name, version |-> version, attributes |-> attributes,
     schema_url |-> schema_url, dropped |-> dropped]

SpanEvent(time, attributes, plain) ==
    [time |-> time, attributes |-> attributes, plain |-> plain]
SpanLink(context, attributes, plain) ==
    [context |-> context, attributes |-> attributes, plain |-> plain]
SpanStatus(code, message) == [code |-> code, message |-> message]

(* Equality of spans: every field, the resource by its identity.           *)
SpanContent(span) ==
    [span EXCEPT !.resource = ResourceIdentity(span.resource)]
SameSpan(a, b) == SpanContent(a) = SpanContent(b)

(* The severity numbers of the model's domain.                             *)
SeverityNumber(number) ==
    IF number \in 1 .. 24 THEN Ok(number)
    ELSE Err([why |-> "Severity", attempted |-> number])

-----------------------------------------------------------------------------
(* Metric streams.  A kind carries one point shape; every kind but the     *)
(* gauge is an interval; sums and histograms carry a temporality.          *)
Gauge == [kind |-> "Gauge"]
SumKind(monotonic) == [kind |-> "Sum", monotonic |-> monotonic]
Histogram == [kind |-> "Histogram"]
ExponentialHistogram == [kind |-> "ExponentialHistogram"]
Summary == [kind |-> "Summary"]

PointShape(kind) ==
    IF kind.kind \in {"Gauge", "Sum"} THEN "Number" ELSE kind.kind
RequiresStartTime(kind) == kind # Gauge
CarriesTemporality(kind) ==
    kind.kind \in {"Sum", "Histogram", "ExponentialHistogram"}

(* The identity of a stream; its descriptor (description, unit, metadata)  *)
(* is identity content.                                                    *)
StreamIdentity(resource, scope, name, descriptor, kind, temporality) ==
    [resource |-> resource, scope |-> scope, name |-> name,
     description |-> descriptor.description, unit |-> descriptor.unit,
     metadata |-> descriptor.metadata, kind |-> kind,
     temporality |-> temporality]

StreamContent(stream) ==
    [stream EXCEPT !.resource = ResourceIdentity(stream.resource)]
SameStream(a, b) == StreamContent(a) = StreamContent(b)

(* The shape law of one identity: a temporality exactly where the kind     *)
(* carries one.                                                            *)
CheckIdentityCoherence(stream) ==
    IF CarriesTemporality(stream.kind) = (stream.temporality # None)
    THEN Ok(stream)
    ELSE Err([why |-> "TemporalityMismatch", kind |-> stream.kind,
              temporality |-> stream.temporality])

(* The shape law of one point in its stream.                               *)
CheckPointCoherence(stream, point) ==
    IF PointShape(stream.kind) # point.shape
    THEN Err([why |-> "KindShapeMismatch", expected |-> PointShape(stream.kind),
              found |-> point.shape])
    ELSE IF RequiresStartTime(stream.kind) /\ point.start = None
    THEN Err([why |-> "IntervalKindMissingStartTime"])
    ELSE Ok(point)

-----------------------------------------------------------------------------
(* The collapse key of a point: the stream without its descriptor, the     *)
(* attributes, the interval and the flags.  A gauge's start is no part of  *)
(* it, nor is the payload.                                                 *)
PointIdentity(stream, point) ==
    [stream |-> <<ResourceIdentity(stream.resource), stream.scope, stream.name,
                  stream.kind, stream.temporality>>,
     attributes |-> point.attributes,
     start |-> IF RequiresStartTime(stream.kind) THEN point.start ELSE None,
     time |-> point.time, flags |-> point.flags]

(* Fault: plain equality, also for a gauge.                                *)
PayloadEqPlain(a, b, kind) == a = b

(* What duplicate detection compares: every field, but not a gauge's       *)
(* start.                                                                  *)
IdentityPayloadEq(a, b, kind) ==
    IF kind = Gauge THEN [a EXCEPT !.start = None] = [b EXCEPT !.start = None]
    ELSE a = b

(* A log record; its three facts of trace context are each present or not. *)
LogRecord(times, severity, text, body, envelope, attributes, context, flags, name, plain) ==
    [time |-> times[1], observed |-> times[2], severity |-> severity,
     severity_text |-> text, body |-> body, resource |-> envelope.resource,
     scope |-> envelope.scope, attributes |-> attributes, trace_id |-> context[1],
     span_id |-> context[2], flags |-> flags, event_name |-> name, plain |-> plain]

(* The point shapes, and what all of them carry.                           *)
Exemplar(value, time, filtered, trace_id, span_id) ==
    [value |-> value, time |-> time, filtered |-> filtered, trace_id |-> trace_id,
     span_id |-> span_id]
NumberData(value) == [shape |-> "Number", value |-> value]
HistogramData(count, sum, min, max, buckets, bounds) ==
    [shape |-> "Histogram", count |-> count, sum |-> sum, min |-> min, max |-> max,
     buckets |-> buckets, bounds |-> bounds]
ExponentialData(count, sum, min, max, positive, negative) ==
    [shape |-> "ExponentialHistogram", count |-> count, sum |-> sum, min |-> min,
     max |-> max, positive |-> positive, negative |-> negative]
SummaryData(count, sum, quantiles) ==
    [shape |-> "Summary", count |-> count, sum |-> sum, quantiles |-> quantiles]
MetricPoint(data, attributes, start, time, flags, exemplars) ==
    data @@ [attributes |-> attributes, start |-> start, time |-> time,
             flags |-> flags, exemplars |-> exemplars]
=============================================================================
