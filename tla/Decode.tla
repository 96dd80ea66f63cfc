------------------------------- MODULE Decode -------------------------------
(***************************************************************************)
(* From OTLP messages to model records                                     *)
(* (crates/telemetry-ingestion/src/decode.rs): preserve, or refuse what    *)
(* cannot be represented.  A message is the decoded protobuf structure; an *)
(* id is a token, "" when the field is empty; zero is proto3's unset.      *)
(***************************************************************************)
EXTENDS Budgets

CONSTANTS
    WrongWidthIds,       \* id tokens that are not 16 or 8 bytes long
    TraceStateMembers,   \* W3C cap on list members (32 in the code)
    TraceStateBytesCap,  \* W3C cap on the whole header (512 in the code)
    Padded,              \* tokens with blanks around them
    Bare                 \* padded token -> the token without the blanks

ASSUME DecodeAssumption ==
    /\ TraceStateMembers \in Nat /\ TraceStateBytesCap \in Nat
    /\ DOMAIN Bare = Padded

Unrepresentable(error, field) == Err([why |-> error, field |-> field])
Trim(text) == IF text \in Padded THEN Bare[text] ELSE text

(* proto3 without `optional`: the empty string, and the number zero, read  *)
(* as absent.                                                              *)
PresentString(text) == IF text = "" THEN None ELSE text
PresentNumber(n) == IF n = 0 THEN None ELSE n

-----------------------------------------------------------------------------
NestedFields ==
    {"span event attribute", "span link attribute", "exemplar filtered attribute"}

AttributeCountBudget(field) ==
    IF field \in NestedFields THEN "attributes_per_nested_set"
    ELSE "attributes_per_signal"

(* A value, or an attribute whose key is only a string-table reference, is *)
(* read as absent and refuses the record.                                  *)
RECURSIVE WireValue(_, _)
KeyValue(kv, field) ==
    IF kv.strindex THEN Unrepresentable("MissingValue", <<field, "key">>)
    ELSE AndThen(WireValue(kv.value, field),
                 LAMBDA v : Ok([key |-> kv.key, value |-> v]))

WireValue(av, field) ==
    IF av = None THEN Unrepresentable("MissingValue", field)
    ELSE CASE av.any = "string" -> Ok([kind |-> "String", text |-> av.text])
           [] av.any = "bool"   -> Ok([kind |-> "Bool", flag |-> av.flag])
           [] av.any = "int"    -> Ok([kind |-> "Int", int |-> av.int])
           [] av.any = "double" -> Ok(Double(av.bits))
           [] av.any = "bytes"  -> Ok([kind |-> "Bytes", bytes |-> av.bytes])
           [] av.any = "array"  ->
                AndThen(Collect([i \in DOMAIN av.values |-> WireValue(av.values[i], field)]),
                        HomogeneousArray)
           [] av.any = "kvlist" ->
                AndThen(Collect([i \in DOMAIN av.values |-> KeyValue(av.values[i], field)]),
                        KeyValueList)
           [] av.any \in {"strindex", "unset"} ->
                Unrepresentable("MissingValue", field)

(* A set over its count budget is refused before any attribute is built.   *)
Attributes(pairs, field) ==
    AndThen(Within(AttributeCountBudget(field), Len(pairs)),
            LAMBDA count :
                AndThen(Collect([i \in 1 .. count |-> KeyValue(pairs[i], field)]),
                        AttributesOf))

-----------------------------------------------------------------------------
(* Ids: a full-width id crosses verbatim, another width is refused.        *)
WireId(id, field) ==
    IF id \in WrongWidthIds THEN Unrepresentable("IdLength", field) ELSE Ok(id)

(* A span's own ids and a link's: an empty field is the all-zero id.       *)
SpanLevelId(id, field) == IF id = "" THEN Ok("zero") ELSE WireId(id, field)

(* Fault: an absent id is filled in as zero.                               *)
OptionalIdZero(id, field) == IF id = "" THEN Ok("zero") ELSE WireId(id, field)

(* Parents, logs and exemplars: absent stays absent, and an explicit zero  *)
(* is a zero.                                                              *)
OptionalId(id, field) == IF id = "" THEN Ok(None) ELSE WireId(id, field)

(* The tracestate header: the caps first, on the raw string, then each     *)
(* member in order; a member without `=` refuses the record.               *)
TraceState(raw) ==
    IF raw.bytes = 0 THEN Ok(<<>>)
    ELSE IF raw.bytes > TraceStateBytesCap \/ Len(raw.members) > TraceStateMembers
    THEN Err([why |-> "TraceStateOverCap", members |-> Len(raw.members),
              bytes |-> raw.bytes])
    ELSE Collect([i \in DOMAIN raw.members |->
            IF raw.members[i].value = None
            THEN Unrepresentable("TraceState", raw.members[i].vendor)
            ELSE Ok([vendor |-> Trim(raw.members[i].vendor),
                     value |-> Trim(raw.members[i].value)])])

(* Open enums: a number the model has no variant for refuses the record.   *)
EnumOf(names, value, field) ==
    IF value \in 0 .. Len(names) - 1 THEN Ok(names[value + 1])
    ELSE Err([why |-> "UnknownEnumValue", field |-> field, value |-> value])

SpanKind(value) ==
    EnumOf(<<"Unspecified", "Internal", "Server", "Client", "Producer",
             "Consumer">>, value, "span kind")
StatusCode(value) == EnumOf(<<"Unset", "Ok", "Error">>, value, "status code")
Temporality(value) ==
    EnumOf(<<None, "Delta", "Cumulative">>, value, "aggregation_temporality")

Severity(value) ==
    IF value = 0 THEN Ok(None)
    ELSE IF value \notin 0 .. 255
    THEN Err([why |-> "UnknownEnumValue", field |-> "severity_number",
              value |-> value])
    ELSE SeverityNumber(value)

-----------------------------------------------------------------------------
(* The envelope a batch shares.                                            *)
DecodeResource(m, schema_url) ==
    IF m.entity_refs THEN Unrepresentable("UnsupportedEntityRefs", "resource")
    ELSE Try(<<Attributes(m.attributes, "resource attribute")>>,
             LAMBDA parts : Resource(parts[1], PresentString(schema_url), m.dropped))

DecodeScope(m, schema_url) ==
    Try(<<Attributes(m.attributes, "scope attribute")>>,
        LAMBDA parts : InstrumentationScope(m.name, PresentString(m.version), parts[1],
                                            PresentString(schema_url), m.dropped))

(* The scope's refusal comes before the resource's.                        *)
Envelope(resource, scope) ==
    Try(<<scope, resource>>, LAMBDA parts : [resource |-> parts[2], scope |-> parts[1]])

DecodeEvent(m) ==
    Try(<<Attributes(m.attributes, "span event attribute")>>,
        LAMBDA parts : SpanEvent(PresentNumber(m.time), parts[1], m.plain))

DecodeContext(m) ==
    Try(<<SpanLevelId(m.trace_id, "span trace_id"),
          SpanLevelId(m.span_id, "span span_id"), TraceState(m.trace_state)>>,
        LAMBDA parts : TraceContext(parts[1], parts[2], parts[3]))

DecodeLink(m) ==
    Try(<<DecodeContext(m), Attributes(m.attributes, "span link attribute")>>,
        LAMBDA parts : SpanLink(parts[1], parts[2], m.plain))

(* A span, field by field in the order the code evaluates them.            *)
DecodeSpan(m, envelope) ==
    Try(<<DecodeContext(m), OptionalId(m.parent, "span parent_span_id"),
          SpanKind(m.kind), Attributes(m.attributes, "span attribute"),
          Collect([i \in DOMAIN m.events |-> DecodeEvent(m.events[i])]),
          Collect([i \in DOMAIN m.links |-> DecodeLink(m.links[i])]),
          StatusCode(m.status.code)>>,
        LAMBDA parts :
            [context |-> parts[1], parent |-> parts[2], kind |-> parts[3],
             end |-> PresentNumber(m.end), resource |-> envelope.resource,
             scope |-> envelope.scope, attributes |-> parts[4], events |-> parts[5],
             links |-> parts[6], status |-> SpanStatus(parts[7], m.status.message),
             plain |-> m.plain])

(* A log record: both timestamps, both severities, the three facts of its  *)
(* trace context, each present or absent by itself.                        *)
DecodeLog(m, envelope) ==
    Try(<<Severity(m.severity),
          IF m.body = None \/ m.body.any = "unset" THEN Ok(None)
          ELSE WireValue(m.body, "log body"),
          Attributes(m.attributes, "log attribute"),
          OptionalId(m.trace_id, "log trace_id"), OptionalId(m.span_id, "log span_id")>>,
        LAMBDA parts :
            LogRecord(<<PresentNumber(m.time), PresentNumber(m.observed)>>,
                      parts[1], PresentString(m.severity_text), parts[2], envelope,
                      parts[3], <<parts[4], parts[5]>>, PresentNumber(m.flags),
                      PresentString(m.event_name), m.plain))

-----------------------------------------------------------------------------
(* The stream a Metric message declares; a metric with no data is no       *)
(* stream.                                                                 *)
DecodeStream(m, envelope) ==
    LET kind == CASE m.data.kind = "Sum" -> SumKind(m.data.monotonic)
                  [] OTHER -> [kind |-> m.data.kind]
    IN  IF m.data = None THEN Unrepresentable("EmptyMetric", "metric")
        ELSE Try(<<IF CarriesTemporality(kind) THEN Temporality(m.data.temporality)
                   ELSE Ok(None),
                   Attributes(m.metadata, "metric metadata")>>,
                 LAMBDA parts :
                    StreamIdentity(envelope.resource, envelope.scope, m.name,
                       [description |-> PresentString(m.description),
                        unit |-> PresentString(m.unit), metadata |-> parts[2]],
                       kind, parts[1]))

DecodeExemplar(m) ==
    IF m.value = None THEN Unrepresentable("MissingValue", "exemplar value")
    ELSE Try(<<Attributes(m.filtered, "exemplar filtered attribute"),
               OptionalId(m.trace_id, "log trace_id"),
               OptionalId(m.span_id, "log span_id")>>,
             LAMBDA parts : Exemplar(m.value, m.time, parts[1], parts[2], parts[3]))

Exemplars(ms) == Collect([i \in DOMAIN ms |-> DecodeExemplar(ms[i])])

(* What all point shapes share, and what each adds.                        *)
PointOf(m, data) ==
    Try(<<Attributes(m.attributes, "data point attribute"), Exemplars(m.exemplars)>>,
        LAMBDA parts : MetricPoint(data, parts[1], PresentNumber(m.start), m.time,
                                   m.flags, parts[2]))

NumberPoint(m) ==
    IF m.value = None THEN Unrepresentable("MissingValue", "data point value")
    ELSE PointOf(m, NumberData(m.value))

(* The interval shapes need a start; zero reads as absent.                 *)
RequireStart(m, point, field) ==
    IF m.start = 0 THEN Unrepresentable("MissingValue", field) ELSE point

HistogramPoint(m) ==
    RequireStart(m,
        PointOf(m, HistogramData(m.count, m.sum, m.min, m.max, m.buckets, m.bounds)),
        "histogram start_time_unix_nano")

(* Missing bucket layouts are empty ones.                                  *)
ExponentialHistogramPoint(m) ==
    RequireStart(m,
        PointOf(m, ExponentialData(m.count, m.sum, m.min, m.max,
                                   IF m.positive = None THEN 0 ELSE m.positive,
                                   IF m.negative = None THEN 0 ELSE m.negative)),
        "exponential histogram start_time_unix_nano")

(* A summary's sum of positive zero is unset on the wire, negative zero is *)
(* a value; its exemplars are none.                                        *)
SummaryPoint(m) ==
    RequireStart(m,
        PointOf([m EXCEPT !.exemplars = <<>>],
                SummaryData(m.count, IF m.sum = "+0" THEN None ELSE m.sum, m.quantiles)),
        "summary start_time_unix_nano")

(* The points of one metric, each with its own result.                     *)
IntoPoints(m) ==
    IF m.data = None THEN <<>>
    ELSE [i \in DOMAIN m.data.points |->
            LET p == m.data.points[i]
            IN  CASE m.data.kind \in {"Gauge", "Sum"} -> NumberPoint(p)
                  [] m.data.kind = "Histogram" -> HistogramPoint(p)
                  [] m.data.kind = "ExponentialHistogram" ->
                        ExponentialHistogramPoint(p)
                  [] m.data.kind = "Summary" -> SummaryPoint(p)]

PointCount(m) == IF m.data = None THEN 0 ELSE Len(m.data.points)
=============================================================================
