---------------------------- MODULE AccountedSize ----------------------------
(***************************************************************************)
(* Accounted size, the one definition every byte ceiling counts            *)
(* (crates/telemetry-model/src/size.rs), with the code's own charges.      *)
(* `plain` stands for a structure's verbatim strings and fixed-width       *)
(* fields, charged as one named string.                                    *)
(***************************************************************************)
EXTENDS Telemetry, SequencesExt

CONSTANTS
    Slot,       \* type -> the charge of one element of a vector of that type
    WireDepth   \* no decoded value nests deeper (the wire decoder's limit)

StructureFixedBytes == 16
KeyedEntryBytes == 160
AttributeMapNodeBytes == 768
StringAllocationChunkBytes == 32

HeapString(text) == StringAllocationChunkBytes + Bytes(text)
Sum(numbers) == FoldSeq(LAMBDA a, b : a + b, 0, numbers)
Optional(field, charge) == IF field = None THEN 0 ELSE charge
OptionalText(field) == IF field = None THEN 0 ELSE HeapString(field)

(* What one value charges by itself: its payload, and one slot or one      *)
(* keyed entry per value it contains.                                      *)
OwnBytes(v) ==
    CASE v.kind = "String" -> Bytes(v.text)
      [] v.kind = "Bool"   -> 1
      [] v.kind \in {"Int", "Double"} -> 8
      [] v.kind = "Bytes"  -> Bytes(v.bytes)
      [] v.kind = "Array"  -> Len(v.items) * Slot["Value"]
      [] v.kind = "KvList" -> Sum([i \in DOMAIN v.entries |->
                                  KeyedEntryBytes + Bytes(v.entries[i].key)])

(* The work stack: round by round, every value on it gives way to its      *)
(* children, until nothing is left.                                        *)
ValueBytes(v) ==
    LET Down(stack) == FlattenSeq([i \in DOMAIN stack |-> Children(stack[i])])
        stack[n \in 0 .. WireDepth] ==
            IF n = 0 THEN <<v>> ELSE Down(stack[n - 1])
        Total(values) == Sum([i \in DOMAIN values |-> OwnBytes(values[i])])
    IN  Sum([n \in 1 .. WireDepth + 1 |-> Total(stack[n - 1])])

AttributeEntrySize(key, v) == KeyedEntryBytes + Bytes(key) + ValueBytes(v)

(* A non-empty map charges one node and every entry.                       *)
AttributesBytes(map) ==
    IF DOMAIN map = {} THEN 0
    ELSE AttributeMapNodeBytes
         + Sum([i \in 1 .. Cardinality(DOMAIN map) |->
                   LET key == SetToSeq(DOMAIN map)[i]
                   IN  AttributeEntrySize(key, map[key])])

(* A vector of structures: a slot per element and the elements.            *)
Elements(seq, type, sizes) == Len(seq) * Slot[type] + Sum(sizes)

TraceStateBytes(entries) ==
    Sum([i \in DOMAIN entries |->
           KeyedEntryBytes + Bytes(entries[i].vendor) + Bytes(entries[i].value)])

ContextBytes(context) ==
    StructureFixedBytes + 16 + 8 + 4 + TraceStateBytes(context.tracestate)

ResourceBytes(r) ==
    StructureFixedBytes + AttributesBytes(r.attributes)
    + OptionalText(r.schema_url) + 4

ScopeBytes(s) ==
    StructureFixedBytes + HeapString(s.name) + OptionalText(s.version)
    + AttributesBytes(s.attributes) + OptionalText(s.schema_url) + 4

SpanEventBytes(e) ==
    StructureFixedBytes + 8 + HeapString(e.plain) + AttributesBytes(e.attributes) + 4

SpanLinkBytes(l) ==
    StructureFixedBytes + ContextBytes(l.context) + AttributesBytes(l.attributes) + 4

(* A span pays for everything it reaches, shared or not.                   *)
SpanBytes(s) ==
    StructureFixedBytes + ContextBytes(s.context) + Optional(s.parent, 8)
    + HeapString(s.plain) + 1 + 8 + Optional(s.end, 8)
    + ResourceBytes(s.resource) + ScopeBytes(s.scope)
    + AttributesBytes(s.attributes) + 12
    + Elements(s.events, "SpanEvent",
               [i \in DOMAIN s.events |-> SpanEventBytes(s.events[i])])
    + Elements(s.links, "SpanLink",
               [i \in DOMAIN s.links |-> SpanLinkBytes(s.links[i])])
    + StructureFixedBytes + 1 + HeapString(s.status.message)

LogBytes(r) ==
    StructureFixedBytes + Optional(r.time, 8) + Optional(r.observed, 8)
    + Optional(r.severity, 1) + OptionalText(r.severity_text)
    + (IF r.body = None THEN 0 ELSE ValueBytes(r.body))
    + ResourceBytes(r.resource) + ScopeBytes(r.scope)
    + AttributesBytes(r.attributes) + 4
    + Optional(r.trace_id, 16) + Optional(r.span_id, 8) + Optional(r.flags, 4)
    + OptionalText(r.event_name)

ExemplarBytes(e) ==
    StructureFixedBytes + 8 + 8 + AttributesBytes(e.filtered)
    + Optional(e.trace_id, 16) + Optional(e.span_id, 8)

(* The numeric vectors of a point, by shape.                               *)
VectorBytes(p) ==
    CASE p.shape = "Number" -> 8
      [] p.shape = "Histogram" ->
            8 + Optional(p.sum, 8) + (p.buckets + p.bounds) * Slot["u64"]
            + Optional(p.min, 8) + Optional(p.max, 8)
      [] p.shape = "ExponentialHistogram" ->
            8 + Optional(p.sum, 8) + 20 + 2 * (StructureFixedBytes + 4)
            + (p.positive + p.negative) * Slot["u64"]
            + Optional(p.min, 8) + Optional(p.max, 8)
      [] p.shape = "Summary" ->
            8 + Optional(p.sum, 8)
            + p.quantiles * (Slot["Quantile"] + StructureFixedBytes + 16)

PointBytes(p) ==
    StructureFixedBytes + AttributesBytes(p.attributes) + Optional(p.start, 8)
    + 8 + VectorBytes(p) + 4
    + Elements(p.exemplars, "Exemplar",
               [i \in DOMAIN p.exemplars |-> ExemplarBytes(p.exemplars[i])])

StreamIdentityBytes(s) ==
    StructureFixedBytes + ResourceBytes(s.resource) + ScopeBytes(s.scope)
    + HeapString(s.name) + OptionalText(s.description) + OptionalText(s.unit)
    + AttributesBytes(s.metadata) + 1
=============================================================================
