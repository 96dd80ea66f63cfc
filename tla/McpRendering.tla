---------------------------- MODULE McpRendering ----------------------------
(***************************************************************************)
(* The JSON in which the MCP server answers an investigation, and in which *)
(* its tools take a subject (crates/mcp/src/render.rs, tools.rs).  The     *)
(* crate keeps its own copy of every renderer and parser; this module is   *)
(* translated from that copy and uses nothing of Rendering, so that        *)
(* comparing the two compares two translations.                            *)
(***************************************************************************)
EXTENDS JsonForms

(* hex: the high digit, then the low one, of each byte in turn.            *)
McpHex(bytes) ==
    [i \in 1 .. 2 * Len(bytes) |->
        LET byte == bytes[(i + 1) \div 2]
        IN  IF i % 2 = 1 THEN byte \div Digits ELSE byte % Digits]

McpEntity(entity) ==
    IF entity.serial # None THEN [assigned |-> entity.serial]
    ELSE [span |-> [trace_id |-> McpHex(entity.trace_id), span_id |-> McpHex(entity.span_id)]]

McpEntityText(entity) ==
    IF entity.serial # None THEN [serial |-> entity.serial]
    ELSE [trace |-> McpHex(entity.trace_id), span |-> McpHex(entity.span_id)]

-----------------------------------------------------------------------------
(* tools.rs: parse_entity, parse_hex, hex_value.                           *)
McpIsHex(text) == \A i \in DOMAIN text : text[i] < Digits

(* Why a text is no id of so many bytes, if it is none.                    *)
McpHexRefusal(text, length, short) ==
    IF Len(text) # 2 * length THEN short
    ELSE IF ~McpIsHex(text) THEN "hex" ELSE None
McpParseHex(text) ==
    [i \in 1 .. Len(text) \div 2 |-> text[2 * i - 1] * Digits + text[2 * i]]

McpParseSpan(span) ==
    LET trace_refusal == McpHexRefusal(span.trace_id, TraceBytes, "trace_id_length")
        span_refusal  == McpHexRefusal(span.span_id, SpanBytes, "span_id_length")
    IN  IF trace_refusal # None THEN Err(trace_refusal)
        ELSE IF span_refusal # None THEN Err(span_refusal)
        ELSE Ok(SpanId(McpParseHex(span.trace_id), McpParseHex(span.span_id)))

McpParseEntity(value) ==
    CASE Has(value, "span") ->
           IF ~Has(value.span, "trace_id") THEN Err("needs_trace_id")
           ELSE IF ~Has(value.span, "span_id") THEN Err("needs_span_id")
           ELSE McpParseSpan(value.span)
      [] Has(value, "assigned") /\ ~Has(value, "span") ->
           IF value.assigned = 0 THEN Err("serial") ELSE Ok(AssignedId(value.assigned))
      [] OTHER -> Err("entity")

-----------------------------------------------------------------------------
(* render.rs: the subject.                                                 *)
McpNote(note) ==
    CASE note.kind = "trace_rooted_at" ->
           [kind |-> "trace_rooted_at", entity |-> McpEntity(note.entity)]
      [] OTHER -> [kind |-> note.kind]
McpSubject(subject) ==
    [requested |-> [root_span |-> McpEntity(subject.requested)],
     effective |-> [root  |-> [entity |-> McpEntity(subject.root)],
                    notes |-> Each(McpNote, subject.notes)]]

(* render.rs: the execution.                                               *)
McpMagnitude(dimension, amount) ==
    CASE dimension \in {"results", "scan"} -> [units |-> amount]
      [] dimension = "deadline"            -> [duration_ms |-> amount]
      [] OTHER                             -> [bytes |-> amount]
McpTruncationPoint(truncation) ==
    IF truncation.cursor = None THEN [last_examined |-> McpEntity(truncation.last_examined)]
    ELSE [cursor |-> [hex |-> McpHex(truncation.cursor)]]
McpTruncation(truncation) ==
    [dimension |-> truncation.dimension, position |-> McpTruncationPoint(truncation),
     omitted |-> truncation.omitted]
McpRefusal(refusal) ==
    [dimension |-> refusal.dimension,
     limit     |-> McpMagnitude(refusal.dimension, refusal.limit),
     observed  |-> McpMagnitude(refusal.dimension, refusal.observed)]
McpOutcome(outcome) ==
    CASE outcome.kind = "degraded" ->
           [kind |-> "degraded", truncation |-> McpTruncation(outcome.truncation)]
      [] outcome.kind = "refused" ->
           [kind |-> "refused", refusal |-> McpRefusal(outcome.refusal)]
      [] OTHER -> [kind |-> outcome.kind]

McpCoverage(entry) ==
    CASE entry.kind = "eviction_gap" ->
           [kind |-> "eviction_gap", after |-> McpEntity(entry.after),
            before |-> McpEntity(entry.before)]
      [] entry.kind = "snapshot_boundary" ->
           [kind |-> "snapshot_boundary", admission_time |-> entry.admission_time,
            entity |-> McpEntity(entry.entity)]
      [] entry.kind = "uncounted_tail" ->
           [kind |-> "uncounted_tail", after |-> McpEntity(entry.after),
            dimension |-> entry.dimension]
      [] OTHER -> [kind |-> "driver_stall", after |-> McpEntity(entry.after)]

McpRun(run) ==
    [outcome |-> McpOutcome(run.outcome), coverage |-> Each(McpCoverage, run.coverage),
     next_cursor |-> OrNull(run.next_cursor, [hex |-> McpHex(run.next_cursor)])]
McpRunGroup(group) == [part |-> group.part, runs |-> Each(McpRun, group.runs)]

McpFlowCoverage(entry) ==
    CASE entry.kind = "metric_window" ->
           [kind |-> "metric_window", asked |-> entry.asked, resident |-> entry.resident]
      [] entry.kind = "admission_anomalies" ->
           [kind |-> "admission_anomalies", total |-> entry.total]
      [] entry.kind = "residency_hole" ->
           [kind |-> "residency_hole", part |-> entry.part, count |-> entry.count]
      [] entry.kind = "suppressed_evidence" ->
           [kind |-> "suppressed_evidence", log |-> McpEntity(entry.log),
            span |-> McpEntity(entry.span), suppressed |-> entry.suppressed]
      [] entry.kind = "absent_trace_spans" ->
           [kind |-> "absent_trace_spans", log |-> McpEntity(entry.log)]
      [] entry.kind = "relation_shrinkage" ->
           [kind |-> "relation_shrinkage", count |-> entry.count]
      [] entry.kind = "correlation_degradation" ->
           [kind |-> "correlation_degradation",
            at |-> [kind |-> entry.stop, value |-> entry.value]]
      [] OTHER -> [kind |-> "temporal_strategy_skipped", reason |-> entry.reason]

(* Fault: the flow's own coverage is left out.                             *)
McpExecutionRunsOnly(execution) ==
    [run_groups |-> Each(McpRunGroup, execution.run_groups), flow_coverage |-> <<>>]

McpExecution(execution) ==
    [run_groups    |-> Each(McpRunGroup, execution.run_groups),
     flow_coverage |-> Each(McpFlowCoverage, execution.flow_coverage)]

-----------------------------------------------------------------------------
(* render.rs: model values.                                                *)
McpScalar(value) ==
    CASE value.kind = "String" -> [text |-> value.text]
      [] value.kind = "Int"    -> [int |-> value.int]
      [] value.kind = "Bool"   -> [bool |-> value.bool]
      [] value.kind = "Bytes"  -> [text |-> McpHex(value.bytes)]
      [] OTHER                 -> IF value.finite THEN [double |-> value.bits] ELSE Null
McpModelValue(value) ==
    CASE value.kind = "Array"  -> [array |-> Each(McpScalar, value.items)]
      [] value.kind = "KvList" ->
           LET entry(k) == CHOOSE i \in DOMAIN value.entries : value.entries[i].key = k
           IN  [object |-> [k \in {value.entries[i].key : i \in DOMAIN value.entries} |->
                              McpScalar(value.entries[entry(k)].value)]]
      [] OTHER -> McpScalar(value)

(* render.rs: the relations.                                               *)
McpSignalRef(reference) == [kind |-> reference.kind, entity |-> McpEntity(reference.entity)]
McpFact(fact) == [field |-> fact.field, value |-> McpModelValue(fact.value)]
McpRelation(relation) ==
    [type |-> relation.type, from |-> McpSignalRef(relation.from),
     to |-> McpSignalRef(relation.to), facts |-> Each(McpFact, relation.facts),
     strategy |-> relation.strategy, window |-> OrNull(relation.window, relation.window)]
McpCorrelated(relations) == [relations |-> Each(McpRelation, relations)]

(* render.rs: the views.                                                   *)
McpViewEntity(view) == OrNull(view.entity, McpEntity(view.entity))
McpSpanView(view) ==
    [entity |-> McpViewEntity(view),
     span |-> [ids    |-> McpEntity(view.span.context),
               parent |-> OrNull(view.span.parent, McpHex(view.span.parent)),
               name   |-> view.span.name, start |-> view.span.start,
               end    |-> OrNull(view.span.end, view.span.end)]]
McpLogView(view) ==
    LET log == view.log
    IN  [entity |-> McpViewEntity(view),
         log |-> [timestamp |-> OrNull(log.time, log.time),
                  observed  |-> OrNull(log.observed, log.observed),
                  body      |-> OrNull(log.body, McpModelValue(log.body)),
                  trace_id  |-> OrNull(log.trace_id, McpHex(log.trace_id)),
                  span_id   |-> OrNull(log.span_id, McpHex(log.span_id))]]
McpNumber(number) ==
    CASE number.kind = "Int" -> [int |-> number.int]
      [] OTHER -> [double |-> IF number.finite THEN number.bits ELSE Null]
McpPoint(point) ==
    CASE point.shape = "number" ->
           [shape |-> "number", time |-> point.time, value |-> McpNumber(point.value)]
      [] OTHER -> [shape |-> point.shape]
McpPointView(view) ==
    [entity |-> McpViewEntity(view), point |-> McpPoint(view.point),
     stream |-> [name |-> view.stream]]
McpEvidence(evidence) ==
    [spans  |-> Each(McpSpanView, evidence.spans), logs |-> Each(McpLogView, evidence.logs),
     points |-> Each(McpPointView, evidence.points)]

(* render.rs: the limits, and the whole.                                   *)
McpLimits(limits) ==
    LET chain == limits.chain
    IN  [budget |-> [page |-> limits.budget.page, max_bytes |-> limits.budget.max_bytes],
         chain  |-> [limits  |-> chain.limits, spent |-> chain.spent,
                     stopped |-> OrNull(chain.stopped, chain.stopped)],
         strategy_versions |-> limits.strategy_versions,
         eviction |-> [resident_records |-> limits.eviction.resident_records,
                       total_evictions  |-> limits.eviction.total_evictions]]

McpInvestigation(envelope) ==
    [subject    |-> McpSubject(envelope.subject),
     execution  |-> McpExecution(envelope.execution),
     correlated |-> McpCorrelated(envelope.correlated),
     evidence   |-> McpEvidence(envelope.evidence),
     limits     |-> McpLimits(envelope.limits)]
=============================================================================
