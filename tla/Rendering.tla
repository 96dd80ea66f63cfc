------------------------------ MODULE Rendering ------------------------------
(***************************************************************************)
(* The JSON in which the HTTP surface answers an investigation, and in     *)
(* which it takes a subject (crates/server/src/investigation_http.rs).     *)
(***************************************************************************)
EXTENDS JsonForms

Hex(bytes) ==
    [i \in 1 .. 2 * Len(bytes) |->
        LET byte == bytes[(i + 1) \div 2]
        IN  IF i % 2 = 1 THEN byte \div Digits ELSE byte % Digits]

-----------------------------------------------------------------------------
(* Entities.                                                               *)
RenderEntity(entity) ==
    IF entity.serial = None
    THEN [span |-> [trace_id |-> Hex(entity.trace_id), span_id |-> Hex(entity.span_id)]]
    ELSE [assigned |-> entity.serial]

(* The form in which a refusal names its subject.                          *)
EntityText(entity) ==
    IF entity.serial = None
    THEN [trace |-> Hex(entity.trace_id), span |-> Hex(entity.span_id)]
    ELSE [serial |-> entity.serial]

IsHex(text) == \A i \in DOMAIN text : text[i] < Digits
UnHex(text) ==
    [i \in 1 .. Len(text) \div 2 |-> text[2 * i - 1] * Digits + text[2 * i]]

(* A descriptor: a span by its two ids, each in full and in hex, or a      *)
(* serial from 1 on.  An id that is short is refused by its name, one with *)
(* a character that is no digit by the character.                          *)
ParseEntity(value) ==
    IF Has(value, "span")
    THEN IF ~Has(value.span, "trace_id") THEN Err("needs_trace_id")
         ELSE IF ~Has(value.span, "span_id") THEN Err("needs_span_id")
         ELSE IF Len(value.span.trace_id) # 2 * TraceBytes THEN Err("trace_id_length")
         ELSE IF ~IsHex(value.span.trace_id) THEN Err("hex")
         ELSE IF Len(value.span.span_id) # 2 * SpanBytes THEN Err("span_id_length")
         ELSE IF ~IsHex(value.span.span_id) THEN Err("hex")
         ELSE Ok(SpanId(UnHex(value.span.trace_id), UnHex(value.span.span_id)))
    ELSE IF Has(value, "assigned")
    THEN IF value.assigned = 0 THEN Err("serial") ELSE Ok(AssignedId(value.assigned))
    ELSE Err("entity")

-----------------------------------------------------------------------------
(* Who was asked about and what the flow resolved it to.                   *)
RenderEffectiveRoot(root) == [entity |-> RenderEntity(root)]
RenderNote(note) ==
    IF note.kind = "trace_rooted_at"
    THEN [kind |-> note.kind, entity |-> RenderEntity(note.entity)]
    ELSE [kind |-> note.kind]
RenderSubject(subject) ==
    [requested |-> [root_span |-> RenderEntity(subject.requested)],
     effective |-> [root |-> RenderEffectiveRoot(subject.root),
                    notes |-> Each(RenderNote, subject.notes)]]

(* What the answer cost and left out.                                      *)
RenderMagnitude(dimension, amount) ==
    CASE dimension = "deadline" -> [duration_ms |-> amount]
      [] dimension \in {"results", "scan"} -> [units |-> amount]
      [] OTHER -> [bytes |-> amount]

RenderTruncationPoint(truncation) ==
    IF truncation.cursor # None THEN [cursor |-> [hex |-> Hex(truncation.cursor)]]
    ELSE [last_examined |-> RenderEntity(truncation.last_examined)]

RenderTruncation(truncation) ==
    [dimension |-> truncation.dimension, position |-> RenderTruncationPoint(truncation),
     omitted |-> truncation.omitted]

RenderRefusal(refusal) ==
    [dimension |-> refusal.dimension,
     limit |-> RenderMagnitude(refusal.dimension, refusal.limit),
     observed |-> RenderMagnitude(refusal.dimension, refusal.observed)]

RenderOutcome(outcome) ==
    CASE outcome.kind = "degraded" ->
           [kind |-> "degraded", truncation |-> RenderTruncation(outcome.truncation)]
      [] outcome.kind = "refused" ->
           [kind |-> "refused", refusal |-> RenderRefusal(outcome.refusal)]
      [] OTHER -> [kind |-> outcome.kind]

RenderCoverage(entry) ==
    CASE entry.kind = "eviction_gap" ->
           [kind |-> entry.kind, after |-> RenderEntity(entry.after),
            before |-> RenderEntity(entry.before)]
      [] entry.kind = "snapshot_boundary" ->
           [kind |-> entry.kind, admission_time |-> entry.admission_time,
            entity |-> RenderEntity(entry.entity)]
      [] entry.kind = "uncounted_tail" ->
           [kind |-> entry.kind, after |-> RenderEntity(entry.after),
            dimension |-> entry.dimension]
      [] OTHER -> [kind |-> "driver_stall", after |-> RenderEntity(entry.after)]

RenderRun(run) ==
    [outcome |-> RenderOutcome(run.outcome),
     coverage |-> Each(RenderCoverage, run.coverage),
     next_cursor |-> OrNull(run.next_cursor, [hex |-> Hex(run.next_cursor)])]

RenderRunGroup(group) == [part |-> group.part, runs |-> Each(RenderRun, group.runs)]

RenderFlowCoverage(entry) ==
    CASE entry.kind = "metric_window" ->
           [kind |-> entry.kind, asked |-> entry.asked, resident |-> entry.resident]
      [] entry.kind = "admission_anomalies" -> [kind |-> entry.kind, total |-> entry.total]
      [] entry.kind = "residency_hole" ->
           [kind |-> entry.kind, part |-> entry.part, count |-> entry.count]
      [] entry.kind = "suppressed_evidence" ->
           [kind |-> entry.kind, log |-> RenderEntity(entry.log),
            span |-> RenderEntity(entry.span), suppressed |-> entry.suppressed]
      [] entry.kind = "absent_trace_spans" ->
           [kind |-> entry.kind, log |-> RenderEntity(entry.log)]
      [] entry.kind = "relation_shrinkage" -> [kind |-> entry.kind, count |-> entry.count]
      [] entry.kind = "correlation_degradation" ->
           [kind |-> entry.kind, at |-> [kind |-> entry.stop, value |-> entry.value]]
      [] OTHER -> [kind |-> "temporal_strategy_skipped", reason |-> entry.reason]

RenderExecution(execution) ==
    [run_groups |-> Each(RenderRunGroup, execution.run_groups),
     flow_coverage |-> Each(RenderFlowCoverage, execution.flow_coverage)]

-----------------------------------------------------------------------------
(* Model values.  Bytes are a text of their hex, a double that is not      *)
(* finite has no JSON form but null, and an object keeps no order of keys. *)
RenderScalar(value) ==
    CASE value.kind = "String" -> [text |-> value.text]
      [] value.kind = "Int"    -> [int |-> value.int]
      [] value.kind = "Bool"   -> [bool |-> value.bool]
      [] value.kind = "Bytes"  -> [text |-> Hex(value.bytes)]
      [] OTHER -> IF value.finite THEN [double |-> value.bits] ELSE Null

RenderModelValue(value) ==
    CASE value.kind = "Array"  -> [array |-> Each(RenderScalar, value.items)]
      [] value.kind = "KvList" ->
           [object |-> [k \in {value.entries[i].key : i \in DOMAIN value.entries} |->
                          RenderScalar(value.entries[CHOOSE i \in DOMAIN value.entries :
                                                       value.entries[i].key = k].value)]]
      [] OTHER -> RenderScalar(value)

(* Relations, with both ends, their facts and the strategy that claims     *)
(* them.                                                                   *)
RenderSignalRef(reference) ==
    [kind |-> reference.kind, entity |-> RenderEntity(reference.entity)]
RenderFact(fact) == [field |-> fact.field, value |-> RenderModelValue(fact.value)]
RenderRelation(relation) ==
    [type |-> relation.type, from |-> RenderSignalRef(relation.from),
     to |-> RenderSignalRef(relation.to), facts |-> Each(RenderFact, relation.facts),
     strategy |-> relation.strategy, window |-> OrNull(relation.window, relation.window)]
RenderCorrelated(relations) == [relations |-> Each(RenderRelation, relations)]

(* Fault: a span that has not ended is shown as if it ended at once.       *)
RenderSpanViewEnded(view) ==
    [entity |-> OrNull(view.entity, RenderEntity(view.entity)),
     span |-> [ids |-> RenderEntity(view.span.context), name |-> view.span.name,
               parent |-> OrNull(view.span.parent, Hex(view.span.parent)),
               start |-> view.span.start,
               end |-> IF view.span.end = None THEN view.span.start ELSE view.span.end]]

(* The records shown: of a span its place in the trace and in time, of a   *)
(* log its times, body and context, of a point its shape, and a number's   *)
(* time and value; the rest of a record is not shown.                      *)
RenderSpanView(view) ==
    [entity |-> OrNull(view.entity, RenderEntity(view.entity)),
     span |-> [ids |-> RenderEntity(view.span.context), name |-> view.span.name,
               parent |-> OrNull(view.span.parent, Hex(view.span.parent)),
               start |-> view.span.start, end |-> OrNull(view.span.end, view.span.end)]]

RenderLogView(view) ==
    [entity |-> OrNull(view.entity, RenderEntity(view.entity)),
     log |-> [timestamp |-> OrNull(view.log.time, view.log.time),
              observed |-> OrNull(view.log.observed, view.log.observed),
              body |-> OrNull(view.log.body, RenderModelValue(view.log.body)),
              trace_id |-> OrNull(view.log.trace_id, Hex(view.log.trace_id)),
              span_id |-> OrNull(view.log.span_id, Hex(view.log.span_id))]]
RenderNumber(number) ==
    IF number.kind = "Int" THEN [int |-> number.int]
    ELSE [double |-> IF number.finite THEN number.bits ELSE Null]
RenderPoint(point) ==
    IF point.shape = "number"
    THEN [shape |-> "number", time |-> point.time, value |-> RenderNumber(point.value)]
    ELSE [shape |-> point.shape]
RenderPointView(view) ==
    [entity |-> OrNull(view.entity, RenderEntity(view.entity)),
     point |-> RenderPoint(view.point), stream |-> [name |-> view.stream]]
RenderEvidence(evidence) ==
    [spans |-> Each(RenderSpanView, evidence.spans), logs |-> Each(RenderLogView, evidence.logs),
     points |-> Each(RenderPointView, evidence.points)]

(* The limits, as admitted.                                                *)
RenderLimits(limits) ==
    [budget |-> [page |-> limits.budget.page, max_bytes |-> limits.budget.max_bytes],
     chain |-> [limits |-> limits.chain.limits, spent |-> limits.chain.spent,
                stopped |-> OrNull(limits.chain.stopped, limits.chain.stopped)],
     strategy_versions |-> limits.strategy_versions,
     eviction |-> [resident_records |-> limits.eviction.resident_records,
                   total_evictions |-> limits.eviction.total_evictions]]

RenderInvestigation(envelope) ==
    [subject |-> RenderSubject(envelope.subject),
     execution |-> RenderExecution(envelope.execution),
     correlated |-> RenderCorrelated(envelope.correlated),
     evidence |-> RenderEvidence(envelope.evidence),
     limits |-> RenderLimits(envelope.limits)]
=============================================================================
