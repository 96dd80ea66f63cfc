------------------------------- MODULE Budgets -------------------------------
(***************************************************************************)
(* The admission gates of the telemetry model                              *)
(* (crates/telemetry-model/src/budgets.rs): a record passes every budget   *)
(* or is refused whole by the first it exceeds, with the limit and the     *)
(* spend observed.                                                         *)
(***************************************************************************)
EXTENDS AccountedSize

CONSTANT Limits   \* BudgetLimits, fixed at startup

BudgetLimits ==
    [attributes_per_signal: Nat, attributes_per_nested_set: Nat,
     attribute_value_bytes: Nat, span_events_per_span: Nat,
     span_links_per_span: Nat, exemplars_per_data_point: Nat,
     key_value_list_depth: Nat, data_points_per_export: Nat,
     records_per_export: Nat, numeric_vector_entries_per_data_point: Nat]

ASSUME BudgetsAssumption == Limits \in BudgetLimits

BudgetRejection(budget, observed) ==
    Err([why |-> "Budget", budget |-> budget, limit |-> Limits[budget],
         observed |-> observed])

Within(budget, observed) ==
    IF observed > Limits[budget] THEN BudgetRejection(budget, observed)
    ELSE Ok(observed)

(* The first gate that refuses, or the record.                             *)
Gates(results, record) == IF AllOk(results) THEN Ok(record) ELSE FirstErr(results)

-----------------------------------------------------------------------------
(* The observed depth is a lower bound: the walk stops one past the limit. *)
CheckValueDepth(v) ==
    IF ExceedsNesting(v, Limits.key_value_list_depth)
    THEN BudgetRejection("key_value_list_depth", Limits.key_value_list_depth + 1)
    ELSE Ok(v)

CheckAttributeEntry(key, v) ==
    Gates(<<Within("attribute_value_bytes", AttributeEntrySize(key, v)),
            CheckValueDepth(v)>>, v)

CheckAttributeSet(map, budget) ==
    Gates(<<Within(budget, Cardinality(DOMAIN map))>>
          \o [i \in 1 .. Cardinality(DOMAIN map) |->
                 LET key == SetToSeq(DOMAIN map)[i]
                 IN  CheckAttributeEntry(key, map[key])], map)

CheckNestedSet(map) == CheckAttributeSet(map, "attributes_per_nested_set")

CheckResource(resource) ==
    CheckAttributeSet(resource.attributes, "attributes_per_signal")

CheckScope(scope) ==
    CheckAttributeSet(scope.attributes, "attributes_per_signal")

CheckSpan(span) ==
    Gates(<<CheckResource(span.resource), CheckScope(span.scope),
            CheckAttributeSet(span.attributes, "attributes_per_signal"),
            Within("span_events_per_span", Len(span.events))>>
          \o [i \in DOMAIN span.events |-> CheckNestedSet(span.events[i].attributes)]
          \o <<Within("span_links_per_span", Len(span.links))>>
          \o [i \in DOMAIN span.links |-> CheckNestedSet(span.links[i].attributes)],
          span)

(* A body has no size budget of its own, but its nesting is bounded.       *)
CheckLogRecord(record) ==
    Gates(<<CheckResource(record.resource), CheckScope(record.scope),
            CheckAttributeSet(record.attributes, "attributes_per_signal"),
            IF record.body = None THEN Ok(None) ELSE CheckValueDepth(record.body)>>,
          record)

(* The entries of a point's numeric vectors, by shape.                     *)
NumericVectorEntries(p) ==
    CASE p.shape = "Number" -> 0
      [] p.shape = "Histogram" -> p.buckets + p.bounds
      [] p.shape = "ExponentialHistogram" -> p.positive + p.negative
      [] p.shape = "Summary" -> p.quantiles

CheckPoint(p) ==
    Gates(<<CheckAttributeSet(p.attributes, "attributes_per_signal"),
            Within("exemplars_per_data_point", Len(p.exemplars))>>
          \o [i \in DOMAIN p.exemplars |-> CheckNestedSet(p.exemplars[i].filtered)]
          \o <<Within("numeric_vector_entries_per_data_point",
                      NumericVectorEntries(p))>>, p)

(* What belongs to no single point: resource, scope and metadata.          *)
CheckStreamIdentity(stream) ==
    Gates(<<CheckResource(stream.resource), CheckScope(stream.scope),
            CheckAttributeSet(stream.metadata, "attributes_per_signal")>>, stream)

(* The export gates: too many records or points refuse the whole export.   *)
CheckExportCount(signal, count) ==
    Within(IF signal = "metrics" THEN "data_points_per_export"
           ELSE "records_per_export", count)

(* The most an attribute set of so many entries may be charged, and the    *)
(* bound on the budgeted part of any legal record that the queue's         *)
(* configuration is held to.                                               *)
SetBound(count) == AttributeMapNodeBytes + count * Limits.attribute_value_bytes

LegalRecordBound ==
    LET signal_sets == 3 * SetBound(Limits.attributes_per_signal)
        nested == SetBound(Limits.attributes_per_nested_set)
        span == signal_sets
                + (Limits.span_events_per_span + Limits.span_links_per_span) * nested
        point == signal_sets + SetBound(Limits.attributes_per_signal)
                 + Limits.exemplars_per_data_point * nested
                 + Limits.numeric_vector_entries_per_data_point
                   * (Slot["Quantile"] + StructureFixedBytes + 16)
    IN  IF span > point THEN span ELSE point
=============================================================================
