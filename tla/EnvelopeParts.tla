---------------------------- MODULE EnvelopeParts ----------------------------
(***************************************************************************)
(* The parts of an investigation's envelope (crates/investigation/src:     *)
(* subject.rs, execution.rs, evidence.rs, limits.rs): what each may hold   *)
(* by its type, and what the engine sees to of a stall.                    *)
(***************************************************************************)
EXTENDS Naturals, Sequences

CONSTANT None  \* an absent field

(* Entities are by their two ids, or by a serial from 1 on.                *)
IsEntity(e) ==
    /\ DOMAIN e = {"trace_id", "span_id", "serial"}
    /\ IF e.serial = None THEN None \notin {e.trace_id, e.span_id}
       ELSE e.serial >= 1 /\ e.trace_id = None /\ e.span_id = None

Every(items, Test(_)) == \A i \in DOMAIN items : Test(items[i])

-----------------------------------------------------------------------------
(* Execution: what each page came to.                                      *)
Dimensions == {"deadline", "results", "bytes", "scan", "aggregation_memory"}
PartNames == {"spans", "related_logs", "surrounding_metrics"}

(* A truncation stands at a cursor or at the last entity examined.         *)
IsTruncation(t) ==
    /\ t.dimension \in Dimensions /\ t.omitted \in Nat
    /\ IF t.cursor = None THEN IsEntity(t.last_examined) ELSE t.last_examined = None

IsOutcome(o) ==
    \/ o.kind \in {"complete", "stalled"}
    \/ o.kind = "degraded" /\ IsTruncation(o.truncation)
    \/ o.kind = "refused" /\ o.refusal.dimension \in Dimensions

IsCoverage(entry) ==
    \/ entry.kind = "eviction_gap" /\ IsEntity(entry.after) /\ IsEntity(entry.before)
    \/ entry.kind = "snapshot_boundary" /\ IsEntity(entry.entity) /\ entry.admission_time \in Nat
    \/ entry.kind = "uncounted_tail" /\ IsEntity(entry.after) /\ entry.dimension \in Dimensions
    \/ entry.kind = "driver_stall" /\ IsEntity(entry.after)

IsRun(run) == IsOutcome(run.outcome) /\ Every(run.coverage, IsCoverage)
IsRunGroup(group) == group.part \in PartNames /\ Every(group.runs, IsRun)

CorrelationStops == {"max_depth", "scan_exhausted", "max_relations"}
IsFlowCoverage(entry) ==
    \/ entry.kind = "metric_window"
    \/ entry.kind = "admission_anomalies" /\ entry.total \in Nat
    \/ entry.kind = "residency_hole" /\ entry.part \in PartNames /\ entry.count \in Nat
    \/ entry.kind = "suppressed_evidence" /\ IsEntity(entry.log) /\ IsEntity(entry.span)
    \/ entry.kind = "absent_trace_spans" /\ IsEntity(entry.log)
    \/ entry.kind = "relation_shrinkage" /\ entry.count \in Nat
    \/ entry.kind = "correlation_degradation" /\ entry.stop \in CorrelationStops
    \/ entry.kind = "temporal_strategy_skipped"

IsExecution(execution) ==
    /\ Every(execution.run_groups, IsRunGroup)
    /\ Every(execution.flow_coverage, IsFlowCoverage)

(* A stall is in the coverage of its run: the engine always says so there. *)
(* A cut may leave nothing out and a refusal may observe the limit itself: *)
(* both break truncations_are_named of envelope.rs, and responses do so.   *)
StallNamed(run) ==
    run.outcome.kind = "stalled" =>
        \E i \in DOMAIN run.coverage : run.coverage[i].kind = "driver_stall"
StallsNamed(group) == Every(group.runs, StallNamed)

-----------------------------------------------------------------------------
(* Subject: what was asked for and what it resolved to.                    *)
NoteKinds == {"requested_span_is_root", "trace_rooted_at", "no_parentless_span_resident",
              "root_has_no_valid_trace_identity"}
IsSubject(subject) ==
    /\ IsEntity(subject.requested) /\ IsEntity(subject.root)
    /\ \A i \in DOMAIN subject.notes : subject.notes[i].kind \in NoteKinds

(* Evidence: a view carries its entity, unless it has none.                *)
SignalKinds == {"spans", "log_records", "metric_points"}
IsView(view) == view.entity = None \/ IsEntity(view.entity)
IsEvidence(evidence) ==
    /\ Every(evidence.spans, IsView)
    /\ Every(evidence.logs, IsView)
    /\ Every(evidence.points, IsView)

IsSignalRef(reference) == reference.kind \in SignalKinds /\ IsEntity(reference.entity)
RelationTypes == {"span_identity", "trace_identity", "parent_child", "resource_context",
                  "temporal_co_activity", "exemplar_attachment"}
IsRelation(relation) ==
    /\ relation.type \in RelationTypes /\ relation.facts # <<>>
    /\ IsSignalRef(relation.from) /\ IsSignalRef(relation.to)

(* Limits: which ceiling of the chain stopped the walks, if one did.       *)
ChainBases == {"total_pages", "total_entities"}

IsFlow(flow) ==
    /\ IsSubject(flow.subject) /\ IsExecution(flow.execution)
    /\ Every(flow.correlated, IsRelation) /\ IsEvidence(flow.evidence)
    /\ flow.stopped \in ChainBases \cup {None}
    /\ Every(flow.execution.run_groups, StallsNamed)
=============================================================================
