--------------------------- MODULE AdmissionLedger ---------------------------
(***************************************************************************)
(* The session's admission ledger (crates/telemetry-model/src/ledger.rs):  *)
(* natural identities and point identities that stand, the interned stream *)
(* identities, the serial counter and the anomaly counters.  Every action  *)
(* here runs under the ledger's mutex; who holds it is Runtime's business. *)
(***************************************************************************)
EXTENDS Records

VARIABLES
    next_serial,      \* the last session serial handed out
    spans,            \* natural identity -> the admitted span, or None
    points,           \* point identity -> the standing point, or None
    assigned_points,  \* serial -> point identity, for forget
    streams,          \* interned stream -> the schema_url it was interned with
    anomalies         \* recorded anomalies, by kind

ledgerVars == <<next_serial, spans, points, assigned_points, streams, anomalies>>

PointEntry == [serial: Nat, w: Wires, schema: Schemas]
ASSUME LedgerAssumption == None \notin PointEntry

AnomalyKinds == {"span_conflict", "point_conflict", "provenance"}

LedgerInit ==
    /\ next_serial = 0
    /\ spans = [k \in SpanKeys |-> None]
    /\ points = [k \in PointKeys |-> None]
    /\ assigned_points = {}
    /\ streams = [s \in Streams |-> None]
    /\ anomalies = [a \in AnomalyKinds |-> 0]

LedgerTypeOK ==
    /\ next_serial \in Nat
    /\ spans \in [SpanKeys -> Wires \cup {None}]
    /\ points \in [PointKeys -> PointEntry \cup {None}]
    /\ assigned_points \subseteq [serial: Nat, key: PointKeys]
    /\ streams \in [Streams -> Schemas \cup {None}]
    /\ anomalies \in [AnomalyKinds -> Nat]

(* The record kinds no identity can collapse: log records, and spans with an *)
(* invalid id.  A fresh serial, and no ledger entry.                         *)
AdmitUnnamed(w) ==
    /\ w.gate = "pass"
    /\ w.key = None
    /\ next_serial' = next_serial + 1
    /\ UNCHANGED <<spans, points, assigned_points, streams, anomalies>>

(* Fault: a span admitted without looking up its identity.                   *)
AdmitSpanUnchecked(w) ==
    /\ w.gate = "pass"
    /\ w.kind = "span" /\ w.key # None
    /\ spans' = [spans EXCEPT ![w.key] = w]
    /\ UNCHANGED <<next_serial, points, assigned_points, streams, anomalies>>

(* A span whose natural identity is free.                                    *)
AdmitSpan(w) ==
    /\ w.gate = "pass"
    /\ w.kind = "span" /\ w.key # None
    /\ spans[w.key] = None
    /\ spans' = [spans EXCEPT ![w.key] = w]
    /\ UNCHANGED <<next_serial, points, assigned_points, streams, anomalies>>

(* A re-delivery of a standing span: it collapses, and a drift of the        *)
(* resource's schema_url is recorded.                                        *)
CollapseSpan(w) ==
    /\ w.gate = "pass"
    /\ w.kind = "span" /\ w.key # None
    /\ spans[w.key] # None /\ spans[w.key].body = w.body
    /\ anomalies' = IF spans[w.key].schema = w.schema THEN anomalies
                    ELSE [anomalies EXCEPT !["provenance"] = @ + 1]
    /\ UNCHANGED <<next_serial, spans, points, assigned_points, streams>>

(* A different span under a standing identity: the first record stands.      *)
ConflictSpan(w) ==
    /\ w.gate = "pass"
    /\ w.kind = "span" /\ w.key # None
    /\ spans[w.key] # None /\ spans[w.key].body # w.body
    /\ anomalies' = [anomalies EXCEPT !["span_conflict"] = @ + 1]
    /\ UNCHANGED <<next_serial, spans, points, assigned_points, streams>>

-----------------------------------------------------------------------------
(* Interning: the standing payload of a stream, or this delivery's own.      *)
FreshIntern(w) == streams[w.stream] = None
Interned(w) == IF FreshIntern(w) THEN w.schema ELSE streams[w.stream]

(* Fault: the serial counter is read but not advanced.                       *)
AdmitPointSameSerial(w) ==
    /\ w.gate = "pass"
    /\ w.kind = "point"
    /\ points[w.key] = None
    /\ points' = [points EXCEPT ![w.key] =
                    [serial |-> next_serial + 1, w |-> w, schema |-> Interned(w)]]
    /\ assigned_points' =
         assigned_points \cup {[serial |-> next_serial + 1, key |-> w.key]}
    /\ streams' = [streams EXCEPT ![w.stream] = Interned(w)]
    /\ UNCHANGED <<next_serial, spans, anomalies>>

(* A point whose identity is free: interned stream, fresh serial, and an     *)
(* entry in both maps.                                                       *)
AdmitPoint(w) ==
    /\ w.gate = "pass"
    /\ w.kind = "point"
    /\ points[w.key] = None
    /\ next_serial' = next_serial + 1
    /\ points' = [points EXCEPT ![w.key] =
                    [serial |-> next_serial + 1, w |-> w, schema |-> Interned(w)]]
    /\ assigned_points' =
         assigned_points \cup {[serial |-> next_serial + 1, key |-> w.key]}
    /\ streams' = [streams EXCEPT ![w.stream] = Interned(w)]
    /\ UNCHANGED <<spans, anomalies>>

(* A re-delivery of a standing point of the same stream.  The drift check    *)
(* compares the delivery with the interned stream, not with the stream the   *)
(* standing point was admitted under.                                        *)
CollapsePoint(w) ==
    /\ w.gate = "pass"
    /\ w.kind = "point"
    /\ points[w.key] # None
    /\ points[w.key].w.stream = w.stream /\ points[w.key].w.body = w.body
    /\ streams' = [streams EXCEPT ![w.stream] = Interned(w)]
    /\ anomalies' = IF Interned(w) = w.schema THEN anomalies
                    ELSE [anomalies EXCEPT !["provenance"] = @ + 1]
    /\ UNCHANGED <<next_serial, spans, points, assigned_points>>

(* A conflicting point: another payload under the same stream (the intern    *)
(* stays), or a changed descriptor (a fresh intern is undone).               *)
ConflictPoint(w) ==
    /\ w.gate = "pass"
    /\ w.kind = "point"
    /\ points[w.key] # None
    /\ points[w.key].w.stream # w.stream \/ points[w.key].w.body # w.body
    /\ streams' = IF points[w.key].w.stream = w.stream
                  THEN [streams EXCEPT ![w.stream] = Interned(w)]
                  ELSE streams
    /\ anomalies' = [anomalies EXCEPT !["point_conflict"] = @ + 1]
    /\ UNCHANGED <<next_serial, spans, points, assigned_points>>

-----------------------------------------------------------------------------
(* Fault: forget misses the second point map.                                 *)
ForgetAllHalf(entities) ==
    /\ spans' = [k \in SpanKeys |->
                    IF Natural(k) \in entities THEN None ELSE spans[k]]
    /\ assigned_points' =
         {a \in assigned_points : Assigned(a.serial) \notin entities}
    /\ points' = points

(* forget over a set of entities: the entry naming each one leaves both maps; *)
(* an id that names no entry changes nothing.                                 *)
ForgetAll(entities) ==
    LET gone == {a \in assigned_points : Assigned(a.serial) \in entities}
    IN  /\ spans' = [k \in SpanKeys |->
                       IF Natural(k) \in entities THEN None ELSE spans[k]]
        /\ assigned_points' = assigned_points \ gone
        /\ points' = [k \in PointKeys |->
                        IF \E a \in gone : a.key = k THEN None ELSE points[k]]

(* release_stream over a set of streams.                                      *)
ReleaseAll(released) ==
    streams' = [s \in Streams |-> IF s \in released THEN None ELSE streams[s]]

Forget(entity) ==
    /\ ForgetAll({entity})
    /\ UNCHANGED <<next_serial, streams, anomalies>>

ReleaseStream(stream) ==
    /\ ReleaseAll({stream})
    /\ UNCHANGED <<next_serial, spans, points, assigned_points, anomalies>>
=============================================================================
