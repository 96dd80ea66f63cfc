--------------------------- MODULE ExportAdmission ---------------------------
(***************************************************************************)
(* One export at a time through the ingestion pipeline, by content         *)
(* (crates/telemetry-ingestion/src/pipeline.rs,                            *)
(* crates/telemetry-model/src/ledger.rs): the export gates, the record by  *)
(* record translation and admission in document order, and the atomic      *)
(* hand-off.  Runtime models the same operations under concurrency, with   *)
(* identities and verdicts as given; here they are computed from what the  *)
(* emitter sent.                                                           *)
(***************************************************************************)
EXTENDS WireFacts

CONSTANTS
    Exports,       \* the export requests a client may post
    MaxExports,    \* bound on the exports of a session
    PayloadCeiling,\* largest request body, in bytes
    QueueCeiling   \* accounted bytes the hand-off queue may hold

VARIABLES
    ledger,    \* the admission ledger
    export,    \* the request being admitted, None between two
    outcome,   \* fate of each record so far, in document order
    pending,   \* the offer-set: freshly admitted records of this export
    queued,    \* accounted bytes in the hand-off queue
    signal,    \* how the last export was answered
    posted,    \* exports so far
    live       \* ghost: the deliveries whose record stands, by entity

vars == <<ledger, export, outcome, pending, queued, signal, posted, live>>

-----------------------------------------------------------------------------
(* The records of an export in document order, each with its envelope.     *)
Positions(e) ==
    FlattenSeq([r \in DOMAIN e.groups |->
        FlattenSeq([s \in DOMAIN e.groups[r].scopes |->
            LET group == e.groups[r]
                batch == group.scopes[s]
                One(item, nth) ==
                    [resource |-> group.resource, schema |-> group.schema,
                     scope |-> batch.scope, scope_schema |-> batch.schema,
                     item |-> item, nth |-> nth]
            IN  FlattenSeq([i \in DOMAIN batch.items |->
                    IF e.signal = "metrics"
                    THEN [n \in 1 .. PointCount(batch.items[i]) |->
                              One(batch.items[i], n)]
                    ELSE <<One(batch.items[i], 0)>>])])])

(* The translation of one record: a refused envelope refuses everything    *)
(* beneath it.  Metrics read the resource's refusal first, the other       *)
(* signals the scope's.                                                    *)
Translated(sig, p) ==
    LET resource == DecodeResource(p.resource, p.schema)
        scope == DecodeScope(p.scope, p.scope_schema)
    IN  CASE sig = "spans" ->
                AndThen(Envelope(resource, scope), LAMBDA e : DecodeSpan(p.item, e))
          [] sig = "logs" ->
                AndThen(Envelope(resource, scope), LAMBDA e : DecodeLog(p.item, e))
          [] sig = "metrics" ->
                Try(<<AndThen(Try(<<resource, scope>>,
                                  LAMBDA parts : [resource |-> parts[1], scope |-> parts[2]]),
                              LAMBDA e : DecodeStream(p.item, e)),
                      IntoPoints(p.item)[p.nth]>>,
                    LAMBDA parts : [stream |-> parts[1], point |-> parts[2]])

-----------------------------------------------------------------------------
AnomalyKinds == {"span_conflicts", "point_conflicts", "provenance"}

EmptyLedger ==
    [next_serial |-> 0, spans |-> {}, points |-> {}, streams |-> {},
     anomalies |-> [k \in AnomalyKinds |-> 0]]

Noted(l, kind) == [l EXCEPT !.anomalies[kind] = @ + 1]
NextAssigned(l) == [tag |-> "assigned", id |-> <<l.next_serial + 1>>]

SpanEntity(key) == [tag |-> "span", id |-> key]

(* An admission: the ledger after it, the fate and what it is about.       *)
Fate(l, fate, entity, record, fresh) ==
    [ledger |-> l, fate |-> fate, entity |-> entity, record |-> record,
     fresh |-> fresh]
Refused(l, why) == Fate(l, "rejected", None, why, {})

AdmitSpan(l, span) ==
    LET gate == CheckSpan(span)
        key == NaturalIdentity(span)
        entity == SpanEntity(key)
        standing == {s \in l.spans : s.key = key}
    IN  IF ~gate.ok THEN Refused(l, gate.why)
        ELSE IF key = None
        THEN Fate([l EXCEPT !.next_serial = @ + 1], "admitted", NextAssigned(l), span, {})
        ELSE IF standing = {}
        THEN Fate([l EXCEPT !.spans = @ \cup {[key |-> key, span |-> span]}],
                  "admitted", entity, span, {})
        ELSE LET s == CHOOSE s \in standing : TRUE
             IN  IF ~SameSpan(s.span, span)
                 THEN Fate(Noted(l, "span_conflicts"), "conflict", entity, None, {})
                 ELSE Fate(IF s.span.resource.schema_url = span.resource.schema_url
                           THEN l ELSE Noted(l, "provenance"),
                           "collapsed", entity, s.span, {})

(* Log records have no identity and are never collapsed.                   *)
AdmitLog(l, record) ==
    LET gate == CheckLogRecord(record)
    IN  IF ~gate.ok THEN Refused(l, gate.why)
        ELSE Fate([l EXCEPT !.next_serial = @ + 1], "admitted", NextAssigned(l),
                  record, {})

(* Fault: the stream interned for a conflicting delivery stays.            *)
AdmitPointKeepsIntern(l, stream, point) ==
    LET known == {s \in l.streams : SameStream(s, stream)}
        interned == IF known = {} THEN stream ELSE CHOOSE s \in known : TRUE
        l1 == [l EXCEPT !.streams = @ \cup {interned}]
        key == PointIdentity(interned, point)
        standing == {x \in l.points : x.key = key}
        entity == NextAssigned(l)
        gates == <<CheckIdentityCoherence(stream), CheckPointCoherence(stream, point),
                   CheckStreamIdentity(stream), CheckPoint(point)>>
    IN  IF ~AllOk(gates) THEN Refused(l, FirstErr(gates).why)
        ELSE IF standing = {}
        THEN Fate([l1 EXCEPT !.next_serial = @ + 1,
                             !.points = @ \cup {[key |-> key, stream |-> interned,
                                                 point |-> point, entity |-> entity]}],
                  "admitted", entity, [stream |-> interned, point |-> point],
                  IF known = {} THEN {interned} ELSE {})
        ELSE LET x == CHOOSE x \in standing : TRUE
             IN  Fate(Noted(l1, "point_conflicts"), "conflict", x.entity, None, {})

(* A metric point: the shape law, the gates, then the intern, then what    *)
(* stands under the collapse key.                                          *)
AdmitPoint(l, stream, point) ==
    LET known == {s \in l.streams : SameStream(s, stream)}
        interned == IF known = {} THEN stream ELSE CHOOSE s \in known : TRUE
        fresh == IF known = {} THEN {interned} ELSE {}
        l1 == [l EXCEPT !.streams = @ \cup fresh]
        key == PointIdentity(interned, point)
        standing == {x \in l.points : x.key = key}
        entity == NextAssigned(l)
        gates == <<CheckIdentityCoherence(stream), CheckPointCoherence(stream, point),
                   CheckStreamIdentity(stream), CheckPoint(point)>>
    IN  IF ~AllOk(gates) THEN Refused(l, FirstErr(gates).why)
        ELSE IF standing = {}
        THEN Fate([l1 EXCEPT !.next_serial = @ + 1,
                             !.points = @ \cup {[key |-> key, stream |-> interned,
                                                 point |-> point, entity |-> entity]}],
                  "admitted", entity, [stream |-> interned, point |-> point], fresh)
        ELSE LET x == CHOOSE x \in standing : TRUE
             IN  IF ~SameStream(x.stream, interned)
                 THEN \* the first descriptor stands; the fresh intern is undone
                      Fate(Noted(l, "point_conflicts"), "conflict", x.entity, None, {})
                 ELSE IF ~IdentityPayloadEq(x.point, point, stream.kind)
                 THEN Fate(Noted(l1, "point_conflicts"), "conflict", x.entity, None, fresh)
                 ELSE Fate(IF interned.resource.schema_url = stream.resource.schema_url
                           THEN l1 ELSE Noted(l1, "provenance"),
                                    "collapsed", x.entity, x.point, fresh)

Admit(sig, l, record) ==
    CASE sig = "spans"   -> AdmitSpan(l, record)
      [] sig = "logs"    -> AdmitLog(l, record)
      [] sig = "metrics" -> AdmitPoint(l, record.stream, record.point)

(* Forgetting an entity ends its entry, if it has one.                     *)
Forget(l, entity) ==
    [l EXCEPT !.spans = {s \in @ : SpanEntity(s.key) # entity},
              !.points = {x \in @ : x.entity # entity}]
ReleaseStream(l, stream) ==
    [l EXCEPT !.streams = {s \in @ : ~SameStream(s, stream)}]

-----------------------------------------------------------------------------
(* A pipeline is built only over a queue that clears the bound its own     *)
(* budgets give.                                                           *)
Configured == QueueCeiling >= LegalRecordBound

Init ==
    /\ Configured
    /\ ledger = EmptyLedger
    /\ export = None
    /\ outcome = <<>> /\ pending = <<>>
    /\ queued = 0
    /\ signal = "ok"
    /\ posted = 0
    /\ live = {}

(* The gates before anything is admitted: size, parse, record count.       *)
GateSignal(e) ==
    IF e.bytes > PayloadCeiling THEN "PayloadOverCap"
    ELSE IF ~e.parses THEN "MalformedRequest"
    ELSE IF ~CheckExportCount(e.signal, Len(Positions(e))).ok THEN "ExportOverCap"
    ELSE "ok"

(* The one signal that invites a retry.                                    *)
IsRetryable(answer) == answer = "QueueSaturated"

Post(e) ==
    /\ export = None
    /\ posted < MaxExports
    /\ posted' = posted + 1
    /\ signal' = GateSignal(e)
    /\ outcome' = <<>>
    /\ export' = IF GateSignal(e) = "ok" THEN e ELSE None
    /\ UNCHANGED <<ledger, pending, queued, live>>

(* The fate of one record, given its translation.                          *)
FateOf(t) ==
    IF t.ok THEN Admit(export.signal, ledger, t.built) ELSE Refused(ledger, t.why)

(* What an admission leaves in the ledger, the tally and the offer-set.    *)
Tally(p, a) ==
    /\ ledger' = a.ledger
    /\ outcome' = Append(outcome,
                     [fate |-> a.fate, entity |-> a.entity, p |-> p, stood |-> live,
                      why |-> IF a.fate = "rejected" THEN a.record ELSE None])
    /\ pending' = IF a.fate # "admitted" THEN pending
                  ELSE Append(pending, [entity |-> a.entity, record |-> a.record,
                                        p |-> p, fresh |-> a.fresh])
    /\ live' = IF a.fate # "admitted" THEN live
               ELSE live \cup {[signal |-> export.signal, p |-> p, entity |-> a.entity]}

(* The next record in document order is translated and admitted.           *)
AdmitNext ==
    /\ export # None
    /\ Len(outcome) < Len(Positions(export))
    /\ LET p == Positions(export)[Len(outcome) + 1]
       IN  Tally(p, FateOf(Translated(export.signal, p)))
    /\ UNCHANGED <<export, queued, signal, posted>>

(* The accounted size of one offer; a point pays for its stream too.       *)
OfferBytes(o) ==
    CASE export.signal = "spans" -> SpanBytes(o.record)
      [] export.signal = "logs" -> LogBytes(o.record)
      [] export.signal = "metrics" ->
            StreamIdentityBytes(o.record.stream) + PointBytes(o.record.point)

Admitted == Len(outcome) = Len(Positions(export))
Fits == queued + Sum([i \in DOMAIN pending |-> OfferBytes(pending[i])]) <= QueueCeiling

(* The whole offer-set fits and is handed over.                            *)
OfferAll ==
    /\ export # None /\ Admitted /\ Fits
    /\ queued' = queued + Sum([i \in DOMAIN pending |-> OfferBytes(pending[i])])
    /\ signal' = "ok"
    /\ export' = None /\ pending' = <<>>
    /\ UNCHANGED <<ledger, outcome, posted, live>>

(* Offer by offer, the entity is forgotten and the stream this admission   *)
(* interned released.                                                      *)
Undo(l, offers) ==
    FoldLeft(LAMBDA acc, o :
                LET ended == Forget(acc, o.entity)
                IN  IF o.fresh = {} THEN ended
                    ELSE ReleaseStream(ended, CHOOSE s \in o.fresh : TRUE),
             l, offers)

(* It does not fit: nothing is offered and everything this export created  *)
(* is ended.                                                               *)
Saturate ==
    /\ export # None /\ Admitted /\ ~Fits
    /\ ledger' = Undo(ledger, pending)
    /\ live' = {d \in live : \A i \in DOMAIN pending : pending[i].entity # d.entity}
    /\ signal' = "QueueSaturated"
    /\ export' = None /\ pending' = <<>>
    /\ UNCHANGED <<outcome, queued, posted>>

(* Between exports the pump empties the queue into the store, and the      *)
(* store ends a record: its entity is forgotten, and its stream is         *)
(* released with the last point that stands in it.                         *)
PumpAll ==
    /\ export = None /\ queued > 0
    /\ queued' = 0
    /\ UNCHANGED <<ledger, export, outcome, pending, signal, posted, live>>

Evict(d) ==
    /\ export = None /\ queued = 0
    /\ LET gone == Forget(ledger, d.entity)
           streams == {s \in gone.streams :
                          \E x \in gone.points : SameStream(x.stream, s)}
       IN  ledger' = [gone EXCEPT !.streams = streams]
    /\ live' = live \ {d}
    /\ UNCHANGED <<export, outcome, pending, queued, signal, posted>>

Next ==
    \/ \E e \in Exports : Post(e)
    \/ AdmitNext
    \/ OfferAll
    \/ Saturate
    \/ PumpAll
    \/ \E d \in live : Evict(d)

Spec == Init /\ [][Next]_vars

-----------------------------------------------------------------------------
(* Nothing is lost, invented, reordered or filled in between the message   *)
(* and the record that is handed to storage: both state the same facts     *)
(* (decode.rs, "preserve or refuse").  A point is filed under the stream   *)
(* first interned, whose provenance it then carries.                       *)
AdmittedVerbatim ==
    \A i \in DOMAIN pending :
        LET kept == Kept(export.signal, pending[i].record)
            said == Said(export.signal, pending[i].p)
        IN  IF export.signal = "metrics" THEN Content(kept) = Content(said)
            ELSE kept = said

(* The attribute sets of an offer with the budget each is held to.         *)
SetsOf(record) ==
    LET Nested(seq, field) == {<<seq[i][field], "attributes_per_nested_set">> :
                                  i \in DOMAIN seq}
        Signal(map) == <<map, "attributes_per_signal">>
        shared(r) == {Signal(r.resource.attributes), Signal(r.scope.attributes)}
    IN  CASE export.signal = "spans" ->
                shared(record) \cup {Signal(record.attributes)}
                \cup Nested(record.events, "attributes")
                \cup Nested(record.links, "attributes")
          [] export.signal = "logs" -> shared(record) \cup {Signal(record.attributes)}
          [] export.signal = "metrics" ->
                shared(record.stream)
                \cup {Signal(record.stream.metadata), Signal(record.point.attributes)}
                \cup Nested(record.point.exemplars, "filtered")

(* Whatever an export holds, a record that is admitted nests no deeper     *)
(* than its limit, counted along every path to a leaf, and none of its     *)
(* attribute sets charges more than the share LegalRecordBound reserves    *)
(* for it; so the bound the queue was configured by is sound for all that  *)
(* the budgets shape (budgets.rs, Pipeline::legal_record_bound_bytes).     *)
AdmittedBounded ==
    \A i \in DOMAIN pending :
        LET record == pending[i].record
        IN  /\ \A f \in Kept(export.signal, record) :
                Cardinality({j \in DOMAIN f : f[j] \in {"Array", "KvList"}})
                    <= Limits.key_value_list_depth
            /\ \A set \in SetsOf(record) : AttributesBytes(set[1]) <= SetBound(Limits[set[2]])

(* The fate of every delivery follows from what was sent: a record is      *)
(* admitted only if nothing that stands is the same entity, collapses only *)
(* onto a delivery that said the same, conflicts only with one of the same *)
(* entity that said otherwise, and is never refused when the same message  *)
(* was admitted before (AdmissionLedger; "retrying the same bytes          *)
(* reproduces the refusal", RecordRejection).                              *)
FatesFollow ==
    export # None =>
    \A i \in DOMAIN outcome :
        LET o == outcome[i]
            said == Said(export.signal, o.p)
            same == {d \in o.stood : d.signal = export.signal
                                     /\ SameEntity(d.signal, Said(d.signal, d.p), said)}
        IN  CASE o.fate = "rejected" -> \A d \in o.stood : d.p # o.p
              [] o.fate = "admitted" ->
                    same = {} /\ \A d \in o.stood : d.entity # o.entity
              [] o.fate = "collapsed" ->
                    \E d \in same : /\ d.entity = o.entity
                                    /\ SameContent(Said(d.signal, d.p), said)
              [] o.fate = "conflict" ->
                    \E d \in same : /\ d.entity = o.entity
                                    /\ ~SameContent(Said(d.signal, d.p), said)

(* Between exports the ledger holds exactly the identities of the records  *)
(* that stand and the streams of the points that stand; after a retryable  *)
(* answer nothing the export admitted stands, so that the retry it invites *)
(* delivers each record once (Pipeline::offer_export).                     *)
InternedExactly ==
    export = None =>
        /\ {SpanEntity(s.key) : s \in ledger.spans}
             = {e \in {d.entity : d \in live} : e.tag = "span"}
        /\ {x.entity : x \in ledger.points}
             = {d.entity : d \in {d \in live : d.signal = "metrics"}}
        /\ ledger.streams = {x.stream : x \in ledger.points}
        /\ IsRetryable(signal) =>
              \A i \in DOMAIN outcome : outcome[i].fate = "admitted" =>
                  \A d \in live : d.entity # outcome[i].entity
=============================================================================
