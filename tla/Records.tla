------------------------------ MODULE Records ------------------------------
(***************************************************************************)
(* The vocabulary every component of the native core shares: the telemetry *)
(* records that arrive on the wire, the entity ids admission names them    *)
(* by, and the residency order retention and scans walk                    *)
(* (crates/telemetry-model, crates/storage).                               *)
(***************************************************************************)
EXTENDS Integers

CONSTANTS
    SpanKeys,     \* natural identities (trace_id, span_id); numbers, in byte order
    PointKeys,    \* descriptor-less collapse keys of metric points
    Streams,      \* stream identities by content, descriptor included
    Schemas,      \* resource-level schema_urls: provenance outside identity
    Bodies,       \* payload classes: two records are equal iff key and body are
    StreamBytes,  \* accounted size of each stream identity
    Wires,        \* the decoded records clients may send
    None          \* "no key", "no stream", "no entry"

(* What the admission gates make of a decoded record: translation, shape   *)
(* law and information budgets are decided per record, without state.      *)
Gates == {"pass", "refused"}

SpanWire  == [kind: {"span"}, key: SpanKeys \cup {None}, stream: {None},
              schema: Schemas, body: Bodies, bytes: Nat, gate: Gates]
LogWire   == [kind: {"log"}, key: {None}, stream: {None},
              schema: Schemas, body: Bodies, bytes: Nat, gate: Gates]
PointWire == [kind: {"point"}, key: PointKeys, stream: Streams,
              schema: Schemas, body: Bodies, bytes: Nat, gate: Gates]

ASSUME RecordsAssumption ==
    /\ SpanKeys \subseteq Nat
    /\ None \notin SpanKeys /\ None \notin PointKeys /\ None \notin Streams
    /\ None \notin Schemas /\ None \notin Wires
    /\ StreamBytes \in [Streams -> Nat]
    /\ Wires \subseteq SpanWire \cup LogWire \cup PointWire

-----------------------------------------------------------------------------
(* Entity ids: a span with valid ids keeps its natural identity, everything *)
(* else is named by a session serial.                                       *)
Natural(key) == [tag |-> "span", id |-> key]
Assigned(serial) == [tag |-> "assigned", id |-> serial]

NaturalIds == [tag: {"span"}, id: SpanKeys]
AssignedIds == [tag: {"assigned"}, id: Nat]
EntityIds == NaturalIds \cup AssignedIds

(* An admitted record: what the queue carries and the store keeps.          *)
Records == [entity: EntityIds, at: Nat, w: Wires]

ASSUME NoneAssumption == None \notin Records \cup EntityIds \cup Nat

-----------------------------------------------------------------------------
(* The residency order: admission time first, entity id as the tie-break,   *)
(* natural identities before assigned serials.                              *)
EntityBefore(a, b) ==
    \/ a.tag = "span" /\ b.tag = "assigned"
    \/ a.tag = b.tag /\ a.id < b.id

KeyBefore(r, s) ==
    \/ r.at < s.at
    \/ r.at = s.at /\ EntityBefore(r.entity, s.entity)

(* r is the oldest of S: every other record of S comes after it.            *)
IsOldest(r, S) == r \in S /\ \A s \in S \ {r} : KeyBefore(r, s)

(* The accounted size of a queued record: a point charges its stream        *)
(* identity in full wherever it appears.                                    *)
QueuedBytes(w) ==
    IF w.kind = "point" THEN w.bytes + StreamBytes[w.stream] ELSE w.bytes
=============================================================================
