------------------------------- MODULE Cursors -------------------------------
(***************************************************************************)
(* Continuation cursors (crates/query/src/cursor.rs) and the snapshot      *)
(* leases that pin a continuation (crates/query/src/lease.rs): their byte  *)
(* layout, the strict parser, and the tests a presented cursor must pass.  *)
(*                                                                         *)
(* A fingerprint is FNV-1a of some bytes and stands for them: collisions   *)
(* are left out.  A query's is a word of its own, which cursors carry; a   *)
(* boundary's is only ever compared, and is the bytes themselves.          *)
(***************************************************************************)
EXTENDS Filters

CONSTANTS
    TraceBytes,       \* TraceId::LENGTH
    SpanBytes,        \* SpanId::LENGTH
    FingerprintOf     \* the fingerprint of a query's canonical bytes

(* An entity id: a span's own, or an assigned serial.                      *)
SpanEntity(trace_id, span_id) == [trace_id |-> trace_id, span_id |-> span_id, serial |-> None]
Assigned(serial) == [trace_id |-> None, span_id |-> None, serial |-> serial]
IsSpan(entity) == entity.serial = None

Ids(length) == [1 .. length -> Byte]
Entities ==
    [trace_id : Ids(TraceBytes), span_id : Ids(SpanBytes), serial : {None}]
      \cup [trace_id : {None}, span_id : {None}, serial : Words \ {0}]

(* A residency key, and the order scans and cursors share: admission time, *)
(* then spans before assigned ids, then the ids' own order.                *)
AdmissionKey(at, entity) == [at |-> at, entity |-> entity]
ResidencyKeys == [at : Words, entity : Entities]

LessBytes(a, b) ==
    \E i \in DOMAIN a : a[i] < b[i] /\ \A j \in 1 .. i - 1 : a[j] = b[j]

EntityBefore(a, b) ==
    IF IsSpan(a) /\ IsSpan(b)
    THEN LessBytes(a.trace_id \o a.span_id, b.trace_id \o b.span_id)
    ELSE IF IsSpan(a) \/ IsSpan(b) THEN IsSpan(a)
    ELSE a.serial < b.serial

KeyBefore(a, b) == a.at < b.at \/ (a.at = b.at /\ EntityBefore(a.entity, b.entity))

-----------------------------------------------------------------------------
SPAN_TAG == 0
ASSIGNED_TAG == 1
HeaderLen == 2 * WordBytes
IdRegionLen(tag) == IF tag = SPAN_TAG THEN TraceBytes + SpanBytes ELSE WordBytes

PushEntity(entity) ==
    IF IsSpan(entity) THEN <<SPAN_TAG>> \o entity.trace_id \o entity.span_id
    ELSE <<ASSIGNED_TAG>> \o Word(entity.serial)

BoundaryBytes(key) == Word(key.at) \o PushEntity(key.entity)

CursorPayload(position, last_entity, fingerprint, snapshot) ==
    [position |-> position, last_entity |-> last_entity, fingerprint |-> fingerprint,
     snapshot |-> snapshot]

Payloads ==
    [position : Words, last_entity : Entities, fingerprint : Ids(WordBytes),
     snapshot : ResidencyKeys]

ASSUME CursorsAssumption ==
    /\ TraceBytes \in Nat \ {0} /\ SpanBytes \in Nat \ {0}
    /\ None \notin Nat \cup Seq(Byte) \cup ResidencyKeys \cup Payloads
                  \cup [entity : Entities, end : Nat]
                  \cup [investigation : Nat, snapshot : Seq(Byte)]
                  \cup {"Malformed", "FingerprintMismatch", "LeaseMismatch"}

Encode(payload) ==
    Word(payload.position) \o payload.fingerprint \o PushEntity(payload.last_entity)
    \o Word(payload.snapshot.at) \o PushEntity(payload.snapshot.entity)

-----------------------------------------------------------------------------
(* The parser reads fields off the front, each at a known offset.          *)
Slice(bytes, from, length) == SubSeq(bytes, from + 1, from + length)

(* from_le_bytes, from the highest byte down.                              *)
UnWord(bytes) ==
    LET top[i \in 0 .. WordBytes] ==
            IF i = 0 THEN 0 ELSE bytes[WordBytes - i + 1] + Base * top[i - 1]
    IN  top[WordBytes]

(* The tagged entity at an offset and what lies behind it, or None: an     *)
(* unknown tag, an id region that does not fit, a zero serial.             *)
ParseEntity(bytes, from) ==
    IF from >= Len(bytes) \/ bytes[from + 1] \notin {SPAN_TAG, ASSIGNED_TAG} THEN None
    ELSE LET tag == bytes[from + 1]
             end == from + 1 + IdRegionLen(tag)
             region == Slice(bytes, from + 1, IdRegionLen(tag))
         IN  IF end > Len(bytes) THEN None
             ELSE IF tag = SPAN_TAG
             THEN [entity |-> SpanEntity(Slice(region, 0, TraceBytes),
                                         Slice(region, TraceBytes, SpanBytes)),
                   end |-> end]
             ELSE IF UnWord(region) = 0 THEN None
             ELSE [entity |-> Assigned(UnWord(region)), end |-> end]

(* The whole layout and nothing behind it, or None.                        *)
Parse(bytes) ==
    IF Len(bytes) <= HeaderLen THEN None
    ELSE LET last == ParseEntity(bytes, HeaderLen)
         IN  IF last = None THEN None
             ELSE IF Len(bytes) - last.end < WordBytes THEN None
             ELSE LET boundary == ParseEntity(bytes, last.end + WordBytes)
                  IN  IF boundary = None THEN None
                      ELSE IF boundary.end # Len(bytes) THEN None
                      ELSE CursorPayload(UnWord(Slice(bytes, 0, WordBytes)), last.entity,
                                         Slice(bytes, WordBytes, WordBytes),
                                         AdmissionKey(UnWord(Slice(bytes, last.end, WordBytes)),
                                                      boundary.entity))

-----------------------------------------------------------------------------
(* A lease binds an investigation to the fingerprint of one boundary.      *)
SnapshotFingerprint(boundary) == BoundaryBytes(boundary)
SnapshotLease(investigation, boundary) ==
    [investigation |-> investigation, snapshot |-> SnapshotFingerprint(boundary)]
Governs(lease, boundary) == lease.snapshot = SnapshotFingerprint(boundary)

(* Why a presented cursor is refused, in the order of the tests, or None.  *)
CursorError(bytes, fingerprint, lease) ==
    LET payload == Parse(bytes)
    IN  IF payload = None THEN "Malformed"
        ELSE IF payload.fingerprint # fingerprint THEN "FingerprintMismatch"
        ELSE IF lease # None /\ ~Governs(lease, payload.snapshot) THEN "LeaseMismatch"
        ELSE None
=============================================================================
