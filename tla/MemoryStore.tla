----------------------------- MODULE MemoryStore -----------------------------
(***************************************************************************)
(* The in-memory store (crates/storage-memory/src/store.rs, shelf.rs): the *)
(* resident records, the per-stream residency counts, the accounted bytes  *)
(* kept incrementally beside them, and the retention law.                  *)
(*                                                                         *)
(* A keep or a retention pass runs under the store's mutex but is not one  *)
(* step: its hook deliveries take the ledger's mutex one at a time, so     *)
(* `pass` records where the holder of the store's mutex stands.            *)
(***************************************************************************)
EXTENDS Records, FiniteSets

CONSTANTS
    MaxRecords,   \* max_records
    MaxBytes,     \* max_accounted_bytes
    SeriesCap,    \* series_cap
    Window        \* admission_window

ASSUME StoreAssumption ==
    /\ MaxRecords \in Nat /\ MaxBytes \in Nat /\ SeriesCap \in Nat
    /\ Window \in Nat
    /\ None \notin {"records", "bytes", "window"}
    /\ None \notin {"duplicate", "oversized", "identity", "series"}

VARIABLES
    resident,        \* the three shelves: every resident record
    series,          \* stream -> resident points referencing it
    record_bytes,    \* the shelves' accounted sums
    identity_bytes,  \* each resident stream's identity, charged once
    evictions,       \* evictions by cause
    refusals,        \* keeps refused with nothing inserted, by reason
    deliveries,      \* hook calls that have returned: [evicted, refused]
    pass             \* the operation under the store's mutex

storeVars == <<resident, series, record_bytes, identity_bytes, evictions,
               refusals, deliveries, pass>>

Causes == {"records", "bytes", "window"}
Reasons == {"duplicate", "oversized", "identity", "series"}
StoreUsers == {"pump", "retention"}

(* Free: nobody holds the mutex.  enforce: between two evictions.  evicted,  *)
(* released: the two hook calls an eviction owes.  refused, unlinked: the    *)
(* two ledger calls a refusal report makes.  done: about to unlock.          *)
Steps == {"free", "enforce", "evicted", "released", "refused", "unlinked", "done"}

NoPass == [by |-> None, step |-> "free", now |-> 0, entity |-> None, stream |-> None]

StoreInit ==
    /\ resident = {}
    /\ series = [s \in Streams |-> 0]
    /\ record_bytes = 0
    /\ identity_bytes = 0
    /\ evictions = [c \in Causes |-> 0]
    /\ refusals = [r \in Reasons |-> 0]
    /\ deliveries = [evicted |-> 0, refused |-> 0]
    /\ pass = NoPass

StoreTypeOK ==
    /\ resident \in SUBSET Records
    /\ series \in [Streams -> Int]
    /\ record_bytes \in Int
    /\ identity_bytes \in Int
    /\ evictions \in [Causes -> Nat]
    /\ refusals \in [Reasons -> Nat]
    /\ deliveries \in [evicted: Nat, refused: Nat]
    /\ pass \in [by: StoreUsers \cup {None}, step: Steps, now: Nat,
                 entity: EntityIds \cup {None}, stream: Streams \cup {None}]

-----------------------------------------------------------------------------
(* The keep: the refusals in the code's order, then the insert.              *)

Shelved(r) == \E s \in resident : s.w.kind = r.w.kind /\ s.entity = r.entity
Oversized(r) == r.w.bytes > MaxBytes
IdentityOverCeiling(r) == r.w.kind = "point" /\ StreamBytes[r.w.stream] > MaxBytes
ResidentStreams == {s \in Streams : series[s] # 0}

SeriesCapReached(r) ==
    /\ r.w.kind = "point"
    /\ series[r.w.stream] = 0
    /\ Cardinality(ResidentStreams) >= SeriesCap

(* Why a keep inserts nothing, or None when it does.                         *)
RefusalOf(r) ==
    IF Shelved(r) THEN "duplicate"
    ELSE IF Oversized(r) THEN "oversized"
    ELSE IF IdentityOverCeiling(r) THEN "identity"
    ELSE IF SeriesCapReached(r) THEN "series"
    ELSE None

(* Fault: a refusal is counted and not reported.                             *)
KeepRefusedUnreported(by, r) ==
    /\ pass.step = "free"
    /\ RefusalOf(r) # None
    /\ refusals' = [refusals EXCEPT ![RefusalOf(r)] = @ + 1]
    /\ pass' = [NoPass EXCEPT !.by = by, !.step = "done"]
    /\ UNCHANGED <<resident, series, record_bytes, identity_bytes, evictions, deliveries>>

(* A refused keep.  A duplicate reports nothing: its record is resident.     *)
(* Every other refusal owes the hook a report, with the stream of a point.   *)
KeepRefused(by, r) ==
    /\ pass.step = "free"
    /\ RefusalOf(r) # None
    /\ refusals' = [refusals EXCEPT ![RefusalOf(r)] = @ + 1]
    /\ pass' = [by |-> by, now |-> r.at, entity |-> r.entity, stream |-> r.w.stream,
                step |-> IF RefusalOf(r) = "duplicate" THEN "done" ELSE "refused"]
    /\ UNCHANGED <<resident, series, record_bytes, identity_bytes, evictions, deliveries>>

(* Fault: every point charges its stream identity.                           *)
KeepInsertedChargingAgain(by, r) ==
    /\ pass.step = "free"
    /\ RefusalOf(r) = None
    /\ resident' = resident \cup {r}
    /\ record_bytes' = record_bytes + r.w.bytes
    /\ IF r.w.kind = "point"
       THEN /\ series' = [series EXCEPT ![r.w.stream] = @ + 1]
            /\ identity_bytes' = identity_bytes + StreamBytes[r.w.stream]
       ELSE UNCHANGED <<series, identity_bytes>>
    /\ pass' = [NoPass EXCEPT !.by = by, !.step = "enforce", !.now = r.at]
    /\ UNCHANGED <<evictions, refusals, deliveries>>

(* The insert: shelf, series table and identity charge, then the retention   *)
(* pass against the record's own admission time.                             *)
KeepInserted(by, r) ==
    /\ pass.step = "free"
    /\ RefusalOf(r) = None
    /\ resident' = resident \cup {r}
    /\ record_bytes' = record_bytes + r.w.bytes
    /\ IF r.w.kind = "point"
       THEN /\ series' = [series EXCEPT ![r.w.stream] = @ + 1]
            /\ identity_bytes' = IF series[r.w.stream] = 0
                                 THEN identity_bytes + StreamBytes[r.w.stream]
                                 ELSE identity_bytes
       ELSE UNCHANGED <<series, identity_bytes>>
    /\ pass' = [NoPass EXCEPT !.by = by, !.step = "enforce", !.now = r.at]
    /\ UNCHANGED <<evictions, refusals, deliveries>>

(* enforce_retention: the timer's pass, against its own reading of time.     *)
RetentionPass(by, now) ==
    /\ pass.step = "free"
    /\ pass' = [NoPass EXCEPT !.by = by, !.step = "enforce", !.now = now]
    /\ UNCHANGED <<resident, series, record_bytes, identity_bytes, evictions,
                   refusals, deliveries>>

-----------------------------------------------------------------------------
(* The retention law.                                                        *)

(* An admission in the future of `now` has no age: it expires nothing.       *)
Expired(r, now) == now >= r.at /\ now - r.at >= Window

(* Fault: the byte ceiling leaves the stream identities out.                 *)
FirstViolationOfRecords(now) ==
    IF Cardinality(resident) > MaxRecords THEN "records"
    ELSE IF record_bytes > MaxBytes THEN "bytes"
    ELSE IF \E r \in resident : IsOldest(r, resident) /\ Expired(r, now) THEN "window"
    ELSE None

(* The first ceiling violated, or None.                                      *)
FirstViolation(now) ==
    IF Cardinality(resident) > MaxRecords THEN "records"
    ELSE IF record_bytes + identity_bytes > MaxBytes THEN "bytes"
    ELSE IF \E r \in resident : IsOldest(r, resident) /\ Expired(r, now) THEN "window"
    ELSE None

(* The removal of r retires its stream.                                      *)
LastOfStream(r) == r.w.kind = "point" /\ series[r.w.stream] = 1

(* One eviction: the oldest record leaves its shelf, its point's residency   *)
(* of its stream ends, and the eviction is counted under its cause.          *)
EvictOldest ==
    /\ pass.step = "enforce"
    /\ FirstViolation(pass.now) # None
    /\ \E r \in resident :
         /\ IsOldest(r, resident)
         /\ resident' = resident \ {r}
         /\ record_bytes' = record_bytes - r.w.bytes
         /\ series' = IF r.w.kind = "point"
                      THEN [series EXCEPT ![r.w.stream] = @ - 1] ELSE series
         /\ identity_bytes' = IF LastOfStream(r)
                              THEN identity_bytes - StreamBytes[r.w.stream]
                              ELSE identity_bytes
         /\ pass' = [pass EXCEPT !.step = "evicted", !.entity = r.entity,
                                 !.stream = IF LastOfStream(r) THEN r.w.stream ELSE None]
    /\ evictions' = [evictions EXCEPT ![FirstViolation(pass.now)] = @ + 1]
    /\ UNCHANGED <<refusals, deliveries>>

(* The pass ends when no ceiling is violated (or nothing is left to evict).  *)
EndPass ==
    /\ pass.step = "enforce"
    /\ FirstViolation(pass.now) = None \/ resident = {}
    /\ pass' = [pass EXCEPT !.step = "done"]
    /\ UNCHANGED <<resident, series, record_bytes, identity_bytes, evictions,
                   refusals, deliveries>>

(* Fault: the stream an eviction retires is not reported.                    *)
EvictedDeliveredAlone ==
    /\ pass.step = "evicted"
    /\ deliveries' = [deliveries EXCEPT !.evicted = @ + 1]
    /\ pass' = [pass EXCEPT !.step = "enforce", !.entity = None, !.stream = None]
    /\ UNCHANGED <<resident, series, record_bytes, identity_bytes, evictions, refusals>>

(* hook.evicted has returned: the record first, then the stream it retired.  *)
EvictedDelivered ==
    /\ pass.step = "evicted"
    /\ deliveries' = [deliveries EXCEPT !.evicted = @ + 1]
    /\ pass' = IF pass.stream # None THEN [pass EXCEPT !.step = "released"]
               ELSE [pass EXCEPT !.step = "enforce", !.entity = None]
    /\ UNCHANGED <<resident, series, record_bytes, identity_bytes, evictions, refusals>>

(* hook.stream_released has returned.                                        *)
ReleasedDelivered ==
    /\ pass.step = "released"
    /\ pass' = [pass EXCEPT !.step = "enforce", !.entity = None, !.stream = None]
    /\ UNCHANGED <<resident, series, record_bytes, identity_bytes, evictions,
                   refusals, deliveries>>

(* hook.keep_refused forgets the entity, then releases the stream, and       *)
(* returns.                                                                  *)
RefusedForgotten ==
    /\ pass.step = "refused"
    /\ pass' = [pass EXCEPT !.step = IF pass.stream # None THEN "unlinked" ELSE "done"]
    /\ deliveries' = IF pass.stream # None THEN deliveries
                     ELSE [deliveries EXCEPT !.refused = @ + 1]
    /\ UNCHANGED <<resident, series, record_bytes, identity_bytes, evictions, refusals>>

RefusedReleased ==
    /\ pass.step = "unlinked"
    /\ pass' = [pass EXCEPT !.step = "done"]
    /\ deliveries' = [deliveries EXCEPT !.refused = @ + 1]
    /\ UNCHANGED <<resident, series, record_bytes, identity_bytes, evictions, refusals>>

(* The operation returns and the mutex is free again.                        *)
Unlock ==
    /\ pass.step = "done"
    /\ pass' = NoPass
    /\ UNCHANGED <<resident, series, record_bytes, identity_bytes, evictions,
                   refusals, deliveries>>
=============================================================================
