---------------------------- MODULE RuntimeProofs ----------------------------
(***************************************************************************)
(* Proofs about the composed core, for every value of its constants: its   *)
(* types; that an entity id names one record and an identity stands in the *)
(* ledger for exactly as long as its record's story runs; that the         *)
(* accounts kept beside the contents -- the queue's bytes, the store's     *)
(* counts and byte sums, the endings reported, the final summary -- are    *)
(* those of the contents; that the core implements the lifecycle of a      *)
(* natural identity; and that no interned stream outlives its points.      *)
(***************************************************************************)
EXTENDS Runtime, Collections

(* What the shape of a decoded record tells: a named span carries a span key, *)
(* a point a point key and a stream, and every size is a natural.             *)
LEMMA WireShape ==
    ASSUME NEW w \in Wires
    PROVE  /\ w.kind \in {"span", "log", "point"}
           /\ w.kind = "span" /\ w.key # None => w.key \in SpanKeys
           /\ w.kind = "point" => w.key \in PointKeys /\ w.key # None /\ w.stream \in Streams
           /\ w.kind # "point" => w.stream = None
           /\ w.stream \in Streams \cup {None}
           /\ w.schema \in Schemas
           /\ w.bytes \in Nat
           /\ QueuedBytes(w) \in Nat
  BY RecordsAssumption DEF SpanWire, LogWire, PointWire, Gates, QueuedBytes

(* Counting one more under a name keeps a table of counters one.              *)
LEMMA CounterType ==
    ASSUME NEW D, NEW f \in [D -> Nat], NEW x
    PROVE  [f EXCEPT ![x] = @ + 1] \in [D -> Nat]
  <1>1. CASE x \in D
    BY <1>1
  <1>2. CASE x \notin D
    BY <1>2
  <1> QED
    BY <1>1, <1>2

-----------------------------------------------------------------------------
(* Type correctness.                                                         *)

(* The initial state has its type.                                           *)
LEMMA TypeInit == Init => TypeOK
  <1> SUFFICES ASSUME Init PROVE TypeOK
    OBVIOUS
  <1>1. LedgerTypeOK
    BY DEF Init, LedgerInit, LedgerTypeOK
  <1>2. QueueTypeOK
    BY DEF Init, QueueInit, QueueTypeOK
  <1>3. StoreTypeOK
    BY DEF Init, StoreInit, StoreTypeOK, NoPass, Steps, Causes, Reasons, StoreUsers
  <1>4. ProcTypeOK
    BY DEF Init, Idle, HandlerPcs, Fates, HandlerStates, ProcTypeOK
  <1>5. DrainTypeOK
    BY DEF Init, DrainTypeOK
  <1> QED
    BY <1>1, <1>2, <1>3, <1>4, <1>5 DEF TypeOK

(* A point's stream is interned with a schema_url.                           *)
LEMMA InternedType ==
    ASSUME LedgerTypeOK, NEW w \in Wires, w.kind = "point"
    PROVE  Interned(w) \in Schemas
  BY WireShape DEF LedgerTypeOK, Interned, FreshIntern

(* Whatever one delivered record does to the ledger, the ledger keeps its    *)
(* type.                                                                     *)
LEMMA LedgerTypeAdmission ==
    ASSUME LedgerTypeOK, NEW w \in Wires,
           \/ AdmitUnnamed(w) \/ AdmitSpan(w) \/ AdmitPoint(w)
           \/ CollapseSpan(w) \/ ConflictSpan(w) \/ CollapsePoint(w) \/ ConflictPoint(w)
    PROVE  LedgerTypeOK'
  <1> USE WireShape DEF LedgerTypeOK, AnomalyKinds
  <1>1. CASE AdmitUnnamed(w)
    BY <1>1 DEF AdmitUnnamed
  <1>2. CASE AdmitSpan(w)
    BY <1>2 DEF AdmitSpan
  <1>3. w.kind = "point" => Interned(w) \in Schemas
    BY InternedType
  <1>4. CASE AdmitPoint(w)
    <2> DEFINE entry == [serial |-> next_serial + 1, w |-> w, schema |-> Interned(w)]
    <2>1. entry \in PointEntry
      BY <1>3, <1>4 DEF AdmitPoint, PointEntry
    <2>2. points' \in [PointKeys -> PointEntry \cup {None}]
      BY <1>4, <2>1 DEF AdmitPoint
    <2> QED
      BY <1>3, <1>4, <2>2 DEF AdmitPoint
  <1>5. CASE CollapseSpan(w) \/ ConflictSpan(w)
    BY <1>5 DEF CollapseSpan, ConflictSpan
  <1>6. CASE CollapsePoint(w)
    BY <1>3, <1>6 DEF CollapsePoint
  <1>7. CASE ConflictPoint(w)
    BY <1>3, <1>7 DEF ConflictPoint
  <1> QED
    BY <1>1, <1>2, <1>4, <1>5, <1>6, <1>7

(* Forgetting entities and releasing streams keeps the ledger's type.        *)
LEMMA LedgerTypeUndo ==
    ASSUME LedgerTypeOK, NEW es, ForgetAll(es),
           UNCHANGED <<next_serial, anomalies>>,
           UNCHANGED streams \/ \E rs : ReleaseAll(rs)
    PROVE  LedgerTypeOK'
  BY DEF LedgerTypeOK, ForgetAll, ReleaseAll

LEMMA LedgerTypeHook ==
    ASSUME LedgerTypeOK,
           \/ \E e : Forget(e)
           \/ \E s : ReleaseStream(s)
    PROVE  LedgerTypeOK'
  BY LedgerTypeUndo DEF LedgerTypeOK, Forget, ForgetAll, ReleaseAll, ReleaseStream

(* A keep, an eviction, a hook delivery and an unlock keep the store's type. *)
LEMMA StoreTypeKeep ==
    ASSUME StoreTypeOK, NEW by \in StoreUsers, NEW r \in Records,
           KeepRefused(by, r) \/ KeepInserted(by, r)
    PROVE  StoreTypeOK'
  <1> USE DEF StoreTypeOK, Steps, Reasons
  <1>0. /\ r.w \in Wires /\ r.at \in Nat /\ r.entity \in EntityIds
        /\ r.w.stream \in Streams \cup {None}
        /\ r.w.kind = "point" => r.w.stream \in Streams
        /\ r.w.bytes \in Nat
    BY WireShape DEF Records
  <1>1. CASE KeepRefused(by, r)
    BY <1>0, <1>1, StoreAssumption DEF KeepRefused, RefusalOf
  <1>2. CASE KeepInserted(by, r)
    <2>1. r.w.kind = "point" => StreamBytes[r.w.stream] \in Nat
      BY <1>0, RecordsAssumption
    <2>2. pass' \in [by: StoreUsers \cup {None}, step: Steps, now: Nat,
                     entity: EntityIds \cup {None}, stream: Streams \cup {None}]
      BY <1>0, <1>2 DEF KeepInserted, NoPass
    <2>3. resident' \in SUBSET Records /\ record_bytes' \in Int
      BY <1>0, <1>2 DEF KeepInserted
    <2>4. series' \in [Streams -> Int] /\ identity_bytes' \in Int
      BY <1>0, <1>2, <2>1 DEF KeepInserted
    <2> QED
      BY <1>2, <2>2, <2>3, <2>4 DEF KeepInserted
  <1> QED
    BY <1>1, <1>2

LEMMA StoreTypePass ==
    ASSUME StoreTypeOK,
           \/ EvictOldest \/ EndPass \/ EvictedDelivered \/ ReleasedDelivered
           \/ RefusedForgotten \/ RefusedReleased \/ Unlock
           \/ \E now \in Nat : RetentionPass("retention", now)
    PROVE  StoreTypeOK'
  <1> USE DEF StoreTypeOK, Steps
  <1>1. CASE EvictOldest
    <2>1. FirstViolation(pass.now) \in Causes
      BY <1>1 DEF EvictOldest, FirstViolation, Causes
    <2>2. PICK r \in resident :
             /\ resident' = resident \ {r}
             /\ record_bytes' = record_bytes - r.w.bytes
             /\ series' = IF r.w.kind = "point"
                          THEN [series EXCEPT ![r.w.stream] = @ - 1] ELSE series
             /\ identity_bytes' = IF LastOfStream(r)
                                  THEN identity_bytes - StreamBytes[r.w.stream]
                                  ELSE identity_bytes
             /\ pass' = [pass EXCEPT !.step = "evicted", !.entity = r.entity,
                                     !.stream = IF LastOfStream(r) THEN r.w.stream ELSE None]
      BY <1>1 DEF EvictOldest
    <2>3. /\ r.w \in Wires /\ r.entity \in EntityIds
          /\ r.w.kind = "point" => r.w.stream \in Streams /\ StreamBytes[r.w.stream] \in Nat
          /\ r.w.bytes \in Nat
      BY WireShape, RecordsAssumption DEF Records
    <2>4. series' \in [Streams -> Int] /\ identity_bytes' \in Int
      BY <2>2, <2>3 DEF LastOfStream
    <2>5. pass' \in [by: StoreUsers \cup {None}, step: Steps, now: Nat,
                     entity: EntityIds \cup {None}, stream: Streams \cup {None}]
      BY <2>2, <2>3 DEF LastOfStream
    <2>6. evictions' \in [Causes -> Nat] /\ UNCHANGED <<refusals, deliveries>>
      <3>1. /\ evictions' = [evictions EXCEPT ![FirstViolation(pass.now)] = @ + 1]
            /\ UNCHANGED <<refusals, deliveries>>
        BY <1>1, Zenon DEF EvictOldest
      <3> QED
        BY <2>1, <3>1
    <2>7. resident' \in SUBSET Records /\ record_bytes' \in Int
      BY <2>2, <2>3
    <2> HIDE DEF Steps
    <2> QED
      BY <2>4, <2>5, <2>6, <2>7
  <1>2. CASE EndPass
    BY <1>2 DEF EndPass
  <1>3. CASE EvictedDelivered
    <2>1. pass' \in [by: StoreUsers \cup {None}, step: Steps, now: Nat,
                     entity: EntityIds \cup {None}, stream: Streams \cup {None}]
      BY <1>3 DEF EvictedDelivered
    <2>2. deliveries' \in [evicted: Nat, refused: Nat]
      BY <1>3 DEF EvictedDelivered
    <2> HIDE DEF Steps
    <2> QED
      BY <1>3, <2>1, <2>2 DEF EvictedDelivered
  <1>4. CASE ReleasedDelivered
    BY <1>4 DEF ReleasedDelivered
  <1>5. CASE RefusedForgotten \/ RefusedReleased
    BY <1>5 DEF RefusedForgotten, RefusedReleased
  <1>6. CASE Unlock
    BY <1>6 DEF Unlock, NoPass
  <1>7. CASE \E now \in Nat : RetentionPass("retention", now)
    BY <1>7 DEF RetentionPass, NoPass, StoreUsers
  <1> QED
    BY <1>1, <1>2, <1>3, <1>4, <1>5, <1>6, <1>7

(* A part of the state that a step leaves alone keeps its type.              *)
LEMMA TypeUnchanged ==
    /\ LedgerTypeOK /\ UNCHANGED ledgerVars => LedgerTypeOK'
    /\ QueueTypeOK /\ UNCHANGED queueVars => QueueTypeOK'
    /\ StoreTypeOK /\ UNCHANGED storeVars => StoreTypeOK'
    /\ ProcTypeOK /\ UNCHANGED procVars => ProcTypeOK'
    /\ DrainTypeOK /\ UNCHANGED <<drainVars, countVars>> => DrainTypeOK'
  BY DEF LedgerTypeOK, ledgerVars, QueueTypeOK, queueVars, StoreTypeOK, storeVars,
         ProcTypeOK, procVars, DrainTypeOK, drainVars, countVars

(* A step of an export handler keeps every type.                             *)
LEMMA TypeHandler ==
    ASSUME TypeOK, NEW h \in Handlers, Arrive(h) \/ BodyFails(h) \/ HandlerStep(h)
    PROVE  TypeOK'
  <1> USE DEF TypeOK
  <1>0. /\ handler[h] \in HandlerStates
        /\ Idle \in HandlerStates
        /\ \A s \in HandlerStates : [handler EXCEPT ![h] = s] \in [Handlers -> HandlerStates]
    BY DEF ProcTypeOK, Idle, HandlerStates, HandlerPcs, Fates
  <1>1. CASE Arrive(h)
    <2>1. PICK x \in Exports :
             handler' = [handler EXCEPT ![h] =
                           [Idle EXCEPT !.pc = "body", !.fate = x.fate, !.todo = x.records]]
      BY <1>1 DEF Arrive
    <2>2. x.fate \in Fates /\ x.records \in Seq(Wires)
      BY RuntimeAssumption
    <2>3. [Idle EXCEPT !.pc = "body", !.fate = x.fate, !.todo = x.records] \in HandlerStates
      BY <1>0, <2>2 DEF HandlerStates, HandlerPcs
    <2>4. handler' \in [Handlers -> HandlerStates]
      BY <1>0, <2>1, <2>3
    <2>5. ProcTypeOK'
      <3>1. /\ arrived' = arrived + 1
            /\ UNCHANGED <<clock, ticks, ledger_lock, pump, retention>>
        BY <1>1, Zenon DEF Arrive
      <3> QED
        BY <2>4, <3>1 DEF ProcTypeOK
    <2> QED
      BY <1>1, <2>5, TypeUnchanged DEF Arrive
  <1>2. CASE BodyFails(h)
    <2>1. ProcTypeOK'
      BY <1>0, <1>2 DEF BodyFails, ProcTypeOK
    <2> QED
      BY <1>2, <2>1, TypeUnchanged DEF BodyFails
  <1>3. CASE Stamp(h) \/ Gate(h) \/ LockLedger(h) \/ Measure(h) \/ Respond(h)
    <2>1. \A p \in HandlerPcs, n \in Nat :
             /\ [handler[h] EXCEPT !.pc = p] \in HandlerStates
             /\ [handler[h] EXCEPT !.pc = p, !.now = n] \in HandlerStates
      BY <1>0 DEF HandlerStates
    <2>2. \A p \in HandlerPcs, n \in Nat :
             /\ [handler EXCEPT ![h].pc = p] \in [Handlers -> HandlerStates]
             /\ [handler EXCEPT ![h].pc = p, ![h].now = n] \in [Handlers -> HandlerStates]
      BY <1>0, <2>1 DEF ProcTypeOK, HandlerStates
    <2>3. CASE Stamp(h)
      <3>1. PICK j \in Jumps :
               /\ clock' = clock + j
               /\ handler' = [handler EXCEPT ![h].pc = "stamped", ![h].now = clock + j]
        BY <2>3 DEF Stamp
      <3>2. clock + j \in Nat
        BY RuntimeAssumption DEF ProcTypeOK
      <3>3. ProcTypeOK'
        BY <2>2, <2>3, <3>1, <3>2 DEF Stamp, ProcTypeOK, HandlerPcs
      <3> QED
        BY <2>3, <3>3, TypeUnchanged DEF Stamp
    <2>4. CASE Gate(h)
      <3>1. ProcTypeOK'
        BY <1>0, <2>1, <2>4 DEF Gate, ProcTypeOK, HandlerPcs
      <3> QED
        BY <2>4, <3>1, TypeUnchanged DEF Gate
    <2>5. CASE LockLedger(h) \/ Measure(h) \/ Respond(h)
      <3>1. handler' \in [Handlers -> HandlerStates]
        BY <1>0, <2>2, <2>5 DEF LockLedger, Measure, Respond, HandlerPcs
      <3>2. ledger_lock' \in Handlers \cup {None}
        BY <2>5 DEF LockLedger, Measure, Respond, ProcTypeOK
      <3>3. ProcTypeOK'
        BY <2>5, <3>1, <3>2 DEF LockLedger, Measure, Respond, ProcTypeOK
      <3> QED
        BY <2>5, <3>3, TypeUnchanged DEF LockLedger, Measure, Respond
    <2> QED
      BY <1>3, <2>3, <2>4, <2>5
  <1>4. CASE \/ IngestRefused(h) \/ IngestUnnamed(h) \/ IngestSpan(h) \/ IngestPoint(h)
             \/ IngestStanding(h)
    <2> DEFINE w == Head(handler[h].todo)
    <2>1. w \in Wires /\ Tail(handler[h].todo) \in Seq(Wires)
      BY <1>0, <1>4 DEF HandlerStates, IngestRefused, IngestUnnamed, IngestSpan,
           IngestPoint, IngestStanding, Admitting
    <2>2. LedgerTypeOK'
      BY <1>4, <2>1, LedgerTypeAdmission, TypeUnchanged DEF IngestRefused, IngestUnnamed, IngestSpan,
           IngestPoint, IngestStanding
    <2>3. PICK offers : Consume(h, offers) /\ offers \in Seq(PendingOffers)
      <3>1. \A e \in EntityIds, f \in Streams \cup {None} :
               Pend(h, e, f) \in Seq(PendingOffers)
        BY <1>0, <2>1 DEF Pend, PendingOffers, Records, HandlerStates
      <3>2. \A n \in Nat : Assigned(n + 1) \in EntityIds
        BY DEF Assigned, EntityIds, AssignedIds
      <3>3. \A k \in SpanKeys : Natural(k) \in EntityIds
        BY DEF Natural, EntityIds, NaturalIds
      <3>4. CASE IngestRefused(h) \/ IngestStanding(h)
        BY <1>0, <3>4 DEF IngestRefused, IngestStanding, HandlerStates
      <3>5. CASE IngestUnnamed(h)
        BY <3>1, <3>2, <3>5 DEF IngestUnnamed, LedgerTypeOK
      <3>6. CASE IngestSpan(h)
        BY <2>1, <3>1, <3>3, <3>6, WireShape DEF IngestSpan, AdmitSpan
      <3>7. CASE IngestPoint(h)
        BY <2>1, <3>1, <3>2, <3>7, WireShape DEF IngestPoint, LedgerTypeOK
      <3> QED
        BY <1>4, <3>4, <3>5, <3>6, <3>7
    <2>4. handler' \in [Handlers -> HandlerStates]
      BY <1>0, <2>1, <2>3 DEF Consume, HandlerStates
    <2> QED
      BY <2>2, <2>3, <2>4, TypeUnchanged DEF Consume, ProcTypeOK
  <1>5. CASE Saturated(h)
    <2>1. LedgerTypeOK'
      BY <1>5, LedgerTypeUndo DEF Saturated
    <2> QED
      BY <1>0, <1>5, <2>1, TypeUnchanged DEF Saturated, ProcTypeOK
  <1>6. CASE OfferNext(h)
    <2>1. /\ Head(handler[h].pending).r \in Records
          /\ Tail(handler[h].pending) \in Seq(PendingOffers)
      <3>1. handler[h].pending \in Seq(PendingOffers) /\ handler[h].pending # <<>>
        BY <1>0, <1>6 DEF OfferNext, HandlerStates
      <3>2. /\ Head(handler[h].pending) \in PendingOffers
            /\ Tail(handler[h].pending) \in Seq(PendingOffers)
        BY <3>1
      <3> QED
        BY <3>2 DEF PendingOffers
    <2>2. QueueTypeOK'
      BY <1>6, <2>1, WireShape DEF OfferNext, Offer, QueueTypeOK, Records
    <2>3. handler' \in [Handlers -> HandlerStates]
      BY <1>0, <1>6, <2>1 DEF OfferNext, HandlerStates
    <2> QED
      BY <1>6, <2>2, <2>3, TypeUnchanged DEF OfferNext, ProcTypeOK, DrainTypeOK, drainVars
  <1> QED
    BY <1>1, <1>2, <1>3, <1>4, <1>5, <1>6 DEF HandlerStep

(* A step of the pump keeps every type.                                      *)
LEMMA TypePump ==
    ASSUME TypeOK, PumpStep
    PROVE  TypeOK'
  <1> USE TypeUnchanged DEF TypeOK
  <1>1. CASE PumpLoop \/ PumpPopNothing
    BY <1>1 DEF PumpLoop, PumpPopNothing, PumpAt, PumpGoes, ProcTypeOK, DrainTypeOK
  <1>2. CASE PumpPop
    <2>1. Head(items) \in Records /\ Tail(items) \in Seq(Records)
      BY <1>2 DEF PumpPop, PopFront, QueueTypeOK
    <2>2. QueueTypeOK'
      BY <1>2, <2>1, WireShape DEF PumpPop, PopFront, QueueTypeOK, Records
    <2> QED
      BY <1>2, <2>1, <2>2 DEF PumpPop, ProcTypeOK
  <1>3. CASE PumpKeep
    <2>1. StoreTypeOK'
      BY <1>3, StoreTypeKeep DEF PumpKeep, PumpAt, ProcTypeOK, StoreUsers
    <2>2. ProcTypeOK'
      BY <1>3 DEF PumpKeep, ProcTypeOK, RefusalOf, Outcomes, Reasons
    <2> QED
      BY <1>3, <2>1, <2>2 DEF PumpKeep
  <1>4. CASE PumpKept
    <2>1. StoreTypeOK'
      BY <1>4, StoreTypePass DEF PumpKept
    <2>2. ProcTypeOK'
      BY <1>4 DEF PumpKept, ProcTypeOK
    <2>3. DrainTypeOK'
      <3>1. summary' = [summary EXCEPT ![pump.outcome] = @ + 1]
        BY <1>4 DEF PumpKept
      <3>2. summary' \in [Outcomes \cup {"dropped"} -> Nat]
        BY <3>1, CounterType DEF DrainTypeOK
      <3> QED
        BY <1>4, <3>2 DEF PumpKept, DrainTypeOK, drainVars
    <2> QED
      BY <1>4, <2>1, <2>2, <2>3 DEF PumpKept
  <1> QED
    BY <1>1, <1>2, <1>3, <1>4 DEF PumpStep

(* A step under the store's mutex keeps every type.                          *)
LEMMA TypeMutex ==
    ASSUME TypeOK, MutexStep
    PROVE  TypeOK'
  <1> USE TypeUnchanged DEF TypeOK
  <1>1. StoreTypeOK'
    BY StoreTypePass DEF MutexStep, StoreStep, HookEvicted, HookStreamReleased,
         HookRefusedForget, HookRefusedRelease
  <1>2. LedgerTypeOK'
    BY LedgerTypeHook DEF MutexStep, StoreStep, HookEvicted, HookStreamReleased,
         HookRefusedForget, HookRefusedRelease
  <1> QED
    BY <1>1, <1>2 DEF MutexStep, StoreStep, HookEvicted, HookStreamReleased,
         HookRefusedForget, HookRefusedRelease

(* A step of the retention thread keeps every type.                          *)
LEMMA TypeRetention ==
    ASSUME TypeOK, RetentionWake \/ RetentionStep
    PROVE  TypeOK'
  <1> USE TypeUnchanged DEF TypeOK
  <1>1. CASE RetentionWake \/ RetentionExit
    BY <1>1, RuntimeAssumption DEF RetentionWake, RetentionExit, ProcTypeOK
  <1>2. CASE RetentionTick \/ RetentionDone
    <2>1. StoreTypeOK'
      BY <1>2, StoreTypePass DEF RetentionTick, RetentionDone, ProcTypeOK
    <2> QED
      BY <1>2, <2>1 DEF RetentionTick, RetentionDone, ProcTypeOK
  <1> QED
    BY <1>1, <1>2 DEF RetentionStep

(* A step of the stop keeps every type.                                      *)
LEMMA TypeStop ==
    ASSUME TypeOK, StopRequested \/ DeadlinePasses \/ StopStep
    PROVE  TypeOK'
  <1> USE TypeUnchanged DEF TypeOK
  <1>1. Len(items) \in Nat
    BY DEF QueueTypeOK
  <1>2. DrainTypeOK'
    <2>1. CASE CountDropped
      BY <1>1, <2>1 DEF CountDropped, DrainTypeOK
    <2>2. CASE ServeEnds
      <3>1. cut' \in BOOLEAN
        BY <2>2 DEF ServeEnds
      <3> QED
        BY <2>2, <3>1 DEF ServeEnds, DrainTypeOK, countVars
    <2>3. CASE \/ StopRequested \/ DeadlinePasses \/ DeadlineSet \/ JoinPump
               \/ SignalRetention
      BY <2>3 DEF StopRequested, DeadlinePasses, DeadlineSet, JoinPump,
           SignalRetention, DrainTypeOK, countVars
    <2> QED
      BY <2>1, <2>2, <2>3 DEF StopStep
  <1> QED
    BY <1>2 DEF StopRequested, DeadlinePasses, StopStep, DeadlineSet, ServeEnds, JoinPump,
         SignalRetention, CountDropped

(* Every step of every thread keeps every type.                              *)
LEMMA TypeNext == TypeOK /\ [Next]_vars => TypeOK'
  <1> SUFFICES ASSUME TypeOK, [Next]_vars PROVE TypeOK'
    OBVIOUS
  <1>1. CASE UNCHANGED vars
    BY <1>1, TypeUnchanged DEF vars, procVars, TypeOK
  <1>2. CASE Next
    BY <1>1, <1>2, TypeHandler, TypePump, TypeMutex, TypeRetention, TypeStop
       DEF Next, Finished
  <1> QED
    BY <1>1, <1>2

(* Type correctness of the composed core: in every reachable state every     *)
(* component's variables have their types and a pump about to keep holds a   *)
(* record.                                                                   *)
THEOREM TypeCorrect == Spec => []TypeOK
  BY TypeInit, TypeNext, PTL DEF Spec

-----------------------------------------------------------------------------
-----------------------------------------------------------------------------
(* Sequences.                                                                *)

(* What Append does to a sequence's positions.                               *)
LEMMA AppendPositions ==
    ASSUME NEW S, NEW s \in Seq(S), NEW x \in S
    PROVE  /\ DOMAIN Append(s, x) = DOMAIN s \cup {Len(s) + 1}
           /\ Len(s) + 1 \notin DOMAIN s
           /\ \A i \in DOMAIN s : Append(s, x)[i] = s[i]
           /\ Append(s, x)[Len(s) + 1] = x
  OBVIOUS

(* What Tail does to a sequence's positions.                                 *)
LEMMA TailPositions ==
    ASSUME NEW S, NEW s \in Seq(S), s # <<>>
    PROVE  /\ Head(s) = s[1] /\ 1 \in DOMAIN s /\ s[1] \in S
           /\ \A i \in DOMAIN Tail(s) : i \in Nat /\ i + 1 \in DOMAIN s /\ i + 1 # 1
                                        /\ Tail(s)[i] = s[i + 1]
           /\ \A j \in DOMAIN s : j \in Nat
           /\ \A j \in DOMAIN s \ {1} : j - 1 \in DOMAIN Tail(s) /\ Tail(s)[j - 1] = s[j]
  OBVIOUS

(* The identities an offer-set names.                                        *)
OfferIds(offers) == {offers[i].r.entity : i \in DOMAIN offers}

(* When at most one handler has an offer-set, the pending identities are     *)
(* those it names.                                                           *)
LEMMA OffersOfOne ==
    ASSUME NEW f, NEW h \in Handlers,
           \A g \in Handlers \ {h} : f[g].pending = <<>>
    PROVE  UNION {OfferIds(f[g].pending) : g \in Handlers} = OfferIds(f[h].pending)
  <1>1. OfferIds(<<>>) = {}
    BY DEF OfferIds
  <1> QED
    BY <1>1

-----------------------------------------------------------------------------
(* The mutexes.                                                              *)

(* Every step keeps the discipline of the ledger's mutex and the pump's hand. *)
LEMMA DisciplineNext ==
    ASSUME TypeOK, MutexDiscipline, [Next]_vars
    PROVE  MutexDiscipline'
  <1> DEFINE Lock(hd, lk) ==
        /\ \A h \in Handlers : hd[h].pc \in {"admit", "offer"} <=> lk = h
        /\ \A h \in Handlers : hd[h].pending # <<>> => lk = h
      Hand(p) == p.hand # None <=> p.pc = "keep"
  <1>0. MutexDiscipline = (Lock(handler, ledger_lock) /\ Hand(pump))
    BY DEF MutexDiscipline
  <1>a. MutexDiscipline' = (Lock(handler', ledger_lock') /\ Hand(pump'))
    BY DEF MutexDiscipline
  <1>b. handler \in [Handlers -> HandlerStates] /\ None \notin Handlers
    BY RuntimeAssumption DEF TypeOK, ProcTypeOK
  <1>1. ASSUME UNCHANGED <<handler, ledger_lock>>
        PROVE  Lock(handler', ledger_lock')
    BY <1>0, <1>1
  <1>2. ASSUME NEW h \in Handlers, Arrive(h) \/ BodyFails(h) \/ HandlerStep(h)
        PROVE  Lock(handler', ledger_lock')
    <2>1. CASE Arrive(h)
      <3>1. PICK x \in Exports :
               handler' = [handler EXCEPT ![h] =
                             [Idle EXCEPT !.pc = "body", !.fate = x.fate, !.todo = x.records]]
        BY <2>1 DEF Arrive
      <3>2. handler[h].pc = "idle" /\ UNCHANGED ledger_lock
        BY <2>1, Zenon DEF Arrive
      <3> QED
        BY <1>0, <1>b, <3>1, <3>2 DEF Idle, HandlerStates
    <2>2. CASE BodyFails(h) \/ Gate(h)
      <3>1. handler[h].pc \in {"body", "stamped"} /\ UNCHANGED ledger_lock
        BY <2>2 DEF BodyFails, Gate
      <3>2. ledger_lock # h /\ handler[h].pending = <<>>
        BY <1>0, <3>1
      <3>3. PICK s : /\ handler' = [handler EXCEPT ![h] = s]
                     /\ s \in {Idle, [handler[h] EXCEPT !.pc = "decoded"]}
        BY <2>2 DEF BodyFails, Gate
      <3>4. s.pc \in {"idle", "decoded"} /\ s.pending = <<>>
        BY <1>b, <3>2, <3>3 DEF Idle, HandlerStates
      <3> QED
        BY <1>0, <1>b, <3>1, <3>2, <3>3, <3>4
    <2>3. CASE Respond(h) \/ Saturated(h)
      <3>1. handler[h].pc \in {"admit", "offer"}
        BY <2>3 DEF Respond, Saturated, Admitted
      <3>2. handler' = [handler EXCEPT ![h] = Idle] /\ ledger_lock' = None
        BY <2>3 DEF Respond, Saturated
      <3> QED
        BY <1>0, <1>b, <3>1, <3>2 DEF Idle
    <2>6. CASE Stamp(h)
      <3>1. PICK n : handler' = [handler EXCEPT ![h].pc = "stamped", ![h].now = n]
        BY <2>6 DEF Stamp
      <3>2. handler[h].pc = "body" /\ UNCHANGED ledger_lock
        BY <2>6, Zenon DEF Stamp
      <3> QED
        BY <1>0, <1>b, <3>1, <3>2 DEF HandlerStates
    <2>7. CASE LockLedger(h)
      BY <1>0, <1>b, <2>7 DEF LockLedger, HandlerStates
    <2>8. CASE Measure(h)
      BY <1>0, <1>b, <2>8 DEF Measure, Admitted, HandlerStates
    <2>4. CASE OfferNext(h)
      BY <1>0, <1>b, <2>4 DEF OfferNext, HandlerStates
    <2>5. CASE \/ IngestRefused(h) \/ IngestUnnamed(h) \/ IngestSpan(h) \/ IngestPoint(h)
               \/ IngestStanding(h)
      <3>1. PICK offers : Consume(h, offers)
        BY <2>5 DEF IngestRefused, IngestUnnamed, IngestSpan, IngestPoint, IngestStanding
      <3>2. handler[h].pc = "admit"
        BY <2>5 DEF IngestRefused, IngestUnnamed, IngestSpan, IngestPoint, IngestStanding,
             Admitting
      <3> QED
        BY <1>0, <1>b, <3>1, <3>2 DEF Consume, HandlerStates
    <2> QED
      BY <1>2, <2>1, <2>2, <2>3, <2>4, <2>5, <2>6, <2>7, <2>8 DEF HandlerStep
  <1>3. ASSUME PumpStep
        PROVE  Hand(pump') /\ UNCHANGED <<handler, ledger_lock>>
    <2>1. CASE PumpPop
      <3>1. Head(items) # None
        <4>1. Head(items) \in Records
          BY <2>1 DEF PumpPop, PopFront, TypeOK, QueueTypeOK
        <4> QED
          BY <4>1, NoneAssumption
      <3> QED
        BY <2>1, <3>1 DEF PumpPop, TypeOK, ProcTypeOK
    <2>2. CASE PumpLoop \/ PumpPopNothing
      BY <1>0, <2>2 DEF PumpLoop, PumpPopNothing, PumpAt, PumpGoes, TypeOK, ProcTypeOK,
           DrainTypeOK
    <2>3. CASE PumpKeep
      <3>1. /\ pump'.pc = "keeping" /\ pump'.hand = None
            /\ UNCHANGED <<handler, ledger_lock>>
        BY <2>3 DEF PumpKeep
      <3> QED
        BY <3>1
    <2>4. CASE PumpKept
      BY <1>0, <2>4 DEF PumpKept, PumpAt, TypeOK, ProcTypeOK
    <2> QED
      BY <1>3, <2>1, <2>2, <2>3, <2>4 DEF PumpStep
  <1>4. ASSUME NEW h \in Handlers, Arrive(h) \/ BodyFails(h) \/ HandlerStep(h)
        PROVE  UNCHANGED pump
    BY <1>4 DEF Arrive, BodyFails, HandlerStep, Stamp, Gate, LockLedger, IngestRefused,
         IngestUnnamed, IngestSpan, IngestPoint, IngestStanding, Consume, Saturated,
         Measure, OfferNext, Respond
  <1>5. CASE \/ MutexStep \/ RetentionWake \/ RetentionStep \/ StopRequested
             \/ DeadlinePasses \/ StopStep \/ Finished \/ UNCHANGED vars
    BY <1>0, <1>a, <1>5 DEF MutexStep, StoreStep, HookEvicted, HookStreamReleased,
         HookRefusedForget, HookRefusedRelease, RetentionWake, RetentionStep,
         RetentionTick, RetentionDone, RetentionExit, StopRequested, DeadlinePasses,
         StopStep, DeadlineSet, ServeEnds, JoinPump, SignalRetention, CountDropped,
         Finished, vars, procVars
  <1> QED
    BY <1>0, <1>a, <1>1, <1>2, <1>3, <1>4, <1>5 DEF Next

-----------------------------------------------------------------------------
(* What stands in the ledger, as a relation between the identities alive or  *)
(* ending and the ledger's maps.                                             *)
Standing == EndingsGone /\ SerialsAhead /\ SpanIdentityLasts /\ PointIdentityLasts

(* Entity ids are told apart by what they name.                              *)
LEMMA IdsApart ==
    /\ \A a, b : (Natural(a) = Natural(b) <=> a = b)
    /\ \A a, b : (Assigned(a) = Assigned(b) <=> a = b)
    /\ \A a, b : Natural(a) # Assigned(b)
    /\ \A k \in SpanKeys : Natural(k) \in EntityIds /\ Natural(k).tag = "span"
    /\ \A n \in Nat : Assigned(n) \in EntityIds /\ Assigned(n).tag = "assigned"
                      /\ Assigned(n).id = n
  <1>1. \A a : /\ Natural(a).id = a /\ Natural(a).tag = "span"
               /\ Assigned(a).id = a /\ Assigned(a).tag = "assigned"
    BY DEF Natural, Assigned
  <1>2. /\ \A k \in SpanKeys : Natural(k) \in EntityIds
        /\ \A n \in Nat : Assigned(n) \in EntityIds
    BY DEF Natural, Assigned, EntityIds, NaturalIds, AssignedIds
  <1> QED
    BY <1>1, <1>2

(* A record that only changes hands disturbs nothing that stands.            *)
LEMMA StandingMoved ==
    ASSUME Standing, LiveIds' = LiveIds, EndingIds' = EndingIds,
           UNCHANGED <<spans, points, assigned_points, next_serial>>
    PROVE  Standing'
  BY DEF Standing, EndingsGone, SerialsAhead, SpanIdentityLasts, PointIdentityLasts

(* A record leaves the store, or is refused by it: its identity stands on,   *)
(* ending.                                                                   *)
LEMMA StandingEnding ==
    ASSUME Standing, NEW e \in LiveIds, LiveIds' = LiveIds \ {e},
           EndingIds = {}, EndingIds' = {e},
           UNCHANGED <<spans, points, assigned_points, next_serial>>
    PROVE  Standing'
  BY DEF Standing, EndingsGone, SerialsAhead, SpanIdentityLasts, PointIdentityLasts

(* A span is admitted under a free natural identity.                         *)
LEMMA StandingSpan ==
    ASSUME TypeOK, Standing, NEW w \in Wires, AdmitSpan(w),
           LiveIds' = LiveIds \cup {Natural(w.key)}, EndingIds' = EndingIds
    PROVE  /\ Standing'
           /\ Natural(w.key) \notin LiveIds \cup EndingIds
  <1>1. w.key \in SpanKeys /\ w # None /\ spans \in [SpanKeys -> Wires \cup {None}]
    BY WireShape, RecordsAssumption DEF AdmitSpan, TypeOK, LedgerTypeOK
  <1>2. Natural(w.key) \notin LiveIds \cup EndingIds
    BY <1>1 DEF AdmitSpan, Standing, SpanIdentityLasts
  <1>3. SpanIdentityLasts'
    BY <1>1, IdsApart DEF AdmitSpan, Standing, SpanIdentityLasts
  <1>4. PointIdentityLasts'
    BY DEF AdmitSpan, Standing, PointIdentityLasts
  <1>5. EndingsGone' /\ SerialsAhead'
    BY <1>1, <1>2, IdsApart DEF AdmitSpan, Standing, EndingsGone, SerialsAhead
  <1> QED
    BY <1>2, <1>3, <1>4, <1>5 DEF Standing

(* A fresh serial names nothing yet.                                         *)
LEMMA FreshSerial ==
    ASSUME TypeOK, Standing
    PROVE  /\ Assigned(next_serial + 1) \notin LiveIds \cup EndingIds
           /\ Assigned(next_serial + 1) \in EntityIds
           /\ next_serial \in Nat
  <1>1. next_serial \in Nat /\ next_serial + 1 \in Nat /\ ~(next_serial + 1 <= next_serial)
    BY DEF TypeOK, LedgerTypeOK
  <1> QED
    BY <1>1, IdsApart DEF Standing, SerialsAhead

(* A log record, or a span without a valid id, is admitted under a serial.   *)
LEMMA StandingUnnamed ==
    ASSUME TypeOK, Standing, NEW w \in Wires, AdmitUnnamed(w),
           LiveIds' = LiveIds \cup {Assigned(next_serial + 1)}, EndingIds' = EndingIds
    PROVE  Standing'
  <1>1. SerialsAhead'
    <2>1. next_serial' = next_serial + 1
      BY DEF AdmitUnnamed
    <2>2. ASSUME NEW e \in LiveIds \cup EndingIds
          PROVE  e \in EntityIds /\ (e.tag = "assigned" => e.id <= next_serial + 1)
      <3>1. e \in EntityIds /\ (e.tag = "assigned" => e.id <= next_serial)
        BY DEF Standing, SerialsAhead
      <3>2. e.tag = "assigned" => e.id \in Nat
        BY <3>1 DEF EntityIds, NaturalIds, AssignedIds
      <3> QED
        BY <3>1, <3>2, FreshSerial
    <2> QED
      BY <2>1, <2>2, FreshSerial, IdsApart DEF SerialsAhead
  <1>2. EndingsGone'
    BY FreshSerial DEF Standing, EndingsGone
  <1>3. SpanIdentityLasts' /\ PointIdentityLasts'
    BY IdsApart DEF AdmitUnnamed, Standing, SpanIdentityLasts, PointIdentityLasts
  <1> QED
    BY <1>1, <1>2, <1>3 DEF Standing

(* A point is admitted under a serial, with an entry in both point maps.     *)
LEMMA StandingPoint ==
    ASSUME TypeOK, Standing, NEW w \in Wires, AdmitPoint(w),
           LiveIds' = LiveIds \cup {Assigned(next_serial + 1)}, EndingIds' = EndingIds
    PROVE  Standing'
  <1> DEFINE n == next_serial + 1
             entry == [serial |-> n, w |-> w, schema |-> Interned(w)]
             link == [serial |-> n, key |-> w.key]
  <1>0. /\ w.key \in PointKeys /\ points \in [PointKeys -> PointEntry \cup {None}]
        /\ assigned_points \subseteq [serial: Nat, key: PointKeys]
        /\ points[w.key] = None
        /\ next_serial' = n /\ UNCHANGED spans
        /\ points' = [points EXCEPT ![w.key] = entry]
        /\ assigned_points' = assigned_points \cup {link}
    BY WireShape DEF AdmitPoint, TypeOK, LedgerTypeOK
  <1>1. SerialsAhead'
    <2>1. ASSUME NEW e \in LiveIds \cup EndingIds
          PROVE  e \in EntityIds /\ (e.tag = "assigned" => e.id <= n)
      <3>1. e \in EntityIds /\ (e.tag = "assigned" => e.id <= next_serial)
        BY DEF Standing, SerialsAhead
      <3>2. e.tag = "assigned" => e.id \in Nat
        BY <3>1 DEF EntityIds, NaturalIds, AssignedIds
      <3> QED
        BY <3>1, <3>2, FreshSerial
    <2> QED
      BY <1>0, <2>1, FreshSerial, IdsApart DEF SerialsAhead
  <1>2. EndingsGone'
    BY FreshSerial DEF Standing, EndingsGone
  <1>3. SpanIdentityLasts'
    BY <1>0, IdsApart DEF Standing, SpanIdentityLasts
  <1>4. \A a \in assigned_points : a.key # w.key
    BY <1>0 DEF Standing, PointIdentityLasts
  <1>5. ASSUME NEW k \in PointKeys, points'[k] # None
        PROVE  /\ Assigned(points'[k].serial) \in LiveIds' \cup EndingIds'
               /\ [serial |-> points'[k].serial, key |-> k] \in assigned_points'
    <2>1. CASE k = w.key
      BY <1>0, <2>1
    <2>2. CASE k # w.key
      BY <1>0, <1>5, <2>2 DEF Standing, PointIdentityLasts
    <2> QED
      BY <2>1, <2>2
  <1>6. ASSUME NEW a \in assigned_points'
        PROVE  points'[a.key] # None /\ points'[a.key].serial = a.serial
    <2>1. CASE a = link
      <3>1. points'[a.key] = entry /\ a.serial = n
        BY <1>0, <2>1
      <3>2. points'[a.key] \in PointEntry
        <4>1. Interned(w) \in Schemas
          BY InternedType DEF TypeOK, AdmitPoint
        <4> QED
          BY <3>1, <4>1, FreshSerial DEF PointEntry
      <3> QED
        BY <3>1, <3>2, LedgerAssumption
    <2>2. CASE a \in assigned_points
      BY <1>0, <1>4, <2>2 DEF Standing, PointIdentityLasts
    <2> QED
      BY <1>0, <2>1, <2>2
  <1> QED
    BY <1>1, <1>2, <1>3, <1>5, <1>6 DEF Standing, PointIdentityLasts

(* Forgetting exactly the identities whose story is over leaves the others   *)
(* standing.                                                                 *)
LEMMA StandingForgets ==
    ASSUME TypeOK, Standing, NEW es, ForgetAll(es), UNCHANGED next_serial,
           LiveIds' \cup EndingIds' = (LiveIds \cup EndingIds) \ es,
           LiveIds' \subseteq LiveIds, EndingIds' \subseteq EndingIds
    PROVE  Standing'
  <1> DEFINE gone == {a \in assigned_points : Assigned(a.serial) \in es}
  <1>0. /\ spans' = [k \in SpanKeys |-> IF Natural(k) \in es THEN None ELSE spans[k]]
        /\ assigned_points' = assigned_points \ gone
        /\ points' = [k \in PointKeys |->
                        IF \E a \in gone : a.key = k THEN None ELSE points[k]]
        /\ assigned_points \subseteq [serial: Nat, key: PointKeys]
    BY DEF ForgetAll, TypeOK, LedgerTypeOK
  <1>1. EndingsGone' /\ SerialsAhead'
    BY DEF Standing, EndingsGone, SerialsAhead
  <1>2. SpanIdentityLasts'
    BY <1>0 DEF Standing, SpanIdentityLasts
  <1>3. ASSUME NEW k \in PointKeys, points'[k] # None
        PROVE  /\ Assigned(points'[k].serial) \in LiveIds' \cup EndingIds'
               /\ [serial |-> points'[k].serial, key |-> k] \in assigned_points'
    <2> DEFINE a == [serial |-> points[k].serial, key |-> k]
    <2>1. points'[k] = points[k] /\ points[k] # None /\ ~\E b \in gone : b.key = k
      BY <1>0, <1>3
    <2>2. Assigned(points[k].serial) \in LiveIds \cup EndingIds /\ a \in assigned_points
      BY <2>1 DEF Standing, PointIdentityLasts
    <2>3. a.key = k /\ a.serial = points[k].serial
      OBVIOUS
    <2>4. a \notin gone
      BY <2>1, <2>3
    <2>5. Assigned(points[k].serial) \notin es
      BY <2>2, <2>3, <2>4
    <2> HIDE DEF a
    <2> QED
      BY <1>0, <2>1, <2>2, <2>4, <2>5 DEF a
  <1>4. ASSUME NEW a \in assigned_points'
        PROVE  points'[a.key] # None /\ points'[a.key].serial = a.serial
    <2>1. a \in assigned_points /\ a \notin gone
      BY <1>0
    <2>2. /\ a.key \in PointKeys
          /\ points[a.key] # None /\ points[a.key].serial = a.serial
      BY <1>0, <2>1 DEF Standing, PointIdentityLasts
    <2>3. ASSUME NEW b \in gone, b.key = a.key
          PROVE  FALSE
      <3>1. points[b.key].serial = b.serial
        BY DEF Standing, PointIdentityLasts
      <3> QED
        BY <2>1, <2>2, <2>3, <3>1
    <2>4. points'[a.key] = points[a.key]
      BY <1>0, <2>2, <2>3
    <2> QED
      BY <2>2, <2>4
  <1> QED
    BY <1>1, <1>2, <1>3, <1>4 DEF Standing, PointIdentityLasts

-----------------------------------------------------------------------------
(* The inductive invariant.                                                  *)
IdentityInv ==
    /\ TypeOK /\ MutexDiscipline
    /\ NoRepeats /\ PlacesApart
    /\ Standing
    /\ NoDuplicateKeep

(* Nothing is in flight at start.                                            *)
LEMMA IdentityInit == Init => IdentityInv
  <1> SUFFICES ASSUME Init PROVE IdentityInv
    OBVIOUS
  <1>1. PendingIds = {} /\ QueuedIds = {} /\ InHandIds = {} /\ ResidentIds = {}
    BY DEF Init, PendingIds, QueuedIds, InHandIds, ResidentIds, Idle, QueueInit, StoreInit
  <1>2. EndingIds = {} /\ LiveIds = {}
    BY <1>1 DEF Init, StoreInit, NoPass, EndingIds, LiveIds
  <1>3. MutexDiscipline
    BY RuntimeAssumption DEF Init, MutexDiscipline, Idle
  <1>4. NoRepeats /\ PlacesApart
    BY <1>1 DEF Init, NoRepeats, PlacesApart, Idle, QueueInit, StoreInit
  <1>5. Standing
    BY <1>2 DEF Init, LedgerInit, Standing, EndingsGone, SerialsAhead, SpanIdentityLasts,
         PointIdentityLasts
  <1>6. NoDuplicateKeep
    BY DEF Init, StoreInit, NoDuplicateKeep, Reasons
  <1> QED
    BY <1>3, <1>4, <1>5, <1>6, TypeInit DEF IdentityInv

(* The identities in an offer-set, resident and ending stay where they are,  *)
(* and so does the span ledger.                                              *)
NothingMoves ==
    /\ PendingIds' = PendingIds /\ ResidentIds' = ResidentIds /\ EndingIds' = EndingIds
    /\ UNCHANGED spans

(* A step that moves no record and ends no identity keeps the invariant.     *)
LEMMA QuietStep ==
    ASSUME IdentityInv, [Next]_vars,
           \A g \in Handlers : handler'[g].pending = handler[g].pending,
           UNCHANGED <<items, resident, spans, points, assigned_points, next_serial, refusals>>,
           pump'.hand = pump.hand, EndingIds' = EndingIds
    PROVE  IdentityInv' /\ NothingMoves
  <1>1. TypeOK' /\ MutexDiscipline'
    BY TypeNext, DisciplineNext DEF IdentityInv
  <1>2. /\ PendingIds' = PendingIds /\ QueuedIds' = QueuedIds
        /\ InHandIds' = InHandIds /\ ResidentIds' = ResidentIds
    BY DEF PendingIds, QueuedIds, InHandIds, ResidentIds
  <1>3. NoRepeats'
    BY DEF IdentityInv, NoRepeats
  <1>4. PlacesApart' /\ LiveIds' = LiveIds
    BY <1>2 DEF IdentityInv, PlacesApart, LiveIds
  <1>5. Standing'
    BY <1>4, StandingMoved DEF IdentityInv
  <1>6. IdentityInv'
    BY <1>1, <1>3, <1>4, <1>5 DEF IdentityInv, NoDuplicateKeep
  <1> QED
    BY <1>2, <1>6 DEF NothingMoves

(* The identities pending are those of the handler that holds the mutex, in  *)
(* this state and in the next one.                                           *)
LEMMA PendingOfHolder ==
    ASSUME MutexDiscipline, NEW h \in Handlers, ledger_lock = h
    PROVE  /\ PendingIds = OfferIds(handler[h].pending)
           /\ \A g \in Handlers \ {h} : handler[g].pending = <<>>
  <1>1. \A g \in Handlers \ {h} : handler[g].pending = <<>>
    BY DEF MutexDiscipline
  <1>2. PendingIds = UNION {OfferIds(handler[g].pending) : g \in Handlers}
    BY DEF PendingIds, OfferIds
  <1> QED
    BY <1>1, <1>2, OffersOfOne

LEMMA PendingOfHolderNext ==
    ASSUME NEW h \in Handlers, \A g \in Handlers \ {h} : handler'[g].pending = <<>>
    PROVE  PendingIds' = OfferIds(handler'[h].pending)
  <1>1. PendingIds' = UNION {OfferIds(handler'[g].pending) : g \in Handlers}
    BY DEF PendingIds, OfferIds
  <1> QED
    BY <1>1, OffersOfOne

(* One more offer, under an identity that was neither alive nor ending.      *)
LEMMA BornStep ==
    ASSUME IdentityInv, [Next]_vars, NEW h \in Handlers, NEW e \in EntityIds, NEW f,
           f \in Streams \cup {None}, e \notin LiveIds \cup EndingIds,
           Admitting(h), Consume(h, Pend(h, e, f))
    PROVE  /\ LiveIds' = LiveIds \cup {e} /\ EndingIds' = EndingIds
           /\ NoRepeats' /\ PlacesApart'
           /\ UNCHANGED refusals
           /\ PendingIds' = PendingIds \cup {e} /\ ResidentIds' = ResidentIds
  <1> DEFINE old == handler[h].pending
             o == [r |-> [entity |-> e, at |-> handler[h].now, w |-> Head(handler[h].todo)],
                   fresh |-> f]
             new == Append(old, o)
  <1>0. /\ ledger_lock = h /\ handler \in [Handlers -> HandlerStates]
        /\ handler[h] \in HandlerStates /\ handler[h].todo # <<>>
    BY DEF IdentityInv, MutexDiscipline, Admitting, TypeOK, ProcTypeOK
  <1>1. old \in Seq(PendingOffers) /\ o \in PendingOffers
    BY <1>0 DEF HandlerStates, PendingOffers, Records
  <1>2. /\ handler' = [handler EXCEPT ![h].todo = Tail(handler[h].todo), ![h].pending = new]
        /\ UNCHANGED <<items, pump, resident, pass, refusals>>
    BY DEF Consume, Pend, queueVars, storeVars
  <1>3. PendingIds = OfferIds(old) /\ \A g \in Handlers \ {h} : handler[g].pending = <<>>
    BY <1>0, PendingOfHolder DEF IdentityInv
  <1>4. handler'[h].pending = new /\ \A g \in Handlers \ {h} : handler'[g].pending = <<>>
    BY <1>0, <1>2, <1>3 DEF HandlerStates
  <1>5. PendingIds' = OfferIds(new)
    BY <1>4, PendingOfHolderNext
  <1>6. /\ DOMAIN new = DOMAIN old \cup {Len(old) + 1}
        /\ Len(old) + 1 \notin DOMAIN old
        /\ \A i \in DOMAIN old : new[i] = old[i]
        /\ new[Len(old) + 1] = o
    BY <1>1, AppendPositions
  <1>7. o.r.entity = e
    OBVIOUS
  <1> HIDE DEF old, new, o
  <1>8. PendingIds' = PendingIds \cup {e}
    BY <1>3, <1>5, <1>6, <1>7 DEF OfferIds
  <1>9. /\ QueuedIds' = QueuedIds /\ InHandIds' = InHandIds /\ ResidentIds' = ResidentIds
        /\ EndingIds' = EndingIds
    BY <1>2 DEF QueuedIds, InHandIds, ResidentIds, EndingIds
  <1>10. LiveIds' = LiveIds \cup {e}
    BY <1>8, <1>9 DEF LiveIds
  <1>11. PlacesApart'
    BY <1>8, <1>9 DEF IdentityInv, PlacesApart, LiveIds
  <1>12. NoRepeats'
    <2>1. ASSUME NEW g \in Handlers, NEW i \in DOMAIN handler'[g].pending,
                 NEW j \in DOMAIN handler'[g].pending,
                 handler'[g].pending[i].r.entity = handler'[g].pending[j].r.entity
          PROVE  i = j
      <3>1. CASE g # h
        BY <1>4, <2>1, <3>1
      <3>2. CASE g = h
        <4>1. \A x \in DOMAIN old : old[x].r.entity # e
          BY <1>3 DEF LiveIds, OfferIds
        <4>2. \A x, y \in DOMAIN old : old[x].r.entity = old[y].r.entity => x = y
          BY DEF IdentityInv, NoRepeats, old
        <4> QED
          BY <1>4, <1>6, <1>7, <2>1, <3>2, <4>1, <4>2
      <3> QED
        BY <3>1, <3>2
    <2> QED
      BY <1>2, <2>1 DEF IdentityInv, NoRepeats
  <1> QED
    BY <1>2, <1>8, <1>9, <1>10, <1>11, <1>12

(* Admitting a record keeps the invariant.                                   *)
LEMMA IngestKeepsIdentity ==
    ASSUME IdentityInv, [Next]_vars, NEW h \in Handlers,
           IngestUnnamed(h) \/ IngestSpan(h) \/ IngestPoint(h)
    PROVE  IdentityInv'
  <1> DEFINE w == Head(handler[h].todo)
  <1>0. TypeOK /\ Standing /\ TypeOK' /\ MutexDiscipline'
    BY TypeNext, DisciplineNext DEF IdentityInv
  <1>1. w \in Wires
    <2>1. handler[h].todo # <<>>
      BY DEF IngestUnnamed, IngestSpan, IngestPoint, Admitting
    <2>2. handler[h].todo \in Seq(Wires)
      BY <1>0 DEF TypeOK, ProcTypeOK, HandlerStates
    <2> QED
      BY <2>1, <2>2
  <1>2. CASE IngestUnnamed(h)
    <2>1. Admitting(h) /\ AdmitUnnamed(w) /\ Consume(h, Pend(h, Assigned(next_serial + 1), None))
      BY <1>2 DEF IngestUnnamed
    <2>2. /\ LiveIds' = LiveIds \cup {Assigned(next_serial + 1)} /\ EndingIds' = EndingIds
          /\ NoRepeats' /\ PlacesApart' /\ UNCHANGED refusals
      BY <1>0, <2>1, BornStep, FreshSerial
    <2>3. Standing'
      BY <1>0, <1>1, <2>1, <2>2, StandingUnnamed
    <2> QED
      BY <1>0, <2>2, <2>3 DEF IdentityInv, NoDuplicateKeep
  <1>3. CASE IngestSpan(h)
    <2>1. Admitting(h) /\ AdmitSpan(w) /\ Consume(h, Pend(h, Natural(w.key), None))
      BY <1>3 DEF IngestSpan
    <2>2. w.key \in SpanKeys /\ Natural(w.key) \in EntityIds
      BY <1>1, <2>1, WireShape, IdsApart DEF AdmitSpan
    <2>3. Natural(w.key) \notin LiveIds \cup EndingIds
      BY <1>0, <2>1, <2>2 DEF AdmitSpan, Standing, SpanIdentityLasts
    <2>4. /\ LiveIds' = LiveIds \cup {Natural(w.key)} /\ EndingIds' = EndingIds
          /\ NoRepeats' /\ PlacesApart' /\ UNCHANGED refusals
      BY <2>1, <2>2, <2>3, BornStep
    <2>5. Standing'
      BY <1>0, <1>1, <2>1, <2>4, StandingSpan
    <2> QED
      BY <1>0, <2>4, <2>5 DEF IdentityInv, NoDuplicateKeep
  <1>4. CASE IngestPoint(h)
    <2>1. PICK f \in Streams \cup {None} :
             /\ Admitting(h) /\ AdmitPoint(w)
             /\ Consume(h, Pend(h, Assigned(next_serial + 1), f))
      BY <1>1, <1>4, WireShape DEF IngestPoint, AdmitPoint
    <2>2. /\ LiveIds' = LiveIds \cup {Assigned(next_serial + 1)} /\ EndingIds' = EndingIds
          /\ NoRepeats' /\ PlacesApart' /\ UNCHANGED refusals
      BY <1>0, <2>1, BornStep, FreshSerial
    <2>3. Standing'
      BY <1>0, <1>1, <2>1, <2>2, StandingPoint
    <2> QED
      BY <1>0, <2>2, <2>3 DEF IdentityInv, NoDuplicateKeep
  <1> QED
    BY <1>2, <1>3, <1>4

(* The undo of a saturated export keeps the invariant: every identity it     *)
(* admitted is forgotten, and no other.                                      *)
LEMMA SaturatedKeepsIdentity ==
    ASSUME IdentityInv, [Next]_vars, NEW h \in Handlers, Saturated(h)
    PROVE  /\ IdentityInv'
           /\ PendingIds' = {} /\ ResidentIds' = ResidentIds /\ EndingIds' = EndingIds
           /\ ForgetAll(PendingIds)
  <1>0. /\ TypeOK /\ Standing /\ TypeOK' /\ MutexDiscipline' /\ ledger_lock = h
        /\ handler \in [Handlers -> HandlerStates]
    BY TypeNext, DisciplineNext
       DEF IdentityInv, Saturated, Admitted, MutexDiscipline, TypeOK, ProcTypeOK
  <1>1. PendingIds = OfferIds(handler[h].pending)
        /\ \A g \in Handlers \ {h} : handler[g].pending = <<>>
    BY <1>0, PendingOfHolder DEF IdentityInv
  <1>2. ForgetAll(PendingIds)
    <2>1. {o.r.entity : o \in OffersOf(h)} = PendingIds
      BY <1>1 DEF OffersOf, OfferIds
    <2> QED
      BY <2>1 DEF Saturated
  <1>3. \A g \in Handlers : handler'[g].pending = <<>>
    BY <1>0, <1>1 DEF Saturated, Idle
  <1>4. UNCHANGED <<items, pump, resident, pass, refusals, next_serial>>
    BY DEF Saturated, queueVars, storeVars
  <1>5. /\ PendingIds' = {} /\ QueuedIds' = QueuedIds /\ InHandIds' = InHandIds
        /\ ResidentIds' = ResidentIds /\ EndingIds' = EndingIds
    BY <1>3, <1>4 DEF PendingIds, QueuedIds, InHandIds, ResidentIds, EndingIds
  <1>6. NoRepeats' /\ PlacesApart'
    BY <1>3, <1>4, <1>5 DEF IdentityInv, NoRepeats, PlacesApart
  <1>7. /\ LiveIds' \cup EndingIds' = (LiveIds \cup EndingIds) \ PendingIds
        /\ LiveIds' \subseteq LiveIds /\ EndingIds' \subseteq EndingIds
    BY <1>5 DEF LiveIds, IdentityInv, PlacesApart, Standing, EndingsGone
  <1>8. Standing'
    BY <1>0, <1>2, <1>4, <1>7, StandingForgets
  <1>9. IdentityInv'
    BY <1>0, <1>4, <1>6, <1>8 DEF IdentityInv, NoDuplicateKeep
  <1> QED
    BY <1>2, <1>5, <1>9

(* An offer moves the first pending record to the queue's end.               *)
LEMMA OfferKeepsIdentity ==
    ASSUME IdentityInv, [Next]_vars, NEW h \in Handlers, OfferNext(h)
    PROVE  /\ IdentityInv'
           /\ LET e == Head(handler[h].pending).r.entity
              IN  e \in PendingIds /\ PendingIds' = PendingIds \ {e}
           /\ ResidentIds' = ResidentIds /\ EndingIds' = EndingIds
  <1> DEFINE old == handler[h].pending
             new == Tail(old)
             r == Head(old).r
  <1>0. /\ TypeOK' /\ MutexDiscipline' /\ ledger_lock = h
        /\ handler \in [Handlers -> HandlerStates] /\ items \in Seq(Records)
        /\ old \in Seq(PendingOffers) /\ old # <<>>
    <2>1. TypeOK /\ MutexDiscipline /\ TypeOK' /\ MutexDiscipline'
      BY TypeNext, DisciplineNext DEF IdentityInv
    <2>2. handler[h].pc = "offer" /\ old # <<>>
      BY DEF OfferNext
    <2> QED
      BY <2>1, <2>2 DEF MutexDiscipline, TypeOK, ProcTypeOK, QueueTypeOK, HandlerStates
  <1>1. PendingIds = OfferIds(old) /\ \A g \in Handlers \ {h} : handler[g].pending = <<>>
    BY <1>0, PendingOfHolder DEF IdentityInv
  <1>2. /\ handler' = [handler EXCEPT ![h].pending = new]
        /\ items' = Append(items, r)
        /\ UNCHANGED <<pump, resident, pass, refusals, next_serial, spans, points,
                       assigned_points>>
    BY DEF OfferNext, Offer, storeVars, ledgerVars
  <1>3. handler'[h].pending = new /\ \A g \in Handlers \ {h} : handler'[g].pending = <<>>
    BY <1>0, <1>1, <1>2 DEF HandlerStates
  <1>4. PendingIds' = OfferIds(new)
    BY <1>3, PendingOfHolderNext
  <1>5. /\ Head(old) = old[1] /\ 1 \in DOMAIN old /\ old[1] \in PendingOffers
        /\ \A i \in DOMAIN new : i \in Nat /\ i + 1 \in DOMAIN old /\ i + 1 # 1
                                 /\ new[i] = old[i + 1]
        /\ \A j \in DOMAIN old : j \in Nat
        /\ \A j \in DOMAIN old \ {1} : j - 1 \in DOMAIN new /\ new[j - 1] = old[j]
    BY <1>0, TailPositions
  <1>6. r = old[1].r /\ r \in Records
    BY <1>5 DEF PendingOffers
  <1>7. /\ DOMAIN items' = DOMAIN items \cup {Len(items) + 1}
        /\ Len(items) + 1 \notin DOMAIN items
        /\ \A i \in DOMAIN items : items'[i] = items[i]
        /\ items'[Len(items) + 1] = r
    BY <1>0, <1>2, <1>6, AppendPositions
  <1>8. \A i, j \in DOMAIN old : old[i].r.entity = old[j].r.entity => i = j
    BY DEF IdentityInv, NoRepeats
  <1> HIDE DEF old, new, r
  <1>9. PendingIds' = PendingIds \ {r.entity} /\ r.entity \in PendingIds
    BY <1>1, <1>4, <1>5, <1>6, <1>8 DEF OfferIds
  <1>10. QueuedIds' = QueuedIds \cup {r.entity}
    BY <1>7 DEF QueuedIds
  <1>11. /\ InHandIds' = InHandIds /\ ResidentIds' = ResidentIds /\ EndingIds' = EndingIds
    BY <1>2 DEF InHandIds, ResidentIds, EndingIds
  <1>12. LiveIds' = LiveIds /\ PlacesApart'
    BY <1>9, <1>10, <1>11 DEF LiveIds, IdentityInv, PlacesApart
  <1>13. NoRepeats'
    <2>1. \A g \in Handlers : \A i, j \in DOMAIN handler'[g].pending :
             handler'[g].pending[i].r.entity = handler'[g].pending[j].r.entity => i = j
      <3>1. \A i, j \in DOMAIN new : new[i].r.entity = new[j].r.entity => i = j
        BY <1>5, <1>8
      <3> QED
        BY <1>3, <3>1
    <2>2. \A i, j \in DOMAIN items' : items'[i].entity = items'[j].entity => i = j
      <3>1. r.entity \notin QueuedIds
        BY <1>9 DEF IdentityInv, PlacesApart
      <3> QED
        BY <1>7, <3>1 DEF IdentityInv, NoRepeats, QueuedIds
    <2> QED
      BY <1>2, <2>1, <2>2 DEF IdentityInv, NoRepeats
  <1>14. Standing'
    BY <1>2, <1>11, <1>12, StandingMoved DEF IdentityInv
  <1>15. IdentityInv'
    BY <1>0, <1>2, <1>12, <1>13, <1>14 DEF IdentityInv, NoDuplicateKeep
  <1> QED
    BY <1>9, <1>11, <1>15 DEF r, old

(* A pop moves the queue's first record to the pump's hand.                  *)
LEMMA PopKeepsIdentity ==
    ASSUME IdentityInv, [Next]_vars, PumpPop
    PROVE  /\ IdentityInv'
           /\ PendingIds' = PendingIds /\ ResidentIds' = ResidentIds /\ EndingIds' = EndingIds
  <1> DEFINE new == Tail(items)
             r == Head(items)
  <1>0. TypeOK /\ MutexDiscipline /\ TypeOK' /\ MutexDiscipline'
    BY TypeNext, DisciplineNext DEF IdentityInv
  <1>1. /\ items \in Seq(Records) /\ items # <<>>
        /\ pump.hand = None /\ pump' = [pump EXCEPT !.pc = "keep", !.hand = r]
        /\ items' = new
        /\ UNCHANGED <<handler, resident, pass, refusals, next_serial, spans, points,
                       assigned_points>>
    BY <1>0 DEF PumpPop, PopFront, MutexDiscipline, TypeOK, QueueTypeOK, storeVars,
         ledgerVars
  <1>2. /\ r = items[1] /\ 1 \in DOMAIN items /\ r \in Records
        /\ \A i \in DOMAIN new : i \in Nat /\ i + 1 \in DOMAIN items /\ i + 1 # 1
                                 /\ new[i] = items[i + 1]
        /\ \A j \in DOMAIN items : j \in Nat
        /\ \A j \in DOMAIN items \ {1} : j - 1 \in DOMAIN new /\ new[j - 1] = items[j]
    BY <1>1, TailPositions
  <1>3. pump'.hand = r /\ r # None
    BY <1>0, <1>1, <1>2, NoneAssumption DEF TypeOK, ProcTypeOK
  <1>4. \A i, j \in DOMAIN items : items[i].entity = items[j].entity => i = j
    BY DEF IdentityInv, NoRepeats
  <1> HIDE DEF new, r
  <1>5. QueuedIds' = QueuedIds \ {r.entity} /\ r.entity \in QueuedIds
    BY <1>1, <1>2, <1>4 DEF QueuedIds
  <1>6. InHandIds = {} /\ InHandIds' = {r.entity}
    BY <1>1, <1>3 DEF InHandIds
  <1>7. PendingIds' = PendingIds /\ ResidentIds' = ResidentIds /\ EndingIds' = EndingIds
    BY <1>1 DEF PendingIds, ResidentIds, EndingIds
  <1>8. LiveIds' = LiveIds /\ PlacesApart'
    BY <1>5, <1>6, <1>7 DEF LiveIds, IdentityInv, PlacesApart
  <1>9. NoRepeats'
    <2>1. \A i, j \in DOMAIN new : new[i].entity = new[j].entity => i = j
      BY <1>2, <1>4
    <2> QED
      BY <1>1, <2>1 DEF IdentityInv, NoRepeats
  <1>10. Standing'
    BY <1>1, <1>7, <1>8, StandingMoved DEF IdentityInv
  <1>11. IdentityInv'
    BY <1>0, <1>1, <1>8, <1>9, <1>10 DEF IdentityInv, NoDuplicateKeep
  <1> QED
    BY <1>7, <1>11

(* A keep moves the record in hand to its shelf, or begins its ending; it    *)
(* never finds the identity already shelved.                                 *)
LEMMA KeepKeepsIdentity ==
    ASSUME IdentityInv, [Next]_vars, PumpKeep
    PROVE  /\ IdentityInv'
           /\ PendingIds' = PendingIds /\ EndingIds = {}
           /\ pump.hand.entity \in LiveIds \ (ResidentIds \cup PendingIds)
           /\ \/ /\ KeepInserted("pump", pump.hand)
                 /\ ResidentIds' = ResidentIds \cup {pump.hand.entity} /\ EndingIds' = {}
              \/ /\ KeepRefused("pump", pump.hand) /\ RefusalOf(pump.hand) # "duplicate"
                 /\ ResidentIds' = ResidentIds /\ EndingIds' = {pump.hand.entity}
  <1> DEFINE r == pump.hand
  <1>0. TypeOK /\ MutexDiscipline /\ TypeOK' /\ MutexDiscipline'
    BY TypeNext, DisciplineNext DEF IdentityInv
  <1>1. /\ r \in Records /\ r # None
        /\ pump'.hand = None
        /\ pass.step = "free"
        /\ UNCHANGED <<handler, items, next_serial, spans, points, assigned_points>>
    BY <1>0, NoneAssumption DEF PumpKeep, PumpAt, KeepRefused, KeepInserted, TypeOK,
         ProcTypeOK, queueVars, ledgerVars
  <1>2. /\ InHandIds = {r.entity} /\ InHandIds' = {} /\ EndingIds = {}
        /\ PendingIds' = PendingIds /\ QueuedIds' = QueuedIds
    BY <1>1 DEF InHandIds, PendingIds, QueuedIds, EndingIds
  <1>3. r.entity \notin ResidentIds /\ r.entity \notin PendingIds /\ r.entity \in LiveIds
    BY <1>2 DEF IdentityInv, PlacesApart, LiveIds
  <1>4. RefusalOf(r) # "duplicate"
    BY <1>3, StoreAssumption DEF RefusalOf, Shelved, ResidentIds
  <1>5. CASE KeepInserted("pump", r)
    <2>1. /\ resident' = resident \cup {r} /\ pass'.step = "enforce" /\ UNCHANGED refusals
      BY <1>0, <1>5 DEF KeepInserted, NoPass
    <2>2. ResidentIds' = ResidentIds \cup {r.entity} /\ EndingIds' = {}
      BY <2>1 DEF ResidentIds, EndingIds
    <2>3. LiveIds' = LiveIds /\ PlacesApart'
      BY <1>2, <2>2 DEF LiveIds, IdentityInv, PlacesApart
    <2>4. NoRepeats'
      BY <1>1, <1>3, <2>1 DEF IdentityInv, NoRepeats, ResidentIds
    <2>5. Standing'
      BY <1>1, <1>2, <2>2, <2>3, StandingMoved DEF IdentityInv
    <2>6. IdentityInv'
      BY <1>0, <2>1, <2>3, <2>4, <2>5 DEF IdentityInv, NoDuplicateKeep
    <2> QED
      BY <1>2, <1>3, <1>5, <2>2, <2>6
  <1>6. CASE KeepRefused("pump", r)
    <2>1. /\ UNCHANGED resident
          /\ pass'.step = "refused" /\ pass'.entity = r.entity
      BY <1>4, <1>6 DEF KeepRefused
    <2>2. refusals'["duplicate"] = refusals["duplicate"]
      BY <1>0, <1>4, <1>6 DEF KeepRefused, TypeOK, StoreTypeOK, Reasons
    <2>3. ResidentIds' = ResidentIds /\ EndingIds' = {r.entity}
      BY <2>1 DEF ResidentIds, EndingIds
    <2>4. LiveIds' = LiveIds \ {r.entity} /\ PlacesApart'
      BY <1>2, <2>3 DEF LiveIds, IdentityInv, PlacesApart
    <2>5. NoRepeats'
      BY <1>1, <2>1 DEF IdentityInv, NoRepeats
    <2>6. Standing'
      BY <1>1, <1>2, <1>3, <2>3, <2>4, StandingEnding DEF IdentityInv
    <2>7. IdentityInv'
      BY <1>0, <2>2, <2>4, <2>5, <2>6 DEF IdentityInv, NoDuplicateKeep
    <2> QED
      BY <1>2, <1>3, <1>4, <1>6, <2>3, <2>7
  <1> QED
    BY <1>5, <1>6 DEF PumpKeep

(* An eviction begins the ending of exactly one resident identity.           *)
LEMMA EvictKeepsIdentity ==
    ASSUME IdentityInv, [Next]_vars, StoreStep, EvictOldest
    PROVE  /\ IdentityInv'
           /\ PendingIds' = PendingIds /\ EndingIds = {}
           /\ \E e \in ResidentIds : ResidentIds' = ResidentIds \ {e} /\ EndingIds' = {e}
  <1>0. TypeOK /\ TypeOK' /\ MutexDiscipline'
    BY TypeNext, DisciplineNext DEF IdentityInv
  <1>1. PICK r \in resident :
           /\ resident' = resident \ {r}
           /\ pass' = [pass EXCEPT !.step = "evicted", !.entity = r.entity,
                                   !.stream = IF LastOfStream(r) THEN r.w.stream ELSE None]
    BY DEF EvictOldest
  <1>2. /\ pass.step = "enforce"
        /\ UNCHANGED <<refusals, handler, items, pump, next_serial, spans, points,
                       assigned_points>>
    BY Zenon DEF EvictOldest, StoreStep, procVars, queueVars, ledgerVars
  <1>3. pass'.step = "evicted" /\ pass'.entity = r.entity
    BY <1>0, <1>1 DEF TypeOK, StoreTypeOK
  <1>4. /\ EndingIds = {} /\ EndingIds' = {r.entity}
        /\ PendingIds' = PendingIds /\ QueuedIds' = QueuedIds /\ InHandIds' = InHandIds
    BY <1>2, <1>3 DEF EndingIds, PendingIds, QueuedIds, InHandIds
  <1>5. ResidentIds' = ResidentIds \ {r.entity} /\ r.entity \in ResidentIds
    BY <1>1 DEF ResidentIds, IdentityInv, NoRepeats
  <1>6. LiveIds' = LiveIds \ {r.entity} /\ r.entity \in LiveIds /\ PlacesApart'
    BY <1>4, <1>5 DEF LiveIds, IdentityInv, PlacesApart
  <1>7. NoRepeats'
    BY <1>1, <1>2 DEF IdentityInv, NoRepeats
  <1>8. Standing'
    BY <1>2, <1>4, <1>6, StandingEnding DEF IdentityInv
  <1>9. IdentityInv'
    BY <1>0, <1>2, <1>6, <1>7, <1>8 DEF IdentityInv, NoDuplicateKeep
  <1> QED
    BY <1>4, <1>5, <1>9

(* The hook's forget ends the identity that is ending.                       *)
LEMMA HookKeepsIdentity ==
    ASSUME IdentityInv, [Next]_vars, HookEvicted \/ HookRefusedForget
    PROVE  /\ IdentityInv'
           /\ PendingIds' = PendingIds /\ ResidentIds' = ResidentIds
           /\ EndingIds = {pass.entity} /\ EndingIds' = {}
           /\ ForgetAll({pass.entity})
  <1>0. TypeOK /\ Standing /\ TypeOK' /\ MutexDiscipline'
    BY TypeNext, DisciplineNext DEF IdentityInv
  <1>1. /\ ForgetAll({pass.entity}) /\ pass.step \in {"evicted", "refused"}
        /\ UNCHANGED <<next_serial, refusals, resident, handler, items, pump>>
    BY DEF HookEvicted, HookRefusedForget, Forget, EvictedDelivered, RefusedForgotten,
         procVars, queueVars
  <1>2. pass'.step \notin {"evicted", "refused"}
    BY <1>0 DEF HookEvicted, HookRefusedForget, EvictedDelivered, RefusedForgotten,
         TypeOK, StoreTypeOK
  <1>3. /\ EndingIds = {pass.entity} /\ EndingIds' = {}
        /\ PendingIds' = PendingIds /\ QueuedIds' = QueuedIds /\ InHandIds' = InHandIds
        /\ ResidentIds' = ResidentIds
    BY <1>1, <1>2 DEF EndingIds, PendingIds, QueuedIds, InHandIds, ResidentIds
  <1>4. LiveIds' = LiveIds /\ PlacesApart'
    BY <1>3 DEF LiveIds, IdentityInv, PlacesApart
  <1>5. LiveIds' \cup EndingIds' = (LiveIds \cup EndingIds) \ {pass.entity}
    BY <1>3, <1>4 DEF IdentityInv, Standing, EndingsGone
  <1>6. Standing'
    BY <1>0, <1>1, <1>3, <1>4, <1>5, StandingForgets
  <1>7. NoRepeats'
    BY <1>1 DEF IdentityInv, NoRepeats
  <1>8. IdentityInv'
    BY <1>0, <1>1, <1>4, <1>6, <1>7 DEF IdentityInv, NoDuplicateKeep
  <1> QED
    BY <1>1, <1>3, <1>8

(* The handler steps that admit, offer and undo nothing leave every offer-set *)
(* alone.                                                                     *)
LEMMA PendingQuiet ==
    ASSUME TypeOK, MutexDiscipline, NEW h \in Handlers,
           \/ Arrive(h) \/ BodyFails(h) \/ Stamp(h) \/ Gate(h) \/ LockLedger(h)
           \/ IngestRefused(h) \/ IngestStanding(h) \/ Measure(h) \/ Respond(h)
    PROVE  \A g \in Handlers : handler'[g].pending = handler[g].pending
  <1>0. MutexDiscipline /\ handler \in [Handlers -> HandlerStates]
    BY DEF TypeOK, ProcTypeOK
  <1>1. CASE Arrive(h)
    <2>1. PICK x \in Exports :
             handler' = [handler EXCEPT ![h] =
                           [Idle EXCEPT !.pc = "body", !.fate = x.fate, !.todo = x.records]]
      BY <1>1 DEF Arrive
    <2>2. handler[h].pc = "idle"
      BY <1>1, Zenon DEF Arrive
    <2>3. handler[h].pending = <<>>
      BY <1>0, <2>2 DEF MutexDiscipline
    <2> QED
      BY <1>0, <2>1, <2>3 DEF Idle, HandlerStates
  <1>2. CASE BodyFails(h) \/ Gate(h)
    <2>1. handler[h].pc \in {"body", "stamped"}
      BY <1>2 DEF BodyFails, Gate
    <2>2. handler[h].pending = <<>>
      BY <1>0, <2>1 DEF MutexDiscipline
    <2>3. PICK s : /\ handler' = [handler EXCEPT ![h] = s]
                   /\ s \in {Idle, [handler[h] EXCEPT !.pc = "decoded"]}
      BY <1>2 DEF BodyFails, Gate
    <2>4. s.pending = <<>>
      BY <1>0, <2>2, <2>3 DEF Idle, HandlerStates
    <2> QED
      BY <1>0, <2>2, <2>3, <2>4
  <1>3. CASE Stamp(h)
    <2>1. PICK n : handler' = [handler EXCEPT ![h].pc = "stamped", ![h].now = n]
      BY <1>3 DEF Stamp
    <2> QED
      BY <1>0, <2>1 DEF HandlerStates
  <1>4. CASE LockLedger(h) \/ Measure(h)
    <2>1. PICK p : handler' = [handler EXCEPT ![h].pc = p]
      BY <1>4 DEF LockLedger, Measure
    <2> QED
      BY <1>0, <2>1 DEF HandlerStates
  <1>5. CASE IngestRefused(h) \/ IngestStanding(h)
    <2>1. Consume(h, handler[h].pending)
      BY <1>5 DEF IngestRefused, IngestStanding
    <2> QED
      BY <1>0, <2>1 DEF Consume, HandlerStates
  <1>6. CASE Respond(h)
    BY <1>0, <1>6 DEF Respond, Idle
  <1> QED
    BY <1>1, <1>2, <1>3, <1>4, <1>5, <1>6

(* The handler steps that admit, offer and undo nothing are quiet.           *)
LEMMA QuietHandler ==
    ASSUME IdentityInv, [Next]_vars, NEW h \in Handlers,
           \/ Arrive(h) \/ BodyFails(h) \/ Stamp(h) \/ Gate(h) \/ LockLedger(h)
           \/ IngestRefused(h) \/ IngestStanding(h) \/ Measure(h) \/ Respond(h)
    PROVE  IdentityInv' /\ NothingMoves
  <1>1. \A g \in Handlers : handler'[g].pending = handler[g].pending
    BY PendingQuiet DEF IdentityInv
  <1>2. UNCHANGED <<items, resident, spans, points, assigned_points, next_serial, refusals,
                    pump, pass>>
    BY DEF Arrive, BodyFails, Stamp, Gate, LockLedger, IngestRefused, IngestStanding,
         Consume, CollapseSpan, ConflictSpan, CollapsePoint, ConflictPoint, Measure,
         Respond, ledgerVars, queueVars, storeVars
  <1>3. EndingIds' = EndingIds
    BY <1>2 DEF EndingIds
  <1> QED
    BY <1>1, <1>2, <1>3, QuietStep

(* So are the pump's waiting and counting, the end of a retention pass, the  *)
(* release of a stream, the timer and the stop.                              *)
LEMMA QuietThreads ==
    ASSUME IdentityInv, [Next]_vars,
           \/ PumpLoop \/ PumpPopNothing \/ PumpKept
           \/ (StoreStep /\ EndPass) \/ HookStreamReleased \/ HookRefusedRelease
           \/ RetentionWake \/ RetentionStep
           \/ StopRequested \/ DeadlinePasses \/ StopStep \/ Finished \/ UNCHANGED vars
    PROVE  IdentityInv' /\ NothingMoves
  <1>0. TypeOK
    BY DEF IdentityInv
  <1>1. CASE \/ PumpLoop \/ PumpPopNothing \/ RetentionWake \/ RetentionExit
             \/ StopRequested \/ DeadlinePasses \/ StopStep \/ Finished \/ UNCHANGED vars
    <2>1. /\ UNCHANGED <<handler, items, resident, spans, points, assigned_points,
                         next_serial, refusals, pass>>
          /\ pump'.hand = pump.hand
      BY <1>0, <1>1 DEF PumpLoop, PumpPopNothing, PumpGoes, RetentionWake, RetentionExit,
           StopRequested, DeadlinePasses, StopStep, DeadlineSet, ServeEnds, JoinPump,
           SignalRetention, CountDropped, Finished, vars, procVars, ledgerVars, queueVars,
           storeVars, TypeOK, ProcTypeOK
    <2>2. EndingIds' = EndingIds
      BY <2>1 DEF EndingIds
    <2> QED
      BY <2>1, <2>2, QuietStep
  <1>2. CASE \/ PumpKept \/ (StoreStep /\ EndPass) \/ HookStreamReleased
             \/ HookRefusedRelease \/ RetentionTick \/ RetentionDone
    <2>1. /\ UNCHANGED <<handler, items, resident, spans, points, assigned_points,
                         next_serial, refusals>>
          /\ pump'.hand = pump.hand
      BY <1>0, <1>2 DEF PumpKept, StoreStep, EndPass, HookStreamReleased,
           HookRefusedRelease, RetentionTick, RetentionDone, Unlock, ReleasedDelivered,
           RefusedReleased, RetentionPass, ReleaseStream, procVars, ledgerVars, queueVars,
           TypeOK, ProcTypeOK
    <2>2. EndingIds = {} /\ EndingIds' = {}
      <3>1. CASE PumpKept \/ RetentionTick \/ RetentionDone
        <4>1. pass.step \in {"free", "done"}
          BY <3>1 DEF PumpKept, RetentionTick, RetentionDone, Unlock, RetentionPass
        <4>2. pass'.step \in {"free", "enforce"}
          <5>1. CASE RetentionTick
            BY <5>1 DEF RetentionTick, RetentionPass, NoPass
          <5>2. CASE PumpKept \/ RetentionDone
            BY <5>2 DEF PumpKept, RetentionDone, Unlock, NoPass
          <5> QED
            BY <3>1, <5>1, <5>2
        <4> QED
          BY <4>1, <4>2 DEF EndingIds
      <3>2. CASE (StoreStep /\ EndPass) \/ HookStreamReleased \/ HookRefusedRelease
        BY <1>0, <3>2 DEF EndPass, HookStreamReleased, HookRefusedRelease,
             ReleasedDelivered, RefusedReleased, EndingIds, TypeOK, StoreTypeOK
      <3> QED
        BY <1>2, <3>1, <3>2
    <2> QED
      BY <2>1, <2>2, QuietStep
  <1> QED
    BY <1>1, <1>2 DEF RetentionStep

(* Every step of every thread keeps the invariant.                           *)
LEMMA IdentityNext == IdentityInv /\ [Next]_vars => IdentityInv'
  <1> SUFFICES ASSUME IdentityInv, [Next]_vars PROVE IdentityInv'
    OBVIOUS
  <1>1. ASSUME NEW h \in Handlers, Arrive(h) \/ BodyFails(h) \/ HandlerStep(h)
        PROVE  IdentityInv'
    BY <1>1, QuietHandler, IngestKeepsIdentity, SaturatedKeepsIdentity, OfferKeepsIdentity
       DEF HandlerStep
  <1>2. CASE PumpStep
    BY <1>2, QuietThreads, PopKeepsIdentity, KeepKeepsIdentity DEF PumpStep
  <1>3. CASE MutexStep
    BY <1>3, QuietThreads, EvictKeepsIdentity, HookKeepsIdentity DEF MutexStep, StoreStep
  <1>4. CASE \/ RetentionWake \/ RetentionStep \/ StopRequested \/ DeadlinePasses
             \/ StopStep \/ Finished \/ UNCHANGED vars
    BY <1>4, QuietThreads
  <1> QED
    BY <1>1, <1>2, <1>3, <1>4 DEF Next

(* The inductive invariant holds of every reachable state.                   *)
THEOREM IdentityCorrect == Spec => []IdentityInv
  BY IdentityInit, IdentityNext, PTL DEF Spec

(* At most one record bears an entity id, anywhere between its admission and *)
(* the end of its residency.                                                 *)
THEOREM EntityUnique == Spec => []OneRecordPerEntity
  <1>1. IdentityInv => OneRecordPerEntity
    BY DEF IdentityInv, OneRecordPerEntity
  <1> QED
    BY <1>1, IdentityCorrect, PTL

(* A span's natural identity stands in the ledger exactly while its record   *)
(* is in flight, resident, or about to be reported gone.                     *)
THEOREM SpanIdentity == Spec => []SpanIdentityLasts
  <1>1. IdentityInv => SpanIdentityLasts
    BY DEF IdentityInv, Standing
  <1> QED
    BY <1>1, IdentityCorrect, PTL

(* A standing point names a record that is in flight, resident, or about to  *)
(* be reported gone, and the two point maps name each other.                 *)
THEOREM PointIdentity == Spec => []PointIdentityLasts
  <1>1. IdentityInv => PointIdentityLasts
    BY DEF IdentityInv, Standing
  <1> QED
    BY <1>1, IdentityCorrect, PTL

(* The hand-overs between handlers, pump and hook are exclusive.             *)
THEOREM HandOvers == Spec => []HandOversExclusive
  <1>1. IdentityInv => HandOversExclusive
    BY DEF IdentityInv, Standing, HandOversExclusive
  <1> QED
    BY <1>1, IdentityCorrect, PTL

(* The pump never keeps a record whose identity is already resident.         *)
THEOREM NeverDuplicate == Spec => []NoDuplicateKeep
  <1>1. IdentityInv => NoDuplicateKeep
    BY DEF IdentityInv
  <1> QED
    BY <1>1, IdentityCorrect, PTL

(* Nothing collides between admission and residency.                         *)
THEOREM NoCollisions == Spec => []NoCollision
  <1>1. HandOversExclusive /\ NoDuplicateKeep => NoCollision
    BY DEF NoCollision
  <1> QED
    BY <1>1, HandOvers, NeverDuplicate, PTL

-----------------------------------------------------------------------------
(* The hand-off queue.                                                       *)

(* What each place of a queue, or of an offer-set, is charged.               *)
QueueSizes(q) == [i \in DOMAIN q |-> QueuedBytes(q[i].w)]
OfferSizes(offers) == [i \in DOMAIN offers |-> QueuedBytes(offers[i].r.w)]

(* A record is charged a natural number of bytes.                            *)
LEMMA ChargeNat ==
    /\ \A r \in Records : QueuedBytes(r.w) \in Nat
    /\ \A o \in PendingOffers : QueuedBytes(o.r.w) \in Nat
  BY WireShape DEF Records, PendingOffers

(* A record at the end of the queue adds its own bytes.                      *)
LEMMA QueueAppend ==
    ASSUME NEW q \in Seq(Records), NEW r \in Records
    PROVE  SumFunction(QueueSizes(Append(q, r))) = SumFunction(QueueSizes(q)) + QueuedBytes(r.w)
  <1> DEFINE n == Len(q)
             g == QueueSizes(q)
             k == QueueSizes(Append(q, r))
  <1>1. n \in Nat /\ DOMAIN g = 1..n /\ DOMAIN k = 1..(n + 1)
    BY DEF QueueSizes
  <1>2. /\ \A i \in 1..n : k[i] = g[i]
        /\ k[n + 1] = QueuedBytes(r.w)
        /\ \A i \in 1..(n + 1) : Append(q, r)[i] \in Records
        /\ \A i \in 1..(n + 1) : k[i] = QueuedBytes(Append(q, r)[i].w)
    BY DEF QueueSizes
  <1>3. \A i \in 1..(n + 1) : k[i] \in Nat
    BY <1>2, ChargeNat
  <1> HIDE DEF n, g, k
  <1>4. SumFunctionOnSet(k, 1..(n + 1)) = SumFunctionOnSet(g, 1..n) + k[n + 1]
    BY <1>1, <1>2, <1>3, TotalAppend
  <1> QED
    BY <1>1, <1>2, <1>4 DEF SumFunction, g, k

(* The bytes of a queue are those of its first record and of the rest.       *)
LEMMA QueueTail ==
    ASSUME NEW q \in Seq(Records), q # <<>>
    PROVE  /\ SumFunction(QueueSizes(q))
                = QueuedBytes(Head(q).w) + SumFunction(QueueSizes(Tail(q)))
           /\ Head(q) \in Records
  <1> DEFINE n == Len(q) - 1
             g == QueueSizes(q)
             k == QueueSizes(Tail(q))
  <1>1. n \in Nat /\ DOMAIN g = 1..(n + 1) /\ DOMAIN k = 1..n
    BY DEF QueueSizes
  <1>2. /\ \A i \in 1..n : k[i] = g[i + 1]
        /\ g[1] = QueuedBytes(Head(q).w)
        /\ \A i \in 1..(n + 1) : q[i] \in Records
        /\ \A i \in 1..(n + 1) : g[i] = QueuedBytes(q[i].w)
        /\ Head(q) \in Records
    BY DEF QueueSizes
  <1>3. \A i \in 1..(n + 1) : g[i] \in Nat
    BY <1>2, ChargeNat
  <1> HIDE DEF n, g, k
  <1>4. SumFunctionOnSet(g, 1..(n + 1)) = g[1] + SumFunctionOnSet(k, 1..n)
    BY <1>1, <1>2, <1>3, TotalTail
  <1> QED
    BY <1>1, <1>2, <1>4 DEF SumFunction, g, k

(* The same for an offer-set, and what is left of it is still a natural      *)
(* number of bytes.                                                          *)
LEMMA OffersTail ==
    ASSUME NEW q \in Seq(PendingOffers), q # <<>>
    PROVE  /\ OfferBytes(q) = QueuedBytes(Head(q).r.w) + OfferBytes(Tail(q))
           /\ Head(q).r \in Records
           /\ OfferBytes(Tail(q)) \in Nat
  <1> DEFINE n == Len(q) - 1
             g == OfferSizes(q)
             k == OfferSizes(Tail(q))
  <1>1. n \in Nat /\ DOMAIN g = 1..(n + 1) /\ DOMAIN k = 1..n
    BY DEF OfferSizes
  <1>2. /\ \A i \in 1..n : k[i] = g[i + 1]
        /\ g[1] = QueuedBytes(Head(q).r.w)
        /\ \A i \in 1..(n + 1) : q[i] \in PendingOffers
        /\ \A i \in 1..(n + 1) : g[i] = QueuedBytes(q[i].r.w)
        /\ Head(q) \in PendingOffers
    BY DEF OfferSizes
  <1>3. \A i \in 1..(n + 1) : g[i] \in Nat
    BY <1>2, ChargeNat
  <1>4. OfferBytes(q) = SumFunction(g) /\ OfferBytes(Tail(q)) = SumFunction(k)
    BY DEF OfferBytes, OfferSizes
  <1>5. Head(q).r \in Records
    BY <1>2 DEF PendingOffers
  <1> HIDE DEF n, g, k
  <1>6. SumFunctionOnSet(g, 1..(n + 1)) = g[1] + SumFunctionOnSet(k, 1..n)
    BY <1>1, <1>2, <1>3, TotalTail
  <1>7. SumFunctionOnSet(k, 1..n) \in Nat
    <2>1. \A i \in 1..n : k[i] \in Nat
      BY <1>1, <1>2, <1>3
    <2>2. IsFiniteSet(1..n)
      BY <1>1, FS_Interval
    <2> QED
      BY <2>1, <2>2, TotalNat
  <1> QED
    BY <1>1, <1>2, <1>4, <1>5, <1>6, <1>7 DEF SumFunction

(* A step that leaves the queue and the offer-sets under way alone.          *)
LEMMA QueueQuiet ==
    ASSUME MeasuredOffersFit, UNCHANGED queueVars,
           \A g \in Handlers : handler'[g].pc = "offer" =>
             handler[g].pc = "offer" /\ handler'[g].pending = handler[g].pending
    PROVE  MeasuredOffersFit'
  <1>1. accounted' = accounted /\ items' = items
    BY DEF queueVars
  <1>2. ASSUME NEW g \in Handlers, handler'[g].pc = "offer"
        PROVE  ~(accounted' + OfferBytes(handler'[g].pending) > QueueCeiling)
    BY <1>1, <1>2 DEF MeasuredOffersFit, Saturates
  <1> QED
    BY <1>1, <1>2 DEF MeasuredOffersFit, Saturates

(* The handler that offers is the only one.                                  *)
LEMMA OneOffers ==
    ASSUME TypeOK, MutexDiscipline, NEW h \in Handlers, handler[h].pc \in {"admit", "offer"}
    PROVE  \A g \in Handlers \ {h} : handler[g].pc \notin {"admit", "offer"}
  BY DEF MutexDiscipline

(* Measuring and offering keep the queue within its ceiling.                 *)
LEMMA OfferFits ==
    ASSUME TypeOK, MutexDiscipline, MeasuredOffersFit, NEW h \in Handlers, OfferNext(h)
    PROVE  MeasuredOffersFit'
  <1> DEFINE old == handler[h].pending
             r == Head(old).r
  <1>1. /\ handler \in [Handlers -> HandlerStates] /\ items \in Seq(Records)
        /\ accounted \in Int /\ QueueCeiling \in Nat
    BY QueueAssumption DEF TypeOK, ProcTypeOK, QueueTypeOK
  <1>2. /\ handler[h].pc = "offer" /\ old # <<>> /\ old \in Seq(PendingOffers)
        /\ handler' = [handler EXCEPT ![h].pending = Tail(old)]
        /\ items' = Append(items, r)
        /\ accounted' = accounted + QueuedBytes(r.w)
        /\ ~(accounted + QueuedBytes(r.w) > QueueCeiling)
    BY <1>1 DEF OfferNext, Offer, Saturates, HandlerStates
  <1>3. \A g \in Handlers \ {h} : handler'[g].pc # "offer"
    BY <1>1, <1>2, OneOffers
  <1>4. handler'[h].pending = Tail(old)
    BY <1>1, <1>2 DEF HandlerStates
  <1>5. /\ OfferBytes(old) = QueuedBytes(r.w) + OfferBytes(Tail(old))
        /\ r \in Records /\ QueuedBytes(r.w) \in Nat /\ OfferBytes(Tail(old)) \in Nat
    BY <1>2, OffersTail, ChargeNat
  <1>6. accounted + OfferBytes(old) <= QueueCeiling
    <2>1. ~(accounted + OfferBytes(old) > QueueCeiling)
      BY <1>2 DEF MeasuredOffersFit, Saturates
    <2>2. OfferBytes(old) \in Nat
      BY <1>5
    <2> QED
      BY <1>1, <2>1, <2>2
  <1>7. accounted' = SumFunction(QueueSizes(items'))
    <2>1. accounted = SumFunction(QueueSizes(items))
      BY DEF MeasuredOffersFit, QueueSizes
    <2>2. SumFunction(QueueSizes(Append(items, r)))
            = SumFunction(QueueSizes(items)) + QueuedBytes(r.w)
      BY <1>1, <1>5, QueueAppend
    <2> QED
      BY <1>2, <2>1, <2>2
  <1> HIDE DEF old, r
  <1>8. accounted' <= QueueCeiling /\ ~(accounted' + OfferBytes(Tail(old)) > QueueCeiling)
    BY <1>1, <1>2, <1>5, <1>6
  <1>9. \A g \in Handlers : handler'[g].pc = "offer" =>
          ~(accounted' + OfferBytes(handler'[g].pending) > QueueCeiling)
    BY <1>3, <1>4, <1>8
  <1> QED
    BY <1>7, <1>8, <1>9 DEF MeasuredOffersFit, Saturates, QueueSizes

(* A pop takes the bytes of the record it takes.                             *)
LEMMA PopFits ==
    ASSUME TypeOK, MeasuredOffersFit, PumpPop
    PROVE  MeasuredOffersFit'
  <1>1. /\ items \in Seq(Records) /\ items # <<>> /\ UNCHANGED handler
        /\ accounted \in Int /\ QueueCeiling \in Nat
        /\ items' = Tail(items) /\ accounted' = accounted - QueuedBytes(Head(items).w)
        /\ handler \in [Handlers -> HandlerStates]
    BY QueueAssumption DEF TypeOK, QueueTypeOK, PumpPop, PopFront, ProcTypeOK
  <1>2. /\ SumFunction(QueueSizes(items))
             = QueuedBytes(Head(items).w) + SumFunction(QueueSizes(Tail(items)))
        /\ QueuedBytes(Head(items).w) \in Nat
    BY <1>1, QueueTail, ChargeNat
  <1>3. accounted = SumFunction(QueueSizes(items)) /\ accounted <= QueueCeiling
    BY DEF MeasuredOffersFit, QueueSizes
  <1>4. SumFunction(QueueSizes(Tail(items))) \in Nat
    <2> DEFINE n == Len(Tail(items))
               k == QueueSizes(Tail(items))
    <2>1. n \in Nat /\ DOMAIN k = 1..n /\ \A i \in 1..n : Tail(items)[i] \in Records
      BY <1>1 DEF QueueSizes
    <2>2. \A i \in 1..n : k[i] \in Nat
      BY <2>1, ChargeNat DEF QueueSizes
    <2>3. IsFiniteSet(1..n)
      BY <2>1, FS_Interval
    <2> HIDE DEF n, k
    <2> QED
      BY <2>1, <2>2, <2>3, TotalNat DEF SumFunction, k
  <1>5. accounted' = SumFunction(QueueSizes(items'))
    BY <1>1, <1>2, <1>3, <1>4
  <1>6. accounted' <= QueueCeiling
    BY <1>1, <1>2, <1>3
  <1>7. ASSUME NEW g \in Handlers, handler'[g].pc = "offer"
        PROVE  ~(accounted' + OfferBytes(handler'[g].pending) > QueueCeiling)
    <2> DEFINE q == handler[g].pending
    <2>1. q \in Seq(PendingOffers) /\ ~(accounted + OfferBytes(q) > QueueCeiling)
      BY <1>1, <1>7 DEF MeasuredOffersFit, Saturates, HandlerStates
    <2>2. OfferBytes(q) \in Nat
      <3> DEFINE n == Len(q)
                 k == OfferSizes(q)
      <3>1. n \in Nat /\ DOMAIN k = 1..n /\ \A i \in 1..n : q[i] \in PendingOffers
        BY <2>1 DEF OfferSizes
      <3>2. \A i \in 1..n : k[i] \in Nat
        BY <3>1, ChargeNat DEF OfferSizes
      <3>3. IsFiniteSet(1..n)
        BY <3>1, FS_Interval
      <3>4. OfferBytes(q) = SumFunction(k)
        BY DEF OfferBytes, OfferSizes
      <3> HIDE DEF n, k, q
      <3> QED
        BY <3>1, <3>2, <3>3, <3>4, TotalNat DEF SumFunction
    <2> HIDE DEF q
    <2>3. ~(accounted' + OfferBytes(q) > QueueCeiling)
      BY <1>1, <1>2, <2>1, <2>2
    <2> QED
      BY <1>1, <2>3 DEF q
  <1> QED
    BY <1>5, <1>6, <1>7 DEF MeasuredOffersFit, Saturates, QueueSizes

(* The queue starts empty.                                                   *)
LEMMA FitsInit == Init => MeasuredOffersFit
  <1> SUFFICES ASSUME Init PROVE MeasuredOffersFit
    OBVIOUS
  <1>1. items = <<>> /\ accounted = 0 /\ \A h \in Handlers : handler[h].pc = "idle"
    BY DEF Init, QueueInit, Idle
  <1>2. SumFunction(QueueSizes(items)) = 0
    <2>1. DOMAIN QueueSizes(items) = {}
      BY <1>1 DEF QueueSizes
    <2>2. \A g : SumFunctionOnSet(g, {}) = 0
      BY TotalUnfolds, FS_EmptySet
    <2> QED
      BY <2>1, <2>2 DEF SumFunction
  <1> QED
    BY <1>1, <1>2, QueueAssumption DEF MeasuredOffersFit, QueueSizes

(* Every step of every thread keeps the queue's account and its ceiling.     *)
LEMMA FitsNext ==
    ASSUME TypeOK, MutexDiscipline, MeasuredOffersFit, [Next]_vars
    PROVE  MeasuredOffersFit'
  <1>0. handler \in [Handlers -> HandlerStates]
    BY DEF TypeOK, ProcTypeOK
  <1>1. ASSUME NEW h \in Handlers, Arrive(h) \/ BodyFails(h) \/ HandlerStep(h)
        PROVE  MeasuredOffersFit'
    <2>1. CASE Arrive(h)
      <3>1. PICK x \in Exports :
               handler' = [handler EXCEPT ![h] =
                             [Idle EXCEPT !.pc = "body", !.fate = x.fate, !.todo = x.records]]
        BY <2>1 DEF Arrive
      <3>2. UNCHANGED queueVars
        BY <2>1, Zenon DEF Arrive
      <3>3. \A g \in Handlers : handler'[g].pc = "offer" => g # h /\ handler'[g] = handler[g]
        BY <1>0, <3>1 DEF Idle
      <3> QED
        BY <3>2, <3>3, QueueQuiet
    <2>2. CASE BodyFails(h) \/ Gate(h) \/ Respond(h) \/ Saturated(h)
      <3>1. UNCHANGED queueVars
        BY <2>2 DEF BodyFails, Gate, Respond, Saturated
      <3>2. PICK s : /\ handler' = [handler EXCEPT ![h] = s]
                     /\ s \in {Idle, [handler[h] EXCEPT !.pc = "decoded"]}
        BY <2>2 DEF BodyFails, Gate, Respond, Saturated
      <3>3. s.pc # "offer"
        BY <1>0, <3>2 DEF Idle, HandlerStates
      <3>4. \A g \in Handlers : handler'[g].pc = "offer" => g # h /\ handler'[g] = handler[g]
        BY <1>0, <3>2, <3>3
      <3> QED
        BY <3>1, <3>4, QueueQuiet
    <2>3. CASE Stamp(h)
      <3>1. PICK n : handler' = [handler EXCEPT ![h].pc = "stamped", ![h].now = n]
        BY <2>3 DEF Stamp
      <3>2. UNCHANGED queueVars
        BY <2>3, Zenon DEF Stamp
      <3>3. \A g \in Handlers : handler'[g].pc = "offer" => g # h /\ handler'[g] = handler[g]
        BY <1>0, <3>1 DEF HandlerStates
      <3> QED
        BY <3>2, <3>3, QueueQuiet
    <2>4. CASE LockLedger(h)
      <3>1. handler' = [handler EXCEPT ![h].pc = "admit"] /\ UNCHANGED queueVars
        BY <2>4 DEF LockLedger
      <3>2. \A g \in Handlers : handler'[g].pc = "offer" => g # h /\ handler'[g] = handler[g]
        BY <1>0, <3>1 DEF HandlerStates
      <3> QED
        BY <3>1, <3>2, QueueQuiet
    <2>5. CASE \/ IngestRefused(h) \/ IngestUnnamed(h) \/ IngestSpan(h) \/ IngestPoint(h)
               \/ IngestStanding(h)
      <3>1. PICK offers : Consume(h, offers)
        BY <2>5 DEF IngestRefused, IngestUnnamed, IngestSpan, IngestPoint, IngestStanding
      <3>2. handler[h].pc = "admit"
        BY <2>5 DEF IngestRefused, IngestUnnamed, IngestSpan, IngestPoint, IngestStanding,
             Admitting
      <3>3. \A g \in Handlers : handler'[g].pc = "offer" => g # h /\ handler'[g] = handler[g]
        BY <1>0, <3>1, <3>2 DEF Consume, HandlerStates
      <3> QED
        BY <3>1, <3>3, QueueQuiet DEF Consume
    <2>6. CASE Measure(h)
      <3>1. /\ handler' = [handler EXCEPT ![h].pc = "offer"] /\ UNCHANGED queueVars
            /\ handler[h].pc = "admit"
            /\ ~(accounted + OfferBytes(handler[h].pending) > QueueCeiling)
        BY <2>6 DEF Measure, Admitted, Saturates
      <3>2. /\ handler'[h].pending = handler[h].pending
            /\ \A g \in Handlers \ {h} : handler'[g].pc # "offer"
            /\ accounted' = accounted /\ items' = items
        BY <1>0, <3>1, OneOffers DEF HandlerStates, queueVars
      <3>3. \A g \in Handlers : handler'[g].pc = "offer" =>
              ~(accounted' + OfferBytes(handler'[g].pending) > QueueCeiling)
        BY <3>1, <3>2
      <3> QED
        BY <3>2, <3>3 DEF MeasuredOffersFit, Saturates
    <2>7. CASE OfferNext(h)
      BY <2>7, OfferFits
    <2> QED
      BY <1>1, <2>1, <2>2, <2>3, <2>4, <2>5, <2>6, <2>7 DEF HandlerStep
  <1>2. CASE PumpPop
    BY <1>2, PopFits
  <1>3. CASE \/ PumpLoop \/ PumpPopNothing \/ PumpKeep \/ PumpKept \/ MutexStep
             \/ RetentionWake \/ RetentionStep \/ StopRequested \/ DeadlinePasses
             \/ StopStep \/ Finished \/ UNCHANGED vars
    <2>1. UNCHANGED <<queueVars, handler>>
      BY <1>3 DEF PumpLoop, PumpPopNothing, PumpKeep, PumpKept, MutexStep, StoreStep,
           HookEvicted, HookStreamReleased, HookRefusedForget, HookRefusedRelease,
           RetentionWake, RetentionStep, RetentionTick, RetentionDone, RetentionExit,
           StopRequested, DeadlinePasses, StopStep, DeadlineSet, ServeEnds, JoinPump,
           SignalRetention, CountDropped, Finished, vars, procVars
    <2> QED
      BY <2>1, QueueQuiet
  <1> QED
    BY <1>1, <1>2, <1>3 DEF Next, PumpStep

(* The queue's cached byte count is that of its contents and never above the *)
(* ceiling, and an export measured once still fits at each of its offers:    *)
(* nothing the pump or another handler does in between can make the offer of *)
(* a measured export fail.                                                   *)
THEOREM OffersAlwaysFit == Spec => []MeasuredOffersFit
  <1>1. IdentityInv => TypeOK /\ MutexDiscipline
    BY DEF IdentityInv
  <1> QED
    BY <1>1, FitsInit, FitsNext, IdentityCorrect, PTL DEF Spec

-----------------------------------------------------------------------------
(* The store's books.                                                        *)

StoreBooks == BooksBalance /\ IsFiniteSet(resident) /\ IsFiniteSet(ResidentStreams)

(* What each resident record is charged, and the records of one stream.      *)
RecordSizes(R) == [r \in R |-> r.w.bytes]
OfStream(R, s) == {r \in R : r.w.stream = s}

(* One more record on the shelves.                                           *)
LEMMA ShelfGains ==
    ASSUME NEW R, IsFiniteSet(R), R \subseteq Records, NEW r \in Records, r \notin R
    PROVE  /\ IsFiniteSet(R \cup {r})
           /\ SumFunction(RecordSizes(R \cup {r})) = SumFunction(RecordSizes(R)) + r.w.bytes
           /\ \A s : Cardinality(OfStream(R \cup {r}, s)) =
                IF s = r.w.stream THEN Cardinality(OfStream(R, s)) + 1
                ELSE Cardinality(OfStream(R, s))
  <1>1. IsFiniteSet(R \cup {r})
    BY FS_AddElement
  <1>2. SumFunction(RecordSizes(R \cup {r})) = SumFunction(RecordSizes(R)) + r.w.bytes
    <2> DEFINE g == RecordSizes(R)
               k == RecordSizes(R \cup {r})
    <2>1. DOMAIN g = R /\ DOMAIN k = R \cup {r}
      BY DEF RecordSizes
    <2>2. /\ \A x \in R : g[x] = k[x]
          /\ k[r] = r.w.bytes
      BY DEF RecordSizes
    <2>3. \A x \in R \cup {r} : k[x] \in Nat
      BY WireShape DEF RecordSizes, Records
    <2> HIDE DEF g, k
    <2>4. SumFunctionOnSet(k, R \cup {r}) = SumFunctionOnSet(k, R) + k[r]
      BY <2>3, TotalAdd
    <2>5. SumFunctionOnSet(g, R) = SumFunctionOnSet(k, R)
      BY <2>2, TotalAgrees
    <2> QED
      BY <2>1, <2>2, <2>4, <2>5 DEF SumFunction, g, k
  <1>3. ASSUME NEW s
        PROVE  Cardinality(OfStream(R \cup {r}, s)) =
                 IF s = r.w.stream THEN Cardinality(OfStream(R, s)) + 1
                 ELSE Cardinality(OfStream(R, s))
    <2>1. IsFiniteSet(OfStream(R, s)) /\ r \notin OfStream(R, s)
      BY FS_Subset DEF OfStream
    <2>2. OfStream(R \cup {r}, s) = IF s = r.w.stream THEN OfStream(R, s) \cup {r}
                                    ELSE OfStream(R, s)
      BY DEF OfStream
    <2> QED
      BY <2>1, <2>2, FS_AddElement
  <1> QED
    BY <1>1, <1>2, <1>3

(* One record less.                                                          *)
LEMMA ShelfLoses ==
    ASSUME NEW R, IsFiniteSet(R), R \subseteq Records, NEW r \in R
    PROVE  /\ IsFiniteSet(R \ {r})
           /\ SumFunction(RecordSizes(R)) = SumFunction(RecordSizes(R \ {r})) + r.w.bytes
           /\ SumFunction(RecordSizes(R \ {r})) \in Nat
           /\ \A s : /\ Cardinality(OfStream(R, s)) =
                          IF s = r.w.stream THEN Cardinality(OfStream(R \ {r}, s)) + 1
                          ELSE Cardinality(OfStream(R \ {r}, s))
                     /\ Cardinality(OfStream(R \ {r}, s)) \in Nat
  <1>1. IsFiniteSet(R \ {r}) /\ (R \ {r}) \cup {r} = R /\ r \notin R \ {r} /\ r \in Records
    BY FS_RemoveElement
  <1>2. SumFunction(RecordSizes(R \ {r})) \in Nat
    <2> DEFINE g == RecordSizes(R \ {r})
    <2>1. DOMAIN g = R \ {r}
      BY DEF RecordSizes
    <2>2. \A x \in R \ {r} : g[x] \in Nat
      BY WireShape DEF RecordSizes, Records
    <2> HIDE DEF g
    <2> QED
      BY <1>1, <2>1, <2>2, TotalNat DEF SumFunction, g
  <1>3. \A s : Cardinality(OfStream(R \ {r}, s)) \in Nat
    BY <1>1, FS_Subset, FS_CardinalityType DEF OfStream
  <1> DEFINE Q == R \ {r}
  <1>4. IsFiniteSet(Q) /\ Q \subseteq Records /\ r \notin Q /\ R = Q \cup {r}
    BY <1>1
  <1> HIDE DEF Q
  <1>5. /\ SumFunction(RecordSizes(Q \cup {r})) = SumFunction(RecordSizes(Q)) + r.w.bytes
        /\ \A s : Cardinality(OfStream(Q \cup {r}, s)) =
             IF s = r.w.stream THEN Cardinality(OfStream(Q, s)) + 1
             ELSE Cardinality(OfStream(Q, s))
    BY <1>1, <1>4, ShelfGains
  <1> QED
    BY <1>1, <1>2, <1>3, <1>4, <1>5 DEF Q

(* A keep that inserts leaves the books balanced, and within the series cap. *)
LEMMA KeepBalances ==
    ASSUME StoreTypeOK, StoreBooks, NEW by, NEW r \in Records, KeepInserted(by, r)
    PROVE  /\ StoreBooks'
           /\ Cardinality(ResidentStreams) <= SeriesCap =>
                Cardinality(ResidentStreams') <= SeriesCap
  <1> DEFINE s == r.w.stream
             T == ResidentStreams
  <1>1. /\ r.w.kind = "point" => s \in Streams /\ StreamBytes[s] \in Nat
        /\ r.w.kind # "point" => s \notin Streams
        /\ r.w.bytes \in Nat
        /\ resident \subseteq Records /\ series \in [Streams -> Int]
        /\ record_bytes \in Int /\ identity_bytes \in Int
    BY WireShape, RecordsAssumption DEF Records, StoreTypeOK
  <1>2. r \notin resident /\ ~SeriesCapReached(r)
    BY StoreAssumption DEF KeepInserted, RefusalOf, Shelved
  <1>3. /\ resident' = resident \cup {r}
        /\ record_bytes' = record_bytes + r.w.bytes
        /\ r.w.kind = "point" =>
             /\ series' = [series EXCEPT ![s] = @ + 1]
             /\ identity_bytes' = IF series[s] = 0 THEN identity_bytes + StreamBytes[s]
                                  ELSE identity_bytes
        /\ r.w.kind # "point" => UNCHANGED <<series, identity_bytes>>
    BY DEF KeepInserted
  <1>4. /\ IsFiniteSet(resident) /\ IsFiniteSet(T)
        /\ record_bytes = SumFunction(RecordSizes(resident))
        /\ \A x \in Streams : series[x] = Cardinality(OfStream(resident, x))
        /\ identity_bytes = SumFunctionOnSet(StreamBytes, T)
    BY DEF StoreBooks, BooksBalance, RecordSizes, OfStream
  <1>5. /\ IsFiniteSet(resident \cup {r})
        /\ SumFunction(RecordSizes(resident \cup {r}))
             = SumFunction(RecordSizes(resident)) + r.w.bytes
        /\ \A x : Cardinality(OfStream(resident \cup {r}, x)) =
             IF x = s THEN Cardinality(OfStream(resident, x)) + 1
             ELSE Cardinality(OfStream(resident, x))
    BY <1>1, <1>2, <1>4, ShelfGains
  <1>6. \A x \in Streams : series[x] \in Nat
    BY <1>4, FS_Subset, FS_CardinalityType DEF OfStream
  <1>7. \A x \in Streams : series'[x] = Cardinality(OfStream(resident', x))
    BY <1>1, <1>3, <1>4, <1>5
  <1>8. ResidentStreams' = IF r.w.kind = "point" THEN T \cup {s} ELSE T
    BY <1>1, <1>3, <1>6 DEF ResidentStreams
  <1>9. r.w.kind = "point" => (series[s] = 0 <=> s \notin T)
    BY <1>1 DEF ResidentStreams
  <1> HIDE DEF T
  <1>10. CASE r.w.kind = "point" /\ series[s] = 0
    <2>1. IsFiniteSet(T \cup {s}) /\ Cardinality(T \cup {s}) = Cardinality(T) + 1
          /\ Cardinality(T) \in Nat
      BY <1>4, <1>9, <1>10, FS_AddElement, FS_CardinalityType
    <2>2. ~(Cardinality(T) >= SeriesCap)
      BY <1>2, <1>10 DEF SeriesCapReached, T
    <2>3. \A x \in T \cup {s} : StreamBytes[x] \in Nat
      BY <1>1, <1>10, RecordsAssumption DEF T, ResidentStreams
    <2>4. SumFunctionOnSet(StreamBytes, T \cup {s})
            = SumFunctionOnSet(StreamBytes, T) + StreamBytes[s]
      BY <1>4, <1>9, <1>10, <2>3, TotalAdd
    <2>5. Cardinality(ResidentStreams') <= SeriesCap /\ IsFiniteSet(ResidentStreams')
      BY <1>8, <1>10, <2>1, <2>2, StoreAssumption
    <2>6. identity_bytes' = SumFunctionOnSet(StreamBytes, ResidentStreams')
      BY <1>3, <1>4, <1>8, <1>10, <2>4
    <2> QED
      BY <1>3, <1>4, <1>5, <1>7, <2>5, <2>6 DEF StoreBooks, BooksBalance, RecordSizes, OfStream
  <1>11. CASE ~(r.w.kind = "point" /\ series[s] = 0)
    <2>1. ResidentStreams' = T /\ identity_bytes' = identity_bytes
      BY <1>3, <1>8, <1>9, <1>11
    <2> QED
      BY <1>3, <1>4, <1>5, <1>7, <2>1 DEF StoreBooks, BooksBalance, RecordSizes, OfStream, T
  <1> QED
    BY <1>10, <1>11

(* What an eviction does to the shelves, the books and the pass.             *)
LEMMA EvictionIs ==
    ASSUME StoreTypeOK, EvictOldest
    PROVE  /\ pass.step = "enforce" /\ FirstViolation(pass.now) \in Causes
           /\ evictions' = [evictions EXCEPT ![FirstViolation(pass.now)] = @ + 1]
           /\ UNCHANGED <<refusals, deliveries>>
           /\ \E r \in resident :
                /\ resident' = resident \ {r}
                /\ record_bytes' = record_bytes - r.w.bytes
                /\ series' = IF r.w.kind = "point"
                             THEN [series EXCEPT ![r.w.stream] = @ - 1] ELSE series
                /\ identity_bytes' = IF LastOfStream(r)
                                     THEN identity_bytes - StreamBytes[r.w.stream]
                                     ELSE identity_bytes
                /\ pass'.step = "evicted" /\ pass'.entity = r.entity
                /\ pass'.stream = IF LastOfStream(r) THEN r.w.stream ELSE None
  <1>1. FirstViolation(pass.now) \in Causes
    BY DEF EvictOldest, FirstViolation, Causes
  <1>2. /\ pass.step = "enforce"
        /\ evictions' = [evictions EXCEPT ![FirstViolation(pass.now)] = @ + 1]
        /\ UNCHANGED <<refusals, deliveries>>
    BY Zenon DEF EvictOldest
  <1>3. PICK r \in resident :
           /\ resident' = resident \ {r}
           /\ record_bytes' = record_bytes - r.w.bytes
           /\ series' = IF r.w.kind = "point"
                        THEN [series EXCEPT ![r.w.stream] = @ - 1] ELSE series
           /\ identity_bytes' = IF LastOfStream(r)
                                THEN identity_bytes - StreamBytes[r.w.stream]
                                ELSE identity_bytes
           /\ pass' = [pass EXCEPT !.step = "evicted", !.entity = r.entity,
                                   !.stream = IF LastOfStream(r) THEN r.w.stream ELSE None]
    BY DEF EvictOldest
  <1>4. /\ pass'.step = "evicted" /\ pass'.entity = r.entity
        /\ pass'.stream = IF LastOfStream(r) THEN r.w.stream ELSE None
    BY <1>3 DEF StoreTypeOK
  <1>5. \E x \in resident :
           /\ resident' = resident \ {x}
           /\ record_bytes' = record_bytes - x.w.bytes
           /\ series' = IF x.w.kind = "point"
                        THEN [series EXCEPT ![x.w.stream] = @ - 1] ELSE series
           /\ identity_bytes' = IF LastOfStream(x)
                                THEN identity_bytes - StreamBytes[x.w.stream]
                                ELSE identity_bytes
           /\ pass'.step = "evicted" /\ pass'.entity = x.entity
           /\ pass'.stream = IF LastOfStream(x) THEN x.w.stream ELSE None
    BY <1>3, <1>4, Zenon
  <1> QED
    BY <1>1, <1>2, <1>5, Zenon

(* An eviction leaves the books balanced, and no more streams resident.      *)
LEMMA EvictBalances ==
    ASSUME StoreTypeOK, StoreBooks, EvictOldest
    PROVE  /\ StoreBooks'
           /\ Cardinality(ResidentStreams') <= Cardinality(ResidentStreams)
  <1> DEFINE T == ResidentStreams
  <1>0. PICK r \in resident :
           /\ resident' = resident \ {r}
           /\ record_bytes' = record_bytes - r.w.bytes
           /\ series' = IF r.w.kind = "point"
                        THEN [series EXCEPT ![r.w.stream] = @ - 1] ELSE series
           /\ identity_bytes' = IF LastOfStream(r)
                                THEN identity_bytes - StreamBytes[r.w.stream]
                                ELSE identity_bytes
    BY EvictionIs, Zenon
  <1> DEFINE s == r.w.stream
  <1>1. /\ r.w.kind = "point" => s \in Streams /\ StreamBytes[s] \in Nat
        /\ r.w.kind # "point" => s \notin Streams
        /\ r.w.bytes \in Nat
        /\ resident \subseteq Records /\ series \in [Streams -> Int]
        /\ record_bytes \in Int /\ identity_bytes \in Int
    BY WireShape, RecordsAssumption DEF Records, StoreTypeOK
  <1>4. /\ IsFiniteSet(resident) /\ IsFiniteSet(T)
        /\ record_bytes = SumFunction(RecordSizes(resident))
        /\ \A x \in Streams : series[x] = Cardinality(OfStream(resident, x))
        /\ identity_bytes = SumFunctionOnSet(StreamBytes, T)
    BY DEF StoreBooks, BooksBalance, RecordSizes, OfStream
  <1>5. /\ IsFiniteSet(resident \ {r})
        /\ SumFunction(RecordSizes(resident))
             = SumFunction(RecordSizes(resident \ {r})) + r.w.bytes
        /\ SumFunction(RecordSizes(resident \ {r})) \in Nat
        /\ \A x : /\ Cardinality(OfStream(resident, x)) =
                       IF x = s THEN Cardinality(OfStream(resident \ {r}, x)) + 1
                       ELSE Cardinality(OfStream(resident \ {r}, x))
                  /\ Cardinality(OfStream(resident \ {r}, x)) \in Nat
    BY <1>1, <1>4, ShelfLoses
  <1>6. record_bytes' = SumFunction(RecordSizes(resident'))
    BY <1>0, <1>1, <1>4, <1>5
  <1>b. \A x \in Streams :
           /\ Cardinality(OfStream(resident \ {r}, x)) =
                IF x = s THEN series[x] - 1 ELSE series[x]
           /\ Cardinality(OfStream(resident \ {r}, x)) \in Nat
    <2> TAKE x \in Streams
    <2> DEFINE n == Cardinality(OfStream(resident \ {r}, x))
    <2>1. n \in Nat /\ series[x] = IF x = s THEN n + 1 ELSE n
      BY <1>4, <1>5, Zenon
    <2> HIDE DEF n
    <2>2. n = IF x = s THEN series[x] - 1 ELSE series[x]
      BY <2>1
    <2> QED
      BY <2>1, <2>2 DEF n
  <1>7. \A x \in Streams : series'[x] = Cardinality(OfStream(resident', x))
    <2>1. \A x \in Streams : series'[x] = IF x = s THEN series[x] - 1 ELSE series[x]
      BY <1>0, <1>1
    <2> QED
      BY <1>0, <1>b, <2>1
  <1>8. r.w.kind = "point" => series[s] - 1 \in Nat /\ s \in T
    BY <1>1, <1>b DEF ResidentStreams
  <1>9. ResidentStreams' = IF LastOfStream(r) THEN T \ {s} ELSE T
    BY <1>0, <1>1, <1>8 DEF ResidentStreams, LastOfStream
  <1> HIDE DEF T
  <1>a. IsFiniteSet(T \ {s}) /\ Cardinality(T \ {s}) <= Cardinality(T) /\ Cardinality(T) \in Nat
    BY <1>4, FS_Subset, FS_CardinalityType
  <1>10. CASE LastOfStream(r)
    <2>1. s \in T /\ \A x \in T : StreamBytes[x] \in Nat
      BY <1>8, <1>10, RecordsAssumption DEF LastOfStream, T, ResidentStreams
    <2>2. /\ SumFunctionOnSet(StreamBytes, T)
               = StreamBytes[s] + SumFunctionOnSet(StreamBytes, T \ {s})
      BY <1>4, <2>1, TotalRemove
    <2>3. SumFunctionOnSet(StreamBytes, T \ {s}) \in Nat
      BY <1>a, <2>1, TotalNat
    <2>4. identity_bytes' = SumFunctionOnSet(StreamBytes, ResidentStreams')
      BY <1>0, <1>4, <1>9, <1>10, <2>1, <2>2, <2>3
    <2> QED
      BY <1>0, <1>5, <1>6, <1>7, <1>9, <1>10, <1>a, <2>4
         DEF StoreBooks, BooksBalance, RecordSizes, OfStream, T
  <1>11. CASE ~LastOfStream(r)
    <2>1. ResidentStreams' = T /\ identity_bytes' = identity_bytes
      BY <1>0, <1>9, <1>11
    <2>2. Cardinality(T) <= Cardinality(T)
      BY <1>a
    <2> QED
      BY <1>0, <1>4, <1>5, <1>6, <1>7, <2>1, <2>2
         DEF StoreBooks, BooksBalance, RecordSizes, OfStream, T
  <1> QED
    BY <1>10, <1>11

(* A step that leaves the shelves and the books alone.                       *)
LEMMA BooksQuiet ==
    ASSUME StoreBooks, UNCHANGED <<resident, series, record_bytes, identity_bytes>>
    PROVE  StoreBooks' /\ ResidentStreams' = ResidentStreams
  BY DEF StoreBooks, BooksBalance, ResidentStreams

-----------------------------------------------------------------------------
(* Tables of counters.                                                       *)

(* One more under a name adds one to a total that has the name, and nothing  *)
(* to one that has not.                                                      *)
LEMMA CountMore ==
    ASSUME NEW D, NEW f \in [D -> Nat], NEW S, S \subseteq D, IsFiniteSet(S),
           NEW x \in D, NEW n \in Nat,
           NEW k, k[x] = f[x] + n, \A y \in D \ {x} : k[y] = f[y]
    PROVE  SumFunctionOnSet(k, S) = SumFunctionOnSet(f, S) + (IF x \in S THEN n ELSE 0)
  <1>1. /\ \A y \in S : f[y] \in Nat /\ k[y] \in Nat
        /\ k[x] = f[x] + n /\ f[x] \in Nat
        /\ \A y \in S \ {x} : f[y] = k[y]
    OBVIOUS
  <1>2. SumFunctionOnSet(f, S) \in Nat
    BY <1>1, TotalNat
  <1>3. CASE x \in S
    <2>1. SumFunctionOnSet(k, S) = SumFunctionOnSet(f, S) - f[x] + k[x]
      BY <1>1, <1>3, TotalChange
    <2> QED
      BY <1>1, <1>2, <1>3, <2>1
  <1>4. CASE x \notin S
    <2>1. SumFunctionOnSet(f, S) = SumFunctionOnSet(k, S)
      BY <1>1, <1>4, TotalAgrees
    <2> QED
      BY <1>2, <1>4, <2>1
  <1> QED
    BY <1>3, <1>4

(* The tables have finitely many names.                                      *)
LEMMA FewNames ==
    /\ IsFiniteSet(Causes)
    /\ IsFiniteSet(Reasons \ {"duplicate"})
    /\ IsFiniteSet(Outcomes \cup {"dropped"})
  <1>1. \A a, b, c : IsFiniteSet({a, b, c})
    <2> TAKE a, b, c
    <2>1. IsFiniteSet({a}) /\ IsFiniteSet({b}) /\ IsFiniteSet({c})
      BY FS_Singleton
    <2>2. IsFiniteSet({a} \cup {b})
      BY <2>1, FS_Union
    <2>3. IsFiniteSet(({a} \cup {b}) \cup {c})
      BY <2>1, <2>2, FS_Union
    <2>4. ({a} \cup {b}) \cup {c} = {a, b, c}
      OBVIOUS
    <2> QED
      BY <2>3, <2>4
  <1>2. IsFiniteSet(Causes)
    BY <1>1 DEF Causes
  <1>3. Reasons \ {"duplicate"} = {"oversized", "identity", "series"}
    BY DEF Reasons
  <1>4. IsFiniteSet(Reasons \ {"duplicate"})
    BY <1>1, <1>3
  <1>5. Outcomes \cup {"dropped"} =
          (Reasons \ {"duplicate"}) \cup {"duplicate", "kept", "dropped"}
    BY DEF Outcomes, Reasons
  <1>6. IsFiniteSet((Reasons \ {"duplicate"}) \cup {"duplicate", "kept", "dropped"})
    BY <1>1, <1>4, FS_Union
  <1> QED
    BY <1>2, <1>4, <1>5, <1>6

-----------------------------------------------------------------------------
(* The ceilings and the endings reported.                                    *)

(* The ceilings hold whenever no insert has been made since the last pass    *)
(* ended: also while a refusal, which inserts nothing, is being reported.    *)
KeptBelow ==
    /\ pass.step \in {"free", "done", "refused", "unlinked"} =>
         /\ Cardinality(resident) <= MaxRecords
         /\ record_bytes + identity_bytes <= MaxBytes
    /\ Cardinality(ResidentStreams) <= SeriesCap

(* An ending is counted when it begins and delivered when its report         *)
(* returns: the two counts differ by the report that is under way.           *)
EvictionOwed == IF pass.step = "evicted" THEN 1 ELSE 0
RefusalOwed == IF pass.step \in {"refused", "unlinked"} THEN 1 ELSE 0
Tallied ==
    /\ deliveries.evicted + EvictionOwed = SumFunctionOnSet(evictions, Causes)
    /\ deliveries.refused + RefusalOwed
         = SumFunctionOnSet(refusals, Reasons \ {"duplicate"})

BooksInv == TypeOK /\ StoreBooks /\ KeptBelow /\ Tallied

(* A keep keeps the books, the ceilings and the tallies.                     *)
LEMMA KeepBooks ==
    ASSUME StoreTypeOK, StoreBooks, KeptBelow, Tallied, NEW by, NEW r \in Records,
           KeepRefused(by, r) \/ KeepInserted(by, r)
    PROVE  StoreBooks' /\ KeptBelow' /\ Tallied'
  <1>0. pass.step = "free" /\ EvictionOwed = 0 /\ RefusalOwed = 0
    BY DEF KeepRefused, KeepInserted, EvictionOwed, RefusalOwed
  <1>1. CASE KeepInserted(by, r)
    <2>1. StoreBooks' /\ Cardinality(ResidentStreams') <= SeriesCap
      BY <1>1, KeepBalances DEF KeptBelow
    <2>2. pass'.step = "enforce" /\ UNCHANGED <<evictions, refusals, deliveries>>
      BY <1>1 DEF KeepInserted, NoPass
    <2>3. EvictionOwed' = 0 /\ RefusalOwed' = 0
      BY <2>2 DEF EvictionOwed, RefusalOwed
    <2> QED
      BY <1>0, <2>1, <2>2, <2>3 DEF KeptBelow, Tallied
  <1>2. CASE KeepRefused(by, r)
    <2>1. /\ UNCHANGED <<resident, series, record_bytes, identity_bytes, evictions, deliveries>>
          /\ refusals' = [refusals EXCEPT ![RefusalOf(r)] = @ + 1]
          /\ RefusalOf(r) \in Reasons
          /\ pass'.step = IF RefusalOf(r) = "duplicate" THEN "done" ELSE "refused"
      BY <1>2 DEF KeepRefused, RefusalOf, Reasons
    <2>2. StoreBooks' /\ ResidentStreams' = ResidentStreams
      BY <2>1, BooksQuiet
    <2>3. KeptBelow'
      BY <1>0, <2>1, <2>2 DEF KeptBelow
    <2>4. EvictionOwed' = 0 /\ RefusalOwed' = IF RefusalOf(r) = "duplicate" THEN 0 ELSE 1
      BY <2>1 DEF EvictionOwed, RefusalOwed
    <2> DEFINE S == Reasons \ {"duplicate"}
               why == RefusalOf(r)
    <2>5. /\ refusals \in [Reasons -> Nat] /\ S \subseteq Reasons /\ IsFiniteSet(S)
          /\ why \in Reasons /\ (why \in S <=> why # "duplicate")
          /\ deliveries.refused \in Nat
      BY <2>1, FewNames DEF StoreTypeOK
    <2> HIDE DEF S, why
    <2>6. SumFunctionOnSet(refusals', S)
            = SumFunctionOnSet(refusals, S) + (IF why \in S THEN 1 ELSE 0)
      <3>1. /\ refusals'[why] = refusals[why] + 1
            /\ \A y \in Reasons \ {why} : refusals'[y] = refusals[y]
        BY <2>1, <2>5 DEF why
      <3> QED
        BY <2>5, <3>1, CountMore
    <2>7. deliveries.refused + 0 = SumFunctionOnSet(refusals, S)
      BY <1>0 DEF Tallied, S
    <2>8. deliveries'.refused + RefusalOwed' = SumFunctionOnSet(refusals', S)
      BY <2>1, <2>4, <2>5, <2>6, <2>7 DEF why
    <2>9. deliveries'.evicted + EvictionOwed' = SumFunctionOnSet(evictions', Causes)
      BY <1>0, <2>1, <2>4 DEF Tallied
    <2>10. Tallied'
      BY <2>8, <2>9 DEF Tallied, S
    <2> QED
      BY <2>2, <2>3, <2>10
  <1> QED
    BY <1>1, <1>2

(* An eviction, too.                                                         *)
LEMMA EvictBooks ==
    ASSUME StoreTypeOK, StoreBooks, KeptBelow, Tallied, EvictOldest
    PROVE  StoreBooks' /\ KeptBelow' /\ Tallied'
  <1> DEFINE why == FirstViolation(pass.now)
  <1>1. /\ pass.step = "enforce" /\ why \in Causes
        /\ evictions' = [evictions EXCEPT ![why] = @ + 1]
        /\ UNCHANGED <<refusals, deliveries>>
        /\ pass'.step = "evicted"
    BY EvictionIs, Zenon
  <1> HIDE DEF why
  <1>2. StoreBooks' /\ Cardinality(ResidentStreams') <= Cardinality(ResidentStreams)
    BY EvictBalances
  <1>3. KeptBelow'
    <2>1. /\ Cardinality(ResidentStreams') \in Nat /\ Cardinality(ResidentStreams) \in Nat
      BY <1>2, FS_CardinalityType DEF StoreBooks
    <2> QED
      BY <1>1, <1>2, <2>1, StoreAssumption DEF KeptBelow
  <1>4. EvictionOwed = 0 /\ EvictionOwed' = 1 /\ RefusalOwed = 0 /\ RefusalOwed' = 0
    BY <1>1 DEF EvictionOwed, RefusalOwed
  <1>5. evictions \in [Causes -> Nat] /\ deliveries.evicted \in Nat
    BY DEF StoreTypeOK
  <1>6. SumFunctionOnSet(evictions', Causes)
          = SumFunctionOnSet(evictions, Causes) + (IF why \in Causes THEN 1 ELSE 0)
    <2>1. /\ evictions'[why] = evictions[why] + 1
          /\ \A y \in Causes \ {why} : evictions'[y] = evictions[y]
      BY <1>1, <1>5
    <2>2. why \in Causes /\ Causes \subseteq Causes /\ IsFiniteSet(Causes)
      BY <1>1, FewNames
    <2> QED
      BY <1>5, <2>1, <2>2, CountMore
  <1>7. deliveries.evicted + 0 = SumFunctionOnSet(evictions, Causes)
    BY <1>4 DEF Tallied
  <1>8. deliveries'.evicted + EvictionOwed' = SumFunctionOnSet(evictions', Causes)
    BY <1>1, <1>4, <1>5, <1>6, <1>7
  <1>9. Tallied'
    BY <1>1, <1>4, <1>8 DEF Tallied
  <1> QED
    BY <1>2, <1>3, <1>9

(* A pass ends below every ceiling: none is violated, or nothing is left.    *)
LEMMA EndBooks ==
    ASSUME StoreTypeOK, StoreBooks, KeptBelow, Tallied, EndPass
    PROVE  StoreBooks' /\ KeptBelow' /\ Tallied'
  <1>1. /\ pass.step = "enforce" /\ pass'.step = "done"
        /\ UNCHANGED <<resident, series, record_bytes, identity_bytes, evictions,
                       refusals, deliveries>>
    BY DEF EndPass, StoreTypeOK
  <1>2. StoreBooks' /\ ResidentStreams' = ResidentStreams
    BY <1>1, BooksQuiet
  <1>3. Cardinality(resident) <= MaxRecords /\ record_bytes + identity_bytes <= MaxBytes
    <2>1. CASE FirstViolation(pass.now) = None
      <3>1. ~(Cardinality(resident) > MaxRecords) /\ ~(record_bytes + identity_bytes > MaxBytes)
        BY <2>1, StoreAssumption DEF FirstViolation
      <3>2. Cardinality(resident) \in Nat /\ record_bytes \in Int /\ identity_bytes \in Int
        BY FS_CardinalityType DEF StoreBooks, StoreTypeOK
      <3> QED
        BY <3>1, <3>2, StoreAssumption
    <2>2. CASE resident = {}
      <3>1. Cardinality(resident) = 0
        BY <2>2, FS_EmptySet
      <3>2. \A g : SumFunctionOnSet(g, {}) = 0
        BY TotalUnfolds, FS_EmptySet
      <3>3. record_bytes = 0
        <4>1. DOMAIN [r \in resident |-> r.w.bytes] = {}
          BY <2>2
        <4> QED
          BY <3>2, <4>1 DEF StoreBooks, BooksBalance, SumFunction
      <3>4. ResidentStreams = {}
        <4>1. \A s : {r \in resident : r.w.stream = s} = {}
          BY <2>2
        <4> QED
          BY <4>1, FS_EmptySet DEF StoreBooks, BooksBalance, ResidentStreams
      <3>5. identity_bytes = 0
        BY <3>2, <3>4 DEF StoreBooks, BooksBalance
      <3> QED
        BY <3>1, <3>3, <3>5, StoreAssumption
    <2> QED
      BY <2>1, <2>2 DEF EndPass
  <1>4. KeptBelow'
    BY <1>1, <1>2, <1>3 DEF KeptBelow
  <1>5. Tallied'
    BY <1>1 DEF Tallied, EvictionOwed, RefusalOwed
  <1> QED
    BY <1>2, <1>4, <1>5

(* The reports, the unlock and the start of a timer pass move no record.     *)
LEMMA ReportBooks ==
    ASSUME StoreTypeOK, StoreBooks, KeptBelow, Tallied,
           \/ EvictedDelivered \/ ReleasedDelivered \/ RefusedForgotten \/ RefusedReleased
           \/ Unlock \/ \E now \in Nat : RetentionPass("retention", now)
    PROVE  StoreBooks' /\ KeptBelow' /\ Tallied'
  <1>0. /\ UNCHANGED <<resident, series, record_bytes, identity_bytes, evictions, refusals>>
    BY DEF EvictedDelivered, ReleasedDelivered, RefusedForgotten, RefusedReleased, Unlock,
         RetentionPass
  <1>1. StoreBooks' /\ ResidentStreams' = ResidentStreams
    BY <1>0, BooksQuiet
  <1>2. /\ deliveries \in [evicted: Nat, refused: Nat]
        /\ pass \in [by: StoreUsers \cup {None}, step: Steps, now: Nat,
                     entity: EntityIds \cup {None}, stream: Streams \cup {None}]
    BY DEF StoreTypeOK
  <1>3. CASE EvictedDelivered
    <2>1. /\ pass.step = "evicted" /\ pass'.step \in {"released", "enforce"}
          /\ deliveries'.evicted = deliveries.evicted + 1
          /\ deliveries'.refused = deliveries.refused
      BY <1>2, <1>3 DEF EvictedDelivered
    <2>2. /\ EvictionOwed = 1 /\ EvictionOwed' = 0 /\ RefusalOwed = 0 /\ RefusalOwed' = 0
      BY <2>1 DEF EvictionOwed, RefusalOwed
    <2> QED
      BY <1>0, <1>1, <1>2, <2>1, <2>2 DEF KeptBelow, Tallied
  <1>4. CASE RefusedForgotten
    <2>1. /\ pass.step = "refused"
          /\ pass'.step = IF pass.stream # None THEN "unlinked" ELSE "done"
          /\ deliveries'.evicted = deliveries.evicted
          /\ deliveries'.refused = IF pass.stream # None THEN deliveries.refused
                                   ELSE deliveries.refused + 1
      BY <1>2, <1>4 DEF RefusedForgotten
    <2>2. /\ EvictionOwed = 0 /\ EvictionOwed' = 0 /\ RefusalOwed = 1
          /\ RefusalOwed' = IF pass.stream # None THEN 1 ELSE 0
      BY <2>1 DEF EvictionOwed, RefusalOwed
    <2> QED
      BY <1>0, <1>1, <1>2, <2>1, <2>2 DEF KeptBelow, Tallied
  <1>5. CASE RefusedReleased
    <2>1. /\ pass.step = "unlinked" /\ pass'.step = "done"
          /\ deliveries'.evicted = deliveries.evicted
          /\ deliveries'.refused = deliveries.refused + 1
      BY <1>2, <1>5 DEF RefusedReleased
    <2>2. /\ EvictionOwed = 0 /\ EvictionOwed' = 0 /\ RefusalOwed = 1 /\ RefusalOwed' = 0
      BY <2>1 DEF EvictionOwed, RefusalOwed
    <2> QED
      BY <1>0, <1>1, <1>2, <2>1, <2>2 DEF KeptBelow, Tallied
  <1>6. CASE ReleasedDelivered \/ Unlock \/ \E now \in Nat : RetentionPass("retention", now)
    <2>1. /\ pass.step \in {"released", "done", "free"}
          /\ pass'.step = "free" => pass.step = "done"
          /\ pass'.step \in {"free", "enforce"}
          /\ UNCHANGED deliveries
      <3>1. CASE ReleasedDelivered
        BY <1>2, <3>1 DEF ReleasedDelivered
      <3>2. CASE Unlock
        BY <3>2 DEF Unlock, NoPass
      <3>3. CASE \E now \in Nat : RetentionPass("retention", now)
        BY <3>3 DEF RetentionPass, NoPass
      <3> QED
        BY <1>6, <3>1, <3>2, <3>3
    <2>2. /\ EvictionOwed = 0 /\ EvictionOwed' = 0 /\ RefusalOwed = 0 /\ RefusalOwed' = 0
      BY <2>1 DEF EvictionOwed, RefusalOwed
    <2> QED
      BY <1>0, <1>1, <2>1, <2>2 DEF KeptBelow, Tallied
  <1> QED
    BY <1>3, <1>4, <1>5, <1>6

(* The store starts empty.                                                   *)
LEMMA BooksInit == Init => BooksInv
  <1> SUFFICES ASSUME Init PROVE BooksInv
    OBVIOUS
  <1>1. /\ resident = {} /\ series = [s \in Streams |-> 0]
        /\ record_bytes = 0 /\ identity_bytes = 0 /\ pass.step = "free"
        /\ evictions = [c \in Causes |-> 0] /\ refusals = [r \in Reasons |-> 0]
        /\ deliveries.evicted = 0 /\ deliveries.refused = 0
    BY DEF Init, StoreInit, NoPass
  <1>2. \A g : SumFunctionOnSet(g, {}) = 0
    BY TotalUnfolds, FS_EmptySet
  <1>3. ResidentStreams = {}
    BY <1>1 DEF ResidentStreams
  <1>4. StoreBooks
    <2>1. DOMAIN [r \in resident |-> r.w.bytes] = {}
      BY <1>1
    <2>2. \A s : {r \in resident : r.w.stream = s} = {}
      BY <1>1
    <2> QED
      BY <1>1, <1>2, <1>3, <2>1, <2>2, FS_EmptySet DEF StoreBooks, BooksBalance, SumFunction
  <1>5. KeptBelow
    BY <1>1, <1>3, FS_EmptySet, StoreAssumption DEF KeptBelow
  <1>6. Tallied
    <2>1. SumFunctionOnSet(evictions, Causes) = 0
      BY <1>1, FewNames, TotalZero
    <2>2. SumFunctionOnSet(refusals, Reasons \ {"duplicate"}) = 0
      <3>1. \A x \in Reasons \ {"duplicate"} : refusals[x] = 0
        BY <1>1
      <3> QED
        BY <3>1, FewNames, TotalZero
    <2> QED
      BY <1>1, <2>1, <2>2 DEF Tallied, EvictionOwed, RefusalOwed
  <1> QED
    BY <1>4, <1>5, <1>6, TypeInit DEF BooksInv

(* Every step of every thread keeps the books.                               *)
LEMMA BooksNext == BooksInv /\ [Next]_vars => BooksInv'
  <1> SUFFICES ASSUME BooksInv, [Next]_vars PROVE BooksInv'
    OBVIOUS
  <1>0. TypeOK' /\ StoreTypeOK /\ StoreBooks /\ KeptBelow /\ Tallied
    BY TypeNext DEF BooksInv, TypeOK
  <1>1. CASE UNCHANGED storeVars
    <2>1. UNCHANGED <<resident, series, record_bytes, identity_bytes, evictions, refusals,
                      deliveries, pass>>
      BY <1>1 DEF storeVars
    <2>2. StoreBooks' /\ ResidentStreams' = ResidentStreams
      BY <1>0, <2>1, BooksQuiet
    <2> QED
      BY <1>0, <2>1, <2>2 DEF BooksInv, KeptBelow, Tallied, EvictionOwed, RefusalOwed
  <1>2. CASE PumpKeep
    <2>1. pump.hand \in Records
      BY <1>2 DEF BooksInv, TypeOK, ProcTypeOK, PumpKeep, PumpAt
    <2> QED
      BY <1>0, <1>2, <2>1, KeepBooks DEF PumpKeep, BooksInv
  <1>3. CASE MutexStep
    BY <1>0, <1>3, EvictBooks, EndBooks, ReportBooks
       DEF MutexStep, StoreStep, HookEvicted, HookStreamReleased, HookRefusedForget,
           HookRefusedRelease, BooksInv
  <1>4. CASE PumpKept \/ RetentionTick \/ RetentionDone
    <2>1. retention.now \in Nat
      BY DEF BooksInv, TypeOK, ProcTypeOK
    <2> QED
      BY <1>0, <1>4, <2>1, ReportBooks DEF PumpKept, RetentionTick, RetentionDone, BooksInv
  <1>5. ASSUME NEW h \in Handlers, Arrive(h) \/ BodyFails(h) \/ HandlerStep(h)
        PROVE  UNCHANGED storeVars
    BY <1>5 DEF Arrive, BodyFails, HandlerStep, Stamp, Gate, LockLedger, IngestRefused,
         IngestUnnamed, IngestSpan, IngestPoint, IngestStanding, Consume, Saturated,
         Measure, OfferNext, Respond
  <1>6. CASE \/ PumpLoop \/ PumpPop \/ PumpPopNothing \/ RetentionWake \/ RetentionExit
             \/ StopRequested \/ DeadlinePasses \/ StopStep \/ Finished \/ UNCHANGED vars
    <2>1. UNCHANGED storeVars
      BY <1>6 DEF PumpLoop, PumpPop, PumpPopNothing, RetentionWake, RetentionExit,
           StopRequested, DeadlinePasses, StopStep, DeadlineSet, ServeEnds, JoinPump,
           SignalRetention, CountDropped, Finished, vars
    <2> QED
      BY <1>1, <2>1
  <1> QED
    BY <1>1, <1>2, <1>3, <1>4, <1>5, <1>6 DEF Next, PumpStep, RetentionStep

(* The books, the ceilings and the tallies hold of every reachable state.    *)
THEOREM BooksCorrect == Spec => []BooksInv
  BY BooksInit, BooksNext, PTL DEF Spec

(* The store's residency counts and byte sums are those of its shelves at    *)
(* every step of every pass, and between operations every eviction and every *)
(* refusal has been reported to the hook exactly once.                       *)
THEOREM AccountsAlwaysBalance == Spec => []AccountsBalance
  <1>1. BooksInv => AccountsBalance
    <2> SUFFICES ASSUME BooksInv PROVE AccountsBalance
      OBVIOUS
    <2>1. /\ deliveries.evicted \in Nat /\ deliveries.refused \in Nat
          /\ DOMAIN evictions = Causes
      BY DEF BooksInv, TypeOK, StoreTypeOK
    <2>2. EndingsDelivered
      BY <2>1 DEF BooksInv, Tallied, EndingsDelivered, EvictionOwed, RefusalOwed, SumFunction
    <2> QED
      BY <2>2 DEF BooksInv, StoreBooks, AccountsBalance
  <1> QED
    BY <1>1, BooksCorrect, PTL

(* Whenever the store's mutex is free, or about to be, the records and the   *)
(* accounted bytes are within their ceilings; the distinct streams are       *)
(* within theirs at any time.                                                *)
THEOREM CeilingsAlwaysKept == Spec => []CeilingsKept
  <1>1. BooksInv => CeilingsKept
    BY DEF BooksInv, KeptBelow, CeilingsKept, CountsWithinCeilings, BytesWithinCeiling
  <1> QED
    BY <1>1, BooksCorrect, PTL

-----------------------------------------------------------------------------
(* The final summary.                                                        *)

(* Every record handed off is counted under an outcome, queued, or between   *)
(* its pop and its count; the last two are what the drop count settles.      *)
PumpHolds == IF pump.pc \in {"keep", "keeping"} THEN 1 ELSE 0
Counted == SumFunctionOnSet(summary, Outcomes \cup {"dropped"})
HandOffsCounted ==
    IF main = "done" THEN ~cut => offered = Counted
    ELSE offered = Counted + Len(items) + PumpHolds

(* The order of the stop: nothing arrives once it is requested, the requests *)
(* are over when the serve loop ends uncut, and the pump is when it is       *)
(* joined.                                                                   *)
Uncut == ~cut /\ main \in {"joining", "stopping", "signalled", "done"}
StopOrder ==
    /\ pump.pc = "keeping" => pump.outcome \in Outcomes
    /\ main \in {"stopping", "signalled", "done"} => pump.pc = "exited"
    /\ Uncut => InFlight = {}
    /\ main # "serving" => draining

SummaryInv == TypeOK /\ HandOffsCounted /\ StopOrder

(* The totals and lengths the balance adds up are natural numbers.           *)
LEMMA CountedNat ==
    ASSUME TypeOK
    PROVE  /\ Counted \in Nat /\ Len(items) \in Nat /\ PumpHolds \in {0, 1}
           /\ offered \in Nat
  <1>1. \A o \in Outcomes \cup {"dropped"} : summary[o] \in Nat
    BY DEF TypeOK, DrainTypeOK
  <1>2. Counted \in Nat
    BY <1>1, FewNames, TotalNat DEF Counted
  <1> QED
    BY <1>2 DEF PumpHolds, TypeOK, DrainTypeOK, QueueTypeOK

(* Nothing has been handed off at start.                                     *)
LEMMA SummaryInit == Init => SummaryInv
  <1> SUFFICES ASSUME Init PROVE SummaryInv
    OBVIOUS
  <1>1. /\ summary = [o \in Outcomes \cup {"dropped"} |-> 0] /\ offered = 0
        /\ items = <<>> /\ pump.pc = "loop" /\ main = "serving"
    BY DEF Init, QueueInit
  <1>2. Counted = 0
    <2> DEFINE D == Outcomes \cup {"dropped"}
    <2>1. \A o \in D : summary[o] = 0
      BY <1>1
    <2>2. IsFiniteSet(D)
      BY FewNames
    <2> HIDE DEF D
    <2>3. SumFunctionOnSet(summary, D) = 0
      BY <2>1, <2>2, TotalZero
    <2> QED
      BY <2>3 DEF Counted, D
  <1>3. HandOffsCounted
    BY <1>1, <1>2 DEF HandOffsCounted, PumpHolds
  <1>4. StopOrder
    BY <1>1 DEF StopOrder, Uncut
  <1> QED
    BY <1>3, <1>4, TypeInit DEF SummaryInv

(* A step that hands off, pops and counts nothing, and leaves the stop and   *)
(* the pump where they are.                                                  *)
LEMMA SummaryQuiet ==
    ASSUME SummaryInv, TypeOK', UNCHANGED <<items, summary, offered, pump, main, cut, draining>>,
           Uncut => InFlight' = {}
    PROVE  SummaryInv'
  BY DEF SummaryInv, HandOffsCounted, StopOrder, Uncut, Counted, PumpHolds

(* A handler's step hands off at most one record, and never after the serve  *)
(* loop ended uncut.                                                         *)
LEMMA SummaryHandler ==
    ASSUME SummaryInv, TypeOK', NEW h \in Handlers, Arrive(h) \/ BodyFails(h) \/ HandlerStep(h)
    PROVE  SummaryInv'
  <1>0. /\ TypeOK /\ StopOrder /\ HandOffsCounted
        /\ handler \in [Handlers -> HandlerStates]
    BY DEF SummaryInv, TypeOK, ProcTypeOK
  <1>1. UNCHANGED <<pump, main, cut, draining, summary>>
    BY DEF Arrive, BodyFails, HandlerStep, Stamp, Gate, LockLedger, IngestRefused,
         IngestUnnamed, IngestSpan, IngestPoint, IngestStanding, Consume, Saturated,
         Measure, OfferNext, Respond, drainVars, countVars
  <1>2. ~Uncut
    <2>1. CASE Arrive(h)
      <3>1. ~draining
        BY <2>1, Zenon DEF Arrive
      <3> QED
        BY <1>0, <3>1 DEF StopOrder, Uncut
    <2>2. CASE BodyFails(h) \/ HandlerStep(h)
      <3>1. handler[h].pc # "idle"
        BY <2>2 DEF BodyFails, HandlerStep, Stamp, Gate, LockLedger, IngestRefused,
             IngestUnnamed, IngestSpan, IngestPoint, IngestStanding, Admitting, Saturated,
             Admitted, Measure, OfferNext, Respond
      <3> QED
        BY <1>0, <3>1 DEF StopOrder, InFlight
    <2> QED
      BY <2>1, <2>2
  <1>3. CASE OfferNext(h)
    <2>1. PICK r : items' = Append(items, r) /\ offered' = offered + 1
      BY <1>3 DEF OfferNext, Offer
    <2>2. Len(items') = Len(items) + 1
      BY <1>0, <2>1 DEF TypeOK, QueueTypeOK
    <2>3. Counted' = Counted /\ PumpHolds' = PumpHolds
      BY <1>1 DEF Counted, PumpHolds
    <2>4. HandOffsCounted'
      <3>1. CASE main = "done"
        BY <1>1, <1>2, <3>1 DEF HandOffsCounted, Uncut
      <3>2. CASE main # "done"
        <4>1. offered = Counted + Len(items) + PumpHolds
          BY <1>0, <3>2 DEF HandOffsCounted
        <4>2. offered' = Counted' + Len(items') + PumpHolds'
          BY <1>0, <2>1, <2>2, <2>3, <4>1, CountedNat
        <4> QED
          BY <1>1, <3>2, <4>2 DEF HandOffsCounted
      <3> QED
        BY <3>1, <3>2
    <2>5. StopOrder'
      BY <1>0, <1>1, <1>2 DEF StopOrder, Uncut
    <2> QED
      BY <2>4, <2>5 DEF SummaryInv
  <1>4. CASE ~OfferNext(h)
    <2>1. UNCHANGED <<items, offered>>
      BY <1>4 DEF Arrive, BodyFails, HandlerStep, Stamp, Gate, LockLedger, IngestRefused,
           IngestUnnamed, IngestSpan, IngestPoint, IngestStanding, Consume, Saturated,
           Measure, Respond, queueVars, countVars
    <2> QED
      BY <1>1, <1>2, <2>1, SummaryQuiet
  <1> QED
    BY <1>3, <1>4

(* What the pump pops it keeps, and what it kept it counts under the outcome *)
(* the keep returned.                                                        *)
LEMMA SummaryPump ==
    ASSUME SummaryInv, TypeOK', PumpStep
    PROVE  SummaryInv'
  <1>0. /\ TypeOK /\ StopOrder /\ HandOffsCounted
        /\ pump \in [pc: {"loop", "idle_pop", "drain_pop", "drain_wait", "keep",
                          "keeping", "exited"},
                     hand: Records \cup {None}, outcome: Outcomes \cup {None}]
    BY DEF SummaryInv, TypeOK, ProcTypeOK
  <1>1. UNCHANGED <<main, cut, draining, offered, handler>> /\ InFlight' = InFlight
    BY DEF PumpStep, PumpLoop, PumpPop, PumpPopNothing, PumpKeep, PumpKept, drainVars,
         countVars, InFlight
  <1>2. pump.pc # "exited"
    BY DEF PumpStep, PumpLoop, PumpPop, PumpPopNothing, PumpKeep, PumpKept, PumpAt
  <1>3. main \notin {"stopping", "signalled", "done"}
    BY <1>0, <1>2 DEF StopOrder
  <1>4. offered = Counted + Len(items) + PumpHolds
    BY <1>0, <1>3 DEF HandOffsCounted
  <1>5. ASSUME pump'.pc = "keeping" => pump'.outcome \in Outcomes,
               Counted' + Len(items') + PumpHolds' = Counted + Len(items) + PumpHolds
        PROVE  SummaryInv'
    BY <1>0, <1>1, <1>3, <1>4, <1>5 DEF SummaryInv, HandOffsCounted, StopOrder, Uncut
  <1>6. Counted \in Nat /\ Len(items) \in Nat
    BY <1>0, CountedNat
  <1>7. CASE PumpLoop \/ PumpPopNothing
    <2>1. /\ UNCHANGED <<items, summary>>
          /\ pump.pc \notin {"keep", "keeping"} /\ pump'.pc \notin {"keep", "keeping"}
      BY <1>0, <1>7 DEF PumpLoop, PumpPopNothing, PumpAt, PumpGoes, queueVars, countVars,
           TypeOK, DrainTypeOK
    <2>2. Counted' = Counted /\ PumpHolds' = PumpHolds
      BY <2>1 DEF Counted, PumpHolds
    <2> QED
      BY <1>5, <2>1, <2>2
  <1>8. CASE PumpPop
    <2>1. /\ UNCHANGED summary /\ items # <<>> /\ items' = Tail(items)
          /\ pump.pc \in {"idle_pop", "drain_pop", "drain_wait"} /\ pump'.pc = "keep"
      BY <1>0, <1>8 DEF PumpPop, PopFront, countVars
    <2>2. Len(items') = Len(items) - 1
      BY <1>0, <2>1 DEF TypeOK, QueueTypeOK
    <2>3. Counted' = Counted /\ PumpHolds = 0 /\ PumpHolds' = 1
      BY <2>1 DEF Counted, PumpHolds
    <2> QED
      BY <1>5, <1>6, <2>1, <2>2, <2>3
  <1>9. CASE PumpKeep
    <2>1. /\ UNCHANGED <<items, summary>> /\ pump.pc = "keep" /\ pump'.pc = "keeping"
          /\ pump'.outcome \in Outcomes
      <3>1. RefusalOf(pump.hand) \in Reasons \cup {None}
        BY DEF RefusalOf, Reasons
      <3> QED
        BY <1>9, <3>1 DEF PumpKeep, PumpAt, queueVars, countVars, Outcomes
    <2>2. Counted' = Counted /\ PumpHolds' = PumpHolds
      BY <2>1 DEF Counted, PumpHolds
    <2> QED
      BY <1>5, <2>1, <2>2
  <1>10. CASE PumpKept
    <2> DEFINE D == Outcomes \cup {"dropped"}
               o == pump.outcome
    <2>1. /\ UNCHANGED items /\ pump.pc = "keeping" /\ pump'.pc = "loop"
          /\ summary' = [summary EXCEPT ![o] = @ + 1]
          /\ summary \in [D -> Nat]
      BY <1>0, <1>10 DEF PumpKept, PumpAt, queueVars, TypeOK, DrainTypeOK
    <2>2. o \in D /\ D \subseteq D /\ IsFiniteSet(D) /\ summary \in [D -> Nat]
      BY <1>0, <2>1, FewNames DEF StopOrder
    <2>3. summary'[o] = summary[o] + 1 /\ \A y \in D \ {o} : summary'[y] = summary[y]
      BY <2>1, <2>2
    <2>4. Counted = SumFunctionOnSet(summary, D) /\ Counted' = SumFunctionOnSet(summary', D)
      BY DEF Counted
    <2> HIDE DEF D, o
    <2>5. SumFunctionOnSet(summary', D)
            = SumFunctionOnSet(summary, D) + (IF o \in D THEN 1 ELSE 0)
      BY <2>2, <2>3, CountMore
    <2>6. PumpHolds = 1 /\ PumpHolds' = 0
      BY <2>1 DEF PumpHolds
    <2> QED
      BY <1>5, <1>6, <2>1, <2>2, <2>4, <2>5, <2>6
  <1> QED
    BY <1>7, <1>8, <1>9, <1>10 DEF PumpStep

(* The stop: the drop count settles what is still queued.                    *)
LEMMA SummaryStop ==
    ASSUME SummaryInv, TypeOK', StopRequested \/ DeadlinePasses \/ StopStep
    PROVE  SummaryInv'
  <1>0. TypeOK /\ StopOrder /\ HandOffsCounted
    BY DEF SummaryInv
  <1>1. UNCHANGED <<items, offered, pump, handler>> /\ InFlight' = InFlight
        /\ PumpHolds' = PumpHolds
    BY DEF StopRequested, DeadlinePasses, StopStep, DeadlineSet, ServeEnds, JoinPump,
         SignalRetention, CountDropped, queueVars, procVars, countVars, InFlight, PumpHolds
  <1>2. CASE CountDropped
    <2> DEFINE D == Outcomes \cup {"dropped"}
    <2>1. /\ main = "signalled" /\ main' = "done" /\ UNCHANGED <<cut, draining>>
          /\ summary' = [summary EXCEPT !["dropped"] = @ + Len(items)]
          /\ summary \in [D -> Nat]
      BY <1>0, <1>2 DEF CountDropped, TypeOK, DrainTypeOK
    <2>2. "dropped" \in D /\ D \subseteq D /\ IsFiniteSet(D) /\ summary \in [D -> Nat]
          /\ Len(items) \in Nat
      BY <1>0, <2>1, FewNames, CountedNat
    <2>3. /\ summary'["dropped"] = summary["dropped"] + Len(items)
          /\ \A y \in D \ {"dropped"} : summary'[y] = summary[y]
      BY <2>1, <2>2
    <2>4. Counted = SumFunctionOnSet(summary, D) /\ Counted' = SumFunctionOnSet(summary', D)
      BY DEF Counted
    <2> HIDE DEF D
    <2>5. SumFunctionOnSet(summary', D)
            = SumFunctionOnSet(summary, D) + (IF "dropped" \in D THEN Len(items) ELSE 0)
      BY <2>2, <2>3, CountMore
    <2>6. PumpHolds = 0
      BY <1>0, <2>1 DEF StopOrder, PumpHolds
    <2>7. offered = Counted + Len(items) + PumpHolds
      BY <1>0, <2>1 DEF HandOffsCounted
    <2>8. offered = Counted'
      BY <1>0, <2>2, <2>4, <2>5, <2>6, <2>7, CountedNat
    <2>9. HandOffsCounted'
      BY <1>1, <2>1, <2>8 DEF HandOffsCounted
    <2>10. StopOrder'
      BY <1>0, <1>1, <2>1 DEF StopOrder, Uncut
    <2> QED
      BY <2>9, <2>10 DEF SummaryInv
  <1>3. CASE ~CountDropped
    <2>1. /\ main' # "done" \/ (main' = main /\ cut' = cut)
          /\ main # "done" \/ main' = main
          /\ UNCHANGED summary
      BY <1>3 DEF StopRequested, DeadlinePasses, StopStep, DeadlineSet, ServeEnds,
           JoinPump, SignalRetention, countVars
    <2>2. Counted' = Counted
      BY <2>1 DEF Counted
    <2>3. HandOffsCounted'
      BY <1>0, <1>1, <2>1, <2>2 DEF HandOffsCounted
    <2>4. StopOrder'
      <3>1. CASE ServeEnds
        <4>1. main = "drained" /\ main' = "joining" /\ UNCHANGED draining
          BY <3>1, Zenon DEF ServeEnds
        <4>2. cut' = (InFlight # {})
          BY <3>1 DEF ServeEnds
        <4> QED
          BY <1>0, <1>1, <4>1, <4>2 DEF StopOrder, Uncut
      <3>2. CASE StopRequested
        BY <1>0, <1>1, <3>2 DEF StopRequested, StopOrder, Uncut
      <3>3. CASE DeadlinePasses \/ DeadlineSet
        BY <1>0, <1>1, <3>3 DEF DeadlinePasses, DeadlineSet, StopOrder, Uncut
      <3>4. CASE JoinPump \/ SignalRetention
        BY <1>0, <1>1, <3>4 DEF JoinPump, SignalRetention, PumpAt, StopOrder, Uncut
      <3> QED
        BY <1>3, <3>1, <3>2, <3>3, <3>4 DEF StopStep
    <2> QED
      BY <2>3, <2>4 DEF SummaryInv
  <1> QED
    BY <1>2, <1>3

(* Every step of every thread keeps the count.                               *)
LEMMA SummaryNext == SummaryInv /\ [Next]_vars => SummaryInv'
  <1> SUFFICES ASSUME SummaryInv, [Next]_vars PROVE SummaryInv'
    OBVIOUS
  <1>0. TypeOK'
    BY TypeNext DEF SummaryInv
  <1>1. CASE MutexStep \/ RetentionWake \/ RetentionStep \/ Finished \/ UNCHANGED vars
    <2>1. UNCHANGED <<items, summary, offered, pump, main, cut, draining, handler>>
      BY <1>1 DEF MutexStep, StoreStep, HookEvicted, HookStreamReleased, HookRefusedForget,
           HookRefusedRelease, RetentionWake, RetentionStep, RetentionTick, RetentionDone,
           RetentionExit, Finished, vars, queueVars, procVars, drainVars, countVars
    <2>2. Uncut => InFlight' = {}
      BY <2>1 DEF SummaryInv, StopOrder, InFlight
    <2> QED
      BY <1>0, <2>1, <2>2, SummaryQuiet
  <1> QED
    BY <1>0, <1>1, SummaryHandler, SummaryPump, SummaryStop DEF Next

(* When a session whose requests finished has stopped, the summary accounts  *)
(* for every record admission ever handed off: kept, refused by reason, or   *)
(* dropped with the queue.                                                   *)
THEOREM SummaryAlwaysComplete == Spec => []SummaryComplete
  <1>1. SummaryInv => SummaryComplete
    <2> SUFFICES ASSUME SummaryInv PROVE SummaryComplete
      OBVIOUS
    <2>1. DOMAIN summary = Outcomes \cup {"dropped"}
      BY DEF SummaryInv, TypeOK, DrainTypeOK
    <2> QED
      BY <2>1 DEF SummaryInv, HandOffsCounted, Counted, SummaryComplete, SumFunction
  <1> QED
    BY <1>1, SummaryInit, SummaryNext, PTL DEF Spec

-----------------------------------------------------------------------------
-----------------------------------------------------------------------------
(* The refinement of IdentityLifecycle.                                      *)

AbsStage == [k \in SpanKeys |-> StageOf(k)]
Sealed == \E h \in Handlers : handler[h].pc = "offer"

(* The stage of an identity, from the sets it may be in.                     *)
StageIn(k, ending, held, pending, sp) ==
    IF Natural(k) \in ending THEN "ending"
    ELSE IF Natural(k) \in held THEN "resident"
    ELSE IF Natural(k) \in pending THEN "pending"
    ELSE IF sp[k] # None THEN "handed"
    ELSE "free"

(* The stages before and after a step.                                       *)
LEMMA StagesAre ==
    /\ AbsStage = [k \in SpanKeys |-> StageIn(k, EndingIds, ResidentIds, PendingIds, spans)]
    /\ AbsStage' = [k \in SpanKeys |->
                      StageIn(k, EndingIds', ResidentIds', PendingIds', spans')]
  BY DEF AbsStage, StageOf, StageIn

(* What a stage says of an identity, in a state of the invariant.            *)
LEMMA StageMeans ==
    ASSUME IdentityInv, NEW k \in SpanKeys
    PROVE  /\ Natural(k) \in EndingIds => AbsStage[k] = "ending"
           /\ Natural(k) \in ResidentIds => AbsStage[k] = "resident"
           /\ Natural(k) \in PendingIds => AbsStage[k] = "pending"
           /\ AbsStage[k] = "ending" => Natural(k) \in EndingIds
           /\ AbsStage[k] = "pending" => Natural(k) \in PendingIds
           /\ Natural(k) \in LiveIds \ (ResidentIds \cup PendingIds) => AbsStage[k] = "handed"
           /\ spans[k] = None => AbsStage[k] = "free"
  BY StagesAre DEF IdentityInv, Standing, EndingsGone, SpanIdentityLasts, PlacesApart,
       LiveIds, StageIn

(* At most the handler that holds the ledger's mutex is offering.            *)
LEMMA SealedBy ==
    ASSUME IdentityInv, NEW h \in Handlers, handler[h].pc \in {"admit", "offer"}
    PROVE  /\ Sealed <=> handler[h].pc = "offer"
           /\ \A g \in Handlers \ {h} : handler[g].pc # "offer"
  BY OneOffers DEF IdentityInv, Sealed

(* A step of a handler other than its measuring, offering and responding     *)
(* neither seals nor unseals.                                                *)
LEMMA SealQuiet ==
    ASSUME IdentityInv, NEW h \in Handlers,
           \/ Arrive(h) \/ BodyFails(h) \/ Stamp(h) \/ Gate(h) \/ LockLedger(h)
           \/ IngestRefused(h) \/ IngestUnnamed(h) \/ IngestSpan(h) \/ IngestPoint(h)
           \/ IngestStanding(h) \/ Saturated(h)
    PROVE  Sealed' = Sealed
  <1>0. handler \in [Handlers -> HandlerStates]
    BY DEF IdentityInv, TypeOK, ProcTypeOK
  <1>1. SUFFICES /\ handler[h].pc # "offer" /\ handler'[h].pc # "offer"
                 /\ \A g \in Handlers \ {h} : handler'[g] = handler[g]
    BY <1>1 DEF Sealed
  <1>2. CASE Arrive(h)
    <2>1. PICK x \in Exports :
             handler' = [handler EXCEPT ![h] =
                           [Idle EXCEPT !.pc = "body", !.fate = x.fate, !.todo = x.records]]
      BY <1>2 DEF Arrive
    <2>2. handler[h].pc = "idle"
      BY <1>2, Zenon DEF Arrive
    <2> QED
      BY <1>0, <2>1, <2>2 DEF Idle
  <1>3. CASE BodyFails(h) \/ Gate(h) \/ Saturated(h)
    <2>1. handler[h].pc # "offer"
      BY <1>3 DEF BodyFails, Gate, Saturated, Admitted
    <2>2. PICK s : /\ handler' = [handler EXCEPT ![h] = s]
                   /\ s \in {Idle, [handler[h] EXCEPT !.pc = "decoded"]}
      BY <1>3 DEF BodyFails, Gate, Saturated
    <2> QED
      BY <1>0, <2>1, <2>2 DEF Idle, HandlerStates
  <1>4. CASE Stamp(h)
    <2>1. PICK n : handler' = [handler EXCEPT ![h].pc = "stamped", ![h].now = n]
      BY <1>4 DEF Stamp
    <2>2. handler[h].pc = "body"
      BY <1>4, Zenon DEF Stamp
    <2> QED
      BY <1>0, <2>1, <2>2 DEF HandlerStates
  <1>5. CASE LockLedger(h)
    BY <1>0, <1>5 DEF LockLedger, HandlerStates
  <1>6. CASE \/ IngestRefused(h) \/ IngestUnnamed(h) \/ IngestSpan(h) \/ IngestPoint(h)
             \/ IngestStanding(h)
    <2>1. PICK offers : Consume(h, offers)
      BY <1>6 DEF IngestRefused, IngestUnnamed, IngestSpan, IngestPoint, IngestStanding
    <2>2. handler[h].pc = "admit"
      BY <1>6 DEF IngestRefused, IngestUnnamed, IngestSpan, IngestPoint, IngestStanding,
           Admitting
    <2> QED
      BY <1>0, <2>1, <2>2 DEF Consume, HandlerStates
  <1> QED
    BY <1>2, <1>3, <1>4, <1>5, <1>6

(* A step of the abstract lifecycle, or none.                                *)
AbsStep == Lifecycle!Next \/ (AbsStage' = AbsStage /\ Sealed' = Sealed)

(* Moving one identity from a stage to another.                              *)
AbsMove(k, from, to) == AbsStage[k] = from /\ AbsStage' = [AbsStage EXCEPT ![k] = to]

(* The abstract actions, in terms of this module's stages and seal.          *)
LEMMA AbsActions ==
    ASSUME NEW k \in SpanKeys, Sealed' = Sealed,
           \/ ~Sealed /\ AbsMove(k, "free", "pending")
           \/ Sealed /\ AbsMove(k, "pending", "handed")
           \/ AbsMove(k, "handed", "resident")
           \/ /\ \A j \in SpanKeys : AbsStage[j] # "ending"
              /\ AbsMove(k, "handed", "ending") \/ AbsMove(k, "resident", "ending")
           \/ AbsMove(k, "ending", "free")
    PROVE  Lifecycle!Next
  BY DEF AbsMove, AbsStage, Sealed, Lifecycle!Next, Lifecycle!Admit, Lifecycle!HandOff,
         Lifecycle!Keep, Lifecycle!Refuse, Lifecycle!Evict, Lifecycle!End, Lifecycle!Move,
         Lifecycle!At, Lifecycle!NoneEnding

(* The actions of an export as a whole.                                      *)
LEMMA AbsExport ==
    ASSUME \/ /\ ~Sealed /\ Sealed' = Sealed
              /\ AbsStage' = [k \in SpanKeys |->
                                IF AbsStage[k] = "pending" THEN "free" ELSE AbsStage[k]]
           \/ ~Sealed /\ Sealed' /\ AbsStage' = AbsStage
           \/ /\ Sealed /\ ~Sealed' /\ AbsStage' = AbsStage
              /\ \A k \in SpanKeys : AbsStage[k] # "pending"
    PROVE  Lifecycle!Next
  BY DEF AbsStage, Sealed, Lifecycle!Next, Lifecycle!GiveBack, Lifecycle!Seal,
         Lifecycle!Unseal, Lifecycle!NonePending, Lifecycle!At

(* No identity has left the free stage at start.                             *)
LEMMA AbsInit == Init => Lifecycle!Init
  <1> SUFFICES ASSUME Init PROVE Lifecycle!Init
    OBVIOUS
  <1>1. PendingIds = {} /\ ResidentIds = {} /\ EndingIds = {}
    BY DEF Init, PendingIds, ResidentIds, EndingIds, Idle, StoreInit, NoPass
  <1>2. \A k \in SpanKeys : StageOf(k) = "free"
    BY <1>1 DEF Init, LedgerInit, StageOf
  <1>3. ~\E h \in Handlers : handler[h].pc = "offer"
    BY DEF Init, Idle
  <1> QED
    BY <1>2, <1>3 DEF Lifecycle!Init

(* A step that moves no identity changes no stage.                           *)
LEMMA AbsQuiet ==
    ASSUME NothingMoves
    PROVE  AbsStage' = AbsStage
  BY StagesAre DEF NothingMoves

(* Admitting a span moves its identity from free to pending; admitting any   *)
(* other record moves none.                                                  *)
LEMMA AbsIngest ==
    ASSUME IdentityInv, [Next]_vars, NEW h \in Handlers,
           IngestUnnamed(h) \/ IngestSpan(h) \/ IngestPoint(h)
    PROVE  AbsStep
  <1> DEFINE w == Head(handler[h].todo)
  <1>0. TypeOK /\ Standing /\ w \in Wires /\ Admitting(h)
    <2>1. handler[h].todo # <<>> /\ Admitting(h)
      BY DEF IngestUnnamed, IngestSpan, IngestPoint, Admitting
    <2>2. handler[h].todo \in Seq(Wires)
      BY DEF IdentityInv, TypeOK, ProcTypeOK, HandlerStates
    <2> QED
      BY <2>1, <2>2 DEF IdentityInv
  <1>1. Sealed' = Sealed /\ ~Sealed
    BY <1>0, SealQuiet, SealedBy DEF Admitting
  <1>2. CASE IngestUnnamed(h) \/ IngestPoint(h)
    <2>1. PICK f \in Streams \cup {None} : Consume(h, Pend(h, Assigned(next_serial + 1), f))
      BY <1>0, <1>2, WireShape DEF IngestUnnamed, IngestPoint, AdmitPoint
    <2>2. /\ PendingIds' = PendingIds \cup {Assigned(next_serial + 1)}
          /\ ResidentIds' = ResidentIds /\ EndingIds' = EndingIds
      BY <1>0, <2>1, BornStep, FreshSerial
    <2>3. UNCHANGED spans
      BY <1>2 DEF IngestUnnamed, IngestPoint, AdmitUnnamed, AdmitPoint
    <2>4. \A k : Natural(k) \in PendingIds' <=> Natural(k) \in PendingIds
      BY <2>2, IdsApart
    <2>5. AbsStage' = AbsStage
      BY <2>2, <2>3, <2>4, StagesAre DEF StageIn
    <2> QED
      BY <1>1, <2>5 DEF AbsStep
  <1>3. CASE IngestSpan(h)
    <2>1. AdmitSpan(w) /\ Consume(h, Pend(h, Natural(w.key), None))
      BY <1>3 DEF IngestSpan
    <2>2. w.key \in SpanKeys /\ Natural(w.key) \in EntityIds /\ spans[w.key] = None
      BY <1>0, <2>1, WireShape, IdsApart DEF AdmitSpan
    <2>3. Natural(w.key) \notin LiveIds \cup EndingIds
      BY <1>0, <2>2 DEF Standing, SpanIdentityLasts
    <2>4. /\ PendingIds' = PendingIds \cup {Natural(w.key)}
          /\ ResidentIds' = ResidentIds /\ EndingIds' = EndingIds
      BY <1>0, <2>1, <2>2, <2>3, BornStep
    <2>5. \A k \in SpanKeys \ {w.key} :
             spans'[k] = spans[k] /\ (Natural(k) \in PendingIds' <=> Natural(k) \in PendingIds)
      BY <1>0, <2>1, <2>4, IdsApart DEF AdmitSpan, TypeOK, LedgerTypeOK
    <2>6. AbsStage[w.key] = "free"
      BY <2>2, StageMeans
    <2>7. StageIn(w.key, EndingIds', ResidentIds', PendingIds', spans') = "pending"
      BY <2>3, <2>4 DEF StageIn, LiveIds
    <2>8. \A k \in SpanKeys \ {w.key} :
             StageIn(k, EndingIds', ResidentIds', PendingIds', spans')
               = StageIn(k, EndingIds, ResidentIds, PendingIds, spans)
      BY <2>4, <2>5 DEF StageIn
    <2> HIDE DEF w
    <2>9. AbsStage' = [AbsStage EXCEPT ![w.key] = "pending"]
      BY <2>2, <2>7, <2>8, StagesAre
    <2> QED
      BY <1>1, <2>2, <2>6, <2>9, AbsActions DEF AbsMove, AbsStep
  <1> QED
    BY <1>2, <1>3

(* A saturated export gives every identity it admitted back.                 *)
LEMMA AbsSaturated ==
    ASSUME IdentityInv, [Next]_vars, NEW h \in Handlers, Saturated(h)
    PROVE  AbsStep
  <1>1. ~Sealed /\ Sealed' = Sealed
    BY SealedBy, SealQuiet DEF Saturated, Admitted
  <1>2. /\ PendingIds' = {} /\ ResidentIds' = ResidentIds /\ EndingIds' = EndingIds
        /\ spans' = [k \in SpanKeys |-> IF Natural(k) \in PendingIds THEN None ELSE spans[k]]
    BY SaturatedKeepsIdentity DEF ForgetAll
  <1>3. ASSUME NEW k \in SpanKeys
        PROVE  StageIn(k, EndingIds', ResidentIds', PendingIds', spans')
                 = IF AbsStage[k] = "pending" THEN "free" ELSE AbsStage[k]
    <2>1. CASE Natural(k) \in PendingIds
      <3>1. Natural(k) \notin EndingIds /\ Natural(k) \notin ResidentIds
        BY <2>1 DEF IdentityInv, PlacesApart, Standing, EndingsGone, LiveIds
      <3> QED
        BY <1>2, <2>1, <3>1, StageMeans DEF StageIn
    <2>2. CASE Natural(k) \notin PendingIds
      BY <1>2, <2>2, StagesAre, StageMeans DEF StageIn
    <2> QED
      BY <2>1, <2>2
  <1>4. AbsStage' = [k \in SpanKeys |->
                       IF AbsStage[k] = "pending" THEN "free" ELSE AbsStage[k]]
    BY <1>3, StagesAre
  <1> QED
    BY <1>1, <1>4, AbsExport DEF AbsStep

(* Measuring commits an export to its hand-off; its response ends that, with *)
(* nothing left pending.                                                     *)
LEMMA AbsMeasureRespond ==
    ASSUME IdentityInv, [Next]_vars, NEW h \in Handlers, Measure(h) \/ Respond(h)
    PROVE  AbsStep
  <1>0. handler \in [Handlers -> HandlerStates]
    BY DEF IdentityInv, TypeOK, ProcTypeOK
  <1>1. AbsStage' = AbsStage
    BY QuietHandler, AbsQuiet
  <1>2. CASE Measure(h)
    <2>1. ~Sealed
      BY <1>2, SealedBy DEF Measure, Admitted
    <2>2. Sealed'
      BY <1>0, <1>2 DEF Measure, HandlerStates, Sealed
    <2> QED
      BY <1>1, <2>1, <2>2, AbsExport DEF AbsStep
  <1>3. CASE Respond(h)
    <2>1. /\ handler[h].pc = "offer" /\ handler[h].pending = <<>>
          /\ handler' = [handler EXCEPT ![h] = Idle]
      BY <1>3 DEF Respond
    <2>2. Sealed /\ \A g \in Handlers \ {h} : handler[g].pc # "offer"
      BY <2>1, SealedBy
    <2>3. ~Sealed'
      BY <1>0, <2>1, <2>2 DEF Sealed, Idle
    <2>4. PendingIds = {}
      <3>1. ledger_lock = h
        BY <2>1 DEF IdentityInv, MutexDiscipline
      <3> QED
        BY <2>1, <3>1, PendingOfHolder DEF IdentityInv, OfferIds
    <2>5. \A k \in SpanKeys : AbsStage[k] # "pending"
      BY <2>4, StageMeans
    <2> QED
      BY <1>1, <2>2, <2>3, <2>5, AbsExport DEF AbsStep
  <1> QED
    BY <1>2, <1>3

(* An offer hands one pending identity off, or none when the record is not a *)
(* span's.                                                                   *)
LEMMA AbsOffer ==
    ASSUME IdentityInv, [Next]_vars, NEW h \in Handlers, OfferNext(h)
    PROVE  AbsStep
  <1> DEFINE e == Head(handler[h].pending).r.entity
  <1>0. handler \in [Handlers -> HandlerStates]
    BY DEF IdentityInv, TypeOK, ProcTypeOK
  <1>1. Sealed /\ Sealed'
    BY <1>0 DEF OfferNext, HandlerStates, Sealed
  <1>2. /\ e \in PendingIds /\ PendingIds' = PendingIds \ {e}
        /\ ResidentIds' = ResidentIds /\ EndingIds' = EndingIds
    BY OfferKeepsIdentity
  <1>3. UNCHANGED spans
    BY DEF OfferNext, ledgerVars
  <1> HIDE DEF e
  <1>4. CASE \E k \in SpanKeys : e = Natural(k)
    <2>1. PICK k \in SpanKeys : e = Natural(k)
      BY <1>4
    <2>2. AbsStage[k] = "pending"
      BY <1>2, <2>1, StageMeans
    <2>3. e \notin EndingIds /\ e \notin ResidentIds /\ spans[k] # None
      BY <1>2, <2>1 DEF IdentityInv, PlacesApart, Standing, EndingsGone, LiveIds,
           SpanIdentityLasts
    <2>4. StageIn(k, EndingIds', ResidentIds', PendingIds', spans') = "handed"
      BY <1>2, <1>3, <2>1, <2>3 DEF StageIn
    <2>5. \A j \in SpanKeys \ {k} :
             StageIn(j, EndingIds', ResidentIds', PendingIds', spans')
               = StageIn(j, EndingIds, ResidentIds, PendingIds, spans)
      <3>1. \A j \in SpanKeys \ {k} : Natural(j) # e
        BY <2>1, IdsApart
      <3> QED
        BY <1>2, <1>3, <3>1 DEF StageIn
    <2>6. AbsStage' = [AbsStage EXCEPT ![k] = "handed"]
      BY <2>4, <2>5, StagesAre
    <2> QED
      BY <1>1, <2>2, <2>6, AbsActions DEF AbsMove, AbsStep
  <1>5. CASE \A k \in SpanKeys : Natural(k) # e
    <2>1. AbsStage' = AbsStage
      BY <1>2, <1>3, <1>5, StagesAre DEF StageIn
    <2> QED
      BY <1>1, <2>1 DEF AbsStep
  <1> QED
    BY <1>4, <1>5

(* The stages when one identity, e, moves and the rest stand still.          *)
LEMMA AbsOneMoves ==
    ASSUME NEW e, UNCHANGED spans, NEW k \in SpanKeys, e = Natural(k),
           \A x : x # e => /\ x \in EndingIds' <=> x \in EndingIds
                           /\ x \in ResidentIds' <=> x \in ResidentIds
                           /\ x \in PendingIds' <=> x \in PendingIds
    PROVE  AbsStage' = [AbsStage EXCEPT
             ![k] = StageIn(k, EndingIds', ResidentIds', PendingIds', spans')]
  <1>1. \A j \in SpanKeys \ {k} : Natural(j) # e
    BY IdsApart
  <1>2. \A j \in SpanKeys \ {k} :
           StageIn(j, EndingIds', ResidentIds', PendingIds', spans')
             = StageIn(j, EndingIds, ResidentIds, PendingIds, spans)
    BY <1>1 DEF StageIn
  <1> QED
    BY <1>2, StagesAre

(* A keep makes a handed-off identity resident, or begins its ending.        *)
LEMMA AbsKeep ==
    ASSUME IdentityInv, [Next]_vars, PumpKeep
    PROVE  AbsStep
  <1> DEFINE e == pump.hand.entity
  <1>1. UNCHANGED <<spans, handler>>
    BY DEF PumpKeep, ledgerVars
  <1>2. Sealed' = Sealed
    BY <1>1 DEF Sealed
  <1>3. /\ PendingIds' = PendingIds /\ EndingIds = {}
        /\ e \in LiveIds \ (ResidentIds \cup PendingIds)
        /\ \/ ResidentIds' = ResidentIds \cup {e} /\ EndingIds' = {}
           \/ ResidentIds' = ResidentIds /\ EndingIds' = {e}
    BY KeepKeepsIdentity
  <1> HIDE DEF e
  <1>4. CASE \E k \in SpanKeys : e = Natural(k)
    <2>1. PICK k \in SpanKeys : e = Natural(k)
      BY <1>4
    <2>2. AbsStage[k] = "handed"
      BY <1>3, <2>1, StageMeans
    <2>3. \A j \in SpanKeys : AbsStage[j] # "ending"
      BY <1>3, StageMeans
    <2>4. StageIn(k, EndingIds', ResidentIds', PendingIds', spans') \in {"resident", "ending"}
      BY <1>3, <2>1 DEF StageIn
    <2>5. AbsStage' = [AbsStage EXCEPT
             ![k] = StageIn(k, EndingIds', ResidentIds', PendingIds', spans')]
      BY <1>1, <1>3, <2>1, AbsOneMoves
    <2> QED
      BY <1>2, <2>2, <2>3, <2>4, <2>5, AbsActions DEF AbsMove, AbsStep
  <1>5. CASE \A k \in SpanKeys : Natural(k) # e
    <2>1. AbsStage' = AbsStage
      BY <1>1, <1>3, <1>5, StagesAre DEF StageIn
    <2> QED
      BY <1>2, <2>1 DEF AbsStep
  <1> QED
    BY <1>4, <1>5

(* An eviction begins the ending of a resident identity.                     *)
LEMMA AbsEvict ==
    ASSUME IdentityInv, [Next]_vars, StoreStep, EvictOldest
    PROVE  AbsStep
  <1>1. UNCHANGED <<spans, handler>>
    BY DEF StoreStep, ledgerVars, procVars
  <1>2. Sealed' = Sealed
    BY <1>1 DEF Sealed
  <1>3. PICK e \in ResidentIds :
           /\ PendingIds' = PendingIds /\ EndingIds = {}
           /\ ResidentIds' = ResidentIds \ {e} /\ EndingIds' = {e}
    BY EvictKeepsIdentity
  <1>4. CASE \E k \in SpanKeys : e = Natural(k)
    <2>1. PICK k \in SpanKeys : e = Natural(k)
      BY <1>4
    <2>2. AbsStage[k] = "resident" /\ \A j \in SpanKeys : AbsStage[j] # "ending"
      BY <1>3, <2>1, StageMeans
    <2>3. StageIn(k, EndingIds', ResidentIds', PendingIds', spans') = "ending"
      BY <1>3, <2>1 DEF StageIn
    <2>4. AbsStage' = [AbsStage EXCEPT
             ![k] = StageIn(k, EndingIds', ResidentIds', PendingIds', spans')]
      BY <1>1, <1>3, <2>1, AbsOneMoves
    <2> QED
      BY <1>2, <2>2, <2>3, <2>4, AbsActions DEF AbsMove, AbsStep
  <1>5. CASE \A k \in SpanKeys : Natural(k) # e
    <2>1. AbsStage' = AbsStage
      BY <1>1, <1>3, <1>5, StagesAre DEF StageIn
    <2> QED
      BY <1>2, <2>1 DEF AbsStep
  <1> QED
    BY <1>4, <1>5

(* The hook's forget makes the identity that was ending free.                *)
LEMMA AbsHook ==
    ASSUME IdentityInv, [Next]_vars, HookEvicted \/ HookRefusedForget
    PROVE  AbsStep
  <1> DEFINE e == pass.entity
  <1>1. UNCHANGED handler
    BY DEF HookEvicted, HookRefusedForget, procVars
  <1>2. Sealed' = Sealed
    BY <1>1 DEF Sealed
  <1>3. /\ PendingIds' = PendingIds /\ ResidentIds' = ResidentIds
        /\ EndingIds = {e} /\ EndingIds' = {}
        /\ spans' = [k \in SpanKeys |-> IF Natural(k) \in {e} THEN None ELSE spans[k]]
    BY HookKeepsIdentity DEF ForgetAll
  <1>4. e \notin ResidentIds /\ e \notin PendingIds
    BY <1>3 DEF IdentityInv, Standing, EndingsGone, LiveIds
  <1> HIDE DEF e
  <1>5. \A j \in SpanKeys : Natural(j) # e =>
           StageIn(j, EndingIds', ResidentIds', PendingIds', spans')
             = StageIn(j, EndingIds, ResidentIds, PendingIds, spans)
    BY <1>3 DEF StageIn
  <1>6. CASE \E k \in SpanKeys : e = Natural(k)
    <2>1. PICK k \in SpanKeys : e = Natural(k)
      BY <1>6
    <2>2. AbsStage[k] = "ending"
      BY <1>3, <2>1, StageMeans
    <2>3. StageIn(k, EndingIds', ResidentIds', PendingIds', spans') = "free"
      BY <1>3, <1>4, <2>1 DEF StageIn
    <2>4. \A j \in SpanKeys \ {k} : Natural(j) # e
      BY <2>1, IdsApart
    <2>5. AbsStage' = [AbsStage EXCEPT ![k] = "free"]
      BY <1>5, <2>3, <2>4, StagesAre
    <2> QED
      BY <1>2, <2>2, <2>5, AbsActions DEF AbsMove, AbsStep
  <1>7. CASE \A k \in SpanKeys : Natural(k) # e
    <2>1. AbsStage' = AbsStage
      BY <1>5, <1>7, StagesAre
    <2> QED
      BY <1>2, <2>1 DEF AbsStep
  <1> QED
    BY <1>6, <1>7

(* The other threads' steps are invisible.                                   *)
LEMMA AbsThreads ==
    ASSUME IdentityInv, [Next]_vars,
           \/ PumpLoop \/ PumpPopNothing \/ PumpKept \/ PumpPop
           \/ (StoreStep /\ EndPass) \/ HookStreamReleased \/ HookRefusedRelease
           \/ RetentionWake \/ RetentionStep
           \/ StopRequested \/ DeadlinePasses \/ StopStep \/ Finished \/ UNCHANGED vars
    PROVE  AbsStep
  <1>1. UNCHANGED handler
    BY DEF PumpLoop, PumpPopNothing, PumpKept, PumpPop, StoreStep, HookStreamReleased,
         HookRefusedRelease, RetentionWake, RetentionStep, RetentionTick, RetentionDone,
         RetentionExit, StopRequested, DeadlinePasses, StopStep, DeadlineSet, ServeEnds,
         JoinPump, SignalRetention, CountDropped, Finished, vars, procVars
  <1>2. Sealed' = Sealed
    BY <1>1 DEF Sealed
  <1>3. NothingMoves
    <2>1. CASE PumpPop
      BY <2>1, PopKeepsIdentity DEF NothingMoves, PumpPop, ledgerVars
    <2> QED
      BY <2>1, QuietThreads
  <1> QED
    BY <1>2, <1>3, AbsQuiet DEF AbsStep

(* Every step of the core is a step of the lifecycle, or invisible to it.    *)
LEMMA AbsNext == IdentityInv /\ [Next]_vars => AbsStep
  <1> SUFFICES ASSUME IdentityInv, [Next]_vars PROVE AbsStep
    OBVIOUS
  <1>1. ASSUME NEW h \in Handlers, Arrive(h) \/ BodyFails(h) \/ HandlerStep(h)
        PROVE  AbsStep
    <2>1. CASE \/ Arrive(h) \/ BodyFails(h) \/ Stamp(h) \/ Gate(h) \/ LockLedger(h)
               \/ IngestRefused(h) \/ IngestStanding(h)
      BY <2>1, QuietHandler, AbsQuiet, SealQuiet DEF AbsStep
    <2> QED
      BY <1>1, <2>1, AbsIngest, AbsSaturated, AbsMeasureRespond, AbsOffer DEF HandlerStep
  <1>2. CASE PumpStep
    BY <1>2, AbsThreads, AbsKeep DEF PumpStep
  <1>3. CASE MutexStep
    BY <1>3, AbsThreads, AbsEvict, AbsHook DEF MutexStep, StoreStep
  <1>4. CASE \/ RetentionWake \/ RetentionStep \/ StopRequested \/ DeadlinePasses
             \/ StopStep \/ Finished \/ UNCHANGED vars
    BY <1>4, AbsThreads
  <1> QED
    BY <1>1, <1>2, <1>3, <1>4 DEF Next

(* The threads, mutexes and hook calls together implement the lifecycle of a *)
(* natural identity: every export gives back or hands off everything it      *)
(* admitted, one ending runs at a time, and no identity skips a stage.       *)
THEOREM LifecycleImplemented == Spec => ImplementsLifecycle
  <1>1. AbsStep => [Lifecycle!Next]_<<[k \in SpanKeys |-> StageOf(k)],
                                      \E h \in Handlers : handler[h].pc = "offer">>
    BY DEF AbsStep, AbsStage, Sealed
  <1> QED
    BY <1>1, AbsInit, AbsNext, IdentityCorrect, PTL DEF Spec, ImplementsLifecycle,
       Lifecycle!Spec

-----------------------------------------------------------------------------
(* An interned stream never outlives its points.  The invariant: a live      *)
(* point's identity stands, with its own payload; an offer's stream is       *)
(* interned; the ending of a stream's last point carries the stream; and     *)
(* every interned stream is held by a point that is past its offer-set, by   *)
(* the release the hook owes, or by the offer that interned it.              *)

Offered == UNION {OffersOf(h) : h \in Handlers}
LiveRecords == {o.r : o \in Offered} \cup {items[i] : i \in DOMAIN items}
               \cup (IF pump.hand = None THEN {} ELSE {pump.hand}) \cup resident

PointsStand ==
    \A r \in LiveRecords : r.w.kind = "point" =>
      points[r.w.key] # None /\ r.entity = Assigned(points[r.w.key].serial)
PointsMatch ==
    \A k \in PointKeys : points[k] # None =>
      /\ points[k].w.kind = "point"
      /\ \A r \in LiveRecords : r.entity = Assigned(points[k].serial) => r.w = points[k].w
OffersInterned ==
    \A o \in Offered :
      /\ o.r.w.kind = "point" => streams[o.r.w.stream] # None
      /\ o.fresh # None => o.r.w.kind = "point" /\ o.r.w.stream = o.fresh
EndingCovered ==
    pass.step \in {"evicted", "refused"} =>
      \A k \in PointKeys : points[k] # None /\ Assigned(points[k].serial) = pass.entity =>
        \/ points[k].w.stream = pass.stream
        \/ \E r \in resident : r.w.stream = points[k].w.stream
HeldByPoint(s) ==
    \E k \in PointKeys : /\ points[k] # None /\ points[k].w.stream = s
                         /\ Assigned(points[k].serial) \notin PendingIds
HeldByPass(s) == pass.stream = s /\ pass.step \in {"released", "unlinked"}
HeldByOffer(s) == \E o \in Offered : o.fresh = s
StreamsHeld ==
    \A s \in Streams : streams[s] # None => HeldByPoint(s) \/ HeldByPass(s) \/ HeldByOffer(s)
StreamInv == PointsStand /\ PointsMatch /\ OffersInterned /\ EndingCovered /\ StreamsHeld

(* The offers' identities are the pending ones, before and after a step.     *)
LEMMA OfferedIds ==
    /\ PendingIds = {o.r.entity : o \in Offered}
    /\ PendingIds' = {o.r.entity : o \in Offered'}
  BY DEF PendingIds, Offered, OffersOf

(* Where a live record is, before and after a step.                          *)
LEMMA LiveRecordsAre ==
    /\ \A r : r \in LiveRecords <=>
         \/ \E o \in Offered : r = o.r
         \/ \E i \in DOMAIN items : r = items[i]
         \/ pump.hand # None /\ r = pump.hand
         \/ r \in resident
    /\ \A r : r \in LiveRecords' <=>
         \/ \E o \in Offered' : r = o.r
         \/ \E i \in DOMAIN items' : r = items'[i]
         \/ pump'.hand # None /\ r = pump'.hand
         \/ r \in resident'
  BY DEF LiveRecords

(* A live record bears a live identity.                                      *)
LEMMA LiveNamed ==
    /\ \A r \in LiveRecords : r.entity \in LiveIds
    /\ \A r \in LiveRecords' : r.entity \in LiveIds'
  <1>1. \A r \in LiveRecords : r.entity \in LiveIds
    BY LiveRecordsAre, OfferedIds DEF LiveIds, QueuedIds, InHandIds, ResidentIds
  <1>2. \A r \in LiveRecords' : r.entity \in LiveIds'
    BY LiveRecordsAre, OfferedIds DEF LiveIds, QueuedIds, InHandIds, ResidentIds
  <1> QED
    BY <1>1, <1>2

(* A step that admits nothing and leaves the point map alone keeps what      *)
(* relates live points to their standing entries.                            *)
LEMMA PointsKept ==
    ASSUME PointsStand, PointsMatch, UNCHANGED points, LiveRecords' \subseteq LiveRecords
    PROVE  PointsStand' /\ PointsMatch'
  BY DEF PointsStand, PointsMatch

(* What forgetting a set of identities does to the point map.                *)
LEMMA ForgottenPoints ==
    ASSUME TypeOK, Standing, NEW es, ForgetAll(es), NEW k \in PointKeys
    PROVE  /\ points[k] # None /\ Assigned(points[k].serial) \in es => points'[k] = None
           /\ points[k] # None /\ Assigned(points[k].serial) \notin es => points'[k] = points[k]
           /\ points'[k] # None => points[k] # None /\ points'[k] = points[k]
                                   /\ Assigned(points[k].serial) \notin es
  <1> DEFINE gone == {a \in assigned_points : Assigned(a.serial) \in es}
             mine == [serial |-> points[k].serial, key |-> k]
  <1>1. points' = [j \in PointKeys |->
                     IF \E a \in gone : a.key = j THEN None ELSE points[j]]
    BY DEF ForgetAll
  <1>2. \A a \in gone : a.key = k => points[k] # None /\ Assigned(points[k].serial) \in es
    BY DEF Standing, PointIdentityLasts
  <1>3. points[k] # None => mine \in assigned_points
    BY DEF Standing, PointIdentityLasts
  <1>4. mine.serial = points[k].serial /\ mine.key = k
    OBVIOUS
  <1> HIDE DEF mine
  <1>5. points[k] # None /\ Assigned(points[k].serial) \in es => \E a \in gone : a.key = k
    BY <1>3, <1>4
  <1> HIDE DEF gone
  <1> QED
    BY <1>1, <1>2, <1>5

(* Forgetting identities that no live record bears any more keeps the same.  *)
LEMMA PointsForgotten ==
    ASSUME TypeOK, Standing, PointsStand, PointsMatch, NEW es, ForgetAll(es),
           LiveRecords' \subseteq LiveRecords, LiveIds' \cap es = {},
           \A r \in LiveRecords : r \in Records
    PROVE  PointsStand' /\ PointsMatch'
  <1>1. ASSUME NEW r \in LiveRecords', r.w.kind = "point"
        PROVE  points'[r.w.key] # None /\ r.entity = Assigned(points'[r.w.key].serial)
    <2>1. r \in LiveRecords /\ r.entity \notin es
      BY LiveNamed
    <2>2. r.w \in Wires /\ r.w.key \in PointKeys
      <3>1. r.w \in Wires
        BY <2>1 DEF Records
      <3> QED
        BY <1>1, <3>1, WireShape
    <2>3. points[r.w.key] # None /\ r.entity = Assigned(points[r.w.key].serial)
      BY <1>1, <2>1 DEF PointsStand
    <2> QED
      BY <2>1, <2>2, <2>3, ForgottenPoints
  <1>2. ASSUME NEW k \in PointKeys, points'[k] # None
        PROVE  /\ points'[k].w.kind = "point"
               /\ \A r \in LiveRecords' :
                    r.entity = Assigned(points'[k].serial) => r.w = points'[k].w
    BY <1>2, ForgottenPoints DEF PointsMatch
  <1> QED
    BY <1>1, <1>2 DEF PointsStand, PointsMatch

(* Live records are records.                                                 *)
LEMMA LiveTyped ==
    ASSUME TypeOK
    PROVE  \A r \in LiveRecords : r \in Records /\ r.w \in Wires /\ r.entity \in EntityIds
  <1>1. /\ handler \in [Handlers -> HandlerStates] /\ items \in Seq(Records)
        /\ pump.hand \in Records \cup {None} /\ resident \in SUBSET Records
    BY DEF TypeOK, ProcTypeOK, QueueTypeOK, StoreTypeOK
  <1>2. \A o \in Offered : o.r \in Records
    <2>1. \A h \in Handlers : OffersOf(h) \subseteq PendingOffers
      <3>1. \A h \in Handlers : handler[h].pending \in Seq(PendingOffers)
        BY <1>1 DEF HandlerStates
      <3> QED
        BY <3>1 DEF OffersOf
    <2> QED
      BY <2>1 DEF Offered, PendingOffers
  <1>3. \A i \in DOMAIN items : items[i] \in Records
    BY <1>1
  <1>4. \A r \in LiveRecords : r \in Records
    BY <1>1, <1>2, <1>3, LiveRecordsAre
  <1> QED
    BY <1>4 DEF Records

(* A step that changes neither points, streams nor offers and brings no      *)
(* record to life keeps the invariant, when it owes no release.              *)
LEMMA StreamsStay ==
    ASSUME StreamInv, UNCHANGED <<points, streams>>, Offered' = Offered,
           LiveRecords' \subseteq LiveRecords, EndingCovered',
           UNCHANGED pass \/ pass.step \notin {"released", "unlinked"}
    PROVE  StreamInv'
  <1>1. PendingIds' = PendingIds
    BY OfferedIds
  <1>2. PointsStand' /\ PointsMatch'
    BY PointsKept DEF StreamInv
  <1>3. OffersInterned'
    BY DEF StreamInv, OffersInterned
  <1>4. StreamsHeld'
    BY <1>1 DEF StreamInv, StreamsHeld, HeldByPoint, HeldByPass, HeldByOffer
  <1> QED
    BY <1>2, <1>3, <1>4 DEF StreamInv

(* A step that moves no record and touches neither points nor streams keeps  *)
(* the invariant, unless it begins or drops an ending.                       *)
LEMMA StreamQuiet ==
    ASSUME StreamInv, UNCHANGED <<items, resident, points, streams>>,
           \A g \in Handlers : handler'[g].pending = handler[g].pending,
           pump'.hand = pump.hand,
           \/ UNCHANGED pass
           \/ /\ pass.step \notin {"released", "unlinked"}
              /\ pass'.step \notin {"evicted", "refused"}
    PROVE  StreamInv'
  <1>1. Offered' = Offered
    BY DEF Offered, OffersOf
  <1>2. LiveRecords' = LiveRecords
    BY <1>1 DEF LiveRecords
  <1>3. EndingCovered'
    BY DEF StreamInv, EndingCovered
  <1> QED
    BY <1>1, <1>2, <1>3, StreamsStay

(* The offers of the export that holds the ledger's mutex are all of them.   *)
LEMMA OfferedByHolder ==
    ASSUME NEW h \in Handlers
    PROVE  /\ (\A g \in Handlers \ {h} : handler[g].pending = <<>>) => Offered = OffersOf(h)
           /\ (\A g \in Handlers \ {h} : handler'[g].pending = <<>>) => Offered' = OffersOf(h)'
  BY DEF Offered, OffersOf

(* An admitted record joins the offers and the live records.                 *)
LEMMA OfferBorn ==
    ASSUME IdentityInv, NEW h \in Handlers, NEW e \in EntityIds, NEW f,
           f \in Streams \cup {None}, Admitting(h), Consume(h, Pend(h, e, f))
    PROVE  LET r == [entity |-> e, at |-> handler[h].now, w |-> Head(handler[h].todo)]
           IN  /\ Offered' = Offered \cup {[r |-> r, fresh |-> f]}
               /\ LiveRecords' = LiveRecords \cup {r}
               /\ UNCHANGED <<resident, pass>>
  <1> DEFINE old == handler[h].pending
             r == [entity |-> e, at |-> handler[h].now, w |-> Head(handler[h].todo)]
             o == [r |-> r, fresh |-> f]
             new == Append(old, o)
  <1>0. /\ ledger_lock = h /\ handler \in [Handlers -> HandlerStates]
        /\ handler[h] \in HandlerStates /\ handler[h].todo # <<>>
    BY DEF IdentityInv, MutexDiscipline, Admitting, TypeOK, ProcTypeOK
  <1>1. old \in Seq(PendingOffers) /\ o \in PendingOffers
    BY <1>0 DEF HandlerStates, PendingOffers, Records
  <1>2. /\ handler' = [handler EXCEPT ![h].todo = Tail(handler[h].todo), ![h].pending = new]
        /\ UNCHANGED <<items, pump, resident, pass>>
    BY DEF Consume, Pend, queueVars, storeVars
  <1>3. \A g \in Handlers \ {h} : handler[g].pending = <<>>
    BY <1>0, PendingOfHolder DEF IdentityInv
  <1>4. handler'[h].pending = new /\ \A g \in Handlers \ {h} : handler'[g].pending = <<>>
    BY <1>0, <1>2, <1>3 DEF HandlerStates
  <1>5. /\ DOMAIN new = DOMAIN old \cup {Len(old) + 1}
        /\ Len(old) + 1 \notin DOMAIN old
        /\ \A i \in DOMAIN old : new[i] = old[i]
        /\ new[Len(old) + 1] = o
    BY <1>1, AppendPositions
  <1>6. Offered = {old[i] : i \in DOMAIN old} /\ Offered' = {new[i] : i \in DOMAIN new}
    <2>1. Offered = OffersOf(h) /\ Offered' = OffersOf(h)'
      BY <1>3, <1>4, OfferedByHolder
    <2> QED
      BY <1>4, <2>1 DEF OffersOf
  <1>7. o.r = r
    OBVIOUS
  <1> HIDE DEF new, o, old, r
  <1>8. Offered' = Offered \cup {o}
    BY <1>5, <1>6
  <1>9. LiveRecords' = LiveRecords \cup {r}
    BY <1>2, <1>7, <1>8 DEF LiveRecords
  <1> QED
    BY <1>2, <1>8, <1>9 DEF o, r

(* Admitting a log record or a span leaves the streams and the points alone. *)
LEMMA StreamIngestOther ==
    ASSUME IdentityInv, StreamInv, [Next]_vars, NEW h \in Handlers,
           IngestUnnamed(h) \/ IngestSpan(h)
    PROVE  StreamInv'
  <1> DEFINE w == Head(handler[h].todo)
  <1>0. /\ TypeOK /\ Standing /\ w \in Wires /\ Admitting(h)
        /\ UNCHANGED <<points, streams>>
    <2>1. handler[h].todo # <<>> /\ Admitting(h) /\ UNCHANGED <<points, streams>>
      BY DEF IngestUnnamed, IngestSpan, Admitting, AdmitUnnamed, AdmitSpan
    <2>2. handler[h].todo \in Seq(Wires)
      BY DEF IdentityInv, TypeOK, ProcTypeOK, HandlerStates
    <2> QED
      BY <2>1, <2>2 DEF IdentityInv
  <1>1. w.kind # "point"
    BY <1>0, WireShape, RecordsAssumption
       DEF IngestUnnamed, IngestSpan, AdmitUnnamed, AdmitSpan
  <1>2. PICK e \in EntityIds :
           /\ Consume(h, Pend(h, e, None)) /\ e \notin LiveIds \cup EndingIds
    <2>1. CASE IngestUnnamed(h)
      BY <1>0, <2>1, FreshSerial DEF IngestUnnamed
    <2>2. CASE IngestSpan(h)
      <3>1. Consume(h, Pend(h, Natural(w.key), None)) /\ AdmitSpan(w)
        BY <2>2 DEF IngestSpan
      <3>2. w.key \in SpanKeys /\ Natural(w.key) \in EntityIds /\ spans[w.key] = None
        BY <1>0, <3>1, WireShape, IdsApart DEF AdmitSpan
      <3> QED
        BY <1>0, <3>1, <3>2 DEF Standing, SpanIdentityLasts
    <2> QED
      BY <2>1, <2>2
  <1> DEFINE r == [entity |-> e, at |-> handler[h].now, w |-> w]
             o == [r |-> r, fresh |-> None]
  <1>3. /\ Offered' = Offered \cup {o} /\ LiveRecords' = LiveRecords \cup {r}
        /\ UNCHANGED <<resident, pass>>
    BY <1>0, <1>2, OfferBorn
  <1>4. o.r = r /\ o.fresh = None /\ r.w = w /\ r.entity = e
    OBVIOUS
  <1> HIDE DEF o, r, w
  <1>5. \A k \in PointKeys : points[k] # None => Assigned(points[k].serial) # e
    BY <1>0, <1>2 DEF Standing, PointIdentityLasts
  <1>6. PointsStand' /\ PointsMatch'
    BY <1>0, <1>1, <1>3, <1>4, <1>5 DEF StreamInv, PointsStand, PointsMatch
  <1>7. OffersInterned'
    BY <1>0, <1>1, <1>3, <1>4 DEF StreamInv, OffersInterned
  <1>8. EndingCovered'
    BY <1>0, <1>3 DEF StreamInv, EndingCovered
  <1>9. PendingIds' = PendingIds \cup {e}
    BY <1>3, <1>4, OfferedIds
  <1>10. StreamsHeld'
    BY <1>0, <1>3, <1>5, <1>9 DEF StreamInv, StreamsHeld, HeldByPoint, HeldByPass, HeldByOffer
  <1> QED
    BY <1>6, <1>7, <1>8, <1>10 DEF StreamInv

(* Admitting a point: the stream it interns is held by its own offer.        *)
LEMMA StreamIngestPoint ==
    ASSUME IdentityInv, StreamInv, [Next]_vars, NEW h \in Handlers, IngestPoint(h)
    PROVE  StreamInv'
  <1> DEFINE w == Head(handler[h].todo)
             e == Assigned(next_serial + 1)
             f == IF FreshIntern(w) THEN w.stream ELSE None
             entry == [serial |-> next_serial + 1, w |-> w, schema |-> Interned(w)]
             r == [entity |-> e, at |-> handler[h].now, w |-> w]
             o == [r |-> r, fresh |-> f]
  <1>0. /\ TypeOK /\ Standing /\ w \in Wires /\ Admitting(h) /\ AdmitPoint(w)
        /\ Consume(h, Pend(h, e, f))
    <2>1. /\ handler[h].todo # <<>> /\ Admitting(h) /\ AdmitPoint(w)
          /\ Consume(h, Pend(h, e, f))
      BY DEF IngestPoint, Admitting
    <2>2. handler[h].todo \in Seq(Wires)
      BY DEF IdentityInv, TypeOK, ProcTypeOK, HandlerStates
    <2> QED
      BY <2>1, <2>2 DEF IdentityInv
  <1>1. /\ w.kind = "point" /\ w.key \in PointKeys /\ w.stream \in Streams
        /\ points[w.key] = None
        /\ points \in [PointKeys -> PointEntry \cup {None}]
        /\ points' = [points EXCEPT ![w.key] = entry]
        /\ streams \in [Streams -> Schemas \cup {None}]
        /\ streams' = [streams EXCEPT ![w.stream] = Interned(w)]
    BY <1>0, WireShape DEF AdmitPoint, TypeOK, LedgerTypeOK
  <1>2. entry # None /\ Interned(w) # None
    <2>1. Interned(w) \in Schemas
      BY <1>0, <1>1, InternedType DEF TypeOK
    <2>2. entry \in PointEntry
      BY <1>0, <2>1, FreshSerial DEF PointEntry
    <2> QED
      BY <2>1, <2>2, LedgerAssumption, RecordsAssumption
  <1>3. /\ Offered' = Offered \cup {o} /\ LiveRecords' = LiveRecords \cup {r}
        /\ UNCHANGED <<resident, pass>>
    BY <1>0, <1>1, FreshSerial, OfferBorn
  <1>4. /\ o.r = r /\ o.fresh = f /\ r.w = w /\ r.entity = e
        /\ entry.serial = next_serial + 1 /\ entry.w = w
    OBVIOUS
  <1>5. e \notin LiveIds \cup EndingIds
    BY <1>0, FreshSerial
  <1>a. Assigned(entry.serial) = e
    BY <1>4
  <1>b. f # None => f = w.stream /\ streams[w.stream] = None
    BY DEF FreshIntern
  <1>c. streams[w.stream] = None => f = w.stream
    BY DEF FreshIntern
  <1> HIDE DEF o, r, w, entry, e, f
  <1>6. /\ points'[w.key] = entry
        /\ \A k \in PointKeys \ {w.key} : points'[k] = points[k]
        /\ streams'[w.stream] # None
        /\ \A s \in Streams : streams[s] # None => streams'[s] # None
        /\ \A s \in Streams \ {w.stream} : streams'[s] = streams[s]
    BY <1>1, <1>2
  <1>7. \A k \in PointKeys : points[k] # None => Assigned(points[k].serial) # e
    BY <1>0, <1>5 DEF Standing, PointIdentityLasts
  <1>8. \A x \in LiveRecords : x.entity # e
    BY <1>5, LiveNamed
  <1>9. PointsStand'
    <2>1. ASSUME NEW x \in LiveRecords, x.w.kind = "point"
          PROVE  points'[x.w.key] # None /\ x.entity = Assigned(points'[x.w.key].serial)
      <3>1. x.w.key \in PointKeys
        BY <1>0, <2>1, LiveTyped, WireShape
      <3>2. points[x.w.key] # None /\ x.entity = Assigned(points[x.w.key].serial)
        BY <2>1 DEF StreamInv, PointsStand
      <3> QED
        BY <1>1, <1>6, <3>1, <3>2
    <2>2. points'[r.w.key] # None /\ r.entity = Assigned(points'[r.w.key].serial)
      BY <1>2, <1>4, <1>6, <1>a
    <2> QED
      BY <1>3, <2>1, <2>2 DEF PointsStand
  <1>10. PointsMatch'
    <2>1. ASSUME NEW k \in PointKeys \ {w.key}, points'[k] # None
          PROVE  /\ points'[k].w.kind = "point"
                 /\ \A x \in LiveRecords' :
                      x.entity = Assigned(points'[k].serial) => x.w = points'[k].w
      BY <1>3, <1>4, <1>6, <1>7, <2>1 DEF StreamInv, PointsMatch
    <2>2. /\ points'[w.key].w.kind = "point"
          /\ \A x \in LiveRecords' :
               x.entity = Assigned(points'[w.key].serial) => x.w = points'[w.key].w
      BY <1>1, <1>3, <1>4, <1>6, <1>8, <1>a
    <2> QED
      BY <2>1, <2>2 DEF PointsMatch
  <1>11. OffersInterned'
    <2>1. ASSUME NEW x \in Offered, x.r.w.kind = "point"
          PROVE  streams'[x.r.w.stream] # None
      <3>1. x.r \in LiveRecords
        BY LiveRecordsAre
      <3>2. x.r.w.stream \in Streams
        BY <1>0, <2>1, <3>1, LiveTyped, WireShape
      <3> QED
        BY <1>6, <2>1, <3>2 DEF StreamInv, OffersInterned
    <2> QED
      BY <1>1, <1>3, <1>4, <1>6, <1>b, <2>1 DEF StreamInv, OffersInterned
  <1>12. EndingCovered'
    <2>1. pass.step \in {"evicted", "refused"} => pass.entity # e
      BY <1>5 DEF EndingIds
    <2>2. ASSUME NEW k \in PointKeys, points'[k] # None, pass.step \in {"evicted", "refused"},
                 Assigned(points'[k].serial) = pass.entity
          PROVE  points[k] # None /\ points'[k] = points[k]
      BY <1>6, <1>a, <2>1, <2>2
    <2> QED
      BY <1>3, <2>2 DEF StreamInv, EndingCovered
  <1>13. PendingIds' = PendingIds \cup {e}
    BY <1>3, <1>4, OfferedIds
  <1>14. ASSUME NEW s \in Streams, streams'[s] # None
         PROVE  (HeldByPoint(s) \/ HeldByPass(s) \/ HeldByOffer(s))'
    <2>1. CASE streams[s] = None
      <3>1. s = w.stream
        BY <1>6, <1>14, <2>1
      <3> QED
        BY <1>3, <1>4, <1>c, <2>1, <3>1 DEF HeldByOffer
    <2>2. CASE streams[s] # None
      <3>1. CASE HeldByPoint(s)
        <4>1. PICK k \in PointKeys : /\ points[k] # None /\ points[k].w.stream = s
                                     /\ Assigned(points[k].serial) \notin PendingIds
          BY <3>1 DEF HeldByPoint
        <4>2. points'[k] = points[k]
          BY <1>1, <1>6, <4>1
        <4>3. Assigned(points'[k].serial) \notin PendingIds'
          BY <1>7, <1>13, <4>1, <4>2
        <4> QED
          BY <4>1, <4>2, <4>3 DEF HeldByPoint
      <3>2. CASE HeldByPass(s) \/ HeldByOffer(s)
        BY <1>3, <3>2 DEF HeldByPass, HeldByOffer
      <3> QED
        BY <2>2, <3>1, <3>2 DEF StreamInv, StreamsHeld
    <2> QED
      BY <2>1, <2>2
  <1> QED
    BY <1>9, <1>10, <1>11, <1>12, <1>14 DEF StreamInv, StreamsHeld

(* A delivery onto a standing identity may intern its stream again: the      *)
(* standing point holds it, for one that was still pending would have it     *)
(* interned already.                                                         *)
LEMMA StreamStanding ==
    ASSUME IdentityInv, StreamInv, [Next]_vars, NEW h \in Handlers, IngestStanding(h)
    PROVE  StreamInv'
  <1> DEFINE w == Head(handler[h].todo)
  <1>0. /\ TypeOK /\ w \in Wires /\ points \in [PointKeys -> PointEntry \cup {None}]
        /\ streams \in [Streams -> Schemas \cup {None}]
    <2>1. handler[h].todo # <<>>
      BY DEF IngestStanding, Admitting
    <2>2. handler[h].todo \in Seq(Wires)
      BY DEF IdentityInv, TypeOK, ProcTypeOK, HandlerStates
    <2> QED
      BY <2>1, <2>2 DEF IdentityInv, TypeOK, LedgerTypeOK
  <1>1. \A g \in Handlers : handler'[g].pending = handler[g].pending
    BY PendingQuiet DEF IdentityInv
  <1>2. UNCHANGED <<items, resident, points, pump, pass>>
    BY DEF IngestStanding, Consume, CollapseSpan, ConflictSpan, CollapsePoint,
         ConflictPoint, queueVars, storeVars
  <1>3. CASE UNCHANGED streams
    BY <1>1, <1>2, <1>3, StreamQuiet
  <1>4. CASE streams' # streams
    <2>1. /\ w.kind = "point" /\ points[w.key] # None
          /\ points[w.key].w.stream = w.stream
          /\ streams' = [streams EXCEPT ![w.stream] = Interned(w)]
      BY <1>4 DEF IngestStanding, CollapseSpan, ConflictSpan, CollapsePoint, ConflictPoint
    <2>2. /\ w.key \in PointKeys /\ w.stream \in Streams /\ Interned(w) # None
      BY <1>0, <2>1, WireShape, InternedType, RecordsAssumption DEF TypeOK
    <2>3. streams[w.stream] = None
      BY <1>0, <1>4, <2>1, <2>2 DEF Interned, FreshIntern
    <2>a. Offered' = Offered
      BY <1>1 DEF Offered, OffersOf
    <2>b. LiveRecords' = LiveRecords /\ PendingIds' = PendingIds
      BY <1>2, <2>a, OfferedIds DEF LiveRecords
    <2>4. Assigned(points[w.key].serial) \notin PendingIds
      <3> SUFFICES ASSUME Assigned(points[w.key].serial) \in PendingIds
                   PROVE  FALSE
        OBVIOUS
      <3>1. PICK o \in Offered : o.r.entity = Assigned(points[w.key].serial)
        BY OfferedIds
      <3>2. o.r \in LiveRecords
        BY LiveRecordsAre
      <3>3. o.r.w = points[w.key].w /\ o.r.w.kind = "point"
        BY <2>1, <2>2, <3>1, <3>2 DEF StreamInv, PointsMatch
      <3>4. streams[o.r.w.stream] # None
        BY <3>3 DEF StreamInv, OffersInterned
      <3> QED
        BY <2>1, <2>3, <3>3, <3>4
    <2> HIDE DEF w
    <2>5. /\ \A s \in Streams : streams[s] # None => streams'[s] # None
          /\ \A s \in Streams \ {w.stream} : streams'[s] = streams[s]
      BY <1>0, <2>1, <2>2, <2>3
    <2>6. PointsStand' /\ PointsMatch'
      BY <1>2, <2>b, PointsKept DEF StreamInv
    <2>7. OffersInterned'
      <3>1. ASSUME NEW o \in Offered, o.r.w.kind = "point"
            PROVE  streams'[o.r.w.stream] # None
        <4>1. o.r \in LiveRecords
          BY LiveRecordsAre
        <4>2. o.r.w.stream \in Streams
          BY <1>0, <3>1, <4>1, LiveTyped, WireShape
        <4> QED
          BY <2>5, <3>1, <4>2 DEF StreamInv, OffersInterned
      <3> QED
        BY <2>a, <3>1 DEF StreamInv, OffersInterned
    <2>8. EndingCovered'
      BY <1>2 DEF StreamInv, EndingCovered
    <2>9. ASSUME NEW s \in Streams, s = w.stream
          PROVE  HeldByPoint(s)'
      BY <1>2, <2>1, <2>2, <2>4, <2>9, <2>b DEF HeldByPoint
    <2>10. ASSUME NEW s \in Streams \ {w.stream}, streams'[s] # None
           PROVE  (HeldByPoint(s) \/ HeldByPass(s) \/ HeldByOffer(s))'
      BY <1>2, <2>5, <2>a, <2>b, <2>10
         DEF StreamInv, StreamsHeld, HeldByPoint, HeldByPass, HeldByOffer
    <2> QED
      BY <2>6, <2>7, <2>8, <2>9, <2>10 DEF StreamInv, StreamsHeld
  <1> QED
    BY <1>3, <1>4

(* A saturated export takes its points and the streams they interned with    *)
(* it: what is still interned is held by somebody else.                      *)
LEMMA StreamSaturated ==
    ASSUME IdentityInv, StreamInv, [Next]_vars, NEW h \in Handlers, Saturated(h)
    PROVE  StreamInv'
  <1>0. /\ TypeOK /\ Standing /\ ledger_lock = h /\ handler \in [Handlers -> HandlerStates]
    BY DEF IdentityInv, Saturated, Admitted, MutexDiscipline, TypeOK, ProcTypeOK
  <1>1. /\ PendingIds' = {} /\ ResidentIds' = ResidentIds /\ EndingIds' = EndingIds
        /\ ForgetAll(PendingIds)
    BY SaturatedKeepsIdentity
  <1>2. UNCHANGED <<items, pump, resident, pass>>
    BY DEF Saturated, queueVars, storeVars
  <1>3. \A g \in Handlers \ {h} : handler[g].pending = <<>>
    BY <1>0, PendingOfHolder DEF IdentityInv
  <1>4. Offered = OffersOf(h) /\ Offered' = {}
    <2>1. \A g \in Handlers : handler'[g].pending = <<>>
      BY <1>0, <1>3 DEF Saturated, Idle
    <2> QED
      BY <1>3, <2>1, OfferedByHolder DEF Offered, OffersOf
  <1>5. streams' = [s \in Streams |-> IF s \in {o.fresh : o \in Offered} THEN None
                                      ELSE streams[s]]
    BY <1>4 DEF Saturated, ReleaseAll
  <1>6. LiveRecords' \subseteq LiveRecords /\ LiveIds' \cap PendingIds = {}
    <2>1. LiveRecords' \subseteq LiveRecords
      BY <1>2, <1>4 DEF LiveRecords
    <2>2. QueuedIds' = QueuedIds /\ InHandIds' = InHandIds
      BY <1>2 DEF QueuedIds, InHandIds
    <2> QED
      BY <1>1, <2>1, <2>2 DEF LiveIds, IdentityInv, PlacesApart
  <1>7. PointsStand' /\ PointsMatch'
    BY <1>0, <1>1, <1>6, PointsForgotten, LiveTyped DEF StreamInv
  <1>8. OffersInterned'
    BY <1>4 DEF OffersInterned
  <1>9. EndingCovered'
    BY <1>0, <1>1, <1>2, ForgottenPoints DEF StreamInv, EndingCovered
  <1>10. ASSUME NEW s \in Streams, streams'[s] # None
         PROVE  HeldByPoint(s)' \/ HeldByPass(s)'
    <2>1. streams[s] # None /\ ~HeldByOffer(s)
      BY <1>5, <1>10 DEF HeldByOffer
    <2>2. CASE HeldByPass(s)
      BY <1>2, <2>2 DEF HeldByPass
    <2>3. CASE HeldByPoint(s)
      <3>1. PICK k \in PointKeys : /\ points[k] # None /\ points[k].w.stream = s
                                   /\ Assigned(points[k].serial) \notin PendingIds
        BY <2>3 DEF HeldByPoint
      <3>2. points'[k] = points[k]
        BY <1>0, <1>1, <3>1, ForgottenPoints
      <3> QED
        BY <1>1, <3>1, <3>2 DEF HeldByPoint
    <2> QED
      BY <2>1, <2>2, <2>3 DEF StreamInv, StreamsHeld
  <1> QED
    BY <1>7, <1>8, <1>9, <1>10 DEF StreamInv, StreamsHeld

(* An offered point leaves its offer-set and holds its stream itself.        *)
LEMMA StreamOffer ==
    ASSUME IdentityInv, StreamInv, [Next]_vars, NEW h \in Handlers, OfferNext(h)
    PROVE  StreamInv'
  <1> DEFINE old == handler[h].pending
             new == Tail(old)
             o == Head(old)
  <1>0. /\ TypeOK /\ ledger_lock = h
        /\ handler \in [Handlers -> HandlerStates] /\ items \in Seq(Records)
        /\ old \in Seq(PendingOffers) /\ old # <<>>
    BY DEF IdentityInv, OfferNext, MutexDiscipline, TypeOK, ProcTypeOK, QueueTypeOK,
         HandlerStates
  <1>1. /\ o.r.entity \in PendingIds /\ PendingIds' = PendingIds \ {o.r.entity}
    BY OfferKeepsIdentity
  <1>2. /\ handler' = [handler EXCEPT ![h].pending = new]
        /\ items' = Append(items, o.r)
        /\ UNCHANGED <<pump, resident, pass, points, streams>>
    BY DEF OfferNext, Offer, storeVars, ledgerVars
  <1>3. /\ o = old[1] /\ 1 \in DOMAIN old /\ old[1] \in PendingOffers
        /\ \A i \in DOMAIN new : i \in Nat /\ i + 1 \in DOMAIN old /\ i + 1 # 1
                                 /\ new[i] = old[i + 1]
        /\ \A j \in DOMAIN old : j \in Nat
        /\ \A j \in DOMAIN old \ {1} : j - 1 \in DOMAIN new /\ new[j - 1] = old[j]
    BY <1>0, TailPositions
  <1>4. o.r \in Records
    BY <1>3 DEF PendingOffers
  <1>5. /\ DOMAIN items' = DOMAIN items \cup {Len(items) + 1}
        /\ Len(items) + 1 \notin DOMAIN items
        /\ \A i \in DOMAIN items : items'[i] = items[i]
        /\ items'[Len(items) + 1] = o.r
    BY <1>0, <1>2, <1>4, AppendPositions
  <1>6. \A g \in Handlers \ {h} : handler[g].pending = <<>>
    BY <1>0, PendingOfHolder DEF IdentityInv
  <1>7. handler'[h].pending = new /\ \A g \in Handlers \ {h} : handler'[g].pending = <<>>
    BY <1>0, <1>2, <1>6 DEF HandlerStates
  <1>8. Offered = {old[i] : i \in DOMAIN old} /\ Offered' = {new[i] : i \in DOMAIN new}
    <2>1. Offered = OffersOf(h) /\ Offered' = OffersOf(h)'
      BY <1>6, <1>7, OfferedByHolder
    <2> QED
      BY <1>7, <2>1 DEF OffersOf
  <1> HIDE DEF new, old, o
  <1>9. Offered = Offered' \cup {o}
    BY <1>3, <1>8
  <1>10. LiveRecords' = LiveRecords
    <2>1. {items'[i] : i \in DOMAIN items'} = {items[i] : i \in DOMAIN items} \cup {o.r}
      BY <1>5
    <2> QED
      BY <1>2, <1>9, <2>1 DEF LiveRecords
  <1>11. PointsStand' /\ PointsMatch'
    BY <1>2, <1>10, PointsKept DEF StreamInv
  <1>12. OffersInterned'
    BY <1>2, <1>9 DEF StreamInv, OffersInterned
  <1>13. EndingCovered'
    BY <1>2 DEF StreamInv, EndingCovered
  <1>14. ASSUME NEW s \in Streams, o.fresh = s
         PROVE  HeldByPoint(s)'
    <2>1. o \in Offered /\ s # None
      BY <1>9, RecordsAssumption
    <2>2. o.r.w.kind = "point" /\ o.r.w.stream = s
      BY <1>14, <2>1 DEF StreamInv, OffersInterned
    <2>3. o.r \in LiveRecords
      BY <2>1, LiveRecordsAre
    <2>4. o.r.w.key \in PointKeys
      BY <1>0, <2>2, <2>3, LiveTyped, WireShape
    <2>5. points[o.r.w.key] # None /\ o.r.entity = Assigned(points[o.r.w.key].serial)
      BY <2>2, <2>3 DEF StreamInv, PointsStand
    <2>6. points[o.r.w.key].w = o.r.w
      BY <2>3, <2>4, <2>5 DEF StreamInv, PointsMatch
    <2>7. Assigned(points[o.r.w.key].serial) \notin PendingIds'
      BY <1>1, <2>5
    <2> QED
      BY <1>2, <2>2, <2>4, <2>5, <2>6, <2>7 DEF HeldByPoint
  <1>15. ASSUME NEW s \in Streams, streams'[s] # None
         PROVE  (HeldByPoint(s) \/ HeldByPass(s) \/ HeldByOffer(s))'
    <2>1. CASE HeldByPoint(s) \/ HeldByPass(s)
      BY <1>1, <1>2, <2>1 DEF HeldByPoint, HeldByPass
    <2>2. CASE HeldByOffer(s)
      BY <1>9, <1>14, <2>2 DEF HeldByOffer
    <2> QED
      BY <1>2, <1>15, <2>1, <2>2 DEF StreamInv, StreamsHeld
  <1> QED
    BY <1>11, <1>12, <1>13, <1>15 DEF StreamInv, StreamsHeld

(* A pop and a keep move a live record; the ending of a refused one carries  *)
(* its stream.                                                               *)
LEMMA StreamPump ==
    ASSUME IdentityInv, StreamInv, [Next]_vars, PumpPop \/ PumpKeep
    PROVE  StreamInv'
  <1>0. TypeOK /\ MutexDiscipline
    BY DEF IdentityInv
  <1>1. /\ UNCHANGED <<points, streams, handler>>
    BY DEF PumpPop, PumpKeep, ledgerVars
  <1>2. Offered' = Offered
    BY <1>1 DEF Offered, OffersOf
  <1>3. CASE PumpPop
    <2>1. /\ items \in Seq(Records) /\ items # <<>> /\ items' = Tail(items)
          /\ pump'.hand = Head(items) /\ pump.hand = None
          /\ UNCHANGED <<resident, pass>>
      BY <1>0, <1>3 DEF PumpPop, PopFront, MutexDiscipline, TypeOK, QueueTypeOK, ProcTypeOK,
           storeVars
    <2>2. /\ Head(items) = items[1] /\ 1 \in DOMAIN items
          /\ \A i \in DOMAIN Tail(items) : /\ i + 1 \in DOMAIN items
                                           /\ Tail(items)[i] = items[i + 1]
      BY <2>1, TailPositions
    <2>3. ASSUME NEW r \in LiveRecords'
          PROVE  r \in LiveRecords
      BY <1>2, <2>1, <2>2, LiveRecordsAre
    <2>4. EndingCovered'
      BY <1>1, <2>1 DEF StreamInv, EndingCovered
    <2> QED
      BY <1>1, <1>2, <2>1, <2>3, <2>4, StreamsStay
  <1>4. CASE PumpKeep
    <2>0. /\ pump.hand \in Records /\ pump.hand # None /\ pump'.hand = None
          /\ pass.step = "free" /\ UNCHANGED items
      BY <1>0, <1>4, NoneAssumption DEF PumpKeep, PumpAt, KeepRefused, KeepInserted, TypeOK,
           ProcTypeOK, queueVars
    <2>1. pump.hand \in LiveRecords
      BY <2>0, LiveRecordsAre
    <2>2. CASE KeepInserted("pump", pump.hand)
      <3>1. resident' = resident \cup {pump.hand} /\ pass'.step = "enforce"
        BY <2>2 DEF KeepInserted, NoPass
      <3>2. LiveRecords' \subseteq LiveRecords
        BY <1>2, <2>0, <2>1, <3>1, LiveRecordsAre
      <3>3. EndingCovered'
        BY <3>1 DEF EndingCovered
      <3> QED
        BY <1>1, <1>2, <2>0, <3>2, <3>3, StreamsStay
    <2>3. CASE KeepRefused("pump", pump.hand)
      <3>1. /\ UNCHANGED resident
            /\ pass'.entity = pump.hand.entity /\ pass'.stream = pump.hand.w.stream
        BY <2>3 DEF KeepRefused
      <3>2. LiveRecords' \subseteq LiveRecords
        BY <1>2, <2>0, <3>1, LiveRecordsAre
      <3>3. EndingCovered'
        <4>1. ASSUME NEW k \in PointKeys, points[k] # None,
                     Assigned(points[k].serial) = pump.hand.entity
              PROVE  points[k].w.stream = pump.hand.w.stream
          BY <2>1, <4>1 DEF StreamInv, PointsMatch
        <4> QED
          BY <1>1, <3>1, <4>1 DEF EndingCovered
      <3> QED
        BY <1>1, <1>2, <2>0, <3>2, <3>3, StreamsStay
    <2> QED
      BY <1>4, <2>2, <2>3 DEF PumpKeep
  <1> QED
    BY <1>3, <1>4

(* The eviction of a stream's last resident point carries the stream; that   *)
(* of any other point leaves one resident.                                   *)
LEMMA StreamEvict ==
    ASSUME IdentityInv, BooksInv, StreamInv, [Next]_vars, StoreStep, EvictOldest
    PROVE  StreamInv'
  <1>0. TypeOK /\ StoreTypeOK
    BY DEF IdentityInv, TypeOK
  <1>1. /\ UNCHANGED <<points, streams, handler, items, pump>>
        /\ pass.step = "enforce"
    BY <1>0, EvictionIs DEF StoreStep, ledgerVars, procVars, queueVars
  <1>2. Offered' = Offered
    BY <1>1 DEF Offered, OffersOf
  <1>3. PICK r \in resident :
           /\ resident' = resident \ {r}
           /\ pass'.entity = r.entity
           /\ pass'.stream = IF LastOfStream(r) THEN r.w.stream ELSE None
    BY <1>0, EvictionIs
  <1>4. r \in LiveRecords /\ LiveRecords' \subseteq LiveRecords
    BY <1>1, <1>2, <1>3, LiveRecordsAre
  <1>5. ASSUME NEW k \in PointKeys, points[k] # None, Assigned(points[k].serial) = r.entity
        PROVE  \/ points[k].w.stream = pass'.stream
               \/ \E x \in resident' : x.w.stream = points[k].w.stream
    <2>1. r.w = points[k].w /\ r.w.kind = "point"
      BY <1>4, <1>5 DEF StreamInv, PointsMatch
    <2>2. r.w.stream \in Streams
      BY <1>0, <1>4, <2>1, LiveTyped, WireShape
    <2>3. CASE LastOfStream(r)
      BY <1>3, <2>1, <2>3
    <2>4. CASE ~LastOfStream(r)
      <3> DEFINE mine == {x \in resident : x.w.stream = r.w.stream}
      <3>1. series[r.w.stream] = Cardinality(mine) /\ series[r.w.stream] # 1
        BY <2>1, <2>2, <2>4 DEF LastOfStream, BooksInv, StoreBooks, BooksBalance
      <3>2. mine # {r}
        BY <3>1, FS_Singleton
      <3>3. PICK x \in mine : x # r
        BY <3>2
      <3> QED
        BY <1>3, <2>1, <3>3
    <2> QED
      BY <2>3, <2>4
  <1>6. EndingCovered'
    BY <1>1, <1>3, <1>5 DEF EndingCovered
  <1> QED
    BY <1>1, <1>2, <1>4, <1>6, StreamsStay

(* While the hook has the ledger's mutex no export has offers.               *)
LEMMA NoOffers ==
    ASSUME MutexDiscipline, ledger_lock = None
    PROVE  Offered = {} /\ PendingIds = {}
  <1>1. \A h \in Handlers : handler[h].pending = <<>>
    BY RuntimeAssumption DEF MutexDiscipline
  <1>2. Offered = {}
    BY <1>1 DEF Offered, OffersOf
  <1> QED
    BY <1>2, OfferedIds

(* A forgotten point's stream is released next, or another resident point    *)
(* holds it.                                                                 *)
LEMMA StreamForget ==
    ASSUME IdentityInv, StreamInv, [Next]_vars, HookEvicted \/ HookRefusedForget
    PROVE  StreamInv'
  <1> DEFINE e == pass.entity
  <1>0. TypeOK /\ Standing /\ MutexDiscipline
    BY DEF IdentityInv
  <1>1. /\ EndingIds = {e} /\ ForgetAll({e})
    BY HookKeepsIdentity
  <1>2. /\ UNCHANGED <<streams, resident, handler, items, pump>> /\ ledger_lock = None
        /\ pass.step \in {"evicted", "refused"}
    BY DEF HookEvicted, HookRefusedForget, Forget, EvictedDelivered, RefusedForgotten,
         procVars, queueVars
  <1>3. /\ pass'.step \notin {"evicted", "refused"}
        /\ pass.stream # None =>
             pass'.stream = pass.stream /\ pass'.step \in {"released", "unlinked"}
    BY <1>0 DEF HookEvicted, HookRefusedForget, EvictedDelivered, RefusedForgotten,
         TypeOK, StoreTypeOK
  <1>4. Offered = {} /\ Offered' = {} /\ PendingIds' = {}
    <2>1. Offered = {}
      BY <1>0, <1>2, NoOffers
    <2>2. Offered' = Offered
      BY <1>2 DEF Offered, OffersOf
    <2> QED
      BY <2>1, <2>2, OfferedIds
  <1>5. LiveRecords' = LiveRecords /\ LiveIds' \cap {e} = {}
    <2>1. LiveRecords' = LiveRecords
      BY <1>2, <1>4 DEF LiveRecords
    <2>2. LiveIds' = LiveIds
      BY <1>2 DEF LiveIds, PendingIds, QueuedIds, InHandIds, ResidentIds
    <2> QED
      BY <1>0, <1>1, <2>1, <2>2 DEF Standing, EndingsGone
  <1> HIDE DEF e
  <1>6. PointsStand' /\ PointsMatch'
    BY <1>0, <1>1, <1>5, PointsForgotten, LiveTyped DEF StreamInv
  <1>7. OffersInterned' /\ EndingCovered'
    BY <1>3, <1>4 DEF OffersInterned, EndingCovered
  <1>8. ASSUME NEW s \in Streams, streams[s] # None
        PROVE  HeldByPoint(s)' \/ HeldByPass(s)'
    <2>1. PICK k \in PointKeys : points[k] # None /\ points[k].w.stream = s
      <3>1. ~HeldByPass(s) /\ ~HeldByOffer(s)
        BY <1>2, <1>4 DEF HeldByPass, HeldByOffer
      <3> QED
        BY <1>8, <3>1 DEF StreamInv, StreamsHeld, HeldByPoint
    <2>2. CASE Assigned(points[k].serial) # e
      <3>1. points'[k] = points[k]
        BY <1>0, <1>1, <2>1, <2>2, ForgottenPoints
      <3> QED
        BY <1>4, <2>1, <3>1 DEF HeldByPoint
    <2>3. CASE Assigned(points[k].serial) = e
      <3>1. \/ points[k].w.stream = pass.stream
            \/ \E r \in resident : r.w.stream = points[k].w.stream
        BY <1>2, <2>1, <2>3 DEF StreamInv, EndingCovered, e
      <3>2. CASE pass.stream = s
        BY <1>3, <3>2, RecordsAssumption DEF HeldByPass
      <3>3. CASE \E r \in resident : r.w.stream = s
        <4>1. PICK r \in resident : r.w.stream = s
          BY <3>3
        <4>2. r \in LiveRecords /\ r.entity \in LiveIds
          BY LiveRecordsAre, LiveNamed
        <4>3. r.w.kind = "point" /\ r.w.key \in PointKeys
          BY <1>0, <4>1, <4>2, LiveTyped, WireShape, RecordsAssumption
        <4>4. points[r.w.key] # None /\ r.entity = Assigned(points[r.w.key].serial)
          BY <4>2, <4>3 DEF StreamInv, PointsStand
        <4>5. points[r.w.key].w = r.w
          BY <4>2, <4>3, <4>4 DEF StreamInv, PointsMatch
        <4>6. r.entity # e
          BY <1>0, <1>1, <4>2 DEF Standing, EndingsGone
        <4>7. points'[r.w.key] = points[r.w.key]
          BY <1>0, <1>1, <4>3, <4>4, <4>6, ForgottenPoints
        <4> QED
          BY <1>4, <4>1, <4>3, <4>4, <4>5, <4>7 DEF HeldByPoint
      <3> QED
        BY <2>1, <3>1, <3>2, <3>3
    <2> QED
      BY <2>2, <2>3
  <1> QED
    BY <1>2, <1>6, <1>7, <1>8 DEF StreamInv, StreamsHeld

(* A release takes exactly the stream it is owed for.                        *)
LEMMA StreamRelease ==
    ASSUME IdentityInv, StreamInv, [Next]_vars, HookStreamReleased \/ HookRefusedRelease
    PROVE  StreamInv'
  <1>0. TypeOK /\ MutexDiscipline
    BY DEF IdentityInv
  <1>1. /\ UNCHANGED <<points, resident, handler, items, pump>> /\ ledger_lock = None
        /\ streams' = [s \in Streams |-> IF s \in {pass.stream} THEN None ELSE streams[s]]
    BY DEF HookStreamReleased, HookRefusedRelease, ReleaseStream, ReleaseAll,
         ReleasedDelivered, RefusedReleased, procVars, queueVars
  <1>2. pass'.step \in {"enforce", "done"}
    BY <1>0 DEF HookStreamReleased, HookRefusedRelease, ReleasedDelivered, RefusedReleased,
         TypeOK, StoreTypeOK
  <1>3. Offered = {} /\ Offered' = {} /\ PendingIds' = {}
    <2>1. Offered = {}
      BY <1>0, <1>1, NoOffers
    <2>2. Offered' = Offered
      BY <1>1 DEF Offered, OffersOf
    <2> QED
      BY <2>1, <2>2, OfferedIds
  <1>4. LiveRecords' = LiveRecords
    BY <1>1, <1>3 DEF LiveRecords
  <1>5. PointsStand' /\ PointsMatch'
    BY <1>1, <1>4, PointsKept DEF StreamInv
  <1>6. OffersInterned' /\ EndingCovered'
    BY <1>2, <1>3 DEF OffersInterned, EndingCovered
  <1>7. ASSUME NEW s \in Streams, streams'[s] # None
        PROVE  HeldByPoint(s)'
    <2>1. streams[s] # None /\ s # pass.stream
      BY <1>1, <1>7
    <2>2. HeldByPoint(s)
      BY <1>3, <2>1 DEF StreamInv, StreamsHeld, HeldByPass, HeldByOffer
    <2> QED
      BY <1>1, <1>3, <2>2 DEF HeldByPoint
  <1> QED
    BY <1>5, <1>6, <1>7 DEF StreamInv, StreamsHeld

(* The steps that move no record and end no identity.                        *)
LEMMA StreamThreads ==
    ASSUME IdentityInv, StreamInv, [Next]_vars,
           \/ PumpLoop \/ PumpPopNothing \/ PumpKept \/ (StoreStep /\ EndPass)
           \/ RetentionWake \/ RetentionStep
           \/ StopRequested \/ DeadlinePasses \/ StopStep \/ Finished \/ UNCHANGED vars
    PROVE  StreamInv'
  <1>0. TypeOK
    BY DEF IdentityInv
  <1>1. CASE \/ PumpLoop \/ PumpPopNothing \/ RetentionWake \/ RetentionExit
             \/ StopRequested \/ DeadlinePasses \/ StopStep \/ Finished \/ UNCHANGED vars
    <2>1. /\ UNCHANGED <<handler, items, resident, points, streams, pass>>
          /\ pump'.hand = pump.hand
      BY <1>0, <1>1 DEF PumpLoop, PumpPopNothing, PumpGoes, RetentionWake, RetentionExit,
           StopRequested, DeadlinePasses, StopStep, DeadlineSet, ServeEnds, JoinPump,
           SignalRetention, CountDropped, Finished, vars, procVars, ledgerVars, queueVars,
           storeVars, TypeOK, ProcTypeOK
    <2> QED
      BY <2>1, StreamQuiet
  <1>2. CASE PumpKept \/ (StoreStep /\ EndPass) \/ RetentionTick \/ RetentionDone
    <2>1. /\ UNCHANGED <<handler, items, resident, points, streams>>
          /\ pump'.hand = pump.hand
      BY <1>0, <1>2 DEF PumpKept, StoreStep, EndPass, RetentionTick, RetentionDone, Unlock,
           RetentionPass, procVars, ledgerVars, queueVars, TypeOK, ProcTypeOK
    <2>2. pass.step \in {"free", "enforce", "done"}
      BY <1>2 DEF PumpKept, EndPass, RetentionTick, RetentionDone, Unlock, RetentionPass
    <2>3. pass'.step \in {"free", "enforce", "done"}
      <3>1. CASE RetentionTick
        BY <3>1 DEF RetentionTick, RetentionPass, NoPass
      <3>2. CASE PumpKept \/ RetentionDone
        BY <3>2 DEF PumpKept, RetentionDone, Unlock, NoPass
      <3>3. CASE StoreStep /\ EndPass
        BY <1>0, <3>3 DEF EndPass, TypeOK, StoreTypeOK
      <3> QED
        BY <1>2, <3>1, <3>2, <3>3
    <2> QED
      BY <2>1, <2>2, <2>3, StreamQuiet
  <1> QED
    BY <1>1, <1>2 DEF RetentionStep

(* Every step of every thread keeps the streams' invariant.                  *)
LEMMA StreamNext == IdentityInv /\ BooksInv /\ StreamInv /\ [Next]_vars => StreamInv'
  <1> SUFFICES ASSUME IdentityInv, BooksInv, StreamInv, [Next]_vars PROVE StreamInv'
    OBVIOUS
  <1>1. ASSUME NEW h \in Handlers, Arrive(h) \/ BodyFails(h) \/ HandlerStep(h)
        PROVE  StreamInv'
    <2>1. CASE \/ Arrive(h) \/ BodyFails(h) \/ Stamp(h) \/ Gate(h) \/ LockLedger(h)
               \/ IngestRefused(h) \/ Measure(h) \/ Respond(h)
      <3>1. \A g \in Handlers : handler'[g].pending = handler[g].pending
        BY <2>1, PendingQuiet DEF IdentityInv
      <3>2. UNCHANGED <<items, resident, points, streams, pump, pass>>
        BY <2>1 DEF Arrive, BodyFails, Stamp, Gate, LockLedger, IngestRefused, Consume,
             Measure, Respond, ledgerVars, queueVars, storeVars
      <3> QED
        BY <3>1, <3>2, StreamQuiet
    <2> QED
      BY <1>1, <2>1, StreamIngestOther, StreamIngestPoint, StreamStanding, StreamSaturated,
         StreamOffer DEF HandlerStep
  <1>2. CASE PumpStep
    BY <1>2, StreamThreads, StreamPump DEF PumpStep
  <1>3. CASE MutexStep
    BY <1>3, StreamThreads, StreamEvict, StreamForget, StreamRelease DEF MutexStep, StoreStep
  <1>4. CASE \/ RetentionWake \/ RetentionStep \/ StopRequested \/ DeadlinePasses
             \/ StopStep \/ Finished \/ UNCHANGED vars
    BY <1>4, StreamThreads
  <1> QED
    BY <1>1, <1>2, <1>3, <1>4 DEF Next

(* Nothing is interned at start.                                             *)
LEMMA StreamInit == Init => StreamInv
  <1> SUFFICES ASSUME Init PROVE StreamInv
    OBVIOUS
  <1>1. Offered = {}
    BY DEF Init, Offered, OffersOf, Idle
  <1>2. LiveRecords = {}
    BY <1>1 DEF Init, LiveRecords, QueueInit, StoreInit
  <1>3. /\ \A k \in PointKeys : points[k] = None
        /\ \A s \in Streams : streams[s] = None
        /\ pass.step = "free"
    BY DEF Init, LedgerInit, StoreInit, NoPass
  <1> QED
    BY <1>1, <1>2, <1>3 DEF StreamInv, PointsStand, PointsMatch, OffersInterned,
         EndingCovered, StreamsHeld

(* The streams' invariant holds of every reachable state.                    *)
THEOREM StreamsCorrect == Spec => []StreamInv
  BY StreamInit, StreamNext, IdentityCorrect, BooksCorrect, PTL DEF Spec

(* No interned stream outlives its points: it has a standing point, or its   *)
(* release is the hook's next call.                                          *)
THEOREM NeverStranded == Spec => []NoStrandedStream
  <1>1. IdentityInv /\ StreamInv => NoStrandedStream
    <2> SUFFICES ASSUME IdentityInv, StreamInv, NEW s \in Streams, streams[s] # None,
                        ~HeldByPass(s)
                 PROVE  \E k \in PointKeys : points[k] # None /\ points[k].w.stream = s
      BY DEF NoStrandedStream, HeldByPass
    <2>1. CASE HeldByPoint(s)
      BY <2>1 DEF HeldByPoint
    <2>2. CASE HeldByOffer(s)
      <3>1. PICK o \in Offered : o.fresh = s
        BY <2>2 DEF HeldByOffer
      <3>2. o.r.w.kind = "point" /\ o.r.w.stream = s /\ o.r \in LiveRecords
        BY <3>1, LiveRecordsAre, RecordsAssumption DEF StreamInv, OffersInterned
      <3>3. o.r.w.key \in PointKeys
        BY <3>2, LiveTyped, WireShape DEF IdentityInv
      <3>4. points[o.r.w.key] # None /\ points[o.r.w.key].w = o.r.w
        BY <3>2, <3>3 DEF StreamInv, PointsStand, PointsMatch
      <3> QED
        BY <3>2, <3>3, <3>4
    <2> QED
      BY <2>1, <2>2 DEF StreamInv, StreamsHeld
  <1> QED
    BY <1>1, StreamsCorrect, IdentityCorrect, PTL
=============================================================================
