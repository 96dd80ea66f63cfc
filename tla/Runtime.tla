------------------------------- MODULE Runtime -------------------------------
(***************************************************************************)
(* The composed core (crates/server/src/runtime.rs, lib.rs and             *)
(* crates/telemetry-ingestion/src/pipeline.rs): export handlers admit      *)
(* through the ledger into the hand-off queue, the pump thread keeps what  *)
(* it pops, the retention thread expires what is old, the store's hook     *)
(* ends identities in the ledger, and a stop drains the whole.             *)
(*                                                                         *)
(* Three mutexes order these threads: the ledger's (`ledger_lock`, held by *)
(* a handler for its whole export, by the hook for one call), the store's  *)
(* (`pass.by`), and the queue's (each queue action is one critical         *)
(* section).                                                               *)
(***************************************************************************)
EXTENDS AdmissionLedger, HandOffQueue, MemoryStore, FiniteSetsExt

CONSTANTS
    Handlers,     \* concurrent export requests in flight
    Exports,      \* what a client may post: [fate, records]
    Jumps,        \* how far the wall clock moves between two readings
    MaxExports,   \* bound: exports posted in one behaviour
    MaxTicks,     \* bound: retention ticks in one behaviour
    MaxStops      \* bound: 1 when the behaviour may include the stop, else 0

(* The export-level gates that need no state: ok, or the signal that refuses *)
(* the payload (over its cap, malformed, too many records).                  *)
Fates == {"ok", "refused"}

(* The pump's outcomes, by name.                                             *)
Outcomes == {"kept"} \cup Reasons

ASSUME RuntimeAssumption ==
    /\ None \notin Handlers
    /\ None \notin Outcomes
    /\ Exports \subseteq [fate: Fates, records: Seq(Wires)]
    /\ Jumps \subseteq Nat \ {0}
    /\ MaxExports \in Nat /\ MaxTicks \in Nat /\ MaxStops \in {0, 1}

VARIABLES
    clock,        \* the last admission time handed out
    arrived,      \* exports posted so far
    ticks,        \* retention ticks so far
    handler,      \* each handler's position
    ledger_lock,  \* the handler holding the ledger's mutex, or None
    pump,         \* the pump thread
    retention,    \* the retention thread
    draining,     \* the pipeline's draining flag
    deadline,     \* the drain deadline
    main,         \* the serving task
    cut,          \* the serve loop ended with requests still in flight
    summary,      \* the pump's counters and the drop count
    offered       \* records ever handed to the queue

procVars == <<clock, arrived, ticks, handler, ledger_lock, pump, retention>>
drainVars == <<draining, deadline, main, cut>>
countVars == <<summary, offered>>
vars == <<ledgerVars, queueVars, storeVars, procVars, drainVars, countVars>>

PendingOffers == [r: Records, fresh: Streams \cup {None}]
HandlerPcs == {"idle", "body", "stamped", "decoded", "admit", "offer"}
Idle == [pc |-> "idle", now |-> 0, fate |-> "ok", todo |-> <<>>, pending |-> <<>>]

Init ==
    /\ LedgerInit /\ QueueInit /\ StoreInit
    /\ clock = 0 /\ arrived = 0 /\ ticks = 0
    /\ handler = [h \in Handlers |-> Idle]
    /\ ledger_lock = None
    /\ pump = [pc |-> "loop", hand |-> None, outcome |-> None]
    /\ retention = [pc |-> "wait", now |-> 0]
    /\ draining = FALSE /\ deadline = "unset" /\ main = "serving" /\ cut = FALSE
    /\ summary = [o \in Outcomes \cup {"dropped"} |-> 0]
    /\ offered = 0

HandlerStates == [pc: HandlerPcs, now: Nat, fate: Fates,
                  todo: Seq(Wires), pending: Seq(PendingOffers)]

ProcTypeOK ==
    /\ clock \in Nat /\ arrived \in Nat /\ ticks \in Nat
    /\ handler \in [Handlers -> HandlerStates]
    /\ ledger_lock \in Handlers \cup {None}
    /\ pump \in [pc: {"loop", "idle_pop", "drain_pop", "drain_wait", "keep",
                      "keeping", "exited"},
                 hand: Records \cup {None}, outcome: Outcomes \cup {None}]
    /\ pump.pc = "keep" => pump.hand \in Records
    /\ retention \in [pc: {"wait", "tick", "passing", "exited"}, now: Nat]

DrainTypeOK ==
    /\ draining \in BOOLEAN /\ cut \in BOOLEAN
    /\ deadline \in {"unset", "set", "expired"}
    /\ main \in {"serving", "flagged", "drained", "joining", "stopping",
                 "signalled", "done"}
    /\ summary \in [Outcomes \cup {"dropped"} -> Nat]
    /\ offered \in Nat

(* Every variable has its type, and a pump that goes to keep holds a record. *)
TypeOK == LedgerTypeOK /\ QueueTypeOK /\ StoreTypeOK /\ ProcTypeOK /\ DrainTypeOK

-----------------------------------------------------------------------------
(* An export request.  The transport answers a draining session before it    *)
(* reads the body; the admission time is read once the body is in, before    *)
(* the pipeline's own gates.                                                 *)

Arrive(h) ==
    /\ handler[h].pc = "idle"
    /\ ~draining
    /\ arrived < MaxExports
    /\ arrived' = arrived + 1
    /\ \E x \in Exports :
         handler' = [handler EXCEPT ![h] =
                       [Idle EXCEPT !.pc = "body", !.fate = x.fate, !.todo = x.records]]
    /\ UNCHANGED <<ledgerVars, queueVars, storeVars, clock, ticks, ledger_lock,
                   pump, retention, drainVars, countVars>>

(* The body does not arrive: disconnect, read deadline, over-length.         *)
BodyFails(h) ==
    /\ handler[h].pc = "body"
    /\ handler' = [handler EXCEPT ![h] = Idle]
    /\ UNCHANGED <<ledgerVars, queueVars, storeVars, clock, arrived, ticks,
                   ledger_lock, pump, retention, drainVars, countVars>>

(* The admission clock: the wall reading, or one past the last handed out,   *)
(* whichever is later -- so any later value.                                 *)
Stamp(h) ==
    /\ handler[h].pc = "body"
    /\ \E j \in Jumps :
         /\ clock' = clock + j
         /\ handler' = [handler EXCEPT ![h].pc = "stamped", ![h].now = clock + j]
    /\ UNCHANGED <<ledgerVars, queueVars, storeVars, arrived, ticks, ledger_lock,
                   pump, retention, drainVars, countVars>>

(* The export-level gates, in one look: draining, then the payload's own.    *)
Gate(h) ==
    /\ handler[h].pc = "stamped"
    /\ handler' = [handler EXCEPT ![h] =
                     IF draining \/ handler[h].fate # "ok" THEN Idle
                     ELSE [handler[h] EXCEPT !.pc = "decoded"]]
    /\ UNCHANGED <<ledgerVars, queueVars, storeVars, clock, arrived, ticks,
                   ledger_lock, pump, retention, drainVars, countVars>>

LockLedger(h) ==
    /\ handler[h].pc = "decoded"
    /\ ledger_lock = None
    /\ ledger_lock' = h
    /\ handler' = [handler EXCEPT ![h].pc = "admit"]
    /\ UNCHANGED <<ledgerVars, queueVars, storeVars, clock, arrived, ticks,
                   pump, retention, drainVars, countVars>>

-----------------------------------------------------------------------------
(* The export's records, one by one, under the ledger's mutex.               *)

(* A freshly admitted record joins the offer-set, with the intern it made.   *)
Pend(h, entity, fresh) ==
    Append(handler[h].pending,
           [r |-> [entity |-> entity, at |-> handler[h].now, w |-> Head(handler[h].todo)],
            fresh |-> fresh])

(* The record is consumed, and `offers` is the export's offer-set now.       *)
Consume(h, offers) ==
    /\ handler' = [handler EXCEPT ![h].todo = Tail(handler[h].todo),
                                  ![h].pending = offers]
    /\ UNCHANGED <<queueVars, storeVars, clock, arrived, ticks, ledger_lock,
                   pump, retention, drainVars, countVars>>

Admitting(h) == handler[h].pc = "admit" /\ handler[h].todo # <<>>

IngestRefused(h) ==
    /\ Admitting(h)
    /\ Head(handler[h].todo).gate # "pass"
    /\ UNCHANGED ledgerVars
    /\ Consume(h, handler[h].pending)

IngestUnnamed(h) ==
    /\ Admitting(h)
    /\ AdmitUnnamed(Head(handler[h].todo))
    /\ Consume(h, Pend(h, Assigned(next_serial + 1), None))

IngestSpan(h) ==
    /\ Admitting(h)
    /\ AdmitSpan(Head(handler[h].todo))
    /\ Consume(h, Pend(h, Natural(Head(handler[h].todo).key), None))

IngestPoint(h) ==
    /\ Admitting(h)
    /\ AdmitPoint(Head(handler[h].todo))
    /\ LET w == Head(handler[h].todo)
       IN  Consume(h, Pend(h, Assigned(next_serial + 1),
                                IF FreshIntern(w) THEN w.stream ELSE None))

(* Collapses and conflicts queue nothing.                                    *)
IngestStanding(h) ==
    /\ Admitting(h)
    /\ LET w == Head(handler[h].todo)
       IN  CollapseSpan(w) \/ ConflictSpan(w) \/ CollapsePoint(w) \/ ConflictPoint(w)
    /\ Consume(h, handler[h].pending)

-----------------------------------------------------------------------------
(* The export-atomic hand-off.                                               *)

OfferBytes(offers) ==
    SumFunction([i \in DOMAIN offers |-> QueuedBytes(offers[i].r.w)])
Admitted(h) == handler[h].pc = "admit" /\ handler[h].todo = <<>>
OffersOf(h) == {handler[h].pending[i] : i \in DOMAIN handler[h].pending}

(* Fault: only the record that did not fit is undone.                        *)
SaturatedUndoesLast(h) ==
    /\ Admitted(h)
    /\ Saturates(OfferBytes(handler[h].pending))
    /\ LET o == handler[h].pending[Len(handler[h].pending)]
       IN  ForgetAll({o.r.entity}) /\ ReleaseAll({o.fresh})
    /\ UNCHANGED <<next_serial, anomalies>>
    /\ handler' = [handler EXCEPT ![h] = Idle]
    /\ ledger_lock' = None
    /\ UNCHANGED <<queueVars, storeVars, clock, arrived, ticks, pump, retention,
                   drainVars, countVars>>

(* The offer-set does not fit: everything this export created is undone and  *)
(* the retryable signal is returned.                                         *)
Saturated(h) ==
    /\ Admitted(h)
    /\ Saturates(OfferBytes(handler[h].pending))
    /\ ForgetAll({o.r.entity : o \in OffersOf(h)})
    /\ ReleaseAll({o.fresh : o \in OffersOf(h)})
    /\ UNCHANGED <<next_serial, anomalies>>
    /\ handler' = [handler EXCEPT ![h] = Idle]
    /\ ledger_lock' = None
    /\ UNCHANGED <<queueVars, storeVars, clock, arrived, ticks, pump, retention,
                   drainVars, countVars>>

Measure(h) ==
    /\ Admitted(h)
    /\ ~Saturates(OfferBytes(handler[h].pending))
    /\ handler' = [handler EXCEPT ![h].pc = "offer"]
    /\ UNCHANGED <<ledgerVars, queueVars, storeVars, clock, arrived, ticks,
                   ledger_lock, pump, retention, drainVars, countVars>>

OfferNext(h) ==
    /\ handler[h].pc = "offer"
    /\ handler[h].pending # <<>>
    /\ Offer(Head(handler[h].pending).r)
    /\ offered' = offered + 1
    /\ handler' = [handler EXCEPT ![h].pending = Tail(@)]
    /\ UNCHANGED <<ledgerVars, storeVars, clock, arrived, ticks, ledger_lock,
                   pump, retention, drainVars, summary>>

Respond(h) ==
    /\ handler[h].pc = "offer"
    /\ handler[h].pending = <<>>
    /\ ledger_lock' = None
    /\ handler' = [handler EXCEPT ![h] = Idle]
    /\ UNCHANGED <<ledgerVars, queueVars, storeVars, clock, arrived, ticks,
                   pump, retention, drainVars, countVars>>

-----------------------------------------------------------------------------
(* The pump thread.                                                          *)

PumpAt(pc) == pump.pc = pc
PumpGoes(pc) == pump' = [pump EXCEPT !.pc = pc]

(* Fault: an idle pump ends.                                                 *)
PumpLoopEndsIdle ==
    /\ PumpAt("loop")
    /\ PumpGoes(IF items = <<>> \/ deadline = "expired" THEN "exited"
                ELSE IF deadline = "set" THEN "drain_pop" ELSE "idle_pop")
    /\ UNCHANGED <<ledgerVars, queueVars, storeVars, clock, arrived, ticks, handler,
                   ledger_lock, retention, drainVars, countVars>>

(* Each iteration reads the drain state first, and waits without it.         *)
PumpLoop ==
    /\ PumpAt("loop")
    /\ PumpGoes(CASE deadline = "unset"   -> "idle_pop"
                  [] deadline = "set"     -> "drain_pop"
                  [] deadline = "expired" -> "exited")
    /\ UNCHANGED <<ledgerVars, queueVars, storeVars, clock, arrived, ticks, handler,
                   ledger_lock, retention, drainVars, countVars>>

(* Fault: the popped record is dropped.                                      *)
PumpPopLosesRecord ==
    /\ pump.pc \in {"idle_pop", "drain_pop", "drain_wait"}
    /\ PopFront
    /\ PumpGoes("keep")
    /\ UNCHANGED <<ledgerVars, storeVars, clock, arrived, ticks, handler, ledger_lock,
                   retention, drainVars, countVars>>

(* A pop that finds a record, in the idle poll or in either drain wait.      *)
PumpPop ==
    /\ pump.pc \in {"idle_pop", "drain_pop", "drain_wait"}
    /\ PopFront
    /\ pump' = [pump EXCEPT !.pc = "keep", !.hand = Head(items)]
    /\ UNCHANGED <<ledgerVars, storeVars, clock, arrived, ticks, handler, ledger_lock,
                   retention, drainVars, countVars>>

(* The idle poll ends without work; the non-blocking drain pop finds nothing *)
(* and waits out the remaining deadline; that wait runs out.                 *)
PumpPopNothing ==
    /\ items = <<>>
    /\ \/ PumpAt("idle_pop") /\ PumpGoes("loop")
       \/ PumpAt("drain_pop") /\ PumpGoes("drain_wait")
       \/ PumpAt("drain_wait") /\ deadline = "expired" /\ PumpGoes("exited")
    /\ UNCHANGED <<ledgerVars, queueVars, storeVars, clock, arrived, ticks, handler,
                   ledger_lock, retention, drainVars, countVars>>

(* keep_record: the store's mutex, then the keep.                            *)
PumpKeep ==
    /\ PumpAt("keep")
    /\ \/ KeepRefused("pump", pump.hand)
       \/ KeepInserted("pump", pump.hand)
    /\ pump' = [pc |-> "keeping", hand |-> None,
                outcome |-> IF RefusalOf(pump.hand) = None THEN "kept"
                            ELSE RefusalOf(pump.hand)]
    /\ UNCHANGED <<ledgerVars, queueVars, clock, arrived, ticks, handler, ledger_lock,
                   retention, drainVars, countVars>>

(* The keep returned: the mutex is free and the outcome is counted by name.  *)
PumpKept ==
    /\ PumpAt("keeping") /\ pass.by = "pump"
    /\ Unlock
    /\ summary' = [summary EXCEPT ![pump.outcome] = @ + 1]
    /\ pump' = [pump EXCEPT !.pc = "loop", !.outcome = None]
    /\ UNCHANGED <<ledgerVars, queueVars, clock, arrived, ticks, handler, ledger_lock,
                   retention, drainVars, offered>>

-----------------------------------------------------------------------------
(* The operation under the store's mutex, whichever thread runs it: one      *)
(* eviction, or one hook call, which takes the ledger's mutex for itself.    *)

StoreStep ==
    /\ EvictOldest \/ EndPass
    /\ UNCHANGED <<ledgerVars, queueVars, procVars, drainVars, countVars>>

HookEvicted ==
    /\ ledger_lock = None
    /\ EvictedDelivered
    /\ Forget(pass.entity)
    /\ UNCHANGED <<queueVars, procVars, drainVars, countVars>>

HookStreamReleased ==
    /\ ledger_lock = None
    /\ ReleasedDelivered
    /\ ReleaseStream(pass.stream)
    /\ UNCHANGED <<queueVars, procVars, drainVars, countVars>>

HookRefusedForget ==
    /\ ledger_lock = None
    /\ RefusedForgotten
    /\ Forget(pass.entity)
    /\ UNCHANGED <<queueVars, procVars, drainVars, countVars>>

HookRefusedRelease ==
    /\ ledger_lock = None
    /\ RefusedReleased
    /\ ReleaseStream(pass.stream)
    /\ UNCHANGED <<queueVars, procVars, drainVars, countVars>>

-----------------------------------------------------------------------------
(* The retention thread: the clock is read before the store's mutex.         *)

RetentionWake ==
    /\ retention.pc = "wait" /\ main # "signalled"
    /\ ticks < MaxTicks
    /\ ticks' = ticks + 1
    /\ \E j \in Jumps :
         /\ clock' = clock + j
         /\ retention' = [pc |-> "tick", now |-> clock + j]
    /\ UNCHANGED <<ledgerVars, queueVars, storeVars, arrived, handler, ledger_lock,
                   pump, drainVars, countVars>>

RetentionTick ==
    /\ retention.pc = "tick"
    /\ RetentionPass("retention", retention.now)
    /\ retention' = [retention EXCEPT !.pc = "passing"]
    /\ UNCHANGED <<ledgerVars, queueVars, clock, arrived, ticks, handler, ledger_lock,
                   pump, drainVars, countVars>>

RetentionDone ==
    /\ retention.pc = "passing" /\ pass.by = "retention"
    /\ Unlock
    /\ retention' = [pc |-> "wait", now |-> 0]
    /\ UNCHANGED <<ledgerVars, queueVars, clock, arrived, ticks, handler, ledger_lock,
                   pump, drainVars, countVars>>

RetentionExit ==
    /\ retention.pc = "wait" /\ main = "signalled"
    /\ retention' = [retention EXCEPT !.pc = "exited"]
    /\ UNCHANGED <<ledgerVars, queueVars, storeVars, clock, arrived, ticks, handler,
                   ledger_lock, pump, drainVars, countVars>>

-----------------------------------------------------------------------------
(* The stop: the draining flag, then the deadline; the serve loop ends when  *)
(* the requests have, or at the deadline; shutdown joins the pump, stops and *)
(* joins the retention thread, and counts what is still queued.              *)

InFlight == {h \in Handlers : handler[h].pc # "idle"}

StopRequested ==
    /\ main = "serving" /\ MaxStops = 1
    /\ main' = "flagged" /\ draining' = TRUE
    /\ UNCHANGED <<ledgerVars, queueVars, storeVars, procVars, deadline, cut, countVars>>

(* Fault: the drain deadline is never set.                                   *)
DeadlineForgotten ==
    /\ main = "flagged"
    /\ main' = "drained"
    /\ UNCHANGED <<ledgerVars, queueVars, storeVars, procVars, draining, deadline, cut,
                   countVars>>

DeadlineSet ==
    /\ main = "flagged"
    /\ main' = "drained" /\ deadline' = "set"
    /\ UNCHANGED <<ledgerVars, queueVars, storeVars, procVars, draining, cut, countVars>>

DeadlinePasses ==
    /\ deadline = "set"
    /\ deadline' = "expired"
    /\ UNCHANGED <<ledgerVars, queueVars, storeVars, procVars, draining, main, cut, countVars>>

ServeEnds ==
    /\ main = "drained"
    /\ InFlight = {} \/ deadline = "expired"
    /\ main' = "joining" /\ cut' = (InFlight # {})
    /\ UNCHANGED <<ledgerVars, queueVars, storeVars, procVars, draining, deadline, countVars>>

(* Fault: the shutdown does not wait for the pump.                           *)
DetachPump ==
    /\ main = "joining"
    /\ main' = "stopping"
    /\ UNCHANGED <<ledgerVars, queueVars, storeVars, procVars, draining, deadline, cut, countVars>>

JoinPump ==
    /\ main = "joining" /\ PumpAt("exited")
    /\ main' = "stopping"
    /\ UNCHANGED <<ledgerVars, queueVars, storeVars, procVars, draining, deadline, cut, countVars>>

(* The stop flag's mutex is the retention thread's between its waits.        *)
SignalRetention ==
    /\ main = "stopping" /\ retention.pc = "wait"
    /\ main' = "signalled"
    /\ UNCHANGED <<ledgerVars, queueVars, storeVars, procVars, draining, deadline, cut, countVars>>

CountDropped ==
    /\ main = "signalled" /\ retention.pc = "exited"
    /\ main' = "done"
    /\ summary' = [summary EXCEPT !["dropped"] = @ + Len(items)]
    /\ UNCHANGED <<ledgerVars, queueVars, storeVars, procVars, draining, deadline, cut, offered>>

(* The session is over: nothing is left to happen.                           *)
Finished ==
    /\ main = "done" /\ InFlight = {}
    /\ UNCHANGED vars

-----------------------------------------------------------------------------
HandlerStep(h) ==
    \/ Stamp(h) \/ Gate(h) \/ LockLedger(h)
    \/ IngestRefused(h) \/ IngestUnnamed(h) \/ IngestSpan(h) \/ IngestPoint(h)
    \/ IngestStanding(h)
    \/ Saturated(h) \/ Measure(h) \/ OfferNext(h) \/ Respond(h)

PumpStep == PumpLoop \/ PumpPop \/ PumpPopNothing \/ PumpKeep \/ PumpKept

MutexStep == StoreStep \/ HookEvicted \/ HookStreamReleased \/ HookRefusedForget
             \/ HookRefusedRelease

RetentionStep == RetentionTick \/ RetentionDone \/ RetentionExit

StopStep == DeadlineSet \/ ServeEnds \/ JoinPump \/ SignalRetention \/ CountDropped

Next ==
    \/ \E h \in Handlers : Arrive(h) \/ BodyFails(h) \/ HandlerStep(h)
    \/ PumpStep \/ MutexStep
    \/ RetentionWake \/ RetentionStep
    \/ StopRequested \/ DeadlinePasses \/ StopStep
    \/ Finished

Spec == Init /\ [][Next]_vars

(* Threads that can run do run, an expired timer fires, and a body either    *)
(* arrives or is given up; nothing makes a client send or an operator stop.  *)
Fairness ==
    /\ \A h \in Handlers : WF_vars(HandlerStep(h))
    /\ WF_vars(PumpStep) /\ WF_vars(MutexStep) /\ WF_vars(RetentionStep)
    /\ WF_vars(DeadlinePasses) /\ WF_vars(StopStep)

FairSpec == Spec /\ Fairness

-----------------------------------------------------------------------------
(* Where a record may be between its admission and the end of its identity:  *)
(* in its export's offer-set, queued, in the pump's hand, or resident.       *)
PendingIds == UNION {{handler[h].pending[i].r.entity : i \in DOMAIN handler[h].pending} :
                     h \in Handlers}
QueuedIds == {items[i].entity : i \in DOMAIN items}
InHandIds == IF pump.hand = None THEN {} ELSE {pump.hand.entity}
ResidentIds == {r.entity : r \in resident}
LiveIds == PendingIds \cup QueuedIds \cup InHandIds \cup ResidentIds

(* Gone from the store (or refused by it), and its identity not yet ended:   *)
(* the hook has still to take the ledger's mutex.                            *)
EndingIds == IF pass.step \in {"evicted", "refused"} THEN {pass.entity} ELSE {}

(* No place holds an identity twice, and no two places hold the same one.    *)
NoRepeats ==
    /\ \A h \in Handlers : \A i, j \in DOMAIN handler[h].pending :
         handler[h].pending[i].r.entity = handler[h].pending[j].r.entity => i = j
    /\ \A i, j \in DOMAIN items : items[i].entity = items[j].entity => i = j
    /\ \A r, s \in resident : r.entity = s.entity => r = s
PlacesApart ==
    /\ PendingIds \cap (QueuedIds \cup InHandIds \cup ResidentIds) = {}
    /\ QueuedIds \cap (InHandIds \cup ResidentIds) = {}
    /\ InHandIds \cap ResidentIds = {}

(* An entity id names one record: no two records in flight or resident share *)
(* one, whichever of the four hand-overs they stand in.  "An entity id names *)
(* exactly one resident record" is what lets pop_oldest pick a single shelf. *)
OneRecordPerEntity == NoRepeats /\ PlacesApart

(* Who may hold records between two steps of another thread.                 *)
MutexDiscipline ==
    /\ \A h \in Handlers : handler[h].pc \in {"admit", "offer"} <=> ledger_lock = h
    /\ \A h \in Handlers : handler[h].pending # <<>> => ledger_lock = h
    /\ pump.hand # None <=> pump.pc = "keep"
EndingsGone == EndingIds \cap LiveIds = {}
SerialsAhead ==
    \A e \in LiveIds \cup EndingIds :
      e \in EntityIds /\ (e.tag = "assigned" => e.id <= next_serial)

(* The hand-overs are exclusive: only the handler holding the ledger's mutex *)
(* has an offer-set, only a pump about to keep has a record in hand, an      *)
(* identity that is ending has no record anywhere, and the serial counter is *)
(* ahead of every serial in use.                                             *)
HandOversExclusive == MutexDiscipline /\ EndingsGone /\ SerialsAhead

(* A span's natural identity stands in the ledger exactly as long as its     *)
(* record's story runs: from admission, through the queue, the pump and the  *)
(* store, to the hook call that reports its eviction or refusal -- never     *)
(* shorter (a re-delivery would be stored twice), never longer (every later  *)
(* delivery would collapse onto a record that is nowhere).                   *)
SpanIdentityLasts ==
    \A k \in SpanKeys : spans[k] # None <=> Natural(k) \in LiveIds \cup EndingIds

(* The abstract stage of a natural identity.                                 *)
StageOf(k) ==
    IF Natural(k) \in EndingIds THEN "ending"
    ELSE IF Natural(k) \in ResidentIds THEN "resident"
    ELSE IF Natural(k) \in PendingIds THEN "pending"
    ELSE IF spans[k] # None THEN "handed"
    ELSE "free"

(* The threads, mutexes and hook calls together implement the lifecycle of a *)
(* natural identity; in particular a saturated export gives back everything  *)
(* it admitted and an admitted export hands off everything it admitted.      *)
Lifecycle == INSTANCE IdentityLifecycle
             WITH Keys <- SpanKeys,
                  stage <- [k \in SpanKeys |-> StageOf(k)],
                  sealed <- \E h \in Handlers : handler[h].pc = "offer"
ImplementsLifecycle == Lifecycle!Spec

(* The same for metric points, through their assigned ids; and the two maps  *)
(* forget relies on name each other.                                         *)
PointIdentityLasts ==
    /\ \A k \in PointKeys : points[k] # None =>
         /\ Assigned(points[k].serial) \in LiveIds \cup EndingIds
         /\ [serial |-> points[k].serial, key |-> k] \in assigned_points
    /\ \A a \in assigned_points : points[a.key] # None /\ points[a.key].serial = a.serial

(* The pump never meets a duplicate: admission and the hook between them     *)
(* keep every queued identity out of residency.                              *)
NoDuplicateKeep == refusals["duplicate"] = 0

(* Nothing collides between admission and residency: hand-overs are          *)
(* exclusive, and so no keep meets its own identity (ledger.rs: admit_point, *)
(* pipeline.rs: offer_export, store.rs: refuse_early).                       *)
NoCollision == HandOversExclusive /\ NoDuplicateKeep

(* No interned stream outlives its points: an interned stream has a standing *)
(* point, or its release is the hook's next call.                            *)
NoStrandedStream ==
    \A s \in Streams : streams[s] # None =>
      \/ \E k \in PointKeys : points[k] # None /\ points[k].w.stream = s
      \/ pass.stream = s /\ pass.step \in {"released", "unlinked"}

-----------------------------------------------------------------------------
(* The queue's cached byte count is its content's, never above the ceiling,  *)
(* and an export that was measured still fits while it is being offered: the *)
(* expect in offer_export cannot fire.                                       *)
MeasuredOffersFit ==
    /\ accounted = SumFunction([i \in DOMAIN items |-> QueuedBytes(items[i].w)])
    /\ accounted <= QueueCeiling
    /\ \A h \in Handlers : handler[h].pc = "offer" =>
         ~Saturates(OfferBytes(handler[h].pending))

(* Outside a retention pass the store holds no more records than its ceiling *)
(* and, at any time, no more distinct streams than its series cap.           *)
CountsWithinCeilings ==
    /\ pass.step \in {"free", "done"} => Cardinality(resident) <= MaxRecords
    /\ Cardinality(ResidentStreams) <= SeriesCap

(* The same for the accounted bytes, stream identities included.             *)
BytesWithinCeiling ==
    pass.step \in {"free", "done"} => record_bytes + identity_bytes <= MaxBytes

(* One keep may break several ceilings at once, and evicting a point may or  *)
(* may not free its stream: when the pass ends all of them hold (store.rs:   *)
(* enforce_against).                                                         *)
CeilingsKept == CountsWithinCeilings /\ BytesWithinCeiling

(* The incrementally kept residency counts and byte sums are those of the    *)
(* shelves, at every step of a pass.                                         *)
BooksBalance ==
    /\ \A s \in Streams : series[s] = Cardinality({r \in resident : r.w.stream = s})
    /\ record_bytes = SumFunction([r \in resident |-> r.w.bytes])
    /\ identity_bytes = SumFunctionOnSet(StreamBytes, ResidentStreams)

(* Every eviction and every refusal that inserted nothing is delivered to    *)
(* the hook, once, by the time the operation returns.                        *)
EndingsDelivered ==
    pass.step \in {"free", "done"} =>
      /\ deliveries.evicted = SumFunction(evictions)
      /\ deliveries.refused = SumFunctionOnSet(refusals, Reasons \ {"duplicate"})

(* What the store keeps beside its shelves agrees with them: the residency   *)
(* counts and byte sums at every step, and the endings counted with those    *)
(* the hook was told of (store.rs: pop_oldest, charge_stream,                *)
(* release_stream_ref, report_refusal).                                      *)
AccountsBalance == BooksBalance /\ EndingsDelivered

-----------------------------------------------------------------------------
(* The stop.                                                                 *)

(* The final summary accounts for every record admission handed off, when    *)
(* the requests finished before the serve loop ended.                        *)
SummaryComplete ==
    main = "done" /\ ~cut =>
      offered = SumFunction(summary)

(* A stop always completes: the threads that wait for one another during the *)
(* drain -- the serve loop, the pump, the retention thread -- all end.       *)
DrainCompletes == draining ~> main = "done"

(* A record handed off is kept or refused by the store, or counted as        *)
(* dropped: no record stays queued for ever.                                 *)
HandOffsComplete == items # <<>> ~> items = <<>> \/ main = "done"

-----------------------------------------------------------------------------
(* "A stream whose points are still resident is interned by design, for      *)
(* exactly as long as those points stand."                                   *)
ResidentStreamsInterned ==
    \A r \in resident : r.w.kind = "point" => streams[r.w.stream] # None
=============================================================================
