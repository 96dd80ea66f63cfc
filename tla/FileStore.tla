------------------------------ MODULE FileStore ------------------------------
(***************************************************************************)
(* The file-backed store (crates/storage-sqlite/src/store.rs, db.rs): the  *)
(* in-memory store's retention law with every residency change written     *)
(* through to a SQLite file, over a succession of sessions that end by a   *)
(* close or a crash and reopen the file under new ceilings.                *)
(*                                                                         *)
(* An operation runs under one mutex in three steps a crash or a failed    *)
(* write can separate: memory settles and the transaction is staged, the   *)
(* transaction commits or fails as a whole, the hook is called.  A         *)
(* retention pass pops the oldest records until no ceiling is violated;    *)
(* here it is one step, for nothing else runs between its pops.            *)
(*                                                                         *)
(* The caller is a session's admission ledger (telemetry-model/ledger.rs), *)
(* reduced to the identities it hands out: its interleavings are Runtime's *)
(* subject.  SQLite is external: a transaction is atomic and, once         *)
(* committed, survives the process.                                        *)
(***************************************************************************)
EXTENDS Records, FiniteSets, FiniteSetsExt

CONSTANTS
    Configs,      \* the ceilings a session may be started with
    MaxClock,     \* bound: keeps over all sessions
    MaxSessions,  \* bound: sessions
    MaxFailures   \* bound: transactions that fail to commit

ASSUME FileStoreAssumption ==
    /\ Configs \subseteq [records: Nat, bytes: Nat, series: Nat, window: Nat]
    /\ Configs # {}
    /\ MaxClock \in Nat /\ MaxSessions \in Nat /\ MaxFailures \in Nat

VARIABLES
    rows,         \* the committed rows of the file
    phase,        \* "closed", "opening", "idle", "staged" or "committed"
    config,       \* the session's ceilings
    resident,     \* the three shelves
    staged,       \* the transaction: [put, deleted], the insert first
    ending,       \* staged hook deliveries: the identities that ended
    serial,       \* the session ledger's last assigned serial
    standing,     \* its standing natural identities
    point_serial, \* its standing point identities
    clock,        \* admission times handed out
    sessions,     \* sessions opened
    failures,     \* transactions that failed
    dirty,        \* history: slots whose last write failed in this session
    acked,        \* history: records whose keep committed, until evicted
    gone,         \* history: records whose eviction committed
    kept,         \* history: records kept in this session
    inherited     \* history: the entity ids the session's rows came with

ledger == <<serial, standing, point_serial>>
bounds == <<clock, sessions, failures>>
vars == <<rows, phase, config, resident, staged, ending, ledger, bounds, dirty,
          acked, gone, kept, inherited>>

Nothing == [put |-> {}, deleted |-> {}]
AnyConfig == CHOOSE c \in Configs : TRUE

(* A row's primary key: the table of its kind and the entity id.             *)
Slot(r) == <<r.w.kind, r.entity>>
Slots == {"span", "log", "point"} \X EntityIds

TypeOK ==
    /\ rows \subseteq Records /\ resident \subseteq Records
    /\ phase \in {"closed", "opening", "idle", "staged", "committed"}
    /\ config \in Configs
    /\ staged \in [put: SUBSET Records, deleted: SUBSET Records]
    /\ ending \subseteq EntityIds
    /\ serial \in Nat /\ standing \subseteq SpanKeys
    /\ point_serial \in [PointKeys -> Nat \cup {None}]
    /\ clock \in Nat /\ sessions \in Nat /\ failures \in Nat
    /\ dirty \subseteq Slots
    /\ acked \subseteq Records /\ gone \subseteq Records /\ kept \subseteq Records
    /\ inherited \subseteq EntityIds

FreshLedger == serial' = 0 /\ standing' = {} /\ point_serial' = [k \in PointKeys |-> None]

Init ==
    /\ rows = {} /\ phase = "closed" /\ config = AnyConfig
    /\ resident = {} /\ staged = Nothing /\ ending = {}
    /\ serial = 0 /\ standing = {} /\ point_serial = [k \in PointKeys |-> None]
    /\ clock = 0 /\ sessions = 0 /\ failures = 0
    /\ dirty = {} /\ acked = {} /\ gone = {} /\ kept = {} /\ inherited = {}

-----------------------------------------------------------------------------
(* The retention law, as MemoryStore has it, over a set of records.          *)

StreamsOf(S) == {r.w.stream : r \in {s \in S : s.w.kind = "point"}}

(* Record sizes, and each distinct stream's identity once.                   *)
BytesOf(S) ==
    SumFunction([r \in S |-> r.w.bytes]) + SumFunctionOnSet(StreamBytes, StreamsOf(S))

OverCapacity(S, c) == Cardinality(S) > c.records \/ BytesOf(S) > c.bytes
Expired(S, c, now) ==
    \E r \in S : IsOldest(r, S) /\ now >= r.at /\ now - r.at >= c.window

From(S, t) == {r \in S : r = t \/ KeyBefore(t, r)}

(* What is left once the oldest were popped until Violated no longer holds.  *)
Survivors(S, Violated(_)) ==
    {r \in S : \E t \in S : r \in From(S, t) /\ ~Violated(From(S, t))}

EnforceAgainst(S, c, now) == Survivors(S, LAMBDA T : OverCapacity(T, c) \/ Expired(T, c, now))

(* Fault: the open-time re-check looks at the record count alone.            *)
EnforceNoWindowRecords(S, c) == Survivors(S, LAMBDA T : Cardinality(T) > c.records)

(* The open-time re-check: no clock, so no window.                           *)
EnforceNoWindow(S, c) == Survivors(S, LAMBDA T : OverCapacity(T, c))

-----------------------------------------------------------------------------
(* A session opens.                                                          *)

(* Fault: a table is left out of the load.                                   *)
RehydratedWithoutLogs == {r \in rows : r.w.kind # "log"}

Rehydrated == rows

(* The residency change of a pass that leaves `left` of `S`, with the insert *)
(* of `put`: its deletes and its deliveries.                                 *)
Settle(S, left, put) ==
    /\ resident' = left
    /\ staged' = [put |-> put, deleted |-> S \ left]
    /\ ending' = {r.entity : r \in S \ left}
    /\ acked' = acked \ (S \ left)

(* The rows rehydrate the shelves under the ids they were stored with and    *)
(* are evicted down to the ceilings, with fresh counters and a fresh ledger, *)
(* whose serials start over.                                                 *)
Open ==
    /\ phase = "closed"
    /\ sessions < MaxSessions
    /\ sessions' = sessions + 1
    /\ config' \in Configs
    /\ Settle(Rehydrated, EnforceNoWindow(Rehydrated, config'), {})
    /\ FreshLedger
    /\ phase' = "opening"
    /\ dirty' = {} /\ kept' = {}
    /\ inherited' = {r.entity : r \in rows}
    /\ UNCHANGED <<rows, clock, failures, gone>>

(* What the process held is lost.                                            *)
MemoryLost ==
    /\ phase' = "closed"
    /\ config' = AnyConfig
    /\ resident' = {} /\ staged' = Nothing /\ ending' = {}
    /\ FreshLedger
    /\ dirty' = {} /\ kept' = {} /\ inherited' = {}

(* OpenError::Write: the session does not start and the file is as it was.   *)
OpenFails ==
    /\ phase = "opening"
    /\ staged # Nothing
    /\ failures < MaxFailures
    /\ failures' = failures + 1
    /\ MemoryLost
    /\ UNCHANGED <<rows, clock, sessions, acked, gone>>

-----------------------------------------------------------------------------
(* A keep.                                                                   *)

(* The record admission makes of w: a span with valid ids keeps its natural  *)
(* identity, everything else gets the session's next serial.                 *)
Named(w) == w.kind = "span" /\ w.key # None
RecordOf(w) ==
    [entity |-> IF Named(w) THEN Natural(w.key) ELSE Assigned(serial + 1),
     at |-> clock + 1, w |-> w]

(* The ledger admits w: no identity of it stands yet in this session.        *)
Admit(w) ==
    /\ phase = "idle"
    /\ clock < MaxClock
    /\ clock' = clock + 1
    /\ IF Named(w)
       THEN /\ w.key \notin standing
            /\ standing' = standing \cup {w.key}
            /\ UNCHANGED <<serial, point_serial>>
       ELSE /\ w.kind = "point" => point_serial[w.key] = None
            /\ serial' = serial + 1
            /\ point_serial' = IF w.kind = "point"
                               THEN [point_serial EXCEPT ![w.key] = serial + 1]
                               ELSE point_serial
            /\ UNCHANGED standing

Duplicate(r) == \E s \in resident : Slot(s) = Slot(r)

(* The refusals that insert nothing: oversized, identity over the ceiling,   *)
(* series cap reached.                                                       *)
Refused(r) ==
    \/ r.w.bytes > config.bytes
    \/ /\ r.w.kind = "point"
       /\ \/ StreamBytes[r.w.stream] > config.bytes
          \/ /\ r.w.stream \notin StreamsOf(resident)
             /\ Cardinality(StreamsOf(resident)) >= config.series

(* The record enters, and the pass runs against its own admission time.      *)
KeepInserted ==
    \E w \in Wires :
      LET r == RecordOf(w)
          S == resident \cup {r}
      IN  /\ Admit(w)
          /\ ~Duplicate(r) /\ ~Refused(r)
          /\ Settle(S, EnforceAgainst(S, config, r.at), {r})
          /\ kept' = kept \cup {r}
          /\ phase' = "staged"
          /\ UNCHANGED <<rows, config, sessions, failures, dirty, gone, inherited>>

(* A refused keep stages a report and no write; a duplicate neither.         *)
KeepRefused ==
    \E w \in Wires :
      LET r == RecordOf(w)
      IN  /\ Admit(w)
          /\ Duplicate(r) \/ Refused(r)
          /\ ending' = IF Duplicate(r) THEN {} ELSE {r.entity}
          /\ phase' = "staged"
          /\ UNCHANGED <<rows, config, resident, staged, sessions, failures, dirty,
                         acked, gone, kept, inherited>>

(* enforce_retention, with any reading of the caller's clock.                *)
EnforceRetention ==
    \E now \in 0..MaxClock :
      /\ phase = "idle"
      /\ EnforceAgainst(resident, config, now) # resident
      /\ Settle(resident, EnforceAgainst(resident, config, now), {})
      /\ phase' = "staged"
      /\ UNCHANGED <<rows, config, ledger, bounds, dirty, gone, kept, inherited>>

-----------------------------------------------------------------------------
(* The transaction and the hook.                                             *)

SlotsOf(S) == {Slot(r) : r \in S}
Without(S, T) == {r \in S : Slot(r) \notin SlotsOf(T)}

(* Fault: the deletes are replayed before the insert.                        *)
ReplayedDeletesFirst(S, t) == Without(Without(S, t.deleted), t.put) \cup t.put

(* The staged batch, replayed: the insert is an upsert on its slot.          *)
Replayed(S, t) == Without(Without(S, t.put) \cup t.put, t.deleted)

Commit ==
    /\ phase \in {"opening", "staged"}
    /\ rows' = Replayed(rows, staged)
    /\ dirty' = dirty \ SlotsOf(staged.put \cup staged.deleted)
    /\ acked' = acked \cup (staged.put \ staged.deleted)
    /\ gone' = gone \cup staged.deleted
    /\ phase' = "committed"
    /\ UNCHANGED <<config, resident, staged, ending, ledger, bounds, kept, inherited>>

(* A failed commit changes nothing in memory and is logged.                  *)
CommitFails ==
    /\ phase = "staged"
    /\ staged # Nothing
    /\ failures < MaxFailures
    /\ failures' = failures + 1
    /\ dirty' = dirty \cup SlotsOf(staged.put \cup staged.deleted)
    /\ phase' = "committed"
    /\ UNCHANGED <<rows, config, resident, staged, ending, ledger, clock, sessions,
                   acked, gone, kept, inherited>>

(* The hook ends the reported identities in the ledger.                      *)
Deliver ==
    /\ phase = "committed"
    /\ standing' = {k \in standing : Natural(k) \notin ending}
    /\ point_serial' = [k \in PointKeys |->
         IF Assigned(point_serial[k]) \in ending THEN None ELSE point_serial[k]]
    /\ staged' = Nothing /\ ending' = {}
    /\ phase' = "idle"
    /\ UNCHANGED <<rows, config, resident, serial, bounds, dirty, acked, gone, kept,
                   inherited>>

(* The process dies at any point, or the store is dropped: memory is lost    *)
(* and the file keeps what was committed.                                    *)
SessionEnds ==
    /\ phase # "closed"
    /\ MemoryLost
    /\ UNCHANGED <<rows, bounds, acked, gone>>

Next == \/ Open \/ OpenFails \/ KeepInserted \/ KeepRefused \/ EnforceRetention
        \/ Commit \/ CommitFails \/ Deliver \/ SessionEnds

Spec == Init /\ [][Next]_vars

-----------------------------------------------------------------------------
(* Properties.                                                               *)

AtRest == phase \in {"idle", "committed"}

(* Between operations the file is the shelves: in every slot whose last      *)
(* write did not fail, the row is the resident record or there is none --    *)
(* "on-disk and in-memory residency can never disagree by half a keep".      *)
FileMirrorsResidency ==
    AtRest => \A r \in rows \cup resident :
                Slot(r) \notin dirty => (r \in rows <=> r \in resident)

(* What a transaction committed is final.  A record whose keep committed is  *)
(* in the file, and resident whenever a session runs, until a pass evicts    *)
(* it, through any crash, failed write and reopen; a record whose eviction   *)
(* committed is never seen again.                                            *)
CommittedStands ==
    /\ acked \subseteq rows
    /\ phase # "closed" => acked \subseteq resident
    /\ gone \cap (rows \cup resident) = {}

(* "Bounded the moment it opens": records and bytes are within the session's *)
(* ceilings from the rehydration on, whatever the file held.                 *)
BoundedFromOpen == phase # "closed" => ~OverCapacity(resident, config)

(* The session's ledger and the store agree on natural identities between    *)
(* operations: a standing one is resident, and one kept in this session and  *)
(* still resident stands.  A rehydrated span stands only once re-delivered.  *)
SpansStandWhileResident ==
    phase = "idle" =>
      /\ \A k \in standing : \E r \in resident : r.entity = Natural(k)
      /\ \A r \in kept \cap resident : r.entity.tag = "span" => r.entity.id \in standing

(* r is the point the ledger calls k by the assigned id it handed out.       *)
PointOf(k, r) == r.w.kind = "point" /\ r.w.key = k /\ r.entity = Assigned(point_serial[k])

(* The same for the points, whose ids the session assigns -- as far as the   *)
(* ids are the session's own.  A reopened file's rows keep the ids an        *)
(* earlier session assigned while the ledger's serials start over (ledger.rs *)
(* `forget` and the shelves' duplicate check go by the id alone), so nothing *)
(* is promised of an id the rows came with: StandingPointsResident.          *)
PointsStandWhileResident ==
    phase = "idle" =>
      /\ \A k \in PointKeys :
           point_serial[k] # None /\ Assigned(point_serial[k]) \notin inherited =>
             \E r \in resident : PointOf(k, r)
      /\ \A r \in kept \cap resident :
           r.w.kind = "point" /\ r.entity \notin inherited => PointOf(r.w.key, r)

(* Between operations the file is the shelves, slot by slot; the session's   *)
(* ledger and the shelves agree on the natural identities of spans; and they *)
(* agree on every assigned id that is the session's own, one no rehydrated   *)
(* row came with (store.rs: commit, deliver).                                *)
SidesAgree == FileMirrorsResidency /\ SpansStandWhileResident /\ PointsStandWhileResident

(* Without that exception: a point that stands in the ledger is resident     *)
(* under its id.  An id is "unique within the runtime's session" and "a      *)
(* reopened file-backed session reassigns them" (identity.rs), and "the      *)
(* record a duplicate names is resident, and its identity must stand"        *)
(* (keep.rs).  False after a reopen: a fresh point is given a rehydrated     *)
(* point's id, and its keep is refused as a duplicate of the other record.   *)
StandingPointsResident ==
    phase = "idle" =>
      \A k \in PointKeys : point_serial[k] # None => \E r \in resident : PointOf(k, r)

=============================================================================
