--------------------------- MODULE FileStoreProofs ---------------------------
(***************************************************************************)
(* Proofs about the file-backed store: that what a transaction committed   *)
(* stands, that the file, the shelves and the ledger agree between         *)
(* operations but for the ids a reopened file came with, and that a        *)
(* session is within its ceilings from its opening on, through any number  *)
(* of sessions, crashes and failed writes.                                 *)
(***************************************************************************)
EXTENDS FileStore, Collections

(* At most one record of S in a slot.                                        *)
Distinct(S) == \A r, s \in S : Slot(r) = Slot(s) => r = s

(* The records the store can still act on.                                   *)
Live == rows \cup resident \cup staged.put \cup staged.deleted

(* What the shelves held before the operation under way.                     *)
Before == (resident \cup staged.deleted) \ staged.put

(* No slot is doubled, in the file or in memory.                             *)
SlotsDistinct == Distinct(rows) /\ Distinct(resident \cup staged.deleted)

(* Admission times are handed out once and never ahead of the clock.         *)
TimesDistinct ==
    /\ \A r \in Live \cup gone : r.at <= clock
    /\ \A r, s \in Live : r.at = s.at => r = s

(* A natural identity names a span.                                          *)
SpansNamed == \A r \in Live \cup kept : r.entity.tag = "span" => r.w.kind = "span"

(* What a staged transaction holds, by the phase of the operation.           *)
StagedShape ==
    /\ staged.put \subseteq resident \cup staged.deleted
    /\ resident \cap staged.deleted = {}
    /\ phase \in {"opening", "staged"} => staged.put \cap gone = {}
    /\ phase \in {"closed", "opening"} => standing = {} /\ kept = {} /\ staged.put = {}
    /\ phase \in {"closed", "idle"} => staged = Nothing /\ ending = {}
    /\ phase = "closed" => resident = {}

(* Until the transaction is tried the file is what the shelves were.         *)
FileMirrorsBefore ==
    phase \in {"opening", "staged"} =>
      \A r \in rows \cup Before : Slot(r) \notin dirty => (r \in rows <=> r \in Before)

(* Until the hook is called a standing identity is resident or is about to   *)
(* be reported, and nothing kept and resident is reported.                   *)
StandingOrEnding ==
    /\ \A k \in standing : Natural(k) \in ending \/ \E r \in resident : r.entity = Natural(k)
    /\ \A r \in kept \cap resident : r.entity.tag = "span" =>
         r.entity.id \in standing /\ r.entity \notin ending

(* Every id on the shelves came with the rows or was handed out by this      *)
(* session, which gives each of its serials to one record.                   *)
IdsAccounted ==
    /\ \A r \in resident \cup staged.deleted : r \in kept \/ r.entity \in inherited
    /\ \A r \in kept : r.entity.tag = "assigned" => r.entity.id <= serial
    /\ \A r, s \in kept : r.entity.tag = "assigned" /\ r.entity = s.entity => r = s

(* StandingOrEnding for the points, on the ids that are the session's own.   *)
PointsStandOrEnding ==
    /\ \A k \in PointKeys :
         point_serial[k] # None /\ Assigned(point_serial[k]) \notin inherited =>
           \/ Assigned(point_serial[k]) \in ending
           \/ \E r \in resident : PointOf(k, r)
    /\ \A r \in kept \cap resident : r.w.kind = "point" /\ r.entity \notin inherited =>
         PointOf(r.w.key, r) /\ r.entity \notin ending

(* The inductive invariant.                                                  *)
StoreInv ==
    /\ TypeOK /\ SlotsDistinct /\ TimesDistinct /\ SpansNamed /\ StagedShape
    /\ FileMirrorsBefore /\ FileMirrorsResidency /\ StandingOrEnding
    /\ CommittedStands /\ BoundedFromOpen
    /\ IdsAccounted /\ PointsStandOrEnding
-----------------------------------------------------------------------------
(* The retention law.                                                        *)

(* What the record alphabets make of a record.                               *)
LEMMA RecordShape ==
    ASSUME NEW r \in Records
    PROVE  /\ r.entity \in EntityIds /\ r.at \in Nat /\ r.w \in Wires
           /\ r.w.kind \in {"span", "log", "point"}
           /\ Slot(r) \in Slots
  <1>1. r.entity \in EntityIds /\ r.at \in Nat /\ r.w \in Wires
    BY DEF Records
  <1>2. \A w \in Wires : w.kind \in {"span", "log", "point"}
    BY RecordsAssumption DEF SpanWire, LogWire, PointWire
  <1> QED
    BY <1>1, <1>2 DEF Slot, Slots

(* A non-empty set of admission times has a least one.                       *)
LEMMA LeastTime ==
    ASSUME NEW G, G \subseteq Records, G # {}
    PROVE  \E t \in G : \A u \in G : t.at <= u.at
  <1> DEFINE A == {u.at : u \in G}
  <1>1. A \subseteq Nat /\ A # {}
    BY DEF Records
  <1>2. PICK a \in A : \A b \in A : ~ (<<b, a>> \in OpToRel(<, Nat))
    <2> HIDE DEF A
    <2> QED
      BY <1>1, NatLessThanWellFounded, WFMin
  <1>3. \A b \in A : ~ (b < a)
    BY <1>1, <1>2 DEF OpToRel
  <1>4. PICK t \in G : t.at = a
    OBVIOUS
  <1>5. ASSUME NEW u \in G
        PROVE  t.at <= u.at
    <2>1. u.at \in A /\ u.at \in Nat /\ t.at \in Nat
      BY DEF Records
    <2>2. ~ (u.at < a)
      BY <1>3, <2>1
    <2> QED
      BY <1>4, <2>1, <2>2
  <1> QED
    BY <1>5

(* Popping the oldest leaves nothing or everything from one record on: the   *)
(* survivors of a pass are a suffix of the residency order.                  *)
LEMMA SuffixSurvives ==
    ASSUME NEW S, S \subseteq Records, \A r, s \in S : r.at = s.at => r = s,
           NEW G, G \subseteq S, G # {}
    PROVE  \E t \in G : {r \in S : \E u \in G : r \in From(S, u)} = From(S, t)
  <1>1. PICK t \in G : \A u \in G : t.at <= u.at
    BY LeastTime
  <1>2. ASSUME NEW r \in S, NEW u \in G, r \in From(S, u)
        PROVE  r \in From(S, t)
    <2>1. r.at \in Nat /\ u.at \in Nat /\ t.at \in Nat
      BY DEF Records
    <2>2. u.at <= r.at
      BY <1>2, <2>1 DEF From, KeyBefore
    <2>3. t.at <= r.at
      BY <1>1, <2>1, <2>2
    <2>4. r = t \/ t.at < r.at
      BY <2>1, <2>3
    <2> QED
      BY <2>4 DEF From, KeyBefore
  <1>3. From(S, t) \subseteq S
    BY DEF From
  <1> QED
    BY <1>2, <1>3

(* An empty store is within any ceilings.                                    *)
LEMMA EmptyFits ==
    ASSUME NEW c \in Configs
    PROVE  ~OverCapacity({}, c)
  <1>1. c.records \in Nat /\ c.bytes \in Nat
    BY FileStoreAssumption
  <1>2. StreamsOf({}) = {}
    BY DEF StreamsOf
  <1>3. BytesOf({}) = 0
    <2>1. \A g : SumFunctionOnSet(g, {}) = 0
      BY TotalUnfolds, FS_EmptySet
    <2>2. DOMAIN [r \in {} |-> r.w.bytes] = {}
      OBVIOUS
    <2> QED
      BY <1>2, <2>1, <2>2 DEF BytesOf, SumFunction
  <1> QED
    BY <1>1, <1>3, FS_EmptySet DEF OverCapacity

(* Whatever a pass leaves is resident before it and within the ceilings.     *)
LEMMA PassFits ==
    ASSUME NEW S, S \subseteq Records, \A r, s \in S : r.at = s.at => r = s,
           NEW c \in Configs
    PROVE  /\ EnforceNoWindow(S, c) \subseteq S /\ ~OverCapacity(EnforceNoWindow(S, c), c)
           /\ \A now : /\ EnforceAgainst(S, c, now) \subseteq S
                       /\ ~OverCapacity(EnforceAgainst(S, c, now), c)
  <1>1. ASSUME NEW G, G \subseteq S, \A t \in G : ~OverCapacity(From(S, t), c)
        PROVE  ~OverCapacity({r \in S : \E u \in G : r \in From(S, u)}, c)
    <2>1. CASE G = {}
      <3>1. {r \in S : \E u \in G : r \in From(S, u)} = {}
        BY <2>1
      <3> QED
        BY <3>1, EmptyFits
    <2>2. CASE G # {}
      <3>1. PICK t \in G : {r \in S : \E u \in G : r \in From(S, u)} = From(S, t)
        BY <1>1, <2>2, SuffixSurvives
      <3>2. ~OverCapacity(From(S, t), c)
        BY <1>1
      <3> QED
        BY <3>1, <3>2
    <2> QED
      BY <2>1, <2>2
  <1>2. /\ EnforceNoWindow(S, c) \subseteq S
        /\ ~OverCapacity(EnforceNoWindow(S, c), c)
    <2> DEFINE G == {t \in S : ~OverCapacity(From(S, t), c)}
    <2>1. EnforceNoWindow(S, c) = {r \in S : \E u \in G : r \in From(S, u)}
      BY DEF EnforceNoWindow, Survivors
    <2>2. ~OverCapacity({r \in S : \E u \in G : r \in From(S, u)}, c)
      BY <1>1
    <2> QED
      BY <2>1, <2>2
  <1>3. ASSUME NEW now
        PROVE  /\ EnforceAgainst(S, c, now) \subseteq S
               /\ ~OverCapacity(EnforceAgainst(S, c, now), c)
    <2> DEFINE G == {t \in S : ~(OverCapacity(From(S, t), c) \/ Expired(From(S, t), c, now))}
    <2>1. EnforceAgainst(S, c, now) = {r \in S : \E u \in G : r \in From(S, u)}
      BY DEF EnforceAgainst, Survivors
    <2>2. ~OverCapacity({r \in S : \E u \in G : r \in From(S, u)}, c)
      BY <1>1
    <2> QED
      BY <2>1, <2>2
  <1> QED
    BY <1>2, <1>3

-----------------------------------------------------------------------------
(* One step per action.                                                      *)

(* The invariant holds over an empty file.                                   *)
LEMMA StoreInit == Init => StoreInv
  <1> SUFFICES ASSUME Init PROVE StoreInv
    OBVIOUS
  <1>1. config \in Configs
    BY FileStoreAssumption DEF Init, AnyConfig
  <1>2. TypeOK
    BY <1>1 DEF Init, TypeOK, Nothing
  <1>3. CommittedStands /\ BoundedFromOpen
    BY DEF Init, CommittedStands, BoundedFromOpen
  <1>4. SlotsDistinct /\ TimesDistinct /\ SpansNamed
    BY DEF Init, SlotsDistinct, TimesDistinct, SpansNamed, Distinct, Live, Nothing
  <1>5. StagedShape /\ FileMirrorsBefore /\ FileMirrorsResidency /\ StandingOrEnding
    BY DEF Init, StagedShape, FileMirrorsBefore, FileMirrorsResidency, StandingOrEnding, AtRest,
         Nothing
  <1>6. IdsAccounted /\ PointsStandOrEnding
    BY DEF Init, IdsAccounted, PointsStandOrEnding, Nothing
  <1> QED
    BY <1>2, <1>3, <1>4, <1>5, <1>6 DEF StoreInv

(* A session opens on what the file held.                                    *)
LEMMA OpenStep ==
    ASSUME StoreInv, Open
    PROVE  StoreInv'
  <1> USE DEF StoreInv
  <1> DEFINE left == EnforceNoWindow(rows, config')
  <1>0. /\ rows \subseteq Records /\ config' \in Configs /\ Distinct(rows)
        /\ \A r, s \in rows : r.at = s.at => r = s
    BY DEF Open, TypeOK, SlotsDistinct, TimesDistinct, Live
  <1>1. left \subseteq rows /\ ~OverCapacity(left, config')
    BY <1>0, PassFits
  <1>2. Settle(rows, left, {}) /\ {} \subseteq rows
    BY DEF Open, Rehydrated
  <1> HIDE DEF left
  <1>3. /\ resident' = left /\ staged'.put = {} /\ staged'.deleted = rows \ left
        /\ resident' \cup staged'.deleted = rows /\ resident' \cap staged'.deleted = {}
        /\ Before' = rows
        /\ staged' \in [put: SUBSET Records, deleted: SUBSET Records]
        /\ ending' \subseteq EntityIds /\ acked' = acked \ (rows \ left)
    <2>1. /\ resident' = left /\ staged' = [put |-> {}, deleted |-> rows \ left]
          /\ ending' = {x.entity : x \in rows \ left} /\ acked' = acked \ (rows \ left)
      BY <1>2 DEF Settle
    <2>2. \A x \in rows : x.entity \in EntityIds
      BY <1>0, <1>1 DEF Records
    <2> QED
      BY <1>0, <1>1, <2>1, <2>2 DEF Before
  <1>4. /\ rows' = rows /\ clock' = clock /\ gone' = gone /\ dirty' = {} /\ kept' = {}
        /\ phase' = "opening" /\ standing' = {}
    BY DEF Open, FreshLedger
  <1>5. TypeOK'
    <2>1. inherited' \subseteq EntityIds
      BY <1>0 DEF Open, Records
    <2> QED
      BY <1>0, <1>1, <1>3, <1>4, <2>1 DEF Open, FreshLedger, TypeOK
  <1>6. Live' = rows
    BY <1>1, <1>3, <1>4 DEF Live
  <1>7. SlotsDistinct' /\ TimesDistinct' /\ SpansNamed'
    BY <1>0, <1>3, <1>4, <1>6 DEF SlotsDistinct, TimesDistinct, SpansNamed, Live, Distinct
  <1>8. StagedShape' /\ FileMirrorsBefore' /\ FileMirrorsResidency'
    BY <1>3, <1>4 DEF StagedShape, FileMirrorsBefore, FileMirrorsResidency, AtRest
  <1>9. StandingOrEnding'
    BY <1>4 DEF StandingOrEnding
  <1>10. CommittedStands' /\ BoundedFromOpen'
    BY <1>1, <1>3, <1>4 DEF CommittedStands, BoundedFromOpen
  <1>11. IdsAccounted' /\ PointsStandOrEnding'
    <2>1. inherited' = {r.entity : r \in rows}
          /\ point_serial' = [k \in PointKeys |-> None]
      BY DEF Open, FreshLedger
    <2> QED
      BY <1>3, <1>4, <2>1 DEF IdsAccounted, PointsStandOrEnding
  <1> QED
    BY <1>5, <1>7, <1>8, <1>9, <1>10, <1>11

(* The process is gone; what was committed is in the file.                   *)
LEMMA LossStep ==
    ASSUME StoreInv, OpenFails \/ SessionEnds
    PROVE  StoreInv'
  <1> USE DEF StoreInv
  <1>1. MemoryLost /\ UNCHANGED <<rows, clock, sessions, acked, gone>> /\ failures' \in Nat
    BY DEF OpenFails, SessionEnds, bounds, TypeOK
  <1>2. config' \in Configs
    BY <1>1, FileStoreAssumption DEF MemoryLost, AnyConfig
  <1>3. /\ resident' = {} /\ staged' = Nothing /\ ending' = {} /\ standing' = {} /\ kept' = {}
        /\ phase' = "closed" /\ dirty' = {}
    BY <1>1 DEF MemoryLost, FreshLedger
  <1>4. TypeOK'
    BY <1>1, <1>2, <1>3 DEF MemoryLost, FreshLedger, TypeOK, Nothing
  <1>5. Live' = rows
    BY <1>1, <1>3 DEF Live, Nothing
  <1>6. SlotsDistinct' /\ TimesDistinct' /\ SpansNamed'
    BY <1>1, <1>3, <1>5 DEF SlotsDistinct, TimesDistinct, SpansNamed, Live, Distinct, Nothing
  <1>7. StagedShape' /\ FileMirrorsBefore' /\ FileMirrorsResidency' /\ StandingOrEnding'
    BY <1>3 DEF StagedShape, FileMirrorsBefore, FileMirrorsResidency, StandingOrEnding, AtRest,
         Nothing
  <1>8. CommittedStands' /\ BoundedFromOpen'
    BY <1>1, <1>3 DEF CommittedStands, BoundedFromOpen
  <1>9. IdsAccounted' /\ PointsStandOrEnding'
    BY <1>1, <1>3 DEF IdsAccounted, PointsStandOrEnding, MemoryLost, FreshLedger, Nothing
  <1> QED
    BY <1>4, <1>6, <1>7, <1>8, <1>9

(* enforce_retention evicts the oldest.                                      *)
LEMMA RetentionPass ==
    ASSUME StoreInv, EnforceRetention
    PROVE  StoreInv'
  <1> USE DEF StoreInv
  <1>0. PICK now \in 0..MaxClock :
          /\ phase = "idle"
          /\ Settle(resident, EnforceAgainst(resident, config, now), {})
          /\ phase' = "staged"
          /\ UNCHANGED <<rows, config, ledger, bounds, dirty, gone, kept, inherited>>
    BY DEF EnforceRetention
  <1> DEFINE left == EnforceAgainst(resident, config, now)
  <1>1. /\ resident \subseteq Records /\ config \in Configs /\ staged = Nothing /\ ending = {}
        /\ \A r, s \in resident : r.at = s.at => r = s
    BY <1>0 DEF TypeOK, StagedShape, TimesDistinct, Live
  <1>2. left \subseteq resident /\ ~OverCapacity(left, config)
    BY <1>1, PassFits
  <1>3. Settle(resident, left, {}) /\ {} \subseteq resident
    BY <1>0
  <1> HIDE DEF left
  <1>4. /\ resident' = left /\ staged'.put = {} /\ staged'.deleted = resident \ left
        /\ resident' \cup staged'.deleted = resident /\ resident' \cap staged'.deleted = {}
        /\ Before' = resident
        /\ staged' \in [put: SUBSET Records, deleted: SUBSET Records]
        /\ ending' = {r.entity : r \in resident \ left}
        /\ ending' \subseteq EntityIds /\ acked' = acked \ (resident \ left)
    <2>1. /\ resident' = left /\ staged' = [put |-> {}, deleted |-> resident \ left]
          /\ ending' = {x.entity : x \in resident \ left} /\ acked' = acked \ (resident \ left)
      BY <1>3 DEF Settle
    <2>2. \A x \in resident : x.entity \in EntityIds
      BY <1>1, <1>2 DEF Records
    <2> QED
      BY <1>1, <1>2, <2>1, <2>2 DEF Before
  <1>5. /\ rows' = rows /\ clock' = clock /\ gone' = gone /\ dirty' = dirty /\ kept' = kept
        /\ phase' = "staged" /\ standing' = standing /\ config' = config
    BY <1>0 DEF ledger, bounds
  <1>6. TypeOK'
    BY <1>0, <1>2, <1>4, <1>5 DEF TypeOK, ledger, bounds
  <1>7. Live' = rows \cup resident
    BY <1>2, <1>4, <1>5 DEF Live
  <1>8. SlotsDistinct' /\ TimesDistinct' /\ SpansNamed'
    BY <1>4, <1>5, <1>7 DEF SlotsDistinct, TimesDistinct, SpansNamed, Live, Distinct
  <1>9. StagedShape' /\ FileMirrorsBefore' /\ FileMirrorsResidency'
    BY <1>0, <1>4, <1>5 DEF StagedShape, FileMirrorsBefore, FileMirrorsResidency, AtRest
  <1>10. StandingOrEnding'
    <2>1. ASSUME NEW k \in standing
          PROVE  Natural(k) \in ending' \/ \E r \in resident' : r.entity = Natural(k)
      BY <1>1, <1>4 DEF StandingOrEnding
    <2>2. ASSUME NEW r \in kept \cap resident', r.entity.tag = "span"
          PROVE  r.entity.id \in standing /\ r.entity \notin ending'
      <3>1. r \in resident /\ r \in left /\ r.entity.id \in standing
        BY <1>2, <1>4, <2>2 DEF StandingOrEnding
      <3>2. ASSUME NEW d \in resident \ left, d.entity = r.entity
            PROVE  FALSE
        <4>1. d.w.kind = "span" /\ r.w.kind = "span"
          BY <2>2, <3>1, <3>2 DEF SpansNamed, Live
        <4>2. Slot(d) = Slot(r)
          BY <3>2, <4>1 DEF Slot
        <4> QED
          BY <3>1, <3>2, <4>2 DEF SlotsDistinct, Distinct
      <3> QED
        BY <1>4, <3>1, <3>2
    <2> QED
      BY <1>5, <2>1, <2>2 DEF StandingOrEnding
  <1>11. CommittedStands' /\ BoundedFromOpen'
    BY <1>0, <1>2, <1>4, <1>5 DEF CommittedStands, BoundedFromOpen
  <1>12. /\ inherited' = inherited /\ serial' = serial /\ point_serial' = point_serial
         /\ staged.deleted = {}
    BY <1>0, <1>1 DEF ledger, Nothing
  <1>13. IdsAccounted'
    BY <1>4, <1>5, <1>12 DEF IdsAccounted
  <1>14. PointsStandOrEnding'
    <2>1. ASSUME NEW k \in PointKeys, point_serial[k] # None,
                 Assigned(point_serial[k]) \notin inherited
          PROVE  Assigned(point_serial[k]) \in ending' \/ \E r \in resident' : PointOf(k, r)
      <3>1. PICK r \in resident : PointOf(k, r)
        BY <1>1, <2>1 DEF PointsStandOrEnding
      <3> QED
        BY <1>4, <3>1 DEF PointOf
    <2>2. ASSUME NEW r \in kept \cap resident', r.w.kind = "point", r.entity \notin inherited
          PROVE  PointOf(r.w.key, r) /\ r.entity \notin ending'
      <3>1. r \in resident /\ r \in left /\ PointOf(r.w.key, r)
        BY <1>2, <1>4, <2>2 DEF PointsStandOrEnding
      <3>2. ASSUME NEW d \in resident \ left, d.entity = r.entity
            PROVE  FALSE
        BY <2>2, <3>1, <3>2 DEF IdsAccounted, PointOf, Assigned
      <3> QED
        BY <1>4, <3>1, <3>2
    <2>3. \A k, r : PointOf(k, r)' <=> PointOf(k, r)
      BY <1>12 DEF PointOf
    <2> QED
      BY <1>5, <1>12, <2>1, <2>2, <2>3 DEF PointsStandOrEnding
  <1> QED
    BY <1>6, <1>8, <1>9, <1>10, <1>11, <1>13, <1>14

(* What admission makes of a wire: a record of a time nothing has yet, named *)
(* by its key only if it is a span.                                          *)
LEMMA AdmittedRecord ==
    ASSUME StoreInv, NEW w \in Wires, Admit(w)
    PROVE  /\ RecordOf(w) \in Records /\ RecordOf(w).at = clock + 1 /\ RecordOf(w).w = w
           /\ RecordOf(w).entity.tag = "span" =>
                /\ w.kind = "span"
                /\ RecordOf(w).entity.id \in standing'
           /\ clock' = clock + 1 /\ standing \subseteq standing' /\ standing' \subseteq SpanKeys
           /\ \A k \in standing' : k \in standing \/ RecordOf(w).entity = Natural(k)
           /\ serial' \in Nat /\ point_serial' \in [PointKeys -> Nat \cup {None}]
  <1> USE DEF StoreInv, TypeOK
  <1>1. w.kind = "span" /\ w.key # None => w.key \in SpanKeys
    BY RecordsAssumption DEF SpanWire, LogWire, PointWire
  <1>2. w.kind = "point" => w.key \in PointKeys
    BY RecordsAssumption DEF SpanWire, LogWire, PointWire
  <1>3. CASE Named(w)
    <2>1. w.key \in SpanKeys
      BY <1>1, <1>3 DEF Named
    <2>2. RecordOf(w).entity = Natural(w.key)
      BY <1>3 DEF RecordOf
    <2>3. RecordOf(w) \in Records /\ RecordOf(w).at = clock + 1 /\ RecordOf(w).w = w
      BY <1>3, <2>1 DEF RecordOf, Records, EntityIds, NaturalIds, Natural
    <2>4. standing' = standing \cup {w.key} /\ UNCHANGED <<serial, point_serial>>
          /\ clock' = clock + 1
      BY <1>3 DEF Admit
    <2> QED
      BY <1>3, <2>1, <2>2, <2>3, <2>4 DEF Natural, Named
  <1>4. CASE ~Named(w)
    <2>1. RecordOf(w).entity = Assigned(serial + 1)
      BY <1>4 DEF RecordOf
    <2>2. RecordOf(w) \in Records /\ RecordOf(w).at = clock + 1 /\ RecordOf(w).w = w
      BY <1>4 DEF RecordOf, Records, EntityIds, AssignedIds, Assigned
    <2>3. standing' = standing /\ serial' = serial + 1 /\ clock' = clock + 1
          /\ point_serial' = IF w.kind = "point"
                             THEN [point_serial EXCEPT ![w.key] = serial + 1]
                             ELSE point_serial
      BY <1>4 DEF Admit
    <2>4. RecordOf(w).entity.tag = "assigned"
      BY <2>1 DEF Assigned
    <2> QED
      BY <1>2, <2>2, <2>3, <2>4
  <1> QED
    BY <1>3, <1>4

(* What admission does to the assigned ids: the record gets the session's    *)
(* next serial or none, and a point's key stands for exactly that serial.    *)
LEMMA AdmittedId ==
    ASSUME StoreInv, NEW w \in Wires, Admit(w)
    PROVE  /\ serial <= serial'
           /\ RecordOf(w).entity.tag = "assigned" =>
                RecordOf(w).entity.id = serial + 1 /\ RecordOf(w).entity.id <= serial'
           /\ w.kind # "point" => point_serial' = point_serial
           /\ w.kind = "point" =>
                /\ RecordOf(w).entity.tag = "assigned"
                /\ w.key \in PointKeys
                /\ RecordOf(w).entity = Assigned(point_serial'[w.key])
                /\ point_serial[w.key] = None
                /\ \A k \in PointKeys : k # w.key => point_serial'[k] = point_serial[k]
  <1> USE DEF StoreInv, TypeOK
  <1>1. w.kind = "point" => w.key \in PointKeys
    BY RecordsAssumption DEF SpanWire, LogWire, PointWire
  <1>2. CASE Named(w)
    <2>1. RecordOf(w).entity.tag = "span" /\ w.kind = "span"
      BY <1>2 DEF RecordOf, Natural, Named
    <2>2. UNCHANGED <<serial, point_serial>>
      BY <1>2 DEF Admit
    <2> QED
      BY <2>1, <2>2
  <1>3. CASE ~Named(w)
    <2>1. /\ RecordOf(w).entity = Assigned(serial + 1) /\ RecordOf(w).w = w
          /\ serial' = serial + 1
      BY <1>3 DEF RecordOf, Admit
    <2>2. /\ w.kind = "point" => point_serial[w.key] = None
          /\ point_serial' = IF w.kind = "point"
                             THEN [point_serial EXCEPT ![w.key] = serial + 1]
                             ELSE point_serial
      BY <1>3 DEF Admit
    <2>3. w.kind = "point" => /\ point_serial'[w.key] = serial + 1
                              /\ \A k \in PointKeys :
                                   k # w.key => point_serial'[k] = point_serial[k]
      BY <1>1, <2>2
    <2> QED
      BY <1>1, <2>1, <2>2, <2>3 DEF Assigned
  <1> QED
    BY <1>2, <1>3

(* A record enters and the pass runs.                                        *)
LEMMA KeepStep ==
    ASSUME StoreInv, KeepInserted
    PROVE  StoreInv'
  <1> USE DEF StoreInv
  <1>0. PICK w \in Wires :
          /\ Admit(w) /\ ~Duplicate(RecordOf(w))
          /\ Settle(resident \cup {RecordOf(w)},
                    EnforceAgainst(resident \cup {RecordOf(w)}, config, RecordOf(w).at),
                    {RecordOf(w)})
          /\ kept' = kept \cup {RecordOf(w)}
          /\ phase' = "staged"
          /\ UNCHANGED <<rows, config, sessions, failures, dirty, gone, inherited>>
    BY DEF KeepInserted
  <1> DEFINE r == RecordOf(w)
             S == resident \cup {r}
             left == EnforceAgainst(S, config, r.at)
  <1>a. /\ r \in Records /\ r.at = clock + 1 /\ r.w = w
        /\ r.entity.tag = "span" => w.kind = "span" /\ r.entity.id \in standing'
        /\ clock' = clock + 1 /\ standing \subseteq standing' /\ standing' \subseteq SpanKeys
        /\ \A k \in standing' : k \in standing \/ r.entity = Natural(k)
        /\ serial' \in Nat /\ point_serial' \in [PointKeys -> Nat \cup {None}]
    BY <1>0, AdmittedRecord
  <1>b. phase = "idle" /\ staged = Nothing /\ ending = {} /\ clock \in Nat /\ config \in Configs
    BY <1>0 DEF Admit, StagedShape, TypeOK
  <1>c. ~Duplicate(r) /\ Settle(S, left, {r}) /\ kept' = kept \cup {r}
    BY <1>0
  <1>f. /\ serial <= serial' /\ serial \in Nat
        /\ r.entity.tag = "assigned" => r.entity.id = serial + 1 /\ r.entity.id <= serial'
        /\ w.kind # "point" => point_serial' = point_serial
        /\ w.kind = "point" =>
             /\ r.entity.tag = "assigned" /\ w.key \in PointKeys
             /\ r.entity = Assigned(point_serial'[w.key])
             /\ point_serial[w.key] = None
             /\ \A k \in PointKeys : k # w.key => point_serial'[k] = point_serial[k]
    BY <1>0, AdmittedId DEF TypeOK
  <1> HIDE DEF r
  <1>d. /\ \A x \in rows \cup resident \cup gone : x.at <= clock /\ x.at \in Nat
        /\ r \notin rows \cup resident \cup gone
    <2>1. \A x \in rows \cup resident \cup gone : x.at <= clock /\ x.at \in Nat
      BY DEF TimesDistinct, Live, TypeOK, Records
    <2> QED
      BY <1>a, <1>b, <2>1
  <1>e. /\ S \subseteq Records /\ Distinct(S)
        /\ \A x, y \in S \cup rows : x.at = y.at => x = y
    <2>1. Distinct(S)
      BY <1>c DEF Duplicate, SlotsDistinct, Distinct
    <2>2. \A x, y \in S \cup rows : x.at = y.at => x = y
      BY <1>a, <1>b, <1>d DEF TimesDistinct, Live
    <2> QED
      BY <1>a, <2>1, <2>2 DEF TypeOK
  <1>1. left \subseteq S /\ ~OverCapacity(left, config)
    BY <1>b, <1>e, PassFits
  <1>2. {r} \subseteq S
    OBVIOUS
  <1> HIDE DEF left
  <1>3. /\ resident' = left /\ staged'.put = {r} /\ staged'.deleted = S \ left
        /\ resident' \cup staged'.deleted = S /\ resident' \cap staged'.deleted = {}
        /\ Before' = S \ {r}
        /\ staged' \in [put: SUBSET Records, deleted: SUBSET Records]
        /\ ending' = {x.entity : x \in S \ left}
        /\ ending' \subseteq EntityIds /\ acked' = acked \ (S \ left)
    <2> HIDE DEF S
    <2>1. /\ resident' = left /\ staged' = [put |-> {r}, deleted |-> S \ left]
          /\ ending' = {x.entity : x \in S \ left} /\ acked' = acked \ (S \ left)
      BY <1>c DEF Settle
    <2>2. \A x \in S : x.entity \in EntityIds
      BY <1>e, <1>1, <1>2 DEF Records
    <2> QED
      BY <1>e, <1>1, <1>2, <2>1, <2>2 DEF Before
  <1>4. Before' = resident
    BY <1>3, <1>d
  <1>5. /\ rows' = rows /\ gone' = gone /\ dirty' = dirty /\ phase' = "staged" /\ config' = config
    BY <1>0
  <1>6. TypeOK'
    BY <1>0, <1>a, <1>c, <1>e, <1>1, <1>3, <1>5 DEF TypeOK
  <1>7. Live' = rows \cup S
    BY <1>1, <1>3, <1>5 DEF Live
  <1>8. SlotsDistinct' /\ TimesDistinct' /\ SpansNamed'
    <2>1. SlotsDistinct'
      BY <1>3, <1>5, <1>e DEF SlotsDistinct, Distinct
    <2>2. TimesDistinct'
      BY <1>a, <1>b, <1>d, <1>e, <1>5, <1>7 DEF TimesDistinct
    <2>3. SpansNamed'
      BY <1>a, <1>c, <1>7 DEF SpansNamed, Live
    <2> QED
      BY <2>1, <2>2, <2>3
  <1>9. StagedShape' /\ FileMirrorsBefore' /\ FileMirrorsResidency'
    <2>1. StagedShape'
      BY <1>3, <1>5, <1>d DEF StagedShape
    <2>2. FileMirrorsBefore'
      BY <1>b, <1>4, <1>5 DEF FileMirrorsBefore, FileMirrorsResidency, AtRest
    <2>3. FileMirrorsResidency'
      BY <1>5 DEF FileMirrorsResidency, AtRest
    <2> QED
      BY <2>1, <2>2, <2>3
  <1>10. StandingOrEnding'
    <2>1. ASSUME NEW k \in standing'
          PROVE  Natural(k) \in ending' \/ \E x \in resident' : x.entity = Natural(k)
      <3>1. \E x \in S : x.entity = Natural(k)
        BY <1>a, <1>b, <2>1 DEF StandingOrEnding
      <3> QED
        BY <1>3, <3>1
    <2>2. ASSUME NEW x \in kept' \cap resident', x.entity.tag = "span"
          PROVE  x.entity.id \in standing' /\ x.entity \notin ending'
      <3>1. x \in S /\ x \in left /\ x.entity.id \in standing'
        BY <1>a, <1>c, <1>1, <1>3, <2>2 DEF StandingOrEnding
      <3>2. ASSUME NEW d \in S \ left, d.entity = x.entity
            PROVE  FALSE
        <4>1. d.w.kind = "span" /\ x.w.kind = "span"
          BY <1>a, <2>2, <3>1, <3>2 DEF SpansNamed, Live
        <4>2. Slot(d) = Slot(x)
          BY <3>2, <4>1 DEF Slot
        <4> QED
          BY <1>e, <3>1, <3>2, <4>2 DEF Distinct
      <3> QED
        BY <1>3, <3>1, <3>2
    <2> QED
      BY <2>1, <2>2 DEF StandingOrEnding
  <1>11. CommittedStands' /\ BoundedFromOpen'
    BY <1>b, <1>d, <1>1, <1>3, <1>5 DEF CommittedStands, BoundedFromOpen
  <1>12. inherited' = inherited
    BY <1>0
  <1>13. \A x \in kept : /\ x.entity \in EntityIds
                         /\ x.entity.tag = "assigned" => x.entity.id \in Nat
    BY DEF TypeOK, Records, EntityIds, NaturalIds, AssignedIds
  <1>14. IdsAccounted'
    <2>1. \A x \in S : x \in kept' \/ x.entity \in inherited
      BY <1>b, <1>c DEF IdsAccounted
    <2>2. \A x \in kept' : x.entity.tag = "assigned" => x.entity.id <= serial'
      <3>1. \A x \in kept : x.entity.tag = "assigned" => x.entity.id <= serial'
        BY <1>a, <1>f, <1>13 DEF IdsAccounted
      <3> QED
        BY <1>c, <1>f, <3>1
    <2>3. \A x, y \in kept' : x.entity.tag = "assigned" /\ x.entity = y.entity => x = y
      <3>1. \A x \in kept : x.entity.tag = "assigned" => x.entity # r.entity
        BY <1>f, <1>13 DEF IdsAccounted
      <3> QED
        BY <1>c, <3>1 DEF IdsAccounted
    <2> QED
      BY <1>3, <1>12, <2>1, <2>2, <2>3 DEF IdsAccounted
  <1>15. PointsStandOrEnding'
    <2>1. ASSUME NEW k \in PointKeys, point_serial'[k] # None,
                 Assigned(point_serial'[k]) \notin inherited
          PROVE  \/ Assigned(point_serial'[k]) \in ending'
                 \/ \E x \in resident' : x.w.kind = "point" /\ x.w.key = k
                                         /\ x.entity = Assigned(point_serial'[k])
      <3>1. \E x \in S : x.w.kind = "point" /\ x.w.key = k /\ x.entity = Assigned(point_serial'[k])
        <4>1. CASE w.kind = "point" /\ k = w.key
          BY <1>a, <1>f, <4>1
        <4>2. CASE ~(w.kind = "point" /\ k = w.key)
          <5>1. point_serial'[k] = point_serial[k]
            BY <1>f, <4>2
          <5> QED
            BY <1>b, <2>1, <5>1 DEF PointsStandOrEnding, PointOf
        <4> QED
          BY <4>1, <4>2
      <3> QED
        BY <1>3, <3>1
    <2>2. ASSUME NEW x \in kept' \cap resident', x.w.kind = "point", x.entity \notin inherited
          PROVE  x.entity = Assigned(point_serial'[x.w.key]) /\ x.entity \notin ending'
      <3>1. x \in S /\ x \in left
        BY <1>1, <1>3, <2>2
      <3>2. x.entity = Assigned(point_serial'[x.w.key]) /\ x.entity.tag = "assigned"
        <4>1. CASE x = r
          BY <1>a, <1>f, <2>2, <4>1
        <4>2. CASE x # r
          <5>1. x \in kept \cap resident
            BY <1>c, <2>2, <3>1, <4>2
          <5>2. x.entity = Assigned(point_serial[x.w.key])
            BY <2>2, <5>1 DEF PointsStandOrEnding, PointOf
          <5>3. x.w.key \in PointKeys
            BY <2>2, <5>1, RecordsAssumption DEF TypeOK, Records, SpanWire, LogWire, PointWire
          <5>4. x.entity.tag = "assigned" /\ x.entity.id \in Nat
            BY <1>13, <5>1, <5>2 DEF Assigned
          <5>5. point_serial[x.w.key] # None
            BY <5>2, <5>4, NoneAssumption DEF Assigned
          <5> QED
            BY <1>f, <5>2, <5>3, <5>4, <5>5
        <4> QED
          BY <4>1, <4>2
      <3>3. ASSUME NEW d \in S \ left, d.entity = x.entity
            PROVE  FALSE
        <4>1. d \in kept' /\ x \in kept'
          BY <1>3, <1>12, <1>14, <2>2, <3>3 DEF IdsAccounted
        <4> QED
          BY <1>14, <3>1, <3>2, <3>3, <4>1 DEF IdsAccounted
      <3> QED
        BY <1>3, <3>2, <3>3
    <2> QED
      BY <1>12, <2>1, <2>2 DEF PointsStandOrEnding, PointOf
  <1> QED
    BY <1>6, <1>8, <1>9, <1>10, <1>11, <1>14, <1>15

(* A keep that inserts nothing.                                              *)
LEMMA RefusalStep ==
    ASSUME StoreInv, KeepRefused
    PROVE  StoreInv'
  <1> USE DEF StoreInv
  <1>0. PICK w \in Wires :
          /\ Admit(w)
          /\ ending' = IF Duplicate(RecordOf(w)) THEN {} ELSE {RecordOf(w).entity}
          /\ phase' = "staged"
          /\ UNCHANGED <<rows, config, resident, staged, sessions, failures, dirty,
                         acked, gone, kept, inherited>>
    BY DEF KeepRefused
  <1> DEFINE r == RecordOf(w)
  <1>a. /\ r \in Records /\ r.w = w
        /\ r.entity.tag = "span" => w.kind = "span" /\ r.entity.id \in standing'
        /\ clock' = clock + 1 /\ standing \subseteq standing' /\ standing' \subseteq SpanKeys
        /\ \A k \in standing' : k \in standing \/ r.entity = Natural(k)
        /\ serial' \in Nat /\ point_serial' \in [PointKeys -> Nat \cup {None}]
    BY <1>0, AdmittedRecord
  <1>b. /\ phase = "idle" /\ staged = Nothing /\ ending = {} /\ clock \in Nat
        /\ staged.put = {} /\ staged.deleted = {}
    BY <1>0 DEF Admit, StagedShape, TypeOK, Nothing
  <1>c. /\ ending' = IF Duplicate(r) THEN {} ELSE {r.entity}
        /\ phase' = "staged" /\ rows' = rows /\ config' = config /\ resident' = resident
        /\ staged' = staged /\ dirty' = dirty /\ acked' = acked /\ gone' = gone /\ kept' = kept
        /\ inherited' = inherited
    BY <1>0
  <1>d. /\ serial <= serial' /\ serial \in Nat
        /\ r.entity.tag = "assigned" => r.entity.id = serial + 1 /\ r.entity.id <= serial'
        /\ w.kind # "point" => point_serial' = point_serial
        /\ w.kind = "point" =>
             /\ r.entity.tag = "assigned" /\ w.key \in PointKeys
             /\ r.entity = Assigned(point_serial'[w.key])
             /\ point_serial[w.key] = None
             /\ \A k \in PointKeys : k # w.key => point_serial'[k] = point_serial[k]
    BY <1>0, AdmittedId DEF TypeOK
  <1> HIDE DEF r
  <1>1. TypeOK'
    BY <1>0, <1>a, <1>b, <1>c DEF TypeOK, Records
  <1>2. SlotsDistinct' /\ SpansNamed'
    BY <1>c DEF SlotsDistinct, SpansNamed, Live, Distinct
  <1>3. TimesDistinct'
    <2>1. \A x \in Live \cup gone : x.at \in Nat
      BY DEF TypeOK, Live, Records
    <2>2. Live' = Live
      BY <1>c DEF Live
    <2> QED
      BY <1>a, <1>b, <1>c, <2>1, <2>2 DEF TimesDistinct
  <1>4. StagedShape' /\ FileMirrorsBefore' /\ FileMirrorsResidency'
    BY <1>b, <1>c DEF StagedShape, FileMirrorsBefore, FileMirrorsResidency, AtRest, Before
  <1>5. StandingOrEnding'
    <2>1. ASSUME NEW k \in standing'
          PROVE  Natural(k) \in ending' \/ \E x \in resident' : x.entity = Natural(k)
      <3>1. CASE k \in standing
        BY <1>b, <1>c, <3>1 DEF StandingOrEnding
      <3>2. CASE r.entity = Natural(k) /\ Duplicate(r)
        <4>1. PICK x \in resident : Slot(x) = Slot(r)
          BY <3>2 DEF Duplicate
        <4>2. x.entity = r.entity
          BY <4>1 DEF Slot
        <4> QED
          BY <1>c, <3>2, <4>2
      <3>3. CASE r.entity = Natural(k) /\ ~Duplicate(r)
        BY <1>c, <3>3
      <3> QED
        BY <1>a, <2>1, <3>1, <3>2, <3>3
    <2>2. ASSUME NEW x \in kept \cap resident, x.entity.tag = "span"
          PROVE  x.entity.id \in standing' /\ x.entity \notin ending'
      <3>1. x.entity.id \in standing'
        BY <1>a, <2>2 DEF StandingOrEnding
      <3>2. ASSUME ~Duplicate(r), x.entity = r.entity
            PROVE  FALSE
        <4>1. x.w.kind = "span" /\ r.w.kind = "span"
          BY <1>a, <2>2, <3>2 DEF SpansNamed, Live
        <4>2. Slot(x) = Slot(r)
          BY <3>2, <4>1 DEF Slot
        <4> QED
          BY <3>2, <4>2 DEF Duplicate
      <3> QED
        BY <1>c, <3>1, <3>2
    <2> QED
      BY <1>c, <2>1, <2>2 DEF StandingOrEnding
  <1>6. CommittedStands' /\ BoundedFromOpen'
    BY <1>b, <1>c DEF CommittedStands, BoundedFromOpen
  <1>7. \A x \in kept : x.entity.tag = "assigned" =>
          x.entity.id \in Nat /\ x.entity.id <= serial /\ x.entity # r.entity
    <2>1. \A x \in kept : x.entity.tag = "assigned" => x.entity.id \in Nat
      BY DEF TypeOK, Records, EntityIds, NaturalIds, AssignedIds
    <2> QED
      BY <1>d, <2>1 DEF IdsAccounted
  <1>8. IdsAccounted'
    <2>1. \A x \in kept : x.entity.tag = "assigned" => x.entity.id <= serial'
      BY <1>a, <1>d, <1>7
    <2>2. \A x \in resident' \cup staged'.deleted : x \in kept' \/ x.entity \in inherited'
      BY <1>c DEF IdsAccounted
    <2> QED
      BY <1>c, <2>1, <2>2 DEF IdsAccounted
  <1>9. PointsStandOrEnding'
    <2>1. ASSUME NEW k \in PointKeys, point_serial'[k] # None,
                 Assigned(point_serial'[k]) \notin inherited
          PROVE  \/ Assigned(point_serial'[k]) \in ending'
                 \/ \E x \in resident : x.w.kind = "point" /\ x.w.key = k
                                        /\ x.entity = Assigned(point_serial'[k])
      <3>1. CASE w.kind = "point" /\ k = w.key
        <4>1. ~Duplicate(r)
          <5> SUFFICES ASSUME NEW x \in resident, Slot(x) = Slot(r)
                       PROVE  FALSE
            BY DEF Duplicate
          <5>1. x.entity = r.entity
            BY DEF Slot
          <5> QED
            BY <1>d, <1>7, <2>1, <3>1, <5>1 DEF IdsAccounted
        <4> QED
          BY <1>c, <1>d, <3>1, <4>1
      <3>2. CASE ~(w.kind = "point" /\ k = w.key)
        <4>1. point_serial'[k] = point_serial[k]
          BY <1>d, <3>2
        <4> QED
          BY <1>b, <2>1, <4>1 DEF PointsStandOrEnding, PointOf
      <3> QED
        BY <3>1, <3>2
    <2>2. ASSUME NEW x \in kept \cap resident, x.w.kind = "point", x.entity \notin inherited
          PROVE  x.entity = Assigned(point_serial'[x.w.key]) /\ x.entity \notin ending'
      <3>1. x.entity = Assigned(point_serial[x.w.key])
        BY <2>2 DEF PointsStandOrEnding, PointOf
      <3>2. x.w.key \in PointKeys
        BY <2>2, RecordsAssumption DEF TypeOK, Records, SpanWire, LogWire, PointWire
      <3>3. x.entity.tag = "assigned" /\ x.entity.id = point_serial[x.w.key]
        BY <3>1 DEF Assigned
      <3>4. point_serial[x.w.key] # None /\ x.entity # r.entity
        BY <1>7, <3>3, NoneAssumption
      <3> QED
        BY <1>c, <1>d, <3>1, <3>2, <3>4
    <2> QED
      BY <1>c, <2>1, <2>2 DEF PointsStandOrEnding, PointOf
  <1> QED
    BY <1>1, <1>2, <1>3, <1>4, <1>5, <1>6, <1>8, <1>9

(* The transaction commits: the file becomes what the shelves are.           *)
LEMMA CommitStep ==
    ASSUME StoreInv, Commit
    PROVE  StoreInv'
  <1> USE DEF StoreInv
  <1> DEFINE P == staged.put
             D == staged.deleted
  <1>0. /\ phase \in {"opening", "staged"} /\ phase' = "committed"
        /\ rows' = Replayed(rows, staged)
        /\ dirty' = dirty \ SlotsOf(P \cup D)
        /\ acked' = acked \cup (P \ D) /\ gone' = gone \cup D
        /\ config' = config /\ resident' = resident /\ staged' = staged /\ ending' = ending
        /\ standing' = standing /\ clock' = clock /\ kept' = kept
    BY DEF Commit, ledger, bounds
  <1>1. /\ P \subseteq resident \cup D /\ resident \cap D = {} /\ P \cap gone = {}
        /\ Distinct(resident \cup D) /\ Distinct(rows)
        /\ P \subseteq Records /\ D \subseteq Records
        /\ acked \subseteq rows /\ acked \subseteq resident /\ gone \cap (rows \cup resident) = {}
    BY <1>0 DEF StagedShape, SlotsDistinct, CommittedStands, TypeOK
  <1>2. \A x : x \in rows' <=>
          /\ x \in P \/ (x \in rows /\ \A p \in P : Slot(x) # Slot(p))
          /\ \A d \in D : Slot(x) # Slot(d)
    BY <1>0 DEF Replayed, Without, SlotsOf
  <1>3. \A x : Slot(x) \in dirty /\ (\A y \in P \cup D : Slot(x) # Slot(y)) => Slot(x) \in dirty'
    BY <1>0 DEF SlotsOf
  <1> HIDE DEF P, D
  <1>4. TypeOK'
    <2>1. rows' \subseteq Records
      BY <1>1, <1>2 DEF TypeOK
    <2>2. acked' \subseteq Records /\ gone' \subseteq Records /\ dirty' \subseteq Slots
      BY <1>0, <1>1 DEF TypeOK
    <2> QED
      BY <1>0, <2>1, <2>2 DEF TypeOK, Commit, ledger, bounds
  <1>5. Live' \subseteq Live /\ rows' \cup resident' \cup P \cup D \subseteq Live
    BY <1>0, <1>2 DEF Live, P, D
  <1>6. SlotsDistinct'
    <2>1. Distinct(P)
      BY <1>1 DEF Distinct
    <2>2. Distinct(rows')
      BY <1>1, <1>2, <2>1 DEF Distinct
    <2> QED
      BY <1>0, <1>1, <2>2 DEF SlotsDistinct, D, Distinct
  <1>7. TimesDistinct' /\ SpansNamed'
    <2>1. gone' \subseteq Live \cup gone
      BY <1>0, <1>5
    <2> QED
      BY <1>0, <1>5, <2>1 DEF TimesDistinct, SpansNamed
  <1>8. StagedShape' /\ FileMirrorsBefore'
    BY <1>0, <1>1 DEF StagedShape, FileMirrorsBefore
  <1>9. FileMirrorsResidency'
    <2> SUFFICES ASSUME NEW x \in rows' \cup resident, Slot(x) \notin dirty'
                 PROVE  x \in rows' <=> x \in resident
      BY <1>0 DEF FileMirrorsResidency
    <2>1. CASE \E y \in P \cup D : Slot(x) = Slot(y)
      <3>1. x \in rows' => x \in resident
        BY <1>1, <1>2, <2>1
      <3>2. x \in resident => x \in rows'
        <4> SUFFICES ASSUME x \in resident PROVE x \in rows'
          OBVIOUS
        <4>1. \A d \in D : Slot(x) # Slot(d)
          BY <1>1 DEF Distinct
        <4>2. x \in P
          BY <1>1, <2>1, <4>1 DEF Distinct
        <4> QED
          BY <1>2, <4>1, <4>2
      <3> QED
        BY <3>1, <3>2
    <2>2. CASE \A y \in P \cup D : Slot(x) # Slot(y)
      <3>1. Slot(x) \notin dirty
        BY <1>3, <2>2
      <3>2. x \notin P /\ x \notin D
        BY <2>2
      <3>3. x \in rows' <=> x \in rows
        BY <1>2, <2>2, <3>2
      <3>4. x \in Before <=> x \in resident
        BY <3>2 DEF Before, P, D
      <3>5. x \in rows \cup Before => (x \in rows <=> x \in Before)
        BY <1>0, <3>1 DEF FileMirrorsBefore
      <3> QED
        BY <3>3, <3>4, <3>5
    <2> QED
      BY <2>1, <2>2
  <1>10. StandingOrEnding' /\ BoundedFromOpen'
    <2>1. StandingOrEnding'
      BY <1>0 DEF StandingOrEnding
    <2>2. BoundedFromOpen'
      BY <1>0 DEF BoundedFromOpen
    <2> QED
      BY <2>1, <2>2
  <1>11. CommittedStands'
    <2>1. ASSUME NEW x \in acked'
          PROVE  x \in rows' /\ x \in resident
      <3>1. x \in resident
        BY <1>0, <1>1
      <3>2. \A d \in D : Slot(x) # Slot(d)
        BY <1>1, <3>1 DEF Distinct
      <3>3. x \in P \/ (x \in rows /\ \A p \in P : Slot(x) # Slot(p))
        BY <1>0, <1>1, <3>1 DEF Distinct
      <3> QED
        BY <1>2, <3>1, <3>2, <3>3
    <2>2. ASSUME NEW x \in gone', x \in rows' \/ x \in resident
          PROVE  FALSE
      BY <1>0, <1>1, <1>2, <2>2
    <2> QED
      BY <1>0, <2>1, <2>2 DEF CommittedStands
  <1>12. IdsAccounted' /\ PointsStandOrEnding'
    BY DEF Commit, ledger, IdsAccounted, PointsStandOrEnding, PointOf
  <1> QED
    BY <1>4, <1>6, <1>7, <1>8, <1>9, <1>10, <1>11, <1>12

(* The transaction fails: the slots it would have written are dirty.         *)
LEMMA CommitFailsStep ==
    ASSUME StoreInv, CommitFails
    PROVE  StoreInv'
  <1> USE DEF StoreInv
  <1>0. /\ phase = "staged" /\ phase' = "committed"
        /\ dirty' = dirty \cup SlotsOf(staged.put \cup staged.deleted)
        /\ UNCHANGED <<rows, config, resident, staged, ending, ledger, clock, sessions,
                       acked, gone, kept, inherited>>
        /\ failures' \in Nat
    BY DEF CommitFails, TypeOK
  <1>1. TypeOK'
    <2>1. SlotsOf(staged.put \cup staged.deleted) \subseteq Slots
      <3>1. staged.put \cup staged.deleted \subseteq Records
        BY DEF TypeOK
      <3> QED
        BY <3>1, RecordShape DEF SlotsOf
    <2> QED
      BY <1>0, <2>1 DEF TypeOK, ledger
  <1>2. SlotsDistinct' /\ TimesDistinct' /\ SpansNamed'
    BY <1>0 DEF SlotsDistinct, TimesDistinct, SpansNamed, Live, Distinct
  <1>3. StagedShape' /\ FileMirrorsBefore' /\ StandingOrEnding'
    BY <1>0 DEF StagedShape, FileMirrorsBefore, StandingOrEnding, ledger
  <1>4. FileMirrorsResidency'
    <2> SUFFICES ASSUME NEW x \in rows \cup resident, Slot(x) \notin dirty'
                 PROVE  x \in rows <=> x \in resident
      BY <1>0 DEF FileMirrorsResidency
    <2>1. Slot(x) \notin dirty /\ x \notin staged.put /\ x \notin staged.deleted
      BY <1>0 DEF SlotsOf
    <2>2. x \in Before <=> x \in resident
      BY <2>1 DEF Before
    <2> QED
      BY <1>0, <2>1, <2>2 DEF FileMirrorsBefore
  <1>5. CommittedStands' /\ BoundedFromOpen'
    BY <1>0 DEF CommittedStands, BoundedFromOpen
  <1>6. IdsAccounted' /\ PointsStandOrEnding'
    BY <1>0 DEF ledger, IdsAccounted, PointsStandOrEnding, PointOf
  <1> QED
    BY <1>1, <1>2, <1>3, <1>4, <1>5, <1>6

(* The hook tells the ledger what ended.                                     *)
LEMMA DeliverStep ==
    ASSUME StoreInv, Deliver
    PROVE  StoreInv'
  <1> USE DEF StoreInv
  <1>0. /\ phase = "committed" /\ phase' = "idle"
        /\ standing' = {k \in standing : Natural(k) \notin ending}
        /\ staged' = Nothing /\ ending' = {}
        /\ UNCHANGED <<rows, config, resident, serial, bounds, dirty, acked, gone, kept,
                       inherited>>
    BY DEF Deliver
  <1>1. TypeOK'
    <2>1. point_serial' \in [PointKeys -> Nat \cup {None}]
      BY DEF Deliver, TypeOK
    <2> QED
      BY <1>0, <2>1 DEF TypeOK, bounds, Nothing
  <1>2. SlotsDistinct' /\ TimesDistinct' /\ SpansNamed'
    <2>1. Live' \subseteq Live /\ clock' = clock /\ gone' = gone /\ kept' = kept
      BY <1>0 DEF Live, Nothing, bounds
    <2>2. SlotsDistinct'
      BY <1>0 DEF SlotsDistinct, Distinct, Nothing
    <2>3. TimesDistinct' /\ SpansNamed'
      BY <2>1 DEF TimesDistinct, SpansNamed
    <2> QED
      BY <2>2, <2>3
  <1>3. StagedShape' /\ FileMirrorsBefore' /\ FileMirrorsResidency'
    <2>1. StagedShape'
      BY <1>0 DEF StagedShape, Nothing
    <2>2. FileMirrorsBefore' /\ FileMirrorsResidency'
      BY <1>0 DEF FileMirrorsBefore, FileMirrorsResidency, AtRest
    <2> QED
      BY <2>1, <2>2
  <1>4. StandingOrEnding'
    <2>1. ASSUME NEW k \in standing'
          PROVE  \E r \in resident : r.entity = Natural(k)
      BY <1>0 DEF StandingOrEnding
    <2>2. ASSUME NEW r \in kept \cap resident, r.entity.tag = "span"
          PROVE  r.entity.id \in standing'
      <3>1. r.entity.id \in standing /\ r.entity \notin ending
        BY <2>2 DEF StandingOrEnding
      <3>2. r.entity \in EntityIds
        BY DEF TypeOK, Records
      <3>3. Natural(r.entity.id) = r.entity
        BY <2>2, <3>2 DEF Natural, EntityIds, NaturalIds, AssignedIds
      <3> QED
        BY <1>0, <3>1, <3>3
    <2> QED
      BY <1>0, <2>1, <2>2 DEF StandingOrEnding
  <1>5. CommittedStands' /\ BoundedFromOpen'
    BY <1>0 DEF CommittedStands, BoundedFromOpen
  <1>6. IdsAccounted'
    BY <1>0 DEF IdsAccounted, Nothing
  <1>7. PointsStandOrEnding'
    <2>1. \A k \in PointKeys : point_serial'[k] =
            IF Assigned(point_serial[k]) \in ending THEN None ELSE point_serial[k]
      BY DEF Deliver
    <2>2. ASSUME NEW k \in PointKeys, point_serial'[k] # None,
                 Assigned(point_serial'[k]) \notin inherited
          PROVE  \E r \in resident : r.w.kind = "point" /\ r.w.key = k
                                   /\ r.entity = Assigned(point_serial'[k])
      <3>1. point_serial'[k] = point_serial[k] /\ Assigned(point_serial[k]) \notin ending
        BY <2>1, <2>2
      <3> QED
        BY <2>2, <3>1 DEF PointsStandOrEnding, PointOf
    <2>3. ASSUME NEW r \in kept \cap resident, r.w.kind = "point", r.entity \notin inherited
          PROVE  r.entity = Assigned(point_serial'[r.w.key])
      <3>1. r.entity = Assigned(point_serial[r.w.key]) /\ r.entity \notin ending
        BY <2>3 DEF PointsStandOrEnding, PointOf
      <3>2. r.w.key \in PointKeys
        BY <2>3, RecordsAssumption DEF TypeOK, Records, SpanWire, LogWire, PointWire
      <3> QED
        BY <2>1, <3>1, <3>2
    <2> QED
      BY <1>0, <2>2, <2>3 DEF PointsStandOrEnding, PointOf
  <1> QED
    BY <1>1, <1>2, <1>3, <1>4, <1>5, <1>6, <1>7

(* Every step of the store keeps the invariant.                              *)
LEMMA StoreNext == StoreInv /\ [Next]_vars => StoreInv'
  <1> SUFFICES ASSUME StoreInv, [Next]_vars PROVE StoreInv'
    OBVIOUS
  <1>1. CASE UNCHANGED vars
    BY <1>1 DEF vars, ledger, bounds, StoreInv, TypeOK, SlotsDistinct, TimesDistinct, SpansNamed,
         StagedShape, FileMirrorsBefore, FileMirrorsResidency, StandingOrEnding, CommittedStands,
         BoundedFromOpen, Live, Before, Distinct, AtRest, IdsAccounted, PointsStandOrEnding, PointOf
  <1>2. CASE Next
    BY <1>2, OpenStep, LossStep, KeepStep, RefusalStep, RetentionPass, CommitStep,
       CommitFailsStep, DeliverStep DEF Next
  <1> QED
    BY <1>1, <1>2

(* Type correctness of the file-backed store.                                *)
THEOREM FileTypeCorrect == Spec => []TypeOK
  <1>1. StoreInv => TypeOK
    BY DEF StoreInv
  <1> QED
    BY <1>1, StoreInit, StoreNext, PTL DEF Spec

(* A record whose keep committed is in the file, and on the shelves while a  *)
(* session runs, until a pass evicts it; one whose eviction committed is     *)
(* never seen again: through any crashes, failed writes and reopenings.      *)
THEOREM CommittedAlwaysStands == Spec => []CommittedStands
  <1>1. StoreInv => CommittedStands
    BY DEF StoreInv
  <1> QED
    BY <1>1, StoreInit, StoreNext, PTL DEF Spec

(* Between operations the file is the shelves in every slot whose write did  *)
(* not fail; the session's ledger and the shelves agree on the spans'        *)
(* natural identities, and on the points' assigned ids wherever the id is    *)
(* the session's own: no row the session rehydrated came with it.            *)
THEOREM SidesAlwaysAgree == Spec => []SidesAgree
  <1>1. StoreInv => SidesAgree
    BY DEF StoreInv, SidesAgree, SpansStandWhileResident, StandingOrEnding, StagedShape,
         PointsStandWhileResident, PointsStandOrEnding
  <1> QED
    BY <1>1, StoreInit, StoreNext, PTL DEF Spec

(* A session is within its records and bytes ceilings from the moment it     *)
(* opens, whatever the file held.                                            *)
THEOREM AlwaysBoundedFromOpen == Spec => []BoundedFromOpen
  <1>1. StoreInv => BoundedFromOpen
    BY DEF StoreInv
  <1> QED
    BY <1>1, StoreInit, StoreNext, PTL DEF Spec
=============================================================================
