----------------------------- MODULE QueryPages -----------------------------
(***************************************************************************)
(* The records query as its callers use it (crates/query/src/engine.rs:    *)
(* records, records_leased): first pages and continuations of any query,   *)
(* with any cursor, altered or not, leased or not, while records are kept  *)
(* and evicted between the pages.  A page runs here in one step; QueryWalk *)
(* takes it apart and lets the store move under it.                        *)
(***************************************************************************)
EXTENDS Cursors, Functions, FiniteSets

CONSTANTS
    Candidates,   \* the records the store may hold: [key, view]
    Loads,        \* the resident sets the first page meets
    Queries,      \* the queries callers ask
    PageBudgets,  \* the budgets they admit them with
    Probe,        \* the one a foreign or altered cursor is presented with
    ScanBatch,    \* SCAN_BATCH
    MaxPages,     \* bound: pages asked
    MaxMoves      \* bound: steps of the store between two pages

INSTANCE Spend

(* What a page ends with: its outcome, the dimension cut and the cursor.   *)
Parts ==
    [outcome : {"Complete", "Degraded", "Refused"}, dimension : Ceilings \cup {"deadline", None},
     cursor : Seq(Byte) \cup {None}, omitted : Nat, refusal : Refusals \cup {None}]

ASSUME PagesAssumption ==
    /\ \A q \in Queries : WellFormed(q)
    /\ \A q \in Queries : FingerprintOf[CanonicalBytes(q)] \in Ids(WordBytes)
    /\ \A p, q \in Queries :
         FingerprintOf[CanonicalBytes(p)] = FingerprintOf[CanonicalBytes(q)]
           => CanonicalBytes(p) = CanonicalBytes(q)
    /\ \A c \in Candidates :
         c = [key |-> c.key, view |-> c.view] /\ c.key \in ResidencyKeys /\ IsView(c.view)
    /\ \A load \in Loads :
         /\ load \subseteq Candidates /\ IsFiniteSet(load)
         /\ \A r, s \in load : r.key.entity = s.key.entity => r = s
    /\ Probe \in PageBudgets
    /\ \A b \in PageBudgets : \A d \in Ceilings \cup {"deadline"} : b[d] \in Nat
    /\ ScanBatch \in Nat \ {0} /\ MaxPages \in Nat /\ MaxMoves \in Nat
    /\ None \notin Ceilings \cup {"deadline"} \cup Refusals \cup Parts
                  \cup [omitted : Nat, last : ResidencyKeys]

VARIABLES
    resident,   \* the records the store holds
    minted,     \* history: every cursor handed out, with its query and boundary
    answer,     \* the page just answered and what was asked, or None
    pages, moves

vars == <<resident, minted, answer, pages, moves>>

Init ==
    /\ resident \in Loads
    /\ minted = {} /\ answer = None /\ pages = 0 /\ moves = 0

-----------------------------------------------------------------------------
(* The store.                                                              *)

Keep ==
    /\ pages > 0 /\ moves < MaxMoves
    /\ \E c \in Candidates \ resident :
         /\ \A r \in resident : r.key.entity # c.key.entity
         /\ resident' = resident \cup {c}
    /\ moves' = moves + 1
    /\ answer' = None
    /\ UNCHANGED <<minted, pages>>

(* Oldest first.                                                           *)
Evict ==
    /\ pages > 0 /\ moves < MaxMoves
    /\ \E floor \in resident :
         resident' = {r \in resident : KeyBefore(floor.key, r.key)}
    /\ moves' = moves + 1
    /\ answer' = None
    /\ UNCHANGED <<minted, pages>>

-----------------------------------------------------------------------------
(* The walk of one page.                                                   *)

OfKind(kind) == {r \in resident : r.view.kind = kind}

InResidencyOrder(S) ==
    [n \in 1 .. Cardinality(S) |->
        CHOOSE r \in S : Cardinality({s \in S : s = r \/ KeyBefore(s.key, r.key)}) = n]

(* What a scan yields from behind a key.                                   *)
Behind(kind, after) == {r \in OfKind(kind) : after = None \/ KeyBefore(after, r.key)}
Ahead(kind, after) == InResidencyOrder(Behind(kind, after))

(* The batches of a scan are full but for the last.                        *)
BatchEnd(ahead, i) ==
    LET end == ((i - 1) \div ScanBatch + 1) * ScanBatch
    IN  IF end < Len(ahead) THEN end ELSE Len(ahead)

Part(outcome, dimension, cursor, omitted, refusal) ==
    [outcome |-> outcome, dimension |-> dimension, cursor |-> cursor,
     omitted |-> omitted, refusal |-> refusal]

(* A cursor keeps the chain's boundary; a first page's boundary is the     *)
(* tail of the batch it pulled.                                            *)
CursorBytes(walk, anchor, tail) ==
    Encode(CursorPayload(anchor.at, anchor.entity, walk.fingerprint,
                         IF walk.presented # None THEN walk.presented.snapshot ELSE tail))

IncludeAnchored(walk, dimension, tail) ==
    Part("Degraded", dimension,
         IF walk.included # None THEN CursorBytes(walk, walk.included, tail)
         ELSE IF walk.presented # None THEN Encode(walk.presented) ELSE None,
         0, None)

CountingDegrade(walk, tail) ==
    Part("Degraded", "bytes", CursorBytes(walk, walk.counting.last, tail),
         walk.counting.omitted, None)

FinishCounting(walk, tail) ==
    IF walk.counting # None THEN CountingDegrade(walk, tail)
    ELSE Part("Complete", None, None, 0, None)

BeforeExamining(walk, refusal, tail) ==
    IF walk.counting # None THEN CountingDegrade(walk, tail)
    ELSE IF walk.examined # None
    THEN Part("Degraded", refusal.dimension, CursorBytes(walk, walk.examined, tail), 0, None)
    ELSE Part("Refused", refusal.dimension, None, 0, refusal)

Stopped(walk, session, unexamined, part) ==
    [walk EXCEPT !.session = SettleScan(session, unexamined), !.stopped = part]

(* A record that passed the filter, past the scan charge.                  *)
Offer(walk, r, session, behind, tail) ==
    LET seen == [walk EXCEPT !.session = session]
        granted == Allow(session, "results", 1)
        paid == Allow(granted.session, "bytes", r.view.size)
    IN  IF walk.counting # None
        THEN [seen EXCEPT !.counting = [omitted |-> @.omitted + 1, last |-> r.key]]
        ELSE IF session.left.results = 0
        THEN Stopped(seen, session, behind, IncludeAnchored(walk, "results", tail))
        ELSE IF granted.refusal # None
        THEN Stopped(seen, granted.session, behind,
                     IncludeAnchored(walk, granted.refusal.dimension, tail))
        ELSE IF granted.session.left.bytes < r.view.size
        THEN [seen EXCEPT !.session = granted.session,
                          !.counting = [omitted |-> 1, last |-> r.key]]
        ELSE IF paid.refusal # None
        THEN Stopped(seen, paid.session, behind,
                     IncludeAnchored(walk, paid.refusal.dimension, tail))
        ELSE [seen EXCEPT !.session = paid.session, !.items = Append(@, r),
                          !.included = r.key]

(* One yielded record: the boundary, the scan charge, the filter, then the *)
(* page's ceilings.                                                        *)
Examine(walk, ahead, i) ==
    LET r == ahead[i]
        behind == BatchEnd(ahead, i) - i
        tail == ahead[BatchEnd(ahead, i)].key
        charge == Allow(walk.session, "scan", 1)
    IN  IF walk.stopped # None THEN walk
        ELSE IF walk.presented # None /\ KeyBefore(walk.presented.snapshot, r.key)
        THEN Stopped(walk, walk.session, behind + 1, FinishCounting(walk, tail))
        ELSE IF charge.refusal # None
        THEN Stopped(walk, charge.session, behind + 1,
                     BeforeExamining(walk, charge.refusal, tail))
        ELSE LET seen == [walk EXCEPT !.examined = r.key, !.scanned = @ + 1]
             IN  IF Matches(walk.query, r.view)
                 THEN Offer(seen, r, charge.session, behind, tail)
                 ELSE [seen EXCEPT !.session = charge.session]

Resume(payload) ==
    IF payload = None THEN None ELSE AdmissionKey(payload.position, payload.last_entity)

(* The page: a zero results ceiling is the whole answer, else the walk.    *)
WalkRecords(query, budget, payload) ==
    LET ahead == Ahead(query.kind, Resume(payload))
        start == [query |-> query, fingerprint |-> FingerprintOf[CanonicalBytes(query)],
                  presented |-> payload, session |-> AdmitBudget(budget), items |-> <<>>,
                  included |-> None, examined |-> None, scanned |-> 0, counting |-> None,
                  stopped |-> None]
        walk[i \in 0 .. Len(ahead)] ==
            IF i = 0 THEN start ELSE Examine(walk[i - 1], ahead, i)
        end == walk[Len(ahead)]
        stop == IF budget.results = 0 \/ ahead = <<>> THEN Part("Complete", None, None, 0, None)
                ELSE IF end.stopped # None THEN end.stopped
                ELSE FinishCounting(end, ahead[Len(ahead)].key)
    IN  IF budget.results = 0 THEN [start EXCEPT !.stopped = stop]
        ELSE [end EXCEPT !.stopped = stop]

-----------------------------------------------------------------------------
(* records and records_leased: the cursor is judged before any budget is   *)
(* admitted.                                                               *)
Ask(query, budget, bytes, boundary) ==
    LET fingerprint == FingerprintOf[CanonicalBytes(query)]
        lease == IF boundary = None THEN None ELSE SnapshotLease(1, boundary)
        error == IF bytes = None THEN None ELSE CursorError(bytes, fingerprint, lease)
        page == WalkRecords(query, budget, IF bytes = None THEN None ELSE Parse(bytes))
        asked == [query |-> query, budget |-> budget, bytes |-> bytes, boundary |-> boundary]
    IN  /\ pages < MaxPages
        /\ pages' = pages + 1
        /\ UNCHANGED <<resident, moves>>
        /\ IF error # None
           THEN /\ answer' = [asked |-> asked, error |-> error, page |-> None]
                /\ UNCHANGED minted
           ELSE /\ answer' = [asked |-> asked, error |-> None, page |-> page]
                /\ minted' = minted \cup
                     {[bytes |-> b, query |-> query, boundary |-> Parse(b).snapshot] :
                         b \in {page.stopped.cursor} \ {None}}

FirstPage == \E q \in Queries, b \in PageBudgets : Ask(q, b, None, None)

(* A cursor comes back under its own query.                                *)
Continue == \E m \in minted, b \in PageBudgets : Ask(m.query, b, m.bytes, None)

(* Or under another one.                                                   *)
ContinueElsewhere == \E m \in minted, q \in Queries : Ask(q, Probe, m.bytes, None)

(* Or under a lease, of its own boundary or of another.                    *)
ContinueLeased ==
    \E m \in minted :
      \E boundary \in {m.boundary} \cup {c.key : c \in Candidates} :
        Ask(m.query, Probe, m.bytes, boundary)

(* Or altered: cut short, run on, or with one byte changed.                *)
Alterations(bytes) ==
    {SubSeq(bytes, 1, n) : n \in 0 .. Len(bytes) - 1}
    \cup {bytes \o <<0>>}
    \cup {[bytes EXCEPT ![i] = (@ + 1) % Base] : i \in DOMAIN bytes}

ContinueAltered ==
    \E m \in minted : \E bytes \in Alterations(m.bytes) : Ask(m.query, Probe, bytes, None)

Next == Keep \/ Evict \/ FirstPage \/ Continue \/ ContinueElsewhere
        \/ ContinueLeased \/ ContinueAltered

Spec == Init /\ [][Next]_vars

-----------------------------------------------------------------------------
(* Properties.                                                             *)

Answered == answer # None /\ answer.page # None
Of(bytes) == {m \in minted : m.bytes = bytes}

(* A cursor continues the query it was minted for and no other, under a    *)
(* lease only inside the leased boundary, and is never refused where it    *)
(* belongs (query-model.md, invariants 3 and 9); bytes no page minted are  *)
(* accepted only when they are the one encoding of what they decode to.    *)
CursorsBelong ==
    answer # None /\ answer.asked.bytes # None =>
      LET asked == answer.asked
      IN  /\ \A m \in Of(asked.bytes) :
               (answer.error = None)
                 <=> /\ m.query = asked.query
                     /\ asked.boundary # None => asked.boundary = m.boundary
          /\ answer.error = None => Encode(Parse(asked.bytes)) = asked.bytes

(* What a query asks for, said without the filters' own tests.             *)
Times(view) ==
    IF view.kind = "Spans" THEN {view.record.start}
    ELSE IF view.kind = "LogRecords" /\ view.record.time = None
    THEN {view.record.observed} \ {None} ELSE {view.record.time}
Belongs(query, view) ==
    LET owner == IF view.kind = "MetricPoints" THEN view.stream ELSE view.record
    IN  /\ query.service # None =>
             \E k \in DOMAIN owner.resource :
               /\ k = "service.name"
               /\ owner.resource[k] = [kind |-> "String", text |-> query.service]
        /\ query.range # None => Times(view) \cap (query.range.from .. query.range.to - 1) # {}
        /\ query.severity # None => view.record.severity \in query.severity .. 24
        /\ query.scope # None => owner.scope = query.scope

(* Inside the continuation's window: behind its anchor, up to its boundary. *)
Window(page) ==
    {r \in OfKind(page.query.kind) :
        page.presented # None =>
          /\ KeyBefore(Resume(page.presented), r.key)
          /\ ~KeyBefore(page.presented.snapshot, r.key)}

(* A page shows the first of the records asked for, in residency order and *)
(* once each; a complete one shows all; and a cursor accounts for each one *)
(* it steps over, shown or counted as omitted, in an unchanged boundary.   *)
PageExact ==
    Answered /\ answer.asked.budget.results > 0 =>
      LET page == answer.page
          due == {r \in Window(page) : Belongs(page.query, r.view)}
          shown == {page.items[i] : i \in DOMAIN page.items}
          cursor == page.stopped.cursor
      IN  /\ shown \subseteq due
          /\ \A i, j \in DOMAIN page.items :
               i < j => KeyBefore(page.items[i].key, page.items[j].key)
          /\ \A r \in due, s \in shown : KeyBefore(r.key, s.key) => r \in shown
          /\ page.stopped.outcome = "Complete" => shown = due
          /\ cursor # None =>
               LET next == Parse(cursor)
               IN  /\ Cardinality({r \in due : ~KeyBefore(Resume(next), r.key)})
                        = Len(page.items) + page.stopped.omitted
                   /\ page.presented # None => next.snapshot = page.presented.snapshot

(* A page stays inside its budget, and the dimension it names is the one   *)
(* that ran out: a page is not cut short while it could have gone on.      *)
SpendTruthful ==
    Answered /\ answer.asked.budget.results > 0 =>
      LET page == answer.page
          budget == answer.asked.budget
          size == SumFunction([i \in DOMAIN page.items |-> page.items[i].view.size])
          named == page.stopped.dimension
      IN  /\ Len(page.items) <= budget.results
          /\ size <= budget.bytes
          /\ page.scanned <= budget.scan
          /\ page.session.left.scan \in 0 .. budget.scan - page.scanned
          /\ page.stopped.outcome = "Complete" <=> named = None
          /\ named = "results" => Len(page.items) = budget.results
          /\ named = "scan" => page.scanned = budget.scan
          /\ named = "bytes" =>
               \E r \in Window(page) : Belongs(page.query, r.view) /\ size + r.view.size > budget.bytes
          /\ named = "deadline" => page.session.now >= budget.deadline
          /\ page.stopped.outcome = "Refused" =>
               /\ page.scanned = 0
               /\ page.stopped.refusal.observed >= page.stopped.refusal.limit
=============================================================================
