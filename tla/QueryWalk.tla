----------------------------- MODULE QueryWalk -----------------------------
(***************************************************************************)
(* A paged read of one signal kind while the store moves underneath it:    *)
(* the query engine's walk (crates/query/src/engine.rs) driven page by     *)
(* page by the investigation flow (crates/investigation/src/flow.rs,       *)
(* walk_pages).  The walk sees the store through LockedStore, one mutex    *)
(* hold per call, so keeps and retention passes fall between any two of    *)
(* its store calls.                                                        *)
(*                                                                         *)
(* A record is its admission key.  Keys are numbers in residency order     *)
(* (admission time, then entity id); a key is kept at most once, because a *)
(* re-admission is stamped anew: the same entity under another key.        *)
(***************************************************************************)
EXTENDS Integers, Sequences, FiniteSets, FiniteSetsExt

CONSTANTS
    MaxKey,      \* bound: admission keys the store may ever hold
    EntityOf,    \* the entity id of each key
    Matching,    \* the keys whose records pass the query's filters
    Evidence,    \* accounted size of each record
    ScanBatch,   \* SCAN_BATCH
    StallLimit,  \* EMPTY_PAGE_STALL_LIMIT
    Budgets,     \* the per-page budgets callers admit with
    MaxPages,    \* the chain's max_total_pages
    MayExpire,   \* whether a page's deadline may pass
    Drivers,     \* the storage drivers of the instance
    None

Keys == 1..MaxKey
Dimensions == {"deadline", "results", "bytes", "scan"}
Parts == {"complete", "degraded", "refused", "stalled"}
Cursors == [anchor: Keys, snapshot: Keys]

ASSUME WalkAssumption ==
    /\ MaxKey \in Nat \ {0}
    /\ DOMAIN EntityOf = Keys
    /\ Matching \subseteq Keys
    /\ Evidence \in [Keys -> Nat]
    /\ ScanBatch \in Nat \ {0}
    /\ StallLimit \in Nat \ {0}
    /\ Budgets \subseteq [results: Nat, bytes: Nat, scan: Nat]
    /\ MaxPages \in Nat
    /\ MayExpire \in BOOLEAN
    /\ Drivers \subseteq {"conforming", "stalling"}
    /\ None \notin Keys /\ None \notin Cursors /\ None \notin Budgets
    /\ None \notin Dimensions /\ None \notin Parts

VARIABLES
    driver,      \* the driver read from; a stalling one breaks its contract
    resident,    \* the kind's resident records
    kept,        \* every key ever kept
    steady,      \* history: resident since the chain began, without a break
    pc,          \* "admit", "pull", "examine", "answer" or "done"
    presented,   \* the continuation cursor of the page, or None
    budget,      \* what the page was admitted with
    left,        \* the spend ledger: what remains of it
    after,       \* where the next batch resumes; 0 is the kind's start
    batch,       \* pulled records not examined yet
    more,        \* the driver's cursor behind the batch, or None
    frontier,    \* the pulled-batch tail, or None
    empties,     \* consecutive empty driver pages
    pulled,      \* history: records pulled for this page
    examined,    \* the last record examined, or None
    items,       \* the page's records, in yield order
    counted,     \* records the byte wall left out, counted
    gap,         \* the evicted anchor still to be named, or None
    coverage,    \* the page's coverage entries
    outcome,     \* the page's part outcome and cursor
    pages,       \* pages run by the chain
    delivered,   \* the chain's records
    skipped      \* history: records counted as omitted by earlier pages

store == <<driver, resident, kept, steady>>
chain == <<pages, delivered, skipped>>
walk == <<after, more, frontier, empties, pulled>>
vars == <<store, chain, walk, pc, presented, budget, left, batch, examined,
          items, counted, gap, coverage, outcome>>

NoOutcome == [part |-> None, dimension |-> None, next |-> None, last |-> None]

TypeOK ==
    /\ driver \in Drivers
    /\ resident \subseteq kept /\ kept \subseteq Keys /\ steady \subseteq resident
    /\ pc \in {"admit", "pull", "examine", "answer", "done"}
    /\ presented \in Cursors \cup {None}
    /\ budget \in Budgets \cup {None}
    /\ left \in [results: Nat, bytes: Nat, scan: Nat]
    /\ after \in Keys \cup {0}
    /\ batch \subseteq Keys
    /\ more \in Keys \cup {None}
    /\ frontier \in Keys \cup {None}
    /\ empties \in Nat /\ pulled \in Nat
    /\ examined \in Keys \cup {None}
    /\ items \in Seq(Keys) /\ delivered \in Seq(Keys)
    /\ counted \subseteq Keys /\ skipped \subseteq Keys
    /\ gap \in Keys \cup {None}
    /\ coverage \subseteq [kind: {"boundary", "gap", "uncounted", "stall"},
                           after: Keys, before: Keys \cup {None}]
    /\ outcome \in [part: Parts \cup {None}, dimension: Dimensions \cup {None},
                    next: Cursors \cup {None}, last: Keys \cup {None}]
    /\ pages \in Nat

Init ==
    /\ driver \in Drivers
    /\ resident \in SUBSET Keys
    /\ \A j, k \in resident : EntityOf[j] = EntityOf[k] => j = k
    /\ kept = resident /\ steady = resident
    /\ pc = "admit" /\ presented = None /\ budget = None
    /\ left = [results |-> 0, bytes |-> 0, scan |-> 0]
    /\ after = 0 /\ batch = {} /\ more = None /\ frontier = None
    /\ empties = 0 /\ pulled = 0 /\ examined = None
    /\ items = <<>> /\ counted = {} /\ gap = None /\ coverage = {}
    /\ outcome = NoOutcome
    /\ pages = 0 /\ delivered = <<>> /\ skipped = {}

-----------------------------------------------------------------------------
(* The store, between the walk's calls.  Eviction is oldest first, so what   *)
(* one operation evicts is what lies at or below some key.                   *)

Above(keys, floor) == {k \in keys : k > floor}

(* The record known by this entity id is resident.                           *)
ResidentEntity(entity) == \E r \in resident : EntityOf[r] = entity

(* The pump keeps a record, in whatever order handlers stamped them, and the *)
(* keep's own retention pass may evict.                                      *)
StoreKeeps ==
    \E k \in Keys \ kept, floor \in 0..MaxKey :
      /\ ~ResidentEntity(EntityOf[k])
      /\ kept' = kept \cup {k}
      /\ resident' = Above(resident \cup {k}, floor)
      /\ steady' = Above(steady, floor)
      /\ UNCHANGED <<driver, chain, walk, pc, presented, budget, left, batch,
                     examined, items, counted, gap, coverage, outcome>>

(* The retention tick evicts.                                                *)
StoreExpires ==
    \E floor \in resident :
      /\ resident' = Above(resident, floor)
      /\ steady' = Above(steady, floor)
      /\ UNCHANGED <<driver, kept, chain, walk, pc, presented, budget, left,
                     batch, examined, items, counted, gap, coverage, outcome>>

-----------------------------------------------------------------------------
(* What the page answers with.                                               *)

(* The snapshot bound: a first page has none.                                *)
Bound == IF presented = None THEN MaxKey ELSE presented.snapshot
InSnapshot(k) == k <= Bound
LastIncluded == IF items = <<>> THEN None ELSE items[Len(items)]

(* A minted cursor: the chain's snapshot passes through, a first page's is   *)
(* its pulled tail, and without one the anchor stands in.                    *)
Mint(anchor, tail) ==
    [anchor |-> anchor,
     snapshot |-> IF presented # None THEN presented.snapshot
                  ELSE IF tail # None THEN tail ELSE anchor]

(* Fault: a gap always runs to the boundary.                                 *)
NamedGapToBound(before) ==
    IF gap = None THEN {} ELSE {[kind |-> "gap", after |-> gap, before |-> Bound]}

(* The gap behind an evicted anchor, named by what follows it.               *)
NamedGap(before) ==
    IF gap = None THEN {} ELSE {[kind |-> "gap", after |-> gap, before |-> before]}

Outcome(part, dimension, next, last) ==
    [part |-> part, dimension |-> dimension, next |-> next, last |-> last]

(* The walk stops and the page is assembled: a gap nothing resolved names    *)
(* the snapshot boundary.                                                    *)
Stop(result, entries) ==
    /\ outcome' = result
    /\ coverage' = coverage \cup entries
    /\ gap' = None
    /\ pc' = "answer"

(* The cursor of a byte wall is anchored behind everything it counted.       *)
CountingDegrade(tail) == Outcome("degraded", "bytes", Mint(Max(counted), tail), None)

(* The kind's end or the snapshot bound.                                     *)
FinishCountingOrComplete(tail) ==
    Stop(IF counted # {} THEN CountingDegrade(tail) ELSE Outcome("complete", None, None, None),
         NamedGap(Bound))

(* Fault: the cursor is anchored at the record that was not returned.        *)
IncludeAnchoredAtRefused(k, dimension) ==
    Outcome("degraded", dimension, Mint(k, frontier), None)

(* A stop at an examined record continues behind the last record returned,   *)
(* else where the page came from; a first page that returned nothing only    *)
(* names the record.                                                         *)
IncludeAnchoredDegrade(k, dimension) ==
    IF items # <<>> THEN Outcome("degraded", dimension, Mint(LastIncluded, frontier), None)
    ELSE IF presented # None THEN Outcome("degraded", dimension, presented, None)
    ELSE Outcome("degraded", dimension, None, k)

(* Fault: a stop forgets the tail it pulled.                                 *)
ScanSettledNothing(charge, unexamined) == left.scan - charge

(* What is left of max_scan once `charge` was charged and the abandoned      *)
(* batch tail settled.                                                       *)
ScanSettled(charge, unexamined) ==
    LET rest == left.scan - charge
    IN  IF unexamined > rest THEN 0 ELSE rest - unexamined

Expiry == IF MayExpire THEN {"deadline"} ELSE {}

-----------------------------------------------------------------------------
(* One page.                                                                 *)

(* Each page admits its budget afresh and looks its anchor up once.          *)
Admitting ==
    /\ pc = "admit"
    /\ pages < MaxPages
    /\ budget' \in Budgets
    /\ left' = budget'
    /\ after' = IF presented = None THEN 0 ELSE presented.anchor
    /\ batch' = {} /\ more' = None /\ frontier' = None /\ empties' = 0 /\ pulled' = 0
    /\ examined' = None /\ items' = <<>> /\ counted' = {}
    /\ UNCHANGED <<store, chain, presented>>

Boundary ==
    IF presented = None THEN {}
    ELSE {[kind |-> "boundary", after |-> presented.anchor, before |-> presented.snapshot]}

EvictedAnchor ==
    IF presented = None THEN None
    ELSE IF ResidentEntity(EntityOf[presented.anchor]) THEN None ELSE presented.anchor

Admit ==
    /\ Admitting
    /\ budget'.results > 0
    /\ gap' = EvictedAnchor
    /\ coverage' = Boundary
    /\ outcome' = NoOutcome
    /\ pc' = "pull"

(* A zero results ceiling is the whole answer.                               *)
AdmitNothing ==
    /\ Admitting
    /\ budget'.results = 0
    /\ gap' = None
    /\ coverage' = Boundary \cup
         (IF EvictedAnchor = None THEN {}
          ELSE {[kind |-> "gap", after |-> presented.anchor, before |-> presented.snapshot]})
    /\ outcome' = Outcome("complete", None, None, None)
    /\ pc' = "answer"

(* One driver scan: the first ScanBatch records behind `after`, and a cursor *)
(* at the last of them when a record follows.                                *)
Ahead == Above(resident, after)

Scanned == {k \in Ahead : Cardinality({j \in Ahead : j < k}) < ScanBatch}

Pull ==
    /\ pc = "pull"
    /\ Scanned # {}
    /\ batch' = Scanned
    /\ more' = IF Scanned = Ahead THEN None ELSE Max(Scanned)
    /\ frontier' = Max(Scanned)
    /\ empties' = 0
    /\ pulled' = pulled + Cardinality(Scanned)
    /\ pc' = "examine"
    /\ UNCHANGED <<store, chain, after, presented, budget, left, examined, items,
                   counted, gap, coverage, outcome>>

PullNothing ==
    /\ pc = "pull"
    /\ Scanned = {}
    /\ frontier' = None
    /\ FinishCountingOrComplete(None)
    /\ UNCHANGED <<store, chain, after, more, empties, pulled, presented, budget,
                   left, batch, examined, items, counted>>

(* The successors a stalling driver promises: back to the start, or the end. *)
StallCursors == {1, MaxKey}

(* Fault: empty pages are not counted.                                       *)
PullStallUncounted ==
    /\ driver = "stalling"
    /\ pc = "pull"
    /\ \E cursor \in StallCursors : after' = cursor /\ frontier' = cursor
    /\ UNCHANGED <<store, chain, pc, gap, coverage, outcome, empties, more, pulled,
                   presented, budget, left, batch, examined, items, counted>>

(* A driver breaking its contract: an empty page and a successor cursor.     *)
PullStall ==
    /\ driver = "stalling"
    /\ pc = "pull"
    /\ \E cursor \in StallCursors :
         /\ empties' = empties + 1
         /\ frontier' = cursor
         /\ IF empties' >= StallLimit
            THEN /\ Stop(Outcome("stalled", None, None, None),
                         NamedGap(Bound) \cup
                         {[kind |-> "stall", before |-> None,
                           after |-> IF examined # None THEN examined ELSE cursor]})
                 /\ UNCHANGED after
            ELSE /\ after' = cursor
                 /\ UNCHANGED <<pc, gap, coverage, outcome>>
    /\ UNCHANGED <<store, chain, more, pulled, presented, budget, left, batch,
                   examined, items, counted>>

(* The batch is used up.                                                     *)
BatchEnds ==
    /\ pc = "examine"
    /\ batch = {}
    /\ IF more # None
       THEN after' = more /\ pc' = "pull" /\ UNCHANGED <<gap, coverage, outcome>>
       ELSE FinishCountingOrComplete(frontier) /\ UNCHANGED after
    /\ UNCHANGED <<store, chain, more, frontier, empties, pulled, presented,
                   budget, left, batch, examined, items, counted>>

-----------------------------------------------------------------------------
(* One yielded record, in the order of the code's gates.  The deadline may   *)
(* be found passed at any of the three charges.                              *)

Yielded == Min(batch)

(* Past the snapshot: it and the tail behind it were pulled, never examined. *)
PastSnapshot ==
    /\ pc = "examine" /\ batch # {}
    /\ ~InSnapshot(Yielded)
    /\ left' = [left EXCEPT !.scan = ScanSettled(0, Cardinality(batch))]
    /\ FinishCountingOrComplete(frontier)
    /\ UNCHANGED <<store, chain, walk, presented, budget, batch, examined, items, counted>>

(* stop_before_examining: the scan charge is refused.                        *)
StopBeforeExamining ==
    /\ pc = "examine" /\ batch # {}
    /\ InSnapshot(Yielded)
    /\ left' = [left EXCEPT !.scan = ScanSettled(0, Cardinality(batch))]
    /\ \E dimension \in Expiry \cup (IF left.scan = 0 THEN {"scan"} ELSE {}) :
         IF counted # {}
         THEN Stop(CountingDegrade(frontier),
                   NamedGap(Bound) \cup
                   {[kind |-> "uncounted", after |-> Max(counted), before |-> None]})
         ELSE IF examined # None
         THEN Stop(Outcome("degraded", dimension, Mint(examined, frontier), None),
                   NamedGap(Bound))
         ELSE Stop(Outcome("refused", dimension, None, None), NamedGap(Bound))
    /\ UNCHANGED <<store, chain, walk, presented, budget, batch, examined, items, counted>>

(* The record is examined: charged to the scan, and the first one behind an  *)
(* evicted anchor closes its gap.                                            *)
Examining(k) ==
    /\ pc = "examine" /\ batch # {}
    /\ k = Yielded
    /\ InSnapshot(k)
    /\ left.scan > 0
    /\ examined' = k
    /\ UNCHANGED <<store, chain, walk, presented, budget>>

Passing(k) ==
    /\ batch' = batch \ {k}
    /\ coverage' = coverage \cup NamedGap(k)
    /\ gap' = None
    /\ UNCHANGED <<pc, outcome>>

FilteredOut ==
    \E k \in batch :
      /\ Examining(k)
      /\ k \notin Matching
      /\ left' = [left EXCEPT !.scan = @ - 1]
      /\ Passing(k)
      /\ UNCHANGED <<items, counted>>

Count ==
    \E k \in batch :
      /\ Examining(k)
      /\ k \in Matching /\ counted # {}
      /\ left' = [left EXCEPT !.scan = @ - 1]
      /\ counted' = counted \cup {k}
      /\ Passing(k)
      /\ UNCHANGED items

(* The results gate: nothing is left, or the deadline passed at the charge.  *)
ResultsRefused ==
    \E k \in batch :
      /\ Examining(k)
      /\ k \in Matching /\ counted = {}
      /\ \E dimension \in IF left.results = 0 THEN {"results"} ELSE Expiry :
           Stop(IncludeAnchoredDegrade(k, dimension), NamedGap(k))
      /\ left' = [left EXCEPT !.scan = ScanSettled(1, Cardinality(batch) - 1)]
      /\ UNCHANGED <<batch, items, counted>>

(* The byte wall: from here on the walk counts what it leaves out.           *)
ByteWall ==
    \E k \in batch :
      /\ Examining(k)
      /\ k \in Matching /\ counted = {} /\ left.results > 0
      /\ left.bytes < Evidence[k]
      /\ left' = [left EXCEPT !.scan = @ - 1, !.results = @ - 1]
      /\ counted' = {k}
      /\ Passing(k)
      /\ UNCHANGED items

(* The deadline passed at the byte charge.                                   *)
BytesRefused ==
    \E k \in batch :
      /\ Examining(k)
      /\ k \in Matching /\ counted = {} /\ left.results > 0
      /\ left.bytes >= Evidence[k]
      /\ \E dimension \in Expiry : Stop(IncludeAnchoredDegrade(k, dimension), NamedGap(k))
      /\ left' = [left EXCEPT !.scan = ScanSettled(1, Cardinality(batch) - 1),
                              !.results = @ - 1]
      /\ UNCHANGED <<batch, items, counted>>

Include ==
    \E k \in batch :
      /\ Examining(k)
      /\ k \in Matching /\ counted = {} /\ left.results > 0
      /\ left.bytes >= Evidence[k]
      /\ left' = [scan |-> left.scan - 1, results |-> left.results - 1,
                  bytes |-> left.bytes - Evidence[k]]
      /\ items' = Append(items, k)
      /\ Passing(k)
      /\ UNCHANGED counted

-----------------------------------------------------------------------------
(* The chain: walk_pages.                                                    *)

(* The page is mirrored and its records join the chain's; the part ends      *)
(* without a cursor or at the very cursor it was presented.                  *)
Answer ==
    /\ pc = "answer"
    /\ pages' = pages + 1
    /\ delivered' = delivered \o items
    /\ skipped' = skipped \cup counted
    /\ IF outcome.next = None \/ outcome.next = presented
       THEN pc' = "done" /\ UNCHANGED presented
       ELSE pc' = "admit" /\ presented' = outcome.next
    /\ items' = <<>> /\ counted' = {}
    /\ UNCHANGED <<store, walk, budget, left, batch, examined, gap, coverage, outcome>>

(* The chain's page ceiling.                                                 *)
ChainStops ==
    /\ pc = "admit"
    /\ pages >= MaxPages
    /\ pc' = "done"
    /\ UNCHANGED <<store, chain, walk, presented, budget, left, batch, examined,
                   items, counted, gap, coverage, outcome>>

Page == \/ Admit \/ AdmitNothing
        \/ Pull \/ PullNothing \/ PullStall \/ BatchEnds
        \/ PastSnapshot \/ StopBeforeExamining \/ FilteredOut \/ Count
        \/ ResultsRefused \/ ByteWall \/ BytesRefused \/ Include
        \/ Answer \/ ChainStops

Next == Page \/ StoreKeeps \/ StoreExpires

Spec == Init /\ [][Next]_vars

(* The flow's thread runs on; ingestion and retention owe the walk nothing.  *)
FairSpec == Spec /\ WF_vars(Page)

-----------------------------------------------------------------------------
(* Properties.                                                               *)

(* What a page shows can be trusted when its driver keeps the scan contract; *)
(* what it spends and that it ends, always.                                  *)
Conforming == driver = "conforming"

InOrder(s) == \A i, j \in DOMAIN s : i < j => s[i] < s[j]
InSeq(k, s) == \E i \in DOMAIN s : s[i] = k

(* Paging never shows a record twice nor out of order: over the whole chain, *)
(* whatever was kept or evicted between its store calls, the delivered keys  *)
(* strictly ascend (query-model.md: "records appear twice or vanish between  *)
(* pages").                                                                  *)
EachRecordOnce == Conforming => InOrder(delivered \o items)

Accounted(k) == InSeq(k, delivered \o items) \/ k \in skipped \cup counted

(* Nor does it lose one: a matching record resident since the chain began    *)
(* and still resident has been delivered or counted as omitted once a cursor *)
(* is anchored at or behind it, and once a page says the part is complete    *)
(* nothing inside the snapshot is missing.                                   *)
NothingLost == Conforming =>
    /\ presented # None =>
         \A k \in steady \cap Matching : k <= presented.anchor => Accounted(k)
    /\ pc = "done" /\ outcome.part = "complete" /\ budget.results > 0 =>
         \A k \in steady \cap Matching : InSnapshot(k) => Accounted(k)

(* A page stays within the ceilings it was admitted with, and the scan       *)
(* ledger charges each pulled record once, examined or abandoned, up to the  *)
(* ceiling.                                                                  *)
BytesOf(s) == SumFunction([i \in DOMAIN s |-> Evidence[s[i]]])

BudgetKept ==
    budget # None =>
      /\ Len(items) <= budget.results
      /\ BytesOf(items) <= budget.bytes
      /\ pc = "answer" /\ outcome.part \in {"degraded", "refused"} =>
           budget.scan - left.scan = IF pulled > budget.scan THEN budget.scan ELSE pulled

(* The snapshot of a chain is fixed by its first page, every cursor is       *)
(* anchored inside it, and each continuation advances, or says that its      *)
(* deadline passed.                                                          *)
CursorsProgress ==
    Conforming /\ pc = "answer" /\ outcome.next # None =>
      /\ outcome.next.anchor <= outcome.next.snapshot
      /\ presented # None =>
           /\ outcome.next.snapshot = presented.snapshot
           /\ outcome.next.anchor > presented.anchor \/ outcome.dimension = "deadline"

(* A gap in coverage is a real hole: its anchor was evicted, and no record   *)
(* resident since the chain began lies inside it.  A refused page examined   *)
(* nothing and a page of zero results asks for nothing: their gaps run to    *)
(* the boundary.                                                             *)
GapsAreHoles ==
    Conforming /\ pc = "answer" /\ outcome.part # "refused" /\ budget.results > 0 =>
      \A e \in coverage : e.kind = "gap" =>
        /\ e.after \notin resident
        /\ \A k \in steady : ~(e.after < k /\ k < e.before)

(* A byte omission's count is complete unless coverage names an uncounted    *)
(* tail: every standing record of the snapshot was returned or counted.      *)
CountIsComplete ==
    Conforming /\ pc = "answer" /\ outcome.dimension = "bytes" /\ (\A e \in coverage : e.kind # "uncounted") =>
      \A k \in steady \cap Matching : k <= outcome.next.snapshot => Accounted(k)

(* A chain shows each standing record exactly once and moves on with every   *)
(* page, whatever is kept and evicted between its calls (engine.rs: run).    *)
ChainExact == EachRecordOnce /\ NothingLost /\ CursorsProgress

(* What a page says it left out is what it left out: gaps and counts.        *)
CutsTruthful == GapsAreHoles /\ CountIsComplete

(* The chain ends, even over a driver that yields empty pages for ever.      *)
ChainEnds == <>(pc = "done")

=============================================================================
