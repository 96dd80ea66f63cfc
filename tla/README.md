# Runtime Trail: verification project

TLA+ models, TLC runs and TLAPS proofs of the native core of Runtime Trail
(`crates/`): the path of a telemetry record from a socket, through the transport
edge, decoding, the admission ledger and the bounded hand-off queue, into the store
and out of it by eviction; the file the store may be kept in; the paged queries, the
trace investigation and the correlation run that read the store meanwhile; and the
two surfaces, HTTP and MCP, on which an investigation is asked for and answered.

Paths below are relative to the repository root (`crates/...`), which the project
file's `map` prefixes with `src/`.

## 1. Inventory

| component | state | operations | interacts with |
| --- | --- | --- | --- |
| transport edge (`server/listener.rs`, `transport_guard.rs`) | connection permits, one atomic byte counter | accept, charge, release | accept loop, every request task |
| OTLP/HTTP and OTLP/gRPC (`server/otlp_http.rs`, `otlp_grpc.rs`), investigation endpoint (`investigation_http.rs`) | per-request task | gate, charge, bounded read, admit or investigate, answer | budget, pipeline, draining flag |
| telemetry model (`telemetry-model`: values, sizes, budgets, spans, logs, metrics) | none | build, measure, gate, compare | decoder, ledger |
| wire decoding (`telemetry-ingestion/decode.rs`) | none | translate one record, or refuse it | pipeline |
| ingestion pipeline (`telemetry-ingestion/pipeline.rs`) | draining flag | gates, per-record admission, export-atomic hand-off and its undo | ledger under its mutex, queue |
| admission ledger (`telemetry-model/ledger.rs`) | span identities, point identities (two maps), interned streams, next serial, anomaly counters | admit, collapse, conflict, forget, release stream | handlers, the store's hook |
| hand-off queue (`telemetry-ingestion/queue.rs`) | FIFO, cached accounted bytes | offer, pop with bounded wait | handlers offer, pump pops |
| in-memory store (`storage-memory`) | three shelves by admission key, series table, byte books, counters | keep, refuse, evict, scan, get | pump, retention thread, queries; its hook calls the ledger with the store's mutex held |
| SQLite store (`storage-sqlite`) | the same, and a file | open and rehydrate, keep, retention, commit, hook | as the in-memory store; the file outlives the process |
| composition root (`server/runtime.rs`, `lib.rs`) | pump, retention thread, drain deadline, summary | start, tick, drain, shut down | all of the above |
| query engine (`query`) | one page's spend ledger and walk; cursors and leases held by callers | admit, verify a cursor, pull, filter, charge, answer | store through `LockedStore`, one lock per call |
| investigation (`investigation`) | one investigation's evidence | resolve, walk pages, waterfall, name identities | query engine, correlation engine |
| correlation engine (`correlation`) | one expansion's relations | scan, relate, re-check endpoints | store |
| MCP surface (`mcp`) | one session: input position, open or ended | frame, route, list tools, call a tool, render | store look-ups, investigation API |
| web and desktop shells, benchmark probes | none of the core's | show, supervise, measure | processes of their own |

**What is hard here.** Three mutexes (ledger, queue, store) and one lock-free
counter order the handler tasks, the pump and the retention thread. A handler holds
the ledger's mutex for its whole export and measures the queue in one critical
section and offers in others. The store's hook takes the ledger's mutex while the
store's is held, so an eviction and the end of the evicted identity are separate
steps. The two sides keep separate accounts of the same identities and streams.
A stop makes four threads wait for one another under a deadline. A query locks the
store per call, so everything may move between two pulls; an investigation chains
dozens of such calls (look-up, three walks, two naming walks, three scans, a
re-check) and combines what it saw at different times. The file-backed store
settles memory, commits and delivers in three steps that a crash can separate, and a
reopened file meets a fresh ledger.

**What makes each part correct.**

* Ledger, pipeline, store together: an identity stands exactly while its record is
  somewhere between admission and the end of its eviction; no record is stored twice
  and none is collapsed onto a record that no longer exists.
* Queue: byte accounting is exact, and what was measured still fits when offered.
* Store: within every ceiling whenever its mutex is free; incremental books equal
  the shelves; every ending is reported once.
* Root: a stop completes; nothing handed off is left unaccounted.
* Decoding and the telemetry model: a record states what was sent or is refused;
  equal content is equal identity; what is admitted fits its budgets.
* Query: no record twice, none lost, every truncation named truthfully, chains end; a
  cursor continues its own query and no other.
* Investigation and correlation: the evidence shows each identity once and in the
  documented order, a hole is a record that really left, a relation's endpoints are
  resident and in the evidence, nothing standing is missed, and every cut is named.
* Surfaces: each request is answered once and in order, the two surfaces agree, and
  an answer can be read back to what was found.
* SQLite: what was committed is final, across crashes and failed writes.
* Edge: the budget and the permits balance, every buffered byte was charged, a slow
  client is not served for ever.

`PROJECT.json` lists every component and, under `hazards`, every place where these
can go wrong, at its line, with the properties that would catch it.

## 2. Modules

```
Records ── AdmissionLedger ─┐
       ├── HandOffQueue ────┼── Runtime ── RuntimeProofs  (with Collections)
       ├── MemoryStore ─────┘      │
       │                           └── (implements) IdentityLifecycle
       └── FileStore ── FileStoreProofs (with Collections)

Selection ── Collections

QueryWalk ── WalkProofs            (with Collections)
TransportEdge ── EdgeProofs        (with Collections)

Correlation ── TraceInvestigation ── InvestigationProofs   (with Collections)
     └─ uses Selection

EnvelopeParts ── JsonForms ─┬─ Rendering ────┬─ Surface ── SurfaceProofs   (with Collections)
                            └─ McpRendering ─┘     └─ uses Selection

Values ── Telemetry ── AccountedSize ── Budgets ── Decode ── WireFacts ── ExportAdmission

Filters ── Cursors ── QueryPages ── PagesProofs    (with Collections)
                         └─ uses Spend
```

Three pairs of modules look at one piece of code from two sides. `Runtime` interleaves
the threads around an admission and takes a record's identity, size and gate verdict
as given; `ExportAdmission` admits one export at a time and computes them from the
message. `QueryWalk` takes a page apart at every store call; `QueryPages` runs it in
one step and has the filters, the cursor's bytes and the callers. `TraceInvestigation`
finds the answer; `Surface` asks for it and renders it.

`Rendering` and `McpRendering` are two translations of two copies in the code:
`crates/mcp` has its own parser of subjects and its own renderers, and neither module
uses the other. They share `JsonForms`, which says what an object, a null and an
entity id are and nothing of what either surface writes. A change of one copy alone
shows in `SurfacesAgree`.

| module | stands for | variables | how actions correspond |
| --- | --- | --- | --- |
| `Records` | wire records, identities, residency order | none | a payload is a body letter, a size and a gate verdict; entity ids keep the natural/assigned distinction and the order of `EntityId` |
| `AdmissionLedger` | `telemetry-model/ledger.rs` | `next_serial`, `spans`, `points`, `assigned_points`, `streams`, `anomalies` | one action per verdict of `admit_*`; `Forget`, `ReleaseStream` and their several-at-once forms for the undo |
| `HandOffQueue` | `telemetry-ingestion/queue.rs` | `items`, `accounted` | `Offer`, `PopFront`; each is one hold of the queue's mutex |
| `MemoryStore` | `storage-memory/store.rs`, `shelf.rs` | shelves, series, byte sums, counters, `pass` | the operation under the mutex runs as keep, evictions one by one, hook calls one by one, end of pass |
| `Runtime` | `pipeline.rs`, `runtime.rs`, the handlers of `otlp_http.rs`/`otlp_grpc.rs` | positions of handlers, pump, retention thread and serving task | composes the three; an action is what a thread does between two points where another can act |
| `IdentityLifecycle` | the promise about one natural identity | `stage`, `sealed` | abstract specification, implemented by `Runtime` |
| `QueryWalk` | `query/engine.rs`, `spend.rs`, `cursor.rs`, `investigation/flow.rs` (`walk_pages`) | the page's walk and ledger, the chain, the moving store | one action per store call, examination outcome and answer; keeps and evictions interleave |
| `Correlation` | `correlation/engine.rs` | resident keys and their histories, scan position, records seen, relations, answer | one action per scan page, `Form` for the strategies (no store call), one look-up of the re-check at a time, the final sort |
| `TraceInvestigation` | `investigation/flow.rs` | position, walks, subject, waterfall, names, chain totals | one action per page, slice or phase; composes `Correlation`, whose run is its last phase; a page is anything `QueryWalk` lets the engine answer |
| `Values`, `Telemetry`, `AccountedSize`, `Budgets`, `Decode` | `telemetry-model`, `telemetry-ingestion/decode.rs` | none | operators: value union and containers; identities and payload comparison; accounted sizes; budget gates; one translation per message |
| `WireFacts` | the reference for the above: a message and a record each read as a set of facts | none | models no code; shares nothing with `Decode` |
| `ExportAdmission` | `pipeline.rs`, `ledger.rs` by content | ledger, export at hand, offer-set, queued bytes, standing deliveries | gates, one record at a time, hand-off or undo, pump, eviction |
| `Filters`, `Cursors`, `Spend` | `query/filters.rs`, `cursor.rs`, `lease.rs`, `spend.rs`, `budget.rs` | none | operators: what matches, canonical bytes, cursor layout and strict parser, lease tests, charges |
| `QueryPages` | `query/engine.rs` (`records`, `records_leased`) | resident records, cursors handed out, last answer | first page, continuation with its own, another query's, a leased or an altered cursor; keeps and evictions between |
| `EnvelopeParts` | `investigation/subject.rs`, `execution.rs`, `evidence.rs`, `limits.rs` | none | operators: what each part of an answer may hold |
| `JsonForms` | JSON, and entity ids, as both surfaces use them | none | operators: null, arrays, a parse that may fail |
| `Rendering` | the parsers and renderers of `investigation_http.rs` | none | one operator per function: how a part renders, how a subject parses |
| `McpRendering` | the parsers of `mcp/tools.rs` and the renderers of `mcp/render.rs` | none | the same, from the crate's own copy |
| `Surface` | `mcp/protocol.rs`, `tools.rs`, `investigation_http.rs` | the moving store, the MCP session, one HTTP exchange, histories | one action per message, store look-up, flow admission and answer |
| `FileStore` | `storage-sqlite/store.rs`, `db.rs` | rows, shelves, staged transaction, session ledger, histories | open, keep, retention, commit or failure, delivery, crash at any point |
| `TransportEdge` | `listener.rs`, `transport_guard.rs`, the gates and reads of the three surfaces | permits, accept loop, sockets, counter, requests | one action per await or atomic operation |
| `MC*` | small instances | none | constant values only |
| `Selection` | a `BTreeMap`'s order, `Iterator::filter` and `take` | none | operators: the numbers of a set ascending, the elements of a sequence that are in a set, its first ones |
| `*Proofs` | theorems about the module they extend | none | |
| `Collections` | lemmas about finite sums, selections and sequences | none | models no code |

The `TypeOK` of `Runtime` is checked and proved, those of `FileStore`, `TransportEdge`
and `QueryWalk` are proved (TLC met them while the inductive invariants were being
found); those of the other modules document their variables.

Definitions whose comment starts with "Fault:" are deliberate mutations of the
definition that follows them; no specification uses them. They exist so that every
property can be shown to fail when the code is wrong in a plausible way.

**Abstractions, and why they are sound for what is claimed.**

* *Sizes* are small numbers. The code's size formulas are pure and deterministic;
  only comparisons with ceilings and sums matter, and both are kept.
* *Clocks*: an admission clock reading is any later value, since the code takes the
  maximum of the wall clock and one past its last reading. `Runtime` models one clock
  shared by handlers and retention thread, and `FileStore` one that does not run
  backwards from a session to the next (the admission clock of a new process starts
  from the wall clock).
* *Text* is a token with a length where only equality and size matter (`Values` to
  `ExportAdmission`), and a tuple of small bytes where an encoding must tell texts
  apart (`Filters`, `Cursors`, `JsonForms`). A fingerprint is any one-to-one function
  of the canonical bytes, a boundary's stands for its bytes themselves: FNV-1a
  collisions are left out, injectivity of the encoding is not.
* *A structure's verbatim fields* with no law of their own (names, flags, dropped
  counts) are one token, `plain`.
* *What the flow answers* in `Surface` is fixed for a behaviour and may be any
  envelope `EnvelopeParts` allows; how it is found is `TraceInvestigation`'s matter.
* *Coverage entries* of a page are `QueryWalk`'s; `QueryPages` leaves them out.
* *Saturating or checked arithmetic*: sums of the accounted sizes of resident records
  stay far below 2^64 under the configured ceilings; the models use unbounded
  naturals and cap behaviours instead.
* *A retention pass* in `FileStore` is one step, since its pops run under one mutex
  and touch memory only; in `MemoryStore` it is one step per eviction and per hook
  call, because the hook waits for the ledger's mutex in between.
* *A wait with a timeout* may end at any time; the drain deadline is a flag that the
  environment may set to expired once it is armed.
* *Poisoned mutexes* are left out: the code treats them as fatal or recovers the
  guard, and a panic inside a critical section is not modelled.
* *External code*: SQLite transactions are atomic and durable; hyper never hands
  over more body than the declared length; tokio fires timers, and drops tasks only
  where they await.

## 3. Runs

### Passing

| run | what it shows | bounds |
| --- | --- | --- |
| `identities` | Two handlers, pump, retention thread and hook over exports that mix a span with points of two streams. Identities: `OneRecordPerEntity`, `SpanIdentityLasts`, `PointIdentityLasts`, `NoCollision`, `NoStrandedStream`, and the refinement `ImplementsLifecycle`: a saturated export gives back everything it admitted, an admitted one hands off everything, an identity ends once. Accounts: `MeasuredOffersFit`, `CeilingsKept` at every step of a pass, `AccountsBalance` (books and deliveries). `TypeOK`. | 2 handlers, 3 exports posted, each one of 3, of two records, 1 tick, 1 natural span identity, 2 point identities, 2 streams, queue of 5 bytes, store of 2 records and 2 bytes, series cap 1 |
| `drain` | A stop at any moment: `DrainCompletes`, `HandOffsComplete`, `SummaryComplete`. | 2 handlers, 2 exports, 1 tick, 1 stop |
| `admission` | Exports as they are on the wire. `AdmittedVerbatim` (message and record state the same facts), `AdmittedBounded` (every budget, measured independently), `FatesFollow` (duplicate, conflict or fresh follows from the contents alone, across re-deliveries, refusals and evictions), `InternedExactly` (a refused or conflicting point leaves no stream behind). | hand-picked messages, each law met by one that keeps and one that breaks it; exports of up to 3 records, 2 exports, queue of 10,500 accounted bytes |
| `query` | A chain of pages over a store that moves between any two calls, under every ceiling and deadline, over a conforming and a stalling driver: `ChainExact`, `CutsTruthful`, `BudgetKept`, `ChainEnds`. | 4 keys, batches of 2, 3 pages, stall limit 3, 6 budgets |
| `pages` | Filtered queries of three signals and every way to continue one. `CursorsBelong`: accepted exactly for its own query and lease, refused before any work elsewhere, altered bytes accepted only if they are an encoding. `PageExact`: the page is the filtered, ordered prefix. `SpendTruthful`: the dimension named is the one that ran out. | 9 records, 13 queries, 9 budgets, 2 pages, 1 move, bytes below 25, words of 2 bytes |
| `file_store` | Sessions over one file ended by a close or a crash between any two steps, under three sets of ceilings, with a failing transaction: `SidesAgree` (the file holds what the shelves hold; ledger and shelves agree on spans' natural ids, and on points' ids as far as the session assigned them itself), `CommittedStands`, `BoundedFromOpen`. | 4 keeps, 3 sessions, 1 failure |
| `investigation` | An investigation, or a run of the correlation engine under other bounds, while the store keeps, evicts and re-admits between any two calls. Engine: `AnswerTrue` (against the declarative `Related`, endpoints seen again), `AnswerComplete`, `BoundsKept`. Flow: `EvidenceWhole` (waterfall against distances in the parent graph; holes are records that left), `EnvelopeSound` (of the executable invariants of `envelope.rs` the 1st and the 3rd to 6th and the metric window of the 2nd and 7th, and the chain's ceilings; not `truncations_are_named`, which the code does not keep: section 5). | 8 records of one story, 3 initial stores, 2 moves in a run, 1 in an investigation, 4 pages, 4 entities, 3 examinations |
| `surface` | An MCP session and an HTTP exchange over one moving store: `RequestsAnsweredInOrder`, `NothingFabricated` (no answer about a record that was not there when it was read), `SurfacesAgree` (the two copies take the same body for the same subject, or refuse it for the same reason unless it is no object, and give one answer over one state of the store), `AnswersReadBack` (two findings render alike exactly when they differ only in values JSON does not tell apart; what is shown parses back to what was found). | sessions of up to 3 messages, of every kind in every pair, broken frames and ends of input, 1 HTTP exchange, 1 move, ids of 2 and 1 bytes, two digits of base 3 to a byte |
| `edge` | Requests of every route and shape, slow clients, broken sockets, failing accepts, a stop: `EdgeBalances` (charges and permits), `ReadsCovered`, `EveryRequestEnds`, `AcceptProgress`. | 2 sockets on 1 permit, 2 requests, 1 failed accept, ceiling of 2 bytes |

A property that is a conjunction keeps its parts as named definitions above it.

Why these bounds are enough for the cases they are meant to reach: two handlers give
every race on the ledger's mutex (it has no third role for a handler), and three exports
give a delivery, its re-delivery and a third record that evicts or saturates. The
exports of `identities` bring a span, with another payload too large to keep or refused
at a gate; a point; and a second point of the same stream, also of another stream with
another payload; two records each, so that a refused hand-off undoes more than one
admission. A store of two records and two bytes evicts at the third keep at the latest,
one series slot makes the second stream meet the cap, and a queue of five bytes
saturates when two exports meet in it. One retention tick suffices for an expiry between
any two steps of the others. Four keys in batches of two give a full batch, a partial
one, an eviction and a late keep inside one chain, and three pages give a first page, a
continuation and a continuation of a continuation; the entity of one key is re-admitted
under another. Four keeps and three sessions give a crash, a reopen under tighter
ceilings, and a reopen after that. In `edge`, the budget admits either two HTTP bodies
or one gRPC body, so acquisitions collide, and one permit makes the second socket wait.
The story of `investigation` has a root, its child, its log, a log of no span, a point
whose exemplar names the child, the root re-admitted as its own grandchild (a parent
cycle, and one identity met twice in a walk), a span whose parent is missing and a span
without an identity; pages and slices of one record put a move between any two of them,
and each ceiling is met in some behaviours and not in others. Symmetry is used for the
two handlers in runs without liveness only: they are interchangeable in every
definition.

The runs check deadlock where every state of the code has a successor (`identities`,
`drain`: without a stop the pump polls for ever, after a stop `Finished`
stutters). The others switch it off because a chain, the last session, the last
request or export and a response really end.

### Violations

Each run checks one sentence of the repository against what the code does.

| run | sentence | what the code does |
| --- | --- | --- |
| `stream_release` | `ledger.rs:62-64`: a stream is interned "for exactly as long as those points stand" | the store releases a stream on its own count, which does not see queued points; a point becomes resident with its stream no longer interned |
| `file_reopen` | `identity.rs:20-22`: ids are unique within a session, "a reopened file-backed session reassigns them"; `keep.rs:185-186`: "the record a duplicate names **is** resident, and its identity must stand" | rehydrated rows keep the ids an earlier session assigned and the ledger starts at 1 again; a fresh point is given a rehydrated point's id, its keep is a duplicate of that other record, and it stands in the ledger though it is resident nowhere |
| `mcp_schema` | `tools.rs:103` and `:385-387`: the advertised input schema, and the object that "must name the subject under the tool's own keyword" | `tools/list` advertises the entity itself as the arguments of three tools, and a call that follows it is refused for not naming the subject |

### Fairness

* `Runtime!FairSpec`: weak fairness of each handler past its body, the pump, the
  operation under the store's mutex, the retention thread, the deadline and the stop
  sequence. These are OS threads or spawned tasks that stay runnable, and timers.
  `std::sync::Mutex` promises no fairness; weak fairness suffices because the number
  of competing holds in a behaviour is bounded by `MaxExports` and `MaxTicks`. A
  handler waiting for its body needs no fairness of the client: the read deadline
  ends it, which the model allows at any time and forces only through `Stamp`/
  `BodyFails` being the two continuations of a body. Nobody is forced to post
  (`Arrive`), tick again (`RetentionWake`) or stop (`StopRequested`).
* `QueryWalk!FairSpec`: weak fairness of the flow's own page steps. Keeps and
  evictions are never forced.
* `TransportEdge!FairSpec`: weak fairness of the accept loop, of each request's own
  steps and of its read deadline. Reads, client resets, connection ends and the stop
  are never forced. An investigation is a bounded computation on the blocking pool,
  so its return is one of the request's own steps.

## 4. Proofs

TLC checks small instances; the theorems hold for every value of the constants that
satisfies the named assumptions: any number of handlers, sockets, requests, keys and
sessions, any exports, any ceilings.

| theorem | module | statement |
| --- | --- | --- |
| `TypeCorrect` | `RuntimeProofs` | `Spec => []TypeOK` |
| `IdentityCorrect` | `RuntimeProofs` | `Spec => []IdentityInv` |
| `EntityUnique` | `RuntimeProofs` | an entity id names at most one record between admission and eviction |
| `SpanIdentity` | `RuntimeProofs` | a natural identity stands exactly while its record is pending, queued, in hand, resident or ending |
| `PointIdentity` | `RuntimeProofs` | the same for points, and the ledger's two point maps name each other |
| `HandOvers` | `RuntimeProofs` | only the holder of the ledger's mutex has an offer-set, an ending identity has no record left, serials never run behind |
| `NeverDuplicate` | `RuntimeProofs` | the store never meets a keep of a resident identity |
| `NoCollisions` | `RuntimeProofs` | `Spec => []NoCollision`, the two before it as the run checks them |
| `OffersAlwaysFit` | `RuntimeProofs` | the queue's byte count is its content's and within the ceiling; what was measured still fits at each offer |
| `BooksCorrect` | `RuntimeProofs` | `Spec => []BooksInv` |
| `AccountsAlwaysBalance` | `RuntimeProofs` | the store's counts and byte sums are those of its shelves at every step of a pass, each counted ending was delivered once |
| `CeilingsAlwaysKept` | `RuntimeProofs` | within the record and byte ceilings whenever no pass is enforcing, within the series cap always |
| `SummaryAlwaysComplete` | `RuntimeProofs` | after a stop that cut no request off, kept, refused and dropped add up to what was handed off |
| `LifecycleImplemented` | `RuntimeProofs` | `Spec => Lifecycle!Spec`: the threads and mutexes implement the lifecycle of a natural identity |
| `StreamsCorrect` | `RuntimeProofs` | `Spec => []StreamInv` |
| `NeverStranded` | `RuntimeProofs` | an interned stream has a standing point, or its release is the hook's next call |
| `FileTypeCorrect` | `FileStoreProofs` | `Spec => []TypeOK` of the file-backed store |
| `CommittedAlwaysStands` | `FileStoreProofs` | what was committed as kept is in the file until committed as evicted, and then never again, across crashes, failed writes and sessions |
| `SidesAlwaysAgree` | `FileStoreProofs` | whenever no operation is between its steps, the file holds what the shelves hold; a standing span is resident, and one kept and still resident stands; the same of points, under every id but those the rehydrated rows came with |
| `AlwaysBoundedFromOpen` | `FileStoreProofs` | a session is within its record and byte ceilings from its opening on |
| `EdgeTypeCorrect` | `EdgeProofs` | `Spec => []TypeOK` of the transport edge |
| `EdgeBalanced` | `EdgeProofs` | the budget counter is the sum of the live charges, the permits in use those of the open connections |
| `ReadsAreCovered` | `EdgeProofs` | no request buffers a byte it was not charged for |
| `WalkTypeCorrect` | `WalkProofs` | `Spec => []TypeOK` of the query walk |
| `PagesWithinBudget` | `WalkProofs` | every page stays within its ceilings, its scan ledger charges each pulled record once, over any driver |
| `RecordsAscend` | `WalkProofs` | the keys a chain delivers strictly ascend |
| `CursorsAdvance` | `WalkProofs` | the snapshot is fixed by the first page, cursors lie inside it and advance, or the deadline passed |
| `NothingIsLost` | `WalkProofs` | a standing record at or behind a cursor was delivered or counted, none is missing from a complete part |
| `ChainIsExact` | `WalkProofs` | the three before it as the run checks them |
| `CutsAreTrue` | `WalkProofs` | a named gap holds no standing record, an omission without an uncounted tail counted all it left out |
| `BoundsHold` | `InvestigationProofs` | a correlation run stays within its scan allowance and its relation ceiling, and a stop it names was met |
| `CompleteHolds` | `InvestigationProofs` | an uncut run answers with every relation of the records resident throughout, unless a suppression accounts for it |
| `TrueHolds` | `InvestigationProofs` | over a still store the answer is exactly the related pairs in the documented order; over any store both endpoints lived after a relation was formed, and a log has an exact or a looser relation, never both |
| `EvidenceHolds` | `InvestigationProofs` | the waterfall holds every walked identity of the trace once, nearer ones first; a selected record is left unnamed only because it went or the examinations ran out |
| `EnvelopeHolds` | `InvestigationProofs` | the response satisfies invariants 1 and 3 to 6 of `envelope.rs`, states its metric window, and keeps the chain's ceilings; nothing is said of `truncations_are_named` |
| `CursorsAlwaysBelong` | `PagesProofs` | a cursor handed out is taken up under its own query, and under a lease only of its own boundary, and never refused there; bytes taken up are the one encoding of what they decode to |
| `PagesAreExact` | `PagesProofs` | a page is the first of the records asked for, in order and once each, a complete one all of them; its cursor steps over exactly what was shown or counted as omitted |
| `SpendIsTruthful` | `PagesProofs` | a page stays inside its budget, and the dimension it names is the one that ran out |
| `AnsweredInOrder` | `SurfaceProofs` | over any stream of frames, what asks for an answer gets one, once, in order, under its own id, and nothing else does |
| `NothingIsFabricated` | `SurfaceProofs` | an answer is about a span resident during the exchange, named by the request or by a resident log; a refusal for want of a record names one that was missing |
| `SurfacesAlwaysAgree` | `SurfaceProofs` | the two copies of the parser agree on every object, entity or refusal; if `PageMaxBytes = PayloadCeiling`, both surfaces, each by its own renderers, end an investigation of one span over one state of the store in the same verdict |

**Assumptions.** `RecordsAssumption`, `NoneAssumption`, `LedgerAssumption`,
`QueueAssumption`, `StoreAssumption` and `RuntimeAssumption` say only what the
constants are: the placeholder `None` is none of the values it is used beside,
ceilings are naturals, wires have the shape of their kind, an export is a sequence of
wires, the clock moves forward. `FileStoreAssumption` says that there is a
configuration to open the file with, and its types. `EdgeAssumption` says that
sockets and requests are finitely many, that a body is never longer than it was
declared to be (hyper's promise), and that ceilings are naturals, the connection cap
positive. `WalkAssumption` types the keys, the evidence sizes and the budgets; batch
size and stall limit are positive. `FiltersAssumption` says that a u64 has bytes and a
byte holds a severity number. `CursorsAssumption` says that ids have bytes and keeps
`None` apart from what it is used beside. `PagesAssumption` types the queries, the
records offered, the stores to begin with (finite, an entity at most once) and the
budgets, makes the scan's batch positive, and takes the fingerprints of two queries for
equal only if their canonical bytes are. `CorrelationAssumption` and
`InvestigationAssumption` type the records, the stores to begin with (an entity at most
once in each), the calls and the ceilings, and keep `None` apart from the names of the
ceilings. `IdentityAssumption` is what admission guarantees of entity ids: two records of
a kind share one only if they are spans with the same trace and span ids, and those do
(`identity.rs:25-36`). `RenderingAssumption` says that an id has bytes and a byte digits.
`SurfaceAssumption` says that a span is named by its two ids in full or by a positive
serial, that no entity is both a span and a log, that the input is a sequence of frames,
and that what the flow answers is an envelope `EnvelopeParts` allows, whose requested
subject is the span it was asked about. TLC evaluates them in every run.

`SurfaceAssumption` also keeps `None` apart from the refusals it is compared with.
`SurfacesAlwaysAgree` has a hypothesis of its own. The MCP adapter's page ceiling is a
constant of 4 MiB (`tools.rs:55`) and the HTTP surface uses the configured payload
ceiling, which is 4 MiB unless configured (`runtime.rs:206`). Where an operator changes
it, the two budgets differ and so may the verdicts (section 5); the theorem is about the
default, and so is the run.

**Sums.** A counter that claims to be a sum (`accounted`, the store's byte sums, the
body budget, the summary, the evidence of a page) is compared with `SumFunction` or
`SumFunctionOnSet` of the community modules, which add the elements in an unspecified
order. No induction theorem with an operator parameter can be used here, but a claim
about all subsets of a finite set can be proved by a minimal counterexample, since
strict inclusion is well-founded on them (`LeastSubset` in
`Collections`). From that follow
that the order does not matter and how a total moves when an element comes, goes or
changes; the proofs about components cite only those lemmas.

**Identities.** `SpanIdentityLasts` is not inductive by itself. That an admission
keeps it needs that no *other* record carries the identity; that a hook call keeps
it needs that the ending identity has no record left anywhere, or forgetting it
would strand that record; that a saturated export may forget its whole offer-set
needs that none of its identities was already queued or resident, which in turn
needs that identities are never held in two places; and a fresh serial is new only if
the counter is ahead of every serial in use. `IdentityInv` collects exactly these:
types, the mutex discipline (only the lock holder has an offer-set), no repeats within a
place, places disjoint, endings gone, serials ahead, both identity properties, and no
duplicate keep. Every step is one of a few kinds of movement (nothing moves, one
identity is born, an offer-set is forgotten, one record moves to the next place, one
record ends, one identity is forgotten), and the proof has one lemma per kind
(`QuietStep`, `BornStep`, `SaturatedKeepsIdentity`, `OfferKeepsIdentity`,
`PopKeepsIdentity`, `KeepKeepsIdentity`, `EvictKeepsIdentity`, `HookKeepsIdentity`),
so that `IdentityNext` only dispatches the actions to them.

**Books.** `BooksInv` adds to the exact books two things the properties do not say.
`CeilingsKept` speaks of the moments when nothing is enforced; a pass ends in such a
moment, so what held before it must be carried through a refusal, which inserts
nothing and therefore enforces nothing (`KeptBelow`). A counted ending is delivered
only when its hook call returns, so counter and deliveries differ by the one report
under way (`Tallied`); there is at most one because the hook runs under the store's
mutex. `SummaryInv` counts each handed-off record as counted, queued or between the
pump's pop and its count, and needs the order of the stop: no request in flight once
the serve loop ended uncut, and the pump gone once it was joined (`StopOrder`).

**Lifecycle.** The abstract stage of an identity is read off the sets it is in:
pending in an offer-set, handed off, resident, ending. `IdentityInv` makes these sets
disjoint, so a step that moves one record moves one stage, and a step of any other
kind leaves the whole abstract state alone (`NothingMoves`). Each action of `Next` is
then one abstract action or a stutter.

**Streams.** That no interned stream is stranded needs to know who keeps it. In
`StreamInv` every interned stream is held by a point past its offer-set, by the
release the hook owes, or by the very offer that interned it (`StreamsHeld`); the
stream of every offered point is interned, and the stream an offer interned is its own
point's (`OffersInterned`), so the undo of a saturated export releases what only its
own offers held; and when a stream's last resident point ends, the ending carries the
stream to the hook (`EndingCovered`). The ledger's
payload for a point must be that of the record (`PointsMatch`), or forgetting the
record would look for another stream.

**File.** `CommittedStands` needs that what is staged names the right rows, and
`SidesAgree` needs that it still does after any failure. `StoreInv` says that no slot
is doubled in the file or in memory, that admission times are handed out once, that
until the transaction is tried the file mirrors the shelves as they were, except for
the slots an earlier failure left behind (`FileMirrorsBefore`), and that a standing
identity is resident or about to be reported. Of points this can be said only under ids
the session assigned: the ids of the rows it was opened with are remembered
(`inherited`, a history variable), and `PointsStandOrEnding` holds outside them. Inside
them it is false, which is what `file_reopen` shows. A crash keeps `rows` and empties
everything else, which satisfies every conjunct.

**Edge.** The two balances are inductive once the place of a request in its handler
says what it is charged for and what it has buffered (`TaskOK`): a charge is taken
before the first byte is read and returned where the request ends, by an answer, a
reset or the stop alike.

**Query.** Three invariants, each on top of the one before it. `SpendInv`: what is left
of each ceiling and what was returned, counted and pulled add up, also when a batch is
abandoned halfway. `PlacedInv`: the walk never turns back; the cursor presented, then
what was returned, what was counted, the record examined, the batch and the frontier lie
in this order, all inside the snapshot. `CoverInv`: behind the cursor nothing is owed;
while pulling nothing at or before `after`, while examining nothing up to the frontier
but the batch. A scan skips no standing record, and evictions only take away what is
owed. `HoleInv` adds what an unnamed gap is: the walk still starts at its anchor, so
the first record met ends the hole. `SpendInv` holds over any driver; the rest over the
conforming ones, as the properties do.

**Pages.** What is handed out is believed when it comes back, so three facts about bytes
come first. The parser returns what was encoded (`EncodeBack`), and bytes it accepts are
those of the payload it returns (`ParseBack`), so a cut, a prolonged or a changed cursor
is refused or is another cursor in full; both rest on a word being its digits. Equal
canonical bytes mean equal queries (`CanonicalTells`): each field opens with a presence
byte, texts carry their length, so the first field that differs shows. A boundary's
bytes tell its key (`BoundaryTells`). The order of keys is a strict total order
(`OrderLaws`), so a scan lists the records of a kind behind a key once each, ascending
(`AheadLaws`). The walk of a page is a function on the number of records examined
(`WalkIs`). `Going` says what is true while it goes on: what was returned is the part of
the records met that the query asks for, the ledger charged each record met and each
returned one once, and the walk is still inside its ceilings. One examination keeps it
or ends the walk in `Done`: at the boundary, at the scan's end or at a ceiling that was
met, with what was returned, what the cursor reaches and what was spent (`ExamineStep`).
`DoneExact` and `DoneTruthful` read the two properties off `Done`. That the walk's tests
select what the query asks for is `BelongsMatches`. `PagesInv` carries from page to page
only that the store is typed, that each cursor handed out is the encoding of a payload
of its query and boundary, and the three properties for the answer at hand; the store
may move in any way between.

**Engine.** `EngineCore` says where the scan stands: nothing was seen ahead of it, and
nothing that stayed is left behind it unless it was cut (`ScanOrder`, `ScanComplete`);
records come to hand in residency order, each once; the allowance spent and the relations
formed are within their bounds, and equal to them when a stop says so. `AnswerCore`
carries this through the forming and the re-check: what was formed is the generated
sequence, cut at the ceiling; a relation examined so far was kept exactly if its endpoints
were found, so none of records that stayed is dropped; over a store that did not move
nothing is dropped and the sorted answer is all of it. `AnswerComplete` and `AnswerTrue`
then speak only of the generated sequence, and one lemma per strategy says which pairs it
generates. Sequences are the difficulty here: a filter is `OnlyIn`, the enumeration in
order of the positions that pass (`Ascending`), and `Collections` proves what it keeps,
in which order, and that a list of lists flattened holds the elements of each.

**Waterfall.** The breadth-first loop of `flow.rs` is a function on the number of lines
visited. Four facts are carried from one visit to the next: no identity appears twice,
the children of every visited line are in the list, distances never fall from one line to
the next and rise by at most one past the line being visited, and everything in the list
is reached from the root. At the end of the loop the list is closed under children, hence
holds exactly what a chain of parents connects to the root, in order of distance.

**Flow.** `FlowCore` says what each phase leaves to the later ones: the walked records were
resident once and are of their kind; subject and waterfall are those of the spans walked;
a ceiling is met only when the chain stops; the number of entities counted is that of the
lines, the names and the holes so far; and what is still wanted and resident lies ahead of
the walk that names (`HolesInv`), which is why a hole at its end is a record that left.
The run of the correlation engine is its last phase, and its relations are narrowed to
endpoints in the evidence. `FlowCoreStep` needs nothing of `AnswerCore`: whatever the
engine answers, the envelope is sound.

**Surfaces.** For the order of the answers, `SessionInv` compares the answers sent with the
frames read that ask for one: they agree one to one except that the last may be the call
under way, whose id is the pending one, and then the session reads nothing further.
`Holding` is what is true of an exchange under way on either surface: the records resident
now were seen present, those missing now were seen absent, a log found was the one the
request named, and statistics taken are between those at its start and those now.
`Judged` is what is true of one that ended: its subject was present, and while the store
has not moved since the exchange began its verdict is the one the store still gives, in
the words of its surface. That these are the same words is proved part by part, one
lemma to a group of renderers (`McpHexes`, `McpEntities`, `McpSubjects`, `McpOutcomes`,
`McpExecutions`, `McpModelValues`, `McpRelations`, `McpViews`, and `McpRenders` for the
whole), each by comparing the two translations; `McpParses` compares the parsers, refusal
by refusal. That a subject
rendered as hexadecimal text reads back as the same bytes (`SpanReadsBack`) needs only
quotient and remainder.

**Only model-checked.** Liveness (`DrainCompletes`, `HandOffsComplete`, `ChainEnds`,
`EveryRequestEnds`, `AcceptProgress`): fairness and `ENABLED` are outside the prover's
reach. Of `ExportAdmission`, `AdmittedVerbatim`, `AdmittedBounded`, `FatesFollow` and
`InternedExactly`: they are about recursive values, and its modules declare `RECURSIVE`
operators. Of `Surface`, `AnswersReadBack`: which findings render alike is compared with a
definition of its own (`FlowsAlike`) over the findings the configuration offers, among
them pairs that JSON does not tell apart: bytes and the text of their hex, two
non-finite doubles, one of them and no body, a list with its keys in another order.

## 5. Observations

Met while modelling, not the subject of a run.

Admission and decoding:

* A legal log body can exceed `legal_record_bound_bytes`, which covers only
  budget-shaped spend, and with it the queue's ceiling; the export is then answered
  `QueueSaturated`, retryable, at every retry.
* A fresh point filed under an interned stream with another resource `schema_url`
  carries the first stream's provenance and no anomaly is counted (only a *standing*
  point's drift is).
* `Unrepresentable::EmptyMetric` is never reported; a refused exemplar id names the
  field "log trace_id".

Runtime and stores:

* A handler cut off by the drain deadline may offer after the queue was counted
  (`runtime.rs:644`), where `runtime.rs:614-616` says drops are "counted and logged,
  never silent". `SummaryComplete` is about requests that ended in time.
* Rehydration keeps the stored ids and the new ledger starts at 1 (`store.rs:733`).
  Within a kind a fresh log record or point is lost as the duplicate of another record,
  as `file_reopen` shows of points; and two resident records of different kinds can
  share an id, so that an eviction of one forgets the other's. Both against
  `identity.rs:20-22`.
* An investigation holds its body and its charge until the flow returns, beyond the
  read deadline that ADR 0010 gives as the longest a body is held.
* A body budget below payload ceiling plus gRPC slack refuses every gRPC export as
  retryable; the configuration check does not compare the two.
* The series cap is not applied again when a file is opened: `BoundedFromOpen` is
  about records and bytes.
* After the release that `stream_release` shows, a re-delivery is itself the fresh
  intern: a changed `schema_url` is compared with itself and not counted, where
  `ledger.rs:494-496` says "the drift is recorded".
* A draining pump whose non-blocking pop finds nothing waits for the rest of the
  deadline, where `runtime.rs:836-837` says "an emptied queue ends the pump
  immediately".

Queries and investigations:

* When retention empties the kind between two pulls of a counting first page, the
  frontier is overwritten by none (`engine.rs:680`) and the debug assertion at
  `engine.rs:395-397` ("always present by the time a cursor is minted") fails.
* No caller uses `records_leased`: `engine.rs:38-43` says the flow pages through
  leases, `flow.rs` (`walk_pages`) calls `records`.
* When a walk did not meet the effective root (evicted after its look-up, or behind
  the end of a cut walk) the waterfall is the root alone, where `flow.rs:874-877` ends
  it with "the trace members the walk could not reach".
* A zero-progress page echoes the cursor it was given, while `flow.rs:633-634` calls
  the anchors of a chain strictly monotonic. `CursorsProgress` states what holds:
  an anchor advances unless the page's deadline passed.
* `max_results` is charged for the record that meets the byte wall, against the
  comment at `engine.rs:591`.
* A chain's snapshot is the tail of the last batch its first page pulled, where
  `docs` (`query-model.md:144-145`) speak of the result set at the first page.
* An anchor counts as resident by entity, so an anchor evicted and re-admitted names
  no gap (`query-model.md:139-142`).
* The engine counts relations dropped by its re-check (`Truth::shrunken`), but the
  flow reports only those it narrows away itself (`flow.rs:448-453`), where
  `correlation-model.md:151-154` says the response's coverage reports the shrinkage.
* `resource_context` has no guard like `parent_child`'s: a span re-admitted during the
  scan is met twice and relates to itself, against `correlation-model.md:120` ("No
  self-loops"). The flow does not request that strategy.
* A suppression is accounted when the exact span was seen, also when the exact relation
  is then cut by the ceiling or dropped by the re-check; `AnswerComplete` therefore
  accepts a suppression in place of a relation.
* `exemplar` relates a point to a span once per exemplar: a point with several exemplars of
  one span gives as many equal relations.
* A trace whose spans end before they start asks for an inverted metric window; the points
  walk then selects nothing, and the metric window stated is empty at its end.
* Ordinary responses break `truncations_are_named` (`envelope.rs:214`, part of
  `violations`): a page cut by a zero-progress deadline or at its result ceiling is `Degraded`
  with nothing omitted (`engine.rs:509`, `:598`; `tests/trace_flow.rs:786-789` expects
  it), and a refused scan states what it observed as the limit itself
  (`spend.rs:89-93`; `tests/trace_flow.rs:842-846`). Only its last clause, that a stall
  is named in the coverage, holds of what the flow answers; `StallsNamed` keeps it.
* A requested root re-admitted before the walk is reported as `TraceRootedAt` itself,
  since the note compares records by pointer (`flow.rs:839`).

Surfaces:

* `parse_subject` "mirrors ... exactly, including the error wording" (`tools.rs:383-385`,
  and `:203-205`), yet a body that is JSON but no object is refused over MCP for being
  none and over HTTP for naming no `root_span`. `SurfacesAgree` states this exception.
* The page budget of an MCP call has a constant `max_bytes` of 4 MiB, HTTP uses the
  configured payload ceiling.
* `continue_investigation` validates its cursor and then does not use it.
* The end of input within a message's headers is taken for a clean end.
* "Every part, every fact, verbatim" (`investigation_http.rs:308`) is not what JSON
  can say: bytes render as the text of their hex, every non-finite double as `null`
  (as a log body, like no body at all), and a list loses the order of its keys,
  which is part of its identity in the model (`render.rs:445-460`,
  `investigation_http.rs:717-732`). `FlowsAlike` names these losses, and
  `AnswersReadBack` finds no other among the findings of the run.
* `limits.chain.correlation_scan` is among the fields of `envelope.rs:105` and is rendered
  by neither surface.

## 6. Not modelled

* The protobuf code (generated), HTTP and gRPC framing (external), and an MCP
  `Content-Length` that disagrees with the body that follows.
* FNV-1a collisions: a query's fingerprint is any one-to-one function of its canonical
  bytes, a boundary's stands for the bytes themselves; the strict aggregation charges of
  `spend.rs`, which no caller outside the crate uses.
* Per-cause counters of the SQLite store, a payload that does not encode (the code
  takes it for impossible), files that are no database, the checkpoint at close. Of
  the storage statistics, only the totals an investigation reports and the counters
  the properties need.
* The facts a relation cites and strategy versions.
* Web and desktop shells, benchmarks, build and release tooling.

## 7. Plan

Done: (1) the composed core and its abstract lifecycle; (2) query walk; (3) SQLite
store; (4) transport edge; (5) correlation and trace investigation; (6) type and
identity theorems; (7) telemetry model, decoding and admission by content; (8)
filters, cursors, leases and spend; (9) the MCP and HTTP surfaces;
(10) the theorems about the runtime's books, ceilings, summary and streams, the
refinement of the lifecycle, the file-backed store, the transport edge and the chain
of pages.
(11) the theorems about the correlation engine, the trace investigation, the two
surfaces and the filtered pages.

Next: the fates of `ExportAdmission` over an abstract equality of contents, which its
recursive values implement.
