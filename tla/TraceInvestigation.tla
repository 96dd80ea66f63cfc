------------------------- MODULE TraceInvestigation -------------------------
(***************************************************************************)
(* The trace investigation (crates/investigation/src/flow.rs): the root is *)
(* looked up, the spans are walked and ordered into the waterfall, the     *)
(* trace's logs and the surrounding points are walked and then named by a  *)
(* walk of their own, and the correlation engine runs over the store last. *)
(* The store moves between any two of these calls.                         *)
(*                                                                         *)
(* A page of a walk is anything the query engine may answer: how far a     *)
(* page gets is QueryWalk's subject.  A behaviour may instead be one run   *)
(* of the correlation engine, under any bounds its interface takes.        *)
(***************************************************************************)
EXTENDS Correlation

CONSTANTS
    Subjects,        \* the entities investigations are asked for
    Asked,           \* the correlation windows they are asked with, None if none
    PageSize,        \* bound: records of a page
    MaxPages,        \* ChainBudget: max_total_pages
    MaxEntities,     \* ChainBudget: max_total_entities
    MaxExaminations, \* ChainBudget: max_identity_examinations
    Slice,           \* RECOVERY_SCAN_SLICE
    MaxRelations,    \* the flow's relation ceiling
    MaxScan,         \* the caller's max_scan
    FlowMoves        \* bound: the store's moves in an investigation

Parts == {"spans", "logs", "points"}
KindOf == [spans |-> "span", logs |-> "log", points |-> "point"]

ASSUME InvestigationAssumption ==
    /\ Subjects \subseteq Nat /\ Asked \subseteq Windows \cup {None}
    /\ None \notin {"pages", "entities"}
    /\ PageSize \in Nat /\ Slice \in Nat \ {0}
    /\ MaxPages \in Nat \ {0} /\ MaxEntities \in Nat \ {0} /\ MaxExaminations \in Nat
    /\ MaxRelations \in Nat /\ MaxScan \in Nat /\ FlowMoves \in 0..MaxMoves

VARIABLES
    pc,         \* where the investigation is; "direct" when there is none
    requested,  \* the entity asked for
    root,       \* the record found under it
    cursor,     \* where the current walk resumes; None at its end
    walked,     \* the records of the current walk, in engine order
    spans,      \* those of the spans walk
    subject,    \* the effective root and the note that explains it
    waterfall,  \* the trace's spans, in evidence order
    named,      \* the selected logs and points that were named
    holes,      \* how many were not, by part
    runs,       \* engine pages by part
    entities,   \* evidence entities, holes included
    examined,   \* identity-recovery examinations
    halted,     \* the chain ceiling the walks stopped on, or None
    relations,  \* the relations of the response
    shrunk      \* those left out for want of evidence

flowVars == <<pc, requested, root, cursor, walked, spans, subject, waterfall, named,
              holes, runs, entities, examined, halted, relations, shrunk>>
vars == <<storeVars, runVars, flowVars>>

Pcs == {"root", "spans", "resolve", "logs", "name_logs", "points", "name_points",
        "correlate", "correlating", "done", "unresolved", "direct"}
Notes == {None, "is_root", "rooted_at", "no_parentless", "no_identity"}
NoSubject == [entity |-> None, note |-> None]

Init ==
    /\ CorrelationInit
    /\ pc = "root" /\ requested \in Subjects /\ root = None
    /\ cursor = 0 /\ walked = <<>> /\ spans = <<>>
    /\ subject = NoSubject /\ waterfall = <<>>
    /\ named = {} /\ holes = [p \in {"logs", "points"} |-> 0]
    /\ runs = [p \in Parts |-> 0] /\ entities = 0 /\ examined = 0
    /\ halted = None /\ relations = <<>> /\ shrunk = 0

TypeOK ==
    /\ CorrelationTypeOK
    /\ pc \in Pcs /\ requested \in Subjects /\ root \in Keys \cup {None}
    /\ cursor \in 0..MaxKey \cup {None}
    /\ ToSet(walked) \cup ToSet(spans) \cup ToSet(waterfall) \cup named \subseteq Keys
    /\ subject.entity \in Nat \cup {None} /\ subject.note \in Notes
    /\ holes \in [{"logs", "points"} -> Nat] /\ runs \in [Parts -> Nat]
    /\ entities \in Nat /\ examined \in Nat /\ shrunk \in Nat
    /\ halted \in {None, "pages", "entities"}
    /\ ToSet(relations) \subseteq Relations

-----------------------------------------------------------------------------
(* The root span must be resident.                                           *)
LookUpRoot ==
    /\ pc = "root"
    /\ \/ /\ ~IsResident(<<KindRank.span, requested>>)
          /\ pc' = "unresolved" /\ UNCHANGED root
       \/ \E k \in resident : Ref(k) = <<KindRank.span, requested>> /\ root' = k /\ pc' = "spans"
    /\ UNCHANGED <<storeVars, runVars, requested, cursor, walked, spans, subject, waterfall,
                   named, holes, runs, entities, examined, halted, relations, shrunk>>

(* relates_to: the trace of the root found.                                  *)
Trace == IF Natural(root) THEN Facts[root].trace ELSE None

-----------------------------------------------------------------------------
(* The walks.                                                                *)

TotalPages == runs["spans"] + runs["logs"] + runs["points"]

(* The walk of a part is over: what follows it, and what it keeps.           *)
After == [spans |-> "resolve", logs |-> "name_logs", points |-> "name_points"]
WalkEnds(part, records) ==
    /\ pc' = After[part] /\ cursor' = 0
    /\ spans' = IF part = "spans" THEN records ELSE spans
    /\ walked' = IF part = "spans" THEN <<>> ELSE records

(* A page passes up to PageSize records behind the cursor and returns the    *)
(* first n of them, what a byte wall leaves out being passed; its successor  *)
(* stands behind what it passed.  The part ends without a successor, at the  *)
(* kind's end or at the snapshot the first page took, and with the cursor    *)
(* that was presented, by a page that passed nothing.                        *)
WalkPage(part) ==
    /\ pc = part
    /\ TotalPages < MaxPages /\ entities < MaxEntities
    /\ runs' = [runs EXCEPT ![part] = @ + 1]
    /\ \E n \in 0..PageSize :
         LET page == Page(KindOf[part], cursor, n)
         IN  \/ /\ n = 0 \/ cursor # 0 \/ ToSet(page) = Ahead(KindOf[part], cursor)
                /\ WalkEnds(part, walked \o page)
             \/ \E m \in n..PageSize :
                  LET passed == Page(KindOf[part], cursor, m)
                  IN  /\ passed # <<>>
                      /\ cursor' = Last(passed) /\ walked' = walked \o page
                      /\ UNCHANGED <<pc, spans>>
    /\ UNCHANGED <<storeVars, runVars, requested, root, subject, waterfall, named, holes,
                   entities, examined, halted, relations, shrunk>>

(* Fault: a stop at a ceiling is not reported.                               *)
ChainStopsSilently(part) ==
    /\ pc = part
    /\ TotalPages >= MaxPages \/ entities >= MaxEntities
    /\ WalkEnds(part, walked)
    /\ UNCHANGED <<storeVars, runVars, requested, root, subject, waterfall, named, holes,
                   runs, entities, examined, halted, relations, shrunk>>

(* The chain's ceilings, before every page.                                  *)
ChainStops(part) ==
    /\ pc = part
    /\ TotalPages >= MaxPages \/ entities >= MaxEntities
    /\ halted' = IF TotalPages >= MaxPages THEN "pages" ELSE "entities"
    /\ WalkEnds(part, walked)
    /\ UNCHANGED <<storeVars, runVars, requested, root, subject, waterfall, named, holes,
                   runs, entities, examined, relations, shrunk>>

-----------------------------------------------------------------------------
(* The effective subject and the waterfall.                                  *)

OfTrace(k) == Trace # None /\ Natural(k) /\ Facts[k].trace = Trace
Parentless == OnlyIn(spans, {k \in ToSet(spans) : OfTrace(k) /\ Facts[k].parent = None})

(* resolve_subject: the first parentless member, else the requested span.    *)
Effective ==
    IF Trace = None THEN [entity |-> requested, note |-> "no_identity"]
    ELSE IF Parentless = <<>> THEN [entity |-> Facts[root].entity, note |-> "no_parentless"]
    ELSE [entity |-> Facts[Parentless[1]].entity,
          note |-> IF Parentless[1] = root THEN "is_root" ELSE "rooted_at"]

(* The walked spans of S join the order, each identity once.                 *)
Visit(ordered, S) ==
    LET joined[i \in 0..Len(spans)] ==
          IF i = 0 THEN ordered
          ELSE LET sofar == joined[i - 1]
               IN  IF /\ OfTrace(spans[i]) /\ spans[i] \in S
                      /\ \A j \in DOMAIN sofar : Facts[sofar[j]].span # Facts[spans[i]].span
                   THEN Append(sofar, spans[i]) ELSE sofar
    IN  joined[Len(spans)]

(* The walked records of the effective root's identity.                      *)
Seeds == OnlyIn(spans, {k \in ToSet(spans) : OfTrace(k) /\ Facts[k].entity = Effective.entity})

(* Span after span of the order, its children are visited.                   *)
ChildrenOf(k) == {c \in ToSet(spans) : Facts[c].parent = Facts[k].span}
Reached ==
    LET order[n \in 0..Len(spans)] ==
          IF n = 0 THEN <<Seeds[1]>>
          ELSE IF n > Len(order[n - 1]) THEN order[n - 1]
          ELSE Visit(order[n - 1], ChildrenOf(order[n - 1][n]))
    IN  order[Len(spans)]

(* Breadth first from the effective root, then the members it does not       *)
(* reach; the root alone when the walk did not meet the effective root.      *)
Waterfall == IF Seeds = <<>> THEN <<root>> ELSE Visit(Reached, Keys)

Resolve ==
    /\ pc = "resolve"
    /\ subject' = Effective
    /\ waterfall' = Waterfall
    /\ entities' = entities + Len(waterfall')
    /\ pc' = "logs"
    /\ UNCHANGED <<storeVars, runVars, requested, root, cursor, walked, spans, named, holes,
                   runs, examined, halted, relations, shrunk>>

-----------------------------------------------------------------------------
(* The selection of a part's records, and their names.                       *)

Extent ==
    LET starts == {Facts[waterfall[i]].start : i \in DOMAIN waterfall}
        ends == {Facts[waterfall[i]].end : i \in DOMAIN waterfall}
    IN  [from |-> Min(starts), to |-> Max(ends)]

(* Logs by trace, points by the waterfall's extent.                          *)
Selected(part) ==
    LET window == Extent
    IN  {k \in ToSet(walked) :
           /\ Trace # None
           /\ part = "logs" => Facts[k].trace = Trace
           /\ part = "points" => window.from <= Facts[k].start /\ Facts[k].start < window.to}

Wanted(part) == Selected(part) \ named
NamingEnds(part) == Wanted(part) = {} \/ examined >= MaxExaminations \/ cursor = None
NamingPc == [logs |-> "name_logs", points |-> "name_points"]

(* Fault: the walk ends with its first slice.                                *)
NameSliceOnce(part) ==
    /\ pc = NamingPc[part] /\ ~NamingEnds(part)
    /\ LET page == Page(KindOf[part], cursor, Slice)
       IN  /\ examined' = examined + Len(page)
           /\ named' = named \cup (Wanted(part) \cap ToSet(page))
           /\ cursor' = None
    /\ UNCHANGED <<storeVars, runVars, pc, requested, root, walked, spans, subject, waterfall,
                   holes, runs, entities, halted, relations, shrunk>>

(* One slice of the recovery walk: records are matched by their payload      *)
(* until all are named or the examinations are spent.                        *)
NameSlice(part) ==
    /\ pc = NamingPc[part] /\ ~NamingEnds(part)
    /\ LET page == Page(KindOf[part], cursor, Slice)
           wanted == Wanted(part)
           enough == {i \in DOMAIN page : wanted \subseteq ToSet(SubSeq(page, 1, i))}
           n == Min(enough \cup {Len(page), MaxExaminations - examined})
       IN  /\ examined' = examined + n
           /\ named' = named \cup (wanted \cap ToSet(SubSeq(page, 1, n)))
           /\ cursor' = IF Ahead(KindOf[part], cursor) = ToSet(page) THEN None ELSE Last(page)
    /\ UNCHANGED <<storeVars, runVars, pc, requested, root, walked, spans, subject, waterfall,
                   holes, runs, entities, halted, relations, shrunk>>

(* The named records are the part's evidence, the others its holes.          *)
Named(part) ==
    /\ pc = NamingPc[part] /\ NamingEnds(part)
    /\ holes' = [holes EXCEPT ![part] = Cardinality(Wanted(part))]
    /\ entities' = entities + Cardinality(Selected(part))
    /\ pc' = IF part = "logs" THEN "points" ELSE "correlate"
    /\ cursor' = 0 /\ walked' = <<>>
    /\ UNCHANGED <<storeVars, runVars, requested, root, spans, subject, waterfall, named,
                   runs, examined, halted, relations, shrunk>>

-----------------------------------------------------------------------------
(* The correlated part.                                                      *)

FlowBounds(window) ==
    [strategies |-> IF window = None THEN <<"span_identity", "trace_identity">>
                    ELSE <<"span_identity", "trace_identity", "temporal">>,
     subject |-> Trace, window |-> window, relations |-> MaxRelations,
     scan |-> MaxScan, hops |-> 2]

StartCorrelation ==
    /\ pc = "correlate"
    /\ \E window \in Asked : Correlate(FlowBounds(window))
    /\ pc' = "correlating"
    /\ UNCHANGED <<requested, root, cursor, walked, spans, subject, waterfall, named, holes,
                   runs, entities, examined, halted, relations, shrunk>>

(* A waterfall span without an identity goes by the effective root's entity. *)
SpanEntity(k) == IF Natural(k) THEN Facts[k].entity ELSE subject.entity
Evidence ==
    {<<KindRank.span, SpanEntity(waterfall[i])>> : i \in DOMAIN waterfall}
      \cup {Ref(k) : k \in named}

InEvidence(r) == r.from \in Evidence /\ r.to \in Evidence

(* The relations are narrowed to the evidence and the response is complete.  *)
Narrow ==
    /\ pc = "correlating" /\ cpc = "answered"
    /\ relations' = OnlyIn(answer, {r \in ToSet(answer) : InEvidence(r)})
    /\ shrunk' = Len(answer) - Len(relations')
    /\ pc' = "done"
    /\ UNCHANGED <<storeVars, runVars, requested, root, cursor, walked, spans, subject,
                   waterfall, named, holes, runs, entities, examined, halted>>

(* The engine's interface, called with other bounds than the flow's.         *)
DirectRun ==
    /\ pc = "root"
    /\ \E c \in Calls : Correlate(c)
    /\ pc' = "direct"
    /\ UNCHANGED <<requested, root, cursor, walked, spans, subject, waterfall, named, holes,
                   runs, entities, examined, halted, relations, shrunk>>

-----------------------------------------------------------------------------
(* The store moves while somebody reads it.                                  *)
Reading ==
    /\ pc \notin {"root", "done", "unresolved"} /\ cpc # "answered"
    /\ pc # "direct" => moves < FlowMoves

Next ==
    \/ Reading /\ (StoreKeeps \/ StoreExpires) /\ UNCHANGED <<runVars, flowVars>>
    \/ RunStep /\ UNCHANGED flowVars
    \/ LookUpRoot \/ Resolve \/ StartCorrelation \/ Narrow \/ DirectRun
    \/ \E part \in Parts : WalkPage(part) \/ ChainStops(part)
    \/ \E part \in {"logs", "points"} : NameSlice(part) \/ Named(part)

Spec == Init /\ [][Next]_vars

-----------------------------------------------------------------------------
(* What the response says of itself, and the executable invariants of        *)
(* envelope.rs, by their numbers there.  Of 2, truncations_are_named is not  *)
(* among them: it denies a cut that leaves nothing out and a refusal that    *)
(* observes its limit, and the pages of an ordinary response hold both.      *)

(* The window the named points span, empty at the end of the asked one when  *)
(* there are none.                                                           *)
ResidentWindow ==
    LET times == {Facts[k].start : k \in {j \in named : Facts[j].kind = "point"}}
    IN  IF times = {} THEN [from |-> Extent.to, to |-> Extent.to]
        ELSE [from |-> Min(times), to |-> Max(times) + 1]

(* The flow's own coverage, but for what it repeats of the store's counters  *)
(* and of the correlation engine's truth: the metric window, the holes, and  *)
(* the relations left out.                                                   *)
FlowCoverage ==
    {[kind |-> "metric_window", asked |-> Extent, resident |-> ResidentWindow] :
        x \in {part \in {"points"} : runs[part] > 0}}
      \cup {[kind |-> "residency_hole", part |-> part, count |-> holes[part]] :
               part \in {p \in {"logs", "points"} : holes[p] > 0}}
      \cup {[kind |-> "relation_shrinkage", count |-> n] : n \in {shrunk} \ {0}}

Stated(kind) == {entry \in FlowCoverage : entry.kind = kind}

(* 1: a redirection is named, and names the effective root.                  *)
SubjectsAreStatedSeparately == subject.entity # requested => subject.note = "rooted_at"

(* 3: both ends of a relation are in the evidence.                           *)
SignalRefsResolve ==
    \A i \in DOMAIN relations : relations[i].from \in Evidence /\ relations[i].to \in Evidence

(* 4: no entity is carried by two views.                                     *)
ViewsCarryEntityIds == Cardinality(Evidence) = Len(waterfall) + Cardinality(named)

(* 5: who stopped has walked.                                                *)
NoPartialContentAsComplete == halted # None => TotalPages > 0

(* 6: the entity total is the views plus the holes stated.                   *)
RunFactsAreConsistent ==
    entities = Len(waterfall) + Cardinality(named)
                 + SumFunction([e \in Stated("residency_hole") |-> e.count])

(* 2, 7: when points were walked their window is stated, within what was     *)
(* asked for, which is the waterfall's extent, or empty at its end.          *)
MetricWindowIsStated ==
    runs["points"] > 0 =>
      \E entry \in Stated("metric_window") :
        /\ entry.asked = Extent
        /\ \/ entry.asked.from <= entry.resident.from /\ entry.resident.from < entry.resident.to
           \/ entry.resident.from = entry.asked.to
        /\ entry.resident.to <= entry.asked.to

-----------------------------------------------------------------------------
(* Properties.                                                               *)

(* The waterfall stands, and no step changes it from here on.                *)
Resolved == pc = "logs"
TraceMembers == {k \in ToSet(spans) : OfTrace(k)}

(* The walked identities within 0, 1, 2... parent links of the root's.       *)
Levels ==
    LET level[n \in 0..Len(spans)] ==
          IF n = 0 THEN {Facts[j].span : j \in ToSet(Seeds)}
          ELSE LET nearer == level[n - 1]
               IN  nearer \cup {Facts[j].span : j \in {i \in TraceMembers : Facts[i].parent \in nearer}}
    IN  level

(* Once the effective root was walked the waterfall shows every walked       *)
(* identity of the trace exactly once, nearer ones first and those without a *)
(* chain to the root last, over broken links, parent cycles and identities   *)
(* walked twice because they were re-admitted meanwhile (flow.rs: waterfall).*)
WaterfallWhole ==
    Resolved /\ Seeds # <<>> =>
      /\ \A k \in TraceMembers : \E i \in DOMAIN waterfall : Facts[waterfall[i]].span = Facts[k].span
      /\ ToSet(waterfall) \subseteq TraceMembers
      /\ \A i, j \in DOMAIN waterfall : i < j =>
           /\ Facts[waterfall[i]].span # Facts[waterfall[j]].span
           /\ \A n \in DOMAIN Levels :
                Facts[waterfall[j]].span \in Levels[n] => Facts[waterfall[i]].span \in Levels[n]

(* A selected record is left unnamed only because it is no longer resident   *)
(* or because the examinations ran out: a residency hole is never a record   *)
(* the recovery walk stepped over, whatever moved between the walk that      *)
(* selected it and the slices that name it (flow.rs: name_log_identities).   *)
HolesAreReal ==
    \A part \in {"logs", "points"} :
      pc = NamingPc[part] /\ NamingEnds(part) /\ examined < MaxExaminations
        => Wanted(part) \cap resident = {}

(* The evidence is whole: every walked span of the trace in its place, and   *)
(* no record left unnamed that could have been named.                        *)
EvidenceWhole == WaterfallWhole /\ HolesAreReal

(* A response satisfies the executable invariants of envelope.rs on its      *)
(* subjects (1), its relations' ends (3), its views (4), its stop (5), its   *)
(* totals (6) and its metric window (2 + 7); nothing is said of the          *)
(* outcomes of its pages, of which truncations_are_named (2) does not hold.  *)
(* It stays within the chain's page and examination ceilings, and when it    *)
(* names no stop every part was walked (flow.rs, walk_pages: "a stop is      *)
(* reported - never silently swallowed").                                    *)
EnvelopeSound ==
    pc = "done" =>
      /\ SubjectsAreStatedSeparately /\ SignalRefsResolve /\ ViewsCarryEntityIds
      /\ NoPartialContentAsComplete /\ RunFactsAreConsistent /\ MetricWindowIsStated
      /\ TotalPages <= MaxPages /\ examined <= MaxExaminations
      /\ halted = None => \A part \in Parts : runs[part] > 0

=============================================================================
