---------------------------- MODULE Correlation ----------------------------
(***************************************************************************)
(* The correlation engine (crates/correlation/src/engine.rs): one run      *)
(* scans the spans, the logs and the points of a store that moves between  *)
(* its calls, forms the relations of the requested strategies over what it *)
(* saw, and re-checks every endpoint against the store before it answers.  *)
(*                                                                         *)
(* A record is its admission key: keys are numbers in residency order, and *)
(* what a record says is Facts[key].  A key is kept at most once; the same *)
(* entity re-admitted is another key.  An entity is a number in the        *)
(* engine's entity order.                                                  *)
(***************************************************************************)
EXTENDS Selection, SequencesExt

CONSTANTS
    None,
    MaxKey,     \* bound: admission keys the store may ever hold
    Facts,      \* what each record says
    ScanPage,   \* SCAN_PAGE
    Calls,      \* the bounds callers run the engine with
    Stores,     \* bound: the resident sets a behaviour may begin with
    MaxMoves    \* bound: keeps and expiries in a behaviour

Keys == 1..MaxKey
Kinds == <<"span", "log", "point">>
Strategies == {"span_identity", "trace_identity", "parent_child",
               "resource_context", "exemplar", "temporal"}

(* A strategy's relation type, by its rank in the answer's order.            *)
TypeRank == [span_identity |-> 0, trace_identity |-> 1, parent_child |-> 2,
             resource_context |-> 3, exemplar |-> 4, temporal |-> 5]
KindRank == [span |-> 0, log |-> 1, point |-> 2]

Refs == {0, 1, 2} \X Nat
Relations == [type: 0..5, from: Refs, to: Refs]
Stops == {None, "depth", "scan", "relations"}
Windows == [from: Nat, to: Nat]

ASSUME CorrelationAssumption ==
    /\ MaxKey \in Nat /\ MaxMoves \in Nat /\ ScanPage \in Nat \ {0}
    /\ None \notin Nat \cup {"depth", "scan", "relations"}
    /\ Facts \in [Keys -> [kind: {"span", "log", "point"}, entity: Nat,
                           trace: Nat \cup {None}, span: Nat \cup {None},
                           parent: Nat \cup {None}, resource: Nat,
                           start: Nat, end: Nat, links: Seq([trace: Nat, span: Nat])]]
    /\ \A S \in Stores :
         S \subseteq Keys /\ \A j, k \in S : Facts[j].entity = Facts[k].entity => j = k
    /\ \A c \in Calls :
         /\ c.strategies \in Seq(Strategies)
         /\ c.subject \in Nat \cup {None} /\ c.window \in Windows \cup {None}
         /\ c.relations \in Nat /\ c.scan \in Nat /\ c.hops \in Nat

(* A natural span's entity is its identity, and nothing else's; the entity   *)
(* of any other record is drawn afresh when it is admitted.                  *)
Natural(k) == Facts[k].kind = "span" /\ Facts[k].trace # None /\ Facts[k].span # None
SameIdentity(j, k) ==
    Natural(j) /\ Natural(k) /\ Facts[j].trace = Facts[k].trace /\ Facts[j].span = Facts[k].span

ASSUME IdentityAssumption ==
    \A j, k \in Keys : Facts[j].kind = Facts[k].kind =>
      (Facts[j].entity = Facts[k].entity <=> j = k \/ SameIdentity(j, k))

VARIABLES
    resident,    \* the resident records
    kept,        \* every key ever kept
    moves,       \* keeps and expiries so far
    steady,      \* history: resident since the run began, without a break
    moved,       \* history: the store changed since the run began
    alive,       \* history: resident at some time since the relations were formed
    call,        \* the bounds of the run
    cpc,         \* "idle", "scan", "form", "check" or "answered"
    shelf,       \* the kind being scanned, as a position of Kinds
    after,       \* where its next page resumes; 0 is its start
    seen,        \* the records scanned, by kind, in scan order
    spent,       \* positions examined
    stopped,     \* where the run stopped, or None
    formed,      \* the relations formed, those past the ceiling left out
    suppressions, \* the suppressions accounted
    absent,      \* logs whose trace has no resident span
    checked,     \* endpoints of `formed` looked up so far, two per relation
    answer,      \* the relations that survive
    shrunken     \* those that did not

storeVars == <<resident, kept, moves, steady, moved, alive>>
scanVars == <<shelf, after, seen, spent>>
formVars == <<formed, suppressions, absent>>
answerVars == <<checked, answer, shrunken>>
runVars == <<call, cpc, stopped, scanVars, formVars, answerVars>>

NothingSeen == [k \in {"span", "log", "point"} |-> <<>>]

CorrelationInit ==
    /\ resident \in Stores
    /\ kept = resident /\ moves = 0 /\ steady = resident /\ alive = {} /\ moved = FALSE
    /\ call = None /\ cpc = "idle" /\ stopped = None
    /\ shelf = 1 /\ after = 0 /\ seen = NothingSeen /\ spent = 0
    /\ formed = <<>> /\ suppressions = {} /\ absent = {}
    /\ checked = 0 /\ answer = <<>> /\ shrunken = 0

CorrelationTypeOK ==
    /\ resident \subseteq kept /\ kept \subseteq Keys /\ steady \subseteq resident
    /\ moves \in 0..MaxMoves /\ alive \subseteq Keys /\ moved \in BOOLEAN
    /\ cpc \in {"idle", "scan", "form", "check", "answered"}
    /\ stopped \in Stops
    /\ shelf \in 1..4 /\ after \in 0..MaxKey
    /\ \A k \in {"span", "log", "point"} : ToSet(seen[k]) \subseteq Keys
    /\ spent \in Nat /\ shrunken \in Nat /\ checked \in Nat
    /\ ToSet(formed) \subseteq Relations /\ ToSet(answer) \subseteq Relations
    /\ absent \subseteq Nat

-----------------------------------------------------------------------------
(* The store, between two calls of its reader: keeps in any order, evictions *)
(* oldest first over all kinds.                                              *)

Ref(k) == <<KindRank[Facts[k].kind], Facts[k].entity>>
IsResident(ref) == \E k \in resident : Ref(k) = ref
Above(keys, floor) == {k \in keys : k > floor}

StoreKeeps ==
    \E k \in Keys \ kept, floor \in resident \cup {0} :
      /\ ~IsResident(Ref(k)) /\ moves < MaxMoves
      /\ moves' = moves + 1
      /\ kept' = kept \cup {k}
      /\ resident' = Above(resident \cup {k}, floor)
      /\ steady' = Above(steady, floor)
      /\ alive' = alive \cup (IF cpc = "check" THEN {k} ELSE {})
      /\ moved' = TRUE

StoreExpires ==
    \E floor \in resident :
      /\ moves < MaxMoves
      /\ moves' = moves + 1
      /\ resident' = Above(resident, floor)
      /\ steady' = Above(steady, floor)
      /\ moved' = TRUE
      /\ UNCHANGED <<kept, alive>>

-----------------------------------------------------------------------------
(* What relates two records.                                                 *)

Identified(k, trace, span) ==
    Natural(k) /\ Facts[k].trace = trace /\ Facts[k].span = span
IsMember(k) == call.subject # None /\ Natural(k) /\ Facts[k].trace = call.subject
IsRelatedLog(k) == call.subject # None /\ Facts[k].trace = call.subject
ExactFor(l, s) == Facts[l].span # None /\ Identified(s, Facts[l].trace, Facts[l].span)
ParentOf(c, p) ==
    /\ Natural(c) /\ Facts[c].parent # None
    /\ Identified(p, Facts[c].trace, Facts[c].parent)
    /\ Facts[p].entity # Facts[c].entity

(* Both inside the window and no further apart than it is long.              *)
CoActive(s, p) ==
    LET w == call.window
        time == Facts[p].start
        gap == IF Facts[s].start <= time /\ time < Facts[s].end THEN 0
               ELSE IF time < Facts[s].start THEN Facts[s].start - time
               ELSE time - Facts[s].end
    IN  /\ w # None /\ w.from < w.to
        /\ Facts[s].end > w.from /\ Facts[s].start < w.to
        /\ w.from <= time /\ time < w.to
        /\ gap <= w.to - w.from

Rel(strategy, a, b) == [type |-> TypeRank[strategy], from |-> Ref(a), to |-> Ref(b)]

-----------------------------------------------------------------------------
(* The strategies, as the loops over what was seen.                          *)

Members == OnlyIn(seen.span, {k \in ToSet(seen.span) : IsMember(k)})
RelatedLogs == OnlyIn(seen.log, {k \in ToSet(seen.log) : IsRelatedLog(k)})

(* The relations of each a of `froms` with the records of `tos` that pass,   *)
(* in loop order.                                                            *)
Pairs(strategy, froms, tos, Test(_, _)) ==
    FlattenSeq([i \in DOMAIN froms |->
      LET hits == OnlyIn(tos, {b \in ToSet(tos) : Test(froms[i], b)})
      IN  [j \in DOMAIN hits |-> Rel(strategy, froms[i], hits[j])]])

(* The relation of a with the first of its hits, if any.                     *)
FirstOf(strategy, a, hits) == IF hits = <<>> THEN <<>> ELSE <<Rel(strategy, a, hits[1])>>

(* The same with the first record that passes, as the named look-ups do.     *)
FirstPairs(strategy, froms, tos, Test(_, _)) ==
    FlattenSeq([i \in DOMAIN froms |->
      FirstOf(strategy, froms[i], OnlyIn(tos, {b \in ToSet(tos) : Test(froms[i], b)}))])

ExactSeen(l) == OnlyIn(Members, {s \in ToSet(Members) : ExactFor(l, s)})

(* The logs without an exact span among the members.                         *)
Loose == OnlyIn(RelatedLogs, {l \in ToSet(RelatedLogs) : ExactSeen(l) = <<>>})

AllSeen == seen.span \o seen.log \o seen.point

(* One relation per unordered pair of a group.                               *)
PairsOf(group) ==
    FlattenSeq([i \in DOMAIN group |->
      [j \in 1..(Len(group) - i) |-> Rel("resource_context", group[i], group[i + j])]])

(* Each resource's records are a group, groups in the resources' order.      *)
ResourceContext ==
    LET resources == Ascending({Facts[k].resource : k \in ToSet(AllSeen)})
    IN  FlattenSeq([g \in DOMAIN resources |->
          PairsOf(OnlyIn(AllSeen, {k \in ToSet(AllSeen) : Facts[k].resource = resources[g]}))])

(* An exemplar at a time, each with the span it names.                       *)
SpansNamed(link) ==
    OnlyIn(seen.span, {s \in ToSet(seen.span) : Identified(s, link.trace, link.span)})
ExemplarAttachment ==
    FlattenSeq([i \in DOMAIN seen.point |->
      LET p == seen.point[i]
      IN  FlattenSeq([e \in DOMAIN Facts[p].links |->
            FirstOf("exemplar", p, SpansNamed(Facts[p].links[e]))])])

Run(strategy) ==
    CASE strategy = "span_identity" ->
           FirstPairs("span_identity", RelatedLogs, Members, ExactFor)
      [] strategy = "trace_identity" ->
           Pairs("trace_identity", Loose, Members, LAMBDA l, s : TRUE)
      [] strategy = "parent_child" ->
           FirstPairs("parent_child", seen.span, seen.span, ParentOf)
      [] strategy = "resource_context" -> ResourceContext
      [] strategy = "exemplar" -> ExemplarAttachment
      [] strategy = "temporal" -> Pairs("temporal", Members, seen.point, CoActive)

Generated == FlattenSeq([i \in DOMAIN call.strategies |-> Run(call.strategies[i])])
Requested(strategy) == Contains(call.strategies, strategy)

-----------------------------------------------------------------------------
(* A run.                                                                    *)

(* A run bounded to no hops answers at once.                                 *)
Correlate(bounds) ==
    /\ cpc = "idle"
    /\ call' = bounds
    /\ steady' = resident /\ moved' = FALSE /\ alive' = {}
    /\ cpc' = IF bounds.hops = 0 THEN "answered" ELSE "scan"
    /\ stopped' = IF bounds.hops = 0 THEN "depth" ELSE None
    /\ UNCHANGED <<resident, kept, moves, scanVars, formVars, answerVars>>

(* The page a scan call returns: the next records of a kind.                 *)
Ahead(kind, floor) == {k \in Above(resident, floor) : Facts[k].kind = kind}
Page(kind, floor, size) == UpTo(Ascending(Ahead(kind, floor)), size)

NextShelf ==
    /\ shelf' = shelf + 1 /\ after' = 0
    /\ cpc' = IF shelf = 3 THEN "form" ELSE "scan"

(* Fault: a page that comes back full ends its kind.                         *)
ScanOnePage ==
    LET kind == Kinds[shelf]
        page == Page(kind, after, ScanPage)
        room == call.scan - spent
        taken == UpTo(page, room)
    IN  /\ cpc = "scan"
        /\ room > 0
        /\ seen' = [seen EXCEPT ![kind] = @ \o taken]
        /\ spent' = spent + Len(taken)
        /\ stopped' = IF taken # page THEN "scan" ELSE stopped
        /\ NextShelf
        /\ UNCHANGED <<storeVars, call, formVars, answerVars>>

(* A page of the kind, examined up to the allowance all kinds share.         *)
Scan ==
    LET kind == Kinds[shelf]
        page == Page(kind, after, ScanPage)
        room == call.scan - spent
        taken == UpTo(page, room)
    IN  /\ cpc = "scan"
        /\ room > 0
        /\ seen' = [seen EXCEPT ![kind] = @ \o taken]
        /\ spent' = spent + Len(taken)
        /\ stopped' = IF taken # page THEN "scan" ELSE stopped
        /\ IF page = <<>> \/ taken # page \/ Ahead(kind, after) = ToSet(page)
           THEN NextShelf
           ELSE after' = Last(page) /\ UNCHANGED <<shelf, cpc>>
        /\ UNCHANGED <<storeVars, call, formVars, answerVars>>

(* The allowance is spent before a page is asked for.                        *)
ScanExhausted ==
    /\ cpc = "scan"
    /\ spent >= call.scan
    /\ stopped' = "scan"
    /\ NextShelf
    /\ UNCHANGED <<storeVars, call, seen, spent, formVars, answerVars>>

(* Fault: one relation past the ceiling is formed.                           *)
CappedLate(relations) == UpTo(relations, call.relations + 1)

(* The sink: the first relations up to the ceiling.                          *)
Capped(relations) == UpTo(relations, call.relations)

(* A log with its exact span among the members, and how many siblings that   *)
(* relation stands for.                                                      *)
Suppression(l) ==
    LET exact == Facts[ExactSeen(l)[1]].entity
    IN  [log |-> Facts[l].entity, span |-> exact,
         suppressed |-> Len(OnlyIn(Members, {s \in ToSet(Members) : Facts[s].entity # exact}))]

(* Every strategy in order, over what was seen: no store call.               *)
Form ==
    /\ cpc = "form"
    /\ formed' = Capped(Generated)
    /\ stopped' = IF Len(Generated) > call.relations /\ stopped = None
                  THEN "relations" ELSE stopped
    /\ suppressions' = IF ~Requested("trace_identity") THEN {}
                       ELSE {Suppression(l) : l \in ToSet(RelatedLogs) \ ToSet(Loose)}
    /\ absent' = IF ~Requested("trace_identity") \/ Members # <<>> THEN {}
                 ELSE {Facts[l].entity : l \in ToSet(Loose)}
    /\ alive' = resident
    /\ cpc' = "check"
    /\ UNCHANGED <<resident, kept, moves, steady, moved, call, scanVars, answerVars>>

(* The relation being re-checked, and its endpoint to look up next.          *)
Current == formed[checked \div 2 + 1]
Endpoint == IF checked % 2 = 0 THEN Current.from ELSE Current.to

(* Fault: only the first endpoint is looked up.                              *)
CheckFromOnly ==
    /\ cpc = "check" /\ checked < 2 * Len(formed)
    /\ checked' = checked + 2
    /\ IF IsResident(Current.from)
       THEN answer' = Append(answer, Current) /\ UNCHANGED shrunken
       ELSE shrunken' = shrunken + 1 /\ UNCHANGED answer
    /\ UNCHANGED <<storeVars, call, cpc, stopped, scanVars, formVars>>

(* One look-up of endpoints_resident.                                        *)
Check ==
    /\ cpc = "check" /\ checked < 2 * Len(formed)
    /\ \/ /\ ~IsResident(Endpoint)
          /\ checked' = 2 * (checked \div 2 + 1)
          /\ shrunken' = shrunken + 1
          /\ UNCHANGED answer
       \/ /\ IsResident(Endpoint)
          /\ checked' = checked + 1
          /\ answer' = IF checked % 2 = 1 THEN Append(answer, Current) ELSE answer
          /\ UNCHANGED shrunken
    /\ UNCHANGED <<storeVars, call, cpc, stopped, scanVars, formVars>>

(* relation_order: by type, then by endpoints.                               *)
Rank(r) == <<r.type, r.from[1], r.from[2], r.to[1], r.to[2]>>
Before(r, s) ==
    \E i \in 1..5 : Rank(r)[i] < Rank(s)[i] /\ \A j \in 1..(i - 1) : Rank(r)[j] = Rank(s)[j]
(* Equal relations in the order they came: the sort is stable.               *)
Place(relations, i) ==
    Cardinality({j \in DOMAIN relations :
                   \/ Before(relations[j], relations[i])
                   \/ relations[j] = relations[i] /\ j <= i})
Sorted(relations) ==
    [n \in DOMAIN relations |->
       relations[CHOOSE i \in DOMAIN relations : Place(relations, i) = n]]

AnswerSorted ==
    /\ cpc = "check" /\ checked = 2 * Len(formed)
    /\ answer' = Sorted(answer)
    /\ cpc' = "answered"
    /\ UNCHANGED <<storeVars, call, stopped, scanVars, formVars, checked, shrunken>>

RunStep == Scan \/ ScanExhausted \/ Form \/ Check \/ AnswerSorted

-----------------------------------------------------------------------------
(* Properties of a run.                                                      *)

Answered == cpc = "answered" /\ stopped = None

Earlier(a, b) ==
    \/ KindRank[Facts[a].kind] < KindRank[Facts[b].kind]
    \/ Facts[a].kind = Facts[b].kind /\ a < b

(* What a strategy relates, as the correlation model states it: a relation   *)
(* holds between a and b among the records S.                                *)
Holds(strategy, a, b, S) ==
    CASE strategy = "span_identity" -> IsRelatedLog(a) /\ Facts[a].kind = "log" /\ ExactFor(a, b)
      [] strategy = "trace_identity" ->
           /\ IsRelatedLog(a) /\ Facts[a].kind = "log" /\ IsMember(b)
           /\ \A s \in S : ~ExactFor(a, s)
      [] strategy = "parent_child" -> ParentOf(a, b)
      [] strategy = "resource_context" -> Earlier(a, b) /\ Facts[a].resource = Facts[b].resource
      [] strategy = "exemplar" ->
           /\ Facts[a].kind = "point"
           /\ \E e \in DOMAIN Facts[a].links :
                Identified(b, Facts[a].links[e].trace, Facts[a].links[e].span)
      [] strategy = "temporal" -> IsMember(a) /\ Facts[b].kind = "point" /\ CoActive(a, b)

Related(S) ==
    UNION {{Rel(strategy, p[1], p[2]) : p \in {q \in S \X S : Holds(strategy, q[1], q[2], S)}} :
           strategy \in ToSet(call.strategies)}

(* Over a store that stood still a run that was not cut answers with exactly *)
(* the relations of the resident set, in the documented order, and each once *)
(* but for a point with several exemplars of one span.                       *)
AnswerExact ==
    Answered /\ ~moved =>
      /\ ToSet(answer) = Related(resident)
      /\ \A i, j \in DOMAIN answer : i < j => ~Before(answer[j], answer[i])
      /\ IsInjective(call.strategies) =>
           \A i, j \in DOMAIN answer : answer[i] = answer[j] =>
             i = j \/ answer[i].type = TypeRank.exemplar

(* Whatever moved meanwhile, a run that was not cut misses no relation of    *)
(* records that were resident throughout, unless a suppression accounts for  *)
(* it.                                                                       *)
AnswerComplete ==
    Answered => \A r \in Related(steady) :
      \/ Contains(answer, r)
      \/ r.type = TypeRank.trace_identity /\ \E s \in suppressions : s.log = r.from[2]

(* "A relation to a non-resident record is not produced": both endpoints of  *)
(* every relation answered were resident after it was formed, whatever was   *)
(* evicted or re-admitted between the scans and the re-check.                *)
EndpointsSeen ==
    \A i \in DOMAIN answer :
      \A ref \in {answer[i].from, answer[i].to} : \E k \in alive : Ref(k) = ref

(* "TraceIdentity never coexists with a SpanIdentity from the same log       *)
(* record": also when the exact span left before the answer.                 *)
StrongestWins ==
    \A i, j \in DOMAIN answer :
      answer[i].type = TypeRank.span_identity /\ answer[j].type = TypeRank.trace_identity
        => answer[i].from # answer[j].from

(* Nothing answered is made up: over a store that stood still the relations  *)
(* are those of the resident set, and over one that moved their endpoints    *)
(* were seen again and the strongest identity stands alone (engine.rs:       *)
(* correlate, trace_identity, endpoints_resident).                           *)
AnswerTrue == AnswerExact /\ EndpointsSeen /\ StrongestWins

(* The allowance is shared by the three scans, the ceiling holds while the   *)
(* relations are formed, and the stop named is the one that was met.         *)
BoundsKept ==
    call # None =>
      /\ spent <= call.scan
      /\ Len(formed) <= call.relations
      /\ stopped = "scan" => spent = call.scan
      /\ stopped = "relations" => Len(formed) = call.relations
=============================================================================
