------------------------------- MODULE Filters -------------------------------
(***************************************************************************)
(* The filters of a records query (crates/query/src/filters.rs) and the    *)
(* query's canonical description (crates/query/src/engine.rs): what each   *)
(* filter matches, and the bytes the fingerprint is taken over.            *)
(*                                                                         *)
(* Here, where an encoding must tell strings apart, a string is a tuple of *)
(* bytes; a byte is below Base and a u64 is WordBytes of them.             *)
(***************************************************************************)
EXTENDS Integers, Sequences

CONSTANTS
    None,       \* an absent field
    Base,       \* the values of a byte
    WordBytes   \* the bytes of a u64

(* A byte holds a severity number, the largest tag there is.               *)
ASSUME FiltersAssumption == Base \in Nat /\ Base > 24 /\ WordBytes \in Nat \ {0}

Byte == 0 .. Base - 1

(* What is left of a number when its lowest bytes are taken off.           *)
Left(n) ==
    LET left[i \in 0 .. WordBytes] == IF i = 0 THEN n ELSE left[i - 1] \div Base
    IN  left

(* A u64, and its to_le_bytes.                                             *)
Words == {n \in Nat : Left(n)[WordBytes] = 0}
Word(n) == [i \in 1 .. WordBytes |-> Left(n)[i - 1] % Base]

(* A string, whose length is a u64.                                        *)
IsText(text) == text \in Seq(Byte) /\ Len(text) \in Words

-----------------------------------------------------------------------------
(* The record view: a span, a log record, or a point with its stream.      *)
SignalKinds == {"Spans", "LogRecords", "MetricPoints"}

ResourceOf(view) ==
    IF view.kind = "MetricPoints" THEN view.stream.resource ELSE view.record.resource
ScopeOf(view) ==
    IF view.kind = "MetricPoints" THEN view.stream.scope ELSE view.record.scope

(* A log without its event time is placed by when it was observed.         *)
LogTimeKey(record) == IF record.time # None THEN record.time ELSE record.observed

TimeKeyOf(view) ==
    CASE view.kind = "Spans"        -> view.record.start
      [] view.kind = "LogRecords"   -> LogTimeKey(view.record)
      [] view.kind = "MetricPoints" -> view.record.time

(* The service of a record is a string, or the filter does not match.      *)
ServiceMatches(name, view) ==
    LET identity == ResourceOf(view)
    IN  /\ "service.name" \in DOMAIN identity
        /\ identity["service.name"].kind = "String"
        /\ identity["service.name"].text = name

(* Fault: the window's end is inside it.                                   *)
TimeRangeClosed(range, view) ==
    TimeKeyOf(view) # None /\ range.from <= TimeKeyOf(view) /\ TimeKeyOf(view) <= range.to

(* The half-open window; a record without a time is on neither side.       *)
TimeRangeMatches(range, view) ==
    TimeKeyOf(view) # None /\ range.from <= TimeKeyOf(view) /\ TimeKeyOf(view) < range.to

SeverityMatches(minimum, view) ==
    /\ view.kind = "LogRecords"
    /\ view.record.severity # None
    /\ view.record.severity >= minimum

(* Name and version, and an absent version is not the empty one.           *)
ScopeMatches(scope, view) ==
    ScopeOf(view).name = scope.name /\ ScopeOf(view).version = scope.version

(* A record as the model admits it: a number for each time and severity it *)
(* has, and a service that is a string or is none.                         *)
IsView(view) ==
    /\ view.kind \in SignalKinds /\ view.size \in Nat
    /\ \A k \in DOMAIN ResourceOf(view) :
         LET value == ResourceOf(view)[k]
         IN  value.kind = "String" => value = [kind |-> "String", text |-> value.text]
    /\ ScopeOf(view) = [name |-> ScopeOf(view).name, version |-> ScopeOf(view).version]
    /\ IF view.kind = "LogRecords"
       THEN /\ {view.record.time, view.record.observed} \subseteq Nat \cup {None}
            /\ view.record.severity \in 1 .. 24 \cup {None}
       ELSE TimeKeyOf(view) \in Nat \cup {None}

(* Every filter that is set matches.  Spans and points have no severity    *)
(* filter.                                                                 *)
Matches(query, view) ==
    /\ query.service # None => ServiceMatches(query.service, view)
    /\ query.range # None => TimeRangeMatches(query.range, view)
    /\ query.severity # None => SeverityMatches(query.severity, view)
    /\ query.scope # None => ScopeMatches(query.scope, view)

-----------------------------------------------------------------------------
(* A records query: a kind and that kind's filters.                        *)
AllNone(kind) ==
    [kind |-> kind, service |-> None, range |-> None, severity |-> None, scope |-> None]
WellFormed(query) ==
    /\ query = [kind |-> query.kind, service |-> query.service, range |-> query.range,
                severity |-> query.severity, scope |-> query.scope]
    /\ query.kind \in SignalKinds
    /\ query.service # None => IsText(query.service)
    /\ query.range # None => query.range \in [from : Words, to : Words]
    /\ query.severity # None => query.kind = "LogRecords" /\ query.severity \in 1 .. 24
    /\ query.scope # None =>
         /\ query.scope = [name |-> query.scope.name, version |-> query.scope.version]
         /\ IsText(query.scope.name)
         /\ query.scope.version # None => IsText(query.scope.version)

ABSENT == 0
PRESENT == 1
QueryTag == 2
QueryVersion == 2
KindTag(kind) == CASE kind = "Spans" -> 0 [] kind = "LogRecords" -> 1 [] kind = "MetricPoints" -> 2

(* A string is preceded by its length.                                     *)
PushStr(text) == Word(Len(text)) \o text

(* Fault: an absent version is encoded as an empty one.                    *)
PushVersionBare(version) == IF version = None THEN PushStr(<<>>) ELSE PushStr(version)

PushVersion(version) ==
    IF version = None THEN <<ABSENT>> ELSE <<PRESENT>> \o PushStr(version)

PushService(name) == IF name = None THEN <<ABSENT>> ELSE <<PRESENT>> \o PushStr(name)
PushRange(range) ==
    IF range = None THEN <<ABSENT>> ELSE <<PRESENT>> \o Word(range.from) \o Word(range.to)
PushSeverity(minimum) == IF minimum = None THEN <<ABSENT>> ELSE <<PRESENT, minimum>>
PushScope(scope) ==
    IF scope = None THEN <<ABSENT>>
    ELSE <<PRESENT>> \o PushStr(scope.name) \o PushVersion(scope.version)

(* One slot per filter, in a fixed order; only logs have the severity's.   *)
PushCanonical(query) ==
    PushService(query.service) \o PushRange(query.range)
    \o (IF query.kind = "LogRecords" THEN PushSeverity(query.severity) ELSE <<>>)
    \o PushScope(query.scope)

CanonicalBytes(query) ==
    <<QueryTag, QueryVersion, KindTag(query.kind)>> \o PushCanonical(query)
=============================================================================
