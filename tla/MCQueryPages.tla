---------------------------- MODULE MCQueryPages ----------------------------
(* Two services, versioned, unversioned and empty-versioned scopes, records *)
(* on both edges of the windows, and two spans of one admission time.       *)
EXTENDS QueryPages

Text(t) == [kind |-> "String", text |-> t]
Names(t) == [k \in {"service.name"} |-> Text(t)]
NoNames == [k \in {} |-> None]
Numbered == [k \in {"service.name"} |-> [kind |-> "Int", int |-> 1]]
Scope(name, version) == [name |-> name, version |-> version]

A == <<1>>
AB == <<1, 0>>

MCSpan(at, ids, start, resource, scope, size) ==
    [key |-> AdmissionKey(at, SpanEntity(<<ids[1]>>, <<ids[2]>>)),
     view |-> [kind |-> "Spans", size |-> size, stream |-> None,
               record |-> [resource |-> resource, scope |-> scope, start |-> start]]]
MCLog(at, serial, times, severity, resource, scope) ==
    [key |-> AdmissionKey(at, Assigned(serial)),
     view |-> [kind |-> "LogRecords", size |-> 1, stream |-> None,
               record |-> [resource |-> resource, scope |-> scope, time |-> times[1],
                           observed |-> times[2], severity |-> severity]]]
MCPoint(at, serial, time, resource, scope) ==
    [key |-> AdmissionKey(at, Assigned(serial)),
     view |-> [kind |-> "MetricPoints", size |-> 1, record |-> [time |-> time],
               stream |-> [resource |-> resource, scope |-> scope]]]

MCCandidates ==
    {MCSpan(1, <<1, 1>>, 2, Names(A), Scope(A, None), 1),
     MCSpan(1, <<1, 2>>, 4, Names(A), Scope(A, <<>>), 2),
     MCSpan(2, <<2, 1>>, 3, Names(AB), Scope(A, A), 1),
     MCSpan(3, <<2, 1>>, 3, Numbered, Scope(A, None), 1),
     MCLog(2, 1, <<2, None>>, 1, Names(A), Scope(A, A)),
     MCLog(2, 2, <<None, 3>>, 2, NoNames, Scope(AB, None)),
     MCLog(3, 3, <<None, None>>, None, Names(A), Scope(A, A)),
     MCPoint(1, 4, 3, Names(A), Scope(A, A)),
     MCPoint(3, 5, 4, Names(AB), Scope(AB, <<>>))}

Unique(load) == \A r, s \in load : r.key.entity = s.key.entity => r = s
OfSignal(kind) == {c \in MCCandidates : c.view.kind = kind}
MCLoads == {load \in UNION {SUBSET OfSignal(kind) : kind \in SignalKinds} : Unique(load)}

Window24 == [from |-> 2, to |-> 4]
MCQueries ==
    LET spans == AllNone("Spans") logs == AllNone("LogRecords") points == AllNone("MetricPoints")
    IN  {spans, [spans EXCEPT !.service = A], [spans EXCEPT !.range = Window24],
         [spans EXCEPT !.scope = Scope(A, None)], [spans EXCEPT !.scope = Scope(A, <<>>)],
         logs, [logs EXCEPT !.severity = 1], [logs EXCEPT !.severity = 2],
         [logs EXCEPT !.service = A, !.range = Window24],
         points, [points EXCEPT !.service = A], [points EXCEPT !.service = AB],
         [points EXCEPT !.range = Window24, !.scope = Scope(A, A)]}

Budget(deadline, results, bytes, scan) ==
    [deadline |-> deadline, results |-> results, bytes |-> bytes, scan |-> scan]
MCProbe == Budget(9, 1, 9, 9)
MCBudgets ==
    {MCProbe, Budget(15, 9, 9, 9), Budget(9, 0, 9, 9), Budget(9, 9, 1, 9), Budget(9, 9, 9, 1),
     Budget(9, 2, 2, 2), Budget(1, 9, 9, 9), Budget(3, 9, 9, 9), Budget(5, 9, 1, 9)}

(* One-to-one on the instance: a description's rank.                       *)
Fingerprinted == {CanonicalBytes(q) : q \in MCQueries}
Shorter(a, b) == Len(a) < Len(b) \/ (Len(a) = Len(b) /\ LessBytes(a, b))
MCFingerprintOf ==
    [b \in Fingerprinted |-> Word(Cardinality({c \in Fingerprinted : Shorter(c, b)}))]
=============================================================================
