------------------------------ MODULE MCSurface ------------------------------
(***************************************************************************)
(* A small instance of Surface for TLC: two spans with ids, a span and two *)
(* logs and a point under serials.                                         *)
(***************************************************************************)
EXTENDS Surface

Trace == <<1, 5>>
Root == SpanId(Trace, <<3>>)
Child == SpanId(Trace, <<6>>)
Nameless == AssignedId(1)
Log == AssignedId(2)
StrayLog == AssignedId(3)
Point == AssignedId(4)

SomeSpans == {Root, Child, Nameless}
SomeLogs == {Log, StrayLog}
SomeEntities == SomeSpans \cup SomeLogs \cup {Point}
SomeContexts ==
    [e \in SomeLogs |-> IF e = Log THEN [trace_id |-> Trace, span_id |-> <<6>>]
                                   ELSE [trace_id |-> Trace, span_id |-> None]]

-----------------------------------------------------------------------------
(* What the flow answers.                                                  *)
Run(outcome) == [outcome |-> outcome, coverage |-> <<>>, next_cursor |-> None]
Flow(entity, root, note) ==
    [kind |-> "envelope",
     subject |-> [requested |-> entity, root |-> root, notes |-> <<note>>],
     execution |-> [run_groups |-> <<[part |-> "spans", runs |-> <<Run([kind |-> "complete"])>>]>>,
                    flow_coverage |-> <<>>],
     correlated |-> <<>>, evidence |-> [spans |-> <<>>, logs |-> <<>>, points |-> <<>>],
     spent |-> 1, stopped |-> None, strategy_versions |-> <<"v1">>]
Plain == Flow(Root, Root, [kind |-> "requested_span_is_root"])
Stalled ==
    [Plain EXCEPT !.execution.run_groups[1].runs[1] =
        [Run([kind |-> "stalled"]) EXCEPT
            !.coverage = <<[kind |-> "driver_stall", after |-> Child]>>]]

(* Pages cut short at a cursor and at a record, one with nothing left out, *)
(* and pages refused, one at the limit itself.                             *)
Cut(dimension, cursor, last, omitted) ==
    [kind |-> "degraded", truncation |-> [dimension |-> dimension, cursor |-> cursor,
                                          last_examined |-> last, omitted |-> omitted]]
RefusedAt(dimension, limit, observed) ==
    [kind |-> "refused", refusal |-> [dimension |-> dimension, limit |-> limit,
                                      observed |-> observed]]
Paged ==
    [Plain EXCEPT
       !.execution.run_groups =
          <<[part |-> "spans", runs |-> <<
             [Run(Cut("results", <<2, 7>>, None, 0)) EXCEPT
                !.coverage = <<[kind |-> "eviction_gap", after |-> Root, before |-> Child],
                               [kind |-> "snapshot_boundary", admission_time |-> 4,
                                entity |-> Child]>>,
                !.next_cursor = <<2, 7>>],
             [Run(Cut("bytes", None, Child, 2)) EXCEPT
                !.coverage = <<[kind |-> "uncounted_tail", after |-> Child,
                                dimension |-> "bytes"]>>]>>],
            [part |-> "related_logs", runs |-> <<
             Run(RefusedAt("scan", 3, 3))>>],
            [part |-> "surrounding_metrics", runs |-> <<
             Run(RefusedAt("deadline", 3, 4))>>]>>,
       !.execution.flow_coverage =
          <<[kind |-> "suppressed_evidence", log |-> Log, span |-> Child, suppressed |-> 1],
            [kind |-> "absent_trace_spans", log |-> StrayLog],
            [kind |-> "correlation_degradation", stop |-> "max_depth", value |-> 2],
            [kind |-> "residency_hole", part |-> "related_logs", count |-> 1],
            [kind |-> "metric_window", asked |-> <<1, 3>>, resident |-> <<2, 3>>],
            [kind |-> "admission_anomalies", total |-> 1],
            [kind |-> "relation_shrinkage", count |-> 1],
            [kind |-> "temporal_strategy_skipped", reason |-> "no_window"]>>,
       !.spent = 4, !.stopped = "total_pages"]

(* Evidence, and relations between it.                                     *)
Text(t) == [kind |-> "String", text |-> t]
NoNumber(bits) == [kind |-> "Double", finite |-> FALSE, bits |-> bits]
List(entries) == [kind |-> "KvList", entries |-> entries]
A == [key |-> "a", value |-> Text(<<10>>)]
B == [key |-> "b", value |-> [kind |-> "Double", finite |-> TRUE, bits |-> 1]]
SpanFound(entity, parent, end) ==
    [entity |-> entity,
     span |-> [context |-> entity, name |-> "op", parent |-> parent, start |-> 1, end |-> end]]
LogFound(entity, span_id, body) ==
    [entity |-> entity, log |-> [time |-> None, observed |-> 2, body |-> body,
                                 trace_id |-> Trace, span_id |-> span_id]]
PointFound(entity, point) == [entity |-> entity, point |-> point, stream |-> "latency"]
Rich ==
    [Flow(Child, Root, [kind |-> "trace_rooted_at", entity |-> Root]) EXCEPT
       !.correlated =
          <<[type |-> "span_identity", from |-> [kind |-> "log_records", entity |-> Log],
             to |-> [kind |-> "spans", entity |-> Child],
             facts |-> <<[field |-> "span_id", value |-> [kind |-> "Bytes", bytes |-> <<6>>]],
                         [field |-> "tags", value |-> [kind |-> "Array",
                                                       items |-> <<Text(<<10>>), Text(<<>>)>>]]>>,
             strategy |-> "span_identity", window |-> None]>>,
       !.evidence =
          [spans |-> <<SpanFound(Root, None, 3), SpanFound(Child, <<3>>, None)>>,
           logs |-> <<LogFound(Log, <<6>>, List(<<A, B>>)), LogFound(StrayLog, None, None)>>,
           points |-> <<PointFound(Point, [shape |-> "number", time |-> 2,
                                           value |-> [kind |-> "Int", int |-> 1]]),
                        PointFound(AssignedId(6), [shape |-> "number", time |-> 2,
                                                   value |-> NoNumber(7)]),
                        PointFound(AssignedId(5), [shape |-> "summary"])>>]]

(* An outcome JSON does not tell from Rich, and some it does: one span that *)
(* has ended at once, a text that is not the hex, a number for no body.     *)
Lookalike ==
    [Rich EXCEPT !.correlated[1].facts[1].value = Text(<<2, 0>>),
                 !.evidence.logs[1].log.body = List(<<B, A>>),
                 !.evidence.logs[2].log.body = NoNumber(7),
                 !.evidence.points[2].point.value = NoNumber(8)]
Unlike ==
    [Lookalike EXCEPT !.correlated[1].facts[1].value = Text(<<2, 1>>)]
Bodied == [Rich EXCEPT !.evidence.logs[2].log.body = B.value]
Ended == [Rich EXCEPT !.evidence.spans[2].span.end = 1]
Orphan == Flow(Child, Child, [kind |-> "no_parentless_span_resident"])
Bare == Flow(Nameless, Nameless, [kind |-> "root_has_no_valid_trace_identity"])
Fails(kind) == [kind |-> kind]

Answering(pairs) ==
    {[e \in SomeSpans |-> CASE e = Root -> r [] e = Child -> c [] e = Nameless -> Bare] :
        <<r, c>> \in pairs}
FailingFlows == Answering({<<Fails("panic"), Rich>>,
                           <<Fails("engine_contract"), Fails("cursor_rejected")>>})
ShapeFlows == Answering({<<Plain, Rich>>, <<Stalled, Orphan>>, <<Paged, Ended>>})
ValueFlows == Answering({<<Plain, Lookalike>>, <<Plain, Unlike>>, <<Plain, Bodied>>})
SomeFlows == FailingFlows \cup ShapeFlows \cup ValueFlows

-----------------------------------------------------------------------------
(* What clients send.                                                      *)
Object(fields) == [object |-> TRUE, fields |-> fields]
NoObject == [object |-> FALSE, fields |-> <<>>]
Whole(entity) == RenderEntity(entity)
SomeTraceArguments ==
    {Object([root_span |-> Whole(Root)]), Object([root_span |-> Whole(Child)]),
     Object([root_span |-> Whole(Log)]), Object([root_span |-> Whole(Nameless)]),
     Object([root_span |-> [assigned |-> 0]]), Object([root_span |-> [other |-> 1]]),
     Object([root_span |-> [span |-> [trace_id |-> <<0, 1>>, span_id |-> <<1, 0>>]]]),
     Object([root_span |-> [span |-> [trace_id |-> <<0, 1, 0, 9>>, span_id |-> <<1, 0>>]]]),
     Object([root_span |-> [span |-> [span_id |-> <<1, 0>>]]]),
     Object(Whole(Root)), NoObject}

Message(id, method, params) ==
    [jsonrpc |-> TRUE, id |-> id, method |-> method, params |-> params]
Call(id, tool, arguments) == Message(id, "tools/call", [name |-> tool, arguments |-> arguments])
Frame(message) ==
    [header |-> "length", length |-> 2, present |-> 2, json |-> TRUE, message |-> message]
Noise == Frame(Message(None, "notifications/initialized", None))
Broken == [Noise EXCEPT !.json = FALSE]

(* One message, whatever it is.                                            *)
PlainFrames ==
    {Frame(Message(1, m, None)) : m \in {"initialize", "ping", "tools/list", "tools/call", "x", None}}
    \cup {Noise, Broken, Frame([Message(1, "ping", None) EXCEPT !.jsonrpc = FALSE]),
          Frame([Message(None, None, None) EXCEPT !.jsonrpc = FALSE]),
          Frame(Message(Null, "ping", None)), Frame(Call(1, "other", None)),
          Frame(Call(1, "investigate_trace", None)),
          [Noise EXCEPT !.header = "eof"], [Noise EXCEPT !.header = "missing"],
          [Noise EXCEPT !.header = "invalid"], [Noise EXCEPT !.length = 9],
          [Noise EXCEPT !.present = 1]}
ToolFrames ==
    {Frame(Call(2, "investigate_trace", a)) : a \in SomeTraceArguments}
    \cup {Frame(Call(2, "investigate_log", Object([log |-> Whole(e)]))) :
            e \in {Log, StrayLog, Child, Point}}
    \cup {Frame(Call(2, "investigate_metric", Object([metric |-> Whole(e)]))) :
            e \in {Point, Log, Root}}
    \cup {Frame(Call(2, "continue_investigation",
                     Object([root_span |-> Whole(Root), cursor |-> c]))) :
            c \in {<<0, 2, 2, 1>>, <<1>>, <<>>, <<0, 9>>}}
    \cup {Frame(Call(2, "continue_investigation", Object([root_span |-> Whole(Root)])))}

Body(arguments) == [declared |-> 3, json |-> TRUE, arguments |-> arguments]
BadSpans ==
    {[trace_id |-> <<0, 1, 0, 2>>], [trace_id |-> <<0, 9>>, span_id |-> <<1, 9>>],
     [trace_id |-> <<0, 1, 0, 2>>, span_id |-> <<1, 0, 0>>],
     [trace_id |-> <<0, 1, 0, 2>>, span_id |-> <<1, 9>>]}
SomeBodies ==
    {Body(a) : a \in SomeTraceArguments \cup {Object([root_span |-> [span |-> s]]) : s \in BadSpans}}
    \cup {[Body(NoObject) EXCEPT !.json = FALSE], [Body(NoObject) EXCEPT !.declared = 9]}

Setting(resident_, moves_, frames, bodies_, flows_) ==
    [resident |-> resident_, moves |-> moves_, frames |-> frames, bodies |-> bodies_,
     flows |-> flows_]
AskTrace == Object([root_span |-> Whole(Root)])
AskChild == Object([root_span |-> Whole(Child)])

(* Two messages over a store that stands still; every body over one that   *)
(* moves; a tool call, between other messages, beside an HTTP exchange;    *)
(* answers that differ in their values alone, on both surfaces.            *)
OverFlows == FailingFlows \cup ShapeFlows
SomeSettings ==
    {Setting({}, MaxMoves, <<a, b>>, {}, {CHOOSE f \in SomeFlows : TRUE}) :
        a \in PlainFrames, b \in PlainFrames}
    \cup {Setting(SomeEntities, 0, <<>>, SomeBodies, OverFlows)}
    \cup {Setting(SomeEntities, 0, <<f>>, {Body(AskTrace), Body(AskChild)}, OverFlows) :
            f \in ToolFrames}
    \cup {Setting(SomeEntities \ {Root}, 0, <<Noise, f, Frame(Call(3, "investigate_trace", AskTrace))>>,
                  {Body(AskTrace)}, OverFlows) :
            f \in {Frame(Call(2, "investigate_log", Object([log |-> Whole(Log)]))), Broken}}
    \cup {Setting(SomeEntities, 0, <<Frame(Call(2, "investigate_trace", AskChild))>>,
                  {Body(AskChild)}, ValueFlows)}
=============================================================================
