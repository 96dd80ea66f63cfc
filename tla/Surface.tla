------------------------------- MODULE Surface -------------------------------
(***************************************************************************)
(* The two surfaces on which an investigation is asked for: the MCP server *)
(* on standard input and output (crates/mcp/src/protocol.rs, tools.rs) and *)
(* the HTTP endpoint (crates/server/src/investigation_http.rs), over one   *)
(* store that moves under them.  A session answers one message at a time;  *)
(* an HTTP exchange runs beside it.  Every read of the store is a step, as *)
(* it is a lock of its own.                                                *)
(*                                                                         *)
(* What the flow answers for a subject is fixed for a behaviour: how it is *)
(* found is the subject of TraceInvestigation.                             *)
(***************************************************************************)
EXTENDS Rendering, McpRendering, Selection, SequencesExt

CONSTANTS
    Entities,         \* the entities that may be resident
    Spans,            \* those that are spans; an assigned serial may name one
    Logs,             \* those that are logs
    LogContext,       \* a log's span, with the ids the record lacks as None
    Flows,            \* what the flow may answer, by span
    Settings,         \* bound: stores, sessions and bodies posted that are tried together
    MaxMessageBytes,  \* MAX_MESSAGE_BYTES
    PageLimits,       \* the ceilings of a page both adapters admit, but for its bytes
    PageMaxBytes,     \* PAGE_MAX_BYTES of the MCP adapter
    PayloadCeiling,   \* the runtime's payload ceiling
    ChainLimits,      \* the ceilings of the chain
    MaxMoves,         \* bound: moves of the store
    MaxPosts          \* bound: exchanges over HTTP

(* The ids of an entity, each in full.                                       *)
Ids(length) == [1 .. length -> 0 .. Digits * Digits - 1]
ById == [trace_id : Ids(TraceBytes), span_id : Ids(SpanBytes), serial : {None}]
BySerial == [trace_id : {None}, span_id : {None}, serial : Nat \ {0}]

ASSUME SurfaceAssumption ==
    /\ Spans \subseteq Entities /\ Logs \subseteq Entities /\ Spans \cap Logs = {}
    /\ None \notin Nat \cup {"no_context", "not_object", "keyword",
                             "trace_id_length", "span_id_length", "hex"}
    /\ \A s \in Spans : s \in ById \/ s \in BySerial
    /\ MaxMessageBytes \in Nat /\ MaxMoves \in Nat /\ MaxPosts \in Nat
    /\ \A s \in Settings :
         s.moves \in Nat /\ s.frames \in Seq(ToSet(s.frames)) /\ s.flows \subseteq Flows
    /\ \A f \in Flows : \A s \in Spans :
         f[s].kind = "envelope" => IsFlow(f[s]) /\ f[s].subject.requested = s

VARIABLES
    resident,   \* the entities in the store
    evictions,  \* the records evicted: a store statistic
    moves,      \* the store's moves
    draining,   \* the runtime's closing gate
    flows,      \* what the flow answers for a span
    bodies,     \* the bodies that may be posted
    input,      \* the frames still to be read
    session,    \* "open", or how serve returned
    call,       \* the message being answered
    read,       \* the frames read (history)
    sent,       \* the responses written
    post,       \* the HTTP exchange
    posts,      \* exchanges so far
    judged      \* the last finished exchange on each surface (history)

storeVars == <<resident, evictions, moves, draining>>
mcpVars == <<input, session, call, read, sent>>
httpVars == <<post, posts>>
given == <<flows, bodies>>
vars == <<storeVars, given, mcpVars, httpVars, judged>>

-----------------------------------------------------------------------------
(* What an exchange ends in: an answer in full, or a refusal.              *)
Answer(rendered) == [kind |-> "answer", answer |-> rendered]
Refuse(family, reason) == [kind |-> family, reason |-> reason]
Unresolved(text) == [kind |-> "unresolved", subject |-> text]

(* An exchange under way.  What was resident, and what was not, at some    *)
(* time since it began is kept for the properties.                         *)
Idle == [pc |-> "idle"]
Begun(request) ==
    [pc |-> "begun", request |-> request, entity |-> None, stats |-> None, response |-> None,
     version |-> moves, present |-> resident, absent |-> Entities \ resident,
     floor |-> evictions]
Watching(exchange) ==
    IF exchange.pc = "idle" THEN exchange
    ELSE [exchange EXCEPT !.present = @ \cup resident', !.absent = @ \cup (Entities \ resident')]

Settled(surface, exchange, verdict) ==
    [judged EXCEPT ![surface] =
        [exchange |-> exchange, verdict |-> verdict, version |-> moves, ceiling |-> evictions]]

Init ==
    /\ \E s \in Settings :
         /\ resident = s.resident /\ moves = s.moves
         /\ input = s.frames /\ bodies = s.bodies /\ flows \in s.flows
    /\ evictions = 0 /\ draining = FALSE
    /\ session = "open" /\ call = Idle
    /\ read = <<>> /\ sent = <<>>
    /\ post = Idle /\ posts = 0
    /\ judged = [mcp |-> None, http |-> None]

-----------------------------------------------------------------------------
(* The store moves: the pump keeps, retention and eviction take.           *)
StoreMoves ==
    /\ moves < MaxMoves /\ moves' = moves + 1
    /\ \E e \in Entities :
         IF e \in resident
         THEN resident' = resident \ {e} /\ evictions' = evictions + 1
         ELSE resident' = resident \cup {e} /\ UNCHANGED evictions
    /\ call' = Watching(call) /\ post' = Watching(post)
    /\ UNCHANGED <<draining, given, input, session, read, sent, posts, judged>>

BeginDrain ==
    /\ ~draining /\ draining' = TRUE
    /\ UNCHANGED <<resident, evictions, moves, given, mcpVars, httpVars, judged>>

-----------------------------------------------------------------------------
(* The reads of LockedStore, each under the lock for its own length only.  *)
(* The flow, as both adapters run it, reads the statistics first, then the *)
(* subject's record.                                                       *)
SpanRead(entity) == entity \in Spans \cap resident
LogRead(entity) == entity \in Logs \cap resident
PointRead(entity) == entity \in resident \ (Spans \cup Logs)
Stats == [resident_records |-> Cardinality(resident), total_evictions |-> evictions]
AdmittedBudget(max_bytes) == [page |-> PageLimits, max_bytes |-> max_bytes]
HttpBudget == AdmittedBudget(PayloadCeiling)
McpBudget == AdmittedBudget(PageMaxBytes)

Envelope(flow, budget, stats) ==
    [subject |-> flow.subject, execution |-> flow.execution,
     correlated |-> flow.correlated, evidence |-> flow.evidence,
     limits |-> [budget |-> budget,
                 chain |-> [limits |-> ChainLimits, spent |-> flow.spent,
                            stopped |-> flow.stopped],
                 strategy_versions |-> flow.strategy_versions, eviction |-> stats]]

-----------------------------------------------------------------------------
(* The tools, and the arguments they take.                                 *)
Tools == {"investigate_trace", "investigate_log", "investigate_metric",
          "continue_investigation"}
Keyword(tool) == CASE tool = "investigate_log" -> "log"
                   [] tool = "investigate_metric" -> "metric"
                   [] OTHER -> "root_span"

(* entity_schema: one of the two descriptors.                              *)
EntitySchema(value) ==
    \/ Has(value, "span") /\ {"trace_id", "span_id"} \subseteq DOMAIN value.span
    \/ Has(value, "assigned") /\ value.assigned >= 1

(* The inputSchema tools/list advertises for a tool.                       *)
InputSchema(tool, arguments) ==
    /\ arguments.object
    /\ IF tool = "continue_investigation"
       THEN /\ {"root_span", "cursor"} \subseteq DOMAIN arguments.fields
            /\ EntitySchema(arguments.fields.root_span)
       ELSE EntitySchema(arguments.fields)

(* parse_subject of the tools: the arguments must be an object that names  *)
(* the subject under the tool's keyword.                                   *)
ParseSubject(arguments, keyword) ==
    IF ~arguments.object THEN Err("not_object")
    ELSE IF ~Has(arguments.fields, keyword) THEN Err("keyword")
    ELSE McpParseEntity(arguments.fields[keyword])

(* A cursor is hex of even length, and some; the engine judges the rest.   *)
ParseCursor(arguments) ==
    /\ arguments.object /\ Has(arguments.fields, "cursor")
    /\ arguments.fields.cursor # <<>>
    /\ Len(arguments.fields.cursor) % 2 = 0
    /\ McpIsHex(arguments.fields.cursor)

-----------------------------------------------------------------------------
(* Messages and their responses.                                           *)
PARSE_ERROR == -32700
INVALID_REQUEST == -32600
METHOD_NOT_FOUND == -32601
INVALID_PARAMS == -32602

ResultResponse(id, result) == [id |-> id, result |-> result]
ErrorResponse(id, code) == [id |-> id, error |-> code]
ToolResponse(id, verdict) ==
    ResultResponse(id, [content |-> verdict, isError |-> verdict.kind # "answer"])

(* A frame is an end of input, or headers and a body of which the input    *)
(* may hold only a part.                                                   *)
ReadMessage(frame) ==
    CASE frame.header = "eof" -> "eof"
      [] frame.header \in {"invalid", "missing"} -> "violation"
      [] frame.length > MaxMessageBytes -> "violation"
      [] frame.present < frame.length -> "violation"
      [] ~frame.json -> "parse_error"
      [] OTHER -> "message"

Replying(exchange, response) == [exchange EXCEPT !.pc = "reply", !.response = response]
Refused(exchange, reason) ==
    Replying(exchange, ToolResponse(exchange.request.id, Refuse("parse", reason)))

(* Dispatch of a known tool, up to its first read of the store.            *)
Dispatch(exchange) ==
    LET params    == exchange.request.params
        arguments == params.arguments
        subject   == ParseSubject(arguments, Keyword(params.name))
    IN  IF arguments = None THEN Refused(exchange, "arguments")
        ELSE IF subject.refusal # None THEN Refused(exchange, subject.refusal)
        ELSE IF params.name = "continue_investigation" /\ ~ParseCursor(arguments)
        THEN Refused(exchange, "cursor")
        ELSE [exchange EXCEPT
                !.entity = subject.entity,
                !.pc = IF subject.entity.serial = None THEN "admit"
                       ELSE CASE params.name = "investigate_log" -> "log"
                              [] params.name = "investigate_metric" -> "metric"
                              [] OTHER -> "admit"]

(* A request, by its method.                                               *)
Route(exchange) ==
    LET message == exchange.request
        reply(response) == Replying(exchange, response)
        fail(code) == reply(ErrorResponse(message.id, code))
    IN  IF ~message.jsonrpc \/ message.method = None THEN fail(INVALID_REQUEST)
        ELSE CASE message.method = "initialize" ->
                    reply(ResultResponse(message.id, [capabilities |-> "tools"]))
               [] message.method = "ping" ->
                    reply(ResultResponse(message.id, [empty |-> TRUE]))
               [] message.method = "tools/list" ->
                    reply(ResultResponse(message.id, [tools |-> Tools]))
               [] message.method = "tools/call" ->
                    IF message.params = None THEN fail(INVALID_PARAMS)
                    ELSE IF message.params.name \notin Tools THEN fail(INVALID_PARAMS)
                    ELSE Dispatch(exchange)
               [] OTHER -> fail(METHOD_NOT_FOUND)

(* Fault: notifications are answered too.                                  *)
HandleAnswersAll(exchange) == Route(exchange)

(* A message without an id is never answered, be it malformed.             *)
Handle(exchange) == IF exchange.request.id = None THEN Idle ELSE Route(exchange)

-----------------------------------------------------------------------------
(* The session.  Input that ends, be it within the headers of a message,   *)
(* ends it well; a violation of the framing ends it with an error.         *)
Serve ==
    /\ session = "open" /\ call = Idle
    /\ LET outcome == IF input = <<>> THEN "eof" ELSE ReadMessage(Head(input))
       IN  \/ /\ outcome = "eof" /\ session' = "ok"
              /\ UNCHANGED <<input, call, read>>
           \/ /\ outcome = "violation" /\ session' = "error"
              /\ UNCHANGED <<input, call, read>>
           \/ /\ outcome = "parse_error"
              /\ call' = Replying(Begun(None), ErrorResponse(Null, PARSE_ERROR))
              /\ input' = Tail(input) /\ read' = Append(read, Head(input))
              /\ UNCHANGED session
           \/ /\ outcome = "message"
              /\ call' = Handle(Begun(Head(input).message))
              /\ input' = Tail(input) /\ read' = Append(read, Head(input))
              /\ UNCHANGED session
    /\ UNCHANGED <<storeVars, given, sent, httpVars, judged>>

(* The response is written and flushed, or the stream fails under it.      *)
Reply ==
    /\ session = "open" /\ call.pc = "reply"
    /\ \/ sent' = Append(sent, call.response) /\ UNCHANGED session
       \/ session' = "error" /\ UNCHANGED sent
    /\ call' = Idle
    /\ UNCHANGED <<storeVars, given, input, read, httpVars, judged>>

(* The span a record names, if it names one whole.                         *)
SubjectSpan(context) ==
    IF context.trace_id = None \/ context.span_id = None THEN Err("no_context")
    ELSE Ok(SpanId(context.trace_id, context.span_id))

CallEnds(verdict) ==
    /\ call' = Replying(call, ToolResponse(call.request.id, verdict))
    /\ judged' = Settled("mcp", call, verdict)

(* Fault: the context of a log is used though the log is gone.             *)
InvestigateLogGone ==
    /\ session = "open" /\ call.pc = "log"
    /\ IF call.entity \notin Logs
       THEN CallEnds(Unresolved(McpEntityText(call.entity)))
       ELSE LET span == SubjectSpan(LogContext[call.entity])
            IN  IF span.refusal # None
                THEN CallEnds(Refuse("parse", span.refusal))
                ELSE /\ call' = [call EXCEPT !.pc = "admit", !.entity = span.entity]
                     /\ UNCHANGED judged
    /\ UNCHANGED <<storeVars, given, input, session, read, sent, httpVars>>

(* investigate_log, for an assigned serial: the span of the resident log,  *)
(* if it names one whole.                                                  *)
InvestigateLog ==
    /\ session = "open" /\ call.pc = "log"
    /\ IF ~LogRead(call.entity)
       THEN CallEnds(Unresolved(McpEntityText(call.entity)))
       ELSE LET span == SubjectSpan(LogContext[call.entity])
            IN  IF span.refusal # None
                THEN CallEnds(Refuse("parse", span.refusal))
                ELSE /\ call' = [call EXCEPT !.pc = "admit", !.entity = span.entity]
                     /\ UNCHANGED judged
    /\ UNCHANGED <<storeVars, given, input, session, read, sent, httpVars>>

(* investigate_metric, for an assigned serial: a point names no trace.     *)
InvestigateMetric ==
    /\ session = "open" /\ call.pc = "metric"
    /\ CallEnds(IF ~PointRead(call.entity)
                THEN Unresolved(McpEntityText(call.entity)) ELSE Refuse("parse", "no_linkage"))
    /\ UNCHANGED <<storeVars, given, input, session, read, sent, httpVars>>

RunFlowAdmits ==
    /\ session = "open" /\ call.pc = "admit"
    /\ call' = [call EXCEPT !.pc = "resolve", !.stats = Stats]
    /\ UNCHANGED <<storeVars, given, input, session, read, sent, httpVars, judged>>

(* run_flow: the answer, or the flow's refusal in the tool's words; a      *)
(* panic takes the session with it.                                        *)
RunFlow ==
    /\ session = "open" /\ call.pc = "resolve"
    /\ \/ /\ ~SpanRead(call.entity)
          /\ CallEnds(Unresolved(McpEntityText(call.entity))) /\ UNCHANGED session
       \/ /\ SpanRead(call.entity) /\ flows[call.entity].kind = "envelope"
          /\ CallEnds(Answer(McpInvestigation(Envelope(flows[call.entity], McpBudget, call.stats))))
          /\ UNCHANGED session
       \/ /\ SpanRead(call.entity)
          /\ flows[call.entity].kind \in {"cursor_rejected", "engine_contract"}
          /\ CallEnds(Refuse("internal", flows[call.entity].kind)) /\ UNCHANGED session
       \/ /\ SpanRead(call.entity) /\ flows[call.entity].kind = "panic"
          /\ call' = Idle /\ session' = "panicked" /\ UNCHANGED judged
    /\ UNCHANGED <<storeVars, given, input, read, sent, httpVars>>

-----------------------------------------------------------------------------
(* The HTTP exchange.                                                      *)
PostEnds(verdict) ==
    /\ post' = Idle /\ judged' = Settled("http", post, verdict)

(* The gates, before any byte of the body is read.                         *)
InvestigateTraceHttp ==
    /\ posts < MaxPosts /\ posts' = posts + 1 /\ post = Idle
    /\ \E body \in bodies :
         \/ /\ draining
            /\ judged' = Settled("http", Begun(body), Refuse("draining", "503"))
            /\ UNCHANGED post
         \/ /\ ~draining /\ body.declared > PayloadCeiling
            /\ judged' = Settled("http", Begun(body), Refuse("too_large", "413"))
            /\ UNCHANGED post
         \/ /\ ~draining /\ body.declared <= PayloadCeiling
            /\ post' = Begun(body) /\ UNCHANGED judged
    /\ UNCHANGED <<storeVars, given, mcpVars>>

ParseSubjectHttp(body) ==
    IF ~body.json THEN Err("not_object")
    ELSE IF ~body.arguments.object THEN Err("keyword")
    ELSE IF ~Has(body.arguments.fields, "root_span") THEN Err("keyword")
    ELSE ParseEntity(body.arguments.fields.root_span)

(* The body arrives, is late, or breaks off or runs over the ceiling.      *)
ReadBody ==
    /\ post.pc = "begun"
    /\ \/ PostEnds(Refuse("timeout", "408"))
       \/ PostEnds(Refuse("unreadable", "400"))
       \/ LET subject == ParseSubjectHttp(post.request)
          IN  IF subject.refusal # None
              THEN PostEnds(Refuse("parse", subject.refusal))
              ELSE /\ post' = [post EXCEPT !.pc = "admit", !.entity = subject.entity]
                   /\ UNCHANGED judged
    /\ UNCHANGED <<storeVars, given, mcpVars, posts>>

HttpFlowAdmits ==
    /\ post.pc = "admit"
    /\ post' = [post EXCEPT !.pc = "resolve", !.stats = Stats]
    /\ UNCHANGED <<storeVars, given, mcpVars, posts, judged>>

(* The flow on the blocking pool: 200, 404 or 500, a panic included.       *)
HttpFlow ==
    /\ post.pc = "resolve"
    /\ PostEnds(
         IF ~SpanRead(post.entity) THEN Unresolved(EntityText(post.entity))
         ELSE IF flows[post.entity].kind = "envelope"
         THEN Answer(RenderInvestigation(Envelope(flows[post.entity], HttpBudget, post.stats)))
         ELSE Refuse("internal", flows[post.entity].kind))
    /\ UNCHANGED <<storeVars, given, mcpVars, posts>>

-----------------------------------------------------------------------------
Next ==
    \/ StoreMoves \/ BeginDrain
    \/ Serve \/ Reply \/ InvestigateLog \/ InvestigateMetric \/ RunFlowAdmits \/ RunFlow
    \/ InvestigateTraceHttp \/ ReadBody \/ HttpFlowAdmits \/ HttpFlow

Spec == Init /\ [][Next]_vars

-----------------------------------------------------------------------------
(* Every message that carries an id, and every body that is no JSON, is    *)
(* answered exactly once, in the order of arrival, under its own id, and   *)
(* a notification never; a session that ends well owes nothing             *)
(* (protocol.rs: serve, handle).                                           *)
OwesAnswer(frame) == ~frame.json \/ frame.message.id # None
Owed == OnlyIn(read, {frame \in ToSet(read) : OwesAnswer(frame)})
AnswerId(frame) == IF frame.json THEN frame.message.id ELSE Null
RequestsAnsweredInOrder ==
    /\ \/ Len(sent) = Len(Owed) /\ call = Idle
       \/ Len(sent) = Len(Owed) - 1 /\ (call # Idle \/ session \in {"error", "panicked"})
    /\ \A i \in DOMAIN sent : sent[i].id = AnswerId(Owed[i])

(* Whatever the store did meanwhile, an answer is about a span that was    *)
(* resident during the exchange and that the request named, or that the    *)
(* log it named, resident too, carries; the answer names that span and     *)
(* counts the evictions of a time within the exchange.  A refusal for want *)
(* of a record names one that was missing (tools.rs: "nothing is           *)
(* fabricated"; investigation_http.rs: investigate_trace_http).            *)
Named(surface, request) ==
    IF surface = "http" THEN ParseSubjectHttp(request).entity
    ELSE ParseSubject(request.params.arguments, Keyword(request.params.name)).entity
SoughtIn(pc) ==
    CASE pc = "log"    -> Logs
      [] pc = "metric" -> Entities \ (Spans \cup Logs)
      [] OTHER         -> Spans
Finished == {surface \in {"mcp", "http"} : judged[surface] # None}
NothingFabricated ==
    \A surface \in Finished :
        LET j == judged[surface]
            x == j.exchange
            named == Named(surface, x.request)
        IN  /\ j.verdict.kind = "answer" =>
                 /\ x.entity \in Spans \cap x.present
                 /\ named # x.entity =>
                      /\ named \in Logs \cap x.present
                      /\ x.entity = SpanId(LogContext[named].trace_id, LogContext[named].span_id)
                 /\ ParseEntity(j.verdict.answer.subject.requested.root_span) = Ok(x.entity)
                 /\ j.verdict.answer.limits.eviction.total_evictions \in x.floor .. j.ceiling
            /\ j.verdict.kind = "unresolved" =>
                 /\ x.entity \in SoughtIn(x.pc) => x.entity \in x.absent
                 /\ j.verdict.subject = EntityText(x.entity)

(* The two surfaces read every object that is posted alike, to the same    *)
(* subject or the same refusal; JSON that is no object both refuse, each   *)
(* in words of its own.  Over a store that stands still they end an        *)
(* investigation of the same span in the same words: the same answer,      *)
(* field for field, or the same refusal (tools.rs: parse_subject, "mirrors *)
(* the HTTP surface's"; mcp/src/lib.rs: "field-for-field").                *)
Steady(j) == j.exchange.version = j.version /\ j.exchange.pc = "resolve"
SurfacesAgree ==
    /\ "http" \in Finished =>
         LET body == judged["http"].exchange.request
             mcp  == ParseSubject(body.arguments, "root_span")
             http == ParseSubjectHttp(body)
         IN  body.json =>
               IF body.arguments.object THEN mcp = http
               ELSE None \notin {mcp.refusal, http.refusal} /\ mcp.refusal # http.refusal
    /\ Finished = {"mcp", "http"} =>
         LET a == judged["mcp"]
             b == judged["http"]
         IN  /\ Steady(a) /\ Steady(b) /\ a.version = b.version
             /\ a.exchange.entity = b.exchange.entity
             => a.verdict = b.verdict

(* What JSON does not tell of a value: bytes from a text of their hex, one *)
(* double that is not finite from another, or from no body at all, and the *)
(* order in which a list's keys were sent.                                 *)
NotFinite(v) == v # None /\ v.kind = "Double" /\ ~v.finite
Spelled(v) == IF v.kind = "Bytes" THEN Hex(v.bytes) ELSE v.text
ScalarsAlike(v, w) ==
    \/ v = w
    \/ NotFinite(v) /\ NotFinite(w)
    \/ {v.kind, w.kind} \subseteq {"Bytes", "String"} /\ Spelled(v) = Spelled(w)
KeysOf(list) == {entry.key : entry \in ToSet(list.entries)}
ValuesAlike(v, w) ==
    IF v.kind # w.kind \/ v.kind \notin {"Array", "KvList"} THEN ScalarsAlike(v, w)
    ELSE IF v.kind = "Array"
    THEN /\ DOMAIN v.items = DOMAIN w.items
         /\ \A i \in DOMAIN v.items : ScalarsAlike(v.items[i], w.items[i])
    ELSE /\ KeysOf(v) = KeysOf(w)
         /\ \A x \in ToSet(v.entries), y \in ToSet(w.entries) :
              x.key = y.key => ScalarsAlike(x.value, y.value)
BodiesAlike(v, w) ==
    IF None \in {v, w} \/ NotFinite(v) \/ NotFinite(w)
    THEN \A body \in {v, w} : body = None \/ NotFinite(body)
    ELSE ValuesAlike(v, w)

(* Two outcomes of the flow that differ in such values alone.              *)
Valueless(flow) ==
    [flow EXCEPT
       !.correlated = [i \in DOMAIN @ |->
           [@[i] EXCEPT !.facts = [j \in DOMAIN @ |-> @[j].field]]],
       !.evidence.logs = [i \in DOMAIN @ |-> [@[i] EXCEPT !.log.body = None]],
       !.evidence.points = [i \in DOMAIN @ |->
           IF @[i].point.shape = "number" THEN [@[i] EXCEPT !.point.value = None] ELSE @[i]]]
FlowsAlike(f, g) ==
    /\ Valueless(f) = Valueless(g)
    /\ \A i \in DOMAIN f.correlated : \A j \in DOMAIN f.correlated[i].facts :
         ValuesAlike(f.correlated[i].facts[j].value, g.correlated[i].facts[j].value)
    /\ \A i \in DOMAIN f.evidence.logs :
         BodiesAlike(f.evidence.logs[i].log.body, g.evidence.logs[i].log.body)
    /\ \A i \in DOMAIN f.evidence.points :
         f.evidence.points[i].point.shape = "number" =>
           ScalarsAlike(f.evidence.points[i].point.value, g.evidence.points[i].point.value)

(* An answer can be read back as far as JSON goes.  Another outcome of the *)
(* flow for its subject has the same rendering only if it differs in the   *)
(* values that JSON does not tell apart, and then it has: what an answer   *)
(* says of completeness, of holes and of records is what the flow found.   *)
(* The entities it shows parse to those found, and its cursors to those of *)
(* the engine, which the continuation tool takes (investigation_http.rs:   *)
(* render_investigation, render_model_value; tools.rs: parse_cursor, "this *)
(* surface accepts what it reports").                                      *)
Shown(surface, flow, stats) ==
    IF surface = "mcp" THEN McpInvestigation(Envelope(flow, McpBudget, stats))
    ELSE RenderInvestigation(Envelope(flow, HttpBudget, stats))
ShownCursors(answer) ==
    {run.next_cursor : run \in UNION {ToSet(group.runs) :
                                        group \in ToSet(answer.execution.run_groups)}} \ {Null}
FoundCursors(flow) ==
    {run.next_cursor : run \in UNION {ToSet(group.runs) :
                                        group \in ToSet(flow.execution.run_groups)}} \ {None}
AnswersReadBack ==
    \A surface \in Finished :
        judged[surface].verdict.kind = "answer" =>
            LET x      == judged[surface].exchange
                answer == judged[surface].verdict.answer
                flow   == flows[x.entity]
            IN  /\ \A other \in {g[x.entity] : g \in Flows} :
                     other.kind = "envelope" =>
                         (FlowsAlike(flow, other) <=> Shown(surface, other, x.stats) = answer)
                /\ \A part \in {"spans", "logs", "points"} :
                     \A i \in DOMAIN flow.evidence[part] :
                         LET found == flow.evidence[part][i].entity
                             shown == answer.evidence[part][i].entity
                         IN  IF found = None THEN shown = Null ELSE ParseEntity(shown) = Ok(found)
                /\ {UnHex(cursor.hex) : cursor \in ShownCursors(answer)} = FoundCursors(flow)
                /\ \A cursor \in ShownCursors(answer) :
                     ParseCursor([object |-> TRUE, fields |-> [cursor |-> cursor.hex]])

(* What tools/list advertises as a tool's input, the tool takes: arguments *)
(* of that schema, with ids in full, are never refused for not naming a    *)
(* subject (tools.rs: input_schema, TOOLS, parse_subject).                 *)
AdvertisedAccepted ==
    call.pc = "reply" =>
        \/ call.request = None
        \/ call.request.method # "tools/call"
        \/ ~Has(call.response, "result")
        \/ call.request.params.arguments = None
        \/ InputSchema(call.request.params.name, call.request.params.arguments)
             => call.response.result.content # Refuse("parse", "keyword")
=============================================================================
