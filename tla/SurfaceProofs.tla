---------------------------- MODULE SurfaceProofs ----------------------------
(***************************************************************************)
(* Proofs about the two surfaces, for every value of the constants: a      *)
(* session answers what it owes and in order, an answer is about a record  *)
(* that was there, and the two surfaces agree where their ceilings do.     *)
(* They rest on what holds of an exchange under way (Holding) and of one   *)
(* that has ended (Judged).                                                *)
(***************************************************************************)
EXTENDS Surface, Collections

(* An exchange is one by its fields.                                         *)
IsExchange(x) ==
    /\ x = [pc |-> x.pc, request |-> x.request, entity |-> x.entity, stats |-> x.stats,
            response |-> x.response, version |-> x.version, present |-> x.present,
            absent |-> x.absent, floor |-> x.floor]
    /\ x.pc # "idle"

(* y is x, taken further: what it watches is as it was.                      *)
Onward(x, y) ==
    /\ IsExchange(y) /\ y.request = x.request
    /\ y.version = x.version /\ y.present = x.present /\ y.absent = x.absent
    /\ y.floor = x.floor

LEMMA Replies ==
    ASSUME NEW x, IsExchange(x), NEW r,
           NEW y, y = Replying(x, r)
    PROVE  Onward(x, y) /\ y.pc = "reply" /\ y.response = r
  <1>1. x = [pc |-> x.pc, request |-> x.request, entity |-> x.entity, stats |-> x.stats,
             response |-> x.response, version |-> x.version, present |-> x.present,
             absent |-> x.absent, floor |-> x.floor]
    BY DEF IsExchange
  <1>2. y = [pc |-> "reply", request |-> x.request, entity |-> x.entity, stats |-> x.stats,
             response |-> r, version |-> x.version, present |-> x.present,
             absent |-> x.absent, floor |-> x.floor]
    BY <1>1 DEF Replying
  <1> QED
    BY <1>2 DEF Onward, IsExchange

Naming(x, e, p) == [x EXCEPT !.entity = e, !.pc = p]
Admitting(x, s) == [x EXCEPT !.pc = "resolve", !.stats = s]

LEMMA Names ==
    ASSUME NEW x, IsExchange(x), NEW e, NEW p, p # "idle",
           NEW y, y = Naming(x, e, p)
    PROVE  Onward(x, y) /\ y.pc = p /\ y.entity = e
  <1>1. x = [pc |-> x.pc, request |-> x.request, entity |-> x.entity, stats |-> x.stats,
             response |-> x.response, version |-> x.version, present |-> x.present,
             absent |-> x.absent, floor |-> x.floor]
    BY DEF IsExchange
  <1>2. y = [pc |-> p, request |-> x.request, entity |-> e, stats |-> x.stats,
             response |-> x.response, version |-> x.version, present |-> x.present,
             absent |-> x.absent, floor |-> x.floor]
    BY <1>1 DEF Naming
  <1> QED
    BY <1>2 DEF Onward, IsExchange

LEMMA Admits ==
    ASSUME NEW x, IsExchange(x), NEW s,
           NEW y, y = Admitting(x, s)
    PROVE  Onward(x, y) /\ y.pc = "resolve" /\ y.entity = x.entity /\ y.stats = s
  <1>1. x = [pc |-> x.pc, request |-> x.request, entity |-> x.entity, stats |-> x.stats,
             response |-> x.response, version |-> x.version, present |-> x.present,
             absent |-> x.absent, floor |-> x.floor]
    BY DEF IsExchange
  <1>2. y = [pc |-> "resolve", request |-> x.request, entity |-> x.entity, stats |-> s,
             response |-> x.response, version |-> x.version, present |-> x.present,
             absent |-> x.absent, floor |-> x.floor]
    BY <1>1 DEF Admitting
  <1> QED
    BY <1>2 DEF Onward, IsExchange

(* What an exchange under way watches grows with the store.                  *)
LEMMA Watches ==
    ASSUME NEW x, IsExchange(x), NEW y, y = Watching(x)
    PROVE  /\ IsExchange(y) /\ y.pc = x.pc /\ y.request = x.request /\ y.entity = x.entity
           /\ y.stats = x.stats /\ y.response = x.response /\ y.version = x.version
           /\ y.floor = x.floor
           /\ y.present = x.present \cup resident'
           /\ y.absent = x.absent \cup (Entities \ resident')
  <1>1. x = [pc |-> x.pc, request |-> x.request, entity |-> x.entity, stats |-> x.stats,
             response |-> x.response, version |-> x.version, present |-> x.present,
             absent |-> x.absent, floor |-> x.floor]
        /\ x.pc # "idle"
    BY DEF IsExchange
  <1>2. y = [pc |-> x.pc, request |-> x.request, entity |-> x.entity, stats |-> x.stats,
             response |-> x.response, version |-> x.version,
             present |-> x.present \cup resident',
             absent |-> x.absent \cup (Entities \ resident'), floor |-> x.floor]
    BY <1>1 DEF Watching
  <1> QED
    BY <1>1, <1>2 DEF IsExchange

LEMMA NoneWatches == Watching(Idle) = Idle
  BY DEF Watching, Idle

LEMMA NotIdle == \A x : IsExchange(x) => x # Idle /\ Onward(x, x)
  BY DEF IsExchange, Idle, Onward

LEMMA BegunIs ==
    \A r : LET x == Begun(r)
           IN  /\ IsExchange(x) /\ x.pc = "begun" /\ x.request = r
               /\ x.version = moves /\ x.floor = evictions
               /\ x.present = resident /\ x.absent = Entities \ resident
  BY DEF Begun, IsExchange

(* An exchange after the dispatch of its request: replied to under the id of *)
(* the request, or about the entity it names.                                *)
Handled(x, y) ==
    /\ Onward(x, y)
    /\ \/ y.pc = "reply" /\ y.response.id = x.request.id
       \/ y.pc \in {"log", "metric", "admit"} /\ y.entity = Named("mcp", x.request)

LEMMA ResponseIds ==
    \A id, v : /\ ToolResponse(id, v).id = id /\ ResultResponse(id, v).id = id
               /\ ErrorResponse(id, v).id = id
  BY DEF ToolResponse, ResultResponse, ErrorResponse

LEMMA DispatchHandles ==
    ASSUME NEW x, IsExchange(x)
    PROVE  Handled(x, Dispatch(x))
  <1> DEFINE params == x.request.params
             subject == ParseSubject(params.arguments, Keyword(params.name))
             p == IF subject.entity.serial = None THEN "admit"
                  ELSE CASE params.name = "investigate_log" -> "log"
                         [] params.name = "investigate_metric" -> "metric"
                         [] OTHER -> "admit"
  <1>1. ASSUME NEW r
        PROVE  Handled(x, Refused(x, r))
    <2>1. PICK v : v = ToolResponse(x.request.id, Refuse("parse", r))
      OBVIOUS
    <2>2. Refused(x, r) = Replying(x, v) /\ v.id = x.request.id
      BY <2>1, ResponseIds DEF Refused
    <2>3. PICK y : y = Replying(x, v)
      OBVIOUS
    <2>4. Onward(x, y) /\ y.pc = "reply" /\ y.response = v
      BY <2>3, Replies
    <2> QED
      BY <2>2, <2>3, <2>4 DEF Handled
  <1>2. subject.entity = Named("mcp", x.request)
    BY DEF Named
  <1>3. p \in {"log", "metric", "admit"}
    OBVIOUS
  <1> HIDE DEF p, subject, params
  <1>4. Handled(x, Naming(x, subject.entity, p))
    <2>1. PICK e : e = subject.entity
      OBVIOUS
    <2>2. PICK q : q = p
      OBVIOUS
    <2>3. PICK y : y = Naming(x, e, q)
      OBVIOUS
    <2>4. q # "idle"
      BY <1>3, <2>2
    <2>5. Onward(x, y) /\ y.pc = q /\ y.entity = e
      BY <2>3, <2>4, Names
    <2>6. Handled(x, y)
      BY <1>2, <1>3, <2>1, <2>2, <2>5 DEF Handled
    <2> QED
      BY <2>1, <2>2, <2>3, <2>6
  <1>5. Handled(x, [x EXCEPT !.entity = subject.entity, !.pc = p])
    BY <1>4 DEF Naming
  <1> QED
    BY <1>1, <1>5 DEF Dispatch, p, subject, params

LEMMA HandleHandles ==
    ASSUME NEW x, IsExchange(x)
    PROVE  /\ x.request.id = None => Handle(x) = Idle
           /\ x.request.id # None => Handled(x, Handle(x))
  <1>1. ASSUME NEW r, r.id = x.request.id
        PROVE  Handled(x, Replying(x, r))
    <2>1. PICK y : y = Replying(x, r)
      OBVIOUS
    <2>2. Onward(x, y) /\ y.pc = "reply" /\ y.response = r
      BY <2>1, Replies
    <2> QED
      BY <1>1, <2>1, <2>2 DEF Handled
  <1>2. /\ \A r : Handled(x, Replying(x, ResultResponse(x.request.id, r)))
        /\ \A c : Handled(x, Replying(x, ErrorResponse(x.request.id, c)))
    BY <1>1, ResponseIds
  <1>3. Handled(x, Route(x))
    BY <1>2, DispatchHandles DEF Route
  <1> QED
    BY <1>3 DEF Handle

-----------------------------------------------------------------------------
(* The session owes an answer to some of the frames it read.                 *)

AllFrames == UNION {ToSet(s.frames) : s \in Settings}
OwedOf(r) == OnlyIn(r, {frame \in AllFrames : OwesAnswer(frame)})

LEMMA OwedIs ==
    ASSUME NEW r \in Seq(AllFrames)
    PROVE  /\ OnlyIn(r, {frame \in ToSet(r) : OwesAnswer(frame)}) = OwedOf(r)
           /\ OwedOf(r) \in Seq(AllFrames)
  <1>1. ToSet(r) \subseteq AllFrames
    BY DEF ToSet
  <1>2. \A x \in ToSet(r) : x \in {frame \in ToSet(r) : OwesAnswer(frame)}
                               <=> x \in {frame \in AllFrames : OwesAnswer(frame)}
    BY <1>1
  <1> QED
    BY <1>2, OnlyInSame, OnlyInLaws DEF OwedOf

LEMMA OwedGrows ==
    ASSUME NEW r \in Seq(AllFrames), NEW f \in AllFrames
    PROVE  OwedOf(Append(r, f)) = IF OwesAnswer(f) THEN Append(OwedOf(r), f) ELSE OwedOf(r)
  BY OnlyInAppend DEF OwedOf

(* The id under which the message being answered is to be answered.          *)
PendingId(x) == IF x.pc = "reply" THEN x.response.id ELSE x.request.id

(* o is what is owed, s what was sent, x the message under way.              *)
InOrder(o, s, x, mode) ==
    /\ \E R : s \in Seq(R)
    /\ x = Idle \/ IsExchange(x)
    /\ mode = "open" => /\ x = Idle => Len(s) = Len(o)
                        /\ x # Idle => Len(s) + 1 = Len(o) /\ PendingId(x) = AnswerId(o[Len(o)])
    /\ mode # "open" => /\ x = Idle
                        /\ \/ Len(s) = Len(o)
                           \/ Len(s) + 1 = Len(o) /\ mode \in {"error", "panicked"}
    /\ \A i \in 1..Len(s) : s[i].id = AnswerId(o[i])

SessionInv ==
    /\ input \in Seq(AllFrames) /\ read \in Seq(AllFrames)
    /\ InOrder(OwedOf(read), sent, call, session)

LEMMA SessionInit == Init => SessionInv
  <1> SUFFICES ASSUME Init
               PROVE  SessionInv
    OBVIOUS
  <1>1. PICK s \in Settings : input = s.frames
    BY DEF Init
  <1>2. input \in Seq(AllFrames)
    <2>1. s.frames \in Seq(ToSet(s.frames)) /\ ToSet(s.frames) \subseteq AllFrames
      BY SurfaceAssumption DEF AllFrames
    <2> QED
      BY <1>1, <2>1, SeqMonotone
  <1>3. read = <<>> /\ sent = <<>> /\ call = Idle /\ session = "open"
    BY DEF Init
  <1>4. read \in Seq(AllFrames) /\ sent \in Seq({})
    BY <1>3
  <1>5. Len(OwedOf(read)) = 0
    <2>1. <<>> \in Seq(AllFrames) /\ ToSet(<<>>) = {}
      BY DEF ToSet
    <2>2. OwedOf(<<>>) \in Seq(AllFrames)
      BY <2>1, OwedIs
    <2>a. \A S : ToSet(OnlyIn(<<>>, S)) = ToSet(<<>>) \cap S
      BY <2>1, OnlyInLaws
    <2>b. ToSet(OwedOf(<<>>)) = {}
      BY <2>1, <2>a DEF OwedOf
    <2>3. \A i \in 1..Len(OwedOf(<<>>)) : FALSE
      BY <2>2, <2>b, AtPlaces
    <2>4. Len(OwedOf(<<>>)) \in Nat
      BY <2>2
    <2>5. Len(OwedOf(<<>>)) = 0 \/ 1 \in 1..Len(OwedOf(<<>>))
      BY <2>4
    <2> QED
      BY <1>3, <2>3, <2>5
  <1> QED
    BY <1>2, <1>3, <1>4, <1>5 DEF SessionInv, InOrder

LEMMA StaysInOrder ==
    ASSUME NEW o, NEW s, NEW x, NEW y, NEW mode, InOrder(o, s, x, mode),
           \/ y = x
           \/ x # Idle /\ IsExchange(y) /\ PendingId(y) = PendingId(x)
    PROVE  InOrder(o, s, y, mode)
  BY NotIdle DEF InOrder

LEMMA Sends ==
    ASSUME NEW o, NEW s, NEW x, NEW r, InOrder(o, s, x, "open"), x # Idle, x.pc = "reply",
           r = x.response
    PROVE  InOrder(o, Append(s, r), Idle, "open")
  <1>1. PICK R : s \in Seq(R)
    BY DEF InOrder
  <1>2. Append(s, r) \in Seq(R \cup {r})
    <2>1. R \subseteq R \cup {r}
      OBVIOUS
    <2>2. s \in Seq(R \cup {r})
      BY <1>1, <2>1, SeqMonotone
    <2> QED
      BY <2>2
  <1>3. /\ Len(s) \in Nat /\ Len(Append(s, r)) = Len(s) + 1
        /\ \A i \in 1..Len(s) : Append(s, r)[i] = s[i]
        /\ Append(s, r)[Len(s) + 1] = r
    BY <1>1
  <1>4. Len(s) + 1 = Len(o) /\ r.id = AnswerId(o[Len(o)])
    BY DEF InOrder, PendingId
  <1>5. \A i \in 1..Len(s) : s[i].id = AnswerId(o[i])
    BY DEF InOrder
  <1>6. \A i \in 1..(Len(s) + 1) : i \in 1..Len(s) \/ i = Len(s) + 1
    BY <1>3
  <1>7. \A i \in 1..Len(Append(s, r)) : Append(s, r)[i].id = AnswerId(o[i])
    BY <1>3, <1>4, <1>5, <1>6
  <1> QED
    BY <1>2, <1>3, <1>4, <1>7 DEF InOrder

LEMMA Stops ==
    ASSUME NEW o, NEW s, NEW x, NEW mode, InOrder(o, s, x, "open"), mode # "open",
           x # Idle => mode \in {"error", "panicked"}
    PROVE  InOrder(o, s, Idle, mode)
  BY DEF InOrder

(* A frame is read: nothing is owed for it and no exchange begins, or one    *)
(* does under the id it asks for.                                            *)
LEMMA Begins ==
    ASSUME NEW r \in Seq(AllFrames), NEW s, NEW f \in AllFrames, NEW y,
           InOrder(OwedOf(r), s, Idle, "open"),
           OwesAnswer(f) => IsExchange(y) /\ PendingId(y) = AnswerId(f),
           ~OwesAnswer(f) => y = Idle
    PROVE  InOrder(OwedOf(Append(r, f)), s, y, "open")
  <1>1. Len(s) = Len(OwedOf(r)) /\ Len(s) \in Nat
    BY OwedIs DEF InOrder
  <1>2. CASE ~OwesAnswer(f)
    BY <1>2, OwedGrows
  <1>3. CASE OwesAnswer(f)
    <2> DEFINE o == OwedOf(r)
               p == OwedOf(Append(r, f))
    <2>1. p = Append(o, f)
      BY <1>3, OwedGrows
    <2>2. o \in Seq(AllFrames)
      BY OwedIs
    <2> HIDE DEF o, p
    <2>3. /\ Len(p) = Len(o) + 1 /\ p[Len(p)] = f
          /\ \A i \in 1..Len(o) : p[i] = o[i]
      BY <2>1, <2>2
    <2>4. y # Idle /\ IsExchange(y) /\ PendingId(y) = AnswerId(f)
      BY <1>3, NotIdle
    <2>5. /\ \E R : s \in Seq(R)
          /\ \A i \in 1..Len(s) : s[i].id = AnswerId(o[i])
      BY DEF InOrder, o
    <2>6. Len(s) = Len(o)
      BY <1>1 DEF o
    <2>7. \A i \in 1..Len(s) : s[i].id = AnswerId(p[i])
      BY <2>3, <2>5, <2>6
    <2>8. InOrder(p, s, y, "open")
      BY <2>3, <2>4, <2>5, <2>6, <2>7 DEF InOrder
    <2> QED
      BY <2>8 DEF p
  <1> QED
    BY <1>2, <1>3

-----------------------------------------------------------------------------
(* The steps of a session.                                                   *)

LEMMA CallEnded ==
    ASSUME NEW v, IsExchange(call), CallEnds(v)
    PROVE  /\ Onward(call, call') /\ call'.pc = "reply" /\ call'.response.id = call.request.id
           /\ judged' = Settled("mcp", call, v)
  <1>1. PICK r : r = ToolResponse(call.request.id, v)
    OBVIOUS
  <1>2. call' = Replying(call, r) /\ r.id = call.request.id
    BY <1>1, ResponseIds DEF CallEnds
  <1> QED
    BY <1>2, Replies DEF CallEnds

(* The steps in which a tool call goes on, and what becomes of it.           *)
ToolStep == InvestigateLog \/ InvestigateMetric \/ RunFlowAdmits \/ RunFlow
LEMMA ToolSteps ==
    ASSUME call = Idle \/ IsExchange(call), ToolStep
    PROVE  /\ session = "open" /\ call # Idle /\ call.pc # "reply"
           /\ UNCHANGED <<storeVars, given, input, read, sent, httpVars>>
           /\ \/ session' = "panicked" /\ call' = Idle
              \/ session' = session /\ Onward(call, call') /\ PendingId(call') = PendingId(call)
  <1>1. call # Idle /\ IsExchange(call) /\ call.pc # "reply"
    BY DEF ToolStep, InvestigateLog, InvestigateMetric, RunFlowAdmits, RunFlow, Idle
  <1>2. \A v : CallEnds(v) => Onward(call, call') /\ PendingId(call') = PendingId(call)
    BY <1>1, CallEnded DEF PendingId, Onward
  <1>3. ASSUME NEW e, call' = Naming(call, e, "admit")
        PROVE  Onward(call, call') /\ PendingId(call') = PendingId(call)
    <2>1. Onward(call, call') /\ call'.pc = "admit"
      BY <1>1, <1>3, Names
    <2> QED
      BY <1>1, <2>1 DEF PendingId, Onward
  <1>4. ASSUME NEW s, call' = Admitting(call, s)
        PROVE  Onward(call, call') /\ PendingId(call') = PendingId(call)
    <2>1. Onward(call, call') /\ call'.pc = "resolve"
      BY <1>1, <1>4, Admits
    <2> QED
      BY <1>1, <2>1 DEF PendingId, Onward
  <1>5. CASE InvestigateLog
    <2>1. \/ \E v : CallEnds(v)
          \/ \E e : call' = Naming(call, e, "admit")
      BY <1>5 DEF InvestigateLog, Naming
    <2> QED
      BY <1>1, <1>2, <1>3, <1>5, <2>1 DEF InvestigateLog, httpVars
  <1>6. CASE InvestigateMetric
    BY <1>1, <1>2, <1>6 DEF InvestigateMetric
  <1>7. CASE RunFlowAdmits
    <2>1. call' = Admitting(call, Stats)
      BY <1>7 DEF RunFlowAdmits, Admitting
    <2> QED
      BY <1>1, <1>4, <1>7, <2>1 DEF RunFlowAdmits
  <1>8. CASE RunFlow
    <2>1. \/ \E v : CallEnds(v) /\ UNCHANGED session
          \/ session' = "panicked" /\ call' = Idle
      BY <1>8 DEF RunFlow
    <2> QED
      BY <1>1, <1>2, <1>8, <2>1 DEF RunFlow
  <1> QED
    BY <1>5, <1>6, <1>7, <1>8 DEF ToolStep

LEMMA HandledPending ==
    ASSUME NEW x, NEW y, Handled(x, y)
    PROVE  IsExchange(y) /\ PendingId(y) = x.request.id
  BY DEF Handled, Onward, PendingId

LEMMA ServeInOrder ==
    ASSUME SessionInv, Serve
    PROVE  SessionInv'
  <1> DEFINE f == Head(input)
             outcome == IF input = <<>> THEN "eof" ELSE ReadMessage(f)
  <1>1. /\ session = "open" /\ call = Idle /\ sent' = sent
        /\ input \in Seq(AllFrames) /\ read \in Seq(AllFrames)
        /\ InOrder(OwedOf(read), sent, Idle, "open")
    BY DEF Serve, SessionInv
  <1>2. CASE outcome \in {"eof", "violation"}
    <2>1. /\ session' \in {"ok", "error"} /\ UNCHANGED <<input, call, read>>
      BY <1>2 DEF Serve
    <2>2. InOrder(OwedOf(read), sent, Idle, session')
      BY <1>1, <2>1, Stops
    <2> QED
      BY <1>1, <2>1, <2>2 DEF SessionInv
  <1>3. CASE outcome \in {"parse_error", "message"}
    <2>1. input # <<>> /\ outcome = ReadMessage(f)
      BY <1>3
    <2>2. f \in AllFrames /\ Tail(input) \in Seq(AllFrames)
      BY <1>1, <2>1
    <2>3. /\ input' = Tail(input) /\ read' = Append(read, f) /\ session' = "open"
          /\ Append(read, f) \in Seq(AllFrames)
      BY <1>1, <1>3, <2>2 DEF Serve
    <2>4. OwesAnswer(f) => IsExchange(call') /\ PendingId(call') = AnswerId(f)
      <3>1. CASE outcome = "parse_error"
        <4>1. ~f.json
          BY <2>1, <3>1 DEF ReadMessage
        <4>2. PICK r : r = ErrorResponse(Null, PARSE_ERROR)
          OBVIOUS
        <4>3. PICK x : x = Begun(None)
          OBVIOUS
        <4>4. call' = Replying(x, r) /\ r.id = Null /\ IsExchange(x)
          BY <3>1, <4>2, <4>3, ResponseIds, BegunIs DEF Serve
        <4>5. Onward(x, call') /\ call'.pc = "reply" /\ call'.response = r
          BY <4>4, Replies
        <4> QED
          BY <4>1, <4>4, <4>5 DEF Onward, PendingId, AnswerId
      <3>2. CASE outcome = "message"
        <4>1. f.json
          BY <2>1, <3>2 DEF ReadMessage
        <4>2. PICK x : x = Begun(f.message)
          OBVIOUS
        <4>3. call' = Handle(x) /\ IsExchange(x) /\ x.request = f.message
          BY <3>2, <4>2, BegunIs DEF Serve
        <4>4. x.request.id # None => Handled(x, call')
          BY <4>3, HandleHandles
        <4> QED
          BY <4>1, <4>3, <4>4, HandledPending DEF OwesAnswer, AnswerId
      <3> QED
        BY <1>3, <3>1, <3>2
    <2>5. ~OwesAnswer(f) => call' = Idle
      <3>1. CASE outcome = "parse_error"
        BY <2>1, <3>1 DEF ReadMessage, OwesAnswer
      <3>2. CASE outcome = "message"
        <4>1. PICK x : x = Begun(f.message)
          OBVIOUS
        <4>2. call' = Handle(x) /\ IsExchange(x) /\ x.request = f.message
          BY <3>2, <4>1, BegunIs DEF Serve
        <4> QED
          BY <4>2, HandleHandles DEF OwesAnswer
      <3> QED
        BY <1>3, <3>1, <3>2
    <2> HIDE DEF f, outcome
    <2>6. InOrder(OwedOf(Append(read, f)), sent, call', "open")
      BY <1>1, <2>2, <2>4, <2>5, Begins
    <2> QED
      BY <1>1, <2>2, <2>3, <2>6 DEF SessionInv
  <1> QED
    BY <1>2, <1>3 DEF Serve

LEMMA SessionStep ==
    ASSUME SessionInv, [Next]_vars
    PROVE  SessionInv'
  <1>1. /\ input \in Seq(AllFrames) /\ read \in Seq(AllFrames)
        /\ InOrder(OwedOf(read), sent, call, session)
        /\ call = Idle \/ IsExchange(call)
    BY DEF SessionInv, InOrder
  <1>2. CASE UNCHANGED mcpVars
    BY <1>1, <1>2 DEF mcpVars, SessionInv
  <1>3. CASE StoreMoves
    <2>1. /\ call' = Watching(call) /\ UNCHANGED <<input, session, read, sent>>
      BY <1>3 DEF StoreMoves
    <2>2. CASE call = Idle
      BY <1>1, <2>1, <2>2, NoneWatches DEF SessionInv
    <2>3. CASE call # Idle
      <3>1. IsExchange(call') /\ PendingId(call') = PendingId(call)
        BY <1>1, <2>1, <2>3, Watches DEF PendingId
      <3>2. InOrder(OwedOf(read), sent, call', session)
        BY <1>1, <2>3, <3>1, StaysInOrder
      <3> QED
        BY <1>1, <2>1, <3>2 DEF SessionInv
    <2> QED
      BY <2>2, <2>3
  <1>4. CASE Serve
    BY <1>4, ServeInOrder
  <1>5. CASE Reply
    <2>1. /\ session = "open" /\ call # Idle /\ call.pc = "reply" /\ call' = Idle
          /\ UNCHANGED <<input, read>>
      BY <1>5 DEF Reply, Idle
    <2>2. CASE sent' = Append(sent, call.response) /\ UNCHANGED session
      <3>1. InOrder(OwedOf(read), Append(sent, call.response), Idle, "open")
        BY <1>1, <2>1, Sends
      <3> QED
        BY <1>1, <2>1, <2>2, <3>1 DEF SessionInv
    <2>3. CASE session' = "error" /\ UNCHANGED sent
      <3>1. InOrder(OwedOf(read), sent, Idle, "error")
        BY <1>1, <2>1, Stops
      <3> QED
        BY <1>1, <2>1, <2>3, <3>1 DEF SessionInv
    <2> QED
      BY <1>5, <2>2, <2>3 DEF Reply
  <1>6. CASE ToolStep
    <2>1. /\ session = "open" /\ call # Idle
          /\ UNCHANGED <<input, read, sent>>
          /\ \/ session' = "panicked" /\ call' = Idle
             \/ session' = session /\ Onward(call, call') /\ PendingId(call') = PendingId(call)
      BY <1>1, <1>6, ToolSteps
    <2>2. CASE session' = "panicked" /\ call' = Idle
      <3>1. InOrder(OwedOf(read), sent, Idle, "panicked")
        BY <1>1, <2>1, Stops
      <3> QED
        BY <1>1, <2>1, <2>2, <3>1 DEF SessionInv
    <2>3. CASE session' = session /\ Onward(call, call') /\ PendingId(call') = PendingId(call)
      <3>1. InOrder(OwedOf(read), sent, call', session)
        BY <1>1, <2>1, <2>3, StaysInOrder DEF Onward
      <3> QED
        BY <1>1, <2>1, <2>3, <3>1 DEF SessionInv
    <2> QED
      BY <2>1, <2>2, <2>3
  <1> QED
    BY <1>2, <1>3, <1>4, <1>5, <1>6
       DEF Next, vars, ToolStep, BeginDrain, InvestigateTraceHttp, ReadBody, HttpFlowAdmits,
           HttpFlow

LEMMA OrderFromSession == SessionInv => RequestsAnsweredInOrder
  <1> SUFFICES ASSUME SessionInv
               PROVE  RequestsAnsweredInOrder
    OBVIOUS
  <1>1. read \in Seq(AllFrames) /\ InOrder(OwedOf(read), sent, call, session)
    BY DEF SessionInv
  <1>2. Owed = OwedOf(read) /\ Len(Owed) \in Nat
    BY <1>1, OwedIs DEF Owed
  <1>3. DOMAIN sent = 1..Len(sent) /\ Len(sent) \in Nat
    BY <1>1 DEF InOrder
  <1> QED
    BY <1>1, <1>2, <1>3 DEF RequestsAnsweredInOrder, InOrder

(* Over every stream of frames, the session answers what carries an id or is *)
(* no JSON, once each, in the order of arrival and under its own id, and     *)
(* nothing else; when it ends well it owes nothing (protocol.rs: serve,      *)
(* handle).                                                                  *)
THEOREM AnsweredInOrder == Spec => []RequestsAnsweredInOrder
  <1>1. SessionInv /\ [Next]_vars => SessionInv'
    BY SessionStep
  <1> QED
    BY <1>1, SessionInit, OrderFromSession, PTL DEF Spec

-----------------------------------------------------------------------------
(* An entity parses from what it renders to.                                 *)

LEMMA DigitsOf ==
    ASSUME NEW a \in 0 .. Digits * Digits - 1
    PROVE  /\ a \div Digits \in 0 .. Digits - 1 /\ a % Digits \in 0 .. Digits - 1
           /\ (a \div Digits) * Digits + (a % Digits) = a
  <1>1. Digits \in Nat /\ Digits > 0 /\ a \in Nat /\ a < Digits * Digits
    BY RenderingAssumption
  <1> DEFINE q == a \div Digits
             r == a % Digits
  <1>2. q \in Int /\ r \in Int /\ 0 <= r /\ r < Digits /\ a = Digits * q + r
    BY <1>1
  <1> HIDE DEF q, r
  <1>3. q >= 0
    <2>1. SUFFICES ASSUME q <= -1
                   PROVE  FALSE
      BY <1>2
    <2>2. Digits * q <= Digits * (-1)
      BY <1>1, <1>2, <2>1
    <2> QED
      BY <1>1, <1>2, <2>2
  <1>4. q < Digits
    <2>1. SUFFICES ASSUME q >= Digits
                   PROVE  FALSE
      BY <1>1, <1>2
    <2>2. Digits * q >= Digits * Digits
      BY <1>1, <1>2, <2>1
    <2>3. Digits * q \in Int /\ Digits * Digits \in Int
      BY <1>1, <1>2
    <2> QED
      BY <1>1, <1>2, <2>2, <2>3
  <1>5. q * Digits + r = a
    BY <1>1, <1>2
  <1> QED
    BY <1>1, <1>2, <1>3, <1>4, <1>5 DEF q, r

LEMMA HexBack ==
    ASSUME NEW n \in Nat, NEW b \in Ids(n)
    PROVE  Len(Hex(b)) = 2 * n /\ IsHex(Hex(b)) /\ UnHex(Hex(b)) = b
  <1>1. Digits \in Nat /\ Digits > 0
    BY RenderingAssumption
  <1>2. b \in [1..n -> 0 .. Digits * Digits - 1] /\ Len(b) = n
    BY DEF Ids
  <1> DEFINE at(i) == (i + 1) \div 2
             h == Hex(b)
  <1>3. h = [i \in 1 .. 2 * n |-> IF i % 2 = 1 THEN b[at(i)] \div Digits ELSE b[at(i)] % Digits]
    BY <1>2 DEF Hex
  <1>4. \A i \in 1 .. 2 * n : at(i) \in 1..n
    OBVIOUS
  <1>5. \A i \in 1..n :
          /\ b[i] \div Digits \in 0 .. Digits - 1 /\ b[i] % Digits \in 0 .. Digits - 1
          /\ (b[i] \div Digits) * Digits + (b[i] % Digits) = b[i]
    <2>1. TAKE i \in 1..n
    <2>2. b[i] \in 0 .. Digits * Digits - 1
      BY <1>2
    <2> QED
      BY <2>2, DigitsOf
  <1>6. /\ \A i \in 1..n : 2 * i - 1 \in 1 .. 2 * n /\ at(2 * i - 1) = i /\ (2 * i - 1) % 2 = 1
        /\ \A i \in 1..n : 2 * i \in 1 .. 2 * n /\ at(2 * i) = i /\ (2 * i) % 2 = 0
    OBVIOUS
  <1> HIDE DEF at, h
  <1>7. \A i \in 1 .. 2 * n : h[i] \in 0 .. Digits - 1
    BY <1>3, <1>4, <1>5
  <1>8. h \in [1 .. 2 * n -> 0 .. Digits - 1]
    BY <1>3, <1>7
  <1>9. Len(h) = 2 * n /\ DOMAIN h = 1 .. 2 * n
    BY <1>8
  <1>10. IsHex(h)
    BY <1>1, <1>7, <1>9 DEF IsHex
  <1>11. UnHex(h) = b
    <2>1. (2 * n) \div 2 = n
      OBVIOUS
    <2>2. UnHex(h) = [i \in 1..n |-> h[2 * i - 1] * Digits + h[2 * i]]
      BY <1>9, <2>1 DEF UnHex
    <2>3. \A i \in 1..n : h[2 * i - 1] = b[i] \div Digits /\ h[2 * i] = b[i] % Digits
      BY <1>3, <1>6
    <2>4. \A i \in 1..n : h[2 * i - 1] * Digits + h[2 * i] = b[i]
      BY <1>5, <2>3
    <2> QED
      BY <1>2, <2>2, <2>4
  <1> QED
    BY <1>9, <1>10, <1>11 DEF h

(* A span's rendering is read back as the span (parse_entity over            *)
(* render_entity).                                                           *)
LEMMA SpanReadsBack == \A s \in Spans : ParseEntity(RenderEntity(s)) = Ok(s)
  <1>1. TAKE s \in Spans
  <1>2. CASE s \in ById
    <2>1. /\ s = [trace_id |-> s.trace_id, span_id |-> s.span_id, serial |-> None]
          /\ s.trace_id \in Ids(TraceBytes) /\ s.span_id \in Ids(SpanBytes)
      BY <1>2 DEF ById
    <2>2. TraceBytes \in Nat /\ SpanBytes \in Nat
      BY RenderingAssumption
    <2> DEFINE t == Hex(s.trace_id)
               p == Hex(s.span_id)
               v == RenderEntity(s)
    <2>3. /\ Len(t) = 2 * TraceBytes /\ IsHex(t) /\ UnHex(t) = s.trace_id
          /\ Len(p) = 2 * SpanBytes /\ IsHex(p) /\ UnHex(p) = s.span_id
      BY <2>1, <2>2, HexBack
    <2>4. v = [span |-> [trace_id |-> t, span_id |-> p]]
      BY <2>1 DEF RenderEntity
    <2> HIDE DEF t, p, v
    <2>5. /\ Has(v, "span") /\ Has(v.span, "trace_id") /\ Has(v.span, "span_id")
          /\ v.span.trace_id = t /\ v.span.span_id = p
      BY <2>4 DEF Has
    <2>6. ParseEntity(v) = Ok(SpanId(s.trace_id, s.span_id))
      BY <2>3, <2>5 DEF ParseEntity
    <2>7. SpanId(s.trace_id, s.span_id) = s
      BY <2>1 DEF SpanId
    <2> QED
      BY <2>6, <2>7 DEF v
  <1>3. CASE s \in BySerial
    <2>1. /\ s = [trace_id |-> None, span_id |-> None, serial |-> s.serial]
          /\ s.serial \in Nat /\ s.serial # 0 /\ s.serial # None
      BY <1>3, SurfaceAssumption DEF BySerial
    <2> DEFINE v == RenderEntity(s)
    <2>2. v = [assigned |-> s.serial]
      BY <2>1 DEF RenderEntity
    <2>3. ~Has(v, "span") /\ Has(v, "assigned") /\ v.assigned = s.serial
      BY <2>2 DEF Has
    <2> HIDE DEF v
    <2>4. ParseEntity(v) = Ok(AssignedId(s.serial))
      BY <2>1, <2>3 DEF ParseEntity
    <2> QED
      BY <2>1, <2>4 DEF AssignedId, v
  <1> QED
    BY <1>2, <1>3, SurfaceAssumption

-----------------------------------------------------------------------------
(* What holds of an exchange under way, over a store of the residents res,   *)
(* after ev evictions and mv moves.                                          *)

StatsAt(res, ev) == [resident_records |-> Cardinality(res), total_evictions |-> ev]
ContextSpan(log) == SpanId(LogContext[log].trace_id, LogContext[log].span_id)

(* The entity looked up is the one the request names, or the span that a log *)
(* it names carries.                                                         *)
Linked(surface, x) ==
    \/ x.entity = Named(surface, x.request)
    \/ /\ Named(surface, x.request) \in Logs \cap x.present
       /\ x.entity = ContextSpan(Named(surface, x.request))

Holding(surface, x, res, ev, mv) ==
    /\ IsExchange(x)
    /\ res \subseteq x.present /\ Entities \ res \subseteq x.absent
    /\ x.floor \in Nat /\ x.floor <= ev
    /\ x.version \in Nat /\ x.version <= mv
    /\ x.pc \in {"log", "metric"} => x.entity = Named(surface, x.request)
    /\ x.pc \in {"admit", "resolve"} => Linked(surface, x)
    /\ x.pc = "resolve" =>
         /\ x.stats.total_evictions \in x.floor .. ev
         /\ x.version = mv => x.stats = StatsAt(res, ev)

LEMMA HoldsOver ==
    ASSUME NEW surface, NEW x, NEW y, NEW res, NEW ev \in Nat, NEW mv \in Nat,
           NEW res2, NEW ev2 \in Nat, ev <= ev2,
           Holding(surface, x, res, ev, mv),
           IsExchange(y), y.pc = x.pc, y.request = x.request, y.entity = x.entity,
           y.stats = x.stats, y.version = x.version, y.floor = x.floor,
           y.present = x.present \cup res2, y.absent = x.absent \cup (Entities \ res2)
    PROVE  Holding(surface, y, res2, ev2, mv + 1)
  <1>1. Linked(surface, x) => Linked(surface, y)
    BY DEF Linked
  <1>2. x.floor .. ev \subseteq x.floor .. ev2
    BY DEF Holding
  <1>3. y.version # mv + 1 /\ y.version <= mv + 1
    BY DEF Holding
  <1> QED
    BY <1>1, <1>2, <1>3 DEF Holding

LEMMA HoldsBegun ==
    ASSUME NEW surface, NEW x, NEW res, NEW ev \in Nat, NEW mv \in Nat,
           IsExchange(x), x.pc \in {"begun", "reply"}, x.version = mv, x.floor = ev,
           x.present = res, x.absent = Entities \ res
    PROVE  Holding(surface, x, res, ev, mv)
  BY DEF Holding

(* An exchange goes on between two moves of the store.                       *)
LEMMA HoldsOnward ==
    ASSUME NEW surface, NEW x, NEW y, NEW res, NEW ev \in Nat, NEW mv \in Nat,
           Holding(surface, x, res, ev, mv), Onward(x, y),
           \/ y.pc = "reply"
           \/ y.pc \in {"log", "metric", "admit"} /\ y.entity = Named(surface, x.request)
           \/ /\ y.pc = "admit" /\ Named(surface, x.request) \in Logs \cap res
              /\ y.entity = ContextSpan(Named(surface, x.request))
           \/ /\ y.pc = "resolve" /\ x.pc = "admit" /\ y.entity = x.entity
              /\ y.stats = StatsAt(res, ev)
    PROVE  Holding(surface, y, res, ev, mv)
  <1> USE DEF Onward
  <1>1. CASE y.pc = "reply"
    BY <1>1 DEF Holding
  <1>2. CASE y.pc \in {"log", "metric", "admit"} /\ y.entity = Named(surface, x.request)
    BY <1>2 DEF Holding, Linked
  <1>3. CASE /\ y.pc = "admit" /\ Named(surface, x.request) \in Logs \cap res
             /\ y.entity = ContextSpan(Named(surface, x.request))
    <2>1. Linked(surface, y)
      BY <1>3 DEF Holding, Linked
    <2> QED
      BY <1>3, <2>1 DEF Holding
  <1>4. CASE /\ y.pc = "resolve" /\ x.pc = "admit" /\ y.entity = x.entity
             /\ y.stats = StatsAt(res, ev)
    <2>1. Linked(surface, y)
      BY <1>4 DEF Holding, Linked
    <2>2. y.stats.total_evictions \in y.floor .. ev
      BY <1>4 DEF Holding, StatsAt
    <2> QED
      BY <1>4, <2>1, <2>2 DEF Holding
  <1> QED
    BY <1>1, <1>2, <1>3, <1>4

-----------------------------------------------------------------------------
(* What holds of an exchange that has ended.                                 *)

(* What both surfaces owe who asks for e, their ceilings being the same.     *)
VerdictAt(e, res, ev, fl) ==
    IF e \notin Spans \cap res THEN Unresolved(EntityText(e))
    ELSE IF fl[e].kind = "envelope"
    THEN Answer(RenderInvestigation(Envelope(fl[e], HttpBudget, StatsAt(res, ev))))
    ELSE Refuse("internal", fl[e].kind)

Fair(surface, j) ==
    LET x == j.exchange
        named == Named(surface, x.request)
    IN  /\ j.verdict.kind = "answer" =>
             /\ x.entity \in Spans \cap x.present
             /\ named # x.entity =>
                  /\ named \in Logs \cap x.present
                  /\ x.entity = SpanId(LogContext[named].trace_id, LogContext[named].span_id)
             /\ ParseEntity(j.verdict.answer.subject.requested.root_span) = Ok(x.entity)
             /\ j.verdict.answer.limits.eviction.total_evictions \in x.floor .. j.ceiling
        /\ j.verdict.kind = "unresolved" =>
             /\ x.entity \in SoughtIn(x.pc) => x.entity \in x.absent
             /\ j.verdict.subject = EntityText(x.entity)

(* The verdict is still what the store says, if it has not moved since the   *)
(* exchange began.                                                           *)
Judged(surface, j, res, ev, mv, fl) ==
    /\ Fair(surface, j)
    /\ j.version \in Nat /\ j.version <= mv
    /\ PageMaxBytes = PayloadCeiling /\ Steady(j) /\ j.version = mv
         => j.verdict = VerdictAt(j.exchange.entity, res, ev, fl)

Judgement(x, v, ev, mv) == [exchange |-> x, verdict |-> v, version |-> mv, ceiling |-> ev]

LEMMA JudgedOver ==
    ASSUME NEW surface, NEW j, NEW res, NEW ev, NEW mv \in Nat, NEW fl, NEW res2, NEW ev2,
           Judged(surface, j, res, ev, mv, fl)
    PROVE  Judged(surface, j, res2, ev2, mv + 1, fl)
  BY DEF Judged

(* A refusal judges nothing of the store.                                    *)
LEMMA JudgedRefused ==
    ASSUME NEW surface, NEW x, NEW res, NEW ev \in Nat, NEW mv \in Nat, NEW fl,
           NEW family, NEW reason, family \notin {"answer", "unresolved"}, x.pc # "resolve"
    PROVE  Judged(surface, Judgement(x, Refuse(family, reason), ev, mv), res, ev, mv, fl)
  BY DEF Judged, Judgement, Fair, Refuse, Steady

(* A record is missed where it is looked for.                                *)
LEMMA JudgedMissed ==
    ASSUME NEW surface, NEW x, NEW res, NEW ev \in Nat, NEW mv \in Nat, NEW fl,
           Holding(surface, x, res, ev, mv), x.pc \in {"log", "metric"},
           x.entity \notin SoughtIn(x.pc) \cap res
    PROVE  Judged(surface, Judgement(x, Unresolved(EntityText(x.entity)), ev, mv),
                  res, ev, mv, fl)
  <1>1. x.entity \in SoughtIn(x.pc) => x.entity \in x.absent
    <2>1. SoughtIn(x.pc) \subseteq Entities
      BY SurfaceAssumption DEF SoughtIn
    <2> QED
      BY <2>1 DEF Holding
  <1> QED
    BY <1>1 DEF Judged, Judgement, Fair, Unresolved, Steady

(* The flow has looked its subject up.                                       *)
LEMMA JudgedResolved ==
    ASSUME NEW surface, NEW x, NEW res, NEW ev \in Nat, NEW mv \in Nat, NEW fl, NEW v,
           Holding(surface, x, res, ev, mv), x.pc = "resolve",
           v.kind = "answer" =>
             /\ x.entity \in Spans \cap res
             /\ ParseEntity(v.answer.subject.requested.root_span) = Ok(x.entity)
             /\ v.answer.limits.eviction.total_evictions = x.stats.total_evictions,
           v.kind = "unresolved" =>
             x.entity \notin Spans \cap res /\ v.subject = EntityText(x.entity),
           PageMaxBytes = PayloadCeiling /\ x.stats = StatsAt(res, ev)
             => v = VerdictAt(x.entity, res, ev, fl)
    PROVE  Judged(surface, Judgement(x, v, ev, mv), res, ev, mv, fl)
  <1> DEFINE j == Judgement(x, v, ev, mv)
  <1>1. j.exchange = x /\ j.verdict = v /\ j.version = mv /\ j.ceiling = ev
    BY DEF Judgement
  <1> HIDE DEF j
  <1>2. /\ Linked(surface, x) /\ res \subseteq x.present /\ Entities \ res \subseteq x.absent
        /\ x.stats.total_evictions \in x.floor .. ev
        /\ x.version = mv => x.stats = StatsAt(res, ev)
    BY DEF Holding
  <1>3. SoughtIn(x.pc) = Spans /\ Spans \subseteq Entities
    BY SurfaceAssumption DEF SoughtIn
  <1>4. v.kind = "answer" =>
          /\ x.entity \in Spans \cap x.present
          /\ Named(surface, x.request) # x.entity =>
               /\ Named(surface, x.request) \in Logs \cap x.present
               /\ x.entity = ContextSpan(Named(surface, x.request))
          /\ v.answer.limits.eviction.total_evictions \in x.floor .. ev
    BY <1>2 DEF Linked
  <1>5. v.kind = "unresolved" => (x.entity \in SoughtIn(x.pc) => x.entity \in x.absent)
    BY <1>2, <1>3
  <1>6. Fair(surface, j)
    BY <1>1, <1>4, <1>5 DEF Fair, ContextSpan
  <1>7. Judged(surface, j, res, ev, mv, fl)
    BY <1>1, <1>2, <1>6 DEF Judged, Steady
  <1> QED
    BY <1>7 DEF j

-----------------------------------------------------------------------------
(* The exchanges, under way and ended, are what the store has been.          *)

Agreed ==
    Finished = {"mcp", "http"} =>
        LET a == judged["mcp"]
            b == judged["http"]
        IN  /\ Steady(a) /\ Steady(b) /\ a.version = b.version
            /\ a.exchange.entity = b.exchange.entity
            => a.verdict = b.verdict

JudgedInv ==
    /\ judged = [mcp |-> judged["mcp"], http |-> judged["http"]]
    /\ \A surface \in Finished :
         Judged(surface, judged[surface], resident, evictions, moves, flows)
    /\ PageMaxBytes = PayloadCeiling => Agreed

SurfaceInv ==
    /\ flows \in Flows /\ evictions \in Nat /\ moves \in Nat
    /\ call = Idle \/ Holding("mcp", call, resident, evictions, moves)
    /\ post = Idle \/ Holding("http", post, resident, evictions, moves)
    /\ JudgedInv

LEMMA SurfaceInit == Init => SurfaceInv
  <1> SUFFICES ASSUME Init
               PROVE  SurfaceInv
    OBVIOUS
  <1>1. PICK s \in Settings : moves = s.moves /\ flows \in s.flows
    BY DEF Init
  <1>2. flows \in Flows /\ moves \in Nat
    BY <1>1, SurfaceAssumption
  <1>3. /\ evictions = 0 /\ call = Idle /\ post = Idle
        /\ judged = [mcp |-> None, http |-> None]
    BY DEF Init
  <1>4. Finished = {} /\ JudgedInv
    BY <1>3 DEF Finished, JudgedInv, Agreed
  <1> QED
    BY <1>2, <1>3, <1>4 DEF SurfaceInv

LEMMA JudgedStill ==
    ASSUME JudgedInv, UNCHANGED <<storeVars, given, judged>>
    PROVE  JudgedInv'
  BY DEF JudgedInv, Finished, Agreed, storeVars, given

LEMMA Settling ==
    ASSUME JudgedInv, evictions \in Nat, moves \in Nat,
           NEW surface \in {"mcp", "http"}, NEW x, NEW v,
           Judged(surface, Judgement(x, v, evictions, moves), resident, evictions, moves, flows),
           judged' = Settled(surface, x, v), UNCHANGED <<storeVars, given>>
    PROVE  JudgedInv'
  <1> DEFINE j == Judgement(x, v, evictions, moves)
             a == judged'["mcp"]
             b == judged'["http"]
  <1>1. judged' = [judged EXCEPT ![surface] = j]
    BY DEF Settled, Judgement
  <1>2. judged = [mcp |-> judged["mcp"], http |-> judged["http"]]
    BY DEF JudgedInv
  <1>3. j.version = moves
    BY DEF Judgement
  <1> HIDE DEF j
  <1>4. CASE surface = "mcp"
    <2>1. judged' = [mcp |-> j, http |-> judged["http"]]
      BY <1>1, <1>2, <1>4
    <2>2. Finished' \subseteq Finished \cup {"mcp"}
      BY <2>1 DEF Finished
    <2>3. /\ Judged("mcp", j, resident, evictions, moves, flows)
          /\ "http" \in Finished' =>
               Judged("http", judged["http"], resident, evictions, moves, flows)
      BY <1>4, <2>2 DEF JudgedInv, j
    <2>4. \A s \in Finished' : Judged(s, judged'[s], resident, evictions, moves, flows)
      BY <2>1, <2>3 DEF Finished
    <2>5. PageMaxBytes = PayloadCeiling => Agreed'
      <3> SUFFICES ASSUME PageMaxBytes = PayloadCeiling, Finished' = {"mcp", "http"},
                          Steady(a), Steady(b), a.version = b.version,
                          a.exchange.entity = b.exchange.entity
                   PROVE  a.verdict = b.verdict
        BY DEF Agreed
      <3>1. a = j /\ b = judged["http"]
        BY <2>1
      <3>2. a.verdict = VerdictAt(a.exchange.entity, resident, evictions, flows)
        BY <1>3, <2>3, <3>1 DEF Judged
      <3>3. b.verdict = VerdictAt(b.exchange.entity, resident, evictions, flows)
        BY <1>3, <2>3, <3>1 DEF Judged
      <3> QED
        BY <3>2, <3>3
    <2> QED
      BY <2>1, <2>4, <2>5 DEF JudgedInv, storeVars, given
  <1>5. CASE surface = "http"
    <2>1. judged' = [mcp |-> judged["mcp"], http |-> j]
      BY <1>1, <1>2, <1>5
    <2>2. Finished' \subseteq Finished \cup {"http"}
      BY <2>1 DEF Finished
    <2>3. /\ Judged("http", j, resident, evictions, moves, flows)
          /\ "mcp" \in Finished' =>
               Judged("mcp", judged["mcp"], resident, evictions, moves, flows)
      BY <1>5, <2>2 DEF JudgedInv, j
    <2>4. \A s \in Finished' : Judged(s, judged'[s], resident, evictions, moves, flows)
      BY <2>1, <2>3 DEF Finished
    <2>5. PageMaxBytes = PayloadCeiling => Agreed'
      <3> SUFFICES ASSUME PageMaxBytes = PayloadCeiling, Finished' = {"mcp", "http"},
                          Steady(a), Steady(b), a.version = b.version,
                          a.exchange.entity = b.exchange.entity
                   PROVE  a.verdict = b.verdict
        BY DEF Agreed
      <3>1. b = j /\ a = judged["mcp"]
        BY <2>1
      <3>2. b.verdict = VerdictAt(b.exchange.entity, resident, evictions, flows)
        BY <1>3, <2>3, <3>1 DEF Judged
      <3>3. a.verdict = VerdictAt(a.exchange.entity, resident, evictions, flows)
        BY <1>3, <2>3, <3>1 DEF Judged
      <3> QED
        BY <3>2, <3>3
    <2> QED
      BY <2>1, <2>4, <2>5 DEF JudgedInv, storeVars, given
  <1> QED
    BY <1>4, <1>5

(* The MCP adapter's copy of each renderer and parser writes and reads what  *)
(* the HTTP surface's own does, part by part (render.rs; tools.rs).          *)
LEMMA McpHexes == \A bytes : McpHex(bytes) = Hex(bytes)
  BY DEF McpHex, Hex

LEMMA McpEntities ==
    \A e : McpEntity(e) = RenderEntity(e) /\ McpEntityText(e) = EntityText(e)
  BY McpHexes DEF McpEntity, RenderEntity, McpEntityText, EntityText

LEMMA McpParses == \A value : McpParseEntity(value) = ParseEntity(value)
  <1>1. \A text : (McpIsHex(text) <=> IsHex(text)) /\ McpParseHex(text) = UnHex(text)
    BY DEF McpIsHex, IsHex, McpParseHex, UnHex
  <1>2. None \notin {"trace_id_length", "span_id_length", "hex"}
    BY SurfaceAssumption
  <1> TAKE value
  <1>3. CASE Has(value, "span")
    <2>1. McpParseEntity(value) =
            IF ~Has(value.span, "trace_id") THEN Err("needs_trace_id")
            ELSE IF ~Has(value.span, "span_id") THEN Err("needs_span_id")
            ELSE McpParseSpan(value.span)
      BY <1>3 DEF McpParseEntity
    <2> DEFINE t == McpHexRefusal(value.span.trace_id, TraceBytes, "trace_id_length")
               p == McpHexRefusal(value.span.span_id, SpanBytes, "span_id_length")
    <2>2. /\ t = IF Len(value.span.trace_id) # 2 * TraceBytes THEN "trace_id_length"
                 ELSE IF ~IsHex(value.span.trace_id) THEN "hex" ELSE None
          /\ p = IF Len(value.span.span_id) # 2 * SpanBytes THEN "span_id_length"
                 ELSE IF ~IsHex(value.span.span_id) THEN "hex" ELSE None
      BY <1>1 DEF McpHexRefusal
    <2>3. McpParseSpan(value.span) =
            IF t # None THEN Err(t) ELSE IF p # None THEN Err(p)
            ELSE Ok(SpanId(UnHex(value.span.trace_id), UnHex(value.span.span_id)))
      BY <1>1 DEF McpParseSpan
    <2> HIDE DEF t, p
    <2>4. McpParseSpan(value.span) =
            IF Len(value.span.trace_id) # 2 * TraceBytes THEN Err("trace_id_length")
            ELSE IF ~IsHex(value.span.trace_id) THEN Err("hex")
            ELSE IF Len(value.span.span_id) # 2 * SpanBytes THEN Err("span_id_length")
            ELSE IF ~IsHex(value.span.span_id) THEN Err("hex")
            ELSE Ok(SpanId(UnHex(value.span.trace_id), UnHex(value.span.span_id)))
      BY <1>2, <2>2, <2>3
    <2> QED
      BY <1>3, <2>1, <2>4 DEF ParseEntity
  <1>4. CASE ~Has(value, "span")
    BY <1>4 DEF McpParseEntity, ParseEntity
  <1> QED
    BY <1>3, <1>4

LEMMA McpSubjects == \A subject : McpSubject(subject) = RenderSubject(subject)
  <1>1. \A note : McpNote(note) = RenderNote(note)
    BY McpEntities DEF McpNote, RenderNote
  <1> QED
    BY <1>1, McpEntities DEF McpSubject, RenderSubject, RenderEffectiveRoot, Each

LEMMA McpOutcomes == \A outcome : McpOutcome(outcome) = RenderOutcome(outcome)
  <1>1. \A dimension, amount : McpMagnitude(dimension, amount) = RenderMagnitude(dimension, amount)
    BY DEF McpMagnitude, RenderMagnitude
  <1>2. \A t : McpTruncation(t) = RenderTruncation(t)
    BY McpEntities, McpHexes DEF McpTruncation, McpTruncationPoint, RenderTruncation,
                                 RenderTruncationPoint
  <1>3. \A r : McpRefusal(r) = RenderRefusal(r)
    BY <1>1 DEF McpRefusal, RenderRefusal
  <1> QED
    BY <1>2, <1>3 DEF McpOutcome, RenderOutcome

LEMMA McpExecutions == \A execution : McpExecution(execution) = RenderExecution(execution)
  <1>1. \A entry : McpCoverage(entry) = RenderCoverage(entry)
    BY McpEntities DEF McpCoverage, RenderCoverage
  <1>2. \A run : McpRun(run) = RenderRun(run)
    BY <1>1, McpOutcomes, McpHexes DEF McpRun, RenderRun, Each
  <1>3. \A group : McpRunGroup(group) = RenderRunGroup(group)
    BY <1>2 DEF McpRunGroup, RenderRunGroup, Each
  <1>4. \A entry : McpFlowCoverage(entry) = RenderFlowCoverage(entry)
    BY McpEntities DEF McpFlowCoverage, RenderFlowCoverage
  <1> QED
    BY <1>3, <1>4 DEF McpExecution, RenderExecution, Each

LEMMA McpModelValues == \A value : McpModelValue(value) = RenderModelValue(value)
  <1>1. \A value : McpScalar(value) = RenderScalar(value)
    BY McpHexes DEF McpScalar, RenderScalar
  <1> QED
    BY <1>1 DEF McpModelValue, RenderModelValue, Each

LEMMA McpRelations == \A relations : McpCorrelated(relations) = RenderCorrelated(relations)
  <1>1. \A fact : McpFact(fact) = RenderFact(fact)
    BY McpModelValues DEF McpFact, RenderFact
  <1>2. \A reference : McpSignalRef(reference) = RenderSignalRef(reference)
    BY McpEntities DEF McpSignalRef, RenderSignalRef
  <1>3. \A relation : McpRelation(relation) = RenderRelation(relation)
    BY <1>1, <1>2 DEF McpRelation, RenderRelation, Each
  <1> QED
    BY <1>3 DEF McpCorrelated, RenderCorrelated, Each

LEMMA McpViews == \A evidence : McpEvidence(evidence) = RenderEvidence(evidence)
  <1>1. \A view : McpSpanView(view) = RenderSpanView(view)
    BY McpEntities, McpHexes DEF McpSpanView, RenderSpanView, McpViewEntity
  <1>2. \A view : McpLogView(view) = RenderLogView(view)
    BY McpEntities, McpHexes, McpModelValues DEF McpLogView, RenderLogView, McpViewEntity
  <1>3. \A view : McpPointView(view) = RenderPointView(view)
    BY McpEntities DEF McpPointView, RenderPointView, McpViewEntity, McpPoint, RenderPoint,
                       McpNumber, RenderNumber
  <1> QED
    BY <1>1, <1>2, <1>3 DEF McpEvidence, RenderEvidence, Each

LEMMA McpRenders == \A envelope : McpInvestigation(envelope) = RenderInvestigation(envelope)
  <1>1. \A limits : McpLimits(limits) = RenderLimits(limits)
    BY DEF McpLimits, RenderLimits
  <1> QED
    BY <1>1, McpSubjects, McpExecutions, McpRelations, McpViews
       DEF McpInvestigation, RenderInvestigation

(* The rendering of an answer names the span asked about, and the counts of  *)
(* the store are those read when the flow was admitted.                      *)
LEMMA AnswerSays ==
    ASSUME NEW fl \in Flows, NEW e \in Spans, fl[e].kind = "envelope", NEW budget, NEW stats,
           NEW r, r = RenderInvestigation(Envelope(fl[e], budget, stats))
    PROVE  /\ ParseEntity(r.subject.requested.root_span) = Ok(e)
           /\ r.limits.eviction.total_evictions = stats.total_evictions
  <1>1. fl[e].subject.requested = e
    BY SurfaceAssumption
  <1>2. r.subject.requested.root_span = RenderEntity(e)
    BY <1>1 DEF RenderInvestigation, RenderSubject, Envelope
  <1>3. r.limits.eviction.total_evictions = stats.total_evictions
    BY DEF RenderInvestigation, RenderLimits, Envelope
  <1> QED
    BY <1>2, <1>3, SpanReadsBack

-----------------------------------------------------------------------------
(* The steps.                                                                *)

LEMMA CallOnward ==
    ASSUME SurfaceInv, UNCHANGED <<storeVars, given, httpVars>>, JudgedInv',
           call' = Idle \/ Holding("mcp", call', resident, evictions, moves)
    PROVE  SurfaceInv'
  BY DEF SurfaceInv, storeVars, given, httpVars

LEMMA PostOnward ==
    ASSUME SurfaceInv, UNCHANGED <<storeVars, given, mcpVars>>, JudgedInv',
           post' = Idle \/ Holding("http", post', resident, evictions, moves)
    PROVE  SurfaceInv'
  BY DEF SurfaceInv, storeVars, given, mcpVars

LEMMA CallSettles ==
    ASSUME SurfaceInv, call # Idle, NEW v, CallEnds(v),
           Judged("mcp", Judgement(call, v, evictions, moves), resident, evictions, moves, flows),
           UNCHANGED <<storeVars, given, httpVars>>
    PROVE  SurfaceInv'
  <1>1. /\ Holding("mcp", call, resident, evictions, moves) /\ IsExchange(call)
        /\ evictions \in Nat /\ moves \in Nat /\ JudgedInv
    BY DEF SurfaceInv, Holding
  <1>2. Onward(call, call') /\ call'.pc = "reply" /\ judged' = Settled("mcp", call, v)
    BY <1>1, CallEnded
  <1>3. Holding("mcp", call', resident, evictions, moves)
    BY <1>1, <1>2, HoldsOnward
  <1>4. JudgedInv'
    BY <1>1, <1>2, Settling
  <1> QED
    BY <1>3, <1>4, CallOnward

LEMMA PostSettles ==
    ASSUME SurfaceInv, post # Idle, NEW v, PostEnds(v),
           Judged("http", Judgement(post, v, evictions, moves), resident, evictions, moves, flows),
           UNCHANGED <<storeVars, given, mcpVars>>
    PROVE  SurfaceInv'
  <1>1. evictions \in Nat /\ moves \in Nat /\ JudgedInv
    BY DEF SurfaceInv
  <1>2. post' = Idle /\ judged' = Settled("http", post, v)
    BY DEF PostEnds
  <1>3. JudgedInv'
    BY <1>1, <1>2, Settling
  <1> QED
    BY <1>2, <1>3, PostOnward

LEMMA StoreMovesSurface ==
    ASSUME SurfaceInv, StoreMoves
    PROVE  SurfaceInv'
  <1>1. /\ moves' = moves + 1 /\ evictions' \in {evictions, evictions + 1}
        /\ call' = Watching(call) /\ post' = Watching(post)
        /\ UNCHANGED <<flows, judged>>
    BY DEF StoreMoves, given
  <1>2. evictions \in Nat /\ moves \in Nat /\ flows \in Flows /\ JudgedInv
    BY DEF SurfaceInv
  <1>3. evictions' \in Nat /\ evictions <= evictions' /\ moves' \in Nat
    BY <1>1, <1>2
  <1>4. call' = Idle \/ Holding("mcp", call', resident', evictions', moves')
    <2>1. CASE call = Idle
      BY <1>1, <2>1, NoneWatches
    <2>2. CASE Holding("mcp", call, resident, evictions, moves)
      <3>1. /\ IsExchange(call') /\ call'.pc = call.pc /\ call'.request = call.request
            /\ call'.entity = call.entity /\ call'.stats = call.stats
            /\ call'.version = call.version /\ call'.floor = call.floor
            /\ call'.present = call.present \cup resident'
            /\ call'.absent = call.absent \cup (Entities \ resident')
        BY <1>1, <2>2, Watches DEF Holding
      <3> QED
        BY <1>1, <1>2, <1>3, <2>2, <3>1, HoldsOver
    <2> QED
      BY <2>1, <2>2 DEF SurfaceInv
  <1>5. post' = Idle \/ Holding("http", post', resident', evictions', moves')
    <2>1. CASE post = Idle
      BY <1>1, <2>1, NoneWatches
    <2>2. CASE Holding("http", post, resident, evictions, moves)
      <3>1. /\ IsExchange(post') /\ post'.pc = post.pc /\ post'.request = post.request
            /\ post'.entity = post.entity /\ post'.stats = post.stats
            /\ post'.version = post.version /\ post'.floor = post.floor
            /\ post'.present = post.present \cup resident'
            /\ post'.absent = post.absent \cup (Entities \ resident')
        BY <1>1, <2>2, Watches DEF Holding
      <3> QED
        BY <1>1, <1>2, <1>3, <2>2, <3>1, HoldsOver
    <2> QED
      BY <2>1, <2>2 DEF SurfaceInv
  <1>6. JudgedInv'
    <2>1. \A surface \in Finished :
            Judged(surface, judged[surface], resident', evictions', moves', flows)
      BY <1>1, <1>2, JudgedOver DEF JudgedInv
    <2> QED
      BY <1>1, <1>2, <2>1 DEF JudgedInv, Finished, Agreed
  <1> QED
    BY <1>1, <1>2, <1>3, <1>4, <1>5, <1>6 DEF SurfaceInv

LEMMA ServeSurface ==
    ASSUME SurfaceInv, Serve
    PROVE  SurfaceInv'
  <1>1. /\ evictions \in Nat /\ moves \in Nat /\ call = Idle /\ JudgedInv
        /\ UNCHANGED <<storeVars, given, httpVars, judged>>
    BY DEF SurfaceInv, Serve
  <1>2. JudgedInv'
    BY <1>1, JudgedStill
  <1>3. \A x, r : /\ x = Begun(r)
                  => /\ IsExchange(x) /\ x.request = r
                     /\ Holding("mcp", x, resident, evictions, moves)
    BY <1>1, BegunIs, HoldsBegun
  <1>4. \/ call' = Idle
        \/ call' = Replying(Begun(None), ErrorResponse(Null, PARSE_ERROR))
        \/ call' = Handle(Begun(Head(input).message))
    BY <1>1 DEF Serve
  <1>5. CASE call' = Replying(Begun(None), ErrorResponse(Null, PARSE_ERROR))
    <2>1. PICK r : r = ErrorResponse(Null, PARSE_ERROR)
      OBVIOUS
    <2>2. PICK x : x = Begun(None)
      OBVIOUS
    <2>3. Onward(x, call') /\ call'.pc = "reply"
      BY <1>3, <1>5, <2>1, <2>2, Replies
    <2>4. Holding("mcp", call', resident, evictions, moves)
      BY <1>1, <1>3, <2>2, <2>3, HoldsOnward
    <2> QED
      BY <1>1, <1>2, <2>4, CallOnward
  <1>6. CASE call' = Handle(Begun(Head(input).message))
    <2>1. PICK x : x = Begun(Head(input).message)
      OBVIOUS
    <2>2. IsExchange(x) /\ Holding("mcp", x, resident, evictions, moves) /\ call' = Handle(x)
      BY <1>3, <1>6, <2>1
    <2>3. call' = Idle \/ Handled(x, call')
      BY <2>2, HandleHandles
    <2>4. call' = Idle \/ Holding("mcp", call', resident, evictions, moves)
      BY <1>1, <2>2, <2>3, HoldsOnward DEF Handled
    <2> QED
      BY <1>1, <1>2, <2>4, CallOnward
  <1> QED
    BY <1>1, <1>2, <1>4, <1>5, <1>6, CallOnward

LEMMA InvestigateLogSurface ==
    ASSUME SurfaceInv, InvestigateLog
    PROVE  SurfaceInv'
  <1>1. /\ call.pc = "log" /\ call # Idle
        /\ UNCHANGED <<storeVars, given, httpVars>>
    BY DEF InvestigateLog, Idle
  <1>2. /\ Holding("mcp", call, resident, evictions, moves) /\ IsExchange(call)
        /\ evictions \in Nat /\ moves \in Nat /\ JudgedInv
    BY <1>1 DEF SurfaceInv, Holding
  <1>3. CASE ~LogRead(call.entity)
    <2>1. CallEnds(Unresolved(EntityText(call.entity)))
      BY <1>3, McpEntities DEF InvestigateLog
    <2>2. call.entity \notin SoughtIn(call.pc) \cap resident
      BY <1>1, <1>3 DEF LogRead, SoughtIn
    <2>3. Judged("mcp", Judgement(call, Unresolved(EntityText(call.entity)), evictions, moves),
                 resident, evictions, moves, flows)
      BY <1>1, <1>2, <2>2, JudgedMissed
    <2> QED
      BY <1>1, <2>1, <2>3, CallSettles
  <1>4. CASE LogRead(call.entity)
    <2> DEFINE c == LogContext[call.entity]
    <2>1. CASE SubjectSpan(c).refusal # None
      <3>1. CallEnds(Refuse("parse", SubjectSpan(c).refusal))
        BY <1>4, <2>1 DEF InvestigateLog
      <3>2. Judged("mcp", Judgement(call, Refuse("parse", SubjectSpan(c).refusal),
                                    evictions, moves), resident, evictions, moves, flows)
        BY <1>1, <1>2, JudgedRefused
      <3> QED
        BY <1>1, <3>1, <3>2, CallSettles
    <2>2. CASE SubjectSpan(c).refusal = None
      <3>1. SubjectSpan(c).entity = ContextSpan(call.entity)
        <4>1. "no_context" # None
          BY SurfaceAssumption
        <4> QED
          BY <2>2, <4>1 DEF SubjectSpan, Ok, Err, ContextSpan
      <3>2. PICK e : e = ContextSpan(call.entity)
        OBVIOUS
      <3>3. call' = Naming(call, e, "admit") /\ UNCHANGED judged
        BY <1>4, <2>2, <3>1, <3>2 DEF InvestigateLog, Naming
      <3>4. Onward(call, call') /\ call'.pc = "admit" /\ call'.entity = e
        BY <1>2, <3>3, Names
      <3>5. call.entity = Named("mcp", call.request) /\ call.entity \in Logs \cap resident
        BY <1>1, <1>2, <1>4 DEF Holding, LogRead
      <3>6. Holding("mcp", call', resident, evictions, moves)
        BY <1>2, <3>2, <3>4, <3>5, HoldsOnward
      <3>7. JudgedInv'
        BY <1>1, <1>2, <3>3, JudgedStill
      <3> QED
        BY <1>1, <3>6, <3>7, CallOnward
    <2> QED
      BY <2>1, <2>2
  <1> QED
    BY <1>3, <1>4

LEMMA InvestigateMetricSurface ==
    ASSUME SurfaceInv, InvestigateMetric
    PROVE  SurfaceInv'
  <1>1. /\ call.pc = "metric" /\ call # Idle
        /\ UNCHANGED <<storeVars, given, httpVars>>
    BY DEF InvestigateMetric, Idle
  <1>2. /\ Holding("mcp", call, resident, evictions, moves)
        /\ evictions \in Nat /\ moves \in Nat
    BY <1>1 DEF SurfaceInv
  <1>3. CASE ~PointRead(call.entity)
    <2>1. CallEnds(Unresolved(EntityText(call.entity)))
      BY <1>3, McpEntities DEF InvestigateMetric
    <2>2. call.entity \notin SoughtIn(call.pc) \cap resident
      BY <1>1, <1>3 DEF PointRead, SoughtIn
    <2>3. Judged("mcp", Judgement(call, Unresolved(EntityText(call.entity)), evictions, moves),
                 resident, evictions, moves, flows)
      BY <1>1, <1>2, <2>2, JudgedMissed
    <2> QED
      BY <1>1, <2>1, <2>3, CallSettles
  <1>4. CASE PointRead(call.entity)
    <2>1. CallEnds(Refuse("parse", "no_linkage"))
      BY <1>4 DEF InvestigateMetric
    <2>2. Judged("mcp", Judgement(call, Refuse("parse", "no_linkage"), evictions, moves),
                 resident, evictions, moves, flows)
      BY <1>1, <1>2, JudgedRefused
    <2> QED
      BY <1>1, <2>1, <2>2, CallSettles
  <1> QED
    BY <1>3, <1>4

LEMMA RunFlowAdmitsSurface ==
    ASSUME SurfaceInv, RunFlowAdmits
    PROVE  SurfaceInv'
  <1>1. /\ call.pc = "admit" /\ call # Idle
        /\ UNCHANGED <<storeVars, given, httpVars, judged>>
    BY DEF RunFlowAdmits, Idle
  <1>2. /\ Holding("mcp", call, resident, evictions, moves) /\ IsExchange(call)
        /\ evictions \in Nat /\ moves \in Nat /\ JudgedInv
    BY <1>1 DEF SurfaceInv, Holding
  <1>3. PICK s : s = StatsAt(resident, evictions)
    OBVIOUS
  <1>4. call' = Admitting(call, s)
    BY <1>3 DEF RunFlowAdmits, Admitting, Stats, StatsAt
  <1>5. /\ Onward(call, call') /\ call'.pc = "resolve" /\ call'.entity = call.entity
        /\ call'.stats = s
    BY <1>2, <1>4, Admits
  <1>6. Holding("mcp", call', resident, evictions, moves)
    BY <1>1, <1>2, <1>3, <1>5, HoldsOnward
  <1>7. JudgedInv'
    BY <1>1, <1>2, JudgedStill
  <1> QED
    BY <1>1, <1>6, <1>7, CallOnward

LEMMA RunFlowSurface ==
    ASSUME SurfaceInv, RunFlow
    PROVE  SurfaceInv'
  <1>1. /\ call.pc = "resolve" /\ call # Idle
        /\ UNCHANGED <<storeVars, given, httpVars>>
    BY DEF RunFlow, Idle
  <1>2. /\ Holding("mcp", call, resident, evictions, moves)
        /\ evictions \in Nat /\ moves \in Nat /\ JudgedInv /\ flows \in Flows
    BY <1>1 DEF SurfaceInv
  <1> DEFINE e == call.entity
             fails == Refuse("internal", flows[e].kind)
  <1>3. CASE ~SpanRead(e) /\ CallEnds(Unresolved(McpEntityText(e)))
    <2>1. PICK v : v = Unresolved(EntityText(e))
      OBVIOUS
    <2>2. /\ v.kind = "unresolved" /\ v.subject = EntityText(e) /\ e \notin Spans \cap resident
          /\ v = VerdictAt(e, resident, evictions, flows)
      BY <1>3, <2>1 DEF Unresolved, SpanRead, VerdictAt
    <2>3. Judged("mcp", Judgement(call, v, evictions, moves), resident, evictions, moves, flows)
      BY <1>1, <1>2, <2>2, JudgedResolved
    <2>4. CallEnds(v)
      BY <1>3, <2>1, McpEntities
    <2> QED
      BY <1>1, <2>3, <2>4, CallSettles
  <1>4. CASE /\ SpanRead(e) /\ flows[e].kind = "envelope"
             /\ CallEnds(Answer(McpInvestigation(Envelope(flows[e], McpBudget, call.stats))))
    <2>1. PICK r : r = RenderInvestigation(Envelope(flows[e], McpBudget, call.stats))
      OBVIOUS
    <2>2. PICK v : v = Answer(r)
      OBVIOUS
    <2>3. CallEnds(v)
      BY <1>4, <2>1, <2>2, McpRenders
    <2>4. e \in Spans /\ e \in Spans \cap resident
      BY <1>4 DEF SpanRead
    <2>5. ParseEntity(r.subject.requested.root_span) = Ok(e)
          /\ r.limits.eviction.total_evictions = call.stats.total_evictions
      BY <1>2, <1>4, <2>1, <2>4, AnswerSays
    <2>6. v.kind = "answer" /\ v.answer = r
      BY <2>2 DEF Answer
    <2>7. PageMaxBytes = PayloadCeiling /\ call.stats = StatsAt(resident, evictions)
            => v = VerdictAt(e, resident, evictions, flows)
      <3>1. PageMaxBytes = PayloadCeiling => McpBudget = HttpBudget
        BY DEF McpBudget, HttpBudget
      <3> QED
        BY <1>4, <2>1, <2>2, <2>4, <3>1 DEF VerdictAt
    <2>8. Judged("mcp", Judgement(call, v, evictions, moves), resident, evictions, moves, flows)
      BY <1>1, <1>2, <2>4, <2>5, <2>6, <2>7, JudgedResolved
    <2> QED
      BY <1>1, <2>3, <2>8, CallSettles
  <1>5. CASE /\ SpanRead(e) /\ flows[e].kind \in {"cursor_rejected", "engine_contract"}
             /\ CallEnds(fails)
    <2>1. PICK v : v = fails
      OBVIOUS
    <2>2. v.kind = "internal" /\ v = VerdictAt(e, resident, evictions, flows)
      BY <1>5, <2>1 DEF Refuse, VerdictAt, SpanRead
    <2>3. Judged("mcp", Judgement(call, v, evictions, moves), resident, evictions, moves, flows)
      BY <1>1, <1>2, <2>2, JudgedResolved
    <2> QED
      BY <1>1, <1>5, <2>1, <2>3, CallSettles
  <1>6. CASE call' = Idle /\ UNCHANGED judged
    <2>1. JudgedInv'
      BY <1>1, <1>2, <1>6, JudgedStill
    <2> QED
      BY <1>1, <1>6, <2>1, CallOnward
  <1> QED
    BY <1>3, <1>4, <1>5, <1>6 DEF RunFlow

LEMMA InvestigateTraceHttpSurface ==
    ASSUME SurfaceInv, InvestigateTraceHttp
    PROVE  SurfaceInv'
  <1>1. post = Idle /\ UNCHANGED <<storeVars, given, mcpVars>>
    BY DEF InvestigateTraceHttp
  <1>2. evictions \in Nat /\ moves \in Nat /\ JudgedInv
    BY DEF SurfaceInv
  <1>3. PICK body \in bodies :
          \/ post' = post /\ judged' = Settled("http", Begun(body), Refuse("draining", "503"))
          \/ post' = post /\ judged' = Settled("http", Begun(body), Refuse("too_large", "413"))
          \/ post' = Begun(body) /\ judged' = judged
    BY DEF InvestigateTraceHttp
  <1>4. PICK x : x = Begun(body)
    OBVIOUS
  <1>5. x.pc = "begun" /\ Holding("http", x, resident, evictions, moves)
    BY <1>2, <1>4, BegunIs, HoldsBegun
  <1>6. \A f, r : f \in {"draining", "too_large"} =>
          Judged("http", Judgement(x, Refuse(f, r), evictions, moves),
                 resident, evictions, moves, flows)
    BY <1>2, <1>5, JudgedRefused
  <1>7. \/ post' = Idle /\ \E r : \E f \in {"draining", "too_large"} :
                             judged' = Settled("http", x, Refuse(f, r))
        \/ post' = x /\ judged' = judged
    BY <1>1, <1>3, <1>4
  <1>8. JudgedInv'
    BY <1>1, <1>2, <1>6, <1>7, Settling, JudgedStill
  <1> QED
    BY <1>1, <1>5, <1>7, <1>8, PostOnward

LEMMA ReadBodySurface ==
    ASSUME SurfaceInv, ReadBody
    PROVE  SurfaceInv'
  <1>1. /\ post.pc = "begun" /\ post # Idle
        /\ UNCHANGED <<storeVars, given, mcpVars>>
    BY DEF ReadBody, Idle
  <1>2. /\ Holding("http", post, resident, evictions, moves) /\ IsExchange(post)
        /\ evictions \in Nat /\ moves \in Nat /\ JudgedInv
    BY <1>1 DEF SurfaceInv, Holding
  <1>3. ASSUME NEW f \in {"timeout", "unreadable", "parse"}, NEW r, PostEnds(Refuse(f, r))
        PROVE  SurfaceInv'
    <2>1. Judged("http", Judgement(post, Refuse(f, r), evictions, moves),
                 resident, evictions, moves, flows)
      BY <1>1, <1>2, JudgedRefused
    <2> QED
      BY <1>1, <1>3, <2>1, PostSettles
  <1>4. CASE /\ post' = Naming(post, ParseSubjectHttp(post.request).entity, "admit")
             /\ UNCHANGED judged
    <2>1. PICK e : e = ParseSubjectHttp(post.request).entity
      OBVIOUS
    <2>2. Onward(post, post') /\ post'.pc = "admit" /\ post'.entity = e
      BY <1>2, <1>4, <2>1, Names
    <2>3. e = Named("http", post.request)
      BY <2>1 DEF Named
    <2>4. Holding("http", post', resident, evictions, moves)
      BY <1>2, <2>2, <2>3, HoldsOnward
    <2>5. JudgedInv'
      BY <1>1, <1>2, <1>4, JudgedStill
    <2> QED
      BY <1>1, <2>4, <2>5, PostOnward
  <1>5. \/ \E r : \E f \in {"timeout", "unreadable", "parse"} : PostEnds(Refuse(f, r))
        \/ /\ post' = Naming(post, ParseSubjectHttp(post.request).entity, "admit")
           /\ UNCHANGED judged
    BY DEF ReadBody, Naming
  <1> QED
    BY <1>3, <1>4, <1>5

LEMMA HttpFlowAdmitsSurface ==
    ASSUME SurfaceInv, HttpFlowAdmits
    PROVE  SurfaceInv'
  <1>1. /\ post.pc = "admit" /\ post # Idle
        /\ UNCHANGED <<storeVars, given, mcpVars, judged>>
    BY DEF HttpFlowAdmits, Idle
  <1>2. /\ Holding("http", post, resident, evictions, moves) /\ IsExchange(post)
        /\ evictions \in Nat /\ moves \in Nat /\ JudgedInv
    BY <1>1 DEF SurfaceInv, Holding
  <1>3. PICK s : s = StatsAt(resident, evictions)
    OBVIOUS
  <1>4. post' = Admitting(post, s)
    BY <1>3 DEF HttpFlowAdmits, Admitting, Stats, StatsAt
  <1>5. /\ Onward(post, post') /\ post'.pc = "resolve" /\ post'.entity = post.entity
        /\ post'.stats = s
    BY <1>2, <1>4, Admits
  <1>6. Holding("http", post', resident, evictions, moves)
    BY <1>1, <1>2, <1>3, <1>5, HoldsOnward
  <1>7. JudgedInv'
    BY <1>1, <1>2, JudgedStill
  <1> QED
    BY <1>1, <1>6, <1>7, PostOnward

LEMMA HttpFlowSurface ==
    ASSUME SurfaceInv, HttpFlow
    PROVE  SurfaceInv'
  <1>1. /\ post.pc = "resolve" /\ post # Idle
        /\ UNCHANGED <<storeVars, given, mcpVars>>
    BY DEF HttpFlow, Idle
  <1>2. /\ Holding("http", post, resident, evictions, moves)
        /\ evictions \in Nat /\ moves \in Nat /\ JudgedInv /\ flows \in Flows
    BY <1>1 DEF SurfaceInv
  <1> DEFINE e == post.entity
             r == RenderInvestigation(Envelope(flows[e], HttpBudget, post.stats))
  <1>3. PICK v : v = IF ~SpanRead(e) THEN Unresolved(EntityText(e))
                     ELSE IF flows[e].kind = "envelope" THEN Answer(r)
                     ELSE Refuse("internal", flows[e].kind)
    OBVIOUS
  <1>4. PostEnds(v)
    BY <1>3 DEF HttpFlow
  <1>5. CASE ~SpanRead(e)
    <2>1. v.kind = "unresolved" /\ v.subject = EntityText(e) /\ e \notin Spans \cap resident
          /\ v = VerdictAt(e, resident, evictions, flows)
      BY <1>3, <1>5 DEF Unresolved, SpanRead, VerdictAt
    <2>2. Judged("http", Judgement(post, v, evictions, moves), resident, evictions, moves, flows)
      BY <1>1, <1>2, <2>1, JudgedResolved
    <2> QED
      BY <1>1, <1>4, <2>2, PostSettles
  <1>6. CASE SpanRead(e) /\ flows[e].kind = "envelope"
    <2>1. PICK s : s = r
      OBVIOUS
    <2>2. e \in Spans /\ e \in Spans \cap resident
      BY <1>6 DEF SpanRead
    <2>3. ParseEntity(s.subject.requested.root_span) = Ok(e)
          /\ s.limits.eviction.total_evictions = post.stats.total_evictions
      <3>1. flows[e].kind = "envelope" /\ flows \in Flows
        BY <1>2, <1>6
      <3>2. s = RenderInvestigation(Envelope(flows[e], HttpBudget, post.stats))
        BY <2>1
      <3> HIDE DEF r, e
      <3> QED
        BY <2>2, <3>1, <3>2, AnswerSays
    <2>4. v.kind = "answer" /\ v.answer = s
      BY <1>3, <1>6, <2>1 DEF Answer
    <2>5. post.stats = StatsAt(resident, evictions) => v = VerdictAt(e, resident, evictions, flows)
      BY <1>3, <1>6, <2>2 DEF VerdictAt
    <2>6. Judged("http", Judgement(post, v, evictions, moves), resident, evictions, moves, flows)
      <3> HIDE DEF r
      <3> QED
        BY <1>1, <1>2, <2>2, <2>3, <2>4, <2>5, JudgedResolved
    <2> QED
      BY <1>1, <1>4, <2>6, PostSettles
  <1>7. CASE SpanRead(e) /\ flows[e].kind # "envelope"
    <2>1. v.kind = "internal" /\ v = VerdictAt(e, resident, evictions, flows)
      BY <1>3, <1>7 DEF Refuse, VerdictAt, SpanRead
    <2>2. Judged("http", Judgement(post, v, evictions, moves), resident, evictions, moves, flows)
      BY <1>1, <1>2, <2>1, JudgedResolved
    <2> QED
      BY <1>1, <1>4, <2>2, PostSettles
  <1> QED
    BY <1>5, <1>6, <1>7

LEMMA SurfaceStep ==
    ASSUME SurfaceInv, [Next]_vars
    PROVE  SurfaceInv'
  <1>1. CASE UNCHANGED <<resident, evictions, moves, given, httpVars, judged>> /\ call' \in {call, Idle}
    BY <1>1 DEF SurfaceInv, JudgedInv, Finished, Agreed, given, httpVars
  <1>2. BeginDrain \/ Reply \/ UNCHANGED vars =>
          /\ UNCHANGED <<resident, evictions, moves, given, httpVars, judged>>
          /\ call' \in {call, Idle}
    BY DEF BeginDrain, Reply, vars, storeVars, mcpVars
  <1> QED
    BY <1>1, <1>2, StoreMovesSurface, ServeSurface, InvestigateLogSurface,
       InvestigateMetricSurface, RunFlowAdmitsSurface, RunFlowSurface,
       InvestigateTraceHttpSurface, ReadBodySurface, HttpFlowAdmitsSurface, HttpFlowSurface
       DEF Next

LEMMA SurfaceHolds == Spec => []SurfaceInv
  <1>1. SurfaceInv /\ [Next]_vars => SurfaceInv'
    BY SurfaceStep
  <1> QED
    BY <1>1, SurfaceInit, PTL DEF Spec

(* However the store moves between the reads of an exchange, an answer is    *)
(* about a span resident during it that the request named, or that a log it  *)
(* named, resident too, carries; the answer names that span and counts the   *)
(* evictions of a time within the exchange; a refusal for want of a record   *)
(* names one that was missing at some time of the exchange (tools.rs:        *)
(* investigate_log, run_flow; investigation_http.rs: investigate_trace_http).*)
THEOREM NothingIsFabricated == Spec => []NothingFabricated
  <1>1. SurfaceInv => NothingFabricated
    BY DEF SurfaceInv, JudgedInv, Judged, Fair, NothingFabricated
  <1> QED
    BY <1>1, SurfaceHolds, PTL

(* Where the runtime's payload ceiling is the MCP adapter's own, the two     *)
(* surfaces end an investigation of one span over one state of the store in  *)
(* the same verdict, field for field, though each has renderers and parsers  *)
(* of its own and one session and one endpoint run beside each other.        *)
(* Whatever the ceilings, they read every posted object to the same subject  *)
(* or the same refusal; JSON that is no object both refuse, in words of      *)
(* their own (mcp/src/lib.rs; render.rs; tools.rs; investigation_http.rs).   *)
THEOREM SurfacesAlwaysAgree ==
    PageMaxBytes = PayloadCeiling => (Spec => []SurfacesAgree)
  <1> SUFFICES ASSUME PageMaxBytes = PayloadCeiling
               PROVE  Spec => []SurfacesAgree
    OBVIOUS
  <1>1. \A body : body.json /\ body.arguments.object =>
                      ParseSubject(body.arguments, "root_span") = ParseSubjectHttp(body)
    BY McpParses DEF ParseSubject, ParseSubjectHttp
  <1>2. \A body : body.json /\ ~body.arguments.object =>
          /\ ParseSubject(body.arguments, "root_span").refusal = "not_object"
          /\ ParseSubjectHttp(body).refusal = "keyword"
    BY DEF ParseSubject, ParseSubjectHttp, Err
  <1>3. "not_object" # None /\ "keyword" # None
    BY SurfaceAssumption
  <1>4. SurfaceInv => SurfacesAgree
    BY <1>1, <1>2, <1>3 DEF SurfaceInv, JudgedInv, Agreed, SurfacesAgree
  <1> QED
    BY <1>4, SurfaceHolds, PTL
=============================================================================
