----------------------------- MODULE EdgeProofs -----------------------------
(***************************************************************************)
(* Proofs about the transport edge: its types, its two balances and what   *)
(* its reads are covered by, for any number of sockets and requests, any   *)
(* ceilings and any shapes of request.                                     *)
(***************************************************************************)
EXTENDS TransportEdge, Collections

Tasks == [pc: Pcs, shape: Shapes \cup {None}, on: Conns \cup {None}, seen: Nat,
          charge: Nat, buffered: Nat, late: BOOLEAN, answer: Answers]

Reading == {"reading", "admitting", "flow"}

(* What a request's place in its handler says of its charge and its buffer.  *)
(* An uncharged request reaches the handler gate only to be turned away: the *)
(* drain has begun, or its declared length is over the ceiling.              *)
TaskOK(t) ==
    /\ t.pc \in {"routed", "acquiring", "handler"} \cup Reading => t.shape \in Shapes
    /\ t.pc \in {"unsent", "routed", "acquiring", "done"} => t.charge = 0
    /\ t.pc \notin Reading => t.buffered = 0
    /\ t.pc \in Reading => /\ t.charge = Charge(t.shape)
                           /\ t.buffered <= t.shape.sent
                           /\ t.buffered <= ReadLimit(t.shape)
    /\ t.pc = "handler" => \/ t.charge = Charge(t.shape)
                           \/ t.charge = 0 /\ (draining \/ DeclaredOverCeiling(t.shape))
    /\ t.late => /\ draining
                 /\ t.pc \in {"routed", "handler", "done"}
                 /\ t.charge = 0
                 /\ t.answer \in {None, "unavailable"}

AcceptTypes ==
    /\ draining \in BOOLEAN /\ errors \in 0..MaxAcceptErrors
    /\ listener \in {"waiting", "holding", "backoff", "stopped"}
    /\ conn \in [Conns -> {"new", "backlog", "open", "closed"}]

TasksOK == \A r \in Requests : TaskOK(req[r])

(* The inductive invariant.                                                  *)
EdgeInv == TypeOK /\ TasksOK /\ ChargesBalance /\ PermitsBalance

(* The charge of a request in its read covers what it may buffer.            *)
LEMMA ChargeCovers ==
    ASSUME NEW s \in Shapes, NEW n \in Nat, n <= s.sent, n <= ReadLimit(s)
    PROVE  Charge(s) \in Nat /\ ReadLimit(s) \in Nat /\ n <= Charge(s)
  <1>1. /\ s \in [via: Routes, typed: BOOLEAN, declared: Nat \cup {None}, sent: Nat]
        /\ s.declared # None => s.sent <= s.declared
    BY EdgeAssumption
  <1>2. PayloadCeiling \in Nat /\ Slack \in Nat
    BY EdgeAssumption
  <1> QED
    BY <1>1, <1>2 DEF Charge, ReadLimit

(* The charge is a number.                                                   *)
LEMMA ChargeNat ==
    ASSUME NEW s \in Shapes
    PROVE  Charge(s) \in Nat
  <1>1. s \in [via: Routes, typed: BOOLEAN, declared: Nat \cup {None}, sent: Nat]
    BY EdgeAssumption
  <1>2. PayloadCeiling \in Nat /\ Slack \in Nat
    BY EdgeAssumption
  <1> QED
    BY <1>1, <1>2 DEF Charge, ReadLimit

(* A task of the types and of TaskOK has read no byte it was not charged for *)
(* and none after the drain.                                                 *)
LEMMA ReadsFollow == TypeOK /\ TasksOK => ReadsCovered
  <1> SUFFICES ASSUME TypeOK, TasksOK, NEW r \in Requests
               PROVE  /\ req[r].buffered <= req[r].charge
                      /\ req[r].late => /\ req[r].buffered = 0 /\ req[r].charge = 0
                                        /\ req[r].answer \in {None, "unavailable"}
    BY DEF ReadsCovered, BuffersCovered, ClosingFirst
  <1> DEFINE t == req[r]
  <1>1. t \in Tasks /\ TaskOK(t)
    BY DEF TypeOK, Tasks, TasksOK
  <1> HIDE DEF t
  <1>2. t.buffered <= t.charge
    <2>1. CASE t.pc \in Reading
      BY <1>1, <2>1, ChargeCovers DEF TaskOK, Tasks, Reading
    <2>2. CASE t.pc \notin Reading
      BY <1>1, <2>2 DEF TaskOK, Tasks
    <2> QED
      BY <2>1, <2>2
  <1>3. t.late => t.buffered = 0 /\ t.charge = 0 /\ t.answer \in {None, "unavailable"}
    BY <1>1 DEF TaskOK, Reading
  <1> QED
    BY <1>2, <1>3 DEF t

(* The invariant holds before the first socket connects.                     *)
LEMMA EdgeInit == Init => EdgeInv
  <1> SUFFICES ASSUME Init PROVE EdgeInv
    OBVIOUS
  <1>1. TypeOK
    <2>1. Unsent \in Tasks
      BY DEF Unsent, Tasks, Pcs, Answers
    <2>2. req \in [Requests -> Tasks]
      BY <2>1 DEF Init
    <2>3. draining \in BOOLEAN
      BY Zenon DEF Init
    <2>4. conn \in [Conns -> {"new", "backlog", "open", "closed"}]
      BY DEF Init
    <2>5. /\ permits \in 0..MaxConnections /\ errors \in 0..MaxAcceptErrors
          /\ in_flight \in 0..BodyCeiling /\ listener = "waiting"
      BY EdgeAssumption DEF Init
    <2> QED
      BY <2>2, <2>3, <2>4, <2>5 DEF TypeOK, Tasks
  <1>2. TasksOK
    BY DEF Init, TasksOK, TaskOK, Unsent, Reading
  <1>3. ChargesBalance
    <2> DEFINE g == [r \in Requests |-> req[r].charge]
    <2>1. \A r \in Requests : g[r] = 0
      BY DEF Init, Unsent
    <2>2. SumFunctionOnSet(g, Requests) = 0
      BY <2>1, EdgeAssumption, TotalZero
    <2> QED
      BY <2>2, EdgeAssumption DEF ChargesBalance, SumFunction, Init
  <1>4. PermitsBalance
    <2>1. Open = {}
      BY DEF Open, Init
    <2> QED
      BY <2>1, FS_EmptySet, EdgeAssumption DEF PermitsBalance, Init
  <1> QED
    BY <1>1, <1>2, <1>3, <1>4 DEF EdgeInv

(* A request's step that leaves its task well formed and moves the counter   *)
(* by exactly what the task's charge moved keeps the invariant.              *)
LEMMA TaskMoves ==
    ASSUME EdgeInv, NEW r \in Requests, NEW t \in Tasks, TaskOK(t),
           Becomes(r, t), UnchangedAround,
           in_flight' = in_flight - req[r].charge + t.charge,
           in_flight' <= BodyCeiling
    PROVE  EdgeInv'
  <1> DEFINE g == [q \in Requests |-> req[q].charge]
             k == [q \in Requests |-> req'[q].charge]
  <1> USE DEF EdgeInv
  <1>1. /\ req \in [Requests -> Tasks] /\ req' \in [Requests -> Tasks]
        /\ req'[r] = t /\ \A q \in Requests \ {r} : req'[q] = req[q]
    BY DEF TypeOK, Tasks, Becomes
  <1>2. /\ \A q \in Requests : g[q] \in Nat /\ k[q] \in Nat
        /\ \A q \in Requests \ {r} : g[q] = k[q]
        /\ g[r] = req[r].charge /\ k[r] = t.charge
    BY <1>1 DEF Tasks
  <1>3. IsFiniteSet(Requests)
    BY EdgeAssumption
  <1>4. SumFunctionOnSet(k, Requests) = SumFunctionOnSet(g, Requests) - g[r] + k[r]
    <2> HIDE DEF g, k
    <2> QED
      BY <1>2, <1>3, TotalChange
  <1>5. in_flight = SumFunctionOnSet(g, Requests)
    BY DEF ChargesBalance, SumFunction
  <1>6. in_flight' = SumFunctionOnSet(k, Requests)
    BY <1>2, <1>4, <1>5
  <1>7. ChargesBalance'
    BY <1>6 DEF ChargesBalance, SumFunction
  <1>8. in_flight' \in 0..BodyCeiling
    <2>1. SumFunctionOnSet(k, Requests) \in Nat
      <3> HIDE DEF k
      <3> QED
        BY <1>2, <1>3, TotalNat
    <2> QED
      BY <1>6, <2>1, EdgeAssumption
  <1>9. TypeOK'
    BY <1>1, <1>8 DEF TypeOK, UnchangedAround, acceptVars, Tasks
  <1>10. TasksOK'
    BY <1>1 DEF TasksOK, TaskOK, UnchangedAround
  <1>11. PermitsBalance'
    BY DEF PermitsBalance, Open, UnchangedAround, acceptVars
  <1> QED
    BY <1>7, <1>9, <1>10, <1>11

(* A task that is answered keeps its charge for the guard to release.        *)
LEMMA AnsweredTask ==
    ASSUME NEW t \in Tasks, TaskOK(t), NEW a \in Answers,
           t.late => a = "unavailable"
    PROVE  /\ Answered(t, a) \in Tasks /\ TaskOK(Answered(t, a))
           /\ Answered(t, a).charge = t.charge
  <1> DEFINE u == Answered(t, a)
  <1>1. t.charge \in Nat /\ t.late \in BOOLEAN
    BY DEF Tasks
  <1>2. /\ u.pc = (IF t.charge = 0 THEN "done" ELSE "releasing")
        /\ u.charge = t.charge /\ u.late = t.late /\ u.answer = a /\ u.buffered = 0
    BY DEF Answered, Unsent
  <1>3. u \in Tasks
    BY <1>1 DEF Answered, Unsent, Tasks, Pcs
  <1>4. t.late => draining /\ t.charge = 0
    BY DEF TaskOK
  <1>5. TaskOK(u)
    <2> HIDE DEF u
    <2> QED
      BY <1>2, <1>4 DEF TaskOK, Reading
  <1> QED
    BY <1>2, <1>3, <1>5

(* Every step of a request's task moves the counter with its charge.         *)
LEMMA TaskStep ==
    ASSUME EdgeInv, NEW r \in Requests,
           \/ Serve(r) \/ Arrive(r) \/ ReadSome(r) \/ ReadEnds(r) \/ ReadOverflows(r)
           \/ ReadFails(r) \/ ReadTimeout(r) \/ Dropped(r)
    PROVE  EdgeInv'
  <1> DEFINE t == req[r]
  <1>0. t \in Tasks /\ TaskOK(t) /\ in_flight \in Nat /\ in_flight <= BodyCeiling
    BY EdgeAssumption DEF EdgeInv, TypeOK, Tasks, TasksOK
  <1>m. ASSUME NEW u \in Tasks, TaskOK(u), Becomes(r, u), UnchangedAround,
               UNCHANGED in_flight, u.charge = t.charge
        PROVE  EdgeInv'
    BY <1>0, <1>m, TaskMoves DEF Tasks
  <1>a. ASSUME NEW a \in Answers, Becomes(r, Answered(t, a)), UnchangedAround,
               UNCHANGED in_flight, t.late => a = "unavailable"
        PROVE  EdgeInv'
    <2>1. /\ Answered(t, a) \in Tasks /\ TaskOK(Answered(t, a))
          /\ Answered(t, a).charge = t.charge
      BY <1>0, <1>a, AnsweredTask
    <2> QED
      BY <1>a, <1>m, <2>1
  <1>o. "other" \in Answers /\ "unavailable" \in Answers
    BY DEF Answers
  <1>l. t.late => draining /\ t.pc \in {"routed", "handler", "done"}
    BY <1>0 DEF TaskOK
  <1>1. CASE Arrive(r)
    <2>1. PICK s \in Shapes, c \in Conns :
            /\ At(r, "unsent")
            /\ Becomes(r, [Unsent EXCEPT !.pc = "routed", !.shape = s, !.on = c,
                                         !.late = draining])
            /\ UNCHANGED in_flight /\ UnchangedAround
      BY <1>1 DEF Arrive
    <2> DEFINE u == [Unsent EXCEPT !.pc = "routed", !.shape = s, !.on = c, !.late = draining]
    <2>2. u \in Tasks /\ u.charge = 0 /\ u.shape = s /\ u.pc = "routed" /\ u.buffered = 0
          /\ u.late = draining /\ u.answer = None
      BY DEF Unsent, Tasks, Pcs, Answers, EdgeInv, TypeOK
    <2>3. TaskOK(u) /\ t.charge = 0
      BY <1>0, <2>1, <2>2 DEF TaskOK, At, Reading
    <2> QED
      BY <1>m, <2>1, <2>2, <2>3
  <1>2. CASE GuardHttp(r)
    <2>1. CASE draining /\ Becomes(r, [t EXCEPT !.pc = "handler"])
      <3>1. [t EXCEPT !.pc = "handler"] \in Tasks /\ TaskOK([t EXCEPT !.pc = "handler"])
            /\ [t EXCEPT !.pc = "handler"].charge = t.charge
        BY <1>0, <1>2, <2>1 DEF Tasks, TaskOK, GuardHttp, At, Reading, Pcs
      <3> QED
        BY <1>2, <2>1, <3>1, <1>m DEF GuardHttp
    <2>2. CASE ~draining /\ Becomes(r, Answered(t, "other"))
      BY <1>2, <1>a, <1>o, <1>l, <2>2 DEF GuardHttp
    <2>3. CASE DeclaredOverCeiling(t.shape) /\ Becomes(r, [t EXCEPT !.pc = "handler"])
      <3>1. [t EXCEPT !.pc = "handler"] \in Tasks /\ TaskOK([t EXCEPT !.pc = "handler"])
            /\ [t EXCEPT !.pc = "handler"].charge = t.charge
        BY <1>0, <1>2, <2>3 DEF Tasks, TaskOK, GuardHttp, At, Reading, Pcs
      <3> QED
        BY <1>2, <2>3, <3>1, <1>m DEF GuardHttp
    <2>4. CASE ~draining /\ Becomes(r, LoadsBudget(t))
      <3>1. LoadsBudget(t) \in Tasks /\ TaskOK(LoadsBudget(t)) /\ LoadsBudget(t).charge = t.charge
        BY <1>0, <1>2, <2>4 DEF Tasks, TaskOK, GuardHttp, At, Reading, Pcs, LoadsBudget
      <3> QED
        BY <1>2, <2>4, <3>1, <1>m DEF GuardHttp
    <2> QED
      BY <1>2, <2>1, <2>2, <2>3, <2>4 DEF GuardHttp
  <1>3. CASE GuardGrpc(r)
    <2>1. CASE draining /\ Becomes(r, Answered(t, "unavailable"))
      BY <1>3, <1>a, <1>o, <2>1 DEF GuardGrpc
    <2>2. CASE ~draining /\ Becomes(r, Answered(t, "other"))
      BY <1>3, <1>a, <1>o, <1>l, <2>2 DEF GuardGrpc
    <2>3. CASE ~draining /\ Becomes(r, LoadsBudget(t))
      <3>1. LoadsBudget(t) \in Tasks /\ TaskOK(LoadsBudget(t)) /\ LoadsBudget(t).charge = t.charge
        BY <1>0, <1>3, <2>3 DEF Tasks, TaskOK, GuardGrpc, At, Reading, Pcs, LoadsBudget
      <3> QED
        BY <1>3, <2>3, <3>1, <1>m DEF GuardGrpc
    <2> QED
      BY <1>3, <2>1, <2>2, <2>3 DEF GuardGrpc
  <1>4. CASE TryAcquire(r)
    <2>0. /\ ~t.late /\ t.charge = 0 /\ t.buffered = 0 /\ t.shape \in Shapes
          /\ Charge(t.shape) \in Nat
      BY <1>0, <1>l, <1>4, ChargeNat DEF TryAcquire, At, TaskOK, Reading
    <2>1. CASE Becomes(r, Answered(t, "other")) /\ UNCHANGED in_flight
      BY <1>4, <1>a, <1>o, <2>0, <2>1 DEF TryAcquire
    <2>2. CASE /\ t.seen + Charge(t.shape) <= BodyCeiling /\ in_flight = t.seen
               /\ in_flight' = t.seen + Charge(t.shape)
               /\ Becomes(r, Acquired(t))
      <3>1. /\ Acquired(t) \in Tasks /\ Acquired(t).charge = Charge(t.shape)
            /\ Acquired(t).pc \in {"reading", "handler"} /\ Acquired(t).late = FALSE
            /\ Acquired(t).shape = t.shape /\ Acquired(t).buffered = 0
        BY <1>0, <2>0 DEF Acquired, Tasks, Pcs
      <3>2. TaskOK(Acquired(t))
        <4>1. 0 <= t.shape.sent /\ 0 <= ReadLimit(t.shape)
          BY <2>0, EdgeAssumption DEF ReadLimit
        <4> QED
          BY <2>0, <3>1, <4>1 DEF TaskOK, Reading
      <3>3. /\ in_flight' = in_flight - t.charge + Acquired(t).charge
            /\ in_flight' <= BodyCeiling
        BY <1>0, <2>0, <2>2, <3>1
      <3>4. UnchangedAround
        BY <1>4 DEF TryAcquire
      <3> QED
        BY <2>2, <3>1, <3>2, <3>3, <3>4, TaskMoves
    <2>3. CASE Becomes(r, [t EXCEPT !.seen = in_flight]) /\ UNCHANGED in_flight
      <3>1. /\ [t EXCEPT !.seen = in_flight] \in Tasks
            /\ TaskOK([t EXCEPT !.seen = in_flight])
            /\ [t EXCEPT !.seen = in_flight].charge = t.charge
        BY <1>0 DEF Tasks, TaskOK
      <3> QED
        BY <1>4, <1>m, <2>3, <3>1 DEF TryAcquire
    <2> QED
      BY <1>4, <2>1, <2>2, <2>3 DEF TryAcquire
  <1>5. CASE HandlerGate(r)
    <2>1. CASE draining /\ Becomes(r, Answered(t, "unavailable"))
      BY <1>5, <1>a, <1>o, <2>1 DEF HandlerGate
    <2>2. CASE ~draining /\ Becomes(r, Answered(t, "other"))
      BY <1>5, <1>a, <1>o, <1>l, <2>2 DEF HandlerGate
    <2>3. CASE /\ ~draining /\ ~DeclaredOverCeiling(t.shape)
               /\ Becomes(r, [t EXCEPT !.pc = "reading"])
      <3>1. /\ [t EXCEPT !.pc = "reading"] \in Tasks
            /\ [t EXCEPT !.pc = "reading"].charge = t.charge
        BY <1>0 DEF Tasks, Pcs
      <3>2. t.shape \in Shapes /\ t.charge = Charge(t.shape) /\ t.buffered = 0 /\ ~t.late
        BY <1>0, <1>5, <2>3 DEF HandlerGate, At, TaskOK, Reading
      <3>3. 0 <= t.shape.sent /\ 0 <= ReadLimit(t.shape)
        BY <3>2, EdgeAssumption DEF ReadLimit
      <3>4. TaskOK([t EXCEPT !.pc = "reading"])
        BY <1>0, <3>2, <3>3 DEF TaskOK, Tasks, Reading
      <3> QED
        BY <1>5, <2>3, <3>1, <3>4, <1>m DEF HandlerGate
    <2> QED
      BY <1>5, <2>1, <2>2, <2>3 DEF HandlerGate
  <1>6. CASE ReadSome(r)
    <2> DEFINE u == [t EXCEPT !.buffered = t.buffered + 1]
    <2>1. u \in Tasks /\ u.charge = t.charge /\ t.pc = "reading"
      BY <1>0, <1>6 DEF Tasks, ReadSome, At
    <2>2. t.shape \in Shapes /\ t.shape.sent \in Nat /\ ReadLimit(t.shape) \in Nat
      BY <1>0, <2>1, EdgeAssumption DEF TaskOK, Reading, ReadLimit
    <2>3. TaskOK(u)
      BY <1>0, <1>6, <2>1, <2>2 DEF TaskOK, Tasks, Reading, ReadSome
    <2> QED
      BY <1>6, <1>m, <2>1, <2>3 DEF ReadSome
  <1>7. CASE ReadEnds(r)
    <2> DEFINE u == [t EXCEPT !.pc = "admitting"]
    <2>1. u \in Tasks /\ u.charge = t.charge /\ t.pc = "reading"
      BY <1>0, <1>7 DEF Tasks, ReadEnds, At, Pcs
    <2>2. TaskOK(u)
      BY <1>0, <2>1 DEF TaskOK, Tasks, Reading
    <2> QED
      BY <1>7, <1>m, <2>1, <2>2 DEF ReadEnds
  <1>8. CASE ReadOverflows(r) \/ ReadFails(r) \/ ReadTimeout(r) \/ FlowReturns(r) \/ Dropped(r)
    <2>1. ~t.late
      BY <1>l, <1>8 DEF ReadOverflows, ReadFails, ReadTimeout, FlowReturns, Dropped, At
    <2> QED
      BY <1>8, <1>a, <1>o, <2>1 DEF ReadOverflows, ReadFails, ReadTimeout, FlowReturns, Dropped
  <1>9. CASE Admission(r)
    BY <1>9, <1>a, <1>o, <1>l DEF Admission
  <1>10. CASE ParseSubject(r)
    <2> DEFINE u == [t EXCEPT !.pc = "flow"]
    <2>1. u \in Tasks /\ u.charge = t.charge /\ t.pc = "admitting"
      BY <1>0, <1>10 DEF Tasks, ParseSubject, At, Pcs
    <2>2. TaskOK(u)
      BY <1>0, <2>1 DEF TaskOK, Tasks, Reading
    <2>3. ~t.late
      BY <1>l, <2>1
    <2> QED
      BY <1>10, <1>m, <1>a, <1>o, <2>1, <2>2, <2>3 DEF ParseSubject
  <1>11. CASE Release(r)
    <2> DEFINE u == [t EXCEPT !.pc = "done", !.charge = 0]
    <2>1. u \in Tasks /\ u.charge = 0 /\ t.pc = "releasing" /\ t.charge \in Nat
      BY <1>0, <1>11 DEF Tasks, Release, At, Pcs
    <2>2. TaskOK(u)
      BY <1>0, <2>1 DEF TaskOK, Tasks, Reading
    <2>3. in_flight' = in_flight - t.charge + u.charge /\ in_flight' <= BodyCeiling
      BY <1>0, <1>11, <2>1, EdgeAssumption DEF Release
    <2> QED
      BY <1>11, <2>1, <2>2, <2>3, TaskMoves DEF Release
  <1> QED
    BY <1>1, <1>2, <1>3, <1>4, <1>5, <1>6, <1>7, <1>8, <1>9, <1>10, <1>11 DEF Serve

(* A step of the accept loop and of the sockets moves the permits with the   *)
(* sockets they belong to.                                                   *)
LEMMA AcceptStep ==
    ASSUME EdgeInv,
           \/ AcceptLoop \/ AcceptFails \/ AcceptStops \/ BeginDrain
           \/ \E c \in Conns : Connect(c) \/ ConnectionEnds(c)
    PROVE  EdgeInv'
  <1> USE DEF EdgeInv
  <1>1. UNCHANGED <<in_flight, req>> /\ (draining => draining')
    BY DEF AcceptLoop, TakePermit, Accept, BackoffEnds, AcceptFails, AcceptStops, BeginDrain,
           Connect, ConnectionEnds
  <1>2. TasksOK' /\ ChargesBalance'
    <2>1. ChargesBalance'
      BY <1>1 DEF ChargesBalance
    <2>2. TasksOK'
      BY <1>1 DEF TasksOK, TaskOK
    <2> QED
      BY <2>1, <2>2
  <1>3. IsFiniteSet(Open) /\ Cardinality(Open) \in Nat
    <2>1. Open \in SUBSET Conns
      BY DEF Open
    <2>2. IsFiniteSet(Open)
      BY <2>1, EdgeAssumption, FS_Subset
    <2> QED
      BY <2>2, FS_CardinalityType
  <1>4. AcceptTypes' /\ permits' \in Int /\ PermitsBalance'
    <2>1. CASE TakePermit \/ BackoffEnds \/ AcceptStops \/ BeginDrain
      <3>1. Open' = Open
        BY <2>1 DEF Open, TakePermit, BackoffEnds, AcceptStops, BeginDrain, acceptVars
      <3>2. PermitsBalance' /\ permits' \in Int
        BY <1>3, <2>1, <3>1, EdgeAssumption DEF TypeOK, TakePermit, BackoffEnds, AcceptStops,
             BeginDrain, acceptVars, PermitsBalance
      <3>3. draining' \in BOOLEAN
        BY <2>1, Zenon DEF TypeOK, TakePermit, BackoffEnds, AcceptStops, BeginDrain
      <3> QED
        BY <2>1, <3>2, <3>3 DEF TypeOK, TakePermit, BackoffEnds, AcceptStops, BeginDrain,
             acceptVars, AcceptTypes
    <2>2. ASSUME NEW c \in Conns, Connect(c)
          PROVE  AcceptTypes' /\ permits' \in Int /\ PermitsBalance'
      <3>1. Open' = Open
        BY <2>2 DEF Open, Connect, TypeOK
      <3> QED
        BY <2>2, <3>1 DEF Connect, TypeOK, AcceptTypes, PermitsBalance
    <2>3. ASSUME NEW c \in Conns, Accept(c)
          PROVE  AcceptTypes' /\ permits' \in Int /\ PermitsBalance'
      <3>1. Open' = Open \cup {c} /\ c \notin Open
        BY <2>3 DEF Open, Accept, TypeOK
      <3>2. Cardinality(Open') = Cardinality(Open) + 1
        BY <1>3, <3>1, FS_AddElement
      <3>3. AcceptTypes' /\ permits' \in Int
        BY <2>3 DEF Accept, TypeOK, AcceptTypes
      <3>4. PermitsBalance'
        BY <1>3, <2>3, <3>2 DEF Accept, TypeOK, PermitsBalance
      <3> QED
        BY <3>3, <3>4
    <2>4. ASSUME NEW c \in Conns, ConnectionEnds(c)
          PROVE  AcceptTypes' /\ permits' \in Int /\ PermitsBalance'
      <3>1. Open' = Open \ {c} /\ c \in Open
        BY <2>4 DEF Open, ConnectionEnds, TypeOK
      <3>2. Cardinality(Open') = Cardinality(Open) - 1
        BY <1>3, <3>1, FS_RemoveElement
      <3>3. AcceptTypes' /\ permits' \in Int
        BY <2>4 DEF ConnectionEnds, TypeOK, AcceptTypes
      <3>4. PermitsBalance'
        BY <1>3, <2>4, <3>2, EdgeAssumption DEF ConnectionEnds, TypeOK, PermitsBalance
      <3> QED
        BY <3>3, <3>4
    <2>5. CASE AcceptFails
      <3>1. Open' = Open
        <4>1. CASE UNCHANGED conn
          BY <4>1 DEF Open
        <4>2. ASSUME NEW c \in Conns, conn[c] = "backlog", conn' = [conn EXCEPT ![c] = "closed"]
              PROVE  Open' = Open
          BY <4>2 DEF Open, TypeOK
        <4> QED
          BY <2>5, <4>1, <4>2 DEF AcceptFails
      <3>2. AcceptTypes' /\ permits' \in Int
        BY <2>5, EdgeAssumption DEF AcceptFails, TypeOK, AcceptTypes
      <3> QED
        BY <1>3, <2>5, <3>1, <3>2, EdgeAssumption DEF AcceptFails, TypeOK, PermitsBalance
    <2> QED
      BY <2>1, <2>2, <2>3, <2>4, <2>5 DEF AcceptLoop
  <1>5. Cardinality(Open)' \in Nat
    <2>1. Open' \in SUBSET Conns
      BY DEF Open
    <2>2. IsFiniteSet(Open')
      BY <2>1, EdgeAssumption, FS_Subset
    <2> QED
      BY <2>2, FS_CardinalityType
  <1>6. permits' <= MaxConnections
    BY <1>4, <1>5, EdgeAssumption DEF PermitsBalance
  <1>7. permits' >= 0
    BY EdgeAssumption DEF AcceptLoop, TakePermit, Accept, BackoffEnds, AcceptFails, AcceptStops,
         BeginDrain, acceptVars, Connect, ConnectionEnds, TypeOK
  <1>8. TypeOK'
    BY <1>1, <1>4, <1>6, <1>7, EdgeAssumption DEF TypeOK, AcceptTypes
  <1> QED
    BY <1>2, <1>4, <1>8

(* Every step of the edge keeps the invariant.                               *)
LEMMA EdgeNext == EdgeInv /\ [Next]_vars => EdgeInv'
  <1> SUFFICES ASSUME EdgeInv, [Next]_vars PROVE EdgeInv'
    OBVIOUS
  <1>1. CASE UNCHANGED vars
    BY <1>1 DEF vars, acceptVars, EdgeInv, TypeOK, TasksOK, TaskOK, ChargesBalance,
         PermitsBalance, Open
  <1>2. CASE Next
    BY <1>2, TaskStep, AcceptStep DEF Next
  <1> QED
    BY <1>1, <1>2

(* Type correctness of the edge: the counter stays within the aggregate      *)
(* ceiling and the free permits within max_connections.                      *)
THEOREM EdgeTypeCorrect == Spec => []TypeOK
  <1>1. EdgeInv => TypeOK
    BY DEF EdgeInv
  <1> QED
    BY <1>1, EdgeInit, EdgeNext, PTL DEF Spec

(* Under every interleaving of acquisitions, releases, drops and accepts the *)
(* body counter is the sum of what its holders charged, and free permits,    *)
(* open sockets and the accept loop's own permit make up max_connections.    *)
THEOREM EdgeBalanced == Spec => []EdgeBalances
  <1>1. EdgeInv => EdgeBalances
    BY DEF EdgeInv, EdgeBalances
  <1> QED
    BY <1>1, EdgeInit, EdgeNext, PTL DEF Spec

(* No request has buffered a byte beyond its charge, and one that arrived    *)
(* during the drain has buffered and charged nothing and heard only the      *)
(* closing answer.                                                           *)
THEOREM ReadsAreCovered == Spec => []ReadsCovered
  <1>1. EdgeInv => ReadsCovered
    BY ReadsFollow DEF EdgeInv
  <1> QED
    BY <1>1, EdgeInit, EdgeNext, PTL DEF Spec
=============================================================================
