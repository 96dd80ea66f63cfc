---------------------------- MODULE TransportEdge ----------------------------
(***************************************************************************)
(* The transport edge (crates/server/src/listener.rs, transport_guard.rs,  *)
(* otlp_http.rs, otlp_grpc.rs, investigation_http.rs): what stands between *)
(* a socket and admission.  The accept loop holds one permit per           *)
(* connection; every request that buffers a body charges one aggregate     *)
(* budget, a lock-free counter shared by three kinds of route, before the  *)
(* first byte and until its handler is done.                               *)
(*                                                                         *)
(* A request is a task: it can be dropped, by the end of its connection,   *)
(* only where it awaits, while it reads and while its investigation runs.  *)
(* Admission itself is Runtime's subject; here it is the signal it         *)
(* answers.  Hyper, tonic and tokio are external: a body never exceeds the *)
(* length its request declared, and a deadline that passes is noticed.     *)
(***************************************************************************)
EXTENDS Integers, FiniteSets, FiniteSetsExt

CONSTANTS
    None,
    Conns,           \* sockets a client may open
    Requests,        \* requests clients may send
    Shapes,          \* what a request may be: [via, typed, declared, sent]
    MaxConnections,  \* the accept seam's permits
    PayloadCeiling,  \* payload_ceiling_bytes
    Slack,           \* GRPC_DECODING_SLACK_BYTES
    BodyCeiling,     \* inflight_body_ceiling_bytes
    MaxAcceptErrors  \* bound: failed accepts

(* The routes that buffer a body.                                            *)
Routes == {"export", "investigation", "grpc"}

ASSUME EdgeAssumption ==
    /\ None \notin Conns \cup Nat
    /\ IsFiniteSet(Conns) /\ IsFiniteSet(Requests)
    /\ Shapes \subseteq [via: Routes, typed: BOOLEAN, declared: Nat \cup {None}, sent: Nat]
    /\ \A s \in Shapes : s.declared # None => s.sent <= s.declared
    /\ MaxConnections \in Nat \ {0} /\ MaxAcceptErrors \in Nat
    /\ PayloadCeiling \in Nat /\ Slack \in Nat /\ BodyCeiling \in Nat

VARIABLES
    draining,   \* the pipeline's draining flag
    permits,    \* free permits of the semaphore
    listener,   \* the accept loop: "waiting", "holding", "backoff", "stopped"
    errors,     \* failed accepts so far
    conn,       \* each socket: "new", "backlog", "open" or "closed"
    in_flight,  \* the budget's counter
    req         \* each request's task

acceptVars == <<permits, listener, errors, conn>>
vars == <<draining, acceptVars, in_flight, req>>

Pcs == {"unsent", "routed", "acquiring", "handler", "reading", "admitting",
        "flow", "releasing", "done"}

(* The wire answers the properties tell apart: the closing answer (503, gRPC *)
(* UNAVAILABLE) and any other end (400, 408, 413, 415, 429 and their gRPC    *)
(* siblings, what admission or the flow decided, a dropped task).            *)
Answers == {None, "unavailable", "other"}

Unsent == [pc |-> "unsent", shape |-> None, on |-> None, seen |-> 0, charge |-> 0,
           buffered |-> 0, late |-> FALSE, answer |-> None]

TypeOK ==
    /\ draining \in BOOLEAN
    /\ permits \in 0..MaxConnections
    /\ listener \in {"waiting", "holding", "backoff", "stopped"}
    /\ errors \in 0..MaxAcceptErrors
    /\ conn \in [Conns -> {"new", "backlog", "open", "closed"}]
    /\ in_flight \in 0..BodyCeiling
    /\ req \in [Requests -> [pc: Pcs, shape: Shapes \cup {None}, on: Conns \cup {None},
                             seen: Nat, charge: Nat, buffered: Nat,
                             late: BOOLEAN, answer: Answers]]

Init ==
    /\ draining = FALSE
    /\ permits = MaxConnections /\ listener = "waiting" /\ errors = 0
    /\ conn = [c \in Conns |-> "new"]
    /\ in_flight = 0
    /\ req = [r \in Requests |-> Unsent]

-----------------------------------------------------------------------------
(* The accept loop.                                                          *)

Connect(c) ==
    /\ conn[c] = "new"
    /\ conn' = [conn EXCEPT ![c] = "backlog"]
    /\ UNCHANGED <<draining, permits, listener, errors, in_flight, req>>

(* The permit comes before the kernel accept.                                *)
TakePermit ==
    /\ listener = "waiting"
    /\ permits > 0
    /\ permits' = permits - 1
    /\ listener' = "holding"
    /\ UNCHANGED <<draining, errors, conn, in_flight, req>>

(* The accepted stream carries the permit off; the loop starts over.         *)
Accept(c) ==
    /\ listener = "holding"
    /\ conn[c] = "backlog"
    /\ conn' = [conn EXCEPT ![c] = "open"]
    /\ listener' = "waiting"
    /\ UNCHANGED <<draining, permits, errors, in_flight, req>>

(* Fault: the failed attempt keeps its permit.                               *)
AcceptFailsHolding ==
    /\ listener = "holding"
    /\ errors < MaxAcceptErrors
    /\ errors' = errors + 1
    /\ \/ /\ listener' = "waiting"
          /\ \E c \in Conns : conn[c] = "backlog" /\ conn' = [conn EXCEPT ![c] = "closed"]
       \/ listener' = "backoff" /\ UNCHANGED conn
    /\ UNCHANGED <<draining, permits, in_flight, req>>

(* A failed attempt gives its permit back.  A transient error took the       *)
(* socket with it and is retried at once; any other backs off.               *)
AcceptFails ==
    /\ listener = "holding"
    /\ errors < MaxAcceptErrors
    /\ errors' = errors + 1
    /\ permits' = permits + 1
    /\ \/ /\ listener' = "waiting"
          /\ \E c \in Conns : conn[c] = "backlog" /\ conn' = [conn EXCEPT ![c] = "closed"]
       \/ listener' = "backoff" /\ UNCHANGED conn
    /\ UNCHANGED <<draining, in_flight, req>>

BackoffEnds ==
    /\ listener = "backoff"
    /\ listener' = "waiting"
    /\ UNCHANGED <<draining, permits, errors, conn, in_flight, req>>

(* A socket ends, by its client or by the server: its permit frees with it.  *)
ConnectionEnds(c) ==
    /\ conn[c] = "open"
    /\ conn' = [conn EXCEPT ![c] = "closed"]
    /\ permits' = permits + 1
    /\ UNCHANGED <<draining, listener, errors, in_flight, req>>

(* The stop's arrival; the accept loop is told afterwards.                   *)
BeginDrain ==
    /\ ~draining
    /\ draining' = TRUE
    /\ UNCHANGED <<acceptVars, in_flight, req>>

AcceptStops ==
    /\ draining /\ listener # "stopped"
    /\ listener' = "stopped"
    /\ permits' = IF listener = "holding" THEN permits + 1 ELSE permits
    /\ UNCHANGED <<draining, errors, conn, in_flight, req>>

-----------------------------------------------------------------------------
(* A request.                                                                *)

At(r, pc) == req[r].pc = pc
Becomes(r, next) == req' = [req EXCEPT ![r] = next]
UnchangedAround == UNCHANGED <<draining, acceptVars>>

(* The handler returns: its body is freed, then the guard's charge.          *)
Answered(t, answer) ==
    [Unsent EXCEPT !.pc = IF t.charge = 0 THEN "done" ELSE "releasing",
                   !.charge = t.charge, !.late = t.late, !.answer = answer]

ForeignType(s) == ~s.typed /\ s.via # "investigation"
DeclaredOverCeiling(s) == s.declared # None /\ s.declared > PayloadCeiling

(* What the bounded read may buffer.                                         *)
ReadLimit(s) == IF s.via = "grpc" THEN PayloadCeiling + Slack ELSE PayloadCeiling

(* declared_length_bounded; gRPC always charges its frame reader's worst     *)
(* case.                                                                     *)
Charge(s) ==
    IF s.via = "grpc" \/ s.declared = None \/ s.declared > ReadLimit(s)
    THEN ReadLimit(s) ELSE s.declared

Arrive(r) ==
    \E s \in Shapes, c \in Conns :
      /\ At(r, "unsent")
      /\ conn[c] = "open"
      /\ Becomes(r, [Unsent EXCEPT !.pc = "routed", !.shape = s, !.on = c,
                                   !.late = draining])
      /\ UNCHANGED in_flight /\ UnchangedAround

LoadsBudget(t) == [t EXCEPT !.pc = "acquiring", !.seen = in_flight]

(* The HTTP middleware before the budget: a draining or over-ceiling request *)
(* is left to the handler, uncharged.  What remains loads the counter.       *)
GuardHttp(r) ==
    LET t == req[r]
        s == t.shape
    IN  /\ At(r, "routed") /\ s.via # "grpc"
        /\ \/ /\ draining
              /\ Becomes(r, [t EXCEPT !.pc = "handler"])
           \/ /\ ~draining /\ ForeignType(s)
              /\ Becomes(r, Answered(t, "other"))
           \/ /\ ~draining /\ ~ForeignType(s) /\ DeclaredOverCeiling(s)
              /\ Becomes(r, [t EXCEPT !.pc = "handler"])
           \/ /\ ~draining /\ ~ForeignType(s) /\ ~DeclaredOverCeiling(s)
              /\ Becomes(r, LoadsBudget(t))
        /\ UNCHANGED in_flight /\ UnchangedAround

(* The gRPC services' own gates: closing first, then the content type.       *)
GuardGrpc(r) ==
    LET t == req[r]
    IN  /\ At(r, "routed") /\ t.shape.via = "grpc"
        /\ \/ draining /\ Becomes(r, Answered(t, "unavailable"))
           \/ ~draining /\ ForeignType(t.shape) /\ Becomes(r, Answered(t, "other"))
           \/ ~draining /\ ~ForeignType(t.shape) /\ Becomes(r, LoadsBudget(t))
        /\ UNCHANGED in_flight /\ UnchangedAround

Acquired(t) ==
    [t EXCEPT !.pc = IF t.shape.via = "grpc" THEN "reading" ELSE "handler",
              !.seen = 0, !.charge = Charge(t.shape)]

(* One turn of the compare-exchange loop.                                    *)
TryAcquire(r) ==
    LET t == req[r]
        next == t.seen + Charge(t.shape)
    IN  /\ At(r, "acquiring")
        /\ \/ /\ next > BodyCeiling
              /\ Becomes(r, Answered(t, "other"))
              /\ UNCHANGED in_flight
           \/ /\ next <= BodyCeiling /\ in_flight = t.seen
              /\ in_flight' = next
              /\ Becomes(r, Acquired(t))
           \/ /\ next <= BodyCeiling /\ in_flight # t.seen
              /\ Becomes(r, [t EXCEPT !.seen = in_flight])
              /\ UNCHANGED in_flight
        /\ UnchangedAround

(* Fault: the handler leaves the draining flag to the middleware.            *)
HandlerGateTrusting(r) ==
    /\ At(r, "handler")
    /\ \/ /\ DeclaredOverCeiling(req[r].shape)
          /\ Becomes(r, Answered(req[r], "other"))
       \/ /\ ~DeclaredOverCeiling(req[r].shape)
          /\ Becomes(r, [req[r] EXCEPT !.pc = "reading"])
    /\ UNCHANGED in_flight /\ UnchangedAround

(* The HTTP handlers repeat the gates: what reaches the read is what the     *)
(* middleware charged.                                                       *)
HandlerGate(r) ==
    LET t == req[r]
        s == t.shape
    IN  /\ At(r, "handler")
        /\ \/ /\ draining
              /\ Becomes(r, Answered(t, "unavailable"))
           \/ /\ ~draining /\ (ForeignType(s) \/ DeclaredOverCeiling(s))
              /\ Becomes(r, Answered(t, "other"))
           \/ /\ ~draining /\ ~ForeignType(s) /\ ~DeclaredOverCeiling(s)
              /\ Becomes(r, [t EXCEPT !.pc = "reading"])
        /\ UNCHANGED in_flight /\ UnchangedAround

(* A byte of the body arrives.                                               *)
ReadSome(r) ==
    LET t == req[r]
    IN  /\ At(r, "reading") /\ conn[t.on] = "open"
        /\ t.buffered < t.shape.sent /\ t.buffered < ReadLimit(t.shape)
        /\ Becomes(r, [t EXCEPT !.buffered = t.buffered + 1])
        /\ UNCHANGED in_flight /\ UnchangedAround

(* The body is complete.                                                     *)
ReadEnds(r) ==
    /\ At(r, "reading") /\ conn[req[r].on] = "open"
    /\ req[r].buffered = req[r].shape.sent
    /\ Becomes(r, [req[r] EXCEPT !.pc = "admitting"])
    /\ UNCHANGED in_flight /\ UnchangedAround

(* The body is longer than the read may buffer.                              *)
ReadOverflows(r) ==
    LET t == req[r]
    IN  /\ At(r, "reading") /\ conn[t.on] = "open"
        /\ t.buffered = ReadLimit(t.shape) /\ t.shape.sent > ReadLimit(t.shape)
        /\ Becomes(r, Answered(t, "other"))
        /\ UNCHANGED in_flight /\ UnchangedAround

(* The body breaks off: the client reset it, or its socket is gone.          *)
ReadFails(r) ==
    /\ At(r, "reading")
    /\ Becomes(r, Answered(req[r], "other"))
    /\ UNCHANGED in_flight /\ UnchangedAround

(* Fault: only the HTTP read has a deadline.                                 *)
ReadTimeoutHttp(r) ==
    /\ At(r, "reading") /\ req[r].shape.via # "grpc"
    /\ Becomes(r, Answered(req[r], "other"))
    /\ UNCHANGED in_flight /\ UnchangedAround

(* The per-request deadline, around the read and around the gRPC unary.      *)
ReadTimeout(r) ==
    /\ At(r, "reading")
    /\ Becomes(r, Answered(req[r], "other"))
    /\ UNCHANGED in_flight /\ UnchangedAround

(* The pipeline's signal: draining, or another (over the payload cap for a   *)
(* gRPC payload in the slack, malformed, saturated, admitted).               *)
Admission(r) ==
    /\ At(r, "admitting") /\ req[r].shape.via # "investigation"
    /\ \/ draining /\ Becomes(r, Answered(req[r], "unavailable"))
       \/ ~draining /\ Becomes(r, Answered(req[r], "other"))
    /\ UNCHANGED in_flight /\ UnchangedAround

(* The investigation's body names its subject, or does not parse.            *)
ParseSubject(r) ==
    /\ At(r, "admitting") /\ req[r].shape.via = "investigation"
    /\ \/ Becomes(r, [req[r] EXCEPT !.pc = "flow"])
       \/ Becomes(r, Answered(req[r], "other"))
    /\ UNCHANGED in_flight /\ UnchangedAround

(* The investigation returns from the blocking pool.                         *)
FlowReturns(r) ==
    /\ At(r, "flow")
    /\ Becomes(r, Answered(req[r], "other"))
    /\ UNCHANGED in_flight /\ UnchangedAround

(* The connection is gone and the awaiting task is dropped with its guard.   *)
Dropped(r) ==
    /\ At(r, "reading") \/ At(r, "flow")
    /\ conn[req[r].on] = "closed"
    /\ Becomes(r, Answered(req[r], "other"))
    /\ UNCHANGED in_flight /\ UnchangedAround

(* Fault: the guard releases a byte less than it holds.                      *)
ReleaseShort(r) ==
    /\ At(r, "releasing")
    /\ Becomes(r, [req[r] EXCEPT !.pc = "done", !.charge = 0])
    /\ in_flight' = in_flight - (req[r].charge - 1)
    /\ UnchangedAround

(* Drop for Acquired.                                                        *)
Release(r) ==
    /\ At(r, "releasing")
    /\ Becomes(r, [req[r] EXCEPT !.pc = "done", !.charge = 0])
    /\ in_flight' = in_flight - req[r].charge
    /\ UnchangedAround

-----------------------------------------------------------------------------
Serve(r) == \/ GuardHttp(r) \/ GuardGrpc(r) \/ TryAcquire(r) \/ HandlerGate(r)
            \/ Admission(r) \/ ParseSubject(r) \/ FlowReturns(r) \/ Release(r)
AcceptLoop == TakePermit \/ (\E c \in Conns : Accept(c)) \/ BackoffEnds

Next ==
    \/ AcceptLoop \/ AcceptFails \/ AcceptStops \/ BeginDrain
    \/ \E c \in Conns : Connect(c) \/ ConnectionEnds(c)
    \/ \E r \in Requests : \/ Serve(r) \/ Arrive(r) \/ ReadSome(r) \/ ReadEnds(r)
                           \/ ReadOverflows(r) \/ ReadFails(r) \/ ReadTimeout(r)
                           \/ Dropped(r)

Spec == Init /\ [][Next]_vars

(* Tasks that can run do, timers fire, the accept loop is polled; clients    *)
(* owe nothing.                                                              *)
FairSpec ==
    /\ Spec
    /\ WF_vars(AcceptLoop)
    /\ \A r \in Requests : WF_vars(Serve(r)) /\ WF_vars(ReadTimeout(r))

-----------------------------------------------------------------------------
(* Properties.                                                               *)

(* The lock-free counter is exactly what its holders charged, never above    *)
(* the ceiling, whatever acquisitions and releases interleave.               *)
ChargesBalance ==
    /\ in_flight <= BodyCeiling
    /\ in_flight = SumFunction([r \in Requests |-> req[r].charge])

(* "No body byte is buffered before the acquire", and no more than was       *)
(* charged: with ChargesBalance, the bytes buffered at the edge never exceed *)
(* the aggregate ceiling.                                                    *)
BuffersCovered == \A r \in Requests : req[r].buffered <= req[r].charge

(* "A request that arrives during drain is refused before its body is read": *)
(* it buffers and charges nothing and only ever hears the closing answer.    *)
ClosingFirst ==
    \A r \in Requests : req[r].late =>
      /\ req[r].buffered = 0 /\ req[r].charge = 0
      /\ req[r].answer \in {None, "unavailable"}

Open == {c \in Conns : conn[c] = "open"}

(* "Its permit frees exactly when that connection ends": no permit is lost   *)
(* or minted, so never more than max_connections sockets are served.         *)
PermitsBalance ==
    permits + Cardinality(Open) + (IF listener = "holding" THEN 1 ELSE 0) = MaxConnections

(* The two resources of the edge balance under every interleaving: body      *)
(* bytes and connection permits (transport_guard.rs, listener.rs).           *)
EdgeBalances == ChargesBalance /\ PermitsBalance

(* No body byte is read that was not charged for, and none at all of a       *)
(* request that came after the drain began, although middleware and handler  *)
(* look at the flag separately (otlp_http.rs: inflight_body_guard, export).  *)
ReadsCovered == BuffersCovered /\ ClosingFirst

(* A slow or silent client holds neither its task nor its charge for ever.   *)
EveryRequestEnds ==
    \A r \in Requests :
      (req[r].pc # "unsent") ~> (req[r].pc = "done" /\ req[r].charge = 0)

(* A socket in the backlog is accepted while the cap leaves room for it.     *)
AcceptProgress ==
    \A c \in Conns :
      (conn[c] = "backlog") ~>
        (conn[c] # "backlog" \/ Cardinality(Open) = MaxConnections \/ listener = "stopped")
=============================================================================
