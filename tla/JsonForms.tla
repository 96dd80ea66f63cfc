------------------------------ MODULE JsonForms ------------------------------
(***************************************************************************)
(* What the two surfaces share of JSON and of the telemetry model's types, *)
(* and nothing of their own: the forms in which Rendering and McpRendering *)
(* state what each surface writes and reads.                               *)
(*                                                                         *)
(* An object is a record of its fields, an array a sequence, null is Null. *)
(* A byte is below Digits * Digits and has two hex digits; a text is the   *)
(* sequence of its characters, of which those from Digits on are no hex    *)
(* digits.  Names are tokens.                                              *)
(***************************************************************************)
EXTENDS EnvelopeParts, Integers

CONSTANTS
    Null,        \* the JSON null
    Digits,      \* the hex digits
    TraceBytes,  \* TraceId::LENGTH
    SpanBytes    \* SpanId::LENGTH

ASSUME RenderingAssumption ==
    Digits \in Nat \ {0} /\ TraceBytes \in Nat \ {0} /\ SpanBytes \in Nat \ {0}

(* Option::map and the null of an absent value.                            *)
OrNull(x, rendered) == IF x = None THEN Null ELSE rendered

(* iter().map().collect()                                                  *)
Each(Render(_), items) == [i \in DOMAIN items |-> Render(items[i])]

Has(object, field) == field \in DOMAIN object

(* EntityId.                                                               *)
SpanId(trace_id, span_id) == [trace_id |-> trace_id, span_id |-> span_id, serial |-> None]
AssignedId(serial) == [trace_id |-> None, span_id |-> None, serial |-> serial]

(* A parse that may fail: the entity, or the refusal.                      *)
Ok(entity) == [entity |-> entity, refusal |-> None]
Err(reason) == [entity |-> None, refusal |-> reason]
=============================================================================
