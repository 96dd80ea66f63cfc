----------------------------- MODULE MCRuntime -----------------------------
(***************************************************************************)
(* Small instances of Runtime for TLC.                                     *)
(***************************************************************************)
EXTENDS Runtime, TLC

CONSTANTS h1, h2, S1, S2

Span(k, body, schema, gate) ==
    [kind |-> "span", key |-> k, stream |-> None, schema |-> schema,
     body |-> body, bytes |-> 1, gate |-> gate]
OversizedSpan(k) == [Span(k, "y", "A", "pass") EXCEPT !.bytes = 3]
Log(bytes) ==
    [kind |-> "log", key |-> None, stream |-> None, schema |-> "A",
     body |-> "x", bytes |-> bytes, gate |-> "pass"]
Point(k, s, body, schema, bytes) ==
    [kind |-> "point", key |-> k, stream |-> s, schema |-> schema,
     body |-> body, bytes |-> bytes, gate |-> "pass"]

Export(records) == [fate |-> "ok", records |-> records]
RefusedExport == [fate |-> "refused", records |-> <<>>]

HandlersSymmetry == Permutations({h1, h2})

-----------------------------------------------------------------------------
(* Spans and points in one export: re-deliveries, a span that conflicts or,  *)
(* alone, is too large for the store, two points of one stream, a point of   *)
(* a second stream, a payload that conflicts, another schema_url, a refused  *)
(* span.                                                                     *)
MixedExports ==
    {Export(<<Span(1, "x", "A", "pass"), Point("p", S1, "x", "A", 1)>>),
     Export(<<OversizedSpan(1), Point("q", S2, "y", "A", 1)>>),
     Export(<<Span(1, "x", "B", "refused"), Point("q", S1, "x", "B", 1)>>)}

(* One stream, nothing oversized: what the default ceilings let through.     *)
StreamExports == {Export(<<Point("p", S1, "x", "A", 1)>>),
                  Export(<<Point("q", S1, "x", "A", 1)>>),
                  Export(<<Point("q", S1, "x", "B", 1)>>)}

(* The drain: more records than the queue holds, and a refused export.       *)
DrainExports == {Export(<<Log(1), Log(1)>>), Export(<<Span(1, "x", "A", "pass")>>),
                 RefusedExport}

WiresOf(exports) == UNION {{x.records[i] : i \in DOMAIN x.records} : x \in exports}
MixedWires == WiresOf(MixedExports)
StreamWires == WiresOf(StreamExports)
DrainWires == WiresOf(DrainExports)
AllStreams == {S1, S2}
StreamSizes == [s \in AllStreams |-> 1]
NoSizes == [s \in {} |-> 0]
=============================================================================
