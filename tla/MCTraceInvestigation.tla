------------------------ MODULE MCTraceInvestigation ------------------------
(***************************************************************************)
(* Small instances of TraceInvestigation for TLC.                          *)
(***************************************************************************)
EXTENDS TraceInvestigation

Blank == [kind |-> "span", entity |-> 0, trace |-> None, span |-> None, parent |-> None,
          resource |-> 1, start |-> 1, end |-> 1, links |-> <<>>]

(* One trace: a root span, its log, its child, a point with two exemplars of *)
(* the child, the root re-admitted as the child's child, a log of no span, a *)
(* span whose parent is missing, and a span without an identity of its own   *)
(* that ends before it starts.                                               *)
Story == <<
    [Blank EXCEPT !.entity = 1, !.trace = 1, !.span = 1, !.end = 3],
    [Blank EXCEPT !.kind = "log", !.entity = 11, !.trace = 1, !.span = 1],
    [Blank EXCEPT !.entity = 2, !.trace = 1, !.span = 2, !.parent = 1, !.start = 2, !.end = 2,
                  !.resource = 2],
    [Blank EXCEPT !.kind = "point", !.entity = 12, !.start = 2, !.resource = 2,
                  !.links = <<[trace |-> 1, span |-> 2], [trace |-> 1, span |-> 2]>>],
    [Blank EXCEPT !.entity = 1, !.trace = 1, !.span = 1, !.parent = 2, !.end = 2],
    [Blank EXCEPT !.kind = "log", !.entity = 13, !.trace = 1, !.resource = 2],
    [Blank EXCEPT !.entity = 3, !.trace = 1, !.span = 3, !.parent = 9, !.resource = 3],
    [Blank EXCEPT !.entity = 14, !.trace = 1, !.resource = 3, !.start = 3, !.end = 2]>>

Window == [from |-> 1, to |-> 4]
AllStrategies == <<"span_identity", "trace_identity", "parent_child", "resource_context",
                   "exemplar", "temporal">>
Whole == [strategies |-> AllStrategies, subject |-> 1, window |-> Window,
          relations |-> 99, scan |-> 99, hops |-> 2]

(* Nothing binds, or one bound does.                                         *)
SomeCalls == {Whole, [Whole EXCEPT !.relations = 2], [Whole EXCEPT !.scan = 3, !.window = None],
              [Whole EXCEPT !.hops = 0]}
(* The root in its first or its second admission; the nameless span.         *)
SomeStores == {{1, 2, 3, 4, 6}, {2, 3, 4, 5, 7}, {2, 4, 8}}
SomeWindows == {None, Window}
=============================================================================
