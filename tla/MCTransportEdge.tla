--------------------------- MODULE MCTransportEdge ---------------------------
(***************************************************************************)
(* Small instances of TransportEdge for TLC.                               *)
(***************************************************************************)
EXTENDS TransportEdge

Shape(via, typed, declared, sent) ==
    [via |-> via, typed |-> typed, declared |-> declared, sent |-> sent]

(* Under PayloadCeiling = 1: a declared export, an undeclared one that is    *)
(* too long, one declared over the ceiling, one of a foreign type, a gRPC    *)
(* payload in the slack and one of a foreign type, an investigation.         *)
EdgeShapes == {Shape("export", TRUE, 1, 1), Shape("export", TRUE, None, 2),
               Shape("export", TRUE, 2, 2), Shape("export", FALSE, 1, 1),
               Shape("grpc", TRUE, None, 2), Shape("grpc", FALSE, None, 1),
               Shape("investigation", FALSE, 1, 1)}
=============================================================================
