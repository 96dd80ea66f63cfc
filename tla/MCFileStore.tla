---------------------------- MODULE MCFileStore ----------------------------
(***************************************************************************)
(* Small instances of FileStore for TLC.                                   *)
(***************************************************************************)
EXTENDS FileStore

Wire(kind, key, stream, bytes) ==
    [kind |-> kind, key |-> key, stream |-> stream, schema |-> "A",
     body |-> "x", bytes |-> bytes, gate |-> "pass"]

(* A span too large for the tight ceilings, a log, points of two streams.    *)
FileWires == {Wire("span", 1, None, 4), Wire("log", None, None, 1),
              Wire("point", "p", "S1", 1), Wire("point", "q", "S2", 1)}
(* Points only: a fresh record is of the kind of the one it collides with.   *)
PointWires == {w \in FileWires : w.kind = "point"}

FileStreams == [s \in {"S1", "S2"} |-> 1]

Ceilings(records, bytes, series, window) ==
    [records |-> records, bytes |-> bytes, series |-> series, window |-> window]

(* A roomy session, a tight one, and one that expires at once.               *)
FileConfigs == {Ceilings(3, 6, 2, 9), Ceilings(2, 3, 1, 2), Ceilings(3, 6, 2, 0)}

(* Sessions in which nothing is evicted.                                     *)
RoomyConfigs == {Ceilings(3, 6, 2, 9)}
=============================================================================
