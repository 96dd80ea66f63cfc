---------------------------- MODULE MCQueryWalk ----------------------------
(***************************************************************************)
(* Small instances of QueryWalk for TLC.                                   *)
(***************************************************************************)
EXTENDS QueryWalk

Budget(results, bytes, scan) == [results |-> results, bytes |-> bytes, scan |-> scan]

(* One ceiling binds at a time, and none.                                    *)
SomeBudgets == {Budget(1, 9, 9), Budget(9, 2, 9), Budget(9, 9, 1), Budget(9, 9, 9)}
AllBudgets == SomeBudgets \cup {Budget(0, 9, 9), Budget(9, 9, 0)}

(* Key 4 re-admits the entity of key 2.                                      *)
Names == [k \in 1..MaxKey |-> IF k = 4 THEN 2 ELSE k]

(* Key 3 is the large record, key 2 fails the filters.                       *)
Sizes == [k \in 1..MaxKey |-> IF k = 3 THEN 2 ELSE 1]
Filtered == (1..MaxKey) \ {2}
=============================================================================
