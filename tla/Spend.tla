-------------------------------- MODULE Spend --------------------------------
(***************************************************************************)
(* What a query may cost: the budget it is admitted with, the ledger its   *)
(* traversal spends from and the refusals that name what ran out           *)
(* (crates/query/src/budget.rs, spend.rs, result.rs).  Time is counted in  *)
(* readings of the clock: it advances by one with every charge.            *)
(***************************************************************************)
EXTENDS Integers

CONSTANT None

Ceilings == {"results", "bytes", "scan"}

(* QueryBudget::admit.                                                     *)
AdmitBudget(budget) ==
    [budget |-> budget, now |-> 0, left |-> [d \in Ceilings |-> budget[d]]]

DeadlineRemaining(session) ==
    IF session.now >= session.budget.deadline THEN 0
    ELSE session.budget.deadline - session.now

(* A refusal names the dimension, its limit and what was spent of it.      *)
Refusals == [dimension : Ceilings \cup {"deadline"}, limit : Nat, observed : Nat]
Refusal(dimension, limit, observed) ==
    [dimension |-> dimension, limit |-> limit, observed |-> observed]
DeadlineRefusal(session) == Refusal("deadline", session.budget.deadline, session.now)

(* What a charge grants; `refusal` is None when all of it was granted.     *)
Allowance(session, granted, refusal) ==
    [session |-> session, granted |-> granted, refusal |-> refusal]

(* Fault: the last unit is never granted.                                  *)
DegradeShort(session, dimension, want) ==
    LET left == session.left[dimension]
        limit == session.budget[dimension]
    IN  IF want < left
        THEN Allowance([session EXCEPT !.left[dimension] = left - want], want, None)
        ELSE Allowance([session EXCEPT !.left[dimension] = 0], left,
                       Refusal(dimension, limit, limit))

(* A charge takes what fits; one that does not fit drains its dimension.   *)
Degrade(session, dimension, want) ==
    LET left == session.left[dimension]
        limit == session.budget[dimension]
    IN  IF want <= left
        THEN Allowance([session EXCEPT !.left[dimension] = left - want], want, None)
        ELSE Allowance([session EXCEPT !.left[dimension] = 0], left,
                       Refusal(dimension, limit, limit))

(* allow_results, allow_bytes, allow_scan: the deadline first.             *)
Allow(session, dimension, want) ==
    LET read == [session EXCEPT !.now = @ + 1]
    IN  IF DeadlineRemaining(read) = 0 THEN Allowance(read, 0, DeadlineRefusal(read))
        ELSE Degrade(read, dimension, want)

(* Pulled and never examined: charged up to the ceiling, refused never.    *)
SettleScan(session, units) ==
    LET owed == IF units < session.left.scan THEN units ELSE session.left.scan
    IN  [session EXCEPT !.left.scan = @ - owed]
=============================================================================
