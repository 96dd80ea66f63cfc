-------------------------- MODULE IdentityLifecycle --------------------------
(***************************************************************************)
(* What the core promises of a natural span identity, whichever thread     *)
(* moves it: an export admits identities and then either gives every one   *)
(* of them back or hands every one of them off; a handed-off identity is   *)
(* kept or refused by the store; a kept one leaves only by eviction; and   *)
(* an identity that has ended is free again, one ending at a time.         *)
(***************************************************************************)
CONSTANT Keys     \* the natural identities

VARIABLES
    stage,        \* where each identity stands
    sealed        \* the current export is committed to its hand-off

Stages == {"free", "pending", "handed", "resident", "ending"}

At(k, s) == stage[k] = s
Move(k, from, to) == At(k, from) /\ stage' = [stage EXCEPT ![k] = to]
NonePending == \A k \in Keys : ~At(k, "pending")
NoneEnding == \A k \in Keys : ~At(k, "ending")

Init ==
    /\ stage = [k \in Keys |-> "free"]
    /\ sealed = FALSE

Admit(k) == ~sealed /\ Move(k, "free", "pending") /\ UNCHANGED sealed

(* A saturated export leaves no identity behind.                             *)
GiveBack ==
    /\ ~sealed
    /\ stage' = [k \in Keys |-> IF At(k, "pending") THEN "free" ELSE stage[k]]
    /\ UNCHANGED sealed

Seal == ~sealed /\ sealed' = TRUE /\ UNCHANGED stage

HandOff(k) == sealed /\ Move(k, "pending", "handed") /\ UNCHANGED sealed

(* The next export starts once everything admitted has been handed off.      *)
Unseal == sealed /\ NonePending /\ sealed' = FALSE /\ UNCHANGED stage

Keep(k) == Move(k, "handed", "resident") /\ UNCHANGED sealed
Refuse(k) == NoneEnding /\ Move(k, "handed", "ending") /\ UNCHANGED sealed
Evict(k) == NoneEnding /\ Move(k, "resident", "ending") /\ UNCHANGED sealed
End(k) == Move(k, "ending", "free") /\ UNCHANGED sealed

Next ==
    \/ GiveBack \/ Seal \/ Unseal
    \/ \E k \in Keys : Admit(k) \/ HandOff(k) \/ Keep(k) \/ Refuse(k) \/ Evict(k) \/ End(k)

Spec == Init /\ [][Next]_<<stage, sealed>>
=============================================================================
