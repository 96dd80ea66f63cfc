------------------------------ MODULE Selection ------------------------------
(***************************************************************************)
(* What a loop that skips some elements keeps of a sequence.               *)
(***************************************************************************)
EXTENDS Integers, Sequences, FiniteSets

(* The numbers of S, ascending.                                              *)
Ascending(S) ==
    [n \in 1..Cardinality(S) |-> CHOOSE x \in S : Cardinality({y \in S : y <= x}) = n]

(* The elements of s that are in S, in their order.                          *)
OnlyIn(s, S) ==
    LET at == Ascending({i \in DOMAIN s : s[i] \in S})
    IN  [n \in DOMAIN at |-> s[at[n]]]

(* The first n elements of s, or all of them.                                *)
UpTo(s, n) == SubSeq(s, 1, IF Len(s) < n THEN Len(s) ELSE n)
=============================================================================
