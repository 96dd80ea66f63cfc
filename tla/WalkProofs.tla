----------------------------- MODULE WalkProofs -----------------------------
(***************************************************************************)
(* Proofs about a chain of pages: what one spends, that the chain shows    *)
(* every standing record once, and that what it says it left out is what   *)
(* it left out, for any number of keys, any ceilings and batch size and    *)
(* any keeps and evictions between the walk's store calls.                 *)
(***************************************************************************)
EXTENDS QueryWalk, Collections

-----------------------------------------------------------------------------
(* Sets of keys, and sequences of them.                                      *)

(* A set of keys is a finite set of numbers.                                 *)
LEMMA KeysFinite ==
    ASSUME NEW S, S \subseteq Keys
    PROVE  IsFiniteSet(S) /\ S \subseteq Nat
  <1>1. MaxKey \in Nat /\ 1 \in Int /\ MaxKey \in Int
    BY WalkAssumption
  <1>2. IsFiniteSet(1..MaxKey)
    BY <1>1, FS_Interval
  <1>3. S \subseteq 1..MaxKey
    BY DEF Keys
  <1>4. IsFiniteSet(S)
    BY <1>2, <1>3, FS_Subset
  <1>5. S \subseteq Nat
    BY <1>1, <1>3
  <1> QED
    BY <1>4, <1>5

(* A non-empty finite set of numbers has a greatest and a least member.      *)
LEMMA Extremes ==
    ASSUME NEW S, IsFiniteSet(S), S \subseteq Nat, S # {}
    PROVE  /\ Max(S) \in S /\ \A k \in S : k <= Max(S)
           /\ Min(S) \in S /\ \A k \in S : Min(S) <= k
  <1> DEFINE Good(T) == /\ \E m \in T : \A k \in T : k <= m
                        /\ \E m \in T : \A k \in T : m <= k
             C == {T \in SUBSET S : T # {} /\ ~Good(T)}
  <1>1. Good(S)
    <2>1. SUFFICES ASSUME C # {} PROVE FALSE
      OBVIOUS
    <2>2. PICK T \in C : \A U \in SUBSET T : U # T => U \notin C
      <3>1. C \subseteq SUBSET S
        OBVIOUS
      <3> HIDE DEF C
      <3> QED
        BY <2>1, <3>1, LeastSubset, Zenon
    <2>3. PICK x \in T : TRUE
      OBVIOUS
    <2> DEFINE U == T \ {x}
    <2>4. U \in SUBSET T /\ U # T /\ U \notin C /\ U \in SUBSET S /\ T \subseteq Nat
      BY <2>2, <2>3
    <2>5. CASE U = {}
      <3>1. T = {x} /\ x \in Nat
        BY <2>3, <2>4, <2>5
      <3> QED
        BY <2>2, <3>1
    <2>6. CASE U # {}
      <3>1. PICK a \in U, b \in U : /\ \A k \in U : k <= a
                                    /\ \A k \in U : b <= k
        BY <2>4, <2>6
      <3>2. T = U \cup {x} /\ U \subseteq Nat /\ x \in Nat
        BY <2>3, <2>4
      <3>3. \E m \in T : \A k \in T : k <= m
        <4>1. CASE a <= x
          BY <3>1, <3>2, <4>1
        <4>2. CASE ~(a <= x)
          BY <3>1, <3>2, <4>2
        <4> QED
          BY <4>1, <4>2
      <3>4. \E m \in T : \A k \in T : m <= k
        <4>1. CASE x <= b
          BY <3>1, <3>2, <4>1
        <4>2. CASE ~(x <= b)
          BY <3>1, <3>2, <4>2
        <4> QED
          BY <4>1, <4>2
      <3> QED
        BY <2>2, <3>3, <3>4
    <2> QED
      BY <2>5, <2>6
  <1>2. PICK m \in S : \A k \in S : k <= m
    BY <1>1
  <1>3. PICK n \in S : \A k \in S : n <= k
    BY <1>1
  <1>4. Max(S) = CHOOSE x \in S : \A y \in S : x >= y
    BY DEF Max
  <1>5. Min(S) = CHOOSE x \in S : \A y \in S : x <= y
    BY DEF Min
  <1>6. \A k \in S : m >= k
    BY <1>2
  <1>7. Max(S) \in S /\ \A k \in S : Max(S) >= k
    BY <1>4, <1>6, Zenon
  <1>8. Min(S) \in S /\ \A k \in S : Min(S) <= k
    BY <1>5, <1>3, Zenon
  <1> QED
    BY <1>7, <1>8

(* The greatest and the least of a set of keys.                              *)
LEMMA KeyExtremes ==
    ASSUME NEW S, S \subseteq Keys, S # {}
    PROVE  /\ Max(S) \in S /\ \A k \in S : k <= Max(S)
           /\ Min(S) \in S /\ \A k \in S : Min(S) <= k
  BY KeysFinite, Extremes

(* What an appended sequence holds, and that it stays in order.              *)
LEMMA AppendHolds ==
    ASSUME NEW s \in Seq(Keys), NEW x \in Keys
    PROVE  /\ Append(s, x) \in Seq(Keys)
           /\ \A k : InSeq(k, Append(s, x)) <=> InSeq(k, s) \/ k = x
           /\ InOrder(s) /\ (\A k \in Keys : InSeq(k, s) => k < x) => InOrder(Append(s, x))
  <1>1. Append(s, x) \in Seq(Keys) /\ Len(Append(s, x)) = Len(s) + 1
    OBVIOUS
  <1>2. /\ DOMAIN s = 1..Len(s) /\ Len(s) \in Nat
        /\ DOMAIN Append(s, x) = 1..(Len(s) + 1)
        /\ \A i \in 1..Len(s) : Append(s, x)[i] = s[i] /\ s[i] \in Keys
        /\ Append(s, x)[Len(s) + 1] = x
    OBVIOUS
  <1>3. \A k : InSeq(k, Append(s, x)) <=> InSeq(k, s) \/ k = x
    BY <1>2 DEF InSeq
  <1>4. ASSUME InOrder(s), \A k \in Keys : InSeq(k, s) => k < x
        PROVE  InOrder(Append(s, x))
    <2>1. \A i \in 1..Len(s) : s[i] < x
      BY <1>2, <1>4 DEF InSeq
    <2> QED
      BY <1>2, <1>4, <2>1 DEF InOrder
  <1> QED
    BY <1>1, <1>3, <1>4

(* The same of two sequences in a row.                                       *)
LEMMA ConcatHolds ==
    ASSUME NEW s \in Seq(Keys), NEW t \in Seq(Keys)
    PROVE  /\ s \o t \in Seq(Keys)
           /\ \A k : InSeq(k, s \o t) <=> InSeq(k, s) \/ InSeq(k, t)
           /\ InOrder(s) /\ InOrder(t)
                /\ (\A j, k \in Keys : InSeq(j, s) /\ InSeq(k, t) => j < k) => InOrder(s \o t)
  <1>1. s \o t \in Seq(Keys) /\ Len(s \o t) = Len(s) + Len(t)
    OBVIOUS
  <1>2. /\ DOMAIN s = 1..Len(s) /\ Len(s) \in Nat /\ DOMAIN t = 1..Len(t) /\ Len(t) \in Nat
        /\ DOMAIN (s \o t) = 1..(Len(s) + Len(t))
        /\ \A i \in 1..Len(s) : (s \o t)[i] = s[i] /\ s[i] \in Keys
        /\ \A i \in 1..Len(t) : (s \o t)[Len(s) + i] = t[i] /\ t[i] \in Keys
    OBVIOUS
  <1>3. \A i \in 1..(Len(s) + Len(t)) :
          i \in 1..Len(s) \/ (i - Len(s) \in 1..Len(t) /\ i = Len(s) + (i - Len(s)))
    BY <1>2
  <1>4. ASSUME NEW k
        PROVE  InSeq(k, s \o t) <=> InSeq(k, s) \/ InSeq(k, t)
    <2>1. ASSUME InSeq(k, s \o t) PROVE InSeq(k, s) \/ InSeq(k, t)
      <3>1. PICK i \in 1..(Len(s) + Len(t)) : (s \o t)[i] = k
        BY <1>2, <2>1 DEF InSeq
      <3>2. CASE i \in 1..Len(s)
        BY <1>2, <3>1, <3>2 DEF InSeq
      <3>3. CASE i - Len(s) \in 1..Len(t) /\ i = Len(s) + (i - Len(s))
        <4> DEFINE j == i - Len(s)
        <4>1. t[j] = k
          BY <1>2, <3>1, <3>3
        <4> QED
          BY <1>2, <3>3, <4>1 DEF InSeq
      <3> QED
        BY <1>3, <3>2, <3>3
    <2>2. ASSUME InSeq(k, s) PROVE InSeq(k, s \o t)
      <3>1. PICK i \in 1..Len(s) : s[i] = k
        BY <1>2, <2>2 DEF InSeq
      <3>2. i \in 1..(Len(s) + Len(t)) /\ (s \o t)[i] = k
        BY <1>2, <3>1
      <3> QED
        BY <1>2, <3>2 DEF InSeq
    <2>3. ASSUME InSeq(k, t) PROVE InSeq(k, s \o t)
      <3>1. PICK i \in 1..Len(t) : t[i] = k
        BY <1>2, <2>3 DEF InSeq
      <3>2. Len(s) + i \in 1..(Len(s) + Len(t)) /\ (s \o t)[Len(s) + i] = k
        BY <1>2, <3>1
      <3> QED
        BY <1>2, <3>2 DEF InSeq
    <2> QED
      BY <2>1, <2>2, <2>3
  <1>5. ASSUME InOrder(s), InOrder(t),
               \A j, k \in Keys : InSeq(j, s) /\ InSeq(k, t) => j < k,
               NEW i \in 1..(Len(s) + Len(t)), NEW j \in 1..(Len(s) + Len(t)), i < j
        PROVE  (s \o t)[i] < (s \o t)[j]
    <2>1. CASE j \in 1..Len(s)
      <3>1. i \in 1..Len(s)
        BY <1>2, <1>5, <2>1
      <3> QED
        BY <1>2, <1>5, <2>1, <3>1 DEF InOrder
    <2>2. CASE i \in 1..Len(s) /\ j \notin 1..Len(s)
      <3> DEFINE b == j - Len(s)
      <3>1. b \in 1..Len(t) /\ j = Len(s) + b
        BY <1>3, <2>2
      <3>2. (s \o t)[i] = s[i] /\ (s \o t)[j] = t[b] /\ s[i] \in Keys /\ t[b] \in Keys
        BY <1>2, <2>2, <3>1
      <3>3. InSeq(s[i], s) /\ InSeq(t[b], t)
        BY <1>2, <2>2, <3>1 DEF InSeq
      <3> QED
        BY <1>5, <3>2, <3>3
    <2>3. CASE i \notin 1..Len(s) /\ j \notin 1..Len(s)
      <3> DEFINE a == i - Len(s)
                 b == j - Len(s)
      <3>1. a \in 1..Len(t) /\ i = Len(s) + a /\ b \in 1..Len(t) /\ j = Len(s) + b
        BY <1>3, <2>3
      <3>2. a < b
        BY <1>2, <1>5
      <3>3. t[a] < t[b]
        BY <1>2, <1>5, <3>1, <3>2 DEF InOrder
      <3> QED
        BY <1>2, <3>1, <3>3
    <2>4. i \in 1..Len(s) \/ j \notin 1..Len(s)
      BY <1>2, <1>5
    <2> QED
      BY <2>1, <2>2, <2>3, <2>4
  <1>6. InOrder(s) /\ InOrder(t)
          /\ (\A j, k \in Keys : InSeq(j, s) /\ InSeq(k, t) => j < k) => InOrder(s \o t)
    BY <1>2, <1>5 DEF InOrder
  <1> QED
    BY <1>1, <1>4, <1>6

(* The last of an ordered sequence is in it, and nothing in it is behind.    *)
LEMMA LastIsGreatest ==
    ASSUME NEW s \in Seq(Keys), s # <<>>, InOrder(s)
    PROVE  /\ s[Len(s)] \in Keys /\ InSeq(s[Len(s)], s)
           /\ \A k \in Keys : InSeq(k, s) => k <= s[Len(s)]
  <1>1. /\ DOMAIN s = 1..Len(s) /\ Len(s) \in Nat /\ Len(s) \in 1..Len(s)
        /\ \A i \in 1..Len(s) : s[i] \in Keys
    OBVIOUS
  <1>2. Keys \subseteq Nat
    BY KeysFinite
  <1>3. ASSUME NEW i \in 1..Len(s)
        PROVE  s[i] <= s[Len(s)]
    <2>1. s[i] \in Nat
      BY <1>1, <1>2
    <2> DEFINE n == Len(s)
    <2>2. i = n \/ (i \in DOMAIN s /\ n \in DOMAIN s /\ i < n)
      <3>1. n \in Nat /\ i \in 1..n /\ n \in 1..n /\ DOMAIN s = 1..n
        BY <1>1
      <3> HIDE DEF n
      <3> QED
        BY <3>1
    <2>3. CASE i = Len(s)
      BY <2>1, <2>3
    <2>4. CASE i < Len(s)
      <3>1. s[i] < s[Len(s)]
        BY <2>2, <2>4 DEF InOrder
      <3>2. s[Len(s)] \in Nat
        BY <1>1, <1>2
      <3> QED
        BY <2>1, <3>1, <3>2
    <2> QED
      BY <2>2, <2>3, <2>4
  <1> QED
    BY <1>1, <1>3 DEF InSeq

(* A record adds its own evidence to a page's bytes.                         *)
LEMMA BytesGrow ==
    ASSUME NEW s \in Seq(Keys), NEW x \in Keys
    PROVE  /\ BytesOf(s) \in Nat /\ BytesOf(<<>>) = 0
           /\ BytesOf(Append(s, x)) = BytesOf(s) + Evidence[x]
  <1> DEFINE n == Len(s)
             t == Append(s, x)
             g == [i \in DOMAIN s |-> Evidence[s[i]]]
             h == [i \in DOMAIN t |-> Evidence[t[i]]]
  <1>1. /\ n \in Nat /\ DOMAIN s = 1..n /\ DOMAIN t = 1..(n + 1) /\ t[n + 1] = x
        /\ \A i \in 1..n : t[i] = s[i] /\ s[i] \in Keys
    OBVIOUS
  <1>2. \A k \in Keys : Evidence[k] \in Nat
    BY WalkAssumption
  <1> HIDE DEF t, n
  <1>3. /\ \A i \in 1..n : h[i] = g[i] /\ g[i] \in Nat
        /\ \A i \in 1..(n + 1) : h[i] \in Nat
        /\ h[n + 1] = Evidence[x]
    BY <1>1, <1>2
  <1>4. DOMAIN g = 1..n /\ DOMAIN h = 1..(n + 1)
    BY <1>1
  <1>5. SumFunctionOnSet(g, 1..n) \in Nat
    <2>1. IsFiniteSet(1..n)
      BY <1>1, FS_Interval
    <2> HIDE DEF g
    <2> QED
      BY <1>3, <2>1, TotalNat
  <1>6. SumFunctionOnSet(h, 1..(n + 1)) = SumFunctionOnSet(g, 1..n) + h[n + 1]
    <2> HIDE DEF g, h
    <2> QED
      BY <1>1, <1>3, TotalAppend
  <1>7. BytesOf(<<>>) = 0
    <2>1. DOMAIN [i \in DOMAIN <<>> |-> Evidence[(<<>>)[i]]] = {}
      OBVIOUS
    <2>2. \A f : SumFunctionOnSet(f, {}) = 0
      BY FS_EmptySet, TotalUnfolds
    <2> QED
      BY <2>1, <2>2 DEF BytesOf, SumFunction
  <1>8. BytesOf(s) = SumFunctionOnSet(g, 1..n)
    BY <1>4 DEF BytesOf, SumFunction
  <1>9. BytesOf(t) = SumFunctionOnSet(h, 1..(n + 1))
    BY <1>4 DEF BytesOf, SumFunction
  <1> QED
    BY <1>3, <1>5, <1>6, <1>7, <1>8, <1>9 DEF t

-----------------------------------------------------------------------------
(* Types.                                                                    *)

Amounts == [results: Nat, bytes: Nat, scan: Nat]
Outcomes == [part: Parts \cup {None}, dimension: Dimensions \cup {None},
             next: Cursors \cup {None}, last: Keys \cup {None}]
Entries == [kind: {"boundary", "gap", "uncounted", "stall"},
            after: Keys, before: Keys \cup {None}]

(* The snapshot bound is a key.                                              *)
LEMMA BoundIsKey ==
    ASSUME TypeOK
    PROVE  Bound \in Keys /\ MaxKey \in Keys /\ 1 \in Keys
  <1>1. MaxKey \in Nat \ {0} /\ None \notin Cursors
    BY WalkAssumption
  <1>2. MaxKey \in Keys /\ 1 \in Keys
    BY <1>1 DEF Keys
  <1>3. presented # None => presented \in [anchor: Keys, snapshot: Keys]
    BY DEF TypeOK, Cursors
  <1> QED
    BY <1>2, <1>3 DEF Bound

(* A named gap and a boundary are coverage entries.                          *)
LEMMA GapTypes ==
    ASSUME TypeOK, NEW before \in Keys
    PROVE  NamedGap(before) \subseteq Entries /\ Boundary \subseteq Entries
  <1>1. gap # None => gap \in Keys
    BY DEF TypeOK
  <1>2. presented # None => presented \in [anchor: Keys, snapshot: Keys]
    BY DEF TypeOK, Cursors
  <1> QED
    BY <1>1, <1>2 DEF NamedGap, Boundary, Entries

(* What a page is answered with is an outcome.                               *)
LEMMA OutcomeTypes ==
    ASSUME TypeOK, NEW tail \in Keys \cup {None}, NEW dimension \in Dimensions, NEW k \in Keys
    PROVE  /\ Mint(k, tail) \in Cursors
           /\ Outcome("degraded", dimension, Mint(k, tail), None) \in Outcomes
           /\ counted # {} => CountingDegrade(tail) \in Outcomes
           /\ IncludeAnchoredDegrade(k, dimension) \in Outcomes
           /\ Outcome("refused", dimension, None, None) \in Outcomes
           /\ Outcome("complete", None, None, None) \in Outcomes
           /\ Outcome("stalled", None, None, None) \in Outcomes
           /\ NoOutcome \in Outcomes
  <1>1. presented # None => presented \in Cursors /\ presented.snapshot \in Keys
    BY DEF TypeOK, Cursors
  <1>2. \A j \in Keys, u \in Keys \cup {None} : Mint(j, u) \in Cursors
    BY <1>1 DEF Mint, Cursors
  <1>3. \A j \in Keys, u \in Keys \cup {None}, d \in Dimensions :
          Outcome("degraded", d, Mint(j, u), None) \in Outcomes
    BY <1>2 DEF Outcome, Outcomes, Parts
  <1>4. counted # {} => CountingDegrade(tail) \in Outcomes
    <2>1. ASSUME counted # {} PROVE Max(counted) \in Keys
      BY <2>1, KeyExtremes DEF TypeOK
    <2> QED
      BY <1>3, <2>1 DEF CountingDegrade, Dimensions
  <1>5. IncludeAnchoredDegrade(k, dimension) \in Outcomes
    <2>1. CASE items # <<>>
      <3>1. LastIncluded \in Keys
        BY <2>1 DEF LastIncluded, TypeOK
      <3>2. frontier \in Keys \cup {None}
        BY DEF TypeOK
      <3> QED
        BY <1>3, <2>1, <3>1, <3>2 DEF IncludeAnchoredDegrade
    <2>2. CASE items = <<>> /\ presented # None
      BY <1>1, <2>2 DEF IncludeAnchoredDegrade, Outcome, Outcomes, Parts
    <2>3. CASE items = <<>> /\ presented = None
      BY <2>3 DEF IncludeAnchoredDegrade, Outcome, Outcomes, Parts
    <2> QED
      BY <2>1, <2>2, <2>3
  <1> QED
    BY <1>2, <1>3, <1>4, <1>5 DEF Outcome, Outcomes, Parts, NoOutcome

AnswerTypes ==
    /\ gap \in Keys \cup {None}
    /\ coverage \subseteq Entries
    /\ outcome \in Outcomes
    /\ pc \in {"admit", "pull", "examine", "answer", "done"}

(* A stop assembles a page of the right types.                               *)
LEMMA StopTypes ==
    ASSUME TypeOK, NEW result \in Outcomes, NEW entries, entries \subseteq Entries,
           Stop(result, entries)
    PROVE  AnswerTypes'
  BY DEF Stop, AnswerTypes, TypeOK, Entries

(* So does the end of the walk.                                              *)
LEMMA FinishTypes ==
    ASSUME TypeOK, NEW tail \in Keys \cup {None}, FinishCountingOrComplete(tail)
    PROVE  AnswerTypes'
  <1>1. \E d \in Dimensions : TRUE
    BY DEF Dimensions
  <1>2. (IF counted # {} THEN CountingDegrade(tail) ELSE Outcome("complete", None, None, None))
          \in Outcomes
    BY <1>1, BoundIsKey, OutcomeTypes
  <1>3. NamedGap(Bound) \subseteq Entries
    BY BoundIsKey, GapTypes
  <1> QED
    BY <1>2, <1>3, StopTypes DEF FinishCountingOrComplete

StoreTypes ==
    /\ driver \in Drivers
    /\ resident \subseteq kept /\ kept \subseteq Keys /\ steady \subseteq resident

WalkTypes ==
    /\ presented \in Cursors \cup {None}
    /\ budget \in Budgets \cup {None}
    /\ left \in Amounts
    /\ after \in Keys \cup {0}
    /\ batch \subseteq Keys
    /\ more \in Keys \cup {None}
    /\ frontier \in Keys \cup {None}
    /\ empties \in Nat /\ pulled \in Nat
    /\ examined \in Keys \cup {None}

ChainTypes ==
    /\ items \in Seq(Keys) /\ delivered \in Seq(Keys)
    /\ counted \subseteq Keys /\ skipped \subseteq Keys
    /\ pages \in Nat

(* The type invariant in its parts.                                          *)
LEMMA TypesAre == TypeOK <=> StoreTypes /\ WalkTypes /\ ChainTypes /\ AnswerTypes
  BY DEF TypeOK, StoreTypes, WalkTypes, ChainTypes, AnswerTypes, Amounts, Outcomes, Entries

(* One scan returns the nearest of what is ahead, and something if there is  *)
(* something.                                                                *)
LEMMA ScannedIs ==
    ASSUME TypeOK
    PROVE  /\ Ahead \subseteq resident /\ Scanned \subseteq Ahead /\ Scanned \subseteq Keys
           /\ Scanned = {} => Ahead = {}
           /\ \A j \in Ahead, k \in Scanned : j <= k => j \in Scanned
           /\ Cardinality(Scanned) \in Nat
  <1>1. Ahead \subseteq resident /\ Scanned \subseteq Ahead /\ resident \subseteq Keys
    BY DEF TypeOK, Ahead, Above, Scanned
  <1>2. Keys \subseteq Nat
    BY KeysFinite
  <1> DEFINE Below(k) == {j \in Ahead : j < k}
  <1>3. \A k \in Keys : IsFiniteSet(Below(k)) /\ Cardinality(Below(k)) \in Nat
    <2>1. \A k : Below(k) \subseteq Keys
      BY <1>1
    <2> HIDE DEF Below
    <2> QED
      BY <2>1, KeysFinite, FS_CardinalityType
  <1>4. ASSUME Ahead # {} PROVE Scanned # {}
    <2>1. Min(Ahead) \in Ahead /\ \A k \in Ahead : Min(Ahead) <= k
      BY <1>1, <1>4, KeyExtremes
    <2>2. PICK m \in Ahead : \A k \in Ahead : m <= k
      BY <2>1
    <2>3. Ahead \subseteq Nat
      BY <1>1, <1>2
    <2>4. Below(m) = {}
      <3>1. \A k \in Ahead : ~(k < m)
        BY <2>2, <2>3
      <3> QED
        BY <3>1
    <2>5. Cardinality({j \in Ahead : j < m}) = 0
      BY <2>4, FS_EmptySet, Zenon
    <2>6. 0 < ScanBatch
      BY WalkAssumption
    <2>7. Cardinality({j \in Ahead : j < m}) < ScanBatch
      BY <2>5, <2>6
    <2> QED
      BY <2>7 DEF Scanned
  <1>5. ASSUME NEW j \in Ahead, NEW k \in Scanned, j <= k
        PROVE  j \in Scanned
    <2>1. j \in Nat /\ k \in Nat /\ k \in Keys /\ j \in Keys /\ ScanBatch \in Nat
      BY <1>1, <1>2, WalkAssumption
    <2>2. Below(j) \subseteq Below(k)
      <3>1. Ahead \subseteq Nat
        BY <1>1, <1>2
      <3>2. \A i \in Ahead : i < j => i < k
        BY <1>5, <2>1, <3>1
      <3> QED
        BY <3>2
    <2>3. Cardinality(Below(j)) <= Cardinality(Below(k))
      <3> HIDE DEF Below
      <3> QED
        BY <1>3, <2>1, <2>2, FS_Subset
    <2>4. Cardinality(Below(k)) < ScanBatch
      BY DEF Scanned
    <2>5. Cardinality(Below(j)) < ScanBatch
      <3>1. Cardinality(Below(j)) \in Nat /\ Cardinality(Below(k)) \in Nat
        BY <1>3, <2>1
      <3> HIDE DEF Below
      <3> QED
        BY <2>1, <2>3, <2>4, <3>1
    <2> QED
      BY <2>5 DEF Scanned
  <1>6. Scanned \subseteq Keys
    BY <1>1
  <1>7. Cardinality(Scanned) \in Nat
    BY <1>6, KeysFinite, FS_CardinalityType
  <1> QED
    BY <1>1, <1>4, <1>5, <1>6, <1>7

(* The types hold at the start of a chain.                                   *)
LEMMA TypeInit == Init => TypeOK
  <1>1. 0 \in Nat /\ <<>> \in Seq(Keys) /\ {} \subseteq Keys
    OBVIOUS
  <1>2. [results |-> 0, bytes |-> 0, scan |-> 0] \in Amounts
    BY DEF Amounts
  <1>3. NoOutcome \in Outcomes
    BY DEF NoOutcome, Outcomes
  <1> QED
    BY <1>1, <1>2, <1>3, TypesAre DEF Init, StoreTypes, WalkTypes, ChainTypes, AnswerTypes

(* Every step keeps the types.                                               *)
LEMMA TypeNext == TypeOK /\ [Next]_vars => TypeOK'
  <1> SUFFICES ASSUME TypeOK, [Next]_vars PROVE TypeOK'
    OBVIOUS
  <1>0. StoreTypes /\ WalkTypes /\ ChainTypes /\ AnswerTypes
    BY TypesAre
  <1> SUFFICES StoreTypes' /\ WalkTypes' /\ ChainTypes' /\ AnswerTypes'
    BY TypesAre DEF TypeOK, StoreTypes, WalkTypes, ChainTypes, AnswerTypes, Amounts,
                    Outcomes, Entries
  <1> USE DEF store, chain, walk, vars
  <1> DEFINE Goal == StoreTypes' /\ WalkTypes' /\ ChainTypes' /\ AnswerTypes'
  <1>1. /\ \A S : S \subseteq Keys => IsFiniteSet(S) /\ S \subseteq Nat
        /\ Keys \subseteq Nat
        /\ 0 \notin Keys
    BY KeysFinite DEF Keys
  <1>2. ASSUME StoreKeeps PROVE Goal
    <2>1. StoreTypes'
      BY <1>0, <1>2 DEF StoreKeeps, Above, StoreTypes
    <2>2. WalkTypes' /\ ChainTypes' /\ AnswerTypes'
      BY <1>0, <1>2 DEF StoreKeeps, WalkTypes, ChainTypes, AnswerTypes
    <2> QED
      BY <2>1, <2>2
  <1>3. ASSUME StoreExpires PROVE Goal
    <2>1. StoreTypes'
      BY <1>0, <1>3 DEF StoreExpires, Above, StoreTypes
    <2>2. WalkTypes' /\ ChainTypes' /\ AnswerTypes'
      BY <1>0, <1>3 DEF StoreExpires, WalkTypes, ChainTypes, AnswerTypes
    <2> QED
      BY <2>1, <2>2
  <1>4. ASSUME Admitting PROVE StoreTypes' /\ WalkTypes' /\ ChainTypes' /\ EvictedAnchor \in Keys \cup {None}
    <2>1. presented # None => presented.anchor \in Keys
      BY <1>0 DEF WalkTypes, Cursors
    <2>2. budget' \in Amounts
      BY <1>4, WalkAssumption DEF Admitting, Amounts
    <2>3. WalkTypes'
      BY <1>0, <1>4, <2>1, <2>2 DEF Admitting, WalkTypes
    <2>4. StoreTypes' /\ ChainTypes'
      BY <1>0, <1>4 DEF Admitting, StoreTypes, ChainTypes
    <2>5. EvictedAnchor \in Keys \cup {None}
      BY <2>1 DEF EvictedAnchor
    <2> QED
      BY <2>3, <2>4, <2>5
  <1>5. ASSUME Admit PROVE Goal
    <2>1. Boundary \subseteq Entries
      BY BoundIsKey, GapTypes
    <2>2. NoOutcome \in Outcomes
      BY DEF NoOutcome, Outcomes
    <2> QED
      BY <1>4, <1>5, <2>1, <2>2 DEF Admit, AnswerTypes
  <1>6. ASSUME AdmitNothing PROVE Goal
    <2>1. Boundary \subseteq Entries
      BY BoundIsKey, GapTypes
    <2>2. Outcome("complete", None, None, None) \in Outcomes
      BY DEF Outcome, Outcomes, Parts
    <2>3. presented # None => presented \in [anchor: Keys, snapshot: Keys]
      BY <1>0 DEF WalkTypes, Cursors
    <2>4. coverage' \subseteq Entries
      BY <1>6, <2>1, <2>3 DEF AdmitNothing, EvictedAnchor, Entries
    <2> QED
      BY <1>4, <1>6, <2>2, <2>4 DEF AdmitNothing, AnswerTypes
  <1>7. ASSUME Pull PROVE Goal
    <2>1. /\ Scanned \subseteq Keys /\ Cardinality(Scanned) \in Nat
          /\ Max(Scanned) \in Keys
      BY <1>7, ScannedIs, KeyExtremes DEF Pull
    <2>2. WalkTypes'
      BY <1>0, <1>7, <2>1 DEF Pull, WalkTypes
    <2> QED
      BY <1>0, <1>7, <2>2 DEF Pull, StoreTypes, ChainTypes, AnswerTypes
  <1>8. ASSUME PullNothing PROVE Goal
    <2>1. AnswerTypes'
      BY <1>8, FinishTypes DEF PullNothing
    <2> QED
      BY <1>0, <1>8, <2>1 DEF PullNothing, StoreTypes, ChainTypes, WalkTypes
  <1>9. ASSUME PullStall PROVE Goal
    <2>1. PICK cursor \in StallCursors :
            /\ empties' = empties + 1
            /\ frontier' = cursor
            /\ IF empties' >= StallLimit
               THEN /\ Stop(Outcome("stalled", None, None, None),
                            NamedGap(Bound) \cup
                            {[kind |-> "stall", before |-> None,
                              after |-> IF examined # None THEN examined ELSE cursor]})
                    /\ UNCHANGED after
               ELSE /\ after' = cursor
                    /\ UNCHANGED <<pc, gap, coverage, outcome>>
      BY <1>9 DEF PullStall
    <2>2. cursor \in Keys
      BY BoundIsKey DEF StallCursors
    <2>3. AnswerTypes'
      <3>1. CASE empties' >= StallLimit
        <4>1. Outcome("stalled", None, None, None) \in Outcomes
          BY DEF Outcome, Outcomes, Parts
        <4>2. NamedGap(Bound) \subseteq Entries
          BY BoundIsKey, GapTypes
        <4>3. [kind |-> "stall", before |-> None,
               after |-> IF examined # None THEN examined ELSE cursor] \in Entries
          BY <1>0, <2>2 DEF Entries, WalkTypes
        <4> QED
          BY <2>1, <3>1, <4>1, <4>2, <4>3, StopTypes
      <3>2. CASE ~(empties' >= StallLimit)
        BY <1>0, <2>1, <3>2 DEF AnswerTypes
      <3> QED
        BY <3>1, <3>2
    <2>4. WalkTypes'
      BY <1>0, <1>9, <2>1, <2>2 DEF PullStall, WalkTypes, Stop
    <2> QED
      BY <1>0, <1>9, <2>3, <2>4 DEF PullStall, StoreTypes, ChainTypes
  <1>10. ASSUME BatchEnds PROVE Goal
    <2>1. AnswerTypes'
      <3>1. frontier \in Keys \cup {None}
        BY <1>0 DEF WalkTypes
      <3>2. CASE more # None
        BY <1>0, <1>10, <3>2 DEF BatchEnds, AnswerTypes
      <3>3. CASE more = None
        BY <1>10, <3>1, <3>3, FinishTypes DEF BatchEnds
      <3> QED
        BY <3>2, <3>3
    <2>2. WalkTypes'
      BY <1>0, <1>10 DEF BatchEnds, WalkTypes
    <2> QED
      BY <1>0, <1>10, <2>1, <2>2 DEF BatchEnds, StoreTypes, ChainTypes
  <1>11. \A charge \in {0, 1}, n \in Nat : charge <= left.scan => ScanSettled(charge, n) \in Nat
    BY <1>0 DEF ScanSettled, WalkTypes, Amounts
  <1>12. ASSUME NEW S, S \subseteq Keys PROVE Cardinality(S) \in Nat
    BY <1>12, KeysFinite, FS_CardinalityType
  <1>13. ASSUME PastSnapshot PROVE Goal
    <2>1. AnswerTypes'
      BY <1>0, <1>13, FinishTypes DEF PastSnapshot, WalkTypes
    <2>2. ScanSettled(0, Cardinality(batch)) \in Nat
      BY <1>0, <1>11, <1>12 DEF WalkTypes, Amounts
    <2>3. WalkTypes'
      BY <1>0, <1>13, <2>2 DEF PastSnapshot, WalkTypes, Amounts
    <2> QED
      BY <1>0, <1>13, <2>1, <2>3 DEF PastSnapshot, StoreTypes, ChainTypes
  <1>14. ASSUME StopBeforeExamining PROVE Goal
    <2>1. PICK dimension \in Expiry \cup (IF left.scan = 0 THEN {"scan"} ELSE {}) :
            IF counted # {}
            THEN Stop(CountingDegrade(frontier),
                      NamedGap(Bound) \cup
                      {[kind |-> "uncounted", after |-> Max(counted), before |-> None]})
            ELSE IF examined # None
            THEN Stop(Outcome("degraded", dimension, Mint(examined, frontier), None),
                      NamedGap(Bound))
            ELSE Stop(Outcome("refused", dimension, None, None), NamedGap(Bound))
      BY <1>14 DEF StopBeforeExamining
    <2>2. dimension \in Dimensions /\ frontier \in Keys \cup {None} /\ MaxKey \in Keys
      BY <1>0, BoundIsKey DEF Expiry, Dimensions, WalkTypes
    <2>3. NamedGap(Bound) \subseteq Entries
      BY BoundIsKey, GapTypes
    <2>4. AnswerTypes'
      <3>1. CASE counted # {}
        <4>1. CountingDegrade(frontier) \in Outcomes
          BY <2>2, <3>1, OutcomeTypes
        <4>2. [kind |-> "uncounted", after |-> Max(counted), before |-> None] \in Entries
          BY <1>0, <3>1, KeyExtremes DEF Entries, ChainTypes
        <4> QED
          BY <2>1, <2>3, <3>1, <4>1, <4>2, StopTypes
      <3>2. CASE counted = {} /\ examined # None
        <4>1. examined \in Keys
          BY <1>0, <3>2 DEF WalkTypes
        <4>2. Outcome("degraded", dimension, Mint(examined, frontier), None) \in Outcomes
          BY <2>2, <4>1, OutcomeTypes
        <4> QED
          BY <2>1, <2>3, <3>2, <4>2, StopTypes
      <3>3. CASE counted = {} /\ examined = None
        <4>1. Outcome("refused", dimension, None, None) \in Outcomes
          BY <2>2, OutcomeTypes
        <4> QED
          BY <2>1, <2>3, <3>3, <4>1, StopTypes
      <3> QED
        BY <3>1, <3>2, <3>3
    <2>5. ScanSettled(0, Cardinality(batch)) \in Nat
      BY <1>0, <1>11, <1>12 DEF WalkTypes, Amounts
    <2>6. WalkTypes'
      BY <1>0, <1>14, <2>5 DEF StopBeforeExamining, WalkTypes, Amounts
    <2> QED
      BY <1>0, <1>14, <2>4, <2>6 DEF StopBeforeExamining, StoreTypes, ChainTypes
  <1>15. ASSUME NEW k \in batch, Passing(k) PROVE AnswerTypes' /\ batch' \subseteq Keys
    <2>1. k \in Keys
      BY <1>0 DEF WalkTypes
    <2>2. NamedGap(k) \subseteq Entries
      BY <2>1, GapTypes
    <2> QED
      BY <1>0, <1>15, <2>2 DEF Passing, AnswerTypes, WalkTypes
  <1>16. ASSUME NEW k \in batch, Examining(k), left' \in Amounts, batch' \subseteq Keys,
                AnswerTypes', ChainTypes'
         PROVE  Goal
    BY <1>0, <1>16 DEF Examining, StoreTypes, WalkTypes
  <1>17. ASSUME NEW k \in batch, Examining(k)
         PROVE  /\ k \in Keys /\ left.scan \in Nat /\ left.scan > 0
                /\ left.results \in Nat /\ left.bytes \in Nat /\ Evidence[k] \in Nat
                /\ UNCHANGED <<delivered, skipped, pages>>
    BY <1>0, <1>17, WalkAssumption DEF Examining, WalkTypes, Amounts
  <1>18. ASSUME FilteredOut PROVE Goal
    <2>1. PICK k \in batch : /\ Examining(k)
                             /\ left' = [left EXCEPT !.scan = @ - 1]
                             /\ Passing(k)
                             /\ UNCHANGED <<items, counted>>
      BY <1>18 DEF FilteredOut
    <2>2. left' \in Amounts
      BY <1>0, <1>17, <2>1 DEF Amounts, WalkTypes
    <2>3. ChainTypes'
      BY <1>0, <1>17, <2>1 DEF ChainTypes
    <2> QED
      BY <1>15, <1>16, <2>1, <2>2, <2>3
  <1>19. ASSUME Count PROVE Goal
    <2>1. PICK k \in batch : /\ Examining(k)
                             /\ left' = [left EXCEPT !.scan = @ - 1]
                             /\ counted' = counted \cup {k}
                             /\ Passing(k)
                             /\ UNCHANGED items
      BY <1>19 DEF Count
    <2>2. left' \in Amounts
      BY <1>0, <1>17, <2>1 DEF Amounts, WalkTypes
    <2>3. ChainTypes'
      BY <1>0, <1>17, <2>1 DEF ChainTypes
    <2> QED
      BY <1>15, <1>16, <2>1, <2>2, <2>3
  <1>20. \A k \in batch : Examining(k) =>
           \A dimension \in (IF left.results = 0 THEN {"results"} ELSE Expiry) \cup Expiry :
             Stop(IncludeAnchoredDegrade(k, dimension), NamedGap(k)) => AnswerTypes'
    <2> TAKE k \in batch
    <2> HAVE Examining(k)
    <2> TAKE dimension \in (IF left.results = 0 THEN {"results"} ELSE Expiry) \cup Expiry
    <2> HAVE Stop(IncludeAnchoredDegrade(k, dimension), NamedGap(k))
    <2>1. k \in Keys /\ dimension \in Dimensions
      BY <1>17 DEF Dimensions, Expiry
    <2>2. IncludeAnchoredDegrade(k, dimension) \in Outcomes
      BY <2>1, BoundIsKey, OutcomeTypes
    <2>3. NamedGap(k) \subseteq Entries
      BY <2>1, GapTypes
    <2> QED
      BY <2>2, <2>3, StopTypes
  <1>21. \A k \in batch : Cardinality(batch) - 1 \in Nat
    <2> TAKE k \in batch
    <2>1. IsFiniteSet(batch) /\ batch # {}
      BY <1>0, KeysFinite DEF WalkTypes
    <2>2. Cardinality(batch) \in Nat /\ Cardinality(batch) # 0
      BY <2>1, FS_CardinalityType, FS_EmptySet
    <2> QED
      BY <2>2
  <1>22. ASSUME ResultsRefused PROVE Goal
    <2>1. PICK k \in batch :
            /\ Examining(k)
            /\ \E dimension \in IF left.results = 0 THEN {"results"} ELSE Expiry :
                 Stop(IncludeAnchoredDegrade(k, dimension), NamedGap(k))
            /\ left' = [left EXCEPT !.scan = ScanSettled(1, Cardinality(batch) - 1)]
            /\ UNCHANGED <<batch, items, counted>>
      BY <1>22 DEF ResultsRefused
    <2>2. AnswerTypes'
      BY <1>20, <2>1
    <2>3. left' \in Amounts
      <3>1. 1 <= left.scan /\ Cardinality(batch) - 1 \in Nat
        BY <1>17, <1>21, <2>1
      <3>2. ScanSettled(1, Cardinality(batch) - 1) \in Nat
        BY <1>11, <3>1
      <3> QED
        BY <1>0, <2>1, <3>2 DEF Amounts, WalkTypes
    <2>4. ChainTypes' /\ batch' \subseteq Keys
      BY <1>0, <1>17, <2>1 DEF ChainTypes, WalkTypes
    <2> QED
      BY <1>16, <2>1, <2>2, <2>3, <2>4
  <1>23. ASSUME ByteWall PROVE Goal
    <2>1. PICK k \in batch : /\ Examining(k)
                             /\ left.results > 0
                             /\ left' = [left EXCEPT !.scan = @ - 1, !.results = @ - 1]
                             /\ counted' = {k}
                             /\ Passing(k)
                             /\ UNCHANGED items
      BY <1>23 DEF ByteWall
    <2>2. left' \in Amounts
      <3>1. left.scan - 1 \in Nat /\ left.results - 1 \in Nat
        BY <1>17, <2>1
      <3> QED
        BY <1>0, <2>1, <3>1 DEF Amounts, WalkTypes
    <2>3. ChainTypes'
      BY <1>0, <1>17, <2>1 DEF ChainTypes
    <2> QED
      BY <1>15, <1>16, <2>1, <2>2, <2>3
  <1>24. ASSUME BytesRefused PROVE Goal
    <2>1. PICK k \in batch :
            /\ Examining(k)
            /\ left.results > 0
            /\ \E dimension \in Expiry : Stop(IncludeAnchoredDegrade(k, dimension), NamedGap(k))
            /\ left' = [left EXCEPT !.scan = ScanSettled(1, Cardinality(batch) - 1),
                                    !.results = @ - 1]
            /\ UNCHANGED <<batch, items, counted>>
      BY <1>24 DEF BytesRefused
    <2>2. AnswerTypes'
      BY <1>20, <2>1
    <2>3. left' \in Amounts
      <3>1. 1 <= left.scan /\ Cardinality(batch) - 1 \in Nat
        BY <1>17, <1>21, <2>1
      <3>2. ScanSettled(1, Cardinality(batch) - 1) \in Nat
        BY <1>11, <3>1
      <3>3. left.results - 1 \in Nat
        BY <1>17, <2>1
      <3> QED
        BY <1>0, <2>1, <3>2, <3>3 DEF Amounts, WalkTypes
    <2>4. ChainTypes' /\ batch' \subseteq Keys
      BY <1>0, <1>17, <2>1 DEF ChainTypes, WalkTypes
    <2> QED
      BY <1>16, <2>1, <2>2, <2>3, <2>4
  <1>25. ASSUME Include PROVE Goal
    <2>1. PICK k \in batch : /\ Examining(k)
                             /\ left.results > 0
                             /\ left.bytes >= Evidence[k]
                             /\ left' = [scan |-> left.scan - 1, results |-> left.results - 1,
                                         bytes |-> left.bytes - Evidence[k]]
                             /\ items' = Append(items, k)
                             /\ Passing(k)
                             /\ UNCHANGED counted
      BY <1>25 DEF Include
    <2>2. left' \in Amounts
      BY <1>17, <2>1 DEF Amounts
    <2>3. ChainTypes'
      BY <1>0, <1>17, <2>1 DEF ChainTypes
    <2> QED
      BY <1>15, <1>16, <2>1, <2>2, <2>3
  <1>26. ASSUME Answer PROVE Goal
    <2>1. delivered' \in Seq(Keys) /\ items' \in Seq(Keys)
      BY <1>0, <1>26, ConcatHolds DEF Answer, ChainTypes
    <2>2. ChainTypes'
      BY <1>0, <1>26, <2>1 DEF Answer, ChainTypes
    <2>3. presented' \in Cursors \cup {None} /\ pc' \in {"admit", "done"}
      BY <1>0, <1>26 DEF Answer, AnswerTypes, WalkTypes, Outcomes
    <2>4. WalkTypes' /\ AnswerTypes' /\ StoreTypes'
      BY <1>0, <1>26, <2>3 DEF Answer, WalkTypes, AnswerTypes, StoreTypes
    <2> QED
      BY <2>2, <2>4
  <1>27. ASSUME ChainStops PROVE Goal
    BY <1>0, <1>27 DEF ChainStops, StoreTypes, WalkTypes, ChainTypes, AnswerTypes
  <1>28. ASSUME UNCHANGED vars PROVE Goal
    BY <1>0, <1>28 DEF StoreTypes, WalkTypes, ChainTypes, AnswerTypes
  <1> QED
    BY <1>2, <1>3, <1>5, <1>6, <1>7, <1>8, <1>9, <1>10, <1>13, <1>14, <1>18, <1>19, <1>22,
       <1>23, <1>24, <1>25, <1>26, <1>27, <1>28, Zenon DEF Next, Page

(* The walk, the page under way and the chain keep their types through every *)
(* page, ceiling and deadline, and every keep and eviction between.          *)
THEOREM WalkTypeCorrect == Spec => []TypeOK
  BY TypeInit, TypeNext, PTL DEF Spec

-----------------------------------------------------------------------------
(* The shape of a page, and what it spends.                                  *)

InPage == pc \in {"pull", "examine"}

(* What a page's place says of its parts: between pages nothing is held, an  *)
(* open page was admitted with something to return, a chain goes on only     *)
(* behind a page that is not complete.                                       *)
PageShape ==
    /\ pc \in {"admit", "done"} => items = <<>> /\ counted = {}
    /\ pc = "pull" => batch = {}
    /\ InPage => outcome = NoOutcome /\ budget # None /\ budget.results > 0
    /\ pc = "answer" => budget # None
    /\ pc = "admit" => outcome.part # "complete"
    /\ outcome.part = "complete" => outcome.next = None

(* The store's moves are not the walk's.                                     *)
LEMMA StoreApart ==
    ASSUME StoreKeeps \/ StoreExpires
    PROVE  UNCHANGED <<driver, chain, walk, pc, presented, budget, left, batch, examined,
                       items, counted, gap, coverage, outcome>>
  BY DEF StoreKeeps, StoreExpires

(* An examination that passes its record goes on in the same page.           *)
LEMMA PassingOn ==
    ASSUME FilteredOut \/ Count \/ ByteWall \/ Include
    PROVE  \E k \in batch :
             /\ Examining(k) /\ Passing(k)
             /\ UNCHANGED <<store, chain, walk, presented, budget, pc, outcome>>
             /\ batch' = batch \ {k} /\ examined' = k
  <1>1. CASE FilteredOut
    BY <1>1 DEF FilteredOut, Examining, Passing
  <1>2. CASE Count
    BY <1>2 DEF Count, Examining, Passing
  <1>3. CASE ByteWall
    BY <1>3 DEF ByteWall, Examining, Passing
  <1>4. CASE Include
    BY <1>4 DEF Include, Examining, Passing
  <1> QED
    BY <1>1, <1>2, <1>3, <1>4

(* The three ways a page is stopped.                                         *)
LEMMA FinishIs ==
    ASSUME NEW tail, FinishCountingOrComplete(tail)
    PROVE  /\ pc' = "answer" /\ gap' = None /\ coverage' = coverage \cup NamedGap(Bound)
           /\ \/ counted # {} /\ outcome' = CountingDegrade(tail)
              \/ counted = {} /\ outcome' = Outcome("complete", None, None, None)
  BY DEF FinishCountingOrComplete, Stop

LEMMA StopBeforeIs ==
    ASSUME StopBeforeExamining
    PROVE  /\ pc' = "answer" /\ gap' = None
           /\ \E dimension \in {"deadline", "scan"} :
                \/ /\ counted # {} /\ outcome' = CountingDegrade(frontier)
                   /\ coverage' = coverage \cup NamedGap(Bound) \cup
                        {[kind |-> "uncounted", after |-> Max(counted), before |-> None]}
                \/ /\ counted = {} /\ examined # None
                   /\ outcome' = Outcome("degraded", dimension, Mint(examined, frontier), None)
                   /\ coverage' = coverage \cup NamedGap(Bound)
                \/ /\ counted = {} /\ examined = None
                   /\ outcome' = Outcome("refused", dimension, None, None)
                   /\ coverage' = coverage \cup NamedGap(Bound)
  BY DEF StopBeforeExamining, Stop, Expiry

LEMMA RefusedIs ==
    ASSUME ResultsRefused \/ BytesRefused
    PROVE  \E k \in batch :
             /\ Examining(k) /\ counted = {} /\ k \in Matching
             /\ pc' = "answer" /\ gap' = None /\ coverage' = coverage \cup NamedGap(k)
             /\ UNCHANGED <<batch, items, counted>>
             /\ left'.scan = ScanSettled(1, Cardinality(batch) - 1)
             /\ \E dimension \in {"deadline", "results"} :
                  /\ dimension = "results" => left.results = 0
                  /\ outcome' = IncludeAnchoredDegrade(k, dimension)
  <1>1. CASE ResultsRefused
    <2>1. PICK k \in batch :
            /\ Examining(k) /\ k \in Matching /\ counted = {}
            /\ \E dimension \in IF left.results = 0 THEN {"results"} ELSE Expiry :
                 Stop(IncludeAnchoredDegrade(k, dimension), NamedGap(k))
            /\ left' = [left EXCEPT !.scan = ScanSettled(1, Cardinality(batch) - 1)]
            /\ UNCHANGED <<batch, items, counted>>
      BY <1>1 DEF ResultsRefused
    <2> QED
      BY <2>1 DEF Stop, Expiry
  <1>2. CASE BytesRefused
    <2>1. PICK k \in batch :
            /\ Examining(k) /\ k \in Matching /\ counted = {}
            /\ \E dimension \in Expiry : Stop(IncludeAnchoredDegrade(k, dimension), NamedGap(k))
            /\ left' = [left EXCEPT !.scan = ScanSettled(1, Cardinality(batch) - 1),
                                    !.results = @ - 1]
            /\ UNCHANGED <<batch, items, counted>>
      BY <1>2 DEF BytesRefused
    <2> QED
      BY <2>1 DEF Stop, Expiry
  <1> QED
    BY <1>1, <1>2

(* A stop is of one of the four parts, and only a complete one has no        *)
(* dimension and no cursor of a stopped walk.                                *)
LEMMA StopParts ==
    ASSUME NEW tail, NEW dimension, NEW k
    PROVE  /\ CountingDegrade(tail).part = "degraded"
           /\ IncludeAnchoredDegrade(k, dimension).part = "degraded"
           /\ Outcome("complete", None, None, None).next = None
  BY DEF CountingDegrade, IncludeAnchoredDegrade, Outcome

(* The shape holds at the start.                                             *)
LEMMA ShapeInit == Init => PageShape
  BY WalkAssumption DEF Init, PageShape, InPage, NoOutcome, Parts

(* Every step keeps the shape.                                               *)
LEMMA ShapeNext == TypeOK /\ PageShape /\ [Next]_vars => PageShape'
  <1> SUFFICES ASSUME TypeOK, PageShape, [Next]_vars PROVE PageShape'
    OBVIOUS
  <1> USE DEF store, chain, walk, vars
  <1>1. ASSUME StoreKeeps \/ StoreExpires PROVE PageShape'
    BY <1>1, StoreApart DEF PageShape, InPage
  <1>2. ASSUME Admit PROVE PageShape'
    BY <1>2, WalkAssumption DEF Admit, Admitting, PageShape, InPage, NoOutcome, Parts
  <1>3. ASSUME AdmitNothing PROVE PageShape'
    BY <1>3, WalkAssumption DEF AdmitNothing, Admitting, PageShape, InPage, Outcome
  <1>4. ASSUME Pull PROVE PageShape'
    BY <1>4 DEF Pull, PageShape, InPage
  <1>5. ASSUME PullNothing PROVE PageShape'
    <2>1. pc' = "answer" /\ (outcome'.part = "complete" => outcome'.next = None)
      BY <1>5, FinishIs, StopParts DEF PullNothing
    <2> QED
      BY <1>5, <2>1 DEF PullNothing, PageShape, InPage
  <1>6. ASSUME PullStall PROVE PageShape'
    <2>1. \/ pc' = "answer" /\ outcome' = Outcome("stalled", None, None, None)
          \/ UNCHANGED <<pc, outcome>>
      BY <1>6 DEF PullStall, Stop
    <2> QED
      BY <1>6, <2>1 DEF PullStall, PageShape, InPage, Outcome
  <1>7. ASSUME BatchEnds PROVE PageShape'
    <2>1. \/ pc' = "answer" /\ (outcome'.part = "complete" => outcome'.next = None)
          \/ pc' = "pull" /\ UNCHANGED outcome
      BY <1>7, FinishIs, StopParts DEF BatchEnds
    <2> QED
      BY <1>7, <2>1 DEF BatchEnds, PageShape, InPage
  <1>8. ASSUME PastSnapshot PROVE PageShape'
    <2>1. pc' = "answer" /\ (outcome'.part = "complete" => outcome'.next = None)
      BY <1>8, FinishIs, StopParts DEF PastSnapshot
    <2> QED
      BY <1>8, <2>1 DEF PastSnapshot, PageShape, InPage
  <1>9. ASSUME StopBeforeExamining PROVE PageShape'
    <2>1. pc' = "answer" /\ outcome'.part \in {"degraded", "refused"}
      BY <1>9, StopBeforeIs, StopParts DEF Outcome
    <2> QED
      BY <1>9, <2>1 DEF StopBeforeExamining, PageShape, InPage
  <1>10. ASSUME FilteredOut \/ Count \/ ByteWall \/ Include PROVE PageShape'
    <2>1. pc = "examine"
      BY <1>10, PassingOn DEF Examining
    <2> QED
      BY <1>10, <2>1, PassingOn DEF PageShape, InPage
  <1>11. ASSUME ResultsRefused \/ BytesRefused PROVE PageShape'
    <2>1. PICK k \in batch : Examining(k) /\ pc' = "answer" /\ outcome'.part = "degraded"
      BY <1>11, RefusedIs, StopParts
    <2> QED
      BY <2>1 DEF Examining, PageShape, InPage
  <1>12. ASSUME Answer PROVE PageShape'
    BY <1>12 DEF Answer, PageShape, InPage
  <1>13. ASSUME ChainStops PROVE PageShape'
    BY <1>13 DEF ChainStops, PageShape, InPage
  <1>14. ASSUME UNCHANGED vars PROVE PageShape'
    BY <1>14 DEF PageShape, InPage
  <1> QED
    BY <1>1, <1>2, <1>3, <1>4, <1>5, <1>6, <1>7, <1>8, <1>9, <1>10, <1>11, <1>12, <1>13, <1>14,
       Zenon DEF Next, Page

(* What an open page has spent: a result and its evidence for every record   *)
(* returned, one more result at a byte wall, a scan for every record pulled  *)
(* and no longer in the batch.                                               *)
Spent ==
    InPage =>
      /\ Len(items) + left.results <= budget.results
      /\ counted = {} => Len(items) + left.results = budget.results
      /\ BytesOf(items) + left.bytes = budget.bytes
      /\ left.scan + pulled = budget.scan + Cardinality(batch)

WithinCeilings == budget # None => Len(items) <= budget.results /\ BytesOf(items) <= budget.bytes

ScanCharged ==
    pc = "answer" /\ outcome.part \in {"degraded", "refused"} =>
      budget.scan - left.scan = IF pulled > budget.scan THEN budget.scan ELSE pulled

SpendInv == TypeOK /\ PageShape /\ Spent /\ WithinCeilings /\ ScanCharged

(* Settling the abandoned tail charges the ceiling or what was pulled.       *)
LEMMA Settles ==
    ASSUME left.scan \in Nat, NEW charge \in {0, 1}, charge <= left.scan, NEW n \in Nat,
           NEW p \in Nat, NEW b \in Nat, left.scan - charge + p = b + n
    PROVE  b - ScanSettled(charge, n) = IF p > b THEN b ELSE p
  BY DEF ScanSettled

(* One record less in the batch, one scan less to spend.                     *)
LEMMA OneLess ==
    ASSUME NEW l \in Nat, NEW p \in Nat, NEW b \in Nat, NEW n \in Nat, l + p = b + n
    PROVE  l - 1 + p = b + (n - 1)
  OBVIOUS

(* The amounts of an open page are numbers.                                  *)
LEMMA AmountsAre ==
    ASSUME TypeOK, PageShape
    PROVE  /\ left.results \in Nat /\ left.bytes \in Nat /\ left.scan \in Nat /\ pulled \in Nat
           /\ budget # None => budget.results \in Nat /\ budget.bytes \in Nat /\ budget.scan \in Nat
           /\ Len(items) \in Nat /\ BytesOf(items) \in Nat
           /\ IsFiniteSet(batch) /\ Cardinality(batch) \in Nat
           /\ items = <<>> => Len(items) = 0 /\ BytesOf(items) = 0
           /\ batch = {} => Cardinality(batch) = 0
           /\ Cardinality({}) = 0 /\ Len(<<>>) = 0 /\ BytesOf(<<>>) = 0
  <1>1. MaxKey \in Keys
    BY BoundIsKey
  <1>2. batch \subseteq Keys /\ items \in Seq(Keys)
    BY DEF TypeOK
  <1>3. BytesOf(items) \in Nat /\ BytesOf(<<>>) = 0
    BY <1>1, <1>2, BytesGrow
  <1>4. IsFiniteSet(batch) /\ Cardinality(batch) \in Nat
    BY <1>2, KeysFinite, FS_CardinalityType
  <1>5. budget # None => budget \in Amounts
    BY WalkAssumption DEF TypeOK, Amounts
  <1>6. Len(items) \in Nat /\ Len(<<>>) = 0
    BY <1>2
  <1>7. Cardinality({}) = 0
    BY FS_EmptySet
  <1> QED
    BY <1>3, <1>4, <1>5, <1>6, <1>7 DEF TypeOK, Amounts

(* A page stopped in order keeps its spending within the ceilings.           *)
LEMMA StopSpends ==
    ASSUME SpendInv, InPage, pc' = "answer", UNCHANGED <<items, budget>>,
           outcome'.part \in {"degraded", "refused"} =>
             budget'.scan - left'.scan
               = IF pulled' > budget'.scan THEN budget'.scan ELSE pulled'
    PROVE  Spent' /\ WithinCeilings' /\ ScanCharged'
  <1>1. Len(items) <= budget.results /\ BytesOf(items) <= budget.bytes
    BY AmountsAre DEF SpendInv, PageShape, Spent, InPage
  <1> QED
    BY <1>1 DEF Spent, WithinCeilings, ScanCharged, InPage

(* A step that goes on in the page keeps what was spent and the ceilings.    *)
LEMMA GoOnSpends ==
    ASSUME SpendInv, TypeOK', PageShape', InPage', Spent'
    PROVE  WithinCeilings' /\ ScanCharged'
  <1>1. /\ Len(items') \in Nat /\ BytesOf(items') \in Nat
        /\ left'.results \in Nat /\ left'.bytes \in Nat
        /\ budget' # None => budget'.results \in Nat /\ budget'.bytes \in Nat
    <2>1. MaxKey \in Keys
      BY BoundIsKey DEF SpendInv
    <2>2. items' \in Seq(Keys)
      BY DEF TypeOK
    <2>3. BytesOf(items') \in Nat
      BY <2>1, <2>2, BytesGrow
    <2>4. budget' # None => budget' \in Amounts
      BY WalkAssumption DEF TypeOK, Amounts
    <2> QED
      BY <2>2, <2>3, <2>4 DEF TypeOK, Amounts
  <1> QED
    BY <1>1 DEF WithinCeilings, ScanCharged, Spent, InPage

(* The spending is in order at the start.                                    *)
LEMMA SpendInit == Init => SpendInv
  BY TypeInit, ShapeInit DEF SpendInv, Init, Spent, WithinCeilings, ScanCharged, InPage

(* Every step keeps a page within its ceilings and its scan charged.         *)
LEMMA SpendNext == SpendInv /\ [Next]_vars => SpendInv'
  <1> SUFFICES ASSUME SpendInv, [Next]_vars PROVE SpendInv'
    OBVIOUS
  <1> DEFINE Goal == Spent' /\ WithinCeilings' /\ ScanCharged'
  <1>0. TypeOK' /\ PageShape'
    BY TypeNext, ShapeNext DEF SpendInv
  <1> SUFFICES Goal
    BY <1>0 DEF SpendInv
  <1> USE DEF store, chain, walk, vars
  <1>1. /\ left.results \in Nat /\ left.bytes \in Nat /\ left.scan \in Nat /\ pulled \in Nat
        /\ budget # None => budget.results \in Nat /\ budget.bytes \in Nat /\ budget.scan \in Nat
        /\ Len(items) \in Nat /\ BytesOf(items) \in Nat
        /\ IsFiniteSet(batch) /\ Cardinality(batch) \in Nat
        /\ items = <<>> => Len(items) = 0 /\ BytesOf(items) = 0
        /\ batch = {} => Cardinality(batch) = 0
        /\ Cardinality({}) = 0 /\ Len(<<>>) = 0 /\ BytesOf(<<>>) = 0
    BY AmountsAre DEF SpendInv
  <1>2. /\ InPage => budget # None
        /\ InPage => budget.results \in Nat /\ budget.bytes \in Nat /\ budget.scan \in Nat
        /\ InPage => /\ Len(items) + left.results <= budget.results
                     /\ counted = {} => Len(items) + left.results = budget.results
                     /\ BytesOf(items) + left.bytes = budget.bytes
                     /\ left.scan + pulled = budget.scan + Cardinality(batch)
    BY <1>1 DEF SpendInv, PageShape, Spent
  <1>3. ASSUME StoreKeeps \/ StoreExpires PROVE Goal
    BY <1>3, StoreApart DEF StoreKeeps, StoreExpires, SpendInv, Spent, WithinCeilings,
                            ScanCharged, InPage
  <1>4. ASSUME Admit PROVE Goal
    <2>1. budget' \in Amounts
      BY <1>4, WalkAssumption DEF Admit, Admitting, Amounts
    <2>2. Spent'
      <3>1. /\ items' = <<>> /\ batch' = {} /\ pulled' = 0 /\ left' = budget'
            /\ budget'.results \in Nat /\ budget'.bytes \in Nat /\ budget'.scan \in Nat
        BY <1>4, <2>1 DEF Admit, Admitting, Amounts
      <3>2. Len(items') = 0 /\ BytesOf(items') = 0 /\ Cardinality(batch') = 0
        BY <1>1, <3>1
      <3>3. \A b \in Nat : 0 + b <= b /\ 0 + b = b /\ b + 0 = b
        OBVIOUS
      <3>4. /\ Len(items') + left'.results <= budget'.results
            /\ Len(items') + left'.results = budget'.results
            /\ BytesOf(items') + left'.bytes = budget'.bytes
            /\ left'.scan + pulled' = budget'.scan + Cardinality(batch')
        BY <3>1, <3>2, <3>3
      <3> QED
        BY <3>4 DEF Spent
    <2>3. InPage'
      BY <1>4 DEF Admit, InPage
    <2> QED
      BY <1>0, <2>2, <2>3, GoOnSpends
  <1>5. ASSUME AdmitNothing PROVE Goal
    <2>1. budget' \in Amounts
      BY <1>5, WalkAssumption DEF AdmitNothing, Admitting, Amounts
    <2> QED
      BY <1>1, <1>5, <2>1 DEF AdmitNothing, Admitting, Spent, InPage, Amounts, WithinCeilings,
                              ScanCharged, Outcome
  <1>6. ASSUME Pull PROVE Goal
    <2>1. Cardinality(Scanned) \in Nat
      BY ScannedIs DEF SpendInv
    <2>2. batch = {} /\ InPage /\ InPage'
      BY <1>6 DEF Pull, SpendInv, PageShape, InPage
    <2>3. Spent'
      <3>1. /\ UNCHANGED <<items, counted, left, budget>> /\ batch' = Scanned
            /\ pulled' = pulled + Cardinality(Scanned)
        BY <1>6 DEF Pull
      <3>2. left.scan + pulled = budget.scan + 0
        BY <1>1, <1>2, <2>2
      <3>3. left.scan \in Nat /\ pulled \in Nat /\ budget.scan \in Nat
        BY <1>1, <1>2, <2>2
      <3>4. left.scan + (pulled + Cardinality(Scanned)) = budget.scan + Cardinality(Scanned)
        BY <2>1, <3>2, <3>3
      <3> QED
        BY <1>2, <2>2, <3>1, <3>4 DEF Spent
    <2> QED
      BY <1>0, <2>2, <2>3, GoOnSpends
  <1>7. ASSUME InPage, batch = {}, pc' = "answer", UNCHANGED <<items, budget, left, pulled>>
        PROVE  Goal
    <2>1. budget'.scan - left'.scan = IF pulled' > budget'.scan THEN budget'.scan ELSE pulled'
      BY <1>1, <1>2, <1>7
    <2> QED
      BY <1>7, <2>1, StopSpends
  <1>8. ASSUME InPage, InPage', UNCHANGED <<items, budget, left, pulled, batch, counted>>
        PROVE  Goal
    <2>1. Spent'
      BY <1>2, <1>8 DEF Spent
    <2> QED
      BY <1>0, <1>8, <2>1, GoOnSpends
  <1>9. ASSUME PullNothing PROVE Goal
    <2>1. pc' = "answer"
      BY <1>9, FinishIs DEF PullNothing
    <2> QED
      BY <1>7, <1>9, <2>1 DEF PullNothing, SpendInv, PageShape, InPage
  <1>10. ASSUME PullStall PROVE Goal
    <2>1. pc' = "answer" \/ pc' = pc
      BY <1>10 DEF PullStall, Stop
    <2>2. /\ InPage /\ batch = {} /\ UNCHANGED <<items, budget, left, pulled, batch, counted>>
          /\ pc = "pull"
      BY <1>10 DEF PullStall, SpendInv, PageShape, InPage
    <2>3. CASE pc' = "answer"
      BY <1>7, <2>2, <2>3
    <2>4. CASE pc' = pc
      BY <1>8, <2>2, <2>4 DEF InPage
    <2> QED
      BY <2>1, <2>3, <2>4
  <1>11. ASSUME BatchEnds PROVE Goal
    <2>1. pc' = "answer" \/ pc' = "pull"
      BY <1>11, FinishIs DEF BatchEnds
    <2>2. InPage /\ batch = {} /\ UNCHANGED <<items, budget, left, pulled, batch, counted>>
      BY <1>11 DEF BatchEnds, InPage
    <2>3. CASE pc' = "answer"
      BY <1>7, <2>2, <2>3
    <2>4. CASE pc' = "pull"
      BY <1>8, <2>2, <2>4 DEF InPage
    <2> QED
      BY <2>1, <2>3, <2>4
  <1>12. ASSUME PastSnapshot \/ StopBeforeExamining PROVE Goal
    <2>1. /\ InPage /\ UNCHANGED <<items, budget, pulled>> /\ pc' = "answer"
          /\ left'.scan = ScanSettled(0, Cardinality(batch))
      <3>1. CASE PastSnapshot
        BY <3>1, FinishIs DEF PastSnapshot, InPage, SpendInv, TypeOK
      <3>2. CASE StopBeforeExamining
        BY <3>2, StopBeforeIs DEF StopBeforeExamining, InPage, SpendInv, TypeOK
      <3> QED
        BY <1>12, <3>1, <3>2
    <2>2. left.scan - 0 + pulled = budget.scan + Cardinality(batch)
      BY <1>1, <1>2, <2>1
    <2>3. 0 <= left.scan
      BY <1>1
    <2>4. budget.scan - ScanSettled(0, Cardinality(batch))
            = IF pulled > budget.scan THEN budget.scan ELSE pulled
      BY <1>1, <1>2, <2>1, <2>2, <2>3, Settles
    <2> QED
      BY <2>1, <2>4, StopSpends
  <1>13. ASSUME ResultsRefused \/ BytesRefused PROVE Goal
    <2>1. PICK k \in batch :
            /\ Examining(k) /\ pc' = "answer" /\ UNCHANGED <<batch, items, counted>>
            /\ left'.scan = ScanSettled(1, Cardinality(batch) - 1)
      BY <1>13, RefusedIs
    <2>2. InPage /\ UNCHANGED <<budget, pulled>> /\ left.scan > 0
      BY <2>1 DEF Examining, InPage
    <2>3. Cardinality(batch) # 0
      BY <1>1, FS_EmptySet
    <2>4. Cardinality(batch) - 1 \in Nat /\ 1 <= left.scan
      BY <1>1, <2>2, <2>3
    <2>5. left.scan - 1 + pulled = budget.scan + (Cardinality(batch) - 1)
      <3>1. left.scan + pulled = budget.scan + Cardinality(batch)
        BY <1>2, <2>2
      <3>2. /\ left.scan \in Nat /\ pulled \in Nat /\ budget.scan \in Nat
            /\ Cardinality(batch) \in Nat
        BY <1>1, <1>2, <2>2
      <3> QED
        BY <3>1, <3>2, OneLess
    <2>6. budget.scan - ScanSettled(1, Cardinality(batch) - 1)
            = IF pulled > budget.scan THEN budget.scan ELSE pulled
      BY <1>1, <1>2, <2>2, <2>4, <2>5, Settles
    <2> QED
      BY <2>1, <2>2, <2>6, StopSpends
  <1>14. ASSUME NEW k \in batch, Examining(k), Passing(k), left'.scan = left.scan - 1
         PROVE  /\ InPage /\ InPage' /\ UNCHANGED <<budget, pulled>>
                /\ left'.scan + pulled' = budget'.scan + Cardinality(batch')
    <2>1. InPage /\ InPage' /\ UNCHANGED <<budget, pulled>> /\ batch' = batch \ {k}
      BY <1>14 DEF Examining, Passing, InPage
    <2>2. Cardinality(batch') = Cardinality(batch) - 1
      BY <1>1, <2>1, FS_RemoveElement
    <2>3. left.scan - 1 + pulled = budget.scan + (Cardinality(batch) - 1)
      <3>1. left.scan + pulled = budget.scan + Cardinality(batch)
        BY <1>2, <2>1
      <3>2. /\ left.scan \in Nat /\ pulled \in Nat /\ budget.scan \in Nat
            /\ Cardinality(batch) \in Nat
        BY <1>1, <1>2, <2>1
      <3> QED
        BY <3>1, <3>2, OneLess
    <2> QED
      BY <1>14, <2>1, <2>2, <2>3
  <1>15. ASSUME FilteredOut \/ Count PROVE Goal
    <2>1. PICK k \in batch :
            /\ Examining(k) /\ Passing(k)
            /\ left' = [left EXCEPT !.scan = @ - 1] /\ UNCHANGED items
            /\ counted' = {} => counted = {}
      BY <1>15 DEF FilteredOut, Count
    <2>2. /\ left'.scan = left.scan - 1 /\ left'.results = left.results
          /\ left'.bytes = left.bytes
      BY <2>1 DEF SpendInv, TypeOK
    <2>3. Spent'
      BY <1>2, <1>14, <2>1, <2>2 DEF Spent
    <2> QED
      BY <1>0, <1>14, <2>1, <2>2, <2>3, GoOnSpends
  <1>16. ASSUME ByteWall PROVE Goal
    <2>1. PICK k \in batch :
            /\ Examining(k) /\ Passing(k) /\ left.results > 0
            /\ left' = [left EXCEPT !.scan = @ - 1, !.results = @ - 1] /\ UNCHANGED items
            /\ counted' = {k}
      BY <1>16 DEF ByteWall
    <2>2. /\ left'.scan = left.scan - 1 /\ left'.results = left.results - 1
          /\ left'.bytes = left.bytes
      BY <2>1 DEF SpendInv, TypeOK
    <2>3. counted' # {}
      BY <2>1
    <2>4. InPage /\ UNCHANGED <<budget, items>>
      BY <1>14, <2>1, <2>2
    <2>5. /\ Len(items) + left.results <= budget.results /\ Len(items) \in Nat
          /\ left.results \in Nat /\ budget.results \in Nat
          /\ BytesOf(items) + left.bytes = budget.bytes
      BY <1>1, <1>2, <2>4
    <2>6. Len(items) + (left.results - 1) <= budget.results
      BY <2>5
    <2>7. Spent'
      BY <1>14, <2>1, <2>2, <2>3, <2>4, <2>5, <2>6 DEF Spent
    <2> QED
      BY <1>0, <1>14, <2>1, <2>2, <2>7, GoOnSpends
  <1>17. ASSUME Include PROVE Goal
    <2>1. PICK k \in batch :
            /\ Examining(k) /\ Passing(k) /\ left.results > 0 /\ left.bytes >= Evidence[k]
            /\ left' = [scan |-> left.scan - 1, results |-> left.results - 1,
                        bytes |-> left.bytes - Evidence[k]]
            /\ items' = Append(items, k) /\ counted = {} /\ UNCHANGED counted
      BY <1>17 DEF Include
    <2>2. k \in Keys /\ items \in Seq(Keys) /\ Evidence[k] \in Nat
      BY WalkAssumption DEF SpendInv, TypeOK
    <2>3. /\ Len(items') = Len(items) + 1
          /\ BytesOf(items') = BytesOf(items) + Evidence[k]
      BY <2>1, <2>2, BytesGrow
    <2>4. /\ left'.scan = left.scan - 1 /\ left'.results = left.results - 1
          /\ left'.bytes = left.bytes - Evidence[k]
      BY <2>1
    <2>5. InPage /\ budget' = budget
      BY <1>14, <2>1, <2>4
    <2>6. /\ Len(items') + left'.results = budget'.results
          /\ BytesOf(items') + left'.bytes = budget'.bytes
      <3>1. /\ Len(items) + left.results = budget.results
            /\ BytesOf(items) + left.bytes = budget.bytes
        BY <1>2, <2>1, <2>5
      <3>2. /\ Len(items) \in Nat /\ left.results \in Nat /\ budget.results \in Nat
            /\ BytesOf(items) \in Nat /\ left.bytes \in Nat /\ budget.bytes \in Nat
        BY <1>1, <1>2, <2>5
      <3>3. Len(items) + 1 + (left.results - 1) = budget.results
        BY <3>1, <3>2
      <3>4. BytesOf(items) + Evidence[k] + (left.bytes - Evidence[k]) = budget.bytes
        BY <2>2, <3>1, <3>2
      <3> QED
        BY <2>3, <2>4, <2>5, <3>3, <3>4
    <2>7. Len(items') + left'.results <= budget'.results
      <3>1. budget'.results \in Nat
        BY <1>2, <2>5
      <3> QED
        BY <2>6, <3>1
    <2>8. Spent'
      BY <1>14, <2>1, <2>4, <2>6, <2>7 DEF Spent
    <2> QED
      BY <1>0, <1>14, <2>1, <2>4, <2>8, GoOnSpends
  <1>18. ASSUME Answer PROVE Goal
    <2>1. items' = <<>> /\ pc' \in {"admit", "done"} /\ UNCHANGED budget
      BY <1>18 DEF Answer
    <2> QED
      BY <1>1, <2>1 DEF Spent, WithinCeilings, ScanCharged, InPage
  <1>19. ASSUME ChainStops PROVE Goal
    BY <1>19 DEF ChainStops, SpendInv, Spent, WithinCeilings, ScanCharged, InPage
  <1>20. ASSUME UNCHANGED vars PROVE Goal
    BY <1>20 DEF SpendInv, Spent, WithinCeilings, ScanCharged, InPage
  <1> QED
    BY <1>3, <1>4, <1>5, <1>6, <1>9, <1>10, <1>11, <1>12, <1>13, <1>15, <1>16, <1>17, <1>18,
       <1>19, <1>20, Zenon DEF Next, Page

(* Every page stays within the ceilings it was admitted with, and its scan   *)
(* ledger charges each pulled record once, examined or abandoned, up to the  *)
(* ceiling: over any driver, one that breaks its contract included           *)
(* (spend.rs: settle_scan; engine.rs: settle).                               *)
THEOREM PagesWithinBudget == Spec => []BudgetKept
  <1>1. SpendInv => BudgetKept
    BY DEF SpendInv, WithinCeilings, ScanCharged, BudgetKept
  <1> QED
    BY <1>1, SpendInit, SpendNext, PTL DEF Spec

-----------------------------------------------------------------------------
(* Where the walk stands: over a driver that keeps the scan contract,        *)
(* everything moves forward.                                                 *)

Behind(k) == presented # None /\ k <= presented.anchor
Beyond(k) == presented = None \/ presented.anchor < k

(* Returned or counted by the page at hand.                                  *)
Met(k) == InSeq(k, items) \/ k \in counted

(* What earlier pages returned lies behind the cursor the page was opened    *)
(* with, and a cursor is anchored inside its snapshot.                       *)
ChainPlaced ==
    /\ presented # None => presented.anchor \in kept /\ presented.anchor <= presented.snapshot
    /\ pc # "done" => \A k \in Keys : InSeq(k, delivered) => Behind(k)
    /\ InOrder(delivered)

(* What the page met lies beyond that cursor, in order, up to the last       *)
(* record examined; what it counted comes after what it returned.            *)
PagePlaced ==
    /\ InOrder(items)
    /\ \A j, k \in Keys : InSeq(j, items) /\ k \in counted => j < k
    /\ \A k \in Keys : Met(k) =>
         examined # None /\ k <= examined /\ Beyond(k) /\ k \in kept /\ InSnapshot(k)

(* The walk never turns back: examined, then the batch, then the frontier.   *)
WalkPlaced ==
    /\ batch \subseteq kept
    /\ InPage =>
         /\ examined # None => examined \in kept /\ Beyond(examined) /\ InSnapshot(examined)
         /\ presented # None => presented.anchor <= after
    /\ pc = "pull" /\ examined # None => examined <= after
    /\ pc = "examine" =>
         /\ frontier # None /\ after < frontier /\ more \in {None, frontier}
         /\ \A k \in batch : after < k /\ k <= frontier
         /\ examined # None => examined <= frontier /\ \A k \in batch : examined < k

(* The cursor a page answers with keeps the snapshot and lies at or behind   *)
(* all the page met, or is the very cursor presented, at a deadline.         *)
NextPlaced ==
    pc = "answer" /\ outcome.next # None =>
      /\ outcome.next.anchor \in kept /\ outcome.next.anchor <= outcome.next.snapshot
      /\ presented # None => outcome.next.snapshot = presented.snapshot
      /\ \/ Beyond(outcome.next.anchor) /\ \A k \in Keys : Met(k) => k <= outcome.next.anchor
         \/ outcome.next = presented /\ outcome.dimension = "deadline"

Placed == Conforming => ChainPlaced /\ PagePlaced /\ WalkPlaced /\ NextPlaced

PlacedInv == SpendInv /\ Placed

(* At most, then less, is less.                                              *)
LEMMA Between ==
    ASSUME NEW a \in Nat, NEW b \in Nat, NEW c \in Nat, a <= b, b < c
    PROVE  a < c /\ a <= c
  OBVIOUS

(* Nothing is met between pages.                                             *)
LEMMA NothingMet == \A k : ~InSeq(k, <<>>)
  BY DEF InSeq

(* A cursor minted at a record met by the page.                              *)
LEMMA MintPlaced ==
    ASSUME TypeOK, NEW k \in Keys, k \in kept, Beyond(k), InSnapshot(k),
           NEW tail \in Keys \cup {None}, tail # None => k <= tail
    PROVE  /\ Mint(k, tail).anchor = k /\ k <= Mint(k, tail).snapshot
           /\ presented # None => Mint(k, tail).snapshot = presented.snapshot
           /\ Mint(k, tail) # None
  <1>1. k <= k
    BY KeysFinite
  <1>2. Mint(k, tail) \in Cursors
    BY OutcomeTypes, BoundIsKey DEF Dimensions
  <1> QED
    BY <1>1, <1>2, WalkAssumption DEF Mint, InSnapshot, Bound

(* The record being examined follows everything met.                         *)
LEMMA ExaminingPlaced ==
    ASSUME PlacedInv, Conforming, NEW k \in batch, Examining(k)
    PROVE  /\ k \in Keys /\ k \in kept /\ Beyond(k) /\ InSnapshot(k)
           /\ after < k /\ k <= frontier /\ frontier \in Keys
           /\ examined # None => examined < k
           /\ \A j \in batch : k <= j
           /\ \A j \in Keys : Met(j) => j < k
  <1>1. k \in Keys /\ batch \subseteq Keys /\ after \in Keys \cup {0}
        /\ (examined # None => examined \in Keys)
        /\ (presented # None => presented.anchor \in Keys)
        /\ frontier \in Keys \cup {None}
    BY DEF PlacedInv, SpendInv, TypeOK, Cursors
  <1>2. Keys \subseteq Nat
    BY KeysFinite
  <1>3. pc = "examine" /\ InPage /\ k = Min(batch) /\ InSnapshot(k)
    BY DEF Examining, Yielded, InPage
  <1>4. \A j \in batch : k <= j
    BY <1>1, <1>3, KeyExtremes
  <1>5. k \in kept /\ after < k /\ k <= frontier /\ frontier # None
        /\ (examined # None => examined < k)
    BY <1>3 DEF PlacedInv, Placed, WalkPlaced
  <1>6. Beyond(k)
    <2>1. presented # None => presented.anchor <= after
      BY <1>3 DEF PlacedInv, Placed, WalkPlaced
    <2> QED
      BY <1>1, <1>2, <1>5, <2>1 DEF Beyond
  <1>7. ASSUME NEW j \in Keys, Met(j) PROVE j < k
    <2>1. examined # None /\ j <= examined
      BY <1>7 DEF PlacedInv, Placed, PagePlaced
    <2> QED
      BY <1>1, <1>2, <1>5, <2>1
  <1> QED
    BY <1>1, <1>3, <1>4, <1>5, <1>6, <1>7

(* The cursor of a byte wall.                                                *)
LEMMA CountingPlaced ==
    ASSUME PlacedInv, Conforming, counted # {}, NEW tail \in Keys \cup {None},
           tail # None => tail = frontier /\ pc = "examine"
    PROVE  /\ CountingDegrade(tail).next = Mint(Max(counted), tail)
           /\ Max(counted) \in Keys /\ Max(counted) \in kept
           /\ Beyond(Max(counted)) /\ InSnapshot(Max(counted))
           /\ tail # None => Max(counted) <= tail
           /\ \A k \in Keys : Met(k) => k <= Max(counted)
           /\ examined # None /\ Max(counted) <= examined
  <1> DEFINE m == Max(counted)
  <1>1. m \in counted /\ \A k \in counted : k <= m
    BY KeyExtremes DEF PlacedInv, SpendInv, TypeOK
  <1>2. m \in Keys /\ Keys \subseteq Nat
    BY <1>1, KeysFinite DEF PlacedInv, SpendInv, TypeOK
  <1> HIDE DEF m
  <1>3. examined # None /\ m <= examined /\ Beyond(m) /\ m \in kept /\ InSnapshot(m)
    BY <1>1, <1>2 DEF PlacedInv, Placed, PagePlaced, Met
  <1>4. \A k \in Keys : Met(k) => k <= m
    <2>1. \A k \in Keys : InSeq(k, items) => k < m
      BY <1>1, <1>2 DEF PlacedInv, Placed, PagePlaced
    <2> QED
      BY <1>1, <1>2, <2>1 DEF Met
  <1>5. tail # None => m <= tail
    <2> SUFFICES ASSUME tail # None PROVE m <= tail
      OBVIOUS
    <2>1. examined <= tail /\ examined \in Keys /\ tail \in Keys
      BY <1>3 DEF PlacedInv, Placed, WalkPlaced, SpendInv, TypeOK
    <2>2. m \in Nat /\ examined \in Nat /\ tail \in Nat /\ m <= examined
      BY <1>2, <1>3, <2>1
    <2> QED
      BY <2>1, <2>2
  <1>6. CountingDegrade(tail).next = Mint(m, tail)
    BY DEF CountingDegrade, Outcome, m
  <1> QED
    BY <1>2, <1>3, <1>4, <1>5, <1>6 DEF m

(* The last record of a page.                                                *)
LEMMA LastPlaced ==
    ASSUME PlacedInv, Conforming, items # <<>>
    PROVE  /\ LastIncluded \in Keys /\ LastIncluded \in kept
           /\ Beyond(LastIncluded) /\ InSnapshot(LastIncluded)
           /\ examined # None /\ LastIncluded <= examined
           /\ \A k \in Keys : InSeq(k, items) => k <= LastIncluded
  <1>1. items \in Seq(Keys) /\ InOrder(items)
    BY DEF PlacedInv, Placed, PagePlaced, SpendInv, TypeOK
  <1>2. LastIncluded \in Keys /\ InSeq(LastIncluded, items)
        /\ \A k \in Keys : InSeq(k, items) => k <= LastIncluded
    BY <1>1, LastIsGreatest DEF LastIncluded
  <1> QED
    BY <1>2 DEF PlacedInv, Placed, PagePlaced, Met

(* The walk stands in place at the start.                                    *)
LEMMA PlacedInit == Init => PlacedInv
  BY SpendInit, NothingMet, KeysFinite
     DEF Init, PlacedInv, Placed, ChainPlaced, PagePlaced, WalkPlaced, NextPlaced, Met, InPage,
         InOrder

(* A page stopped behind what it met answers with a cursor in place.         *)
LEMMA StopPlaces ==
    ASSUME PlacedInv, Conforming, pc # "done", pc' = "answer",
           UNCHANGED <<store, chain, presented, batch, items, counted>>,
           \A k \in Keys : Met(k) => examined' # None /\ k <= examined',
           NextPlaced'
    PROVE  Placed'
  <1> USE DEF store, chain
  <1>1. ChainPlaced'
    BY DEF PlacedInv, Placed, ChainPlaced, Behind
  <1>2. PagePlaced'
    BY DEF PlacedInv, Placed, PagePlaced, Met, Beyond, InSnapshot, Bound
  <1>3. WalkPlaced'
    BY DEF PlacedInv, Placed, WalkPlaced, InPage
  <1> QED
    BY <1>1, <1>2, <1>3 DEF Placed

(* A page that goes on behind an examined record stays in place.             *)
LEMMA PassPlaces ==
    ASSUME PlacedInv, Conforming, NEW k \in batch, Examining(k), Passing(k),
           InOrder(items'),
           \A j \in Keys : InSeq(j, items') => InSeq(j, items) \/ j = k,
           \/ counted' = counted \/ items' = items,
           counted' # counted => counted' = counted \cup {k},
           counted # {} => items' = items
    PROVE  Placed'
  <1> USE DEF store, chain, walk
  <1>1. /\ k \in Keys /\ k \in kept /\ Beyond(k) /\ InSnapshot(k) /\ after < k /\ k <= frontier
        /\ \A j \in batch : k <= j
        /\ \A j \in Keys : Met(j) => j < k
    BY ExaminingPlaced
  <1>2. /\ UNCHANGED <<driver, resident, kept, steady, pages, delivered, skipped, after, more,
                       frontier, empties, pulled, presented, budget, pc>>
        /\ pc = "examine" /\ examined' = k /\ batch' = batch \ {k}
    BY DEF Examining, Passing
  <1>3. batch \subseteq Keys /\ Keys \subseteq Nat /\ counted \subseteq Keys
    BY KeysFinite DEF PlacedInv, SpendInv, TypeOK
  <1>4. ChainPlaced'
    BY <1>2 DEF PlacedInv, Placed, ChainPlaced, Behind
  <1>5. \A j \in Keys : Met(j)' => Met(j) \/ j = k
    BY DEF Met
  <1>6. PagePlaced'
    <2>1. \A i, j \in Keys : InSeq(i, items') /\ j \in counted' => i < j
      <3> SUFFICES ASSUME NEW i \in Keys, NEW j \in Keys, InSeq(i, items'), j \in counted'
                   PROVE  i < j
        OBVIOUS
      <3>1. CASE InSeq(i, items) /\ j \in counted
        BY <3>1 DEF PlacedInv, Placed, PagePlaced
      <3>2. CASE InSeq(i, items) /\ j = k
        BY <1>1, <3>2 DEF Met
      <3> QED
        BY <3>1, <3>2
    <2>2. \A j \in Keys : Met(j)' => j <= k /\ Beyond(j) /\ j \in kept /\ InSnapshot(j)
      <3>1. \A j \in Keys : Met(j) => j < k /\ Beyond(j) /\ j \in kept /\ InSnapshot(j)
        BY <1>1 DEF PlacedInv, Placed, PagePlaced
      <3> QED
        BY <1>1, <1>3, <1>5, <3>1
    <2>3. \A j : Beyond(j)' = Beyond(j) /\ InSnapshot(j)' = InSnapshot(j)
      BY <1>2 DEF Beyond, InSnapshot, Bound
    <2>4. k # None
      BY <1>1, WalkAssumption
    <2> QED
      BY <1>2, <2>1, <2>2, <2>3, <2>4 DEF PagePlaced
  <1>7. WalkPlaced'
    <2>1. \A j \in batch' : k < j
      BY <1>1, <1>2, <1>3
    <2>2. k \in kept' /\ Beyond(k)' /\ InSnapshot(k)'
      BY <1>1, <1>2 DEF Beyond, InSnapshot, Bound
    <2> QED
      BY <1>1, <1>2, <2>1, <2>2 DEF PlacedInv, Placed, WalkPlaced, InPage
  <1>8. NextPlaced'
    BY <1>2 DEF NextPlaced
  <1> QED
    BY <1>4, <1>6, <1>7, <1>8 DEF Placed

(* A byte wall's cursor is in place.                                         *)
LEMMA CountingNext ==
    ASSUME PlacedInv, Conforming, counted # {}, NEW tail \in Keys \cup {None},
           tail # None => tail = frontier /\ pc = "examine",
           outcome' = CountingDegrade(tail), UNCHANGED <<store, presented, items, counted>>
    PROVE  NextPlaced'
  <1> DEFINE m == Max(counted)
             n == Mint(m, tail)
  <1>1. /\ CountingDegrade(tail).next = n
        /\ m \in Keys /\ m \in kept /\ Beyond(m) /\ InSnapshot(m)
        /\ tail # None => m <= tail
        /\ \A k \in Keys : Met(k) => k <= m
    BY CountingPlaced
  <1>2. TypeOK
    BY DEF PlacedInv, SpendInv
  <1>3. /\ n.anchor = m /\ m <= n.snapshot
        /\ presented # None => n.snapshot = presented.snapshot
    BY <1>1, <1>2, MintPlaced
  <1> HIDE DEF m, n
  <1>4. outcome'.next = n
    BY <1>1
  <1> QED
    BY <1>1, <1>3, <1>4 DEF NextPlaced, Beyond, Met, store

(* The stop at an examined record is in place: with nothing returned, only   *)
(* a passed deadline can have refused it.                                    *)
LEMMA AnchoredNext ==
    ASSUME PlacedInv, Conforming, pc = "examine", counted = {}, NEW k \in batch, Examining(k),
           NEW dimension \in {"deadline", "results"},
           dimension = "results" => left.results = 0,
           outcome' = IncludeAnchoredDegrade(k, dimension),
           UNCHANGED <<store, presented, items, counted>>
    PROVE  NextPlaced'
  <1>1. TypeOK /\ frontier \in Keys \cup {None}
    BY DEF PlacedInv, SpendInv, TypeOK
  <1>2. CASE items # <<>>
    <2> DEFINE m == LastIncluded
               n == Mint(m, frontier)
    <2>1. /\ m \in Keys /\ m \in kept /\ Beyond(m) /\ InSnapshot(m)
          /\ examined # None /\ m <= examined
          /\ \A j \in Keys : InSeq(j, items) => j <= m
      BY <1>2, LastPlaced
    <2>2. frontier # None => m <= frontier
      <3>1. examined <= frontier /\ frontier \in Keys /\ examined \in Keys
        BY <1>1, <2>1 DEF PlacedInv, Placed, WalkPlaced, SpendInv, TypeOK
      <3>2. Keys \subseteq Nat
        BY KeysFinite
      <3>3. m \in Nat /\ frontier \in Nat /\ examined \in Nat
        BY <2>1, <3>1, <3>2
      <3> HIDE DEF m
      <3> QED
        BY <2>1, <3>1, <3>3
    <2>3. /\ n.anchor = m /\ m <= n.snapshot
          /\ presented # None => n.snapshot = presented.snapshot
      BY <1>1, <2>1, <2>2, MintPlaced
    <2>4. outcome'.next = n
      BY <1>2 DEF IncludeAnchoredDegrade, Outcome
    <2> HIDE DEF m, n
    <2> QED
      BY <2>1, <2>3, <2>4 DEF NextPlaced, Beyond, Met, store
  <1>3. CASE items = <<>> /\ presented # None
    <2>1. dimension = "deadline"
      <3>1. /\ Len(items) + left.results = budget.results /\ budget.results > 0
            /\ left.results \in Nat
        BY DEF PlacedInv, SpendInv, PageShape, Spent, InPage, TypeOK
      <3>2. Len(items) = 0
        BY <1>3
      <3> QED
        BY <3>1, <3>2
    <2>2. outcome'.next = presented /\ outcome'.dimension = "deadline"
      BY <1>3, <2>1 DEF IncludeAnchoredDegrade, Outcome
    <2>3. presented.anchor \in kept /\ presented.anchor <= presented.snapshot
      BY <1>3 DEF PlacedInv, Placed, ChainPlaced
    <2> QED
      BY <1>3, <2>2, <2>3 DEF NextPlaced, store
  <1>4. CASE items = <<>> /\ presented = None
    <2>1. outcome'.next = None
      BY <1>4 DEF IncludeAnchoredDegrade, Outcome
    <2> QED
      BY <2>1 DEF NextPlaced
  <1> QED
    BY <1>2, <1>3, <1>4

(* The end of the walk is in place.                                          *)
LEMMA FinishPlaces ==
    ASSUME PlacedInv, Conforming, InPage, NEW tail \in Keys \cup {None},
           tail # None => tail = frontier /\ pc = "examine",
           FinishCountingOrComplete(tail),
           UNCHANGED <<store, chain, presented, batch, items, counted, examined>>
    PROVE  Placed'
  <1>1. /\ pc' = "answer"
        /\ \/ counted # {} /\ outcome' = CountingDegrade(tail)
           \/ counted = {} /\ outcome' = Outcome("complete", None, None, None)
    BY FinishIs
  <1>2. NextPlaced'
    <2>1. CASE counted # {} /\ outcome' = CountingDegrade(tail)
      BY <2>1, CountingNext
    <2>2. CASE outcome' = Outcome("complete", None, None, None)
      BY <2>2 DEF NextPlaced, Outcome
    <2> QED
      BY <1>1, <2>1, <2>2
  <1>3. \A k \in Keys : Met(k) => examined' # None /\ k <= examined'
    BY DEF PlacedInv, Placed, PagePlaced
  <1> QED
    BY <1>1, <1>2, <1>3, StopPlaces DEF InPage

(* Every step keeps the walk in place.                                       *)
LEMMA PlacedNext == PlacedInv /\ [Next]_vars => PlacedInv'
  <1> SUFFICES ASSUME PlacedInv, [Next]_vars PROVE PlacedInv'
    OBVIOUS
  <1>0. SpendInv'
    BY SpendNext DEF PlacedInv
  <1> SUFFICES ASSUME Conforming' PROVE Placed'
    BY <1>0 DEF PlacedInv, Placed
  <1> USE DEF store, chain, walk, vars
  <1>1. Conforming
    <2>1. driver' = driver
      BY DEF Next, Page, StoreKeeps, StoreExpires, Admit, AdmitNothing, Admitting, Pull,
             PullNothing, PullStall, BatchEnds, PastSnapshot, StopBeforeExamining, FilteredOut,
             Count, ResultsRefused, ByteWall, BytesRefused, Include, Examining, Answer, ChainStops
    <2> QED
      BY <2>1 DEF Conforming
  <1>2. /\ Keys \subseteq Nat
        /\ batch \subseteq Keys /\ counted \subseteq Keys /\ kept \subseteq Keys
        /\ items \in Seq(Keys) /\ delivered \in Seq(Keys)
        /\ after \in Keys \cup {0} /\ frontier \in Keys \cup {None}
        /\ examined \in Keys \cup {None}
        /\ presented # None => presented.anchor \in Keys /\ presented.snapshot \in Keys
        /\ TypeOK
    BY KeysFinite DEF PlacedInv, SpendInv, TypeOK, Cursors
  <1>3. ChainPlaced /\ PagePlaced /\ WalkPlaced /\ NextPlaced
    BY <1>1 DEF PlacedInv, Placed
  <1>4. ASSUME StoreKeeps \/ StoreExpires PROVE Placed'
    <2>1. kept \subseteq kept'
      BY <1>4 DEF StoreKeeps, StoreExpires
    <2>2. UNCHANGED <<driver, chain, walk, pc, presented, budget, left, batch, examined,
                      items, counted, gap, coverage, outcome>>
      BY <1>4, StoreApart
    <2>3. ChainPlaced'
      BY <1>3, <2>1, <2>2 DEF ChainPlaced, Behind
    <2>4. PagePlaced'
      BY <1>3, <2>1, <2>2 DEF PagePlaced, Met, Beyond, InSnapshot, Bound
    <2>5. WalkPlaced'
      BY <1>3, <2>1, <2>2 DEF WalkPlaced, Beyond, InSnapshot, Bound, InPage
    <2>6. NextPlaced'
      BY <1>3, <2>1, <2>2 DEF NextPlaced, Met, Beyond
    <2> QED
      BY <2>3, <2>4, <2>5, <2>6 DEF Placed
  <1>5. ASSUME Admitting, pc' \in {"pull", "answer"},
               pc' = "answer" => outcome'.next = None
        PROVE  Placed'
    <2>1. ChainPlaced'
      BY <1>3, <1>5 DEF Admitting, ChainPlaced, Behind
    <2>2. PagePlaced'
      BY <1>5, NothingMet DEF Admitting, PagePlaced, Met, InOrder
    <2>3. WalkPlaced'
      BY <1>2, <1>5 DEF Admitting, WalkPlaced, InPage
    <2>4. NextPlaced'
      BY <1>5 DEF NextPlaced
    <2> QED
      BY <2>1, <2>2, <2>3, <2>4 DEF Placed
  <1>6. ASSUME Admit \/ AdmitNothing PROVE Placed'
    BY <1>5, <1>6 DEF Admit, AdmitNothing, Outcome
  <1>7. ASSUME Pull PROVE Placed'
    <2>1. /\ pc = "pull" /\ pc' = "examine" /\ batch' = Scanned /\ frontier' = Max(Scanned)
          /\ more' \in {None, Max(Scanned)} /\ Scanned # {}
          /\ UNCHANGED <<store, chain, after, presented, examined, items, counted, outcome>>
      BY <1>7 DEF Pull
    <2>2. Scanned \subseteq Ahead /\ Ahead \subseteq resident /\ Scanned \subseteq Keys
      BY <1>2, ScannedIs
    <2>3. Max(Scanned) \in Scanned /\ \A k \in Scanned : k <= Max(Scanned)
      BY <2>1, <2>2, KeyExtremes
    <2>4. \A k \in Scanned : after < k
      BY <2>2 DEF Ahead, Above
    <2>5. ChainPlaced'
      BY <1>3, <2>1 DEF ChainPlaced, Behind
    <2>6. PagePlaced'
      BY <1>3, <2>1 DEF PagePlaced, Met, Beyond, InSnapshot, Bound
    <2>7. NextPlaced'
      BY <2>1 DEF NextPlaced
    <2>8. WalkPlaced'
      <3>1. batch' \subseteq kept'
        BY <1>2, <2>1, <2>2 DEF TypeOK
      <3>2. /\ examined' # None => examined' \in kept' /\ Beyond(examined)' /\ InSnapshot(examined)'
            /\ presented' # None => presented'.anchor <= after'
        BY <1>3, <2>1 DEF WalkPlaced, InPage, Beyond, InSnapshot, Bound
      <3>3. /\ frontier' # None /\ after' < frontier' /\ more' \in {None, frontier'}
            /\ \A k \in batch' : after' < k /\ k <= frontier'
        BY <2>1, <2>2, <2>3, <2>4, WalkAssumption
      <3>4. ASSUME examined # None
            PROVE  examined <= Max(Scanned) /\ \A k \in Scanned : examined < k
        <4>1. examined <= after /\ examined \in Nat /\ after \in Nat /\ Scanned \subseteq Nat
          BY <1>2, <1>3, <2>1, <2>2, <3>4 DEF WalkPlaced
        <4>2. \A k \in Scanned : examined < k
          BY <2>4, <4>1
        <4>3. examined < Max(Scanned) /\ Max(Scanned) \in Nat
          BY <2>3, <4>1, <4>2
        <4> QED
          BY <4>1, <4>2, <4>3
      <3> QED
        BY <2>1, <3>1, <3>2, <3>3, <3>4 DEF WalkPlaced
    <2> QED
      BY <2>5, <2>6, <2>7, <2>8 DEF Placed
  <1>8. ASSUME PullNothing PROVE Placed'
    BY <1>1, <1>8, FinishPlaces DEF PullNothing, InPage
  <1>9. ASSUME PullStall PROVE Placed'
    BY <1>1, <1>9 DEF PullStall, Conforming
  <1>10. ASSUME BatchEnds PROVE Placed'
    <2>1. CASE more = None
      BY <1>1, <1>2, <1>10, <2>1, FinishPlaces DEF BatchEnds, InPage
    <2>2. CASE more # None
      <3>1. /\ pc = "examine" /\ pc' = "pull" /\ after' = more /\ more = frontier /\ batch' = {}
            /\ UNCHANGED <<store, chain, presented, examined, items, counted, outcome>>
        BY <1>3, <1>10, <2>2 DEF BatchEnds, WalkPlaced
      <3>2. ChainPlaced' /\ NextPlaced'
        BY <1>3, <3>1 DEF ChainPlaced, Behind, NextPlaced
      <3>3. PagePlaced'
        BY <1>3, <3>1 DEF PagePlaced, Met, Beyond, InSnapshot, Bound
      <3>4. WalkPlaced'
        <4>1. presented' # None => presented'.anchor <= after'
          <5>1. (presented # None => presented.anchor <= after) /\ after < frontier /\ frontier \in Keys
            BY <1>2, <1>3, <3>1 DEF WalkPlaced, InPage
          <5>2. ASSUME presented # None PROVE presented.anchor <= frontier
            <6>1. presented.anchor \in Nat /\ frontier \in Nat
              BY <1>2, <5>1, <5>2
            <6>2. after \in Nat
              BY <1>2
            <6> QED
              BY <5>1, <5>2, <6>1, <6>2, Between
          <5> QED
            BY <3>1, <5>2
        <4>2. examined' # None => examined' <= after' /\ examined' \in kept'
                                  /\ Beyond(examined)' /\ InSnapshot(examined)'
          BY <1>3, <3>1 DEF WalkPlaced, InPage, Beyond, InSnapshot, Bound
        <4> QED
          BY <3>1, <4>1, <4>2 DEF WalkPlaced
      <3> QED
        BY <3>2, <3>3, <3>4 DEF Placed
    <2> QED
      BY <2>1, <2>2
  <1>11. ASSUME PastSnapshot PROVE Placed'
    BY <1>1, <1>2, <1>11, FinishPlaces DEF PastSnapshot, InPage
  <1>12. ASSUME StopBeforeExamining PROVE Placed'
    <2>1. /\ pc = "examine" /\ pc' = "answer"
          /\ UNCHANGED <<store, chain, presented, batch, items, counted, examined>>
      BY <1>12, StopBeforeIs DEF StopBeforeExamining
    <2>2. PICK dimension \in {"deadline", "scan"} :
            \/ counted # {} /\ outcome' = CountingDegrade(frontier)
            \/ /\ counted = {} /\ examined # None
               /\ outcome' = Outcome("degraded", dimension, Mint(examined, frontier), None)
            \/ outcome' = Outcome("refused", dimension, None, None)
      BY <1>12, StopBeforeIs
    <2>3. NextPlaced'
      <3>1. CASE counted # {} /\ outcome' = CountingDegrade(frontier)
        BY <1>1, <1>2, <2>1, <3>1, CountingNext
      <3>2. CASE /\ counted = {} /\ examined # None
                 /\ outcome' = Outcome("degraded", dimension, Mint(examined, frontier), None)
        <4> DEFINE n == Mint(examined, frontier)
        <4>1. /\ examined \in Keys /\ examined \in kept /\ Beyond(examined) /\ InSnapshot(examined)
              /\ examined <= frontier
          BY <1>2, <1>3, <2>1, <3>2 DEF WalkPlaced, InPage
        <4>2. /\ n.anchor = examined /\ examined <= n.snapshot
              /\ presented # None => n.snapshot = presented.snapshot
          BY <1>2, <4>1, MintPlaced
        <4>3. outcome'.next = n
          BY <3>2 DEF Outcome
        <4>4. \A k \in Keys : Met(k) => k <= examined
          BY <1>3 DEF PagePlaced
        <4> HIDE DEF n
        <4> QED
          BY <2>1, <4>1, <4>2, <4>3, <4>4 DEF NextPlaced, Beyond, Met
      <3>3. CASE outcome' = Outcome("refused", dimension, None, None)
        BY <3>3 DEF NextPlaced, Outcome
      <3> QED
        BY <2>2, <3>1, <3>2, <3>3
    <2>4. \A k \in Keys : Met(k) => examined' # None /\ k <= examined'
      BY <1>3, <2>1 DEF PagePlaced
    <2> QED
      BY <1>1, <2>1, <2>3, <2>4, StopPlaces
  <1>13. ASSUME ResultsRefused \/ BytesRefused PROVE Placed'
    <2>1. PICK k \in batch :
             /\ Examining(k) /\ counted = {} /\ pc' = "answer"
             /\ UNCHANGED <<batch, items, counted>>
             /\ \E dimension \in {"deadline", "results"} :
                  /\ dimension = "results" => left.results = 0
                  /\ outcome' = IncludeAnchoredDegrade(k, dimension)
      BY <1>13, RefusedIs
    <2>2. /\ pc = "examine" /\ examined' = k
          /\ UNCHANGED <<store, chain, presented>>
      BY <2>1 DEF Examining
    <2>3. NextPlaced'
      BY <1>1, <2>1, <2>2, AnchoredNext
    <2>4. \A j \in Keys : Met(j) => examined' # None /\ j <= examined'
      <3>1. k \in Keys /\ \A j \in Keys : Met(j) => j < k
        BY <1>1, <2>1, ExaminingPlaced
      <3> QED
        BY <1>2, <2>2, <3>1, WalkAssumption
    <2> QED
      BY <1>1, <2>1, <2>2, <2>3, <2>4, StopPlaces
  <1>14. ASSUME FilteredOut PROVE Placed'
    <2>1. PICK k \in batch : Examining(k) /\ Passing(k) /\ UNCHANGED <<items, counted>>
      BY <1>14 DEF FilteredOut
    <2> QED
      BY <1>1, <1>3, <2>1, PassPlaces DEF PagePlaced
  <1>15. ASSUME Count \/ ByteWall PROVE Placed'
    <2>1. PICK k \in batch : /\ Examining(k) /\ Passing(k) /\ items' = items
                             /\ counted' = counted \cup {k}
      BY <1>15 DEF Count, ByteWall
    <2> QED
      BY <1>1, <1>3, <2>1, PassPlaces DEF PagePlaced
  <1>16. ASSUME Include PROVE Placed'
    <2>1. PICK k \in batch : /\ Examining(k) /\ Passing(k) /\ items' = Append(items, k)
                             /\ counted = {} /\ counted' = counted
      BY <1>16 DEF Include
    <2>2. k \in Keys /\ \A j \in Keys : InSeq(j, items) => j < k
      BY <1>1, <2>1, ExaminingPlaced DEF Met
    <2>3. InOrder(items') /\ \A j \in Keys : InSeq(j, items') => InSeq(j, items) \/ j = k
      BY <1>2, <1>3, <2>1, <2>2, AppendHolds DEF PagePlaced
    <2> QED
      BY <1>1, <2>1, <2>3, PassPlaces
  <1>17. ASSUME Answer PROVE Placed'
    <2>1. /\ pc = "answer" /\ delivered' = delivered \o items /\ items' = <<>> /\ counted' = {}
          /\ UNCHANGED <<store, walk, batch>> /\ pc' \in {"admit", "done"}
          /\ \/ pc' = "done" /\ presented' = presented
             \/ pc' = "admit" /\ outcome.next # None /\ outcome.next # presented
                /\ presented' = outcome.next
      BY <1>17 DEF Answer
    <2>2. \A k \in Keys : InSeq(k, items) => Met(k) /\ Beyond(k)
      BY <1>3 DEF PagePlaced, Met
    <2>3. \A k \in Keys : InSeq(k, delivered) => Behind(k)
      BY <1>3, <2>1 DEF ChainPlaced
    <2>4. \A j, k \in Keys : InSeq(j, delivered) /\ InSeq(k, items) => j < k
      <3> SUFFICES ASSUME NEW j \in Keys, NEW k \in Keys, InSeq(j, delivered), InSeq(k, items)
                   PROVE  j < k
        OBVIOUS
      <3>1. presented # None /\ j <= presented.anchor /\ presented.anchor < k
        BY <2>2, <2>3 DEF Behind, Beyond
      <3>2. j \in Nat /\ presented.anchor \in Nat /\ k \in Nat
        BY <1>2, <3>1
      <3> QED
        BY <3>1, <3>2, Between
    <2>5. InOrder(delivered')
      BY <1>2, <1>3, <2>1, <2>4, ConcatHolds DEF ChainPlaced, PagePlaced
    <2>6. \A k : InSeq(k, delivered') <=> InSeq(k, delivered) \/ InSeq(k, items)
      BY <1>2, <2>1, ConcatHolds
    <2>7. ChainPlaced'
      <3>1. CASE pc' = "done" /\ presented' = presented
        BY <1>3, <2>1, <2>5, <3>1 DEF ChainPlaced
      <3>2. CASE pc' = "admit" /\ outcome.next # None /\ outcome.next # presented
                 /\ presented' = outcome.next
        <4>1. /\ outcome.next.anchor \in kept /\ outcome.next.anchor <= outcome.next.snapshot
              /\ Beyond(outcome.next.anchor)
              /\ \A k \in Keys : Met(k) => k <= outcome.next.anchor
          BY <1>3, <2>1, <3>2 DEF NextPlaced
        <4>2. \A k \in Keys : InSeq(k, delivered') => k <= outcome.next.anchor
          <5> SUFFICES ASSUME NEW k \in Keys, InSeq(k, delivered')
                       PROVE  k <= outcome.next.anchor
            OBVIOUS
          <5>1. CASE InSeq(k, items)
            BY <2>2, <4>1, <5>1
          <5>2. CASE InSeq(k, delivered)
            <6>1. presented # None /\ k <= presented.anchor /\ presented.anchor < outcome.next.anchor
              BY <2>3, <4>1, <5>2 DEF Behind, Beyond
            <6>2. outcome.next.anchor \in Nat /\ presented.anchor \in Nat /\ k \in Nat
              BY <1>2, <4>1, <6>1
            <6> QED
              BY <6>1, <6>2, Between
          <5> QED
            BY <2>6, <5>1, <5>2
        <4> QED
          BY <2>1, <2>5, <3>2, <4>1, <4>2 DEF ChainPlaced, Behind
      <3> QED
        BY <2>1, <3>1, <3>2
    <2>8. PagePlaced' /\ WalkPlaced' /\ NextPlaced'
      BY <1>3, <2>1, NothingMet DEF PagePlaced, WalkPlaced, NextPlaced, Met, InOrder, InPage
    <2> QED
      BY <2>7, <2>8 DEF Placed
  <1>18. ASSUME ChainStops PROVE Placed'
    BY <1>3, <1>18 DEF ChainStops, Placed, ChainPlaced, PagePlaced, WalkPlaced, NextPlaced, Met,
                       Behind, Beyond, InSnapshot, Bound, InPage
  <1>19. ASSUME UNCHANGED vars PROVE Placed'
    BY <1>3, <1>19 DEF Placed, ChainPlaced, PagePlaced, WalkPlaced, NextPlaced, Met,
                       Behind, Beyond, InSnapshot, Bound, InPage
  <1> QED
    BY <1>4, <1>6, <1>7, <1>8, <1>9, <1>10, <1>11, <1>12, <1>13, <1>14, <1>15, <1>16, <1>17,
       <1>18, <1>19, Zenon DEF Next, Page

(* Paging shows no record twice nor out of order: over the whole chain,      *)
(* whatever was kept or evicted between its store calls, the delivered keys  *)
(* strictly ascend.                                                          *)
THEOREM RecordsAscend == Spec => []EachRecordOnce
  <1>1. PlacedInv => EachRecordOnce
    <2> SUFFICES ASSUME PlacedInv, Conforming PROVE InOrder(delivered \o items)
      BY DEF EachRecordOnce
    <2>1. /\ InOrder(delivered) /\ InOrder(items)
          /\ delivered \in Seq(Keys) /\ items \in Seq(Keys)
      BY DEF PlacedInv, Placed, ChainPlaced, PagePlaced, SpendInv, TypeOK
    <2>2. CASE pc = "done"
      <3>1. items = <<>>
        BY <2>2 DEF PlacedInv, SpendInv, PageShape
      <3> QED
        BY <2>1, <3>1, NothingMet, ConcatHolds
    <2>3. CASE pc # "done"
      <3>1. \A j, k \in Keys : InSeq(j, delivered) /\ InSeq(k, items) => j < k
        <4> SUFFICES ASSUME NEW j \in Keys, NEW k \in Keys, InSeq(j, delivered), InSeq(k, items)
                     PROVE  j < k
          OBVIOUS
        <4>1. presented # None /\ j <= presented.anchor /\ presented.anchor < k
          BY <2>3 DEF PlacedInv, Placed, ChainPlaced, PagePlaced, Met, Behind, Beyond
        <4>2. presented.anchor \in Keys /\ Keys \subseteq Nat
          BY <4>1, KeysFinite DEF PlacedInv, SpendInv, TypeOK, Cursors
        <4>3. presented.anchor \in Nat /\ j \in Nat /\ k \in Nat
          BY <4>2
        <4> QED
          BY <4>1, <4>3, Between
      <3> QED
        BY <2>1, <3>1, ConcatHolds
    <2> QED
      BY <2>2, <2>3
  <1> QED
    BY <1>1, PlacedInit, PlacedNext, PTL DEF Spec

(* The snapshot of a chain is fixed by its first page, every cursor is       *)
(* anchored inside it, and each continuation advances, or says that its      *)
(* deadline passed.                                                          *)
THEOREM CursorsAdvance == Spec => []CursorsProgress
  <1>1. PlacedInv => CursorsProgress
    <2> SUFFICES ASSUME PlacedInv, Conforming, pc = "answer", outcome.next # None
                 PROVE  /\ outcome.next.anchor <= outcome.next.snapshot
                        /\ presented # None =>
                             /\ outcome.next.snapshot = presented.snapshot
                             /\ outcome.next.anchor > presented.anchor
                                  \/ outcome.dimension = "deadline"
      BY DEF CursorsProgress
    <2>1. NextPlaced
      BY DEF PlacedInv, Placed
    <2>2. Keys \subseteq Nat /\ outcome.next.anchor \in Keys
          /\ (presented # None => presented.anchor \in Keys)
      BY KeysFinite DEF PlacedInv, SpendInv, TypeOK, Cursors
    <2> QED
      BY <2>1, <2>2 DEF NextPlaced, Beyond
  <1> QED
    BY <1>1, PlacedInit, PlacedNext, PTL DEF Spec

-----------------------------------------------------------------------------
(* Nothing standing is lost.                                                 *)

(* Returned or counted, by this page or an earlier one.                      *)
Shown(k) == InSeq(k, delivered) \/ InSeq(k, items) \/ k \in skipped \/ k \in counted

(* The records a chain owes an answer about.                                 *)
Wanted == steady \cap Matching

CoverChain == \A k \in Wanted : Behind(k) => Shown(k)

CoverPull == pc = "pull" => \A k \in Wanted : k <= after => Shown(k)

(* Up to the frontier, only the batch is still owed; without a further batch *)
(* there is nothing beyond it.                                               *)
CoverExamine ==
    pc = "examine" =>
      /\ \A k \in Wanted : k <= frontier => k \in batch \/ Shown(k)
      /\ more = None => \A k \in steady : k <= frontier

CoverAnswer ==
    pc = "answer" /\ outcome.next # None =>
      \A k \in Wanted : k <= outcome.next.anchor => Shown(k)

Whole == \A k \in Wanted : InSnapshot(k) => Shown(k)

CoverComplete ==
    pc \in {"answer", "done"} /\ outcome.part = "complete" /\ budget.results > 0 => Whole

(* A byte wall without an uncounted tail counted to the snapshot.            *)
CoverCounted ==
    pc = "answer" /\ outcome.dimension = "bytes" =>
      /\ outcome.next # None
      /\ (\A e \in coverage : e.kind # "uncounted") => Whole

Covered ==
    Conforming => /\ CoverChain /\ CoverPull /\ CoverExamine
                  /\ CoverAnswer /\ CoverComplete /\ CoverCounted

CoverInv == PlacedInv /\ Covered

(* What the chain accounts for.                                              *)
LEMMA ShownIs ==
    ASSUME TypeOK, NEW k
    PROVE  Accounted(k) <=> Shown(k)
  <1>1. items \in Seq(Keys) /\ delivered \in Seq(Keys)
    BY DEF TypeOK
  <1> QED
    BY <1>1, ConcatHolds DEF Accounted, Shown

(* At the start no record is owed: no cursor was handed out.                 *)
LEMMA CoverInit == Init => CoverInv
  BY PlacedInit, WalkAssumption
     DEF Init, CoverInv, Covered, CoverChain, CoverPull, CoverExamine, CoverAnswer, CoverComplete,
         CoverCounted, Behind

(* An end of the walk that saw the whole snapshot covers it.                 *)
LEMMA FinishCovers ==
    ASSUME CoverInv, Conforming, InPage, Whole, NEW tail \in Keys \cup {None},
           tail # None => tail = frontier /\ pc = "examine",
           FinishCountingOrComplete(tail),
           UNCHANGED <<store, chain, presented, items, counted>>
    PROVE  Covered'
  <1> USE DEF store, chain
  <1>1. /\ pc' = "answer"
        /\ \/ counted # {} /\ outcome' = CountingDegrade(tail)
           \/ counted = {} /\ outcome' = Outcome("complete", None, None, None)
    BY FinishIs
  <1>2. Whole' /\ CoverChain'
    BY DEF Whole, CoverInv, Covered, CoverChain, Wanted, Shown, Behind, InSnapshot, Bound
  <1>3. CoverPull' /\ CoverExamine' /\ CoverComplete'
    BY <1>1, <1>2 DEF CoverPull, CoverExamine, CoverComplete
  <1>4. CoverAnswer' /\ CoverCounted'
    <2>1. CASE counted # {} /\ outcome' = CountingDegrade(tail)
      <3> DEFINE m == Max(counted)
      <3>1. /\ outcome'.next = Mint(m, tail) /\ m \in Keys /\ m \in kept
            /\ Beyond(m) /\ InSnapshot(m) /\ (tail # None => m <= tail)
        BY <2>1, CountingPlaced DEF CoverInv
      <3>2. outcome'.next.anchor = m /\ outcome'.next # None
        BY <3>1, MintPlaced DEF CoverInv, PlacedInv, SpendInv
      <3>3. m <= Bound
        BY <3>1 DEF InSnapshot
      <3> HIDE DEF m
      <3>4. \A k \in Wanted : k <= m => InSnapshot(k)
        <4>1. Wanted \subseteq Nat /\ m \in Nat /\ Bound \in Nat
          BY <3>1, KeysFinite, BoundIsKey DEF Wanted, CoverInv, PlacedInv, SpendInv, TypeOK
        <4> QED
          BY <3>3, <4>1 DEF InSnapshot
      <3>5. \A k \in Wanted : k <= m => Shown(k)
        BY <3>4 DEF Whole
      <3> QED
        BY <1>2, <3>2, <3>5 DEF CoverAnswer, CoverCounted, Wanted, Shown
    <2>2. CASE outcome' = Outcome("complete", None, None, None)
      BY <2>2, WalkAssumption DEF CoverAnswer, CoverCounted, Outcome, Dimensions
    <2> QED
      BY <1>1, <2>1, <2>2
  <1> QED
    BY <1>2, <1>3, <1>4 DEF Covered

(* A stop anchored behind what was examined covers what lies before it.      *)
LEMMA StopCovers ==
    ASSUME CoverInv, Conforming, pc = "examine", pc' = "answer",
           UNCHANGED <<store, chain, presented, items, counted>>,
           outcome'.part # "complete", outcome'.dimension # "bytes",
           \/ outcome'.next = None
           \/ outcome'.next = presented
           \/ \E x \in Keys : /\ outcome'.next.anchor = x /\ x <= frontier
                              /\ \A k \in batch : x < k
    PROVE  Covered'
  <1> USE DEF store, chain
  <1>1. CoverChain' /\ CoverPull' /\ CoverExamine' /\ CoverComplete' /\ CoverCounted'
    BY DEF CoverInv, Covered, CoverChain, CoverPull, CoverExamine, CoverComplete, CoverCounted,
           Wanted, Shown, Behind
  <1>2. CoverAnswer'
    <2>1. CASE outcome'.next = None
      BY <2>1 DEF CoverAnswer
    <2>2. CASE outcome'.next = presented
      BY <2>2 DEF CoverInv, Covered, CoverChain, CoverAnswer, Behind, Wanted, Shown
    <2>3. ASSUME NEW x \in Keys, outcome'.next.anchor = x, x <= frontier, \A k \in batch : x < k
          PROVE  CoverAnswer'
      <3>1. frontier # None /\ frontier \in Keys
        BY DEF CoverInv, PlacedInv, Placed, WalkPlaced, SpendInv, TypeOK
      <3>2. Wanted \subseteq Nat /\ x \in Nat /\ frontier \in Nat
        BY <3>1, KeysFinite DEF Wanted, CoverInv, PlacedInv, SpendInv, TypeOK
      <3>3. \A k \in Wanted : k <= x => k <= frontier /\ k \notin batch
        <4> SUFFICES ASSUME NEW k \in Wanted, k <= x PROVE k <= frontier /\ k \notin batch
          OBVIOUS
        <4>1. k \in Nat /\ x \in Nat /\ frontier \in Nat
          BY <3>2
        <4>2. k <= frontier
          BY <2>3, <4>1
        <4>3. ~(x < k)
          BY <4>1
        <4> QED
          BY <2>3, <4>2, <4>3
      <3>4. \A k \in Wanted : k <= x => Shown(k)
        BY <3>3 DEF CoverInv, Covered, CoverExamine
      <3> QED
        BY <2>3, <3>4 DEF CoverAnswer, Wanted, Shown
    <2> QED
      BY <2>1, <2>2, <2>3
  <1> QED
    BY <1>1, <1>2 DEF Covered

(* Examining a record moves it from the batch to the shown, if it is wanted. *)
LEMMA PassCovers ==
    ASSUME CoverInv, Conforming, NEW k \in batch, Examining(k), Passing(k),
           \A j : Shown(j) => Shown(j)', k \in Matching => Shown(k)'
    PROVE  Covered'
  <1> USE DEF store, chain, walk
  <1>1. /\ UNCHANGED <<driver, resident, kept, steady, after, more, frontier, presented, budget, pc>>
        /\ pc = "examine" /\ batch' = batch \ {k}
    BY DEF Examining, Passing
  <1>2. CoverChain'
    BY <1>1 DEF CoverInv, Covered, CoverChain, Wanted, Behind
  <1>3. CoverExamine'
    BY <1>1 DEF CoverInv, Covered, CoverExamine, Wanted
  <1> QED
    BY <1>1, <1>2, <1>3 DEF Covered, CoverPull, CoverAnswer, CoverComplete, CoverCounted

(* Every step keeps what is owed covered.                                    *)
LEMMA CoverNext == CoverInv /\ [Next]_vars => CoverInv'
  <1> SUFFICES ASSUME CoverInv, [Next]_vars PROVE CoverInv'
    OBVIOUS
  <1>0. PlacedInv'
    BY PlacedNext DEF CoverInv
  <1> SUFFICES ASSUME Conforming' PROVE Covered'
    BY <1>0 DEF CoverInv, Covered
  <1> USE DEF store, chain, walk, vars
  <1>1. Conforming
    <2>1. driver' = driver
      BY DEF Next, Page, StoreKeeps, StoreExpires, Admit, AdmitNothing, Admitting, Pull,
             PullNothing, PullStall, BatchEnds, PastSnapshot, StopBeforeExamining, FilteredOut,
             Count, ResultsRefused, ByteWall, BytesRefused, Include, Examining, Answer, ChainStops
    <2> QED
      BY <2>1 DEF Conforming
  <1>2. /\ PlacedInv /\ SpendInv /\ TypeOK /\ PageShape
        /\ CoverChain /\ CoverPull /\ CoverExamine /\ CoverAnswer /\ CoverComplete /\ CoverCounted
        /\ PagePlaced /\ WalkPlaced
    BY <1>1 DEF CoverInv, Covered, PlacedInv, SpendInv, Placed
  <1>3. /\ Keys \subseteq Nat /\ steady \subseteq resident /\ steady \subseteq Nat
        /\ batch \subseteq Keys /\ after \in Nat /\ frontier \in Keys \cup {None}
        /\ Wanted \subseteq steady /\ Bound \in Nat
    <2>1. after \in Keys \cup {0} /\ steady \subseteq resident /\ resident \subseteq Keys
          /\ batch \subseteq Keys /\ frontier \in Keys \cup {None}
      BY <1>2 DEF TypeOK
    <2>2. Keys \subseteq Nat /\ Bound \in Keys
      BY <1>2, KeysFinite, BoundIsKey
    <2>3. Wanted \subseteq steady
      BY DEF Wanted
    <2> QED
      BY <2>1, <2>2, <2>3
  <1>4. ASSUME StoreKeeps \/ StoreExpires PROVE Covered'
    <2>1. steady' \subseteq steady
      BY <1>4 DEF StoreKeeps, StoreExpires, Above
    <2>2. UNCHANGED <<driver, chain, walk, pc, presented, budget, left, batch, examined,
                      items, counted, gap, coverage, outcome>>
      BY <1>4, StoreApart
    <2>3. Wanted' \subseteq Wanted
      BY <2>1 DEF Wanted
    <2>4. \A k : Shown(k)' = Shown(k) /\ Behind(k)' = Behind(k) /\ InSnapshot(k)' = InSnapshot(k)
      BY <2>2 DEF Shown, Behind, InSnapshot, Bound
    <2>5. CoverChain' /\ CoverPull'
      BY <1>2, <2>2, <2>3, <2>4 DEF CoverChain, CoverPull
    <2>6. CoverExamine' /\ CoverAnswer'
      BY <1>2, <2>1, <2>2, <2>3, <2>4 DEF CoverExamine, CoverAnswer
    <2>7. Whole => Whole'
      BY <2>3, <2>4 DEF Whole
    <2>8. CoverComplete' /\ CoverCounted'
      BY <1>2, <2>2, <2>7 DEF CoverComplete, CoverCounted
    <2> QED
      BY <2>5, <2>6, <2>8 DEF Covered
  <1>5. ASSUME Admitting PROVE /\ CoverChain' /\ \A k : Shown(k)' = Shown(k)
                               /\ Wanted' = Wanted
    <2>1. /\ items' = items /\ counted' = counted
          /\ UNCHANGED <<delivered, skipped, presented, steady>>
      BY <1>2, <1>5 DEF Admitting, PageShape
    <2> QED
      BY <1>2, <2>1 DEF CoverChain, Shown, Wanted, Behind
  <1>6. ASSUME Admit PROVE Covered'
    <2>1. CoverChain' /\ (\A k : Shown(k)' = Shown(k)) /\ Wanted' = Wanted
      BY <1>5, <1>6 DEF Admit
    <2>2. CoverPull'
      <3>1. after' = (IF presented = None THEN 0 ELSE presented.anchor)
        BY <1>6 DEF Admit, Admitting
      <3>2. \A k \in Wanted : k <= after' => Behind(k)
        <4>1. CASE presented = None
          <5>1. \A k \in Keys : ~(k <= 0)
            BY WalkAssumption DEF Keys
          <5>2. Wanted \subseteq Keys
            BY <1>2 DEF TypeOK, Wanted
          <5> QED
            BY <3>1, <4>1, <5>1, <5>2
        <4>2. CASE presented # None
          BY <3>1, <4>2 DEF Behind
        <4> QED
          BY <4>1, <4>2
      <3> QED
        BY <1>2, <2>1, <3>2 DEF CoverPull, CoverChain
    <2> QED
      BY <1>6, <2>1, <2>2 DEF Admit, Covered, CoverExamine, CoverAnswer, CoverComplete, CoverCounted
  <1>7. ASSUME AdmitNothing PROVE Covered'
    <2>1. CoverChain'
      BY <1>5, <1>7 DEF AdmitNothing
    <2>2. pc' = "answer" /\ budget'.results = 0 /\ outcome' = Outcome("complete", None, None, None)
      BY <1>7 DEF AdmitNothing, Admitting
    <2> QED
      BY <2>1, <2>2, WalkAssumption
         DEF Covered, CoverPull, CoverExamine, CoverAnswer, CoverComplete, CoverCounted, Outcome,
             Dimensions
  <1>8. ASSUME Pull PROVE Covered'
    <2>1. /\ pc = "pull" /\ pc' = "examine" /\ batch' = Scanned /\ frontier' = Max(Scanned)
          /\ more' = (IF Scanned = Ahead THEN None ELSE Max(Scanned)) /\ Scanned # {}
          /\ UNCHANGED <<store, chain, after, presented, items, counted>>
      BY <1>8 DEF Pull
    <2>2. /\ Scanned \subseteq Ahead /\ Ahead \subseteq resident /\ Scanned \subseteq Keys
          /\ \A j \in Ahead, k \in Scanned : j <= k => j \in Scanned
      BY <1>2, ScannedIs
    <2> DEFINE m == Max(Scanned)
    <2>3. m \in Scanned /\ \A k \in Scanned : k <= m
      BY <2>1, <2>2, KeyExtremes
    <2>4. m \in Nat /\ m \in Keys /\ after < m
      BY <1>3, <2>2, <2>3 DEF Ahead, Above
    <2>5. \A k \in steady : k <= after \/ k \in Ahead
      BY <1>3 DEF Ahead, Above
    <2> HIDE DEF m
    <2>6. \A k \in Wanted : k <= m => k \in Scanned \/ Shown(k)
      <3> SUFFICES ASSUME NEW k \in Wanted, k <= m PROVE k \in Scanned \/ Shown(k)
        OBVIOUS
      <3>1. CASE k <= after
        BY <1>2, <2>1, <3>1 DEF CoverPull
      <3>2. CASE k \in Ahead
        BY <2>2, <2>3, <3>2
      <3> QED
        BY <1>3, <2>5, <3>1, <3>2
    <2>7. ASSUME more' = None PROVE \A k \in steady : k <= m
      <3>1. Scanned = Ahead
        BY <2>1, <2>4, <2>7, WalkAssumption DEF m
      <3>2. \A k \in steady : k <= after => k <= m
        BY <1>3, <2>4, Between
      <3> QED
        BY <2>3, <2>5, <3>1, <3>2
    <2>8. CoverExamine'
      BY <2>1, <2>6, <2>7 DEF CoverExamine, Wanted, Shown, m
    <2>9. CoverChain'
      BY <1>2, <2>1 DEF CoverChain, Wanted, Shown, Behind
    <2> QED
      BY <2>1, <2>8, <2>9 DEF Covered, CoverPull, CoverAnswer, CoverComplete, CoverCounted
  <1>9. ASSUME PullNothing PROVE Covered'
    <2>1. pc = "pull" /\ Ahead = {}
      BY <1>2, <1>9, ScannedIs DEF PullNothing
    <2>2. \A k \in steady : k <= after
      BY <1>3, <2>1 DEF Ahead, Above
    <2>3. Whole
      BY <1>2, <1>3, <2>1, <2>2 DEF Whole, CoverPull
    <2> QED
      BY <1>1, <1>9, <2>1, <2>3, FinishCovers DEF PullNothing, InPage
  <1>10. ASSUME PullStall PROVE Covered'
    BY <1>1, <1>10 DEF PullStall, Conforming
  <1>11. ASSUME BatchEnds PROVE Covered'
    <2>1. CASE more = None
      <3>1. pc = "examine" /\ batch = {}
        BY <1>11 DEF BatchEnds
      <3>2. Whole
        BY <1>2, <1>3, <2>1, <3>1 DEF Whole, CoverExamine
      <3> QED
        BY <1>1, <1>3, <1>11, <2>1, <3>1, <3>2, FinishCovers DEF BatchEnds, InPage
    <2>2. CASE more # None
      <3>1. /\ pc = "examine" /\ pc' = "pull" /\ after' = more /\ more = frontier /\ batch = {}
            /\ UNCHANGED <<store, chain, presented, items, counted>>
        BY <1>2, <1>11, <2>2 DEF BatchEnds, WalkPlaced
      <3>2. CoverPull'
        BY <1>2, <3>1 DEF CoverPull, CoverExamine, Wanted, Shown
      <3>3. CoverChain'
        BY <1>2, <3>1 DEF CoverChain, Wanted, Shown, Behind
      <3> QED
        BY <3>1, <3>2, <3>3 DEF Covered, CoverExamine, CoverAnswer, CoverComplete, CoverCounted
    <2> QED
      BY <2>1, <2>2
  <1>12. ASSUME PastSnapshot PROVE Covered'
    <2>1. /\ pc = "examine" /\ batch # {} /\ ~(Min(batch) <= Bound)
      BY <1>12 DEF PastSnapshot, InSnapshot, Yielded
    <2> DEFINE y == Min(batch)
    <2>2. y \in batch /\ \A k \in batch : y <= k
      BY <1>3, <2>1, KeyExtremes
    <2>3. y <= frontier /\ frontier # None
      BY <1>2, <2>1, <2>2 DEF WalkPlaced
    <2>4. y \in Nat /\ frontier \in Nat /\ batch \subseteq Nat
      BY <1>3, <2>2, <2>3
    <2> HIDE DEF y
    <2>5. Whole
      <3> SUFFICES ASSUME NEW k \in Wanted, k <= Bound PROVE Shown(k)
        BY DEF Whole, InSnapshot
      <3>1. k \in Nat /\ ~(y <= Bound) /\ Bound \in Nat
        BY <1>3, <2>1 DEF y
      <3>2. k < y
        BY <2>4, <3>1
      <3>3. k <= frontier
        BY <2>3, <2>4, <3>1, <3>2
      <3>4. ~(y <= k)
        BY <2>4, <3>1, <3>2
      <3>5. k \notin batch
        BY <2>2, <3>4
      <3> QED
        BY <1>2, <2>1, <3>3, <3>5 DEF CoverExamine
    <2> QED
      BY <1>1, <1>3, <1>12, <2>1, <2>5, FinishCovers DEF PastSnapshot, InPage
  <1>13. ASSUME StopBeforeExamining PROVE Covered'
    <2>1. /\ pc = "examine" /\ pc' = "answer"
          /\ UNCHANGED <<store, chain, presented, items, counted, examined>>
      BY <1>13, StopBeforeIs DEF StopBeforeExamining
    <2>2. PICK dimension \in {"deadline", "scan"} :
            \/ /\ counted # {} /\ outcome' = CountingDegrade(frontier)
               /\ coverage' = coverage \cup NamedGap(Bound) \cup
                    {[kind |-> "uncounted", after |-> Max(counted), before |-> None]}
            \/ /\ counted = {} /\ examined # None
               /\ outcome' = Outcome("degraded", dimension, Mint(examined, frontier), None)
            \/ outcome' = Outcome("refused", dimension, None, None)
      BY <1>13, StopBeforeIs
    <2>3. CASE /\ counted # {} /\ outcome' = CountingDegrade(frontier)
               /\ coverage' = coverage \cup NamedGap(Bound) \cup
                    {[kind |-> "uncounted", after |-> Max(counted), before |-> None]}
      <3> DEFINE m == Max(counted)
      <3>1. /\ outcome'.next = Mint(m, frontier) /\ m \in Keys /\ m \in kept
            /\ Beyond(m) /\ InSnapshot(m) /\ (frontier # None => m <= frontier)
            /\ examined # None /\ m <= examined
        BY <1>1, <1>2, <1>3, <2>1, <2>3, CountingPlaced
      <3>2. outcome'.next.anchor = m /\ outcome'.next # None
        BY <1>2, <1>3, <3>1, MintPlaced
      <3> HIDE DEF m
      <3>3. \A k \in Wanted : k <= m => Shown(k)
        <4> SUFFICES ASSUME NEW k \in Wanted, k <= m PROVE Shown(k)
          OBVIOUS
        <4>1. frontier # None /\ examined \in Keys /\ \A j \in batch : examined < j
          BY <1>2, <2>1, <3>1 DEF WalkPlaced, TypeOK
        <4>2. k \in Nat /\ m \in Nat /\ examined \in Nat /\ frontier \in Nat
          BY <1>3, <3>1, <4>1
        <4>3. k <= frontier /\ ~(examined < k)
          BY <3>1, <4>1, <4>2
        <4> QED
          BY <1>2, <2>1, <4>1, <4>3 DEF CoverExamine
      <3>4. CoverAnswer'
        BY <2>1, <3>2, <3>3 DEF CoverAnswer, Wanted, Shown
      <3>5. CoverCounted'
        <4>1. ~(\A e \in coverage' : e.kind # "uncounted")
          <5> DEFINE u == [kind |-> "uncounted", after |-> Max(counted), before |-> None]
          <5>1. u \in coverage' /\ u.kind = "uncounted"
            BY <2>3
          <5> QED
            BY <5>1, Zenon
        <4> QED
          BY <3>2, <4>1 DEF CoverCounted
      <3>6. CoverChain'
        BY <1>2, <2>1 DEF CoverChain, Wanted, Shown, Behind
      <3>7. outcome'.part # "complete"
        BY <2>3, StopParts
      <3> QED
        BY <2>1, <3>4, <3>5, <3>6, <3>7 DEF Covered, CoverPull, CoverExamine, CoverComplete
    <2>4. CASE /\ counted = {} /\ examined # None
               /\ outcome' = Outcome("degraded", dimension, Mint(examined, frontier), None)
      <3>1. /\ examined \in Keys /\ examined \in kept /\ Beyond(examined) /\ InSnapshot(examined)
            /\ examined <= frontier /\ \A k \in batch : examined < k
        BY <1>2, <2>1, <2>4 DEF WalkPlaced, InPage, TypeOK
      <3>2. Mint(examined, frontier).anchor = examined
        BY <1>2, <1>3, <3>1, MintPlaced
      <3>3. /\ outcome'.next.anchor = examined
            /\ outcome'.part # "complete" /\ outcome'.dimension # "bytes"
        BY <2>4, <3>2 DEF Outcome
      <3> QED
        BY <1>1, <2>1, <3>1, <3>3, StopCovers
    <2>5. CASE outcome' = Outcome("refused", dimension, None, None)
      <3>1. outcome'.next = None /\ outcome'.part # "complete" /\ outcome'.dimension # "bytes"
        BY <2>5 DEF Outcome
      <3> QED
        BY <1>1, <2>1, <3>1, StopCovers
    <2> QED
      BY <2>2, <2>3, <2>4, <2>5
  <1>14. ASSUME ResultsRefused \/ BytesRefused PROVE Covered'
    <2>1. PICK k \in batch :
             /\ Examining(k) /\ counted = {} /\ pc' = "answer"
             /\ UNCHANGED <<batch, items, counted>>
             /\ \E dimension \in {"deadline", "results"} :
                  outcome' = IncludeAnchoredDegrade(k, dimension)
      BY <1>14, RefusedIs
    <2>2. PICK dimension \in {"deadline", "results"} : outcome' = IncludeAnchoredDegrade(k, dimension)
      BY <2>1
    <2>3. pc = "examine" /\ UNCHANGED <<store, chain, presented>>
      BY <2>1 DEF Examining
    <2>4. outcome'.part # "complete" /\ outcome'.dimension # "bytes"
      BY <2>2 DEF IncludeAnchoredDegrade, Outcome
    <2>5. CASE items # <<>>
      <3> DEFINE x == LastIncluded
      <3>1. /\ x \in Keys /\ x \in kept /\ Beyond(x) /\ InSnapshot(x)
            /\ examined # None /\ x <= examined
        BY <1>1, <1>2, <2>5, LastPlaced
      <3>2. /\ examined <= frontier /\ (\A j \in batch : examined < j) /\ examined \in Keys
            /\ frontier # None
        BY <1>2, <2>3, <3>1 DEF WalkPlaced, TypeOK
      <3>3. examined \in Nat /\ frontier \in Nat /\ batch \subseteq Nat /\ x \in Nat
        BY <1>3, <3>1, <3>2
      <3>4. outcome'.next = Mint(x, frontier)
        BY <2>2, <2>5 DEF IncludeAnchoredDegrade, Outcome
      <3> HIDE DEF x
      <3>5. x <= frontier /\ \A j \in batch : x < j
        BY <3>1, <3>2, <3>3, Between
      <3>6. Mint(x, frontier).anchor = x
        BY <1>2, <1>3, <3>1, <3>5, MintPlaced
      <3>7. outcome'.next.anchor = x
        BY <3>4, <3>6
      <3> QED
        BY <1>1, <2>1, <2>3, <2>4, <3>1, <3>5, <3>7, StopCovers
    <2>6. CASE items = <<>>
      <3>1. outcome'.next = None \/ outcome'.next = presented
        BY <2>2, <2>6 DEF IncludeAnchoredDegrade, Outcome
      <3> QED
        BY <1>1, <2>1, <2>3, <2>4, <3>1, StopCovers
    <2> QED
      BY <2>5, <2>6
  <1>15. ASSUME FilteredOut PROVE Covered'
    <2>1. PICK k \in batch : /\ Examining(k) /\ Passing(k) /\ UNCHANGED <<items, counted>>
                             /\ k \notin Matching
      BY <1>15 DEF FilteredOut
    <2>2. \A j : Shown(j) => Shown(j)'
      BY <2>1 DEF Shown, Examining
    <2> QED
      BY <1>1, <2>1, <2>2, PassCovers
  <1>16. ASSUME Count \/ ByteWall PROVE Covered'
    <2>1. PICK k \in batch : /\ Examining(k) /\ Passing(k) /\ items' = items
                             /\ counted' = counted \cup {k}
      BY <1>16 DEF Count, ByteWall
    <2>2. (\A j : Shown(j) => Shown(j)') /\ Shown(k)'
      BY <2>1 DEF Shown, Examining
    <2> QED
      BY <1>1, <2>1, <2>2, PassCovers
  <1>17. ASSUME Include PROVE Covered'
    <2>1. PICK k \in batch : /\ Examining(k) /\ Passing(k) /\ items' = Append(items, k)
                             /\ counted' = counted
      BY <1>17 DEF Include
    <2>2. \A j : InSeq(j, items') <=> InSeq(j, items) \/ j = k
      BY <1>2, <1>3, <2>1, AppendHolds DEF TypeOK
    <2>3. (\A j : Shown(j) => Shown(j)') /\ Shown(k)'
      BY <2>1, <2>2 DEF Shown, Examining
    <2> QED
      BY <1>1, <2>1, <2>3, PassCovers
  <1>18. ASSUME Answer PROVE Covered'
    <2>1. /\ pc = "answer" /\ delivered' = delivered \o items /\ items' = <<>> /\ counted' = {}
          /\ skipped' = skipped \cup counted
          /\ UNCHANGED <<store, walk, batch, budget, outcome>> /\ pc' \in {"admit", "done"}
          /\ \/ pc' = "done" /\ presented' = presented
             \/ pc' = "admit" /\ outcome.next # None /\ presented' = outcome.next
          /\ outcome.next = None => pc' = "done"
      BY <1>18 DEF Answer
    <2>2. \A k : Shown(k) => Shown(k)'
      <3>1. \A k : InSeq(k, delivered') <=> InSeq(k, delivered) \/ InSeq(k, items)
        BY <1>2, <2>1, ConcatHolds DEF TypeOK
      <3> QED
        BY <2>1, <3>1 DEF Shown
    <2>3. CoverChain'
      <3>1. CASE presented' = presented
        BY <1>2, <2>1, <2>2, <3>1 DEF CoverChain, Behind, Wanted
      <3>2. CASE outcome.next # None /\ presented' = outcome.next
        BY <1>2, <2>1, <2>2, <3>2 DEF CoverChain, CoverAnswer, Behind, Wanted
      <3> QED
        BY <2>1, <3>1, <3>2
    <2>4. CoverComplete'
      <3> SUFFICES ASSUME pc' = "done", outcome.part = "complete", budget.results > 0
                   PROVE  Whole'
        BY <2>1 DEF CoverComplete
      <3>1. Whole /\ presented' = presented
        BY <1>2, <2>1 DEF CoverComplete
      <3> QED
        BY <2>1, <2>2, <3>1 DEF Whole, Wanted, InSnapshot, Bound
    <2> QED
      BY <2>1, <2>3, <2>4 DEF Covered, CoverPull, CoverExamine, CoverAnswer, CoverCounted
  <1>19. ASSUME ChainStops PROVE Covered'
    <2>1. /\ pc = "admit" /\ pc' = "done"
          /\ UNCHANGED <<store, chain, walk, presented, items, counted, outcome, budget>>
      BY <1>19 DEF ChainStops
    <2>2. CoverChain'
      BY <1>2, <2>1 DEF CoverChain, Wanted, Shown, Behind
    <2>3. outcome'.part # "complete"
      BY <1>2, <2>1 DEF PageShape
    <2> QED
      BY <2>1, <2>2, <2>3 DEF Covered, CoverPull, CoverExamine, CoverAnswer, CoverComplete,
                              CoverCounted
  <1>20. ASSUME UNCHANGED vars PROVE Covered'
    BY <1>2, <1>20 DEF Covered, CoverChain, CoverPull, CoverExamine, CoverAnswer, CoverComplete,
                       CoverCounted, Whole, Wanted, Shown, Behind, InSnapshot, Bound
  <1> QED
    BY <1>4, <1>6, <1>7, <1>8, <1>9, <1>10, <1>11, <1>12, <1>13, <1>14, <1>15, <1>16, <1>17,
       <1>18, <1>19, <1>20, Zenon DEF Next, Page

(* Paging loses no record: a matching record resident since the chain began  *)
(* and still resident has been delivered or counted as omitted once a cursor *)
(* is anchored at or behind it, and once a page says the part is complete    *)
(* nothing inside the snapshot is missing.                                   *)
THEOREM NothingIsLost == Spec => []NothingLost
  <1>1. CoverInv => NothingLost
    <2> SUFFICES ASSUME CoverInv, Conforming
                 PROVE  /\ presented # None =>
                             \A k \in steady \cap Matching : k <= presented.anchor => Accounted(k)
                        /\ pc = "done" /\ outcome.part = "complete" /\ budget.results > 0 =>
                             \A k \in steady \cap Matching : InSnapshot(k) => Accounted(k)
      BY DEF NothingLost
    <2>1. CoverChain /\ CoverComplete
      BY DEF CoverInv, Covered
    <2>2. \A k : Accounted(k) <=> Shown(k)
      BY ShownIs DEF CoverInv, PlacedInv, SpendInv
    <2> QED
      BY <2>1, <2>2 DEF CoverChain, CoverComplete, Whole, Wanted, Behind
  <1> QED
    BY <1>1, CoverInit, CoverNext, PTL DEF Spec

-----------------------------------------------------------------------------
(* What a page says it left out.                                             *)

(* The record a was kept and is gone, and nothing that has been standing     *)
(* lies between a and b.                                                     *)
IsHole(a, b) == a \in kept \ resident /\ \A k \in steady : ~(a < k /\ k < b)

GapsNamed ==
    InPage \/ (pc = "answer" /\ outcome.part # "refused" /\ budget.results > 0) =>
      \A e \in coverage : e.kind = "gap" => IsHole(e.after, e.before)

(* While the gap behind an evicted anchor is unnamed nothing was examined,   *)
(* the walk still starts at the anchor, and what stands beyond it is in the  *)
(* batch or beyond the frontier.                                             *)
GapOpen ==
    InPage /\ gap # None =>
      /\ gap \in kept \ resident
      /\ examined = None
      /\ after = gap
      /\ pc = "examine" => /\ batch # {}
                           /\ \A k \in steady : gap < k => k \in batch \/ frontier < k

HoleInv == CoverInv /\ (Conforming => GapsNamed /\ GapOpen)

(* No gap is open at the start.                                              *)
LEMMA HoleInit == Init => HoleInv
  BY CoverInit DEF Init, HoleInv, GapsNamed, GapOpen, InPage

(* A stop that names the open gap up to a hole's end tells the truth.        *)
LEMMA StopNames ==
    ASSUME HoleInv, Conforming, InPage, pc' = "answer", UNCHANGED store,
           NEW before, gap # None => IsHole(gap, before),
           \A e \in coverage' : e.kind = "gap" => e \in coverage \/ e \in NamedGap(before)
    PROVE  GapsNamed' /\ GapOpen'
  <1>1. GapOpen'
    BY DEF GapOpen, InPage
  <1>2. \A e \in coverage' : e.kind = "gap" => IsHole(e.after, e.before)
    BY DEF HoleInv, GapsNamed, NamedGap
  <1>3. \A a, b : IsHole(a, b)' = IsHole(a, b)
    BY DEF IsHole, store
  <1> QED
    BY <1>1, <1>2, <1>3 DEF GapsNamed

(* The first record examined behind an evicted anchor ends its hole.         *)
LEMMA FirstEndsHole ==
    ASSUME HoleInv, Conforming, NEW k \in batch, Examining(k), gap # None
    PROVE  IsHole(gap, k)
  <1>1. /\ k \in Keys /\ k <= frontier /\ frontier \in Keys /\ \A j \in batch : k <= j
    BY ExaminingPlaced DEF HoleInv, CoverInv
  <1>2. /\ gap \in kept \ resident
        /\ \A j \in steady : gap < j => j \in batch \/ frontier < j
    BY DEF HoleInv, GapOpen, InPage, Examining
  <1>3. Keys \subseteq Nat /\ steady \subseteq Keys
    BY KeysFinite DEF HoleInv, CoverInv, PlacedInv, SpendInv, TypeOK
  <1>4. ASSUME NEW j \in steady, gap < j, j < k PROVE FALSE
    <2>1. j \in Nat /\ k \in Nat /\ frontier \in Nat
      BY <1>1, <1>3
    <2>2. CASE j \in batch
      BY <1>1, <1>4, <2>1, <2>2
    <2>3. CASE frontier < j
      BY <1>1, <1>4, <2>1, <2>3
    <2> QED
      BY <1>2, <1>4, <2>2, <2>3
  <1> QED
    BY <1>2, <1>4 DEF IsHole

(* A page that goes on names the gap at the record it examined.              *)
LEMMA PassNames ==
    ASSUME HoleInv, Conforming, NEW k \in batch, Examining(k), Passing(k)
    PROVE  GapsNamed' /\ GapOpen'
  <1>1. /\ UNCHANGED store /\ pc = "examine" /\ pc' = pc /\ gap' = None
        /\ coverage' = coverage \cup NamedGap(k)
    BY DEF Examining, Passing
  <1>2. gap # None => IsHole(gap, k)
    BY FirstEndsHole
  <1>3. \A e \in coverage' : e.kind = "gap" => IsHole(e.after, e.before)
    BY <1>1, <1>2 DEF HoleInv, GapsNamed, NamedGap, InPage
  <1>4. \A a, b : IsHole(a, b)' = IsHole(a, b)
    BY <1>1 DEF IsHole, store
  <1> QED
    BY <1>1, <1>3, <1>4 DEF GapsNamed, GapOpen

(* Every step keeps the named gaps true.                                     *)
LEMMA HoleNext == HoleInv /\ [Next]_vars => HoleInv'
  <1> SUFFICES ASSUME HoleInv, [Next]_vars PROVE HoleInv'
    OBVIOUS
  <1>0. CoverInv'
    BY CoverNext DEF HoleInv
  <1> SUFFICES ASSUME Conforming' PROVE GapsNamed' /\ GapOpen'
    BY <1>0 DEF HoleInv
  <1> DEFINE Goal == GapsNamed' /\ GapOpen'
  <1> USE DEF store, chain, walk, vars
  <1>1. Conforming
    <2>1. driver' = driver
      BY DEF Next, Page, StoreKeeps, StoreExpires, Admit, AdmitNothing, Admitting, Pull,
             PullNothing, PullStall, BatchEnds, PastSnapshot, StopBeforeExamining, FilteredOut,
             Count, ResultsRefused, ByteWall, BytesRefused, Include, Examining, Answer, ChainStops
    <2> QED
      BY <2>1 DEF Conforming
  <1>2. /\ CoverInv /\ PlacedInv /\ TypeOK /\ GapsNamed /\ GapOpen
        /\ ChainPlaced /\ PagePlaced /\ WalkPlaced
    BY <1>1 DEF HoleInv, CoverInv, PlacedInv, SpendInv, Placed
  <1>3. /\ Keys \subseteq Nat /\ steady \subseteq resident /\ steady \subseteq Nat
        /\ batch \subseteq Keys /\ after \in Nat /\ frontier \in Keys \cup {None}
        /\ resident \subseteq kept /\ kept \subseteq Keys /\ Bound \in Nat
    <2>1. /\ after \in Keys \cup {0} /\ steady \subseteq resident /\ resident \subseteq kept
          /\ kept \subseteq Keys /\ batch \subseteq Keys /\ frontier \in Keys \cup {None}
      BY <1>2 DEF TypeOK
    <2>2. Keys \subseteq Nat /\ Bound \in Keys
      BY <1>2, KeysFinite, BoundIsKey
    <2> QED
      BY <2>1, <2>2
  <1>4. ASSUME StoreKeeps \/ StoreExpires PROVE Goal
    <2>1. steady' \subseteq steady /\ kept \subseteq kept' /\ kept \ resident \subseteq kept' \ resident'
      BY <1>3, <1>4 DEF StoreKeeps, StoreExpires, Above
    <2>2. UNCHANGED <<driver, chain, walk, pc, presented, budget, left, batch, examined,
                      items, counted, gap, coverage, outcome>>
      BY <1>4, StoreApart
    <2>3. \A a, b : IsHole(a, b) => IsHole(a, b)'
      BY <2>1 DEF IsHole
    <2>4. GapsNamed'
      BY <1>2, <2>2, <2>3 DEF GapsNamed, InPage
    <2>5. GapOpen'
      BY <1>2, <2>1, <2>2 DEF GapOpen, InPage
    <2> QED
      BY <2>4, <2>5
  <1>5. ASSUME Admit PROVE Goal
    <2>1. /\ pc' = "pull" /\ coverage' = Boundary /\ gap' = EvictedAnchor /\ examined' = None
          /\ after' = (IF presented = None THEN 0 ELSE presented.anchor)
          /\ UNCHANGED store
      BY <1>5 DEF Admit, Admitting
    <2>2. GapsNamed'
      BY <2>1 DEF GapsNamed, Boundary
    <2>3. gap' # None => /\ presented # None /\ gap' = presented.anchor
                         /\ presented.anchor \notin resident
      BY <2>1 DEF EvictedAnchor, ResidentEntity
    <2>4. GapOpen'
      BY <1>2, <2>1, <2>3 DEF GapOpen, ChainPlaced
    <2> QED
      BY <2>2, <2>4
  <1>6. ASSUME AdmitNothing PROVE Goal
    <2>1. pc' = "answer" /\ budget'.results = 0
      BY <1>6 DEF AdmitNothing, Admitting
    <2> QED
      BY <2>1 DEF GapsNamed, GapOpen, InPage
  <1>7. ASSUME Pull PROVE Goal
    <2>1. /\ pc = "pull" /\ pc' = "examine" /\ batch' = Scanned /\ frontier' = Max(Scanned)
          /\ Scanned # {} /\ UNCHANGED <<store, after, examined, gap, coverage>>
      BY <1>7 DEF Pull
    <2>2. /\ Scanned \subseteq Ahead /\ Ahead \subseteq resident /\ Scanned \subseteq Keys
          /\ \A j \in Ahead, k \in Scanned : j <= k => j \in Scanned
      BY <1>2, ScannedIs
    <2> DEFINE m == Max(Scanned)
    <2>3. m \in Scanned /\ m \in Nat
      BY <1>3, <2>1, <2>2, KeyExtremes
    <2> HIDE DEF m
    <2>4. ASSUME gap # None, NEW k \in steady, gap < k PROVE k \in Scanned \/ m < k
      <3>1. k \in Ahead /\ k \in Nat
        BY <1>2, <1>3, <2>1, <2>4 DEF GapOpen, InPage, Ahead, Above
      <3>2. k <= m \/ m < k
        BY <2>3, <3>1
      <3> QED
        BY <2>2, <2>3, <3>1, <3>2
    <2>5. GapsNamed'
      BY <1>2, <2>1 DEF GapsNamed, InPage, IsHole
    <2>6. GapOpen'
      BY <1>2, <2>1, <2>4 DEF GapOpen, InPage, m
    <2> QED
      BY <2>5, <2>6
  <1>8. ASSUME PullNothing PROVE Goal
    <2>1. pc = "pull" /\ Ahead = {} /\ UNCHANGED store
      BY <1>2, <1>8, ScannedIs DEF PullNothing
    <2>2. gap # None => IsHole(gap, Bound)
      BY <1>2, <1>3, <2>1 DEF GapOpen, InPage, IsHole, Ahead, Above
    <2>3. pc' = "answer" /\ coverage' = coverage \cup NamedGap(Bound)
      BY <1>8, FinishIs DEF PullNothing
    <2> QED
      BY <1>1, <2>1, <2>2, <2>3, StopNames DEF InPage
  <1>9. ASSUME PullStall PROVE Goal
    BY <1>1, <1>9 DEF PullStall, Conforming
  <1>10. ASSUME BatchEnds PROVE Goal
    <2>1. pc = "examine" /\ batch = {} /\ UNCHANGED store
      BY <1>10 DEF BatchEnds
    <2>2. gap = None
      BY <1>2, <2>1 DEF GapOpen, InPage
    <2>3. CASE more = None
      <3>1. pc' = "answer" /\ coverage' = coverage \cup NamedGap(Bound)
        BY <1>10, <2>3, FinishIs DEF BatchEnds
      <3> QED
        BY <1>1, <2>1, <2>2, <3>1, StopNames DEF InPage
    <2>4. CASE more # None
      <3>1. pc' = "pull" /\ UNCHANGED <<gap, coverage>>
        BY <1>10, <2>4 DEF BatchEnds
      <3>2. \A a, b : IsHole(a, b)' = IsHole(a, b)
        BY <2>1 DEF IsHole
      <3> QED
        BY <1>2, <2>1, <2>2, <3>1, <3>2 DEF GapsNamed, GapOpen, InPage
    <2> QED
      BY <2>3, <2>4
  <1>11. ASSUME PastSnapshot PROVE Goal
    <2>1. pc = "examine" /\ batch # {} /\ ~(Min(batch) <= Bound) /\ UNCHANGED store
      BY <1>11 DEF PastSnapshot, InSnapshot, Yielded
    <2> DEFINE y == Min(batch)
    <2>2. y \in batch /\ \A k \in batch : y <= k
      BY <1>3, <2>1, KeyExtremes
    <2>3. y <= frontier /\ frontier # None
      BY <1>2, <2>1, <2>2 DEF WalkPlaced
    <2>4. y \in Nat /\ frontier \in Nat /\ ~(y <= Bound) /\ Bound \in Nat
      BY <1>3, <2>1, <2>2, <2>3
    <2> HIDE DEF y
    <2>5. ASSUME gap # None PROVE IsHole(gap, Bound)
      <3>1. gap \in kept \ resident /\ \A k \in steady : gap < k => k \in batch \/ frontier < k
        BY <1>2, <2>1, <2>5 DEF GapOpen, InPage
      <3>2. ASSUME NEW k \in steady, gap < k, k < Bound PROVE FALSE
        <4>1. k \in Nat /\ ~(y <= k)
          BY <1>3, <2>4, <3>2
        <4>2. ~(frontier < k)
          BY <2>3, <2>4, <4>1
        <4> QED
          BY <2>2, <3>1, <3>2, <4>1, <4>2
      <3> QED
        BY <3>1, <3>2 DEF IsHole
    <2>6. pc' = "answer" /\ coverage' = coverage \cup NamedGap(Bound)
      BY <1>11, FinishIs DEF PastSnapshot
    <2> QED
      BY <1>1, <2>1, <2>5, <2>6, StopNames DEF InPage
  <1>12. ASSUME StopBeforeExamining PROVE Goal
    <2>1. pc = "examine" /\ pc' = "answer" /\ UNCHANGED store
      BY <1>12, StopBeforeIs DEF StopBeforeExamining
    <2>2. CASE examined # None
      <3>1. gap = None
        BY <1>2, <2>1, <2>2 DEF GapOpen, InPage
      <3>2. \A e \in coverage' : e.kind = "gap" => e \in coverage \/ e \in NamedGap(Bound)
        BY <1>12, StopBeforeIs
      <3> QED
        BY <1>1, <2>1, <3>1, <3>2, StopNames DEF InPage
    <2>3. CASE examined = None
      <3>1. counted = {}
        <4>1. \A k \in counted : k \in Keys /\ Met(k)
          BY <1>2 DEF Met, TypeOK
        <4> QED
          BY <1>2, <2>3, <4>1 DEF PagePlaced
      <3>2. outcome'.part = "refused"
        BY <1>12, <2>3, <3>1, StopBeforeIs DEF Outcome
      <3> QED
        BY <2>1, <3>2 DEF GapsNamed, GapOpen, InPage
    <2> QED
      BY <2>2, <2>3
  <1>13. ASSUME ResultsRefused \/ BytesRefused PROVE Goal
    <2>1. PICK k \in batch :
             Examining(k) /\ pc' = "answer" /\ coverage' = coverage \cup NamedGap(k)
      BY <1>13, RefusedIs
    <2>2. InPage /\ UNCHANGED store
      BY <2>1 DEF Examining, InPage
    <2>3. gap # None => IsHole(gap, k)
      BY <1>1, <2>1, FirstEndsHole
    <2> QED
      BY <1>1, <2>1, <2>2, <2>3, StopNames
  <1>14. ASSUME FilteredOut \/ Count \/ ByteWall \/ Include PROVE Goal
    BY <1>1, <1>14, PassingOn, PassNames
  <1>15. ASSUME Answer PROVE Goal
    BY <1>15 DEF Answer, GapsNamed, GapOpen, InPage
  <1>16. ASSUME ChainStops PROVE Goal
    BY <1>16 DEF ChainStops, GapsNamed, GapOpen, InPage
  <1>17. ASSUME UNCHANGED vars PROVE Goal
    BY <1>2, <1>17 DEF GapsNamed, GapOpen, InPage, IsHole
  <1> QED
    BY <1>4, <1>5, <1>6, <1>7, <1>8, <1>9, <1>10, <1>11, <1>12, <1>13, <1>14, <1>15, <1>16,
       <1>17, Zenon DEF Next, Page

(* What a page says it left out is what it left out: a gap behind an evicted *)
(* anchor holds no standing record, and a byte omission without an uncounted *)
(* tail counted every standing record of the snapshot it did not return      *)
(* (engine.rs: run; mint).                                                   *)
THEOREM CutsAreTrue == Spec => []CutsTruthful
  <1>1. HoleInv => GapsAreHoles
    <2> SUFFICES ASSUME HoleInv, Conforming, pc = "answer", outcome.part # "refused",
                        budget.results > 0, NEW e \in coverage, e.kind = "gap"
                 PROVE  e.after \notin resident /\ \A k \in steady : ~(e.after < k /\ k < e.before)
      BY DEF GapsAreHoles
    <2> QED
      BY DEF HoleInv, GapsNamed, IsHole
  <1>2. HoleInv => CountIsComplete
    <2> SUFFICES ASSUME HoleInv, Conforming, pc = "answer", outcome.dimension = "bytes",
                        \A e \in coverage : e.kind # "uncounted",
                        NEW k \in steady \cap Matching, k <= outcome.next.snapshot
                 PROVE  Accounted(k)
      BY DEF CountIsComplete
    <2>1. TypeOK /\ PlacedInv /\ NextPlaced /\ CoverCounted
      BY DEF HoleInv, CoverInv, Covered, PlacedInv, Placed, SpendInv
    <2>2. Whole /\ outcome.next # None
      BY <2>1 DEF CoverCounted
    <2>3. InSnapshot(k)
      <3>1. CASE presented = None
        <4>1. k \in Keys
          BY <2>1 DEF TypeOK
        <4> QED
          BY <3>1, <4>1, WalkAssumption DEF InSnapshot, Bound, Keys
      <3>2. CASE presented # None
        BY <2>1, <2>2, <3>2 DEF NextPlaced, InSnapshot, Bound
      <3> QED
        BY <3>1, <3>2
    <2>4. Shown(k)
      BY <2>2, <2>3 DEF Whole, Wanted
    <2> QED
      BY <2>1, <2>4, ShownIs
  <1>3. HoleInv => CutsTruthful
    BY <1>1, <1>2 DEF CutsTruthful
  <1> QED
    BY <1>3, HoleInit, HoleNext, PTL DEF Spec

(* A chain shows each standing record exactly once and moves on with every   *)
(* page, whatever is kept and evicted between its calls.                     *)
THEOREM ChainIsExact == Spec => []ChainExact
  <1>1. EachRecordOnce /\ NothingLost /\ CursorsProgress => ChainExact
    BY DEF ChainExact
  <1> QED
    BY <1>1, RecordsAscend, NothingIsLost, CursorsAdvance, PTL

=============================================================================
