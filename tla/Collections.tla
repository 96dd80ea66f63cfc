----------------------------- MODULE Collections -----------------------------
(***************************************************************************)
(* What the proofs need to know of collections.                            *)
(*                                                                         *)
(* Totals: a counter claimed to be the sum of what its holders hold.       *)
(* SumFunctionOnSet of the community modules picks the elements in an      *)
(* unspecified order; the lemmas show that the order does not matter and   *)
(* how the total moves when one element comes, goes or changes.            *)
(*                                                                         *)
(* Selections: what Selection and FlattenSeq keep, and in which order.     *)
(*                                                                         *)
(* Induction is by a minimal counterexample: the set of subsets of a       *)
(* finite set for which a claim fails has a least one (WFMin over          *)
(* StrictSubsetOrdering), and so has a set of numbers.                     *)
(***************************************************************************)
EXTENDS Selection, SequencesExt, FiniteSetTheorems, TLAPS

PickFrom(s) == CHOOSE x \in s : TRUE

(* h adds up g over every subset of T, an element at a time.                 *)
AddsUp(g, T, h) ==
    h = [s \in SUBSET T |-> IF s = {} THEN 0 ELSE g[PickFrom(s)] + h[s \ {PickFrom(s)}]]

(* A non-empty collection of subsets of a finite set has a least member.     *)
LEMMA LeastSubset ==
    ASSUME NEW S, IsFiniteSet(S), NEW C, C \subseteq SUBSET S, C # {}
    PROVE  \E T \in C : \A U \in SUBSET T : U # T => U \notin C
  <1>1. IsWellFoundedOn(StrictSubsetOrdering(S), SUBSET S)
    BY FS_StrictSubsetOrderingWellFounded, FS_FiniteSubsetsOfFinite
  <1>2. PICK T \in C : \A U \in C : <<U, T>> \notin StrictSubsetOrdering(S)
    BY <1>1, WFMin
  <1>3. ASSUME NEW U \in SUBSET T, U # T, U \in C
        PROVE  FALSE
    BY <1>2, <1>3 DEF StrictSubsetOrdering
  <1> QED
    BY <1>2, <1>3

(* Two ways of adding up agree wherever both are defined.                    *)
LEMMA AddsUnique ==
    ASSUME NEW g, NEW A, NEW B, IsFiniteSet(A), NEW h, NEW k,
           AddsUp(g, A, h), AddsUp(g, B, k)
    PROVE  \A s \in SUBSET (A \cap B) : h[s] = k[s]
  <1> DEFINE C == {s \in SUBSET (A \cap B) : h[s] # k[s]}
  <1>1. SUFFICES ASSUME C # {} PROVE FALSE
    OBVIOUS
  <1>2. PICK T \in C : \A U \in SUBSET T : U # T => U \notin C
    <2>1. C \subseteq SUBSET A
      OBVIOUS
    <2> HIDE DEF C
    <2> QED
      BY <1>1, <2>1, LeastSubset, Zenon
  <1>3. /\ T \in SUBSET A /\ T \in SUBSET B
        /\ h[T] = IF T = {} THEN 0 ELSE g[PickFrom(T)] + h[T \ {PickFrom(T)}]
        /\ k[T] = IF T = {} THEN 0 ELSE g[PickFrom(T)] + k[T \ {PickFrom(T)}]
    BY DEF AddsUp
  <1>4. T # {}
    BY <1>2, <1>3
  <1>5. PickFrom(T) \in T
    BY <1>4 DEF PickFrom
  <1>6. h[T \ {PickFrom(T)}] = k[T \ {PickFrom(T)}]
    BY <1>2, <1>5
  <1> QED
    BY <1>2, <1>3, <1>6

(* Every finite set can be added up.                                         *)
LEMMA AddsExists ==
    ASSUME NEW g, NEW S, IsFiniteSet(S)
    PROVE  \E h : AddsUp(g, S, h)
  <1> DEFINE C == {T \in SUBSET S : ~ \E h : AddsUp(g, T, h)}
             W(T) == CHOOSE h : AddsUp(g, T, h)
  <1>1. SUFFICES ASSUME C # {} PROVE FALSE
    OBVIOUS
  <1>2. PICK T \in C : \A U \in SUBSET T : U # T => U \notin C
    <2>1. C \subseteq SUBSET S
      OBVIOUS
    <2> HIDE DEF C
    <2> QED
      BY <1>1, <2>1, LeastSubset, Zenon
  <1>3. \A U \in SUBSET T : U # T => AddsUp(g, U, W(U))
    BY <1>2
  <1> DEFINE F == [s \in SUBSET T |-> IF s = {} THEN 0
                     ELSE g[PickFrom(s)] + W(s \ {PickFrom(s)})[s \ {PickFrom(s)}]]
  <1> HIDE DEF C, W
  <1>4. ASSUME NEW u \in SUBSET T, u # T
        PROVE  F[u] = W(u)[u]
    <2>1. AddsUp(g, u, W(u)) /\ IsFiniteSet(u)
      BY <1>3, <1>4, FS_Subset DEF C
    <2>2. W(u)[u] = IF u = {} THEN 0 ELSE g[PickFrom(u)] + W(u)[u \ {PickFrom(u)}]
      BY <2>1 DEF AddsUp
    <2>3. CASE u = {}
      BY <2>2, <2>3
    <2>4. CASE u # {}
      <3>1. PickFrom(u) \in u
        BY <2>4 DEF PickFrom
      <3> DEFINE v == u \ {PickFrom(u)}
      <3>2. v \in SUBSET T /\ v # T /\ v \in SUBSET (u \cap v)
        BY <3>1
      <3>3. AddsUp(g, v, W(v))
        BY <1>3, <3>2
      <3>4. W(u)[v] = W(v)[v]
        BY <2>1, <3>2, <3>3, AddsUnique
      <3> QED
        BY <2>2, <2>4, <3>4
    <2> QED
      BY <2>3, <2>4
  <1>5. AddsUp(g, T, F)
    <2>1. ASSUME NEW s \in SUBSET T, s # {}
          PROVE  F[s \ {PickFrom(s)}] = W(s \ {PickFrom(s)})[s \ {PickFrom(s)}]
      <3>1. PickFrom(s) \in s
        BY <2>1 DEF PickFrom
      <3>2. s \ {PickFrom(s)} \in SUBSET T /\ s \ {PickFrom(s)} # T
        BY <3>1
      <3> QED
        BY <1>4, <3>2
    <2> HIDE DEF F
    <2>2. F = [s \in SUBSET T |-> IF s = {} THEN 0 ELSE g[PickFrom(s)] + F[s \ {PickFrom(s)}]]
      <3>1. \A s \in SUBSET T : F[s] = IF s = {} THEN 0 ELSE g[PickFrom(s)] + F[s \ {PickFrom(s)}]
        BY <2>1 DEF F
      <3> QED
        BY <3>1 DEF F
    <2> QED
      BY <2>2 DEF AddsUp
  <1> QED
    BY <1>5 DEF C

(* The total is the sum over any witness.                                    *)
LEMMA TotalIs ==
    ASSUME NEW g, NEW S, IsFiniteSet(S), NEW h, AddsUp(g, S, h)
    PROVE  SumFunctionOnSet(g, S) = h[S]
  <1> DEFINE it == CHOOSE k : AddsUp(g, S, k)
  <1>1. SumFunctionOnSet(g, S) = it[S]
    BY DEF SumFunctionOnSet, FoldFunctionOnSet, MapThenFoldSet, AddsUp, PickFrom
  <1>2. AddsUp(g, S, it)
    BY AddsExists
  <1> QED
    BY <1>1, <1>2, AddsUnique

(* Nothing adds up to nothing; otherwise the element picked first counts,    *)
(* and the rest.                                                             *)
LEMMA TotalUnfolds ==
    ASSUME NEW g, NEW S, IsFiniteSet(S)
    PROVE  /\ SumFunctionOnSet(g, {}) = 0
           /\ S # {} => /\ PickFrom(S) \in S
                        /\ SumFunctionOnSet(g, S)
                             = g[PickFrom(S)] + SumFunctionOnSet(g, S \ {PickFrom(S)})
  <1>1. SumFunctionOnSet(g, {}) = 0
    <2>1. AddsUp(g, {}, [s \in SUBSET {} |-> 0])
      BY DEF AddsUp
    <2> QED
      BY <2>1, TotalIs, FS_EmptySet
  <1>2. ASSUME S # {}
        PROVE  /\ PickFrom(S) \in S
               /\ SumFunctionOnSet(g, S)
                    = g[PickFrom(S)] + SumFunctionOnSet(g, S \ {PickFrom(S)})
    <2> DEFINE R == S \ {PickFrom(S)}
    <2>1. PickFrom(S) \in S
      BY <1>2 DEF PickFrom
    <2>2. IsFiniteSet(R)
      BY FS_RemoveElement
    <2>3. PICK h : AddsUp(g, S, h)
      BY AddsExists
    <2>4. PICK k : AddsUp(g, R, k)
      BY <2>2, AddsExists
    <2>5. SumFunctionOnSet(g, S) = h[S] /\ SumFunctionOnSet(g, R) = k[R]
      BY <2>2, <2>3, <2>4, TotalIs
    <2>6. h[R] = k[R]
      <3>1. R \in SUBSET (S \cap R)
        OBVIOUS
      <3> HIDE DEF R
      <3> QED
        BY <2>3, <2>4, <3>1, AddsUnique
    <2>7. h[S] = g[PickFrom(S)] + h[R]
      BY <1>2, <2>3 DEF AddsUp
    <2> QED
      BY <2>1, <2>5, <2>6, <2>7
  <1> QED
    BY <1>1, <1>2

(* A total of natural numbers is one.                                        *)
LEMMA TotalNat ==
    ASSUME NEW g, NEW S, IsFiniteSet(S), \A x \in S : g[x] \in Nat
    PROVE  SumFunctionOnSet(g, S) \in Nat
  <1> DEFINE C == {T \in SUBSET S : SumFunctionOnSet(g, T) \notin Nat}
  <1>1. SUFFICES ASSUME C # {} PROVE FALSE
    OBVIOUS
  <1>2. PICK T \in C : \A U \in SUBSET T : U # T => U \notin C
    <2>1. C \subseteq SUBSET S
      OBVIOUS
    <2> HIDE DEF C
    <2> QED
      BY <1>1, <2>1, LeastSubset, Zenon
  <1>3. IsFiniteSet(T) /\ T \subseteq S
    BY FS_Subset
  <1>4. T # {}
    <2>1. SumFunctionOnSet(g, {}) = 0
      BY <1>3, TotalUnfolds
    <2> QED
      BY <2>1
  <1>5. PickFrom(T) \in T
        /\ SumFunctionOnSet(g, T) = g[PickFrom(T)] + SumFunctionOnSet(g, T \ {PickFrom(T)})
    BY <1>3, <1>4, TotalUnfolds
  <1>6. T \ {PickFrom(T)} \notin C
    BY <1>2, <1>5
  <1>7. SumFunctionOnSet(g, T \ {PickFrom(T)}) \in Nat
    BY <1>3, <1>6
  <1> QED
    BY <1>3, <1>5, <1>7

(* Any element may be taken out of a total, not only the one picked first.   *)
LEMMA TotalRemove ==
    ASSUME NEW g, NEW S, IsFiniteSet(S), \A y \in S : g[y] \in Nat, NEW x \in S
    PROVE  SumFunctionOnSet(g, S) = g[x] + SumFunctionOnSet(g, S \ {x})
  <1> DEFINE Bad(T) == \E y \in T : SumFunctionOnSet(g, T) # g[y] + SumFunctionOnSet(g, T \ {y})
             C == {T \in SUBSET S : Bad(T)}
  <1>1. SUFFICES ASSUME C # {} PROVE FALSE
    OBVIOUS
  <1>2. PICK T \in C : \A U \in SUBSET T : U # T => U \notin C
    <2>1. C \subseteq SUBSET S
      OBVIOUS
    <2> HIDE DEF C
    <2> QED
      BY <1>1, <2>1, LeastSubset, Zenon
  <1>3. PICK y \in T : SumFunctionOnSet(g, T) # g[y] + SumFunctionOnSet(g, T \ {y})
    OBVIOUS
  <1> DEFINE c == PickFrom(T)
  <1>4. IsFiniteSet(T) /\ T \subseteq S
    BY FS_Subset
  <1>5. c \in T /\ SumFunctionOnSet(g, T) = g[c] + SumFunctionOnSet(g, T \ {c})
    BY <1>4, TotalUnfolds
  <1> HIDE DEF c
  <1>6. y # c
    BY <1>3, <1>5
  <1>7. ~Bad(T \ {c}) /\ ~Bad(T \ {y})
    <2>1. T \ {c} \in SUBSET T /\ T \ {c} # T /\ T \ {y} \in SUBSET T /\ T \ {y} # T
      BY <1>5
    <2>2. T \ {c} \notin C /\ T \ {y} \notin C
      BY <1>2, <2>1
    <2> QED
      BY <1>4, <2>2
  <1>8. /\ SumFunctionOnSet(g, T \ {c}) = g[y] + SumFunctionOnSet(g, (T \ {c}) \ {y})
        /\ SumFunctionOnSet(g, T \ {y}) = g[c] + SumFunctionOnSet(g, (T \ {y}) \ {c})
    BY <1>5, <1>6, <1>7
  <1>9. (T \ {c}) \ {y} = (T \ {y}) \ {c}
    OBVIOUS
  <1>10. SumFunctionOnSet(g, (T \ {y}) \ {c}) \in Nat
    <2>1. IsFiniteSet((T \ {y}) \ {c}) /\ (T \ {y}) \ {c} \subseteq S
      BY <1>4, FS_RemoveElement
    <2> QED
      BY <2>1, TotalNat
  <1>11. g[y] \in Nat /\ g[c] \in Nat
    BY <1>4, <1>5
  <1> HIDE DEF Bad, C
  <1> QED
    BY <1>3, <1>5, <1>8, <1>9, <1>10, <1>11

(* A total depends on the function only where it adds it up.                 *)
LEMMA TotalAgrees ==
    ASSUME NEW g, NEW k, NEW S, IsFiniteSet(S), \A x \in S : g[x] = k[x]
    PROVE  SumFunctionOnSet(g, S) = SumFunctionOnSet(k, S)
  <1> DEFINE C == {T \in SUBSET S : SumFunctionOnSet(g, T) # SumFunctionOnSet(k, T)}
  <1>1. SUFFICES ASSUME C # {} PROVE FALSE
    OBVIOUS
  <1>2. PICK T \in C : \A U \in SUBSET T : U # T => U \notin C
    <2>1. C \subseteq SUBSET S
      OBVIOUS
    <2> HIDE DEF C
    <2> QED
      BY <1>1, <2>1, LeastSubset, Zenon
  <1>3. IsFiniteSet(T) /\ T \subseteq S
    BY FS_Subset
  <1>4. T # {}
    BY <1>3, TotalUnfolds
  <1> DEFINE c == PickFrom(T)
  <1>5. /\ c \in T
        /\ SumFunctionOnSet(g, T) = g[c] + SumFunctionOnSet(g, T \ {c})
        /\ SumFunctionOnSet(k, T) = k[c] + SumFunctionOnSet(k, T \ {c})
    BY <1>3, <1>4, TotalUnfolds
  <1> HIDE DEF c
  <1>6. T \ {c} \notin C
    BY <1>2, <1>5
  <1>7. SumFunctionOnSet(g, T \ {c}) = SumFunctionOnSet(k, T \ {c})
    BY <1>3, <1>6
  <1> QED
    BY <1>3, <1>5, <1>7

(* A total of nothings is nothing.                                           *)
LEMMA TotalZero ==
    ASSUME NEW g, NEW S, IsFiniteSet(S), \A x \in S : g[x] = 0
    PROVE  SumFunctionOnSet(g, S) = 0
  <1> DEFINE C == {T \in SUBSET S : SumFunctionOnSet(g, T) # 0}
  <1>1. SUFFICES ASSUME C # {} PROVE FALSE
    OBVIOUS
  <1>2. PICK T \in C : \A U \in SUBSET T : U # T => U \notin C
    <2>1. C \subseteq SUBSET S
      OBVIOUS
    <2> HIDE DEF C
    <2> QED
      BY <1>1, <2>1, LeastSubset, Zenon
  <1>3. IsFiniteSet(T) /\ T \subseteq S
    BY FS_Subset
  <1>4. T # {}
    <2>1. SumFunctionOnSet(g, {}) = 0
      BY <1>3, TotalUnfolds
    <2> QED
      BY <2>1
  <1>5. PickFrom(T) \in T
        /\ SumFunctionOnSet(g, T) = g[PickFrom(T)] + SumFunctionOnSet(g, T \ {PickFrom(T)})
    BY <1>3, <1>4, TotalUnfolds
  <1>6. T \ {PickFrom(T)} \notin C
    BY <1>2, <1>5
  <1>7. SumFunctionOnSet(g, T \ {PickFrom(T)}) = 0
    BY <1>3, <1>6
  <1> QED
    BY <1>3, <1>5, <1>7

(* A newcomer adds its own share.                                            *)
LEMMA TotalAdd ==
    ASSUME NEW g, NEW S, IsFiniteSet(S), NEW x, x \notin S, \A y \in S \cup {x} : g[y] \in Nat
    PROVE  SumFunctionOnSet(g, S \cup {x}) = SumFunctionOnSet(g, S) + g[x]
  <1>1. IsFiniteSet(S \cup {x}) /\ (S \cup {x}) \ {x} = S
    BY FS_AddElement
  <1>2. SumFunctionOnSet(g, S) \in Nat
    BY TotalNat
  <1>3. SumFunctionOnSet(g, S \cup {x}) = g[x] + SumFunctionOnSet(g, S)
    BY <1>1, TotalRemove
  <1> QED
    BY <1>2, <1>3

(* A change of one share changes the total by as much.                       *)
LEMMA TotalChange ==
    ASSUME NEW g, NEW k, NEW S, IsFiniteSet(S), NEW x \in S,
           \A y \in S : g[y] \in Nat /\ k[y] \in Nat,
           \A y \in S \ {x} : g[y] = k[y]
    PROVE  SumFunctionOnSet(k, S) = SumFunctionOnSet(g, S) - g[x] + k[x]
  <1>1. IsFiniteSet(S \ {x})
    BY FS_RemoveElement
  <1>2. SumFunctionOnSet(g, S \ {x}) = SumFunctionOnSet(k, S \ {x})
    BY <1>1, TotalAgrees
  <1>3. /\ SumFunctionOnSet(g, S) = g[x] + SumFunctionOnSet(g, S \ {x})
        /\ SumFunctionOnSet(k, S) = k[x] + SumFunctionOnSet(k, S \ {x})
    BY TotalRemove
  <1>4. SumFunctionOnSet(g, S \ {x}) \in Nat
    BY <1>1, TotalNat
  <1> QED
    BY <1>2, <1>3, <1>4

-----------------------------------------------------------------------------
(* Totals over the positions of a sequence.                                  *)

(* A total over positions moves with the positions.                          *)
LEMMA TotalShift ==
    ASSUME NEW S, IsFiniteSet(S), S \subseteq Nat, NEW g, NEW k,
           \A i \in S : k[i] = g[i + 1] /\ k[i] \in Nat
    PROVE  SumFunctionOnSet(k, S) = SumFunctionOnSet(g, {i + 1 : i \in S})
  <1> DEFINE Up(T) == {i + 1 : i \in T}
             C == {T \in SUBSET S : SumFunctionOnSet(k, T) # SumFunctionOnSet(g, Up(T))}
  <1>1. SUFFICES ASSUME C # {} PROVE FALSE
    OBVIOUS
  <1>2. PICK T \in C : \A U \in SUBSET T : U # T => U \notin C
    <2>1. C \subseteq SUBSET S
      OBVIOUS
    <2> HIDE DEF C
    <2> QED
      BY <1>1, <2>1, LeastSubset, Zenon
  <1>3. IsFiniteSet(T) /\ T \subseteq S
    BY FS_Subset
  <1>4. IsFiniteSet(Up(T))
    <2> DEFINE f == [i \in T |-> i + 1]
    <2>1. f \in Surjection(T, Up(T))
      BY DEF Surjection
    <2> HIDE DEF f, Up
    <2> QED
      BY <1>3, <2>1, FS_Surjection, Zenon
  <1>5. T # {}
    <2>1. SumFunctionOnSet(k, {}) = 0 /\ SumFunctionOnSet(g, {}) = 0
      BY <1>3, TotalUnfolds
    <2>2. Up({}) = {}
      OBVIOUS
    <2> QED
      BY <2>1, <2>2
  <1> DEFINE c == PickFrom(T)
  <1>6. c \in T /\ SumFunctionOnSet(k, T) = k[c] + SumFunctionOnSet(k, T \ {c})
    BY <1>3, <1>5, TotalUnfolds
  <1> HIDE DEF c
  <1>7. c + 1 \in Up(T) /\ Up(T) \ {c + 1} = Up(T \ {c})
    <2>1. \A i \in T : i \in Nat /\ (i + 1 = c + 1 => i = c)
      <3> HIDE DEF C, Up
      <3>1. c \in Nat /\ \A i \in T : i \in Nat
        BY <1>3, <1>6
      <3> QED
        BY <3>1
    <2>2. c + 1 \in Up(T)
      BY <1>6
    <2>3. ASSUME NEW j
          PROVE  j \in Up(T) \ {c + 1} <=> j \in Up(T \ {c})
      BY <2>1
    <2> HIDE DEF Up
    <2> QED
      BY <2>2, <2>3
  <1>8. \A j \in Up(T) : g[j] \in Nat
    BY <1>3
  <1>9. SumFunctionOnSet(g, Up(T)) = g[c + 1] + SumFunctionOnSet(g, Up(T \ {c}))
    <2> DEFINE V == Up(T)
               x == c + 1
    <2>1. IsFiniteSet(V) /\ x \in V /\ V \ {x} = Up(T \ {c}) /\ \A j \in V : g[j] \in Nat
      BY <1>4, <1>7, <1>8, Zenon
    <2> HIDE DEF V, x, Up
    <2>2. SumFunctionOnSet(g, V) = g[x] + SumFunctionOnSet(g, V \ {x})
      BY <2>1, TotalRemove
    <2> QED
      BY <2>1, <2>2 DEF V, x
  <1>10. SumFunctionOnSet(k, T \ {c}) = SumFunctionOnSet(g, Up(T \ {c}))
    <2>1. T \ {c} \notin C
      BY <1>2, <1>6
    <2> HIDE DEF Up
    <2> QED
      BY <1>3, <2>1
  <1>11. k[c] = g[c + 1]
    BY <1>3, <1>6
  <1>12. SumFunctionOnSet(k, T) # SumFunctionOnSet(g, Up(T))
    OBVIOUS
  <1> HIDE DEF Up, C
  <1> QED
    BY <1>6, <1>9, <1>10, <1>11, <1>12

(* What a sequence's last place adds to the total.                           *)
LEMMA TotalAppend ==
    ASSUME NEW n \in Nat, NEW g, NEW k,
           \A i \in 1..n : k[i] = g[i], \A i \in 1..(n + 1) : k[i] \in Nat
    PROVE  SumFunctionOnSet(k, 1..(n + 1)) = SumFunctionOnSet(g, 1..n) + k[n + 1]
  <1>1. IsFiniteSet(1..n)
    BY FS_Interval
  <1>2. 1..(n + 1) = (1..n) \cup {n + 1} /\ n + 1 \notin 1..n
    OBVIOUS
  <1>3. SumFunctionOnSet(k, (1..n) \cup {n + 1}) = SumFunctionOnSet(k, 1..n) + k[n + 1]
    <2> DEFINE S == 1..n
               x == n + 1
    <2>1. IsFiniteSet(S) /\ x \notin S /\ \A y \in S \cup {x} : k[y] \in Nat
      BY <1>1
    <2> HIDE DEF S, x
    <2>2. SumFunctionOnSet(k, S \cup {x}) = SumFunctionOnSet(k, S) + k[x]
      BY <2>1, TotalAdd
    <2> QED
      BY <2>2 DEF S, x
  <1>4. SumFunctionOnSet(k, 1..n) = SumFunctionOnSet(g, 1..n)
    BY <1>1, TotalAgrees
  <1> QED
    BY <1>2, <1>3, <1>4

(* What a sequence's first place adds to the total of its tail.              *)
LEMMA TotalTail ==
    ASSUME NEW n \in Nat, NEW g, NEW k,
           \A i \in 1..n : k[i] = g[i + 1], \A i \in 1..(n + 1) : g[i] \in Nat
    PROVE  SumFunctionOnSet(g, 1..(n + 1)) = g[1] + SumFunctionOnSet(k, 1..n)
  <1> DEFINE S == 1..(n + 1)
             T == 1..n
  <1>1. IsFiniteSet(S) /\ IsFiniteSet(T)
    BY FS_Interval
  <1>2. 1 \in S /\ S \ {1} = {i + 1 : i \in T} /\ T \subseteq Nat
    <2>1. ASSUME NEW j \in S, j # 1 PROVE j - 1 \in T /\ j = (j - 1) + 1
      BY <2>1
    <2> QED
      BY <2>1
  <1>3. /\ \A i \in T : k[i] = g[i + 1] /\ k[i] \in Nat
        /\ \A i \in S : g[i] \in Nat
    OBVIOUS
  <1> HIDE DEF S, T
  <1>4. SumFunctionOnSet(g, S) = g[1] + SumFunctionOnSet(g, S \ {1})
    BY <1>1, <1>2, <1>3, TotalRemove
  <1>5. SumFunctionOnSet(k, T) = SumFunctionOnSet(g, {i + 1 : i \in T})
    BY <1>1, <1>2, <1>3, TotalShift
  <1> QED
    BY <1>2, <1>4, <1>5 DEF S, T

-----------------------------------------------------------------------------
(* Selections.                                                               *)

(* The elements of S up to x in the order R.                                 *)
Upon(S, R, x) == {y \in S : y = x \/ <<y, x>> \in R}

(* Counting the elements up to one of them numbers a finite set in a strict  *)
(* total order R, without a gap.                                             *)
LEMMA RankOnto ==
    ASSUME NEW S, IsFiniteSet(S), NEW R,
           \A x \in S : <<x, x>> \notin R,
           \A x, y, z \in S : <<x, y>> \in R /\ <<y, z>> \in R => <<x, z>> \in R,
           \A x, y \in S : x = y \/ <<x, y>> \in R \/ <<y, x>> \in R
    PROVE  /\ \A x \in S : Cardinality(Upon(S, R, x)) \in 1..Cardinality(S)
           /\ \A x, y \in S : <<x, y>> \in R => Cardinality(Upon(S, R, x)) < Cardinality(Upon(S, R, y))
           /\ \A n \in 1..Cardinality(S) : \E x \in S : Cardinality(Upon(S, R, x)) = n
  <1> DEFINE place == [x \in S |-> Cardinality(Upon(S, R, x))]
  <1>1. \A x \in S : IsFiniteSet(Upon(S, R, x)) /\ Cardinality(Upon(S, R, x)) \in 1..Cardinality(S)
    <2> TAKE x \in S
    <2>1. Upon(S, R, x) \in SUBSET S
      BY DEF Upon
    <2>2. IsFiniteSet(Upon(S, R, x)) /\ Cardinality(Upon(S, R, x)) <= Cardinality(S)
      BY <2>1, FS_Subset, Zenon
    <2>3. {x} \in SUBSET Upon(S, R, x)
      BY DEF Upon
    <2>4. Cardinality({x}) = 1 /\ Cardinality({x}) <= Cardinality(Upon(S, R, x))
      BY <2>2, <2>3, FS_Subset, FS_Singleton, Zenon
    <2>5. Cardinality(S) \in Nat /\ Cardinality(Upon(S, R, x)) \in Nat
      BY <2>2, FS_CardinalityType, Zenon
    <2> QED
      BY <2>2, <2>4, <2>5
  <1>2. \A x, y \in S : <<x, y>> \in R => Cardinality(Upon(S, R, x)) < Cardinality(Upon(S, R, y))
    <2> SUFFICES ASSUME NEW x \in S, NEW y \in S, <<x, y>> \in R
                 PROVE  Cardinality(Upon(S, R, x)) < Cardinality(Upon(S, R, y))
      OBVIOUS
    <2>1. Upon(S, R, x) \in SUBSET Upon(S, R, y) /\ y \in Upon(S, R, y) /\ y \notin Upon(S, R, x)
      BY DEF Upon
    <2>2. IsFiniteSet(Upon(S, R, x)) /\ IsFiniteSet(Upon(S, R, y))
      BY <1>1, Zenon
    <2>3. /\ Cardinality(Upon(S, R, x)) <= Cardinality(Upon(S, R, y))
          /\ Cardinality(Upon(S, R, y)) = Cardinality(Upon(S, R, x)) => Upon(S, R, y) = Upon(S, R, x)
      BY <2>1, <2>2, FS_Subset, Zenon
    <2>4. Cardinality(Upon(S, R, x)) # Cardinality(Upon(S, R, y))
      BY <2>1, <2>3
    <2>5. Cardinality(Upon(S, R, x)) \in Nat /\ Cardinality(Upon(S, R, y)) \in Nat
      BY <2>2, FS_CardinalityType
    <2> QED
      BY <2>3, <2>4, <2>5
  <1>3. Cardinality(S) \in Nat
    BY FS_CardinalityType
  <1> DEFINE N == Cardinality(S)
  <1>4. place \in [S -> 1..N]
    BY <1>1
  <1>5. \A x, y \in S : place[x] = place[y] => x = y
    <2> SUFFICES ASSUME NEW x \in S, NEW y \in S, place[x] = place[y], x # y
                 PROVE  FALSE
      OBVIOUS
    <2>1. <<x, y>> \in R \/ <<y, x>> \in R
      OBVIOUS
    <2>2. place[x] \in 1..N /\ place[y] \in 1..N
      BY <1>4
    <2>3. place[x] < place[y] \/ place[y] < place[x]
      BY <1>2, <2>1
    <2> QED
      BY <2>2, <2>3, <1>3
  <1>6. place \in Injection(S, 1..N)
    <2> HIDE DEF place, N
    <2>1. \A a, b \in DOMAIN place : place[a] = place[b] => a = b
      BY <1>4, <1>5
    <2> QED
      BY <1>4, <2>1 DEF Injection, IsInjective
  <1>7. IsFiniteSet(1..N) /\ Cardinality(1..N) = N
    BY <1>3, FS_Interval
  <1>8. place \in Surjection(S, 1..N)
    <2> HIDE DEF place
    <2>1. Cardinality(S) = Cardinality(1..N)
      BY <1>7
    <2> HIDE DEF N
    <2> QED
      BY <1>6, <1>7, <2>1, FS_Injection, Zenon
  <1>9. \A n \in 1..N : \E x \in S : place[x] = n
    <2> HIDE DEF place, N
    <2> QED
      BY <1>4, <1>8 DEF Surjection
  <1> QED
    BY <1>1, <1>2, <1>9

(* Ascending gives each number of a finite set its place.                    *)
LEMMA AscendingLaws ==
    ASSUME NEW S \in SUBSET Int, IsFiniteSet(S)
    PROVE  /\ Ascending(S) \in Seq(S) /\ Len(Ascending(S)) = Cardinality(S)
           /\ ToSet(Ascending(S)) = S
           /\ \A i, j \in 1..Cardinality(S) : i < j => Ascending(S)[i] < Ascending(S)[j]
  <1> DEFINE R == {p \in S \X S : p[1] < p[2]}
             Under(x) == {y \in S : y <= x}
             N == Cardinality(S)
             a == Ascending(S)
  <1>1. \A x, y \in S : <<x, y>> \in R <=> x < y
    OBVIOUS
  <1>2. \A x \in S : Under(x) = Upon(S, R, x)
    <2> TAKE x \in S
    <2>1. \A y \in S : y <= x <=> y = x \/ <<y, x>> \in R
      <3> HIDE DEF R
      <3>1. \A y \in S : y \in Int /\ x \in Int
        OBVIOUS
      <3> QED
        BY <1>1, <3>1
    <2> HIDE DEF R
    <2> QED
      BY <2>1 DEF Upon
  <1>3. /\ \A x \in S : Cardinality(Under(x)) \in 1..N
        /\ \A x, y \in S : <<x, y>> \in R => Cardinality(Under(x)) < Cardinality(Under(y))
        /\ \A n \in 1..N : \E x \in S : Cardinality(Under(x)) = n
    <2>1. /\ \A x \in S : <<x, x>> \notin R
          /\ \A x, y, z \in S : <<x, y>> \in R /\ <<y, z>> \in R => <<x, z>> \in R
          /\ \A x, y \in S : x = y \/ <<x, y>> \in R \/ <<y, x>> \in R
      BY <1>1
    <2> HIDE DEF R
    <2>2. /\ \A x \in S : Cardinality(Upon(S, R, x)) \in 1..N
          /\ \A x, y \in S : <<x, y>> \in R => Cardinality(Upon(S, R, x)) < Cardinality(Upon(S, R, y))
          /\ \A n \in 1..N : \E x \in S : Cardinality(Upon(S, R, x)) = n
      BY <2>1, RankOnto, Zenon
    <2> HIDE DEF Under
    <2> QED
      BY <2>2, <1>2
  <1>4. N \in Nat
    BY FS_CardinalityType
  <1>5. a = [n \in 1..N |-> CHOOSE x \in S : Cardinality(Under(x)) = n]
    BY DEF Ascending
  <1> HIDE DEF a, Under, N, R
  <1>6. \A n \in 1..N : a[n] \in S /\ Cardinality(Under(a[n])) = n
    <2> TAKE n \in 1..N
    <2>1. \E x \in S : Cardinality(Under(x)) = n
      BY <1>3
    <2> DEFINE c == CHOOSE x \in S : Cardinality(Under(x)) = n
    <2>2. c \in S /\ Cardinality(Under(c)) = n
      BY <2>1
    <2>3. a[n] = c
      BY <1>5
    <2> QED
      BY <2>2, <2>3
  <1>7. a \in [1..N -> S]
    BY <1>5, <1>6
  <1>8. a \in Seq(S) /\ Len(a) = N
    BY <1>4, <1>7
  <1>9. \A x, y \in S : Cardinality(Under(x)) = Cardinality(Under(y)) => x = y
    <2> SUFFICES ASSUME NEW x \in S, NEW y \in S, Cardinality(Under(x)) = Cardinality(Under(y)), x # y
                 PROVE  FALSE
      OBVIOUS
    <2>1. <<x, y>> \in R \/ <<y, x>> \in R
      BY <1>1
    <2>2. Cardinality(Under(x)) \in Int /\ Cardinality(Under(y)) \in Int
      BY <1>3
    <2> QED
      BY <1>3, <2>1, <2>2
  <1>10. S \subseteq ToSet(a)
    <2> SUFFICES ASSUME NEW x \in S PROVE x \in ToSet(a)
      OBVIOUS
    <2> DEFINE n == Cardinality(Under(x))
    <2>1. n \in 1..N
      BY <1>3
    <2>2. a[n] = x
      BY <1>6, <1>9, <2>1
    <2> HIDE DEF n
    <2> QED
      BY <2>1, <2>2, <1>7 DEF ToSet
  <1>11. ToSet(a) \subseteq S
    BY <1>7 DEF ToSet
  <1>12. \A i, j \in 1..N : i < j => a[i] < a[j]
    <2> SUFFICES ASSUME NEW i \in 1..N, NEW j \in 1..N, i < j, ~(a[i] < a[j])
                 PROVE  FALSE
      OBVIOUS
    <2>1. a[i] \in S /\ a[j] \in S /\ Cardinality(Under(a[i])) = i /\ Cardinality(Under(a[j])) = j
      BY <1>6
    <2>a. a[i] \in Int /\ a[j] \in Int
      BY <2>1
    <2>2. a[i] = a[j] \/ <<a[j], a[i]>> \in R
      BY <1>1, <2>1, <2>a
    <2>3. i = j \/ j < i
      BY <1>3, <2>1, <2>2
    <2> QED
      BY <2>3
  <1> QED
    BY <1>8, <1>10, <1>11, <1>12 DEF a, N

(* Positions of a sequence are a finite set of numbers.                      *)
LEMMA SomePositions ==
    ASSUME NEW T, NEW s \in Seq(T), NEW P \in SUBSET DOMAIN s
    PROVE  P \in SUBSET Int /\ IsFiniteSet(P)
  <1>1. Len(s) \in Nat /\ DOMAIN s = 1..Len(s)
    OBVIOUS
  <1>2. IsFiniteSet(1..Len(s))
    BY <1>1, FS_Interval
  <1> QED
    BY <1>1, <1>2, FS_Subset

(* r is the elements of s in S, element n of it being element at[n] of s.    *)
Selects(s, S, r, at) ==
    /\ at \in [1..Len(r) -> 1..Len(s)]
    /\ \A n \in 1..Len(r) : r[n] = s[at[n]]
    /\ \A m, n \in 1..Len(r) : m < n => at[m] < at[n]
    /\ \A i \in 1..Len(s) : s[i] \in S => \E n \in 1..Len(r) : at[n] = i

(* What a selection keeps, and in which order.                               *)
LEMMA OnlyInLaws ==
    ASSUME NEW T, NEW s \in Seq(T), NEW S
    PROVE  /\ OnlyIn(s, S) \in Seq(T \cap S)
           /\ ToSet(OnlyIn(s, S)) = ToSet(s) \cap S
           /\ \E at : Selects(s, S, OnlyIn(s, S), at)
  <1> DEFINE P == {i \in DOMAIN s : s[i] \in S}
             at == Ascending(P)
             N == Cardinality(P)
             r == OnlyIn(s, S)
  <1>1. P \in SUBSET Int /\ IsFiniteSet(P)
    BY SomePositions
  <1>2. P = {i \in 1..Len(s) : s[i] \in S}
    OBVIOUS
  <1>a. r = [n \in DOMAIN at |-> s[at[n]]]
    BY DEF OnlyIn
  <1> HIDE DEF P, r
  <1>3. /\ at \in Seq(P) /\ Len(at) = N
        /\ ToSet(at) = P
        /\ \A i, j \in 1..N : i < j => at[i] < at[j]
    BY <1>1, AscendingLaws
  <1> HIDE DEF at, N
  <1>4. N \in Nat /\ at \in [1..N -> P] /\ DOMAIN at = 1..N
    BY <1>3
  <1>5. r \in [1..N -> T \cap S]
    <2>1. \A n \in 1..N : s[at[n]] \in T \cap S
      BY <1>4, <1>2
    <2> QED
      BY <1>a, <1>4, <2>1
  <1>6. r \in Seq(T \cap S) /\ Len(r) = N
    BY <1>4, <1>5
  <1>7. \A n \in 1..N : r[n] = s[at[n]]
    BY <1>a, <1>4
  <1>8. \A i \in 1..Len(s) : s[i] \in S => \E n \in 1..N : at[n] = i
    BY <1>2, <1>3, <1>4 DEF ToSet
  <1>9. at \in [1..N -> 1..Len(s)]
    BY <1>2, <1>4
  <1>10. ToSet(r) = ToSet(s) \cap S
    <2>1. \A x \in ToSet(r) : x \in ToSet(s) \cap S
      BY <1>5, <1>7, <1>9 DEF ToSet
    <2>2. \A x \in ToSet(s) \cap S : x \in ToSet(r)
      <3> TAKE x \in ToSet(s) \cap S
      <3>1. PICK i \in 1..Len(s) : s[i] = x
        BY DEF ToSet
      <3>2. PICK n \in 1..N : at[n] = i
        BY <1>8, <3>1
      <3> QED
        BY <1>5, <1>7, <3>1, <3>2 DEF ToSet
    <2> QED
      BY <2>1, <2>2
  <1>11. Selects(s, S, r, at)
    BY <1>3, <1>6, <1>7, <1>8, <1>9 DEF Selects
  <1> QED
    BY <1>6, <1>10, <1>11 DEF r

(* A prefix.                                                                 *)
LEMMA UpToLaws ==
    ASSUME NEW T, NEW s \in Seq(T), NEW n \in Nat
    PROVE  /\ UpTo(s, n) \in Seq(T)
           /\ Len(UpTo(s, n)) = IF Len(s) < n THEN Len(s) ELSE n
           /\ \A i \in 1..Len(UpTo(s, n)) : UpTo(s, n)[i] = s[i]
           /\ Len(s) <= n => UpTo(s, n) = s
           /\ UpTo(s, n) = s => Len(s) <= n
           /\ ToSet(UpTo(s, n)) \subseteq ToSet(s)
  <1> DEFINE m == IF Len(s) < n THEN Len(s) ELSE n
             u == UpTo(s, n)
  <1>1. m \in Nat /\ m <= Len(s)
    OBVIOUS
  <1>2. u = SubSeq(s, 1, m)
    BY DEF UpTo
  <1>3. \A i \in 1..m : s[i] \in T
    BY <1>1
  <1> HIDE DEF m, u
  <1>4. u \in Seq(T) /\ Len(u) = m /\ \A i \in 1..m : u[i] = s[i]
    BY <1>1, <1>2, <1>3
  <1>5. Len(s) = m => u = s
    BY <1>4
  <1>6. ToSet(u) \subseteq ToSet(s)
    BY <1>1, <1>4 DEF ToSet
  <1> QED
    BY <1>1, <1>4, <1>5, <1>6 DEF m, u

(* A non-empty set of naturals has a least element.                          *)
LEMMA LeastNumber ==
    ASSUME NEW C \in SUBSET Nat, C # {}
    PROVE  \E m \in C : \A k \in C : m <= k
  <1>1. PICK c \in C : TRUE
    OBVIOUS
  <1> DEFINE D == {k \in C : k <= c}
  <1>0. c \in Nat /\ \A k \in C : k \in Nat
    BY <1>1
  <1>d. c \in D /\ \A k \in D : k \in Nat /\ k <= c
    BY <1>0
  <1>2. D \subseteq 0..c /\ c \in D
    <2> HIDE DEF D
    <2> QED
      BY <1>d, <1>0
  <1>b. D \subseteq Int
    <2> HIDE DEF D
    <2> QED
      BY <1>d
  <1> HIDE DEF D
  <1>3. IsFiniteSet(D) /\ D \in SUBSET Int
    <2>1. IsFiniteSet(0..c)
      BY <1>0, FS_Interval
    <2> QED
      BY <1>2, <1>b, <2>1, FS_Subset
  <1> HIDE DEF D
  <1>4. /\ Ascending(D) \in Seq(D) /\ Len(Ascending(D)) = Cardinality(D)
        /\ ToSet(Ascending(D)) = D
        /\ \A i, j \in 1..Cardinality(D) : i < j => Ascending(D)[i] < Ascending(D)[j]
    BY <1>3, AscendingLaws
  <1> DEFINE a == Ascending(D)
             N == Cardinality(D)
  <1>5. N \in Nat /\ N # 0
    BY <1>2, <1>3, FS_CardinalityType, FS_EmptySet
  <1> HIDE DEF a, N
  <1>c. a \in Seq(D) /\ Len(a) = N
    BY <1>4 DEF a, N
  <1>e. a \in [1..N -> D]
    BY <1>c
  <1>6. a \in [1..N -> D] /\ \A i \in 1..N : a[i] \in Int
    BY <1>b, <1>e
  <1>7. a[1] \in D /\ \A k \in D : a[1] <= k
    <2>1. \A k \in D : \E i \in 1..N : a[i] = k
      BY <1>4, <1>6 DEF a, ToSet
    <2>2. 1 \in 1..N /\ \A i \in 1..N : i = 1 \/ a[1] < a[i]
      BY <1>4, <1>5 DEF a, N
    <2>3. ASSUME NEW k \in D PROVE a[1] <= k
      BY <2>1, <2>2, <1>6
    <2> QED
      BY <2>2, <2>3, <1>6
  <1>8. a[1] \in C /\ \A k \in C : a[1] <= k
    <2>1. a[1] <= c /\ a[1] \in Int
      BY <1>7, <1>2, <1>3
    <2>2. ASSUME NEW k \in C PROVE a[1] <= k
      <3>1. k \in Nat
        OBVIOUS
      <3>2. CASE k <= c
        BY <1>7, <3>2 DEF D
      <3>3. CASE k > c
        BY <3>1, <3>3, <2>1, <1>2
      <3> QED
        BY <3>1, <3>2, <3>3, <1>2
    <2> QED
      BY <1>7, <2>2 DEF D
  <1> QED
    BY <1>8

(* f is the first n sequences of ss put together: element k of it is element *)
(* col[k] of the sequence row[k], in lexicographic order and without a gap.  *)
PutTogether(ss, n, f, row, col) ==
    /\ row \in [1..Len(f) -> 1..n] /\ col \in [1..Len(f) -> Nat]
    /\ \A k \in 1..Len(f) :
         /\ col[k] \in 1..Len(ss[row[k]])
         /\ f[k] = ss[row[k]][col[k]]
    /\ \A k, l \in 1..Len(f) :
         k < l => row[k] < row[l] \/ (row[k] = row[l] /\ col[k] < col[l])
    /\ \A i \in 1..n : \A j \in 1..Len(ss[i]) :
         \E k \in 1..Len(f) : row[k] = i /\ col[k] = j

(* Joined sequence by sequence.                                              *)
Joins(ss, n, h) == h = [i \in 1..n |-> IF i = 1 THEN ss[i] ELSE h[i - 1] \o ss[i]]

LEMMA JoinsExists ==
    ASSUME NEW ss, NEW N \in Nat
    PROVE  \E h : Joins(ss, N, h)
  <1> DEFINE C == {n \in Nat : ~ \E h : Joins(ss, n, h)}
  <1>1. SUFFICES ASSUME C # {} PROVE FALSE
    OBVIOUS
  <1>2. PICK n \in C : \A k \in C : n <= k
    <2> HIDE DEF C
    <2>1. C \subseteq Nat
      BY DEF C
    <2> QED
      BY <1>1, <2>1, LeastNumber
  <1>3. n # 0 /\ n - 1 \notin C /\ n - 1 \in Nat
    <2>1. Joins(ss, 0, [i \in 1..0 |-> 0])
      BY DEF Joins
    <2>2. n # 0 /\ n \in Nat
      BY <2>1, <1>2
    <2>3. n - 1 \in Nat /\ ~(n <= n - 1)
      BY <2>2
    <2> HIDE DEF C
    <2> QED
      BY <2>2, <2>3, <1>2
  <1>4. PICK h : Joins(ss, n - 1, h)
    BY <1>3
  <1> DEFINE g == [i \in 1..n |-> IF i < n THEN h[i] ELSE IF i = 1 THEN ss[i] ELSE h[i - 1] \o ss[i]]
  <1>5. \A i \in 1..n : g[i] = IF i = 1 THEN ss[i] ELSE g[i - 1] \o ss[i]
    <2> TAKE i \in 1..n
    <2>0. n \in Nat
      BY <1>2
    <2>1. CASE i < n
      <3>1. i \in 1..(n - 1) /\ h = [k \in 1..(n - 1) |-> IF k = 1 THEN ss[k] ELSE h[k - 1] \o ss[k]]
        <4>1. i \in 1..(n - 1)
          BY <2>0, <2>1
        <4> QED
          BY <4>1, <1>4 DEF Joins
      <3>2. h[i] = IF i = 1 THEN ss[i] ELSE h[i - 1] \o ss[i]
        BY <3>1
      <3>3. g[i] = h[i] /\ (i # 1 => g[i - 1] = h[i - 1])
        BY <2>1, <2>0
      <3> QED
        BY <3>2, <3>3
    <2>2. CASE i = n
      <3>1. i # 1 => g[i - 1] = h[i - 1]
        BY <2>2, <2>0
      <3> QED
        BY <2>2, <3>1
    <2> QED
      BY <2>0, <2>1, <2>2
  <1>6. Joins(ss, n, g)
    <2>1. g = [i \in 1..n |-> g[i]]
      OBVIOUS
    <2> HIDE DEF g
    <2> QED
      BY <1>5, <2>1 DEF Joins
  <1> QED
    BY <1>2, <1>6

(* Putting one more sequence behind.                                         *)
LEMMA PutTogetherStep ==
    ASSUME NEW T, NEW ss \in Seq(Seq(T)), NEW n \in Nat, n < Len(ss),
           NEW f \in Seq(T), NEW row, NEW col, PutTogether(ss, n, f, row, col)
    PROVE  \E r, c : PutTogether(ss, n + 1, f \o ss[n + 1], r, c)
  <1> DEFINE t == ss[n + 1]
             g == f \o t
             r == [k \in 1..Len(g) |-> IF k <= Len(f) THEN row[k] ELSE n + 1]
             c == [k \in 1..Len(g) |-> IF k <= Len(f) THEN col[k] ELSE k - Len(f)]
  <1>1. t \in Seq(T)
    OBVIOUS
  <1>2. Len(f) \in Nat /\ Len(t) \in Nat
    BY <1>1
  <1>3. /\ Len(g) = Len(f) + Len(t)
        /\ \A k \in 1..Len(g) : g[k] = IF k <= Len(f) THEN f[k] ELSE t[k - Len(f)]
    BY <1>1
  <1>4. /\ row \in [1..Len(f) -> 1..n] /\ col \in [1..Len(f) -> Nat]
        /\ \A k \in 1..Len(f) : col[k] \in 1..Len(ss[row[k]]) /\ f[k] = ss[row[k]][col[k]]
        /\ \A k, l \in 1..Len(f) :
             k < l => row[k] < row[l] \/ (row[k] = row[l] /\ col[k] < col[l])
        /\ \A i \in 1..n : \A j \in 1..Len(ss[i]) :
             \E k \in 1..Len(f) : row[k] = i /\ col[k] = j
    BY DEF PutTogether
  <1>5. t = ss[n + 1]
    OBVIOUS
  <1> HIDE DEF t, g
  <1>6. r \in [1..Len(g) -> 1..(n + 1)] /\ c \in [1..Len(g) -> Nat]
    BY <1>2, <1>3, <1>4
  <1>7. \A k \in 1..Len(g) : c[k] \in 1..Len(ss[r[k]]) /\ g[k] = ss[r[k]][c[k]]
    <2> TAKE k \in 1..Len(g)
    <2>1. CASE k <= Len(f)
      <3>1. k \in 1..Len(f) /\ r[k] = row[k] /\ c[k] = col[k] /\ g[k] = f[k]
        BY <2>1, <1>2, <1>3
      <3> QED
        BY <3>1, <1>4
    <2>2. CASE k > Len(f)
      <3>1. r[k] = n + 1 /\ c[k] = k - Len(f) /\ g[k] = t[k - Len(f)] /\ k - Len(f) \in 1..Len(t)
        BY <2>2, <1>2, <1>3
      <3> QED
        BY <3>1, <1>5
    <2> QED
      BY <2>1, <2>2, <1>2, <1>3
  <1>8. \A k, l \in 1..Len(g) : k < l => r[k] < r[l] \/ (r[k] = r[l] /\ c[k] < c[l])
    <2> SUFFICES ASSUME NEW k \in 1..Len(g), NEW l \in 1..Len(g), k < l
                 PROVE  r[k] < r[l] \/ (r[k] = r[l] /\ c[k] < c[l])
      OBVIOUS
    <2>1. CASE l <= Len(f)
      <3>1. k \in 1..Len(f) /\ l \in 1..Len(f)
        BY <2>1, <1>2, <1>3
      <3>2. r[k] = row[k] /\ r[l] = row[l] /\ c[k] = col[k] /\ c[l] = col[l]
        BY <3>1
      <3> QED
        BY <3>1, <3>2, <1>4
    <2>2. CASE l > Len(f) /\ k <= Len(f)
      <3>1. k \in 1..Len(f) /\ l \in 1..Len(g) /\ ~(l <= Len(f))
        BY <2>2, <1>2, <1>3
      <3>2. r[k] = row[k] /\ r[l] = n + 1
        BY <3>1, <2>2
      <3>3. row[k] \in 1..n
        BY <3>1, <1>4
      <3> QED
        BY <3>2, <3>3
    <2>3. CASE k > Len(f)
      BY <2>3, <1>2, <1>3
    <2> QED
      BY <2>1, <2>2, <2>3, <1>2, <1>3
  <1>9. \A i \in 1..(n + 1) : \A j \in 1..Len(ss[i]) : \E k \in 1..Len(g) : r[k] = i /\ c[k] = j
    <2> SUFFICES ASSUME NEW i \in 1..(n + 1), NEW j \in 1..Len(ss[i])
                 PROVE  \E k \in 1..Len(g) : r[k] = i /\ c[k] = j
      OBVIOUS
    <2>1. CASE i <= n
      <3>1. PICK k \in 1..Len(f) : row[k] = i /\ col[k] = j
        BY <2>1, <1>4
      <3>2. k \in 1..Len(g) /\ r[k] = row[k] /\ c[k] = col[k]
        BY <1>2, <1>3
      <3> QED
        BY <3>1, <3>2
    <2>2. CASE i = n + 1
      <3>1. Len(f) + j \in 1..Len(g) /\ ~(Len(f) + j <= Len(f))
        BY <2>2, <1>2, <1>3, <1>5
      <3>2. r[Len(f) + j] = n + 1 /\ c[Len(f) + j] = j
        BY <3>1, <1>2
      <3> QED
        BY <2>2, <3>1, <3>2
    <2> QED
      BY <2>1, <2>2
  <1>10. PutTogether(ss, n + 1, g, r, c)
    <2> HIDE DEF r, c
    <2> QED
      BY <1>6, <1>7, <1>8, <1>9 DEF PutTogether
  <1> QED
    BY <1>10 DEF g, t

(* What FlattenSeq puts together.                                            *)
LEMMA FlattenPlaces ==
    ASSUME NEW T, NEW ss \in Seq(Seq(T))
    PROVE  /\ FlattenSeq(ss) \in Seq(T)
           /\ \E row, col : PutTogether(ss, Len(ss), FlattenSeq(ss), row, col)
  <1>1. CASE Len(ss) = 0
    <2>1. ss = <<>> /\ FlattenSeq(ss) = ss
      BY <1>1 DEF FlattenSeq
    <2>a. <<>> \in Seq(T)
      OBVIOUS
    <2>2. PutTogether(<<>>, 0, <<>>, [k \in 1..0 |-> 0], [k \in 1..0 |-> 0])
      BY DEF PutTogether
    <2>3. \E row, col : PutTogether(<<>>, 0, <<>>, row, col)
      BY <2>2
    <2>4. \E row, col : PutTogether(ss, Len(ss), ss, row, col)
      BY <1>1, <2>1, <2>3, Zenon
    <2> QED
      BY <2>1, <2>4, <2>a, Zenon
  <1>2. CASE Len(ss) # 0
    <2> DEFINE N == Len(ss)
               h == CHOOSE g : g = [i \in 1..N |-> IF i = 1 THEN ss[i] ELSE g[i - 1] \o ss[i]]
    <2>1. N \in Nat /\ N >= 1
      BY <1>2
    <2>2. Joins(ss, N, h)
      <3>1. \E g : Joins(ss, N, g)
        BY <2>1, JoinsExists
      <3> HIDE DEF N
      <3> QED
        BY <3>1 DEF Joins
    <2>3. FlattenSeq(ss) = h[N]
      BY <1>2 DEF FlattenSeq
    <2>n. N = Len(ss) /\ \A i \in 1..N : ss[i] \in Seq(T)
      OBVIOUS
    <2> HIDE DEF h, N
    <2>4. \A i \in 1..N : h[i] = IF i = 1 THEN ss[i] ELSE h[i - 1] \o ss[i]
      BY <2>2 DEF Joins
    <2> DEFINE Good(i) == h[i] \in Seq(T) /\ \E row, col : PutTogether(ss, i, h[i], row, col)
               C == {i \in 1..N : ~Good(i)}
    <2>5. C = {}
      <3>1. SUFFICES ASSUME C # {} PROVE FALSE
        OBVIOUS
      <3>2. PICK n \in C : \A k \in C : n <= k
        <4>1. C \in SUBSET Nat
          OBVIOUS
        <4> HIDE DEF C
        <4> QED
          BY <3>1, <4>1, LeastNumber
      <3>3. n \in 1..N /\ ~Good(n)
        OBVIOUS
      <3>4. CASE n = 1
        <4>1. h[1] = ss[1] /\ ss[1] \in Seq(T)
          BY <2>1, <2>4 DEF N
        <4> DEFINE s == ss[1]
        <4>2. PutTogether(ss, 1, s, [k \in 1..Len(s) |-> 1], [k \in 1..Len(s) |-> k])
          <5>1. Len(s) \in Nat
            BY <4>1
          <5> QED
            BY <5>1 DEF PutTogether
        <4> QED
          BY <3>3, <3>4, <4>1, <4>2
      <3>5. CASE n # 1
        <4>1. n - 1 \in 1..N /\ n - 1 < n
          BY <3>3, <3>5, <2>1
        <4>2. n - 1 \notin C
          <5>1. n \in Int
            BY <3>3
          <5> HIDE DEF C
          <5> QED
            BY <3>2, <4>1, <5>1
        <4>3. Good(n - 1)
          BY <4>1, <4>2
        <4>4. PICK row, col : PutTogether(ss, n - 1, h[n - 1], row, col)
          BY <4>3
        <4>5. \E r, c : PutTogether(ss, (n - 1) + 1, h[n - 1] \o ss[(n - 1) + 1], r, c)
          <5>1. n - 1 \in Nat /\ n - 1 < Len(ss)
            BY <4>1, <3>3 DEF N
          <5> HIDE DEF C
          <5> QED
            BY <4>3, <4>4, <5>1, PutTogetherStep
        <4>6. (n - 1) + 1 = n /\ h[n] = h[n - 1] \o ss[n] /\ ss[n] \in Seq(T)
          <5>1. n \in 1..N /\ n \in Int
            BY <3>3
          <5> HIDE DEF C
          <5>2. h[n] = h[n - 1] \o ss[n]
            BY <5>1, <3>5, <2>4
          <5> QED
            BY <5>1, <5>2, <2>n
        <4>7. h[n] \in Seq(T)
          BY <4>3, <4>6
        <4> QED
          BY <3>3, <4>5, <4>6, <4>7
      <3> QED
        BY <3>4, <3>5
    <2>6. N \in 1..N
      BY <2>1
    <2>7. Good(N)
      BY <2>5, <2>6
    <2> QED
      BY <2>3, <2>7 DEF N
  <1> QED
    BY <1>1, <1>2

(* Its elements are those of the sequences.                                  *)
LEMMA FlattenElements ==
    ASSUME NEW T, NEW ss \in Seq(Seq(T))
    PROVE  /\ FlattenSeq(ss) \in Seq(T)
           /\ \A x \in ToSet(FlattenSeq(ss)) :
                \E i \in 1..Len(ss) : \E j \in 1..Len(ss[i]) : ss[i][j] = x
           /\ \A i \in 1..Len(ss) : \A j \in 1..Len(ss[i]) : ss[i][j] \in ToSet(FlattenSeq(ss))
  <1>1. FlattenSeq(ss) \in Seq(T)
    BY FlattenPlaces
  <1>2. PICK row, col : PutTogether(ss, Len(ss), FlattenSeq(ss), row, col)
    BY FlattenPlaces
  <1>3. ASSUME NEW x, x \in ToSet(FlattenSeq(ss))
        PROVE  \E i \in 1..Len(ss) : \E j \in 1..Len(ss[i]) : ss[i][j] = x
    <2>1. PICK k \in 1..Len(FlattenSeq(ss)) : FlattenSeq(ss)[k] = x
      BY <1>1, <1>3 DEF ToSet
    <2>2. row[k] \in 1..Len(ss) /\ col[k] \in 1..Len(ss[row[k]]) /\ FlattenSeq(ss)[k] = ss[row[k]][col[k]]
      BY <1>2 DEF PutTogether
    <2> QED
      BY <2>1, <2>2
  <1>4. ASSUME NEW i \in 1..Len(ss), NEW j \in 1..Len(ss[i])
        PROVE  ss[i][j] \in ToSet(FlattenSeq(ss))
    <2>1. PICK k \in 1..Len(FlattenSeq(ss)) : row[k] = i /\ col[k] = j
      BY <1>2 DEF PutTogether
    <2>2. FlattenSeq(ss)[k] = ss[i][j]
      BY <1>2, <2>1 DEF PutTogether
    <2> QED
      BY <1>1, <2>2 DEF ToSet
  <1> QED
    BY <1>1, <1>3, <1>4

(* What holds at 0 and climbs holds up to N.                                 *)
LEMMA Climbs ==
    ASSUME NEW N \in Nat, NEW P, 0 \in P, \A i \in 1..N : i - 1 \in P => i \in P
    PROVE  \A i \in 0..N : i \in P
  <1> DEFINE C == {i \in 0..N : i \notin P}
  <1>1. SUFFICES ASSUME C # {}
                 PROVE  FALSE
    OBVIOUS
  <1>2. C \in SUBSET Nat
    OBVIOUS
  <1> HIDE DEF C
  <1>3. PICK m \in C : \A k \in C : m <= k
    BY <1>1, <1>2, LeastNumber
  <1>4. m \in 1..N /\ m \notin P /\ m - 1 \in 0..N
    BY <1>3 DEF C
  <1>5. m - 1 \notin C
    BY <1>2, <1>3, <1>4
  <1>6. m - 1 \in P
    BY <1>4, <1>5 DEF C
  <1> QED
    BY <1>4, <1>6

(* A value carried through N steps.                                          *)
Carried(N, e, step, f) == f = [i \in 0..N |-> IF i = 0 THEN e ELSE step[<<i, f[i - 1]>>]]

LEMMA CarriedExists ==
    ASSUME NEW T, NEW N \in Nat, NEW e \in T, NEW step,
           \A i \in 1..N : \A x \in T : step[<<i, x>>] \in T
    PROVE  \E f \in [0..N -> T] : Carried(N, e, step, f)
  <1> DEFINE P == {n \in 0..N : \E f \in [0..n -> T] : Carried(n, e, step, f)}
  <1>1. 0 \in P
    <2> DEFINE f == [i \in 0..0 |-> e]
    <2>1. f \in [0..0 -> T] /\ f = [i \in 0..0 |-> IF i = 0 THEN e ELSE step[<<i, f[i - 1]>>]]
      OBVIOUS
    <2> HIDE DEF f
    <2> QED
      BY <2>1 DEF Carried
  <1>2. ASSUME NEW n \in 1..N, n - 1 \in P
        PROVE  n \in P
    <2>1. n \in Nat /\ n # 0 /\ n \in 0..N /\ n - 1 \in Nat
      OBVIOUS
    <2>2. PICK f \in [0..(n - 1) -> T] : Carried(n - 1, e, step, f)
      BY <1>2
    <2> DEFINE g == [i \in 0..n |-> IF i = n THEN step[<<n, f[n - 1]>>] ELSE f[i]]
    <2>3. \A i \in 0..n : i = n \/ i \in 0..(n - 1)
      BY <2>1
    <2>4. f[n - 1] \in T /\ step[<<n, f[n - 1]>>] \in T
      BY <2>1, <2>2
    <2>5. g \in [0..n -> T] /\ g[n] = step[<<n, f[n - 1]>>] /\ \A i \in 0..(n - 1) : g[i] = f[i]
      BY <2>1, <2>2, <2>3, <2>4
    <2>6. \A i \in 0..(n - 1) : f[i] = IF i = 0 THEN e ELSE step[<<i, f[i - 1]>>]
      BY <2>2 DEF Carried
    <2>7. g = [i \in 0..n |-> g[i]]
      OBVIOUS
    <2> HIDE DEF g
    <2>8. \A i \in 0..n : g[i] = IF i = 0 THEN e ELSE step[<<i, g[i - 1]>>]
      <3> TAKE i \in 0..n
      <3>1. CASE i = n
        BY <2>1, <2>5, <3>1
      <3>2. CASE i \in 0..(n - 1)
        <4>1. i = 0 \/ i - 1 \in 0..(n - 1)
          BY <2>1, <3>2
        <4> QED
          BY <2>5, <2>6, <3>2, <4>1
      <3> QED
        BY <2>3, <3>1, <3>2
    <2>9. Carried(n, e, step, g)
      BY <2>7, <2>8 DEF Carried
    <2> QED
      BY <2>1, <2>5, <2>9
  <1> HIDE DEF P
  <1>3. N \in P
    BY <1>1, <1>2, Climbs
  <1> QED
    BY <1>3 DEF P

-----------------------------------------------------------------------------
(* A selection that follows a sequence as it grows.                          *)

LEMMA SeqMonotone ==
    ASSUME NEW S, NEW T, S \subseteq T, NEW s \in Seq(S)
    PROVE  s \in Seq(T)
  OBVIOUS

(* An element is at some place, and what is at a place is an element.        *)
LEMMA AtPlaces ==
    ASSUME NEW T, NEW s \in Seq(T)
    PROVE  /\ \A i \in 1..Len(s) : s[i] \in ToSet(s) /\ s[i] \in T
           /\ \A x \in ToSet(s) : \E i \in 1..Len(s) : s[i] = x
  BY DEF ToSet

(* Two ascending sequences of the same numbers are one.                      *)
Rising(s) == \A i, j \in 1..Len(s) : i < j => s[i] < s[j]

LEMMA RisingAgree ==
    ASSUME NEW p \in Seq(Int), NEW q \in Seq(Int), Rising(p), Rising(q), ToSet(p) = ToSet(q)
    PROVE  \A i \in 1..Len(p) : i <= Len(q) /\ p[i] = q[i]
  <1> DEFINE B == {i \in 1..Len(p) : ~(i <= Len(q) /\ p[i] = q[i])}
  <1>1. SUFFICES ASSUME B # {}
                 PROVE  FALSE
    OBVIOUS
  <1>2. B \in SUBSET Nat
    OBVIOUS
  <1>3. PICK i \in B : \A k \in B : i <= k
    <2> HIDE DEF B
    <2> QED
      BY <1>1, <1>2, LeastNumber
  <1>4. i \in 1..Len(p) /\ Len(p) \in Nat /\ Len(q) \in Nat
    OBVIOUS
  <1>5. \A k \in 1..Len(p) : k < i => k <= Len(q) /\ p[k] = q[k]
    BY <1>3
  <1>6. \A k \in 1..Len(p) : p[k] \in Int /\ \E j \in 1..Len(q) : q[j] = p[k]
    <2>1. /\ \A k \in 1..Len(p) : p[k] \in ToSet(q) /\ p[k] \in Int
          /\ \A x \in ToSet(q) : \E j \in 1..Len(q) : q[j] = x
      BY AtPlaces
    <2> QED
      BY <2>1
  <1>7. \A k \in 1..Len(q) : q[k] \in Int /\ \E j \in 1..Len(p) : p[j] = q[k]
    <2>1. /\ \A k \in 1..Len(q) : q[k] \in ToSet(p) /\ q[k] \in Int
          /\ \A x \in ToSet(p) : \E j \in 1..Len(p) : p[j] = x
      BY AtPlaces
    <2> QED
      BY <2>1
  <1>a. \A k \in 1..Len(p) : p[k] \in Int
    BY <1>6
  <1>b. \A k \in 1..Len(q) : q[k] \in Int
    BY <1>7
  <1> HIDE DEF B
  <1>8. PICK j \in 1..Len(q) : q[j] = p[i]
    BY <1>4, <1>6
  <1>9. j >= i
    <2>1. SUFFICES ASSUME j < i
                   PROVE  FALSE
      BY <1>4
    <2>2. j \in 1..Len(p) /\ p[j] = q[j]
      BY <1>4, <1>5, <2>1
    <2>3. p[j] < p[i]
      BY <1>4, <2>1, <2>2 DEF Rising
    <2> QED
      BY <1>4, <1>a, <1>8, <2>2, <2>3
  <1>10. i \in 1..Len(q)
    BY <1>4, <1>9
  <1>11. PICK k \in 1..Len(p) : p[k] = q[i]
    BY <1>7, <1>10
  <1>12. k >= i
    <2>1. SUFFICES ASSUME k < i
                   PROVE  FALSE
      BY <1>4
    <2>2. k \in 1..Len(q) /\ p[k] = q[k]
      BY <1>4, <1>5, <1>10, <2>1
    <2>3. q[k] < q[i]
      BY <1>10, <2>1, <2>2 DEF Rising
    <2> QED
      BY <1>b, <1>10, <1>11, <2>2, <2>3
  <1>13. p[i] <= p[k]
    BY <1>4, <1>a, <1>11, <1>12 DEF Rising
  <1>14. q[i] <= q[j]
    BY <1>4, <1>b, <1>8, <1>9, <1>10 DEF Rising
  <1>15. p[i] = q[i]
    BY <1>4, <1>a, <1>b, <1>8, <1>10, <1>11, <1>13, <1>14
  <1> QED
    BY <1>3, <1>10, <1>15 DEF B

LEMMA RisingSame ==
    ASSUME NEW p \in Seq(Int), NEW q \in Seq(Int), Rising(p), Rising(q), ToSet(p) = ToSet(q)
    PROVE  p = q
  <1>1. \A i \in 1..Len(p) : i <= Len(q) /\ p[i] = q[i]
    BY RisingAgree
  <1>2. \A i \in 1..Len(q) : i <= Len(p) /\ q[i] = p[i]
    BY RisingAgree
  <1>3. Len(p) \in Nat /\ Len(q) \in Nat
    OBVIOUS
  <1>4. Len(p) = Len(q)
    <2>1. Len(p) = 0 \/ Len(p) \in 1..Len(p)
      BY <1>3
    <2>2. Len(q) = 0 \/ Len(q) \in 1..Len(q)
      BY <1>3
    <2>3. Len(p) <= Len(q)
      BY <1>1, <1>3, <2>1
    <2>4. Len(q) <= Len(p)
      BY <1>2, <1>3, <2>2
    <2> QED
      BY <1>3, <2>3, <2>4
  <1> QED
    BY <1>1, <1>4

(* What a selection keeps depends on the elements there are only.            *)
LEMMA OnlyInSame ==
    ASSUME NEW T, NEW s \in Seq(T), NEW S, NEW R, \A x \in ToSet(s) : x \in S <=> x \in R
    PROVE  OnlyIn(s, S) = OnlyIn(s, R)
  <1>1. {i \in DOMAIN s : s[i] \in S} = {i \in DOMAIN s : s[i] \in R}
    BY DEF ToSet
  <1> QED
    BY <1>1 DEF OnlyIn

LEMMA OnlyInAppend ==
    ASSUME NEW T, NEW s \in Seq(T), NEW x \in T, NEW S
    PROVE  OnlyIn(Append(s, x), S) = IF x \in S THEN Append(OnlyIn(s, S), x) ELSE OnlyIn(s, S)
  <1> DEFINE t == Append(s, x)
             P == {i \in DOMAIN s : s[i] \in S}
             Q == {i \in DOMAIN t : t[i] \in S}
             a == Ascending(P)
             b == Ascending(Q)
             n == Len(s) + 1
  <1>1. /\ t \in Seq(T) /\ Len(t) = n /\ Len(s) \in Nat /\ n \in Nat
        /\ \A i \in 1..Len(s) : t[i] = s[i]
        /\ t[n] = x
        /\ DOMAIN s = 1..Len(s) /\ DOMAIN t = 1..n
    OBVIOUS
  <1>2. OnlyIn(s, S) = [m \in DOMAIN a |-> s[a[m]]] /\ OnlyIn(t, S) = [m \in DOMAIN b |-> t[b[m]]]
    BY DEF OnlyIn
  <1>3. P \in SUBSET DOMAIN s /\ Q \in SUBSET DOMAIN t /\ \A i \in P : i \in 1..Len(s)
    BY <1>1
  <1>4. /\ \A i : i \in Q <=> i \in P \/ (i = n /\ x \in S)
    BY <1>1
  <1> HIDE DEF t, P, Q
  <1>5. P \in SUBSET Int /\ IsFiniteSet(P) /\ Q \in SUBSET Int /\ IsFiniteSet(Q)
    BY <1>1, <1>3, SomePositions
  <1>6. /\ a \in Seq(P) /\ Len(a) = Cardinality(P) /\ ToSet(a) = P
        /\ \A i, j \in 1..Cardinality(P) : i < j => a[i] < a[j]
    BY <1>5, AscendingLaws
  <1>7. /\ b \in Seq(Q) /\ Len(b) = Cardinality(Q) /\ ToSet(b) = Q
        /\ \A i, j \in 1..Cardinality(Q) : i < j => b[i] < b[j]
    BY <1>5, AscendingLaws
  <1> HIDE DEF a, b, n
  <1>8. \A m \in 1..Len(a) : a[m] \in P /\ a[m] \in 1..Len(s)
    BY <1>3, <1>6
  <1>9. CASE x \notin S
    <2>1. Q = P
      BY <1>4, <1>9
    <2>2. b = a
      BY <2>1 DEF a, b
    <2>3. \A m \in DOMAIN a : t[a[m]] = s[a[m]]
      BY <1>1, <1>6, <1>8
    <2> QED
      BY <1>2, <1>9, <2>2, <2>3 DEF t
  <1>10. CASE x \in S
    <2> DEFINE c == Append(a, n)
    <2>a. P \subseteq Int
      BY <1>5
    <2>b. a \in Seq(Int)
      BY <1>6, <2>a, SeqMonotone
    <2>1. n \in Int /\ a \in Seq(Int) /\ Len(a) \in Nat
      BY <1>1, <2>b DEF n
    <2>2. /\ c \in Seq(Int) /\ Len(c) = Len(a) + 1 /\ c[Len(a) + 1] = n
          /\ \A m \in 1..Len(a) : c[m] = a[m]
      BY <2>1
    <2> HIDE DEF c
    <2>3. \A i : i \in ToSet(c) <=> i \in ToSet(a) \/ i = n
      <3>a. /\ \A i \in 1..Len(c) : c[i] \in ToSet(c)
            /\ \A y \in ToSet(c) : \E i \in 1..Len(c) : c[i] = y
        BY <2>2, AtPlaces
      <3>b. /\ \A i \in 1..Len(a) : a[i] \in ToSet(a)
            /\ \A y \in ToSet(a) : \E i \in 1..Len(a) : a[i] = y
        BY <2>b, AtPlaces
      <3>1. ASSUME NEW y \in ToSet(c)
            PROVE  y \in ToSet(a) \/ y = n
        <4>1. PICK i \in 1..Len(c) : c[i] = y
          BY <3>a
        <4>2. i \in 1..Len(a) \/ i = Len(a) + 1
          BY <2>1, <2>2
        <4> QED
          BY <2>2, <3>b, <4>1, <4>2
      <3>2. ASSUME NEW y \in ToSet(a)
            PROVE  y \in ToSet(c)
        <4>1. PICK i \in 1..Len(a) : a[i] = y
          BY <3>b
        <4>2. i \in 1..Len(c) /\ c[i] = y
          BY <2>1, <2>2, <4>1
        <4> QED
          BY <3>a, <4>2
      <3>3. n \in ToSet(c)
        <4>1. Len(c) \in 1..Len(c)
          BY <2>1, <2>2
        <4> QED
          BY <2>2, <3>a, <4>1
      <3> QED
        BY <3>1, <3>2, <3>3
    <2>4. ToSet(c) = ToSet(b)
      <3>1. \A i : i \in ToSet(c) <=> i \in P \/ i = n
        BY <1>6, <2>3
      <3>2. \A i : i \in ToSet(b) <=> i \in P \/ i = n
        BY <1>4, <1>7, <1>10
      <3> QED
        BY <3>1, <3>2
    <2>5. Rising(c)
      <3>1. SUFFICES ASSUME NEW i \in 1..Len(c), NEW j \in 1..Len(c), i < j
                     PROVE  c[i] < c[j]
        BY DEF Rising
      <3>2. i \in 1..Len(a) /\ c[i] = a[i] /\ a[i] \in 1..Len(s)
        BY <1>8, <2>1, <2>2, <3>1
      <3>3. CASE j \in 1..Len(a)
        BY <1>6, <2>2, <3>1, <3>2, <3>3
      <3>4. CASE j = Len(a) + 1
        BY <1>1, <2>2, <3>2, <3>4 DEF n
      <3> QED
        BY <2>1, <2>2, <3>3, <3>4
    <2>6. Rising(b) /\ b \in Seq(Int)
      <3>1. Q \subseteq Int
        BY <1>5
      <3> QED
        BY <1>7, <3>1, SeqMonotone DEF Rising
    <2>7. b = c
      BY <2>2, <2>4, <2>5, <2>6, RisingSame
    <2> DEFINE d == OnlyIn(s, S)
    <2>8. d = [m \in 1..Len(a) |-> s[a[m]]]
      BY <1>2, <2>1
    <2>9. d \in Seq(T) /\ Len(d) = Len(a) /\ \A m \in 1..Len(a) : d[m] = s[a[m]]
      BY <1>8, <2>1, <2>8
    <2>10. DOMAIN b = 1..(Len(a) + 1)
      BY <2>2, <2>6, <2>7
    <2> HIDE DEF d
    <2>11. \A m \in 1..(Len(a) + 1) : t[b[m]] = Append(d, x)[m]
      <3>1. TAKE m \in 1..(Len(a) + 1)
      <3>2. CASE m \in 1..Len(a)
        <4>1. b[m] = a[m] /\ t[a[m]] = s[a[m]]
          BY <1>1, <1>8, <2>2, <2>7, <3>2
        <4> QED
          BY <2>9, <3>2, <4>1
      <3>3. CASE m = Len(a) + 1
        BY <1>1, <2>2, <2>7, <2>9, <3>3
      <3>4. m \in 1..Len(a) \/ m = Len(a) + 1
        BY <2>1
      <3> QED
        BY <3>2, <3>3, <3>4
    <2>12. Append(d, x) = [m \in 1..(Len(a) + 1) |-> Append(d, x)[m]]
      <3>1. Append(d, x) \in Seq(T) /\ Len(Append(d, x)) = Len(a) + 1
        BY <2>9
      <3>3. \A r \in Seq(T) : r = [m \in 1..Len(r) |-> r[m]]
        OBVIOUS
      <3> QED
        BY <3>1, <3>3
    <2>13. OnlyIn(t, S) = Append(d, x)
      BY <1>2, <2>10, <2>11, <2>12
    <2> QED
      BY <1>10, <2>13 DEF t, d
  <1> QED
    BY <1>9, <1>10
=============================================================================
