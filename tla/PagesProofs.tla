----------------------------- MODULE PagesProofs -----------------------------
(***************************************************************************)
(* Proofs about the records query as its callers use it, for every value   *)
(* of the constants: an encoded cursor is read back, equal bytes are equal *)
(* queries, a page is the first of what was asked for, and what it spends  *)
(* and names is what it may.                                               *)
(***************************************************************************)
EXTENDS QueryPages, Collections

-----------------------------------------------------------------------------
(* Words.                                                                    *)

LEMMA Widths ==
    /\ Base \in Nat /\ Base > 24 /\ WordBytes \in Nat /\ WordBytes > 0
    /\ TraceBytes \in Nat /\ TraceBytes > 0 /\ SpanBytes \in Nat /\ SpanBytes > 0
  BY FiltersAssumption, CursorsAssumption

LEMMA Division ==
    ASSUME NEW n \in Nat
    PROVE  /\ n \div Base \in Nat /\ n % Base \in Byte
           /\ n = (n % Base) + Base * (n \div Base)
  <1>1. Base \in Nat /\ Base > 0
    BY Widths
  <1> DEFINE q == n \div Base
             r == n % Base
  <1>2. q \in Int /\ r \in Int /\ 0 <= r /\ r < Base /\ n = Base * q + r
    BY <1>1
  <1> HIDE DEF q, r
  <1>3. q >= 0
    <2>1. SUFFICES ASSUME q <= -1
                   PROVE  FALSE
      BY <1>2
    <2>2. Base * q <= Base * (-1)
      BY <1>1, <1>2, <2>1
    <2> QED
      BY <1>1, <1>2, <2>2
  <1>4. Base * q \in Int
    BY <1>1, <1>2
  <1> QED
    BY <1>1, <1>2, <1>3, <1>4 DEF q, r, Byte

LEMMA DivisionIs ==
    ASSUME NEW r \in Byte, NEW q \in Nat, NEW n \in Nat, n = r + Base * q
    PROVE  n \div Base = q /\ n % Base = r
  <1>1. Base \in Nat /\ Base > 0 /\ r \in Int /\ 0 <= r /\ r < Base
    BY Widths DEF Byte
  <1> DEFINE p == n \div Base
             s == n % Base
  <1>2. p \in Nat /\ s \in Int /\ 0 <= s /\ s < Base /\ n = s + Base * p
    BY <1>1, Division DEF Byte
  <1> HIDE DEF p, s
  <1>3. p = q
    <2>1. ~(p < q)
      <3>1. SUFFICES ASSUME q >= p + 1
                     PROVE  FALSE
        BY <1>2
      <3>2. Base * q >= Base * (p + 1) /\ Base * (p + 1) = Base * p + Base
        BY <1>1, <1>2, <3>1
      <3>3. Base * q \in Int /\ Base * p \in Int
        BY <1>1, <1>2
      <3> QED
        BY <1>1, <1>2, <3>2, <3>3
    <2>2. ~(q < p)
      <3>1. SUFFICES ASSUME p >= q + 1
                     PROVE  FALSE
        BY <1>2
      <3>2. Base * p >= Base * (q + 1) /\ Base * (q + 1) = Base * q + Base
        BY <1>1, <1>2, <3>1
      <3>3. Base * q \in Int /\ Base * p \in Int
        BY <1>1, <1>2
      <3> QED
        BY <1>1, <1>2, <3>2, <3>3
    <2> QED
      BY <1>2, <2>1, <2>2
  <1>4. Base * q \in Int
    BY <1>1
  <1> QED
    BY <1>1, <1>2, <1>3, <1>4 DEF p, s

LEMMA LeftIs ==
    ASSUME NEW n \in Nat
    PROVE  /\ Left(n) \in [0 .. WordBytes -> Nat] /\ Left(n)[0] = n
           /\ \A i \in 1 .. WordBytes : Left(n)[i] = Left(n)[i - 1] \div Base
  <1> DEFINE N == WordBytes
             body(f) == [i \in 0..N |-> IF i = 0 THEN n ELSE f[i - 1] \div Base]
             step == [p \in (1..N) \X Nat |-> p[2] \div Base]
  <1>1. N \in Nat
    BY Widths
  <1>2. Left(n) = (CHOOSE f : f = body(f))
    BY DEF Left
  <1>3. \A i \in 1..N : \A x \in Nat : step[<<i, x>>] = x \div Base /\ step[<<i, x>>] \in Nat
    BY Division
  <1> HIDE DEF step, N
  <1>4. PICK g \in [0..N -> Nat] : Carried(N, n, step, g)
    BY <1>1, <1>3, CarriedExists
  <1>5. g = body(g)
    <2>1. \A i \in 0..N : i = 0 \/ (i \in 1..N /\ i - 1 \in 0..N /\ g[i - 1] \in Nat)
      BY <1>1
    <2>2. \A i \in 0..N : g[i] = IF i = 0 THEN n ELSE step[<<i, g[i - 1]>>]
      BY <1>4 DEF Carried
    <2>3. \A i \in 0..N : g[i] = IF i = 0 THEN n ELSE g[i - 1] \div Base
      BY <1>3, <2>1, <2>2
    <2> QED
      BY <2>3
  <1> DEFINE h == CHOOSE f : f = body(f)
  <1>6. h = body(h)
    BY <1>5
  <1> HIDE DEF h
  <1>7. h[0] = n /\ \A i \in 1..N : h[i] = h[i - 1] \div Base
    BY <1>1, <1>6
  <1> DEFINE P == {i \in 0..N : h[i] \in Nat}
  <1>8. 0 \in P
    BY <1>1, <1>7
  <1>9. ASSUME NEW i \in 1..N, i - 1 \in P
        PROVE  i \in P
    <2>1. i \in 0..N /\ h[i - 1] \in Nat
      BY <1>1, <1>9
    <2> QED
      BY <1>7, <2>1, Division
  <1>10. \A i \in 0..N : i \in P
    <2> HIDE DEF P
    <2> QED
      BY <1>1, <1>8, <1>9, Climbs
  <1>11. h \in [0..N -> Nat]
    BY <1>6, <1>10
  <1> QED
    BY <1>2, <1>7, <1>11 DEF h, N

LEMMA UnWordIs ==
    ASSUME NEW b \in Ids(WordBytes)
    PROVE  \E f \in [0 .. WordBytes -> Nat] :
             /\ f[0] = 0 /\ UnWord(b) = f[WordBytes]
             /\ \A i \in 1 .. WordBytes : f[i] = b[WordBytes - i + 1] + Base * f[i - 1]
  <1> DEFINE N == WordBytes
             body(f) == [i \in 0..N |-> IF i = 0 THEN 0 ELSE b[N - i + 1] + Base * f[i - 1]]
             step == [p \in (1..N) \X Nat |-> b[N - p[1] + 1] + Base * p[2]]
  <1>1. N \in Nat /\ Base \in Nat
    BY Widths
  <1>2. UnWord(b) = (CHOOSE f : f = body(f))[N]
    BY DEF UnWord
  <1>3. \A i \in 1..N : N - i + 1 \in 1..N /\ b[N - i + 1] \in Nat
    <2>1. \A i \in 1..N : N - i + 1 \in 1..N
      BY <1>1
    <2>2. \A i \in 1..N : b[i] \in Nat
      BY <1>1 DEF Ids, Byte
    <2> QED
      BY <2>1, <2>2
  <1>a. \A x \in Nat : Base * x \in Nat
    BY <1>1
  <1>4. \A i \in 1..N : \A x \in Nat :
          step[<<i, x>>] = b[N - i + 1] + Base * x /\ step[<<i, x>>] \in Nat
    BY <1>3, <1>a
  <1> HIDE DEF step, N
  <1>5. PICK g \in [0..N -> Nat] : Carried(N, 0, step, g)
    BY <1>1, <1>4, CarriedExists
  <1>6. g = body(g)
    <2>1. \A i \in 0..N : i = 0 \/ (i \in 1..N /\ i - 1 \in 0..N /\ g[i - 1] \in Nat)
      BY <1>1
    <2>2. \A i \in 0..N : g[i] = IF i = 0 THEN 0 ELSE step[<<i, g[i - 1]>>]
      BY <1>5 DEF Carried
    <2>3. \A i \in 0..N : g[i] = IF i = 0 THEN 0 ELSE b[N - i + 1] + Base * g[i - 1]
      BY <1>4, <2>1, <2>2
    <2> QED
      BY <2>3
  <1> DEFINE h == CHOOSE f : f = body(f)
  <1>7. h = body(h)
    BY <1>6
  <1> HIDE DEF h
  <1>8. h[0] = 0 /\ \A i \in 1..N : h[i] = b[N - i + 1] + Base * h[i - 1]
    BY <1>1, <1>7
  <1> DEFINE P == {i \in 0..N : h[i] \in Nat}
  <1>9. 0 \in P
    BY <1>1, <1>8
  <1>10. ASSUME NEW i \in 1..N, i - 1 \in P
         PROVE  i \in P
    <2>1. i \in 0..N /\ h[i - 1] \in Nat
      BY <1>1, <1>10
    <2>2. Base * h[i - 1] \in Nat /\ b[N - i + 1] \in Nat
      BY <1>3, <1>a, <2>1
    <2>3. h[i] = b[N - i + 1] + Base * h[i - 1]
      BY <1>8
    <2>4. h[i] \in Nat
      BY <2>2, <2>3
    <2> QED
      BY <2>1, <2>4
  <1>11. \A i \in 0..N : i \in P
    <2> HIDE DEF P
    <2> QED
      BY <1>1, <1>9, <1>10, Climbs
  <1>12. h \in [0..N -> Nat]
    BY <1>7, <1>11
  <1> QED
    BY <1>2, <1>8, <1>12 DEF h, N

(* A word is read back as its number (to_le_bytes, from_le_bytes).           *)
LEMMA WordBack ==
    ASSUME NEW n \in Words
    PROVE  Word(n) \in Ids(WordBytes) /\ UnWord(Word(n)) = n
  <1> DEFINE N == WordBytes
             b == Word(n)
  <1>1. N \in Nat /\ N > 0 /\ Base \in Nat
    BY Widths
  <1>2. n \in Nat /\ Left(n)[N] = 0
    BY DEF Words
  <1>3. /\ \A i \in 0..N : Left(n)[i] \in Nat
        /\ Left(n)[0] = n /\ \A i \in 1..N : Left(n)[i] = Left(n)[i - 1] \div Base
    BY <1>2, LeftIs
  <1> DEFINE left == Left(n)
  <1> HIDE DEF left
  <1>4. b = [i \in 1..N |-> left[i - 1] % Base]
    BY DEF Word, left
  <1>5. \A i \in 1..N : i - 1 \in 0..N /\ left[i - 1] \in Nat
    BY <1>1, <1>3 DEF left
  <1>6. \A i \in 1..N : b[i] \in Byte /\ left[i - 1] = b[i] + Base * left[i]
    <2> TAKE i \in 1..N
    <2>1. left[i - 1] \in Nat /\ left[i] = left[i - 1] \div Base /\ b[i] = left[i - 1] % Base
      BY <1>3, <1>4, <1>5 DEF left
    <2> QED
      BY <2>1, Division
  <1>7. b \in Ids(N)
    BY <1>4, <1>6 DEF Ids
  <1>8. PICK f \in [0..N -> Nat] :
          /\ f[0] = 0 /\ UnWord(b) = f[N]
          /\ \A i \in 1..N : f[i] = b[N - i + 1] + Base * f[i - 1]
    BY <1>7, UnWordIs
  <1> DEFINE P == {i \in 0..N : f[i] = left[N - i]}
  <1>9. 0 \in P
    BY <1>1, <1>2, <1>8 DEF left
  <1> HIDE DEF b
  <1>10. ASSUME NEW i \in 1..N, i - 1 \in P
         PROVE  i \in P
    <2>1. i \in 0..N /\ N - i + 1 \in 1..N /\ N - (i - 1) = N - i + 1 /\ (N - i + 1) - 1 = N - i
      BY <1>1
    <2>2. f[i - 1] = left[N - i + 1]
      BY <1>10, <2>1
    <2>3. left[N - i] = b[N - i + 1] + Base * left[N - i + 1]
      BY <1>6, <2>1
    <2> QED
      BY <1>8, <2>1, <2>2, <2>3
  <1>11. \A i \in 0..N : i \in P
    <2> HIDE DEF P
    <2> QED
      BY <1>1, <1>9, <1>10, Climbs
  <1>12. f[N] = left[0]
    <2>1. N \in 0..N /\ N - N = 0
      BY <1>1
    <2> QED
      BY <1>11, <2>1
  <1> QED
    BY <1>3, <1>7, <1>8, <1>12 DEF left, b

(* What a word's bytes are read as is written as these bytes.                *)
LEMMA UnWordBack ==
    ASSUME NEW b \in Ids(WordBytes)
    PROVE  UnWord(b) \in Words /\ Word(UnWord(b)) = b
  <1> DEFINE N == WordBytes
             n == UnWord(b)
  <1>1. N \in Nat /\ N > 0 /\ Base \in Nat
    BY Widths
  <1>2. PICK f \in [0..N -> Nat] :
          /\ f[0] = 0 /\ n = f[N]
          /\ \A i \in 1..N : f[i] = b[N - i + 1] + Base * f[i - 1]
    BY UnWordIs
  <1>3. n \in Nat
    BY <1>1, <1>2
  <1> HIDE DEF n
  <1>4. /\ \A i \in 0..N : Left(n)[i] \in Nat
        /\ Left(n)[0] = n /\ \A i \in 1..N : Left(n)[i] = Left(n)[i - 1] \div Base
    BY <1>3, LeftIs
  <1> DEFINE left == Left(n)
             P == {i \in 0..N : left[i] = f[N - i]}
  <1> HIDE DEF left
  <1>5. 0 \in P
    BY <1>1, <1>2, <1>4 DEF left
  <1>6. \A i \in 1..N : /\ i \in 0..N /\ N - i \in 0..N /\ N - i + 1 \in 1..N
                        /\ N - (N - i + 1) + 1 = i /\ (N - i + 1) - 1 = N - i
                        /\ N - (i - 1) = N - i + 1
    BY <1>1
  <1>7. \A i \in 1..N : /\ b[i] \in Byte
                        /\ f[N - i + 1] \div Base = f[N - i] /\ f[N - i + 1] % Base = b[i]
    <2> TAKE i \in 1..N
    <2>1. b[i] \in Byte
      BY DEF Ids
    <2>2. f[N - i + 1] = b[i] + Base * f[N - i] /\ f[N - i] \in Nat /\ f[N - i + 1] \in Nat
      <3>1. N - i + 1 \in 0..N
        BY <1>1
      <3> QED
        BY <1>2, <1>6, <3>1
    <2> QED
      BY <2>1, <2>2, DivisionIs
  <1>8. ASSUME NEW i \in 1..N, i - 1 \in P
        PROVE  i \in P
    <2>1. left[i - 1] = f[N - i + 1] /\ left[i] = left[i - 1] \div Base
      BY <1>4, <1>6, <1>8 DEF left
    <2> QED
      BY <1>6, <1>7, <2>1
  <1>9. \A i \in 0..N : i \in P
    <2> HIDE DEF P
    <2> QED
      BY <1>1, <1>5, <1>8, Climbs
  <1>10. left[N] = 0
    <2>1. N \in 0..N /\ N - N = 0
      BY <1>1
    <2> QED
      BY <1>2, <1>9, <2>1
  <1>11. Word(n) = [i \in 1..N |-> left[i - 1] % Base]
    BY DEF Word, left
  <1>12. \A i \in 1..N : left[i - 1] % Base = b[i]
    <2> TAKE i \in 1..N
    <2>1. i - 1 \in 0..N
      BY <1>1
    <2>2. left[i - 1] = f[N - i + 1]
      BY <1>6, <1>9, <2>1
    <2> QED
      BY <1>7, <2>2
  <1>13. b = [i \in 1..N |-> b[i]]
    BY DEF Ids
  <1> QED
    BY <1>3, <1>10, <1>11, <1>12, <1>13 DEF Words, left, n

-----------------------------------------------------------------------------
(* Sequences of bytes.                                                       *)

LEMMA IdsAre ==
    ASSUME NEW n \in Nat, NEW a \in Ids(n)
    PROVE  a \in Seq(Byte) /\ Len(a) = n /\ DOMAIN a = 1..n /\ \A i \in 1..n : a[i] \in Byte
  BY DEF Ids

LEMMA IdsFrom ==
    ASSUME NEW n \in Nat, NEW a \in Seq(Byte), Len(a) = n
    PROVE  a \in Ids(n)
  BY DEF Ids

LEMMA Joined ==
    ASSUME NEW S, NEW a \in Seq(S), NEW b \in Seq(S)
    PROVE  /\ a \o b \in Seq(S) /\ Len(a \o b) = Len(a) + Len(b)
           /\ \A i \in 1..Len(a) : (a \o b)[i] = a[i]
           /\ \A i \in 1..Len(b) : (a \o b)[Len(a) + i] = b[i]
  OBVIOUS

LEMMA SameSeq ==
    ASSUME NEW S, NEW a \in Seq(S), NEW b \in Seq(S), Len(a) = Len(b),
           \A i \in 1..Len(a) : a[i] = b[i]
    PROVE  a = b
  <1>1. a = [i \in 1..Len(a) |-> a[i]] /\ b = [i \in 1..Len(b) |-> b[i]]
    OBVIOUS
  <1> QED
    BY <1>1

LEMMA BytesJoined ==
    \A a, b \in Seq(Byte) :
      /\ a \o b \in Seq(Byte) /\ Len(a \o b) = Len(a) + Len(b)
      /\ \A i \in 1..Len(a) : (a \o b)[i] = a[i]
      /\ \A i \in 1..Len(b) : (a \o b)[Len(a) + i] = b[i]
  <1> TAKE a, b \in Seq(Byte)
  <1>1. a \o b \in Seq(Byte) /\ Len(a \o b) = Len(a) + Len(b)
    OBVIOUS
  <1>2. \A i \in 1..Len(a) : (a \o b)[i] = a[i]
    OBVIOUS
  <1>3. \A i \in 1..Len(b) : (a \o b)[Len(a) + i] = b[i]
    OBVIOUS
  <1> QED
    BY <1>1, <1>2, <1>3

(* Equal wholes with equally long heads have equal parts.                    *)
LEMMA Unjoined ==
    ASSUME NEW S, NEW a \in Seq(S), NEW b \in Seq(S), NEW c \in Seq(S), NEW d \in Seq(S)
    PROVE  a \o b = c \o d /\ Len(a) = Len(c) => a = c /\ b = d
  <1> DEFINE v == a \o b
             w == c \o d
  <1>a. /\ Len(v) = Len(a) + Len(b) /\ \A i \in 1..Len(a) : v[i] = a[i]
        /\ \A i \in 1..Len(b) : v[Len(a) + i] = b[i]
    <2>1. Len(v) = Len(a) + Len(b)
      BY Joined
    <2>2. \A i \in 1..Len(a) : v[i] = a[i]
      BY Joined
    <2>3. \A i \in 1..Len(b) : v[Len(a) + i] = b[i]
      <3> TAKE i \in 1..Len(b)
      <3>1. (a \o b)[Len(a) + i] = b[i]
        BY Joined
      <3> QED
        BY <3>1
    <2> QED
      BY <2>1, <2>2, <2>3
  <1>b. /\ Len(w) = Len(c) + Len(d) /\ \A i \in 1..Len(c) : w[i] = c[i]
        /\ \A i \in 1..Len(d) : w[Len(c) + i] = d[i]
    BY Joined
  <1> SUFFICES ASSUME v = w, Len(a) = Len(c)
               PROVE  a = c /\ b = d
    OBVIOUS
  <1> HIDE DEF v, w
  <1>2. Len(a) \in Nat /\ Len(b) \in Nat /\ Len(c) \in Nat /\ Len(d) \in Nat
    OBVIOUS
  <1>3. Len(b) = Len(d)
    BY <1>a, <1>b, <1>2
  <1>4. \A i \in 1..Len(a) : a[i] = c[i]
    BY <1>a, <1>b
  <1>5. \A i \in 1..Len(b) : b[i] = d[i]
    BY <1>a, <1>b, <1>3
  <1>6. a = c
    BY <1>4, SameSeq
  <1>7. b = d
    BY <1>3, <1>5, SameSeq
  <1> QED
    BY <1>6, <1>7

(* The part of a whole that starts behind its head.                          *)
LEMMA SliceOf ==
    ASSUME NEW S, NEW a \in Seq(S), NEW b \in Seq(S), NEW c \in Seq(S),
           NEW n, n = Len(b)
    PROVE  Slice(a \o b \o c, Len(a), n) = b
  <1> DEFINE w == a \o b \o c
  <1>1. /\ Len(a) \in Nat /\ Len(b) \in Nat /\ Len(c) \in Nat
        /\ a \o b \in Seq(S) /\ Len(a \o b) = Len(a) + Len(b)
        /\ \A i \in 1..Len(b) : (a \o b)[Len(a) + i] = b[i]
    BY Joined
  <1>2. /\ w \in Seq(S) /\ Len(w) = Len(a) + Len(b) + Len(c)
        /\ \A i \in 1..(Len(a) + Len(b)) : w[i] = (a \o b)[i]
    BY <1>1, Joined
  <1> HIDE DEF w
  <1> DEFINE s == SubSeq(w, Len(a) + 1, Len(a) + n)
  <1>3. s \in Seq(S) /\ Len(s) = Len(b) /\ \A i \in 1..Len(b) : s[i] = w[Len(a) + i]
    BY <1>1, <1>2
  <1> HIDE DEF s
  <1>4. \A i \in 1..Len(b) : s[i] = b[i]
    <2> TAKE i \in 1..Len(b)
    <2>1. Len(a) + i \in 1..(Len(a) + Len(b))
      BY <1>1
    <2> QED
      BY <1>1, <1>2, <1>3, <2>1
  <1>5. s = b
    BY <1>3, <1>4
  <1> QED
    BY <1>5 DEF s, w, Slice

-----------------------------------------------------------------------------
(* The order of residency keys.                                              *)

LEMMA BytesOrder ==
    ASSUME NEW n \in Nat, NEW a \in Ids(n), NEW b \in Ids(n), NEW c \in Ids(n)
    PROVE  /\ ~LessBytes(a, a)
           /\ LessBytes(a, b) /\ LessBytes(b, c) => LessBytes(a, c)
           /\ a = b \/ LessBytes(a, b) \/ LessBytes(b, a)
  <1>1. /\ DOMAIN a = 1..n /\ DOMAIN b = 1..n /\ DOMAIN c = 1..n
        /\ \A i \in 1..n : a[i] \in Int /\ b[i] \in Int /\ c[i] \in Int
    BY Widths DEF Ids, Byte
  <1>2. ~LessBytes(a, a)
    BY <1>1 DEF LessBytes
  <1>3. ASSUME LessBytes(a, b), LessBytes(b, c)
        PROVE  LessBytes(a, c)
    <2>1. PICK i \in 1..n : a[i] < b[i] /\ \A j \in 1 .. i - 1 : a[j] = b[j]
      BY <1>1, <1>3 DEF LessBytes
    <2>2. PICK k \in 1..n : b[k] < c[k] /\ \A j \in 1 .. k - 1 : b[j] = c[j]
      BY <1>1, <1>3 DEF LessBytes
    <2>3. CASE i <= k
      <3>1. i = k \/ i \in 1 .. k - 1
        BY <2>3
      <3>2. a[i] < c[i]
        BY <1>1, <2>1, <2>2, <3>1
      <3>3. \A j \in 1 .. i - 1 : j \in 1 .. k - 1 /\ a[j] = c[j]
        BY <2>1, <2>2, <2>3
      <3> QED
        BY <1>1, <3>2, <3>3 DEF LessBytes
    <2>4. CASE k < i
      <3>1. k \in 1 .. i - 1
        BY <2>4
      <3>2. a[k] < c[k]
        BY <1>1, <2>1, <2>2, <3>1
      <3>3. \A j \in 1 .. k - 1 : j \in 1 .. i - 1 /\ a[j] = c[j]
        BY <2>1, <2>2, <2>4
      <3> QED
        BY <1>1, <3>2, <3>3 DEF LessBytes
    <2> QED
      BY <2>3, <2>4
  <1>4. ASSUME a # b
        PROVE  LessBytes(a, b) \/ LessBytes(b, a)
    <2> DEFINE D == {i \in 1..n : a[i] # b[i]}
    <2>1. D # {}
      BY <1>4 DEF Ids
    <2>2. PICK m \in D : \A k \in D : m <= k
      <3>1. D \in SUBSET Nat
        OBVIOUS
      <3> HIDE DEF D
      <3> QED
        BY <2>1, <3>1, LeastNumber
    <2>3. \A j \in 1 .. m - 1 : j \in 1..n /\ j \notin D
      BY <2>2
    <2>4. \A j \in 1 .. m - 1 : a[j] = b[j]
      BY <2>3
    <2>5. m \in 1..n /\ (a[m] < b[m] \/ b[m] < a[m])
      BY <1>1, <2>2
    <2> QED
      BY <1>1, <2>4, <2>5 DEF LessBytes
  <1> QED
    BY <1>2, <1>3, <1>4

BySpan == [trace_id : Ids(TraceBytes), span_id : Ids(SpanBytes), serial : {None}]
BySerial == [trace_id : {None}, span_id : {None}, serial : Words \ {0}]

LEMMA EntityKinds ==
    ASSUME NEW e \in Entities
    PROVE  /\ IsSpan(e) <=> e \in BySpan
           /\ e \in BySpan \/ e \in BySerial
           /\ e \in BySerial => e.serial \in Nat
           /\ e = [trace_id |-> e.trace_id, span_id |-> e.span_id, serial |-> e.serial]
  <1>1. None \notin Nat
    BY CursorsAssumption
  <1> QED
    BY <1>1 DEF Entities, IsSpan, BySpan, BySerial, Words

SpanBytesOf(e) == e.trace_id \o e.span_id

LEMMA SpanBytesAre ==
    ASSUME NEW e \in BySpan
    PROVE  SpanBytesOf(e) \in Ids(TraceBytes + SpanBytes)
  <1>1. /\ e.trace_id \in Seq(Byte) /\ Len(e.trace_id) = TraceBytes
        /\ e.span_id \in Seq(Byte) /\ Len(e.span_id) = SpanBytes
    BY Widths, IdsAre DEF BySpan
  <1>2. SpanBytesOf(e) \in Seq(Byte) /\ Len(SpanBytesOf(e)) = TraceBytes + SpanBytes
    BY <1>1, Joined DEF SpanBytesOf
  <1> QED
    BY <1>2, Widths, IdsFrom

LEMMA SpanBytesTell ==
    ASSUME NEW e \in BySpan, NEW f \in BySpan, SpanBytesOf(e) = SpanBytesOf(f)
    PROVE  e = f
  <1>1. \A x \in BySpan :
          /\ x.trace_id \in Seq(Byte) /\ Len(x.trace_id) = TraceBytes
          /\ x.span_id \in Seq(Byte) /\ Len(x.span_id) = SpanBytes
          /\ x = [trace_id |-> x.trace_id, span_id |-> x.span_id, serial |-> None]
    BY Widths, IdsAre DEF BySpan
  <1>2. e.trace_id = f.trace_id /\ e.span_id = f.span_id
    BY <1>1, Unjoined DEF SpanBytesOf
  <1> QED
    BY <1>1, <1>2

LEMMA EntityOrder ==
    ASSUME NEW a \in Entities, NEW b \in Entities, NEW c \in Entities
    PROVE  /\ ~EntityBefore(a, a)
           /\ EntityBefore(a, b) /\ EntityBefore(b, c) => EntityBefore(a, c)
           /\ a = b \/ EntityBefore(a, b) \/ EntityBefore(b, a)
  <1> DEFINE Less(x, y) == LessBytes(SpanBytesOf(x), SpanBytesOf(y))
             T == {a, b, c}
  <1>1. \A x \in T : /\ IsSpan(x) <=> x \in BySpan
                     /\ ~IsSpan(x) => x \in BySerial /\ x.serial \in Nat
                     /\ x = [trace_id |-> x.trace_id, span_id |-> x.span_id, serial |-> x.serial]
    BY EntityKinds
  <1>2. TraceBytes + SpanBytes \in Nat
    BY Widths
  <1>3. \A x, y, z \in T : IsSpan(x) /\ IsSpan(y) /\ IsSpan(z) =>
          /\ ~Less(x, x) /\ (Less(x, y) /\ Less(y, z) => Less(x, z))
          /\ x = y \/ Less(x, y) \/ Less(y, x)
    <2> TAKE x, y, z \in T
    <2> SUFFICES ASSUME IsSpan(x), IsSpan(y), IsSpan(z)
                 PROVE  /\ ~Less(x, x) /\ (Less(x, y) /\ Less(y, z) => Less(x, z))
                        /\ x = y \/ Less(x, y) \/ Less(y, x)
      OBVIOUS
    <2>1. x \in BySpan /\ y \in BySpan /\ z \in BySpan
      BY <1>1
    <2>2. \A e \in {x, y, z} : SpanBytesOf(e) \in Ids(TraceBytes + SpanBytes)
      BY <2>1, SpanBytesAre
    <2>3. /\ ~Less(x, x) /\ (Less(x, y) /\ Less(y, z) => Less(x, z))
          /\ SpanBytesOf(x) = SpanBytesOf(y) \/ Less(x, y) \/ Less(y, x)
      BY <1>2, <2>2, BytesOrder
    <2> QED
      BY <2>1, <2>3, SpanBytesTell
  <1>4. \A x, y \in T : EntityBefore(x, y) <=>
          \/ IsSpan(x) /\ IsSpan(y) /\ Less(x, y)
          \/ IsSpan(x) /\ ~IsSpan(y)
          \/ ~IsSpan(x) /\ ~IsSpan(y) /\ x.serial < y.serial
    BY DEF EntityBefore, SpanBytesOf
  <1>5. \A x, y \in T : ~IsSpan(x) /\ ~IsSpan(y) /\ x.serial = y.serial => x = y
    BY <1>1 DEF BySerial
  <1>6. a \in T /\ b \in T /\ c \in T
    OBVIOUS
  <1> HIDE DEF Less, T
  <1>7. ~EntityBefore(a, a)
    BY <1>1, <1>3, <1>4, <1>6
  <1>8. EntityBefore(a, b) /\ EntityBefore(b, c) => EntityBefore(a, c)
    BY <1>1, <1>3, <1>4, <1>6
  <1>9. a = b \/ EntityBefore(a, b) \/ EntityBefore(b, a)
    BY <1>1, <1>3, <1>4, <1>5, <1>6
  <1> QED
    BY <1>7, <1>8, <1>9

LEMMA KeyOrder ==
    /\ \A a \in ResidencyKeys : ~KeyBefore(a, a)
    /\ \A a, b, c \in ResidencyKeys : KeyBefore(a, b) /\ KeyBefore(b, c) => KeyBefore(a, c)
    /\ \A a, b \in ResidencyKeys : a = b \/ KeyBefore(a, b) \/ KeyBefore(b, a)
  <1>1. \A k \in ResidencyKeys :
          k.at \in Nat /\ k.entity \in Entities /\ k = [at |-> k.at, entity |-> k.entity]
    BY DEF ResidencyKeys, Words
  <1>2. \A a, b, c \in Entities :
          /\ ~EntityBefore(a, a)
          /\ EntityBefore(a, b) /\ EntityBefore(b, c) => EntityBefore(a, c)
          /\ a = b \/ EntityBefore(a, b) \/ EntityBefore(b, a)
    BY EntityOrder
  <1>3. \A a, b, c \in ResidencyKeys : KeyBefore(a, b) /\ KeyBefore(b, c) => KeyBefore(a, c)
    BY <1>1, <1>2 DEF KeyBefore
  <1>4. \A a, b \in ResidencyKeys : a = b \/ KeyBefore(a, b) \/ KeyBefore(b, a)
    <2> TAKE a, b \in ResidencyKeys
    <2>1. a.at = b.at /\ a.entity = b.entity => a = b
      BY <1>1
    <2> QED
      BY <1>1, <1>2, <2>1 DEF KeyBefore
  <1>5. \A a \in ResidencyKeys : ~KeyBefore(a, a)
    BY <1>1, <1>2 DEF KeyBefore
  <1> QED
    BY <1>3, <1>4, <1>5

-----------------------------------------------------------------------------
(* A cursor's bytes and its parser.                                          *)

LEMMA Associates ==
    \A a, b, c \in Seq(Byte) : (a \o b) \o c = a \o (b \o c)
  <1> TAKE a, b, c \in Seq(Byte)
  <1> DEFINE v == a \o b
             w == b \o c
             x == v \o c
             y == a \o w
  <1>1. Len(a) \in Nat /\ Len(b) \in Nat /\ Len(c) \in Nat
    OBVIOUS
  <1>2. /\ v \in Seq(Byte) /\ Len(v) = Len(a) + Len(b)
        /\ \A i \in 1..Len(a) : v[i] = a[i]
        /\ \A i \in 1..Len(b) : v[Len(a) + i] = b[i]
    BY BytesJoined
  <1>3. /\ w \in Seq(Byte) /\ Len(w) = Len(b) + Len(c)
        /\ \A i \in 1..Len(b) : w[i] = b[i]
        /\ \A i \in 1..Len(c) : w[Len(b) + i] = c[i]
    BY BytesJoined
  <1> HIDE DEF v, w
  <1>4. /\ x \in Seq(Byte) /\ Len(x) = Len(v) + Len(c)
        /\ \A i \in 1..Len(v) : x[i] = v[i]
        /\ \A i \in 1..Len(c) : x[Len(v) + i] = c[i]
    BY <1>2, BytesJoined
  <1>5. /\ y \in Seq(Byte) /\ Len(y) = Len(a) + Len(w)
        /\ \A i \in 1..Len(a) : y[i] = a[i]
        /\ \A i \in 1..Len(w) : y[Len(a) + i] = w[i]
    BY <1>3, BytesJoined
  <1> HIDE DEF x, y
  <1>6. Len(x) = Len(y)
    BY <1>1, <1>2, <1>3, <1>4, <1>5
  <1>7. \A i \in 1..Len(x) : x[i] = y[i]
    <2> TAKE i \in 1..Len(x)
    <2>1. CASE i \in 1..Len(a)
      <3>1. i \in 1..Len(v)
        BY <1>1, <1>2, <2>1
      <3> QED
        BY <1>2, <1>4, <1>5, <2>1, <3>1
    <2>2. CASE i - Len(a) \in 1..Len(b)
      <3> DEFINE k == i - Len(a)
      <3>1. i \in 1..Len(v) /\ Len(a) + k = i /\ k \in 1..Len(w)
        BY <1>1, <1>2, <1>3, <2>2
      <3>2. x[i] = b[k]
        BY <1>2, <1>4, <2>2, <3>1
      <3>3. y[i] = b[k]
        BY <1>3, <1>5, <2>2, <3>1
      <3> QED
        BY <3>2, <3>3
    <2>3. CASE i - (Len(a) + Len(b)) \in 1..Len(c)
      <3> DEFINE k == i - (Len(a) + Len(b))
      <3>1. Len(v) + k = i /\ Len(a) + (Len(b) + k) = i /\ Len(b) + k \in 1..Len(w)
        BY <1>1, <1>2, <1>3, <2>3
      <3>2. x[i] = c[k]
        BY <1>4, <2>3, <3>1
      <3>3. y[i] = c[k]
        BY <1>3, <1>5, <2>3, <3>1
      <3> QED
        BY <3>2, <3>3
    <2> QED
      BY <1>1, <1>2, <1>4, <2>1, <2>2, <2>3
  <1>8. x = y
    BY <1>4, <1>5, <1>6, <1>7, SameSeq
  <1> QED
    BY <1>8 DEF v, w, x, y

(* The part of a whole that starts behind its head.                          *)
LEMMA BytesSlice ==
    \A a, b, c \in Seq(Byte) : Slice(a \o b \o c, Len(a), Len(b)) = b
  BY SliceOf

LEMMA Tags == <<SPAN_TAG>> \in Seq(Byte) /\ <<ASSIGNED_TAG>> \in Seq(Byte)
  BY Widths DEF SPAN_TAG, ASSIGNED_TAG, Byte

(* An entity's tag and what is behind it.                                    *)
TagOf(e) == IF IsSpan(e) THEN SPAN_TAG ELSE ASSIGNED_TAG
RegionOf(e) == IF IsSpan(e) THEN SpanBytesOf(e) ELSE Word(e.serial)

LEMMA PushedIs ==
    ASSUME NEW e \in Entities
    PROVE  /\ RegionOf(e) \in Seq(Byte) /\ Len(RegionOf(e)) = IdRegionLen(TagOf(e))
           /\ PushEntity(e) = <<TagOf(e)>> \o RegionOf(e)
           /\ PushEntity(e) \in Seq(Byte) /\ Len(PushEntity(e)) = 1 + IdRegionLen(TagOf(e))
           /\ IdRegionLen(TagOf(e)) \in Nat
           /\ <<TagOf(e)>> \in Seq(Byte)
  <1>1. RegionOf(e) \in Seq(Byte) /\ Len(RegionOf(e)) = IdRegionLen(TagOf(e))
    <2>1. CASE IsSpan(e)
      <3>1. SpanBytesOf(e) \in Ids(TraceBytes + SpanBytes)
        BY <2>1, EntityKinds, SpanBytesAre
      <3>2. SpanBytesOf(e) \in Seq(Byte) /\ Len(SpanBytesOf(e)) = TraceBytes + SpanBytes
        BY <3>1, Widths, IdsAre
      <3> QED
        BY <2>1, <3>2 DEF RegionOf, TagOf, IdRegionLen
    <2>2. CASE ~IsSpan(e)
      <3>1. e.serial \in Words
        BY <2>2, EntityKinds DEF BySerial
      <3>2. Word(e.serial) \in Seq(Byte) /\ Len(Word(e.serial)) = WordBytes
        BY <3>1, WordBack, Widths, IdsAre
      <3> QED
        BY <2>2, <3>2 DEF RegionOf, TagOf, IdRegionLen, SPAN_TAG, ASSIGNED_TAG
    <2> QED
      BY <2>1, <2>2
  <1>2. <<TagOf(e)>> \in Seq(Byte) /\ Len(<<TagOf(e)>>) = 1
    BY Tags DEF TagOf
  <1>3. PushEntity(e) = <<TagOf(e)>> \o RegionOf(e)
    <2>1. CASE IsSpan(e)
      <3>1. e.trace_id \in Seq(Byte) /\ e.span_id \in Seq(Byte)
        BY <2>1, EntityKinds, Widths, IdsAre DEF BySpan
      <3>2. <<SPAN_TAG>> \o e.trace_id \o e.span_id = <<SPAN_TAG>> \o (e.trace_id \o e.span_id)
        BY <3>1, Tags, Associates
      <3> QED
        BY <2>1, <3>2 DEF PushEntity, TagOf, RegionOf, SpanBytesOf
    <2>2. CASE ~IsSpan(e)
      BY <2>2 DEF PushEntity, TagOf, RegionOf
    <2> QED
      BY <2>1, <2>2
  <1>4. IdRegionLen(TagOf(e)) \in Nat
    BY Widths DEF IdRegionLen
  <1>5. PushEntity(e) \in Seq(Byte) /\ Len(PushEntity(e)) = 1 + IdRegionLen(TagOf(e))
    BY <1>1, <1>2, <1>3, BytesJoined
  <1> QED
    BY <1>1, <1>2, <1>3, <1>4, <1>5

(* A pushed entity is parsed where it stands (push_entity, parse_entity).    *)
LEMMA EntityBack ==
    ASSUME NEW a \in Seq(Byte), NEW e \in Entities, NEW c \in Seq(Byte)
    PROVE  ParseEntity(a \o PushEntity(e) \o c, Len(a))
             = [entity |-> e, end |-> Len(a) + Len(PushEntity(e))]
  <1> DEFINE p == PushEntity(e)
             r == RegionOf(e)
             t == <<TagOf(e)>>
             n == IdRegionLen(TagOf(e))
             w == a \o p \o c
  <1>1. /\ r \in Seq(Byte) /\ Len(r) = n /\ p = t \o r /\ p \in Seq(Byte) /\ Len(p) = 1 + n
        /\ n \in Nat /\ t \in Seq(Byte) /\ Len(t) = 1 /\ t[1] = TagOf(e)
    BY PushedIs
  <1>2. TagOf(e) \in {SPAN_TAG, ASSIGNED_TAG}
    BY DEF TagOf
  <1>3. (TagOf(e) = SPAN_TAG <=> IsSpan(e)) /\ n = IdRegionLen(TagOf(e))
    BY DEF TagOf, SPAN_TAG, ASSIGNED_TAG
  <1>4. IsSpan(e) => n = TraceBytes + SpanBytes /\ r = e.trace_id \o e.span_id
    BY DEF IdRegionLen, RegionOf, SpanBytesOf, TagOf
  <1>5. ~IsSpan(e) => n = WordBytes /\ r = Word(e.serial)
    BY DEF IdRegionLen, RegionOf, TagOf, SPAN_TAG, ASSIGNED_TAG
  <1> HIDE DEF p, r, t, n
  <1>6. /\ a \o p \in Seq(Byte) /\ Len(a \o p) = Len(a) + (1 + n)
        /\ \A i \in 1..Len(p) : (a \o p)[Len(a) + i] = p[i]
    <2>1. a \o p \in Seq(Byte) /\ Len(a \o p) = Len(a) + Len(p)
      BY <1>1, BytesJoined
    <2>2. \A i \in 1..Len(p) : (a \o p)[Len(a) + i] = p[i]
      BY <1>1, BytesJoined
    <2> QED
      BY <1>1, <2>1, <2>2
  <1>7. p[1] = TagOf(e)
    <2>1. \A i \in 1..Len(t) : (t \o r)[i] = t[i]
      BY <1>1, BytesJoined
    <2> QED
      BY <1>1, <2>1
  <1>8. /\ w \in Seq(Byte) /\ Len(w) = Len(a) + (1 + n) + Len(c)
        /\ \A i \in 1..(Len(a) + (1 + n)) : w[i] = (a \o p)[i]
    BY <1>6, BytesJoined
  <1>9. w[Len(a) + 1] = TagOf(e) /\ ~(Len(a) >= Len(w)) /\ ~(Len(a) + 1 + n > Len(w))
    <2>1. Len(a) \in Nat /\ Len(c) \in Nat
      OBVIOUS
    <2>2. 1 \in 1..Len(p) /\ Len(a) + 1 \in 1..(Len(a) + (1 + n))
      BY <1>1, <2>1
    <2> QED
      BY <1>1, <1>6, <1>7, <1>8, <2>1, <2>2
  <1>10. Slice(w, Len(a) + 1, n) = r
    <2>1. a \o t \in Seq(Byte) /\ Len(a \o t) = Len(a) + 1
      <3>1. a \o t \in Seq(Byte) /\ Len(a \o t) = Len(a) + Len(t)
        BY <1>1, BytesJoined
      <3> QED
        BY <1>1, <3>1
    <2>2. (a \o t) \o r = a \o p
      BY <1>1, Associates
    <2>3. Slice((a \o t) \o r \o c, Len(a \o t), n) = r
      BY <1>1, <2>1, BytesSlice
    <2> QED
      BY <2>1, <2>2, <2>3
  <1> HIDE DEF w
  <1>11. /\ Len(a) \in Nat
         /\ ParseEntity(w, Len(a)) =
              IF TagOf(e) = SPAN_TAG
              THEN [entity |-> SpanEntity(Slice(r, 0, TraceBytes), Slice(r, TraceBytes, SpanBytes)),
                    end |-> Len(a) + 1 + n]
              ELSE IF UnWord(r) = 0 THEN None
              ELSE [entity |-> Assigned(UnWord(r)), end |-> Len(a) + 1 + n]
    BY <1>2, <1>3, <1>9, <1>10 DEF ParseEntity
  <1>12. Len(a) + 1 + n = Len(a) + Len(p)
    BY <1>1, <1>11
  <1>13. CASE IsSpan(e)
    <2>1. /\ e.trace_id \in Seq(Byte) /\ Len(e.trace_id) = TraceBytes
          /\ e.span_id \in Seq(Byte) /\ Len(e.span_id) = SpanBytes
          /\ e = [trace_id |-> e.trace_id, span_id |-> e.span_id, serial |-> None]
      BY <1>13, EntityKinds, Widths, IdsAre DEF BySpan
    <2>2. r = e.trace_id \o e.span_id
      BY <1>4, <1>13
    <2>3. Slice(r, 0, TraceBytes) = e.trace_id
      <3>1. PICK x : x = <<>>
        OBVIOUS
      <3>2. x \in Seq(Byte) /\ Len(x) = 0 /\ x \o e.trace_id = e.trace_id
        BY <2>1, <3>1
      <3>3. Slice(x \o e.trace_id \o e.span_id, Len(x), Len(e.trace_id)) = e.trace_id
        BY <2>1, <3>2, BytesSlice
      <3> QED
        BY <2>1, <2>2, <3>2, <3>3
    <2>4. Slice(r, TraceBytes, SpanBytes) = e.span_id
      <3>1. <<>> \in Seq(Byte) /\ r \o <<>> = r
        BY <1>1
      <3>2. Slice(e.trace_id \o e.span_id \o <<>>, Len(e.trace_id), SpanBytes) = e.span_id
        BY <2>1, <3>1, BytesSlice
      <3> QED
        BY <2>1, <2>2, <3>1, <3>2
    <2> QED
      BY <1>3, <1>11, <1>12, <1>13, <2>1, <2>3, <2>4 DEF SpanEntity, w, p
  <1>14. CASE ~IsSpan(e)
    <2>1. /\ e.serial \in Words /\ e.serial # 0
          /\ e = [trace_id |-> None, span_id |-> None, serial |-> e.serial]
      BY <1>14, EntityKinds DEF BySerial
    <2>2. UnWord(r) = e.serial
      BY <1>5, <1>14, <2>1, WordBack
    <2> QED
      BY <1>3, <1>11, <1>12, <1>14, <2>1, <2>2 DEF Assigned, w, p
  <1> QED
    BY <1>13, <1>14

LEMMA BytesFront ==
    \A a, b \in Seq(Byte) : Slice(a \o b, 0, Len(a)) = a
  <1> TAKE a, b \in Seq(Byte)
  <1>1. PICK x : x = <<>>
    OBVIOUS
  <1>2. x \in Seq(Byte) /\ Len(x) = 0 /\ x \o a = a
    BY <1>1
  <1>3. Slice(x \o a \o b, Len(x), Len(a)) = a
    BY <1>2, BytesSlice
  <1> QED
    BY <1>2, <1>3

LEMMA PayloadIs ==
    ASSUME NEW p \in Payloads
    PROVE  /\ Word(p.position) \in Seq(Byte) /\ Len(Word(p.position)) = WordBytes
           /\ UnWord(Word(p.position)) = p.position
           /\ p.fingerprint \in Seq(Byte) /\ Len(p.fingerprint) = WordBytes
           /\ Word(p.snapshot.at) \in Seq(Byte) /\ Len(Word(p.snapshot.at)) = WordBytes
           /\ UnWord(Word(p.snapshot.at)) = p.snapshot.at
           /\ p.last_entity \in Entities /\ p.snapshot.entity \in Entities
           /\ p = CursorPayload(p.position, p.last_entity, p.fingerprint,
                                AdmissionKey(p.snapshot.at, p.snapshot.entity))
           /\ p # None
  <1>1. /\ p.position \in Words /\ p.last_entity \in Entities /\ p.fingerprint \in Ids(WordBytes)
        /\ p.snapshot \in ResidencyKeys
        /\ p = [position |-> p.position, last_entity |-> p.last_entity,
                fingerprint |-> p.fingerprint, snapshot |-> p.snapshot]
    BY DEF Payloads
  <1>2. /\ p.snapshot.at \in Words /\ p.snapshot.entity \in Entities
        /\ p.snapshot = [at |-> p.snapshot.at, entity |-> p.snapshot.entity]
    BY <1>1 DEF ResidencyKeys
  <1>3. WordBytes \in Nat
    BY Widths
  <1>4. \A n \in Words : Word(n) \in Seq(Byte) /\ Len(Word(n)) = WordBytes /\ UnWord(Word(n)) = n
    BY <1>3, WordBack, IdsAre
  <1>5. p.fingerprint \in Seq(Byte) /\ Len(p.fingerprint) = WordBytes
    BY <1>1, <1>3, IdsAre
  <1>6. p # None
    BY CursorsAssumption
  <1> QED
    BY <1>1, <1>2, <1>4, <1>5, <1>6 DEF CursorPayload, AdmissionKey

(* An encoded cursor is decoded (CursorPayload::encode, CursorPayload::parse). *)
LEMMA EncodeBack ==
    ASSUME NEW p \in Payloads
    PROVE  Encode(p) \in Seq(Byte) /\ Parse(Encode(p)) = p
  <1> DEFINE w == Word(p.position)
             f == p.fingerprint
             l == PushEntity(p.last_entity)
             d == Word(p.snapshot.at)
             e == PushEntity(p.snapshot.entity)
             bytes == w \o f \o l \o d \o e
             a == w \o f
             al == a \o l
             ald == al \o d
  <1>1. /\ w \in Seq(Byte) /\ Len(w) = WordBytes /\ UnWord(w) = p.position
        /\ f \in Seq(Byte) /\ Len(f) = WordBytes
        /\ d \in Seq(Byte) /\ Len(d) = WordBytes /\ UnWord(d) = p.snapshot.at
        /\ p = CursorPayload(p.position, p.last_entity, f,
                             AdmissionKey(p.snapshot.at, p.snapshot.entity))
        /\ p.last_entity \in Entities /\ p.snapshot.entity \in Entities
    BY PayloadIs
  <1>2. /\ l \in Seq(Byte) /\ Len(l) \in Nat /\ Len(l) > 0
        /\ e \in Seq(Byte) /\ Len(e) \in Nat /\ Len(e) > 0
    <2>1. \A x \in Entities : /\ PushEntity(x) \in Seq(Byte) /\ Len(PushEntity(x)) \in Nat
                              /\ Len(PushEntity(x)) > 0
      <3> TAKE x \in Entities
      <3>1. /\ PushEntity(x) \in Seq(Byte) /\ Len(PushEntity(x)) = 1 + IdRegionLen(TagOf(x))
            /\ IdRegionLen(TagOf(x)) \in Nat
        BY PushedIs
      <3> QED
        BY <3>1
    <2> QED
      BY <1>1, <2>1
  <1>3. WordBytes \in Nat /\ WordBytes > 0
    BY Widths
  <1>4. Encode(p) = bytes
    BY DEF Encode
  <1>5. \A q : ParseEntity(q, HeaderLen) = ParseEntity(q, 2 * WordBytes)
    BY DEF HeaderLen
  <1>6. \A b \in Seq(Byte), x \in Seq(Byte) :
          /\ ParseEntity(b \o l \o x, Len(b)) = [entity |-> p.last_entity, end |-> Len(b) + Len(l)]
          /\ ParseEntity(b \o e \o x, Len(b)) = [entity |-> p.snapshot.entity, end |-> Len(b) + Len(e)]
    BY <1>1, EntityBack
  <1> HIDE DEF w, f, l, d, e
  <1>7. a \in Seq(Byte) /\ Len(a) = 2 * WordBytes
    <2>1. a \in Seq(Byte) /\ Len(a) = Len(w) + Len(f)
      BY <1>1, BytesJoined
    <2> QED
      BY <1>1, <1>3, <2>1
  <1> HIDE DEF a
  <1>8. al \in Seq(Byte) /\ Len(al) = 2 * WordBytes + Len(l)
    BY <1>2, <1>7, BytesJoined
  <1> HIDE DEF al
  <1>9. ald \in Seq(Byte) /\ Len(ald) = 2 * WordBytes + Len(l) + WordBytes
    BY <1>1, <1>8, BytesJoined
  <1>10. d \o e \in Seq(Byte) /\ f \o (l \o (d \o e)) \in Seq(Byte) /\ l \o (d \o e) \in Seq(Byte)
    <2>1. d \o e \in Seq(Byte)
      BY <1>1, <1>2, BytesJoined
    <2>2. l \o (d \o e) \in Seq(Byte)
      BY <1>2, <2>1, BytesJoined
    <2>3. f \o (l \o (d \o e)) \in Seq(Byte)
      BY <1>1, <2>2, BytesJoined
    <2> QED
      BY <2>1, <2>2, <2>3
  <1>11. bytes = ald \o e /\ bytes = al \o (d \o e) /\ bytes = a \o (l \o (d \o e))
    <2>1. bytes = ald \o e
      BY DEF a, al
    <2>2. ald \o e = al \o (d \o e)
      BY <1>1, <1>2, <1>8, Associates
    <2>3. al \o (d \o e) = a \o (l \o (d \o e))
      BY <1>2, <1>7, <1>10, Associates DEF al
    <2> QED
      BY <2>1, <2>2, <2>3
  <1>12. bytes = w \o (f \o (l \o (d \o e))) /\ bytes = (w \o f) \o (l \o (d \o e))
    BY <1>1, <1>10, <1>11, Associates DEF a
  <1>13. bytes = al \o d \o e
    BY <1>11
  <1>14. bytes = a \o l \o (d \o e)
    BY <1>11 DEF al
  <1>15. bytes \in Seq(Byte) /\ Len(bytes) = 3 * WordBytes + Len(l) + Len(e)
    <2>1. bytes \in Seq(Byte) /\ Len(bytes) = Len(ald) + Len(e)
      BY <1>2, <1>9, <1>11, BytesJoined
    <2> QED
      BY <1>2, <1>3, <1>9, <2>1
  <1> HIDE DEF ald, bytes
  <1> DEFINE end == 2 * WordBytes + Len(l)
  <1>16. ParseEntity(bytes, HeaderLen) = [entity |-> p.last_entity, end |-> end]
    BY <1>5, <1>6, <1>7, <1>10, <1>14
  <1>17. ParseEntity(bytes, end + WordBytes) = [entity |-> p.snapshot.entity, end |-> Len(bytes)]
    <2>1. PICK x : x = <<>>
      OBVIOUS
    <2>2. x \in Seq(Byte) /\ bytes \o x = bytes
      BY <1>15, <2>1
    <2>3. ald \o e \o x = bytes
      BY <1>11, <2>2
    <2>4. ParseEntity(ald \o e \o x, Len(ald)) = [entity |-> p.snapshot.entity, end |-> Len(ald) + Len(e)]
      BY <1>6, <1>9, <2>2
    <2>5. Len(ald) = end + WordBytes /\ Len(ald) + Len(e) = Len(bytes)
      BY <1>2, <1>3, <1>9, <1>15
    <2> QED
      BY <2>3, <2>4, <2>5
  <1>18. Slice(bytes, 0, WordBytes) = w
    BY <1>1, <1>10, <1>12, BytesFront
  <1>19. Slice(bytes, WordBytes, WordBytes) = f
    <2>1. l \o (d \o e) \in Seq(Byte)
      BY <1>10
    <2>2. Slice(w \o f \o (l \o (d \o e)), Len(w), Len(f)) = f
      BY <1>1, <2>1, BytesSlice
    <2> QED
      BY <1>1, <1>12, <2>2
  <1>20. Slice(bytes, end, WordBytes) = d
    BY <1>1, <1>2, <1>8, <1>13, BytesSlice
  <1>21. ~(Len(bytes) <= HeaderLen) /\ ~(Len(bytes) - end < WordBytes)
    BY <1>2, <1>3, <1>15 DEF HeaderLen
  <1>22. /\ [entity |-> p.last_entity, end |-> end] # None
         /\ [entity |-> p.snapshot.entity, end |-> Len(bytes)] # None
    <2>1. end \in Nat /\ Len(bytes) \in Nat
      BY <1>2, <1>3, <1>15
    <2>2. None \notin [entity : Entities, end : Nat]
      BY CursorsAssumption
    <2> HIDE DEF end
    <2> QED
      BY <1>1, <2>1, <2>2
  <1> HIDE DEF end
  <1>23. Parse(bytes) = CursorPayload(p.position, p.last_entity, f,
                                      AdmissionKey(p.snapshot.at, p.snapshot.entity))
    BY <1>1, <1>16, <1>17, <1>18, <1>19, <1>20, <1>21, <1>22 DEF Parse
  <1> QED
    BY <1>1, <1>4, <1>15, <1>23

(* A part of a whole, and two parts next to each other.                      *)
LEMMA Sliced ==
    ASSUME NEW w \in Seq(Byte), NEW m \in Nat, NEW n \in Nat, m + n <= Len(w)
    PROVE  /\ Slice(w, m, n) \in Seq(Byte) /\ Len(Slice(w, m, n)) = n
           /\ \A i \in 1..n : Slice(w, m, n)[i] = w[m + i]
  <1>1. Len(w) \in Nat /\ DOMAIN w = 1..Len(w) /\ \A i \in 1..Len(w) : w[i] \in Byte
    OBVIOUS
  <1> DEFINE a == SubSeq(w, m + 1, m + n)
  <1>2. a \in Seq(Byte) /\ Len(a) = n /\ \A i \in 1..n : a[i] = w[m + i]
    BY <1>1
  <1> QED
    BY <1>2 DEF Slice

LEMMA SlicesJoin ==
    ASSUME NEW w \in Seq(Byte), NEW m \in Nat, NEW n \in Nat, NEW k \in Nat,
           NEW u \in Nat, NEW v \in Nat, u = m + n, v = n + k, u + k <= Len(w)
    PROVE  Slice(w, m, n) \o Slice(w, u, k) = Slice(w, m, v)
  <1> DEFINE a == Slice(w, m, n)
             b == Slice(w, u, k)
             c == Slice(w, m, v)
  <1>1. m + n <= Len(w) /\ m + v <= Len(w)
    OBVIOUS
  <1>2. a \in Seq(Byte) /\ Len(a) = n /\ \A i \in 1..n : a[i] = w[m + i]
    BY <1>1, Sliced
  <1>3. b \in Seq(Byte) /\ Len(b) = k /\ \A i \in 1..k : b[i] = w[u + i]
    BY <1>1, Sliced
  <1>4. c \in Seq(Byte) /\ Len(c) = n + k /\ \A i \in 1..(n + k) : c[i] = w[m + i]
    BY <1>1, Sliced
  <1> HIDE DEF a, b, c
  <1> DEFINE x == a \o b
  <1>5. /\ x \in Seq(Byte) /\ Len(x) = n + k
        /\ \A i \in 1..n : x[i] = a[i]
        /\ \A i \in 1..k : x[n + i] = b[i]
    BY <1>2, <1>3, BytesJoined
  <1> HIDE DEF x
  <1>6. \A i \in 1..(n + k) : x[i] = c[i]
    <2> TAKE i \in 1..(n + k)
    <2>1. CASE i <= n
      <3>1. i \in 1..n
        BY <2>1
      <3> QED
        BY <1>2, <1>4, <1>5, <3>1
    <2>2. CASE ~(i <= n)
      <3>1. i - n \in 1..k /\ n + (i - n) = i /\ u + (i - n) = m + i
        BY <2>2
      <3>2. x[i] = b[i - n] /\ b[i - n] = w[m + i]
        BY <1>3, <1>5, <3>1
      <3> QED
        BY <1>4, <3>2
    <2> QED
      BY <2>1, <2>2
  <1>7. x = c
    BY <1>4, <1>5, <1>6, SameSeq
  <1> QED
    BY <1>7 DEF a, b, c, x

(* The same from the front of the whole.                                     *)
LEMMA FrontIs ==
    \A w \in Seq(Byte) :
      /\ \A n \in Nat : n <= Len(w) => Slice(w, 0, n) \in Seq(Byte) /\ Len(Slice(w, 0, n)) = n
      /\ \A n, k, v \in Nat : v = n + k /\ v <= Len(w) =>
           Slice(w, 0, n) \o Slice(w, n, k) = Slice(w, 0, v)
      /\ Slice(w, 0, Len(w)) = w
  <1> TAKE w \in Seq(Byte)
  <1>1. PICK z \in Nat : z = 0
    OBVIOUS
  <1>2. \A n \in Nat : n <= Len(w) => Slice(w, z, n) \in Seq(Byte) /\ Len(Slice(w, z, n)) = n
    <2> TAKE n \in Nat
    <2> HAVE n <= Len(w)
    <2>1. z + n <= Len(w)
      BY <1>1
    <2> QED
      BY <2>1, Sliced
  <1>3. \A n, k, v \in Nat : v = n + k /\ v <= Len(w) =>
           Slice(w, z, n) \o Slice(w, n, k) = Slice(w, z, v)
    <2> TAKE n, k, v \in Nat
    <2> HAVE v = n + k /\ v <= Len(w)
    <2>1. n = z + n /\ n + k <= Len(w)
      BY <1>1
    <2> QED
      BY <2>1, SlicesJoin
  <1>4. SubSeq(w, 0 + 1, 0 + Len(w)) = w
    OBVIOUS
  <1> QED
    BY <1>1, <1>2, <1>3, <1>4 DEF Slice

(* What is parsed as an entity is the one encoding of it, wholly there.      *)
LEMMA EntityForward ==
    ASSUME NEW w \in Seq(Byte), NEW from \in Nat, ParseEntity(w, from) # None
    PROVE  LET read == ParseEntity(w, from)
               n == Len(PushEntity(read.entity))
           IN  /\ read.entity \in Entities /\ n \in Nat
               /\ read.end = from + n /\ read.end <= Len(w)
               /\ PushEntity(read.entity) = Slice(w, from, n)
  <1> DEFINE read == ParseEntity(w, from)
             t == w[from + 1]
             n == IdRegionLen(t)
             region == Slice(w, from + 1, n)
  <1> SUFFICES LET s == Len(PushEntity(read.entity))
               IN  /\ read.entity \in Entities /\ s \in Nat
                   /\ read.end = from + s /\ read.end <= Len(w)
                   /\ PushEntity(read.entity) = Slice(w, from, s)
    OBVIOUS
  <1>1. /\ Len(w) \in Nat /\ from < Len(w) /\ t \in {SPAN_TAG, ASSIGNED_TAG}
        /\ from + 1 + n <= Len(w) /\ n \in Nat /\ n > 0
    <2>1. Len(w) \in Nat /\ ~(from >= Len(w)) /\ t \in {SPAN_TAG, ASSIGNED_TAG} /\ ~(from + 1 + n > Len(w))
      BY DEF ParseEntity
    <2>2. n \in Nat /\ n > 0
      BY Widths DEF IdRegionLen
    <2> QED
      BY <2>1, <2>2
  <1>2. /\ region \in Seq(Byte) /\ Len(region) = n
        /\ Slice(w, from, 1) \in Seq(Byte) /\ Len(Slice(w, from, 1)) = 1
        /\ Slice(w, from, 1)[1] = t
        /\ Slice(w, from, 1) \o region = Slice(w, from, 1 + n)
    <2>1. from + 1 + n + 0 <= Len(w) /\ from + 1 \in Nat /\ 0 \in Nat /\ from + 1 + n = from + n + 1 /\ 1 \in 1..1
      BY <1>1
    <2>2. region \in Seq(Byte) /\ Len(region) = n
      BY <1>1, <2>1, Sliced
    <2>3. /\ Slice(w, from, 1) \in Seq(Byte) /\ Len(Slice(w, from, 1)) = 1
          /\ \A i \in 1..1 : Slice(w, from, 1)[i] = w[from + i]
      <3>1. from + 1 <= Len(w) /\ 1 \in Nat
        BY <1>1
      <3> QED
        BY <3>1, Sliced
    <2>4. Slice(w, from, 1) \o region = Slice(w, from, 1 + n)
      <3>1. 1 \in Nat /\ 1 + n \in Nat
        BY <1>1
      <3> HIDE DEF n
      <3> QED
        BY <1>1, <2>1, <3>1, SlicesJoin
    <2> QED
      BY <2>1, <2>2, <2>3, <2>4
  <1>3. Slice(w, from, 1) = <<t>>
    BY <1>2
  <1>4. <<t>> \o region = Slice(w, from, 1 + n)
    BY <1>2, <1>3
  <1>5. CASE t = SPAN_TAG
    <2> DEFINE a == Slice(region, 0, TraceBytes)
               b == Slice(region, TraceBytes, SpanBytes)
               e == SpanEntity(a, b)
    <2>1. n = TraceBytes + SpanBytes
      BY <1>5 DEF IdRegionLen
    <2>2. /\ ParseEntity(w, from) = [entity |-> e, end |-> from + 1 + n]
      BY <1>1, <1>5 DEF ParseEntity
    <2>3. /\ a \in Seq(Byte) /\ Len(a) = TraceBytes /\ a \o b = region
          /\ b \in Seq(Byte) /\ Len(b) = SpanBytes
      <3>1. 0 \in Nat /\ 0 + TraceBytes + SpanBytes <= Len(region)
            /\ TraceBytes + SpanBytes + 0 <= Len(region) /\ 0 + TraceBytes = TraceBytes
            /\ 0 + (TraceBytes + SpanBytes) = Len(region)
        BY <1>2, <2>1, Widths
      <3> HIDE DEF region, n
      <3>a. TraceBytes \in Nat /\ SpanBytes \in Nat /\ TraceBytes + SpanBytes \in Nat
        BY Widths
      <3>2. a \in Seq(Byte) /\ Len(a) = TraceBytes
        BY <1>2, <3>1, <3>a, FrontIs
      <3>3. b \in Seq(Byte) /\ Len(b) = SpanBytes
        BY <1>2, <3>1, <3>a, Sliced
      <3>4. a \o b = Slice(region, 0, TraceBytes + SpanBytes)
        <4> DEFINE both == TraceBytes + SpanBytes
        <4>1. both \in Nat /\ both = TraceBytes + SpanBytes /\ both <= Len(region)
          BY <3>1, <3>a
        <4> HIDE DEF both
        <4>2. region \in Seq(Byte) /\ TraceBytes \in Nat /\ SpanBytes \in Nat
          BY <1>2, <3>a
        <4>3. PICK i \in Nat, k \in Nat : i = TraceBytes /\ k = SpanBytes
          BY <4>2
        <4>4. Slice(region, 0, i) \o Slice(region, i, k) = Slice(region, 0, both)
          BY <4>1, <4>2, <4>3, FrontIs
        <4> QED
          BY <4>3, <4>4 DEF both
      <3>5. Slice(region, 0, Len(region)) = region
        BY <1>2, FrontIs
      <3> QED
        BY <1>2, <2>1, <3>1, <3>2, <3>3, <3>4, <3>5
    <2>4. a \in Ids(TraceBytes) /\ b \in Ids(SpanBytes)
      BY <2>3, Widths, IdsFrom
    <2> HIDE DEF a, b
    <2>5. e = [trace_id |-> a, span_id |-> b, serial |-> None]
      BY DEF SpanEntity
    <2>6. e \in Entities /\ IsSpan(e)
      BY <2>4, <2>5 DEF Entities, IsSpan
    <2>7. PushEntity(e) = <<SPAN_TAG>> \o a \o b
      BY <2>5, <2>6 DEF PushEntity
    <2>8. PushEntity(e) = <<t>> \o region
      <3>1. <<SPAN_TAG>> \o a \o b = <<SPAN_TAG>> \o (a \o b)
        BY <2>3, Tags, Associates
      <3> HIDE DEF e, region, t
      <3> QED
        BY <1>5, <2>3, <2>7, <3>1
    <2>9. Len(PushEntity(e)) = 1 + n
      <3>1. <<t>> \in Seq(Byte) /\ Len(<<t>>) = 1
        BY <1>5, Tags
      <3> QED
        BY <1>2, <2>8, <3>1, BytesJoined
    <2> HIDE DEF e, n, region, t
    <2>10. read.entity = e /\ read.end = from + 1 + n
      BY <2>2
    <2>11. Len(PushEntity(e)) \in Nat /\ read.end = from + Len(PushEntity(e)) /\ read.end <= Len(w)
      BY <1>1, <2>9, <2>10
    <2> HIDE DEF read
    <2>12. PushEntity(e) = Slice(w, from, Len(PushEntity(e)))
      BY <1>4, <2>8, <2>9
    <2> QED
      BY <2>6, <2>10, <2>11, <2>12
  <1>6. CASE t # SPAN_TAG
    <2> DEFINE e == Assigned(UnWord(region))
    <2>1. t = ASSIGNED_TAG /\ n = WordBytes
      BY <1>1, <1>6 DEF IdRegionLen
    <2>2. ParseEntity(w, from) = IF UnWord(region) = 0 THEN None ELSE [entity |-> e, end |-> from + 1 + n]
      BY <1>1, <1>6 DEF ParseEntity
    <2>3. UnWord(region) # 0 /\ ParseEntity(w, from) = [entity |-> e, end |-> from + 1 + n]
      BY <2>2
    <2>4. region \in Ids(WordBytes)
      BY <1>2, <2>1, Widths, IdsFrom
    <2>5. UnWord(region) \in Words \ {0} /\ Word(UnWord(region)) = region
      BY <2>3, <2>4, UnWordBack
    <2> HIDE DEF region, n, t
    <2>6. e = [trace_id |-> None, span_id |-> None, serial |-> UnWord(region)]
      BY DEF Assigned
    <2>7. e \in Entities /\ ~IsSpan(e)
      <3>1. e \in BySerial /\ UnWord(region) # None
        BY <2>5, <2>6, CursorsAssumption DEF BySerial, Words
      <3> QED
        BY <2>6, <3>1 DEF Entities, IsSpan, BySerial
    <2>8. PushEntity(e) = <<t>> \o region
      BY <2>1, <2>5, <2>6, <2>7 DEF PushEntity
    <2>9. Len(PushEntity(e)) = 1 + n
      <3>1. <<t>> \in Seq(Byte) /\ Len(<<t>>) = 1
        BY <2>1, Tags
      <3>2. Len(<<t>> \o region) = Len(<<t>>) + Len(region)
        BY <1>2, <3>1, BytesJoined
      <3> QED
        BY <1>1, <1>2, <2>8, <3>1, <3>2
    <2> HIDE DEF e
    <2>10. read.entity = e /\ read.end = from + 1 + n
      BY <2>3
    <2>11. Len(PushEntity(e)) \in Nat /\ read.end = from + Len(PushEntity(e)) /\ read.end <= Len(w)
      BY <1>1, <2>9, <2>10
    <2> HIDE DEF read
    <2>12. PushEntity(e) = Slice(w, from, Len(PushEntity(e)))
      BY <1>4, <2>8, <2>9
    <2> QED
      BY <2>7, <2>10, <2>11, <2>12
  <1> QED
    BY <1>5, <1>6

(* What is parsed is the one encoding of what it is parsed as.               *)
LEMMA ParseBack ==
    ASSUME NEW w \in Seq(Byte), Parse(w) # None
    PROVE  Parse(w) \in Payloads /\ Encode(Parse(w)) = w
  <1> DEFINE W == WordBytes
             last == ParseEntity(w, HeaderLen)
             boundary == ParseEntity(w, last.end + W)
             m == Len(PushEntity(last.entity))
             k == Len(PushEntity(boundary.entity))
             end == 2 * W + m
             p == Parse(w)
  <1>1. W \in Nat /\ W > 0 /\ HeaderLen = 2 * W /\ 2 * W \in Nat /\ Len(w) \in Nat
    BY Widths DEF HeaderLen
  <1>2. /\ last # None /\ ~(Len(w) - last.end < W)
        /\ boundary # None /\ boundary.end = Len(w)
        /\ p = CursorPayload(UnWord(Slice(w, 0, W)), last.entity, Slice(w, W, W),
                             AdmissionKey(UnWord(Slice(w, last.end, W)), boundary.entity))
    BY DEF Parse
  <1>3. /\ last.entity \in Entities /\ m \in Nat /\ last.end = end /\ end <= Len(w)
        /\ PushEntity(last.entity) = Slice(w, 2 * W, m)
    <2>1. /\ last.entity \in Entities /\ m \in Nat /\ last.end = HeaderLen + m /\ last.end <= Len(w)
          /\ PushEntity(last.entity) = Slice(w, HeaderLen, m)
      BY <1>1, <1>2, EntityForward
    <2> QED
      BY <1>1, <2>1
  <1>4. end \in Nat /\ end + W \in Nat
    BY <1>1, <1>3
  <1>5. /\ boundary.entity \in Entities /\ k \in Nat /\ end + W + k = Len(w)
        /\ PushEntity(boundary.entity) = Slice(w, end + W, k)
    <2>1. last.end + W \in Nat /\ last.end + W = end + W
      BY <1>3, <1>4
    <2>2. /\ boundary.entity \in Entities /\ k \in Nat /\ boundary.end = last.end + W + k
          /\ PushEntity(boundary.entity) = Slice(w, last.end + W, k)
      BY <1>2, <2>1, EntityForward
    <2> QED
      BY <1>2, <2>1, <2>2
  <1> DEFINE s1 == Slice(w, 0, W)
             s2 == Slice(w, W, W)
             s3 == Slice(w, 2 * W, m)
             s4 == Slice(w, end, W)
             s5 == Slice(w, end + W, k)
  <1>6. /\ 0 + W + W <= Len(w) /\ W + W + m <= Len(w) /\ 2 * W + m + W <= Len(w) /\ end + W + k <= Len(w)
        /\ 0 + W = W /\ W + W = 2 * W /\ 0 \in Nat /\ 0 + 2 * W = 2 * W
        /\ 0 + (2 * W) + m <= Len(w) /\ 2 * W + m = end /\ 0 + end + W <= Len(w) /\ 0 + end = end
        /\ 0 + (end + W) + k <= Len(w) /\ 0 + (end + W) = end + W
        /\ end + W + 0 <= Len(w) /\ W + W + 0 <= Len(w)
    BY <1>1, <1>3, <1>4, <1>5
  <1> HIDE DEF last, boundary, m, k
  <1> HIDE DEF end
  <1>7. s1 \in Seq(Byte) /\ Len(s1) = W
    BY <1>1, <1>6, FrontIs
  <1>8. s2 \in Seq(Byte) /\ Len(s2) = W
    BY <1>1, <1>6, Sliced
  <1>9. s4 \in Seq(Byte) /\ Len(s4) = W
    BY <1>1, <1>4, <1>6, Sliced
  <1>10. s1 \o s2 = Slice(w, 0, 2 * W)
    BY <1>1, <1>6, FrontIs
  <1>11. Slice(w, 0, 2 * W) \o s3 = Slice(w, 0, end)
    <2> DEFINE two == 2 * W
    <2>1. two \in Nat /\ end = two + m /\ end \in Nat /\ end <= Len(w) /\ m \in Nat
      BY <1>1, <1>3, <1>4, <1>6
    <2> HIDE DEF two
    <2>2. Slice(w, 0, two) \o Slice(w, two, m) = Slice(w, 0, end)
      BY <2>1, FrontIs
    <2> QED
      BY <2>2 DEF two
  <1>12. Slice(w, 0, end) \o s4 = Slice(w, 0, end + W)
    <2> DEFINE past == end + W
    <2>1. past \in Nat /\ past = end + W /\ end \in Nat /\ past <= Len(w)
      BY <1>1, <1>4, <1>5
    <2> HIDE DEF past
    <2>2. Slice(w, 0, end) \o Slice(w, end, W) = Slice(w, 0, past)
      BY <1>1, <2>1, FrontIs
    <2> QED
      BY <2>2 DEF past
  <1>13. Slice(w, 0, end + W) \o s5 = w
    <2>1. Slice(w, 0, end + W) \o s5 = Slice(w, 0, Len(w))
      <3> DEFINE past == end + W
      <3>1. past \in Nat /\ Len(w) = past + k /\ k \in Nat
        BY <1>1, <1>4, <1>5
      <3> HIDE DEF past
      <3>2. Slice(w, 0, past) \o Slice(w, past, k) = Slice(w, 0, Len(w))
        BY <1>1, <3>1, FrontIs
      <3> QED
        BY <3>2 DEF past
    <2> QED
      BY <2>1, FrontIs
  <1>14. /\ UnWord(s1) \in Words /\ Word(UnWord(s1)) = s1
         /\ s2 \in Ids(W)
         /\ UnWord(s4) \in Words /\ Word(UnWord(s4)) = s4
    <2>1. s1 \in Ids(W) /\ s2 \in Ids(W) /\ s4 \in Ids(W)
      BY <1>1, <1>7, <1>8, <1>9, IdsFrom
    <2> QED
      BY <2>1, UnWordBack
  <1>15. p = [position |-> UnWord(s1), last_entity |-> last.entity, fingerprint |-> s2,
              snapshot |-> [at |-> UnWord(s4), entity |-> boundary.entity]]
    BY <1>2, <1>3 DEF CursorPayload, AdmissionKey
  <1> HIDE DEF s1, s2, s3, s4, s5, end, p
  <1>16. p \in Payloads
    BY <1>3, <1>5, <1>14, <1>15 DEF Payloads, ResidencyKeys
  <1>17. Encode(p) = s1 \o s2 \o s3 \o s4 \o s5
    BY <1>3, <1>5, <1>14, <1>15 DEF Encode, s3, s5
  <1> QED
    BY <1>10, <1>11, <1>12, <1>13, <1>16, <1>17 DEF p

-----------------------------------------------------------------------------
(* A query's canonical bytes: each slot tells where it ends.                 *)

LEMMA BytesUnjoin ==
    \A a, b, c, d \in Seq(Byte) : a \o b = c \o d /\ Len(a) = Len(c) => a = c /\ b = d
  BY Unjoined

(* Whatever follows them, the bytes p of v and q of w are told apart.        *)
Apart(p, q, v, w) ==
    /\ p \in Seq(Byte) /\ q \in Seq(Byte)
    /\ \A x, y \in Seq(Byte) : p \o x = q \o y => v = w /\ x = y

LEMMA ApartFlags ==
    ASSUME NEW a \in Byte, NEW b \in Byte
    PROVE  Apart(<<a>>, <<b>>, a, b)
  <1>1. <<a>> \in Seq(Byte) /\ <<b>> \in Seq(Byte) /\ Len(<<a>>) = Len(<<b>>)
    OBVIOUS
  <1>2. ASSUME NEW x \in Seq(Byte), NEW y \in Seq(Byte), <<a>> \o x = <<b>> \o y
        PROVE  a = b /\ x = y
    <2>1. <<a>> = <<b>> /\ x = y
      BY <1>1, <1>2, BytesUnjoin
    <2> QED
      BY <2>1
  <1> QED
    BY <1>1, <1>2 DEF Apart

LEMMA ApartWords ==
    ASSUME NEW m \in Words, NEW n \in Words
    PROVE  Apart(Word(m), Word(n), m, n)
  <1>1. /\ Word(m) \in Seq(Byte) /\ Len(Word(m)) = WordBytes /\ UnWord(Word(m)) = m
        /\ Word(n) \in Seq(Byte) /\ Len(Word(n)) = WordBytes /\ UnWord(Word(n)) = n
    <2>1. WordBytes \in Nat /\ Word(m) \in Ids(WordBytes) /\ Word(n) \in Ids(WordBytes)
      BY Widths, WordBack
    <2> QED
      BY <2>1, WordBack, IdsAre
  <1>2. ASSUME NEW x \in Seq(Byte), NEW y \in Seq(Byte), Word(m) \o x = Word(n) \o y
        PROVE  m = n /\ x = y
    <2>1. Word(m) = Word(n) /\ x = y
      BY <1>1, <1>2, BytesUnjoin
    <2> QED
      BY <1>1, <2>1
  <1> QED
    BY <1>1, <1>2 DEF Apart

(* Two slots one behind the other.                                           *)
LEMMA ApartJoined ==
    ASSUME NEW p, NEW q, NEW v, NEW w, Apart(p, q, v, w),
           NEW r \in Seq(Byte), NEW s \in Seq(Byte), NEW c, NEW d, v = w => Apart(r, s, c, d)
    PROVE  Apart(p \o r, q \o s, <<v, c>>, <<w, d>>)
  <1>1. p \in Seq(Byte) /\ q \in Seq(Byte)
    BY DEF Apart
  <1>2. p \o r \in Seq(Byte) /\ q \o s \in Seq(Byte)
    BY <1>1, BytesJoined
  <1>3. ASSUME NEW x \in Seq(Byte), NEW y \in Seq(Byte), (p \o r) \o x = (q \o s) \o y
        PROVE  v = w /\ c = d /\ x = y
    <2>1. r \o x \in Seq(Byte) /\ s \o y \in Seq(Byte)
      BY BytesJoined
    <2>a. (p \o r) \o x = p \o (r \o x)
      <3>1. \A u \in Seq(Byte) : (u \o r) \o x = u \o (r \o x)
        BY Associates
      <3> QED
        BY <1>1, <3>1
    <2>b. (q \o s) \o y = q \o (s \o y)
      <3>1. \A u \in Seq(Byte) : (u \o s) \o y = u \o (s \o y)
        BY Associates
      <3> QED
        BY <1>1, <3>1
    <2>2. p \o (r \o x) = q \o (s \o y)
      BY <1>3, <2>a, <2>b
    <2>3. v = w /\ r \o x = s \o y
      BY <1>3, <2>1, <2>2 DEF Apart
    <2> QED
      BY <2>3 DEF Apart
  <1> QED
    BY <1>2, <1>3 DEF Apart

LEMMA ApartStrs ==
    ASSUME NEW s, NEW t, IsText(s), IsText(t)
    PROVE  Apart(PushStr(s), PushStr(t), s, t)
  <1>1. s \in Seq(Byte) /\ t \in Seq(Byte) /\ Len(s) \in Words /\ Len(t) \in Words
    BY DEF IsText
  <1> DEFINE p == Word(Len(s))
             q == Word(Len(t))
  <1>2. Apart(p, q, Len(s), Len(t))
    BY <1>1, ApartWords
  <1>3. Len(s) = Len(t) => Apart(s, t, s, t)
    BY <1>1, BytesUnjoin DEF Apart
  <1>4. PushStr(s) = p \o s /\ PushStr(t) = q \o t
    BY DEF PushStr
  <1> HIDE DEF p, q
  <1>5. Apart(p \o s, q \o t, <<Len(s), s>>, <<Len(t), t>>)
    <2>1. PICK m, n : m = Len(s) /\ n = Len(t)
      OBVIOUS
    <2>2. Apart(p \o s, q \o t, <<m, s>>, <<n, t>>)
      BY <1>1, <1>2, <1>3, <2>1, ApartJoined
    <2> QED
      BY <2>1, <2>2
  <1> QED
    BY <1>4, <1>5 DEF Apart

Optional(v, bytes) == IF v = None THEN <<ABSENT>> ELSE <<PRESENT>> \o bytes

(* A slot that may be empty.                                                 *)
LEMMA ApartOptional ==
    ASSUME NEW v, NEW w, NEW r, NEW s,
           v # None => r \in Seq(Byte), w # None => s \in Seq(Byte),
           v # None /\ w # None => Apart(r, s, v, w)
    PROVE  Apart(Optional(v, r), Optional(w, s), v, w)
  <1>1. /\ ABSENT \in Byte /\ PRESENT \in Byte /\ ABSENT # PRESENT
        /\ <<ABSENT>> \in Seq(Byte) /\ <<PRESENT>> \in Seq(Byte)
    BY Widths DEF ABSENT, PRESENT, Byte
  <1>a. PICK a \in Byte, b \in Byte : a = ABSENT /\ b = PRESENT /\ a # b
    BY <1>1
  <1>2. /\ v = None => Optional(v, r) = <<a>>
        /\ v # None => Optional(v, r) = <<b>> \o r
        /\ w = None => Optional(w, s) = <<a>>
        /\ w # None => Optional(w, s) = <<b>> \o s
    BY <1>a DEF Optional
  <1>3. Apart(<<a>>, <<b>>, a, b) /\ Apart(<<b>>, <<a>>, b, a) /\ Apart(<<a>>, <<a>>, a, a)
        /\ Apart(<<b>>, <<b>>, b, b)
    BY ApartFlags
  <1>4. CASE v = None /\ w = None
    BY <1>2, <1>3, <1>4 DEF Apart
  <1>5. CASE v # None /\ w # None
    <2>1. Apart(<<b>> \o r, <<b>> \o s, <<b, v>>, <<b, w>>)
      <3>1. r \in Seq(Byte) /\ s \in Seq(Byte) /\ Apart(r, s, v, w) /\ Apart(<<b>>, <<b>>, b, b)
        BY <1>3, <1>5
      <3> QED
        BY <3>1, ApartJoined
    <2> QED
      BY <1>2, <1>5, <2>1 DEF Apart
  <1>6. CASE v = None /\ w # None
    <2>1. \A x, y \in Seq(Byte) : <<a>> \o x # (<<b>> \o s) \o y
      <3> TAKE x, y \in Seq(Byte)
      <3>1. <<b>> \in Seq(Byte) /\ s \in Seq(Byte)
        BY <1>6
      <3>2. s \o y \in Seq(Byte) /\ (<<b>> \o s) \o y = <<b>> \o (s \o y)
        BY <3>1, BytesJoined, Associates
      <3> QED
        BY <1>a, <1>3, <3>2 DEF Apart
    <2>2. <<a>> \in Seq(Byte) /\ <<b>> \o s \in Seq(Byte)
      BY <1>3, <1>6, BytesJoined DEF Apart
    <2> QED
      BY <1>2, <1>6, <2>1, <2>2 DEF Apart
  <1>7. CASE v # None /\ w = None
    <2>1. \A x, y \in Seq(Byte) : (<<b>> \o r) \o x # <<a>> \o y
      <3> TAKE x, y \in Seq(Byte)
      <3>1. <<b>> \in Seq(Byte) /\ r \in Seq(Byte)
        BY <1>7
      <3>2. r \o x \in Seq(Byte) /\ (<<b>> \o r) \o x = <<b>> \o (r \o x)
        BY <3>1, BytesJoined, Associates
      <3> QED
        BY <1>a, <1>3, <3>2 DEF Apart
    <2>2. <<a>> \in Seq(Byte) /\ <<b>> \o r \in Seq(Byte)
      BY <1>3, <1>7, BytesJoined DEF Apart
    <2> QED
      BY <1>2, <1>7, <2>1, <2>2 DEF Apart
  <1> QED
    BY <1>4, <1>5, <1>6, <1>7

LEMMA ApartVersions ==
    ASSUME NEW v, NEW w, v # None => IsText(v), w # None => IsText(w)
    PROVE  Apart(PushVersion(v), PushVersion(w), v, w) /\ Apart(PushService(v), PushService(w), v, w)
  <1>1. \A u : /\ PushVersion(u) = Optional(u, PushStr(u)) /\ PushService(u) = Optional(u, PushStr(u))
    BY DEF PushVersion, PushService, Optional
  <1>2. v # None => PushStr(v) \in Seq(Byte)
    BY ApartStrs DEF Apart
  <1>3. w # None => PushStr(w) \in Seq(Byte)
    BY ApartStrs DEF Apart
  <1>4. v # None /\ w # None => Apart(PushStr(v), PushStr(w), v, w)
    BY ApartStrs
  <1>5. Apart(Optional(v, PushStr(v)), Optional(w, PushStr(w)), v, w)
    BY <1>2, <1>3, <1>4, ApartOptional
  <1> QED
    BY <1>1, <1>5

LEMMA ApartRanges ==
    ASSUME NEW v, NEW w, v # None => v \in [from : Words, to : Words],
           w # None => w \in [from : Words, to : Words]
    PROVE  Apart(PushRange(v), PushRange(w), v, w)
  <1> DEFINE Bounds(u) == Word(u.from) \o Word(u.to)
  <1>1. \A u \in [from : Words, to : Words] :
          /\ u = [from |-> u.from, to |-> u.to] /\ u.from \in Words /\ u.to \in Words
    OBVIOUS
  <1>2. \A n \in Words : Word(n) \in Seq(Byte)
    BY ApartWords DEF Apart
  <1>3. \A u \in [from : Words, to : Words] :
          /\ Bounds(u) \in Seq(Byte)
          /\ (<<PRESENT>> \o Word(u.from)) \o Word(u.to) = <<PRESENT>> \o Bounds(u)
    <2> TAKE u \in [from : Words, to : Words]
    <2>1. Word(u.from) \in Seq(Byte) /\ Word(u.to) \in Seq(Byte) /\ <<PRESENT>> \in Seq(Byte)
      BY <1>1, <1>2, Widths DEF PRESENT, Byte
    <2> QED
      BY <2>1, BytesJoined, Associates
  <1>4. ASSUME v # None, w # None
        PROVE  Apart(Bounds(v), Bounds(w), v, w)
    <2>1. Apart(Word(v.from), Word(w.from), v.from, w.from)
      BY <1>1, <1>4, ApartWords
    <2>2. Apart(Word(v.to), Word(w.to), v.to, w.to) /\ Word(v.to) \in Seq(Byte) /\ Word(w.to) \in Seq(Byte)
      BY <1>1, <1>2, <1>4, ApartWords
    <2>3. Apart(Bounds(v), Bounds(w), <<v.from, v.to>>, <<w.from, w.to>>)
      BY <2>1, <2>2, ApartJoined
    <2>4. v.from = w.from /\ v.to = w.to => v = w
      BY <1>1, <1>4
    <2> HIDE DEF Bounds
    <2> QED
      BY <1>3, <1>4, <2>3, <2>4 DEF Apart
  <1>5. /\ v = None => PushRange(v) = Optional(v, Bounds(v))
        /\ v # None => PushRange(v) = Optional(v, Bounds(v))
        /\ w = None => PushRange(w) = Optional(w, Bounds(w))
        /\ w # None => PushRange(w) = Optional(w, Bounds(w))
    BY <1>3 DEF PushRange, Optional
  <1> HIDE DEF Bounds
  <1>6. Apart(Optional(v, Bounds(v)), Optional(w, Bounds(w)), v, w)
    BY <1>3, <1>4, ApartOptional
  <1> QED
    BY <1>5, <1>6

LEMMA ApartSeverities ==
    ASSUME NEW v, NEW w, v # None => v \in 1..24, w # None => w \in 1..24
    PROVE  Apart(PushSeverity(v), PushSeverity(w), v, w)
  <1>1. \A u \in 1..24 : u \in Byte /\ <<u>> \in Seq(Byte) /\ <<PRESENT, u>> = <<PRESENT>> \o <<u>>
    BY Widths DEF Byte
  <1>2. PushSeverity(v) = Optional(v, <<v>>) /\ PushSeverity(w) = Optional(w, <<w>>)
    BY <1>1 DEF PushSeverity, Optional
  <1>3. v # None /\ w # None => Apart(<<v>>, <<w>>, v, w)
    BY <1>1, ApartFlags
  <1>4. Apart(Optional(v, <<v>>), Optional(w, <<w>>), v, w)
    BY <1>1, <1>3, ApartOptional
  <1> QED
    BY <1>2, <1>4

LEMMA ApartScopes ==
    ASSUME NEW q, NEW r, WellFormed(q), WellFormed(r)
    PROVE  Apart(PushScope(q.scope), PushScope(r.scope), q.scope, r.scope)
  <1> DEFINE v == q.scope
             w == r.scope
             Body(u) == PushStr(u.name) \o PushVersion(u.version)
             IsScope(u) == /\ u = [name |-> u.name, version |-> u.version] /\ IsText(u.name)
                           /\ u.version # None => IsText(u.version)
  <1>1. (v # None => IsScope(v)) /\ (w # None => IsScope(w))
    BY DEF WellFormed
  <1>2. \A u : IsScope(u) => PushStr(u.name) \in Seq(Byte) /\ PushVersion(u.version) \in Seq(Byte)
    <2> TAKE u
    <2> HAVE IsScope(u)
    <2>1. Apart(PushStr(u.name), PushStr(u.name), u.name, u.name)
      BY ApartStrs
    <2>2. Apart(PushVersion(u.version), PushVersion(u.version), u.version, u.version)
      BY ApartVersions
    <2> QED
      BY <2>1, <2>2 DEF Apart
  <1>3. \A u : IsScope(u) =>
          /\ Body(u) \in Seq(Byte)
          /\ (<<PRESENT>> \o PushStr(u.name)) \o PushVersion(u.version) = <<PRESENT>> \o Body(u)
    <2> TAKE u
    <2> HAVE IsScope(u)
    <2>1. PushStr(u.name) \in Seq(Byte) /\ PushVersion(u.version) \in Seq(Byte) /\ <<PRESENT>> \in Seq(Byte)
      BY <1>2, Widths DEF PRESENT, Byte
    <2> QED
      BY <2>1, BytesJoined, Associates
  <1>4. ASSUME v # None, w # None
        PROVE  Apart(Body(v), Body(w), v, w)
    <2>1. IsScope(v) /\ IsScope(w)
      BY <1>1, <1>4
    <2>2. Apart(PushStr(v.name), PushStr(w.name), v.name, w.name)
      BY <2>1, ApartStrs
    <2>3. Apart(PushVersion(v.version), PushVersion(w.version), v.version, w.version)
      BY <2>1, ApartVersions
    <2>4. PushVersion(v.version) \in Seq(Byte) /\ PushVersion(w.version) \in Seq(Byte)
      BY <2>3 DEF Apart
    <2>5. Apart(Body(v), Body(w), <<v.name, v.version>>, <<w.name, w.version>>)
      BY <2>2, <2>3, <2>4, ApartJoined
    <2>6. v.name = w.name /\ v.version = w.version => v = w
      BY <2>1
    <2> HIDE DEF Body, IsScope, v, w
    <2> QED
      BY <2>5, <2>6 DEF Apart
  <1>5. \A u : IsScope(u) => PushScope(u) = Optional(u, Body(u))
    <2> TAKE u
    <2> HAVE IsScope(u)
    <2>1. (<<PRESENT>> \o PushStr(u.name)) \o PushVersion(u.version) = <<PRESENT>> \o Body(u)
      BY <1>3
    <2> HIDE DEF Body
    <2> QED
      BY <2>1 DEF PushScope, Optional
  <1>6. \A u : u = None => PushScope(u) = Optional(u, Body(u))
    BY DEF PushScope, Optional
  <1> HIDE DEF Body, IsScope, v, w
  <1>7. Apart(Optional(v, Body(v)), Optional(w, Body(w)), v, w)
    BY <1>1, <1>3, <1>4, ApartOptional
  <1>8. PushScope(v) = Optional(v, Body(v)) /\ PushScope(w) = Optional(w, Body(w))
    BY <1>1, <1>5, <1>6
  <1> QED
    BY <1>7, <1>8 DEF v, w

(* Equal bytes are equal queries (the fingerprint's preimage).               *)
LEMMA CanonicalTells ==
    ASSUME NEW q, NEW r, WellFormed(q), WellFormed(r), CanonicalBytes(q) = CanonicalBytes(r)
    PROVE  q = r
  <1> DEFINE Severity(u) == IF u.kind = "LogRecords" THEN PushSeverity(u.severity) ELSE <<>>
             h == <<QueryTag, QueryVersion, KindTag(q.kind)>>
             g == <<QueryTag, QueryVersion, KindTag(r.kind)>>
             c == PushCanonical(q)
             d == PushCanonical(r)
  <1>1. /\ q = [kind |-> q.kind, service |-> q.service, range |-> q.range,
                severity |-> q.severity, scope |-> q.scope]
        /\ r = [kind |-> r.kind, service |-> r.service, range |-> r.range,
                severity |-> r.severity, scope |-> r.scope]
        /\ q.kind \in SignalKinds /\ r.kind \in SignalKinds
    BY DEF WellFormed
  <1>2. Apart(PushService(q.service), PushService(r.service), q.service, r.service)
    BY ApartVersions DEF WellFormed
  <1>3. Apart(PushRange(q.range), PushRange(r.range), q.range, r.range)
    BY ApartRanges DEF WellFormed
  <1>4. /\ Apart(PushSeverity(q.severity), PushSeverity(r.severity), q.severity, r.severity)
        /\ q.kind # "LogRecords" => q.severity = None
        /\ r.kind # "LogRecords" => r.severity = None
    BY ApartSeverities DEF WellFormed
  <1>5. Apart(PushScope(q.scope), PushScope(r.scope), q.scope, r.scope)
    BY ApartScopes
  <1>6. /\ PushService(q.service) \in Seq(Byte) /\ PushService(r.service) \in Seq(Byte)
        /\ PushRange(q.range) \in Seq(Byte) /\ PushRange(r.range) \in Seq(Byte)
        /\ PushScope(q.scope) \in Seq(Byte) /\ PushScope(r.scope) \in Seq(Byte)
        /\ Severity(q) \in Seq(Byte) /\ Severity(r) \in Seq(Byte)
    BY <1>2, <1>3, <1>4, <1>5 DEF Apart
  <1>7. q.kind = r.kind => Apart(Severity(q), Severity(r), q.severity, r.severity)
    <2>1. CASE q.kind = "LogRecords"
      BY <1>4, <2>1
    <2>2. ASSUME q.kind # "LogRecords", q.kind = r.kind
          PROVE  Apart(Severity(q), Severity(r), q.severity, r.severity)
      <3>1. Severity(q) = <<>> /\ Severity(r) = <<>> /\ q.severity = r.severity
        BY <1>4, <2>2
      <3>2. Apart(<<>>, <<>>, q.severity, q.severity)
        BY DEF Apart
      <3> QED
        BY <3>1, <3>2
    <2> QED
      BY <2>1, <2>2
  <1>8. /\ c = ((PushService(q.service) \o PushRange(q.range)) \o Severity(q)) \o PushScope(q.scope)
        /\ d = ((PushService(r.service) \o PushRange(r.range)) \o Severity(r)) \o PushScope(r.scope)
        /\ CanonicalBytes(q) = h \o c /\ CanonicalBytes(r) = g \o d
    BY DEF PushCanonical, CanonicalBytes
  <1>9. h \in Seq(Byte) /\ g \in Seq(Byte) /\ Len(h) = 3 /\ Len(g) = 3 /\ (h = g => q.kind = r.kind)
    BY <1>1, Widths DEF Byte, QueryTag, QueryVersion, KindTag, SignalKinds
  <1> HIDE DEF Severity, h, g, c, d
  <1>10. Apart(PushService(q.service) \o PushRange(q.range), PushService(r.service) \o PushRange(r.range),
               <<q.service, q.range>>, <<r.service, r.range>>)
    BY <1>2, <1>3, <1>6, ApartJoined
  <1>11. c \in Seq(Byte) /\ d \in Seq(Byte)
    <2>1. \A a, b, x, y \in Seq(Byte) : ((a \o b) \o x) \o y \in Seq(Byte)
      BY BytesJoined
    <2> QED
      BY <1>6, <1>8, <2>1
  <1>12. h = g /\ c = d
    <2>1. h \o c = g \o d /\ Len(h) = Len(g)
      BY <1>8, <1>9
    <2> QED
      BY <1>9, <1>11, <2>1, BytesUnjoin
  <1>13. q.kind = r.kind
    BY <1>9, <1>12
  <1>14. Apart((PushService(q.service) \o PushRange(q.range)) \o Severity(q),
               (PushService(r.service) \o PushRange(r.range)) \o Severity(r),
               <<<<q.service, q.range>>, q.severity>>, <<<<r.service, r.range>>, r.severity>>)
    BY <1>6, <1>7, <1>10, <1>13, ApartJoined
  <1>15. Apart(c, d, <<<<<<q.service, q.range>>, q.severity>>, q.scope>>,
               <<<<<<r.service, r.range>>, r.severity>>, r.scope>>)
    BY <1>5, <1>6, <1>8, <1>14, ApartJoined
  <1>16. <<<<<<q.service, q.range>>, q.severity>>, q.scope>> = <<<<<<r.service, r.range>>, r.severity>>, r.scope>>
    <2>1. c \o c = d \o c
      BY <1>12
    <2> QED
      BY <1>11, <1>15, <2>1 DEF Apart
  <1> QED
    BY <1>1, <1>13, <1>16

(* And equal boundary bytes are equal boundaries.                            *)
LEMMA BoundaryTells ==
    ASSUME NEW a \in ResidencyKeys, NEW b \in ResidencyKeys, BoundaryBytes(a) = BoundaryBytes(b)
    PROVE  a = b
  <1>1. /\ a.at \in Words /\ a.entity \in Entities /\ a = [at |-> a.at, entity |-> a.entity]
        /\ b.at \in Words /\ b.entity \in Entities /\ b = [at |-> b.at, entity |-> b.entity]
    BY DEF ResidencyKeys
  <1>2. PushEntity(a.entity) \in Seq(Byte) /\ PushEntity(b.entity) \in Seq(Byte)
    BY <1>1, PushedIs
  <1>3. a.at = b.at /\ PushEntity(a.entity) = PushEntity(b.entity)
    <2>1. Apart(Word(a.at), Word(b.at), a.at, b.at)
      BY <1>1, ApartWords
    <2>2. Word(a.at) \o PushEntity(a.entity) = Word(b.at) \o PushEntity(b.entity)
      BY DEF BoundaryBytes
    <2> QED
      BY <1>2, <2>1, <2>2 DEF Apart
  <1>4. PICK x : x = <<>>
    OBVIOUS
  <1>5. x \in Seq(Byte)
    BY <1>4
  <1>6. /\ ParseEntity(x \o PushEntity(a.entity) \o x, Len(x)).entity = a.entity
        /\ ParseEntity(x \o PushEntity(b.entity) \o x, Len(x)).entity = b.entity
    <2>1. \A e \in Entities : ParseEntity(x \o PushEntity(e) \o x, Len(x)).entity = e
      <3> TAKE e \in Entities
      <3>1. ParseEntity(x \o PushEntity(e) \o x, Len(x))
              = [entity |-> e, end |-> Len(x) + Len(PushEntity(e))]
        BY <1>5, EntityBack
      <3> QED
        BY <3>1
    <2> QED
      BY <1>1, <2>1
  <1> QED
    BY <1>1, <1>3, <1>6

-----------------------------------------------------------------------------
(* The scan's order.                                                         *)

(* Each record once, in the order of the keys (the batches of a scan).       *)
LEMMA OrderLaws ==
    ASSUME NEW S, IsFiniteSet(S), \A r \in S : r.key \in ResidencyKeys,
           \A r, s \in S : r.key = s.key => r = s
    PROVE  /\ InResidencyOrder(S) \in Seq(S)
           /\ \A r \in S : \E i \in 1..Len(InResidencyOrder(S)) : InResidencyOrder(S)[i] = r
           /\ \A i, j \in 1..Len(InResidencyOrder(S)) :
                i < j => KeyBefore(InResidencyOrder(S)[i].key, InResidencyOrder(S)[j].key)
  <1> DEFINE R == {p \in S \X S : KeyBefore(p[1].key, p[2].key)}
             N == Cardinality(S)
             Low(r) == {s \in S : s = r \/ KeyBefore(s.key, r.key)}
             place == [r \in S |-> Cardinality(Low(r))]
             a == InResidencyOrder(S)
  <1>1. \A r, s \in S : <<r, s>> \in R <=> KeyBefore(r.key, s.key)
    OBVIOUS
  <1> HIDE DEF R
  <1>2. /\ \A r \in S : <<r, r>> \notin R
        /\ \A r, s, u \in S : <<r, s>> \in R /\ <<s, u>> \in R => <<r, u>> \in R
        /\ \A r, s \in S : r = s \/ <<r, s>> \in R \/ <<s, r>> \in R
    <2>1. \A r \in S : <<r, r>> \notin R
      BY <1>1, KeyOrder
    <2>2. ASSUME NEW r \in S, NEW s \in S, NEW u \in S, <<r, s>> \in R, <<s, u>> \in R
          PROVE  <<r, u>> \in R
      <3>1. KeyBefore(r.key, s.key) /\ KeyBefore(s.key, u.key)
        BY <1>1, <2>2
      <3>2. KeyBefore(r.key, u.key)
        BY <3>1, KeyOrder
      <3> QED
        BY <1>1, <3>2
    <2>3. ASSUME NEW r \in S, NEW s \in S
          PROVE  r = s \/ <<r, s>> \in R \/ <<s, r>> \in R
      <3>1. r.key = s.key \/ KeyBefore(r.key, s.key) \/ KeyBefore(s.key, r.key)
        BY KeyOrder
      <3> QED
        BY <1>1, <3>1
    <2> QED
      BY <2>1, <2>2, <2>3
  <1>3. /\ \A r \in S : Cardinality(Upon(S, R, r)) \in 1..N
        /\ \A r, s \in S : <<r, s>> \in R => Cardinality(Upon(S, R, r)) < Cardinality(Upon(S, R, s))
        /\ \A n \in 1..N : \E r \in S : Cardinality(Upon(S, R, r)) = n
    BY <1>2, RankOnto, Zenon
  <1>4. N \in Nat
    BY FS_CardinalityType
  <1>5. \A r \in S : Low(r) = Upon(S, R, r)
    BY <1>1 DEF Upon
  <1>6. /\ \A r \in S : place[r] \in 1..N
        /\ \A r, s \in S : <<r, s>> \in R => place[r] < place[s]
        /\ \A n \in 1..N : \E r \in S : place[r] = n
    <2> HIDE DEF Low
    <2> QED
      BY <1>3, <1>5
  <1>7. a = [n \in 1..N |-> CHOOSE r \in S : Cardinality(Low(r)) = n]
    BY DEF InResidencyOrder
  <1> HIDE DEF Low
  <1>8. \A n \in 1..N : a[n] \in S /\ place[a[n]] = n
    <2> TAKE n \in 1..N
    <2>1. \E r \in S : Cardinality(Low(r)) = n
      BY <1>6
    <2>2. a[n] = CHOOSE r \in S : Cardinality(Low(r)) = n
      BY <1>7
    <2> HIDE DEF a
    <2> QED
      BY <2>1, <2>2
  <1> HIDE DEF place, N, a
  <1>9. a \in Seq(S) /\ Len(a) = N
    <2>1. a \in [1..N -> S]
      <3> DEFINE f == [n \in 1..N |-> CHOOSE r \in S : Cardinality(Low(r)) = n]
      <3>1. a = f /\ f = [n \in 1..N |-> f[n]]
        BY <1>7
      <3> HIDE DEF f
      <3> QED
        BY <1>8, <3>1
    <2> QED
      BY <1>4, <2>1
  <1>10. \A r, s \in S : place[r] = place[s] => r = s
    <2> TAKE r, s \in S
    <2>1. <<r, s>> \in R \/ <<s, r>> \in R => place[r] < place[s] \/ place[s] < place[r]
      BY <1>6
    <2>2. place[r] \in Int /\ place[s] \in Int
      BY <1>4, <1>6
    <2> QED
      BY <1>2, <2>1, <2>2
  <1>11. \A r \in S : \E i \in 1..N : a[i] = r
    <2> TAKE r \in S
    <2>1. place[r] \in 1..N
      BY <1>6
    <2>2. a[place[r]] = r
      BY <1>8, <1>10, <2>1
    <2> QED
      BY <2>1, <2>2
  <1>12. ASSUME NEW i \in 1..N, NEW j \in 1..N, i < j
         PROVE  KeyBefore(a[i].key, a[j].key)
    <2>1. a[i] \in S /\ a[j] \in S /\ place[a[i]] = i /\ place[a[j]] = j
      BY <1>8
    <2>2. ~(<<a[j], a[i]>> \in R) /\ a[i] # a[j]
      BY <1>4, <1>6, <1>12, <2>1
    <2> QED
      BY <1>1, <1>2, <2>1, <2>2
  <1> QED
    BY <1>9, <1>11, <1>12 DEF a

-----------------------------------------------------------------------------
(* The store.                                                                *)

(* What is kept are candidates, finitely many and each of its own identity.  *)
Stored ==
    /\ resident \subseteq Candidates /\ IsFiniteSet(resident)
    /\ \A r, s \in resident : r.key.entity = s.key.entity => r = s

LEMMA StoredInit == Init => Stored
  BY PagesAssumption DEF Init, Stored

LEMMA StoredNext == Stored /\ [Next]_vars => Stored'
  <1> SUFFICES ASSUME Stored, [Next]_vars
               PROVE  Stored'
    OBVIOUS
  <1>1. CASE Keep
    <2>1. PICK c \in Candidates : /\ \A r \in resident : r.key.entity # c.key.entity
                                  /\ resident' = resident \cup {c}
      BY <1>1 DEF Keep
    <2>2. IsFiniteSet(resident')
      BY <2>1, FS_AddElement DEF Stored
    <2> QED
      BY <2>1, <2>2 DEF Stored
  <1>2. CASE Evict
    <2>1. resident' \subseteq resident
      BY <1>2 DEF Evict
    <2>2. IsFiniteSet(resident')
      BY <2>1, FS_Subset DEF Stored
    <2> QED
      BY <2>1, <2>2 DEF Stored
  <1>3. CASE UNCHANGED resident
    BY <1>3 DEF Stored
  <1> QED
    BY <1>1, <1>2, <1>3 DEF Next, FirstPage, Continue, ContinueElsewhere, ContinueLeased,
         ContinueAltered, Ask, vars

LEMMA CandidatesAre ==
    ASSUME NEW r \in Candidates
    PROVE  r.key \in ResidencyKeys /\ IsView(r.view) /\ r.key # None /\ r.view.size \in Nat
  <1>1. r.key \in ResidencyKeys /\ IsView(r.view)
    BY PagesAssumption
  <1> QED
    BY <1>1, CursorsAssumption DEF IsView

(* What a page walks over: everything behind its anchor, in order.           *)
LEMMA AheadLaws ==
    ASSUME Stored, NEW kind, NEW after
    PROVE  /\ Ahead(kind, after) \in Seq(Behind(kind, after))
           /\ Behind(kind, after) \subseteq Candidates /\ IsFiniteSet(Behind(kind, after))
           /\ \A r \in Behind(kind, after) :
                \E i \in 1..Len(Ahead(kind, after)) : Ahead(kind, after)[i] = r
           /\ \A i, j \in 1..Len(Ahead(kind, after)) :
                i < j => KeyBefore(Ahead(kind, after)[i].key, Ahead(kind, after)[j].key)
  <1> DEFINE S == Behind(kind, after)
  <1>1. S \subseteq resident
    BY DEF Behind, OfKind
  <1>2. S \subseteq Candidates /\ IsFiniteSet(S)
    BY <1>1, FS_Subset DEF Stored
  <1>3. \A r \in S : r.key \in ResidencyKeys
    BY <1>2, CandidatesAre
  <1>4. \A r, s \in S : r.key = s.key => r = s
    BY <1>1 DEF Stored
  <1>5. Ahead(kind, after) = InResidencyOrder(S)
    BY DEF Ahead
  <1> HIDE DEF S
  <1>6. /\ InResidencyOrder(S) \in Seq(S)
        /\ \A r \in S : \E i \in 1..Len(InResidencyOrder(S)) : InResidencyOrder(S)[i] = r
        /\ \A i, j \in 1..Len(InResidencyOrder(S)) :
             i < j => KeyBefore(InResidencyOrder(S)[i].key, InResidencyOrder(S)[j].key)
    BY <1>2, <1>3, <1>4, OrderLaws
  <1> QED
    BY <1>2, <1>5, <1>6 DEF S

-----------------------------------------------------------------------------
(* What a query asks for, and what a record costs.                           *)

(* The filters select what the query asks for.                               *)
LEMMA BelongsMatches ==
    ASSUME NEW q, WellFormed(q), NEW v, IsView(v), v.kind = q.kind
    PROVE  Belongs(q, v) <=> Matches(q, v)
  <1> DEFINE owner == IF v.kind = "MetricPoints" THEN v.stream ELSE v.record
  <1>1. ResourceOf(v) = owner.resource /\ ScopeOf(v) = owner.scope
    BY DEF ResourceOf, ScopeOf
  <1>2. None \notin Nat
    BY CursorsAssumption
  <1>3. q.service # None =>
          ((\E k \in DOMAIN owner.resource :
              /\ k = "service.name"
              /\ owner.resource[k] = [kind |-> "String", text |-> q.service])
             <=> ServiceMatches(q.service, v))
    <2> DEFINE res == owner.resource
    <2>1. \A k \in DOMAIN res : res[k].kind = "String" => res[k] = [kind |-> "String", text |-> res[k].text]
      BY <1>1 DEF IsView
    <2>2. ServiceMatches(q.service, v) <=>
            /\ "service.name" \in DOMAIN res /\ res["service.name"].kind = "String"
            /\ res["service.name"].text = q.service
      BY <1>1 DEF ServiceMatches
    <2> HIDE DEF res
    <2>3. ASSUME "service.name" \in DOMAIN res
          PROVE  res["service.name"] = [kind |-> "String", text |-> q.service]
                   <=> res["service.name"].kind = "String" /\ res["service.name"].text = q.service
      BY <2>1, <2>3
    <2> QED
      BY <2>2, <2>3 DEF res
  <1>4. q.range # None =>
          (Times(v) \cap (q.range.from .. q.range.to - 1) # {} <=> TimeRangeMatches(q.range, v))
    <2> SUFFICES ASSUME q.range # None
                 PROVE  Times(v) \cap (q.range.from .. q.range.to - 1) # {} <=> TimeRangeMatches(q.range, v)
      OBVIOUS
    <2>1. q.range.from \in Nat /\ q.range.to \in Nat
      BY DEF WellFormed, Words
    <2> DEFINE I == q.range.from .. q.range.to - 1
               t == TimeKeyOf(v)
    <2>2. t \in Nat \cup {None} /\ Times(v) \ {None} = {t} \ {None}
      BY DEF IsView, TimeKeyOf, Times, LogTimeKey, SignalKinds
    <2>3. I \subseteq Nat /\ \A x \in Nat : x \in I <=> q.range.from <= x /\ x < q.range.to
      BY <2>1
    <2>4. TimeRangeMatches(q.range, v) <=> t # None /\ q.range.from <= t /\ t < q.range.to
      BY DEF TimeRangeMatches
    <2> HIDE DEF I, t
    <2>5. Times(v) \cap I # {} <=> t # None /\ t \in I
      BY <1>2, <2>2, <2>3
    <2> QED
      BY <2>2, <2>3, <2>4, <2>5 DEF I
  <1>5. q.severity # None =>
          (v.record.severity \in q.severity .. 24 <=> SeverityMatches(q.severity, v))
    <2> SUFFICES ASSUME q.severity # None
                 PROVE  v.record.severity \in q.severity .. 24 <=> SeverityMatches(q.severity, v)
      OBVIOUS
    <2>1. v.kind = "LogRecords" /\ q.severity \in 1..24 /\ v.record.severity \in (1..24) \cup {None}
      BY DEF WellFormed, IsView
    <2> QED
      BY <1>2, <2>1 DEF SeverityMatches
  <1>6. q.scope # None => (owner.scope = q.scope <=> ScopeMatches(q.scope, v))
    <2>1. owner.scope = [name |-> owner.scope.name, version |-> owner.scope.version]
      BY <1>1 DEF IsView
    <2>2. q.scope # None => q.scope = [name |-> q.scope.name, version |-> q.scope.version]
      BY DEF WellFormed
    <2>3. ScopeMatches(q.scope, v) <=>
            owner.scope.name = q.scope.name /\ owner.scope.version = q.scope.version
      BY <1>1 DEF ScopeMatches
    <2> QED
      BY <2>1, <2>2, <2>3
  <1> QED
    BY <1>3, <1>4, <1>5, <1>6 DEF Belongs, Matches

Size(s) == SumFunction([i \in DOMAIN s |-> s[i].view.size])

LEMMA SizeLaws ==
    ASSUME NEW s \in Seq(Candidates), NEW r \in Candidates
    PROVE  /\ Size(<<>>) = 0 /\ Size(s) \in Nat
           /\ Size(Append(s, r)) = Size(s) + r.view.size
  <1> DEFINE n == Len(s)
             t == Append(s, r)
             g == [i \in DOMAIN s |-> s[i].view.size]
             k == [i \in DOMAIN t |-> t[i].view.size]
  <1>1. /\ n \in Nat /\ DOMAIN s = 1..n /\ t \in Seq(Candidates) /\ DOMAIN t = 1..(n + 1)
        /\ t[n + 1] = r /\ \A i \in 1..n : t[i] = s[i]
    OBVIOUS
  <1>2. \A i \in 1..(n + 1) : t[i].view.size \in Nat
    <2> TAKE i \in 1..(n + 1)
    <2>1. t[i] \in Candidates
      BY <1>1
    <2> HIDE DEF t
    <2> QED
      BY <2>1, CandidatesAre
  <1> HIDE DEF t, n
  <1>3. /\ DOMAIN g = 1..n /\ DOMAIN k = 1..(n + 1) /\ k[n + 1] = r.view.size
        /\ \A i \in 1..n : k[i] = g[i]
        /\ \A i \in 1..(n + 1) : k[i] \in Nat
    BY <1>1, <1>2
  <1> HIDE DEF g, k
  <1>4. SumFunctionOnSet(k, 1..(n + 1)) = SumFunctionOnSet(g, 1..n) + k[n + 1]
    BY <1>1, <1>3, TotalAppend
  <1>5. SumFunctionOnSet(g, 1..n) \in Nat
    <2>1. IsFiniteSet(1..n)
      BY <1>1, FS_Interval
    <2>2. \A i \in 1..n : g[i] \in Nat
      BY <1>1, <1>3
    <2> QED
      BY <2>1, <2>2, TotalNat
  <1>6. SumFunctionOnSet([i \in DOMAIN <<>> |-> <<>>[i].view.size], {}) = 0
    BY TotalUnfolds, FS_EmptySet
  <1>7. Size(<<>>) = 0
    <2>1. DOMAIN [i \in DOMAIN <<>> |-> <<>>[i].view.size] = {}
      OBVIOUS
    <2> QED
      BY <1>6, <2>1 DEF Size, SumFunction
  <1> QED
    BY <1>3, <1>4, <1>5, <1>7 DEF Size, SumFunction, g, k, t

-----------------------------------------------------------------------------
(* The ledger of a page (ExecutionBudget).                                   *)

Sessions(b) == [budget : {b}, now : Nat, left : [Ceilings -> Nat]]

LEMMA BudgetsAre ==
    ASSUME NEW b \in PageBudgets
    PROVE  /\ \A d \in Ceilings \cup {"deadline"} : b[d] \in Nat
           /\ b.results \in Nat /\ b.bytes \in Nat /\ b.scan \in Nat /\ b.deadline \in Nat
           /\ AdmitBudget(b) \in Sessions(b)
           /\ \A d \in Ceilings : AdmitBudget(b).left[d] = b[d]
  <1>1. \A d \in Ceilings \cup {"deadline"} : b[d] \in Nat
    BY PagesAssumption
  <1>2. b.results \in Nat /\ b.bytes \in Nat /\ b.scan \in Nat /\ b.deadline \in Nat
    BY <1>1 DEF Ceilings
  <1>3. AdmitBudget(b) = [budget |-> b, now |-> 0, left |-> [d \in Ceilings |-> b[d]]]
    BY DEF AdmitBudget
  <1>4. [d \in Ceilings |-> b[d]] \in [Ceilings -> Nat]
    BY <1>1
  <1>5. AdmitBudget(b) \in Sessions(b)
    BY <1>3, <1>4 DEF Sessions
  <1> QED
    BY <1>1, <1>2, <1>3, <1>5

(* A charge is granted whole, or its refusal is of a ceiling that is spent   *)
(* or of a deadline that has passed.                                         *)
LEMMA AllowLaws ==
    ASSUME NEW b \in PageBudgets, NEW s \in Sessions(b), NEW d \in Ceilings, NEW want \in Nat
    PROVE  LET a == Allow(s, d, want)
           IN  /\ a.session \in Sessions(b)
               /\ \A e \in Ceilings : e # d => a.session.left[e] = s.left[e]
               /\ a.refusal = None => want <= s.left[d] /\ a.session.left[d] = s.left[d] - want
               /\ a.refusal # None =>
                    /\ a.refusal \in Refusals /\ a.refusal.observed >= a.refusal.limit
                    /\ a.refusal.dimension = "deadline" => a.session.now >= b.deadline
                    /\ a.refusal.dimension # "deadline" => a.refusal.dimension = d /\ s.left[d] < want
                    /\ a.session.left[d] <= s.left[d]
  <1> DEFINE read == [s EXCEPT !.now = @ + 1]
             a == Allow(s, d, want)
  <1>1. /\ s.budget = b /\ s.now \in Nat /\ s.left \in [Ceilings -> Nat]
        /\ s = [budget |-> b, now |-> s.now, left |-> s.left]
    BY DEF Sessions
  <1>2. read = [budget |-> b, now |-> s.now + 1, left |-> s.left] /\ read \in Sessions(b)
    BY <1>1 DEF Sessions
  <1>3. b.deadline \in Nat /\ b[d] \in Nat /\ s.left[d] \in Nat
    BY <1>1, BudgetsAre
  <1>4. \A limit, observed \in Nat : \A e \in Ceilings \cup {"deadline"} :
          /\ Refusal(e, limit, observed) \in Refusals /\ Refusal(e, limit, observed) # None
          /\ Refusal(e, limit, observed).dimension = e
          /\ Refusal(e, limit, observed).limit = limit /\ Refusal(e, limit, observed).observed = observed
    BY PagesAssumption DEF Refusal, Refusals
  <1>a. read.budget = b /\ read.now = s.now + 1 /\ read.left = s.left
    BY <1>2
  <1> HIDE DEF read
  <1>5. DeadlineRemaining(read) = 0 <=> s.now + 1 >= b.deadline
    BY <1>1, <1>2, <1>3 DEF DeadlineRemaining
  <1>6. CASE s.now + 1 >= b.deadline
    <2>1. a = [session |-> read, granted |-> 0, refusal |-> Refusal("deadline", b.deadline, s.now + 1)]
      BY <1>5, <1>6, <1>a DEF Allow, Allowance, DeadlineRefusal, read
    <2>2. /\ Refusal("deadline", b.deadline, s.now + 1) \in Refusals
          /\ Refusal("deadline", b.deadline, s.now + 1) # None
          /\ Refusal("deadline", b.deadline, s.now + 1).dimension = "deadline"
          /\ Refusal("deadline", b.deadline, s.now + 1).limit = b.deadline
          /\ Refusal("deadline", b.deadline, s.now + 1).observed = s.now + 1
      <3>1. s.now + 1 \in Nat
        BY <1>1
      <3> QED
        BY <1>3, <1>4, <3>1
    <2> HIDE DEF a
    <2> QED
      BY <1>2, <1>3, <1>6, <2>1, <2>2 DEF a
  <1>7. CASE ~(s.now + 1 >= b.deadline) /\ want <= s.left[d]
    <2> DEFINE left == [s.left EXCEPT ![d] = s.left[d] - want]
    <2>1. a = [session |-> [read EXCEPT !.left[d] = s.left[d] - want], granted |-> want, refusal |-> None]
      BY <1>5, <1>7, <1>a DEF Allow, Allowance, Degrade, read
    <2>2. [read EXCEPT !.left[d] = s.left[d] - want] = [budget |-> b, now |-> s.now + 1, left |-> left]
      BY <1>2
    <2>3. left \in [Ceilings -> Nat] /\ left[d] = s.left[d] - want /\ \A e \in Ceilings : e # d => left[e] = s.left[e]
      BY <1>1, <1>3, <1>7
    <2> HIDE DEF left, a
    <2> QED
      BY <1>1, <1>7, <2>1, <2>2, <2>3 DEF Sessions, a
  <1>8. CASE ~(s.now + 1 >= b.deadline) /\ ~(want <= s.left[d])
    <2> DEFINE left == [s.left EXCEPT ![d] = 0]
               refused == Refusal(d, b[d], b[d])
    <2>1. a = [session |-> [read EXCEPT !.left[d] = 0], granted |-> s.left[d], refusal |-> refused]
      BY <1>5, <1>8, <1>a DEF Allow, Allowance, Degrade, read
    <2>2. [read EXCEPT !.left[d] = 0] = [budget |-> b, now |-> s.now + 1, left |-> left]
      BY <1>2
    <2>3. left \in [Ceilings -> Nat] /\ left[d] = 0 /\ \A e \in Ceilings : e # d => left[e] = s.left[e]
      BY <1>1
    <2>4. /\ refused \in Refusals /\ refused # None /\ refused.dimension = d
          /\ refused.limit = b[d] /\ refused.observed = b[d]
      BY <1>3, <1>4
    <2>5. d # "deadline"
      BY DEF Ceilings
    <2> HIDE DEF left, a, refused
    <2> QED
      BY <1>1, <1>3, <1>8, <2>1, <2>2, <2>3, <2>4, <2>5 DEF Sessions, a
  <1> QED
    BY <1>6, <1>7, <1>8

LEMMA SettleLaws ==
    ASSUME NEW b \in PageBudgets, NEW s \in Sessions(b), NEW n \in Nat
    PROVE  /\ SettleScan(s, n) \in Sessions(b) /\ SettleScan(s, n).now = s.now
           /\ SettleScan(s, n).left["scan"] <= s.left["scan"]
  <1> DEFINE owed == IF n < s.left["scan"] THEN n ELSE s.left["scan"]
             left == [s.left EXCEPT !["scan"] = s.left["scan"] - owed]
  <1>1. /\ s = [budget |-> b, now |-> s.now, left |-> s.left] /\ s.now \in Nat
        /\ s.left \in [Ceilings -> Nat] /\ "scan" \in Ceilings
    BY DEF Sessions, Ceilings
  <1>2. owed \in Nat /\ owed <= s.left["scan"] /\ s.left["scan"] \in Nat
    BY <1>1
  <1>3. SettleScan(s, n) = [budget |-> b, now |-> s.now, left |-> left]
    BY <1>1 DEF SettleScan
  <1> HIDE DEF owed
  <1>4. left \in [Ceilings -> Nat] /\ left["scan"] = s.left["scan"] - owed
    BY <1>1, <1>2
  <1> QED
    BY <1>1, <1>2, <1>3, <1>4 DEF Sessions

-----------------------------------------------------------------------------
(* Where a page stands in its scan: D is what is due of the line L.          *)

InLine(L, D) ==
    /\ L \in Seq(Candidates) /\ IsFiniteSet(D)
    /\ \A i, j \in 1..Len(L) : i < j => KeyBefore(L[i].key, L[j].key)
    /\ \A r \in D : \E k \in 1..Len(L) : L[k] = r

DueTo(L, D, i) == {r \in D : \E k \in 1..i : L[k] = r}

LEMMA LineLaws ==
    ASSUME NEW L, NEW D, InLine(L, D), NEW i \in 0..Len(L)
    PROVE  /\ DueTo(L, D, i) \subseteq D /\ D \subseteq Candidates /\ IsFiniteSet(DueTo(L, D, i))
           /\ \A r \in D \ DueTo(L, D, i) : \A k \in 1..i : KeyBefore(L[k].key, r.key)
           /\ \A r \in D \ DueTo(L, D, i), u \in DueTo(L, D, i) : KeyBefore(u.key, r.key)
           /\ i = 0 => DueTo(L, D, i) = {}
           /\ i = Len(L) => DueTo(L, D, i) = D
           /\ i > 0 => \A r \in D : r \in DueTo(L, D, i) <=> ~KeyBefore(L[i].key, r.key)
  <1> DEFINE U == DueTo(L, D, i)
  <1>1. /\ Len(L) \in Nat /\ \A k \in 1..Len(L) : L[k] \in Candidates /\ L[k].key \in ResidencyKeys
    <2>1. Len(L) \in Nat /\ \A k \in 1..Len(L) : L[k] \in Candidates
      BY DEF InLine
    <2> QED
      BY <2>1, CandidatesAre
  <1>2. \A r \in D : \E k \in 1..Len(L) : L[k] = r
    BY DEF InLine
  <1>3. D \subseteq Candidates /\ U \subseteq D /\ IsFiniteSet(U)
    <2>1. IsFiniteSet(D) /\ U \subseteq D
      BY DEF InLine, DueTo
    <2>2. IsFiniteSet(U)
      BY <2>1, FS_Subset
    <2> QED
      BY <1>1, <1>2, <2>1, <2>2
  <1>4. \A r \in D \ U : \A k \in 1..i : KeyBefore(L[k].key, r.key)
    <2> TAKE r \in D \ U
    <2> TAKE k \in 1..i
    <2>1. PICK m \in 1..Len(L) : L[m] = r
      BY <1>2
    <2>2. ~(m \in 1..i)
      BY <2>1 DEF DueTo
    <2>3. k < m /\ k \in 1..Len(L)
      BY <1>1, <2>2
    <2> QED
      BY <2>1, <2>3 DEF InLine
  <1>5. \A r \in D \ U, u \in U : KeyBefore(u.key, r.key)
    BY <1>4 DEF DueTo
  <1>6. i = 0 => U = {}
    BY DEF DueTo
  <1>7. i = Len(L) => U = D
    BY <1>2 DEF DueTo
  <1>8. ASSUME i > 0, NEW r \in D
        PROVE  r \in U <=> ~KeyBefore(L[i].key, r.key)
    <2>1. i \in 1..i /\ i \in 1..Len(L)
      BY <1>1, <1>8
    <2>2. r \notin U => KeyBefore(L[i].key, r.key)
      BY <1>4, <2>1
    <2>3. ASSUME r \in U
          PROVE  ~KeyBefore(L[i].key, r.key)
      <3>1. PICK k \in 1..i : L[k] = r
        BY <2>3 DEF DueTo
      <3>2. k \in 1..Len(L) /\ (k = i \/ k < i)
        BY <1>1, <3>1
      <3>3. L[k].key = L[i].key \/ KeyBefore(L[k].key, L[i].key)
        BY <2>1, <3>2 DEF InLine
      <3>4. L[k].key \in ResidencyKeys /\ L[i].key \in ResidencyKeys
        BY <1>1, <2>1, <3>2
      <3> QED
        BY <3>1, <3>3, <3>4, KeyOrder
    <2> QED
      BY <2>2, <2>3
  <1> QED
    BY <1>3, <1>4, <1>5, <1>6, <1>7, <1>8

LEMMA LineStep ==
    ASSUME NEW L, NEW D, InLine(L, D), NEW i \in 1..Len(L)
    PROVE  /\ L[i] \notin D => DueTo(L, D, i) = DueTo(L, D, i - 1)
           /\ L[i] \in D => /\ DueTo(L, D, i) = DueTo(L, D, i - 1) \cup {L[i]}
                            /\ L[i] \notin DueTo(L, D, i - 1)
                            /\ \A u \in DueTo(L, D, i - 1) : KeyBefore(u.key, L[i].key)
           /\ L[i] \in Candidates
  <1>1. Len(L) \in Nat /\ L[i] \in Candidates
    BY DEF InLine
  <1>2. 1..i = (1 .. i - 1) \cup {i} /\ \A k \in 1 .. i - 1 : k \in 1..Len(L) /\ k < i
    BY <1>1
  <1>3. \A k \in 1 .. i - 1 : KeyBefore(L[k].key, L[i].key)
    BY <1>2 DEF InLine
  <1>4. \A u \in DueTo(L, D, i - 1) : KeyBefore(u.key, L[i].key)
    BY <1>3 DEF DueTo
  <1>5. L[i] \notin DueTo(L, D, i - 1)
    BY <1>1, <1>4, CandidatesAre, KeyOrder
  <1>6. L[i] \notin D => DueTo(L, D, i) = DueTo(L, D, i - 1)
    BY <1>2 DEF DueTo
  <1>7. L[i] \in D => DueTo(L, D, i) = DueTo(L, D, i - 1) \cup {L[i]}
    BY <1>2 DEF DueTo
  <1> QED
    BY <1>1, <1>4, <1>5, <1>6, <1>7

(* s shows the first of U, in order and once each.                           *)
Shown(s) == {s[i] : i \in DOMAIN s}
Picked(s, U) ==
    /\ s \in Seq(U)
    /\ \A i, j \in 1..Len(s) : i < j => KeyBefore(s[i].key, s[j].key)
    /\ \A r \in U : \A j \in 1..Len(s) : KeyBefore(r.key, s[j].key) => r \in Shown(s)

LEMMA PickedLaws ==
    ASSUME NEW U \in SUBSET Candidates, NEW s, Picked(s, U)
    PROVE  /\ s \in Seq(Candidates) /\ Shown(s) \subseteq U
           /\ Cardinality(Shown(s)) = Len(s) /\ IsFiniteSet(Shown(s))
  <1>1. s \in Seq(U) /\ s \in Seq(Candidates) /\ Len(s) \in Nat /\ DOMAIN s = 1..Len(s)
    BY DEF Picked
  <1>2. Shown(s) \subseteq U
    BY <1>1 DEF Shown
  <1> DEFINE f == [i \in 1..Len(s) |-> s[i]]
  <1>3. \A i, j \in 1..Len(s) : i # j => s[i] # s[j]
    <2> TAKE i, j \in 1..Len(s)
    <2>1. \A x \in 1..Len(s) : s[x] \in Candidates
      BY <1>1
    <2>2. \A x, y \in 1..Len(s) : x < y => s[x] # s[y]
      <3> TAKE x, y \in 1..Len(s)
      <3> HAVE x < y
      <3>1. KeyBefore(s[x].key, s[y].key) /\ s[x].key \in ResidencyKeys
        BY <2>1, CandidatesAre DEF Picked
      <3> QED
        BY <3>1, KeyOrder
    <2>3. i # j => i < j \/ j < i
      BY <1>1
    <2> QED
      BY <2>2, <2>3
  <1>4. f \in Bijection(1..Len(s), Shown(s))
    <2>1. f \in [1..Len(s) -> Shown(s)]
      BY <1>1 DEF Shown
    <2>2. \A t \in Shown(s) : \E i \in 1..Len(s) : f[i] = t
      BY <1>1 DEF Shown
    <2>3. \A i, j \in 1..Len(s) : f[i] = f[j] => i = j
      BY <1>3
    <2> HIDE DEF f
    <2> QED
      BY <2>1, <2>2, <2>3 DEF Bijection, Injection, Surjection, IsInjective
  <1>5. IsFiniteSet(1..Len(s)) /\ Cardinality(1..Len(s)) = Len(s)
    BY <1>1, FS_Interval
  <1>6. IsFiniteSet(Shown(s)) /\ Cardinality(Shown(s)) = Len(s)
    <2>1. PICK S : S = 1..Len(s)
      OBVIOUS
    <2>2. IsFiniteSet(S) /\ Cardinality(S) = Len(s) /\ f \in Bijection(S, Shown(s))
      BY <1>4, <1>5, <2>1
    <2> HIDE DEF f
    <2>3. ExistsBijection(S, Shown(s))
      BY <2>2 DEF ExistsBijection
    <2> QED
      BY <2>2, <2>3, FS_Bijection
  <1> QED
    BY <1>1, <1>2, <1>6

LEMMA PickedMore ==
    ASSUME NEW V \in SUBSET Candidates, NEW U \in SUBSET V, NEW s, Picked(s, U),
           \A v \in V \ U, u \in U : KeyBefore(u.key, v.key)
    PROVE  Picked(s, V)
  <1>1. s \in Seq(U) /\ s \in Seq(V) /\ Len(s) \in Nat /\ \A j \in 1..Len(s) : s[j] \in U
    BY DEF Picked
  <1>2. ASSUME NEW r \in V, NEW j \in 1..Len(s), KeyBefore(r.key, s[j].key)
        PROVE  r \in Shown(s)
    <2>1. r \in U
      <3>1. SUFFICES ASSUME r \in V \ U
                     PROVE  FALSE
        OBVIOUS
      <3>2. KeyBefore(s[j].key, r.key)
        BY <1>1, <3>1
      <3>3. s[j].key \in ResidencyKeys /\ r.key \in ResidencyKeys
        BY <1>1, CandidatesAre
      <3> QED
        BY <1>2, <3>2, <3>3, KeyOrder
    <2> QED
      BY <1>2, <2>1 DEF Picked
  <1> QED
    BY <1>1, <1>2 DEF Picked

LEMMA PickedNone ==
    ASSUME NEW U
    PROVE  Picked(<<>>, U) /\ Shown(<<>>) = {}
  BY DEF Picked, Shown

LEMMA PickedAppend ==
    ASSUME NEW U \in SUBSET Candidates, NEW s, Picked(s, U), Shown(s) = U,
           NEW r \in Candidates, \A u \in U : KeyBefore(u.key, r.key)
    PROVE  Picked(Append(s, r), U \cup {r}) /\ Shown(Append(s, r)) = U \cup {r}
  <1> DEFINE t == Append(s, r)
             n == Len(s)
  <1>1. s \in Seq(U) /\ n \in Nat /\ DOMAIN s = 1..n /\ \A j \in 1..n : s[j] \in U
    BY DEF Picked
  <1>2. /\ t \in Seq(U \cup {r}) /\ Len(t) = n + 1 /\ DOMAIN t = 1..(n + 1)
        /\ t[n + 1] = r /\ \A i \in 1..n : t[i] = s[i]
    <2>1. s \in Seq(U \cup {r})
      BY <1>1
    <2> QED
      BY <2>1
  <1>3. 1..(n + 1) = (1..n) \cup {n + 1}
    BY <1>1
  <1> HIDE DEF t, n
  <1>4. Shown(t) = U \cup {r}
    <2>1. Shown(s) = {s[i] : i \in 1..n} /\ Shown(t) = {t[i] : i \in 1..(n + 1)}
      BY <1>1, <1>2 DEF Shown
    <2> QED
      BY <1>2, <1>3, <2>1
  <1>5. ASSUME NEW i \in 1..(n + 1), NEW j \in 1..(n + 1), i < j
        PROVE  KeyBefore(t[i].key, t[j].key)
    <2>1. i \in 1..n /\ t[i] = s[i] /\ t[i] \in U
      BY <1>1, <1>2, <1>5
    <2>2. CASE j = n + 1
      BY <1>2, <2>1, <2>2
    <2>3. CASE j \in 1..n
      <3>1. i \in 1..Len(s) /\ j \in 1..Len(s) /\ t[j] = s[j]
        BY <1>2, <2>1, <2>3 DEF n
      <3> QED
        BY <1>5, <2>1, <3>1 DEF Picked
    <2> QED
      BY <1>3, <2>2, <2>3
  <1> QED
    BY <1>2, <1>4, <1>5 DEF Picked, t

(* a is the key of the last of U.                                            *)
Tops(a, U) == \E x \in U : a = x.key /\ \A u \in U : ~KeyBefore(a, u.key)

LEMMA TopsLaws ==
    ASSUME NEW V \in SUBSET Candidates, NEW U \in SUBSET V, NEW a, Tops(a, U),
           \A v \in V \ U, u \in U : KeyBefore(u.key, v.key)
    PROVE  a \in ResidencyKeys /\ \A v \in V : v \in U <=> ~KeyBefore(a, v.key)
  <1>1. PICK x \in U : a = x.key /\ \A u \in U : ~KeyBefore(a, u.key)
    BY DEF Tops
  <1>2. a \in ResidencyKeys
    BY <1>1, CandidatesAre
  <1> QED
    BY <1>1, <1>2

LEMMA TopsNew ==
    ASSUME NEW U \in SUBSET Candidates, NEW r \in Candidates, \A u \in U : KeyBefore(u.key, r.key)
    PROVE  Tops(r.key, U \cup {r})
  <1>1. \A u \in U \cup {r} : u.key \in ResidencyKeys
    BY CandidatesAre
  <1>2. \A u \in U \cup {r} : ~KeyBefore(r.key, u.key)
    BY <1>1, KeyOrder
  <1> QED
    BY <1>2 DEF Tops

-----------------------------------------------------------------------------
(* The walk of one page.                                                     *)

Line(q, p) == Ahead(q.kind, Resume(p))
DueOf(q, p) == {r \in Window([query |-> q, presented |-> p]) : Belongs(q, r.view)}

LEMMA ResumeIs ==
    ASSUME NEW p \in Payloads
    PROVE  Resume(p) = AdmissionKey(p.position, p.last_entity) /\ Resume(p) \in ResidencyKeys
           /\ Resume(p) # None /\ p # None /\ p.snapshot \in ResidencyKeys
  <1>1. p # None
    BY CursorsAssumption
  <1>2. Resume(p) = AdmissionKey(p.position, p.last_entity)
    BY <1>1 DEF Resume
  <1>3. Resume(p) \in ResidencyKeys /\ p.snapshot \in ResidencyKeys
    BY <1>2 DEF AdmissionKey, ResidencyKeys, Payloads
  <1> QED
    BY <1>1, <1>2, <1>3, CursorsAssumption

LEMMA LineIs ==
    ASSUME Stored, NEW q \in Queries, NEW p \in Payloads \cup {None}
    PROVE  /\ InLine(Line(q, p), DueOf(q, p))
           /\ \A k \in 1..Len(Line(q, p)) :
                Line(q, p)[k] \in DueOf(q, p)
                  <=> /\ p # None => ~KeyBefore(p.snapshot, Line(q, p)[k].key)
                      /\ Matches(q, Line(q, p)[k].view)
           /\ p # None => \A r \in DueOf(q, p) :
                /\ KeyBefore(Resume(p), r.key) /\ ~KeyBefore(p.snapshot, r.key)
  <1> DEFINE L == Line(q, p)
             D == DueOf(q, p)
             S == Behind(q.kind, Resume(p))
  <1>1. /\ L \in Seq(S) /\ S \subseteq Candidates /\ IsFiniteSet(S)
        /\ \A r \in S : \E k \in 1..Len(L) : L[k] = r
        /\ \A i, j \in 1..Len(L) : i < j => KeyBefore(L[i].key, L[j].key)
    BY AheadLaws DEF Line
  <1>2. Resume(p) = None <=> p = None
    BY ResumeIs DEF Resume
  <1>3. \A r : r \in S <=> r \in OfKind(q.kind) /\ (p # None => KeyBefore(Resume(p), r.key))
    BY <1>2 DEF Behind
  <1>4. \A r : r \in D <=> /\ r \in OfKind(q.kind) /\ Belongs(q, r.view)
                           /\ p # None => /\ KeyBefore(Resume(p), r.key)
                                          /\ ~KeyBefore(p.snapshot, r.key)
    BY DEF DueOf, Window
  <1>5. WellFormed(q)
    BY PagesAssumption
  <1>6. \A r \in S : Belongs(q, r.view) <=> Matches(q, r.view)
    <2> TAKE r \in S
    <2>1. r \in Candidates /\ r.view.kind = q.kind
      BY <1>1 DEF Behind, OfKind
    <2>2. IsView(r.view)
      BY <2>1, CandidatesAre
    <2> QED
      BY <1>5, <2>1, <2>2, BelongsMatches
  <1> HIDE DEF L, D, S
  <1>7. D \subseteq S
    BY <1>3, <1>4
  <1>8. IsFiniteSet(D)
    BY <1>1, <1>7, FS_Subset
  <1>9. L \in Seq(Candidates) /\ \A k \in 1..Len(L) : L[k] \in S
    BY <1>1
  <1>10. InLine(L, D)
    BY <1>1, <1>7, <1>8, <1>9 DEF InLine
  <1>11. \A r \in S : r \in D <=> /\ p # None => ~KeyBefore(p.snapshot, r.key)
                                  /\ Matches(q, r.view)
    BY <1>3, <1>4, <1>6
  <1>12. \A k \in 1..Len(L) : L[k] \in D <=> /\ p # None => ~KeyBefore(p.snapshot, L[k].key)
                                             /\ Matches(q, L[k].view)
    BY <1>9, <1>11
  <1> QED
    BY <1>4, <1>10, <1>12 DEF L, D

LEMMA BatchEndIs ==
    ASSUME NEW L, Len(L) \in Nat, NEW i \in 1..Len(L)
    PROVE  BatchEnd(L, i) \in i..Len(L)
  <1> DEFINE n == i - 1
             b == ScanBatch
             d == n \div b
             m == n % b
  <1>1. b \in Nat /\ b > 0 /\ n \in Nat
    BY PagesAssumption
  <1>2. d \in Int /\ m \in Int /\ m < b /\ n = b * d + m
    BY <1>1
  <1>3. BatchEnd(L, i) = IF (d + 1) * b < Len(L) THEN (d + 1) * b ELSE Len(L)
    BY DEF BatchEnd
  <1> HIDE DEF d, m, b
  <1>4. (d + 1) * b = b * d + b /\ b * d \in Int
    BY <1>1, <1>2
  <1> QED
    BY <1>1, <1>2, <1>3, <1>4

Begin(q, b, p) ==
    [query |-> q, fingerprint |-> FingerprintOf[CanonicalBytes(q)], presented |-> p,
     session |-> AdmitBudget(b), items |-> <<>>, included |-> None, examined |-> None,
     scanned |-> 0, counting |-> None, stopped |-> None]
Whole == Part("Complete", None, None, 0, None)

(* The page is the walk's last state, closed.                                *)
LEMMA WalkIs ==
    ASSUME NEW q, NEW b, NEW p, Len(Line(q, p)) \in Nat
    PROVE  LET L == Line(q, p)
           IN  \E w :
                 /\ w[0] = Begin(q, b, p)
                 /\ \A i \in 1..Len(L) : w[i] = Examine(w[i - 1], L, i)
                 /\ WalkRecords(q, b, p) =
                      IF b.results = 0 THEN [Begin(q, b, p) EXCEPT !.stopped = Whole]
                      ELSE [w[Len(L)] EXCEPT !.stopped =
                              IF L = <<>> THEN Whole
                              ELSE IF w[Len(L)].stopped # None THEN w[Len(L)].stopped
                              ELSE FinishCounting(w[Len(L)], L[Len(L)].key)]
  <1> DEFINE L == Line(q, p)
             N == Len(L)
             start == Begin(q, b, p)
             Body(f, n) == [i \in 0..n |-> IF i = 0 THEN start ELSE Examine(f[i - 1], L, i)]
             h == CHOOSE f : f = Body(f, N)
             stop == IF b.results = 0 \/ L = <<>> THEN Whole
                     ELSE IF h[N].stopped # None THEN h[N].stopped
                     ELSE FinishCounting(h[N], L[N].key)
             P == {n \in 0..N : \E f : f = Body(f, n)}
  <1>1. N \in Nat
    OBVIOUS
  <1> HIDE DEF L, N, start
  <1>2. 0 \in P
    <2> DEFINE z == [i \in 0..0 |-> start]
    <2>1. z = Body(z, 0)
      OBVIOUS
    <2> HIDE DEF z
    <2>2. \E f : f = Body(f, 0)
      BY <2>1
    <2> QED
      BY <1>1, <2>2
  <1>3. ASSUME NEW n \in 1..N, n - 1 \in P
        PROVE  n \in P
    <2>1. PICK f : f = Body(f, n - 1)
      BY <1>3
    <2> DEFINE g == [i \in 0..n |-> IF i < n THEN f[i] ELSE Examine(f[n - 1], L, n)]
    <2>2. \A i \in 0..n : g[i] = IF i = 0 THEN start ELSE Examine(g[i - 1], L, i)
      <3> TAKE i \in 0..n
      <3>1. CASE i = 0
        <4>1. 0 \in 0..n /\ 0 < n /\ 0 \in 0..(n - 1)
          BY <1>1
        <4>2. f[0] = start
          BY <2>1, <4>1
        <4> QED
          BY <3>1, <4>1, <4>2
      <3>2. CASE i # 0 /\ i < n
        <4>1. i \in 0..(n - 1) /\ i - 1 \in 0..n /\ i - 1 < n
          BY <1>1, <3>2
        <4>2. f[i] = Examine(f[i - 1], L, i)
          BY <2>1, <3>2, <4>1
        <4>3. g[i] = f[i] /\ g[i - 1] = f[i - 1]
          BY <3>2, <4>1
        <4> QED
          BY <3>2, <4>2, <4>3
      <3>3. CASE i = n
        <4>1. n # 0 /\ n - 1 \in 0..n /\ n - 1 < n /\ ~(n < n) /\ n \in 0..n
          BY <1>1
        <4>2. g[n] = Examine(f[n - 1], L, n) /\ g[n - 1] = f[n - 1]
          BY <4>1
        <4> QED
          BY <3>3, <4>1, <4>2
      <3> QED
        BY <1>1, <3>1, <3>2, <3>3
    <2>3. g = [i \in 0..n |-> g[i]]
      OBVIOUS
    <2> HIDE DEF g
    <2>4. g = Body(g, n)
      BY <2>2, <2>3
    <2>5. n \in 0..N
      BY <1>1
    <2> QED
      BY <2>4, <2>5
  <1>4. N \in P
    <2>1. \A i \in 0..N : i \in P
      <3> HIDE DEF P
      <3> QED
        BY <1>1, <1>2, <1>3, Climbs
    <2> QED
      BY <1>1, <2>1
  <1>5. h = Body(h, N)
    BY <1>4
  <1>6. WalkRecords(q, b, p) =
          IF b.results = 0 THEN [start EXCEPT !.stopped = stop] ELSE [h[N] EXCEPT !.stopped = stop]
    BY DEF WalkRecords, L, N, start, Begin, Whole, Line
  <1> HIDE DEF h
  <1>7. h[0] = start /\ \A i \in 1..N : h[i] = Examine(h[i - 1], L, i)
    <2>1. 0 \in 0..N /\ \A i \in 1..N : i \in 0..N /\ i # 0
      BY <1>1
    <2> QED
      BY <1>5, <2>1
  <1>8. WalkRecords(q, b, p) =
          IF b.results = 0 THEN [start EXCEPT !.stopped = Whole]
          ELSE [h[N] EXCEPT !.stopped =
                  IF L = <<>> THEN Whole
                  ELSE IF h[N].stopped # None THEN h[N].stopped
                  ELSE FinishCounting(h[N], L[N].key)]
    <2>1. CASE b.results = 0
      <3>1. stop = Whole
        BY <2>1
      <3> HIDE DEF stop
      <3> QED
        BY <1>6, <2>1, <3>1
    <2>2. CASE b.results # 0
      <3>1. stop = IF L = <<>> THEN Whole
                   ELSE IF h[N].stopped # None THEN h[N].stopped
                   ELSE FinishCounting(h[N], L[N].key)
        BY <2>2
      <3> HIDE DEF stop
      <3>2. WalkRecords(q, b, p) = [h[N] EXCEPT !.stopped = stop]
        BY <1>6, <2>2
      <3> QED
        BY <2>2, <3>1, <3>2
    <2> QED
      BY <2>1, <2>2
  <1> QED
    BY <1>7, <1>8 DEF L, N, start

(* The shape of a walk.                                                      *)
Sheet(q, p, session, items, included, examined, scanned, counting, stopped) ==
    [query |-> q, fingerprint |-> FingerprintOf[CanonicalBytes(q)], presented |-> p,
     session |-> session, items |-> items, included |-> included, examined |-> examined,
     scanned |-> scanned, counting |-> counting, stopped |-> stopped]
Shape(w, q, b, p) ==
    /\ w = Sheet(q, p, w.session, w.items, w.included, w.examined, w.scanned, w.counting, w.stopped)
    /\ w.session \in Sessions(b)

(* One field of it changed.                                                  *)
LEMMA SheetSession ==
    ASSUME NEW q, NEW p, NEW s, NEW t, NEW e, NEW g, NEW n, NEW c, NEW m, NEW u,
           NEW w, w = Sheet(q, p, s, t, e, g, n, c, m)
    PROVE  [w EXCEPT !.session = u] = Sheet(q, p, u, t, e, g, n, c, m)
  BY DEF Sheet

LEMMA SheetItems ==
    ASSUME NEW q, NEW p, NEW s, NEW t, NEW e, NEW g, NEW n, NEW c, NEW m, NEW u,
           NEW w, w = Sheet(q, p, s, t, e, g, n, c, m)
    PROVE  [w EXCEPT !.items = u] = Sheet(q, p, s, u, e, g, n, c, m)
  BY DEF Sheet

LEMMA SheetIncluded ==
    ASSUME NEW q, NEW p, NEW s, NEW t, NEW e, NEW g, NEW n, NEW c, NEW m, NEW u,
           NEW w, w = Sheet(q, p, s, t, e, g, n, c, m)
    PROVE  [w EXCEPT !.included = u] = Sheet(q, p, s, t, u, g, n, c, m)
  BY DEF Sheet

LEMMA SheetExamined ==
    ASSUME NEW q, NEW p, NEW s, NEW t, NEW e, NEW g, NEW n, NEW c, NEW m, NEW u,
           NEW w, w = Sheet(q, p, s, t, e, g, n, c, m)
    PROVE  [w EXCEPT !.examined = u] = Sheet(q, p, s, t, e, u, n, c, m)
  BY DEF Sheet

LEMMA SheetScanned ==
    ASSUME NEW q, NEW p, NEW s, NEW t, NEW e, NEW g, NEW n, NEW c, NEW m, NEW u,
           NEW w, w = Sheet(q, p, s, t, e, g, n, c, m)
    PROVE  [w EXCEPT !.scanned = u] = Sheet(q, p, s, t, e, g, u, c, m)
  BY DEF Sheet

LEMMA SheetCounting ==
    ASSUME NEW q, NEW p, NEW s, NEW t, NEW e, NEW g, NEW n, NEW c, NEW m, NEW u,
           NEW w, w = Sheet(q, p, s, t, e, g, n, c, m)
    PROVE  [w EXCEPT !.counting = u] = Sheet(q, p, s, t, e, g, n, u, m)
  BY DEF Sheet

LEMMA SheetStopped ==
    ASSUME NEW q, NEW p, NEW s, NEW t, NEW e, NEW g, NEW n, NEW c, NEW m, NEW u,
           NEW w, w = Sheet(q, p, s, t, e, g, n, c, m)
    PROVE  [w EXCEPT !.stopped = u] = Sheet(q, p, s, t, e, g, n, c, u)
  BY DEF Sheet

(* A cursor points where it was anchored.                                    *)
Points(cursor, q, p, a) ==
    \E c \in Payloads :
      /\ cursor = Encode(c) /\ c.fingerprint = FingerprintOf[CanonicalBytes(q)]
      /\ Resume(c) = a
      /\ p # None => c.snapshot = p.snapshot

LEMMA CursorIs ==
    ASSUME NEW q \in Queries, NEW b, NEW p \in Payloads \cup {None}, NEW w, Shape(w, q, b, p),
           NEW a \in ResidencyKeys, NEW tail \in ResidencyKeys
    PROVE  Points(CursorBytes(w, a, tail), q, p, a) /\ CursorBytes(w, a, tail) # None
  <1> DEFINE c == CursorPayload(a.at, a.entity, w.fingerprint,
                                IF w.presented # None THEN w.presented.snapshot ELSE tail)
  <1>1. w.fingerprint = FingerprintOf[CanonicalBytes(q)] /\ w.presented = p
    BY DEF Shape, Sheet
  <1>2. FingerprintOf[CanonicalBytes(q)] \in Ids(WordBytes)
    BY PagesAssumption
  <1>3. a.at \in Words /\ a.entity \in Entities /\ a = [at |-> a.at, entity |-> a.entity]
    BY DEF ResidencyKeys
  <1>4. (IF p # None THEN p.snapshot ELSE tail) \in ResidencyKeys
    BY ResumeIs
  <1>5. /\ c = [position |-> a.at, last_entity |-> a.entity,
                fingerprint |-> FingerprintOf[CanonicalBytes(q)],
                snapshot |-> IF p # None THEN p.snapshot ELSE tail]
    BY <1>1 DEF CursorPayload
  <1>6. c \in Payloads
    BY <1>2, <1>3, <1>4, <1>5 DEF Payloads
  <1>7. CursorBytes(w, a, tail) = Encode(c)
    BY DEF CursorBytes
  <1> HIDE DEF c
  <1>8. Resume(c) = a
    BY <1>3, <1>5, <1>6, ResumeIs DEF AdmissionKey
  <1>9. Encode(c) \in Seq(Byte)
    BY <1>6, EncodeBack
  <1> QED
    BY <1>5, <1>6, <1>7, <1>8, <1>9, CursorsAssumption DEF Points

Reach(a, D) == {r \in D : ~KeyBefore(a, r.key)}

(* A page that has examined i records and goes on.                           *)
Going(w, q, b, p, i) ==
    LET L == Line(q, p)
        U == DueTo(L, DueOf(q, p), i)
    IN  /\ Shape(w, q, b, p) /\ w.stopped = None
        /\ w.scanned = i /\ w.examined = (IF i = 0 THEN None ELSE L[i].key)
        /\ Picked(w.items, U)
        /\ Len(w.items) <= b.results /\ Size(w.items) <= b.bytes
        /\ w.session.left["scan"] = b.scan - i
        /\ w.counting = None =>
             /\ Shown(w.items) = U
             /\ IF w.included = None THEN U = {} ELSE Tops(w.included, U)
             /\ w.session.left["results"] = b.results - Len(w.items)
             /\ w.session.left["bytes"] = b.bytes - Size(w.items)
        /\ w.counting # None =>
             /\ w.counting = [omitted |-> w.counting.omitted, last |-> w.counting.last]
             /\ w.counting.omitted \in Nat /\ Tops(w.counting.last, U)
             /\ Cardinality(U) = Len(w.items) + w.counting.omitted
             /\ \E r \in U : Size(w.items) + r.view.size > b.bytes

(* A page that ended: what it shows, what its cursor reaches, what it spent. *)
Done(v, q, b, p) ==
    LET D == DueOf(q, p)
        part == v.stopped
    IN  /\ Shape(v, q, b, p) /\ part # None
        /\ Picked(v.items, D)
        /\ part.outcome = "Complete" => Shown(v.items) = D
        /\ part.cursor # None =>
             \E a \in ResidencyKeys :
               /\ Points(part.cursor, q, p, a)
               /\ Cardinality(Reach(a, D)) = Len(v.items) + part.omitted
        /\ Len(v.items) <= b.results /\ Size(v.items) <= b.bytes
        /\ v.scanned <= b.scan /\ v.session.left["scan"] \in 0 .. b.scan - v.scanned
        /\ part.outcome = "Complete" <=> part.dimension = None
        /\ part.dimension = "results" => Len(v.items) = b.results
        /\ part.dimension = "scan" => v.scanned = b.scan
        /\ part.dimension = "bytes" => \E r \in D : Size(v.items) + r.view.size > b.bytes
        /\ part.dimension = "deadline" => v.session.now >= b.deadline
        /\ part.outcome = "Refused" =>
             v.scanned = 0 /\ part.refusal.observed >= part.refusal.limit

(* v has w's items and a ledger that fits what it scanned.                   *)
Closes(v, w, q, b, p) ==
    /\ Shape(v, q, b, p) /\ v.items = w.items
    /\ v.scanned \in Nat /\ v.scanned <= b.scan
    /\ v.session.left["scan"] \in 0 .. b.scan - v.scanned

(* A ledger has not lost what was examined.                                  *)
Covers(s, w, b) == w.scanned \in Nat /\ w.scanned + s.left["scan"] <= b.scan

LEMMA StoppedIs ==
    ASSUME NEW q, NEW b \in PageBudgets, NEW p, NEW w, NEW s \in Sessions(b), NEW n \in Nat,
           NEW part, NEW v, v = Stopped(w, s, n, part), Shape(w, q, b, p), Covers(s, w, b)
    PROVE  /\ Closes(v, w, q, b, p) /\ v.scanned = w.scanned /\ v.stopped = part
           /\ v.session.now = s.now
  <1>1. v = Sheet(q, p, SettleScan(s, n), w.items, w.included, w.examined, w.scanned, w.counting, part)
    <2>1. PICK u : u = SettleScan(s, n)
      OBVIOUS
    <2>2. PICK x : x = [w EXCEPT !.session = u]
      OBVIOUS
    <2>3. v = [x EXCEPT !.stopped = part]
      BY <2>1, <2>2 DEF Stopped
    <2>4. x = Sheet(q, p, u, w.items, w.included, w.examined, w.scanned, w.counting, w.stopped)
      BY <2>2, SheetSession DEF Shape
    <2>5. v = Sheet(q, p, u, w.items, w.included, w.examined, w.scanned, w.counting, part)
      BY <2>3, <2>4, SheetStopped
    <2> QED
      BY <2>1, <2>5
  <1>8. /\ v.session = SettleScan(s, n) /\ v.items = w.items /\ v.scanned = w.scanned
        /\ v.stopped = part
        /\ v = Sheet(q, p, v.session, v.items, v.included, v.examined, v.scanned, v.counting, v.stopped)
    BY <1>1 DEF Sheet
  <1>2. /\ SettleScan(s, n) \in Sessions(b) /\ SettleScan(s, n).now = s.now
        /\ SettleScan(s, n).left["scan"] <= s.left["scan"]
    BY SettleLaws
  <1>3. \A t \in Sessions(b) : t.left["scan"] \in Nat
    BY DEF Sessions, Ceilings
  <1>4. b.scan \in Nat
    BY BudgetsAre
  <1>5. v.session.left["scan"] \in 0 .. b.scan - v.scanned
    BY <1>2, <1>3, <1>4, <1>8 DEF Covers
  <1>6. Shape(v, q, b, p)
    BY <1>2, <1>8 DEF Shape
  <1>7. v.scanned <= b.scan
    BY <1>3, <1>4, <1>8 DEF Covers
  <1> QED
    BY <1>2, <1>5, <1>6, <1>7, <1>8 DEF Closes, Covers

LEMMA NoneIs == None \notin Ceilings /\ None # "deadline"
  BY PagesAssumption

LEMMA PointsBytes ==
    ASSUME NEW cursor, NEW q, NEW p, NEW a, Points(cursor, q, p, a)
    PROVE  cursor \in Seq(Byte) /\ cursor # None
  <1>1. cursor \in Seq(Byte)
    BY EncodeBack DEF Points
  <1> QED
    BY <1>1, CursorsAssumption

(* What a page going on knows of what is due.                                *)
LEMMA GoingLaws ==
    ASSUME Stored, NEW q \in Queries, NEW b \in PageBudgets, NEW p \in Payloads \cup {None},
           NEW i \in 0..Len(Line(q, p)), NEW w, Going(w, q, b, p, i)
    PROVE  /\ DueOf(q, p) \subseteq Candidates /\ DueTo(Line(q, p), DueOf(q, p), i) \subseteq DueOf(q, p)
           /\ IsFiniteSet(DueTo(Line(q, p), DueOf(q, p), i))
           /\ Picked(w.items, DueOf(q, p))
           /\ w.items \in Seq(Candidates) /\ Cardinality(Shown(w.items)) = Len(w.items)
           /\ \A a : Tops(a, DueTo(Line(q, p), DueOf(q, p), i)) =>
                a \in ResidencyKeys /\ a # None
                /\ Reach(a, DueOf(q, p)) = DueTo(Line(q, p), DueOf(q, p), i)
           /\ i > 0 => /\ Line(q, p)[i].key \in ResidencyKeys
                       /\ Reach(Line(q, p)[i].key, DueOf(q, p)) = DueTo(Line(q, p), DueOf(q, p), i)
  <1> DEFINE L == Line(q, p)
             D == DueOf(q, p)
             U == DueTo(L, D, i)
  <1>1. InLine(L, D)
    BY LineIs
  <1>2. /\ D \subseteq Candidates /\ U \subseteq D /\ IsFiniteSet(U)
        /\ \A r \in D \ U, u \in U : KeyBefore(u.key, r.key)
        /\ i > 0 => \A r \in D : r \in U <=> ~KeyBefore(L[i].key, r.key)
    BY <1>1, LineLaws
  <1>3. Picked(w.items, U)
    BY DEF Going
  <1>4. i > 0 => L[i].key \in ResidencyKeys
    BY <1>1, CandidatesAre DEF InLine
  <1> HIDE DEF L, D, U
  <1>5. Picked(w.items, D)
    BY <1>2, <1>3, PickedMore
  <1>6. U \in SUBSET Candidates
    BY <1>2
  <1>7. w.items \in Seq(Candidates) /\ Cardinality(Shown(w.items)) = Len(w.items)
    BY <1>3, <1>6, PickedLaws
  <1>8. ASSUME NEW a, Tops(a, U)
        PROVE  a \in ResidencyKeys /\ a # None /\ Reach(a, D) = U
    <2>1. a \in ResidencyKeys /\ \A v \in D : v \in U <=> ~KeyBefore(a, v.key)
      BY <1>2, <1>8, TopsLaws
    <2> QED
      BY <1>2, <2>1, CursorsAssumption DEF Reach
  <1>9. i > 0 => Reach(L[i].key, D) = U
    BY <1>2 DEF Reach
  <1> QED
    BY <1>2, <1>4, <1>5, <1>7, <1>8, <1>9 DEF L, D, U

LEMMA CloseCounting ==
    ASSUME Stored, NEW q \in Queries, NEW b \in PageBudgets, NEW p \in Payloads \cup {None},
           NEW i \in 0..Len(Line(q, p)), NEW w, Going(w, q, b, p, i), w.counting # None,
           NEW v, Closes(v, w, q, b, p), NEW tail \in ResidencyKeys,
           v.stopped = CountingDegrade(w, tail)
    PROVE  Done(v, q, b, p)
  <1> DEFINE D == DueOf(q, p)
             U == DueTo(Line(q, p), D, i)
             a == w.counting.last
             c == CursorBytes(w, a, tail)
             part == v.stopped
  <1>1. /\ w.counting.omitted \in Nat /\ Tops(a, U) /\ Shape(w, q, b, p)
        /\ Cardinality(U) = Len(w.items) + w.counting.omitted
        /\ \E r \in U : Size(w.items) + r.view.size > b.bytes
        /\ Len(w.items) <= b.results /\ Size(w.items) <= b.bytes
    BY DEF Going
  <1>2. a \in ResidencyKeys /\ Reach(a, D) = U /\ U \subseteq D /\ Picked(w.items, D)
    BY <1>1, GoingLaws
  <1>3. Points(c, q, p, a) /\ c # None /\ c \in Seq(Byte)
    BY <1>1, <1>2, CursorIs, PointsBytes
  <1>4. part = Part("Degraded", "bytes", c, w.counting.omitted, None)
    BY DEF CountingDegrade
  <1>5. "bytes" \in Ceilings \cup {"deadline", None} /\ "bytes" # None
    BY NoneIs DEF Ceilings
  <1>6. /\ part # None /\ part.outcome = "Degraded" /\ part.dimension = "bytes" /\ part.cursor = c
        /\ part.omitted = w.counting.omitted
    <2> HIDE DEF part, c
    <2>1. part = [outcome |-> "Degraded", dimension |-> "bytes", cursor |-> c,
                  omitted |-> w.counting.omitted, refusal |-> None]
      BY <1>4 DEF Part
    <2>2. part \in Parts
      BY <1>1, <1>3, <1>5, <2>1 DEF Parts
    <2> QED
      BY <2>1, <2>2, PagesAssumption
  <1>7. \E r \in D : Size(w.items) + r.view.size > b.bytes
    BY <1>1, <1>2
  <1> HIDE DEF D, U, a, c, part
  <1>8. \E k \in ResidencyKeys : Points(part.cursor, q, p, k)
          /\ Cardinality(Reach(k, D)) = Len(w.items) + part.omitted
    BY <1>1, <1>2, <1>3, <1>6
  <1> QED
    BY <1>1, <1>2, <1>5, <1>6, <1>7, <1>8 DEF Done, Closes, D, part

LEMMA CloseWhole ==
    ASSUME Stored, NEW q \in Queries, NEW b \in PageBudgets, NEW p \in Payloads \cup {None},
           NEW i \in 0..Len(Line(q, p)), NEW w, Going(w, q, b, p, i), w.counting = None,
           DueTo(Line(q, p), DueOf(q, p), i) = DueOf(q, p),
           NEW v, Closes(v, w, q, b, p), v.stopped = Whole
    PROVE  Done(v, q, b, p)
  <1> DEFINE part == v.stopped
  <1>1. /\ part # None /\ part.outcome = "Complete" /\ part.dimension = None /\ part.cursor = None
    <2>1. PICK zero : zero = 0
      OBVIOUS
    <2>2. zero \in Nat /\ v.stopped = [outcome |-> "Complete", dimension |-> None, cursor |-> None,
                                       omitted |-> zero, refusal |-> None]
      BY <2>1 DEF Whole, Part
    <2> HIDE DEF part
    <2>3. v.stopped \in Parts
      BY <2>2 DEF Parts
    <2>4. v.stopped # None
      BY <2>3, PagesAssumption
    <2> QED
      BY <2>2, <2>4 DEF part
  <1>2. /\ Picked(w.items, DueOf(q, p)) /\ Shown(w.items) = DueOf(q, p)
        /\ Len(w.items) <= b.results /\ Size(w.items) <= b.bytes
    BY GoingLaws DEF Going
  <1> HIDE DEF part
  <1> QED
    BY <1>1, <1>2, NoneIs DEF Done, Closes, Ceilings, part

LEMMA CloseBefore ==
    ASSUME Stored, NEW q \in Queries, NEW b \in PageBudgets, NEW p \in Payloads \cup {None},
           NEW i \in 0..Len(Line(q, p)), NEW w, Going(w, q, b, p, i), w.counting = None,
           NEW v, Closes(v, w, q, b, p), v.scanned = i, NEW tail \in ResidencyKeys,
           NEW refusal \in Refusals, refusal.observed >= refusal.limit,
           refusal.dimension = "deadline" => v.session.now >= b.deadline,
           refusal.dimension # "deadline" => refusal.dimension = "scan" /\ i = b.scan,
           v.stopped = BeforeExamining(w, refusal, tail)
    PROVE  Done(v, q, b, p)
  <1> DEFINE D == DueOf(q, p)
             U == DueTo(Line(q, p), D, i)
             part == v.stopped
             d == refusal.dimension
  <1>1. /\ Shape(w, q, b, p) /\ Shown(w.items) = U
        /\ w.examined = (IF i = 0 THEN None ELSE Line(q, p)[i].key)
        /\ Len(w.items) <= b.results /\ Size(w.items) <= b.bytes
    BY DEF Going
  <1>2. /\ Cardinality(U) = Len(w.items) /\ Picked(w.items, D)
        /\ i > 0 => Line(q, p)[i].key \in ResidencyKeys /\ Reach(Line(q, p)[i].key, D) = U
    <2>1. /\ Cardinality(Shown(w.items)) = Len(w.items) /\ Picked(w.items, D)
          /\ i > 0 => Line(q, p)[i].key \in ResidencyKeys /\ Reach(Line(q, p)[i].key, D) = U
      BY GoingLaws
    <2> QED
      BY <1>1, <2>1
  <1>3. d \in Ceilings \cup {"deadline", None} /\ d \in {"deadline", "scan"} /\ d # None
    <2>1. d = "deadline" \/ d = "scan"
      OBVIOUS
    <2> QED
      BY <2>1, NoneIs DEF Ceilings
  <1>4. CASE i > 0
    <2> DEFINE a == Line(q, p)[i].key
               c == CursorBytes(w, a, tail)
    <2>1. a \in ResidencyKeys /\ w.examined = a /\ a # None
      BY <1>1, <1>2, <1>4, CursorsAssumption
    <2>2. Points(c, q, p, a) /\ c # None /\ c \in Seq(Byte)
      BY <1>1, <2>1, CursorIs, PointsBytes
    <2>a. PICK zero : zero = 0
      OBVIOUS
    <2>3. zero \in Nat /\ part = Part("Degraded", d, c, zero, None)
      BY <2>1, <2>a DEF BeforeExamining
    <2>4. part # None /\ part.outcome = "Degraded" /\ part.dimension = d /\ part.cursor = c /\ part.omitted = 0
      <3> HIDE DEF part, d, c
      <3>1. part = [outcome |-> "Degraded", dimension |-> d, cursor |-> c, omitted |-> zero,
                    refusal |-> None]
        BY <2>3 DEF Part
      <3>2. part \in Parts
        BY <1>3, <2>2, <2>3, <3>1 DEF Parts
      <3> QED
        BY <2>a, <3>1, <3>2, PagesAssumption
    <2>5. Cardinality(Reach(a, D)) = Len(w.items) + 0
      <3>1. Len(w.items) \in Nat
        BY <1>2 DEF Picked
      <3> QED
        BY <1>2, <1>4, <3>1
    <2> HIDE DEF a, c, D, U, part, d
    <2>6. \E k \in ResidencyKeys : Points(part.cursor, q, p, k)
            /\ Cardinality(Reach(k, D)) = Len(w.items) + part.omitted
      BY <2>1, <2>2, <2>4, <2>5
    <2> QED
      BY <1>1, <1>2, <1>3, <2>4, <2>6 DEF Done, Closes, D, part, d
  <1>5. CASE i = 0
    <2>a. PICK zero : zero = 0
      OBVIOUS
    <2>1. zero \in Nat /\ part = Part("Refused", d, None, zero, refusal)
      BY <1>1, <1>5, <2>a DEF BeforeExamining
    <2>2. /\ part # None /\ part.outcome = "Refused" /\ part.dimension = d /\ part.cursor = None
          /\ part.refusal = refusal
      <3> HIDE DEF part, d
      <3>1. part = [outcome |-> "Refused", dimension |-> d, cursor |-> None, omitted |-> zero,
                    refusal |-> refusal]
        BY <2>1 DEF Part
      <3>2. part \in Parts
        BY <1>3, <2>1, <3>1 DEF Parts
      <3> QED
        BY <3>1, <3>2, PagesAssumption
    <2> HIDE DEF D, U, part, d
    <2> QED
      BY <1>1, <1>2, <1>3, <1>5, <2>2 DEF Done, Closes, D, part, d
  <1> QED
    BY <1>4, <1>5

LEMMA CloseOffer ==
    ASSUME Stored, NEW q \in Queries, NEW b \in PageBudgets, NEW p \in Payloads \cup {None},
           NEW i \in 0..Len(Line(q, p)), NEW w, Going(w, q, b, p, i), w.counting = None,
           NEW v, Closes(v, w, q, b, p), NEW tail \in ResidencyKeys,
           p # None => p.fingerprint = FingerprintOf[CanonicalBytes(q)],
           NEW d \in {"results", "deadline"}, d = "results" => Len(w.items) = b.results,
           d = "deadline" => v.session.now >= b.deadline,
           NEW seen, Shape(seen, q, b, p), seen.included = w.included,
           v.stopped = IncludeAnchored(seen, d, tail)
    PROVE  Done(v, q, b, p)
  <1> DEFINE D == DueOf(q, p)
             U == DueTo(Line(q, p), D, i)
             part == v.stopped
             a == w.included
             c == IF a # None THEN CursorBytes(seen, a, tail)
                  ELSE IF p # None THEN Encode(p) ELSE None
  <1>1. /\ Shape(w, q, b, p) /\ Shown(w.items) = U
        /\ IF w.included = None THEN U = {} ELSE Tops(w.included, U)
        /\ Len(w.items) <= b.results /\ Size(w.items) <= b.bytes
    BY DEF Going
  <1>2. /\ Cardinality(U) = Len(w.items) /\ Picked(w.items, D) /\ Len(w.items) \in Nat
        /\ a # None => a \in ResidencyKeys /\ Reach(a, D) = U
    <2>1. /\ Cardinality(Shown(w.items)) = Len(w.items) /\ Picked(w.items, D)
          /\ \A x : Tops(x, U) => x \in ResidencyKeys /\ Reach(x, D) = U
      BY GoingLaws
    <2> QED
      BY <1>1, <2>1 DEF Picked
  <1>3. d \in Ceilings \cup {"deadline", None} /\ d # None /\ d # "bytes" /\ d # "scan"
    BY NoneIs DEF Ceilings
  <1>a. PICK zero : zero = 0
    OBVIOUS
  <1>4. zero \in Nat /\ part = Part("Degraded", d, c, zero, None)
    BY <1>a DEF IncludeAnchored, Shape, Sheet
  <1>5. c # None => \E k \in ResidencyKeys : Points(c, q, p, k) /\ Cardinality(Reach(k, D)) = Len(w.items) + 0
    <2>1. CASE a # None
      <3>1. Points(c, q, p, a)
        BY <1>2, <2>1, CursorIs
      <3> QED
        BY <1>2, <2>1, <3>1
    <2>2. CASE a = None /\ p # None
      <3>1. c = Encode(p) /\ p \in Payloads
        BY <2>2
      <3>2. \A r \in D : KeyBefore(Resume(p), r.key)
        BY <2>2, LineIs
      <3>3. Reach(Resume(p), D) = {} /\ U = {}
        BY <1>1, <2>2, <3>2 DEF Reach
      <3>4. Points(c, q, p, Resume(p))
        BY <2>2, <3>1 DEF Points
      <3>5. Resume(p) \in ResidencyKeys
        BY <3>1, ResumeIs
      <3>6. Cardinality(Reach(Resume(p), D)) = Len(w.items) + 0
        BY <1>2, <3>3
      <3> HIDE DEF c, D
      <3> QED
        BY <3>4, <3>5, <3>6
    <2> QED
      BY <2>1, <2>2
  <1>6. c \in Seq(Byte) \cup {None}
    BY <1>5, PointsBytes
  <1>7. part # None /\ part.outcome = "Degraded" /\ part.dimension = d /\ part.cursor = c /\ part.omitted = 0
    <2> HIDE DEF part, c
    <2>1. part = [outcome |-> "Degraded", dimension |-> d, cursor |-> c, omitted |-> zero, refusal |-> None]
      BY <1>4 DEF Part
    <2>2. part \in Parts
      BY <1>3, <1>4, <1>6, <2>1 DEF Parts
    <2> QED
      BY <1>a, <2>1, <2>2, PagesAssumption
  <1> HIDE DEF D, U, part, c, a
  <1> QED
    BY <1>1, <1>2, <1>3, <1>5, <1>7 DEF Done, Closes, D, part

(* What a walk meets at its next record: h are examined, i is next.          *)
LEMMA NextRecord ==
    ASSUME Stored, NEW q \in Queries, NEW p \in Payloads \cup {None},
           NEW i \in 1..Len(Line(q, p)), NEW h \in Nat, i = h + 1
    PROVE  /\ h \in 0..Len(Line(q, p)) /\ Line(q, p)[i] \in Candidates
           /\ BatchEnd(Line(q, p), i) - i \in Nat
           /\ Line(q, p)[BatchEnd(Line(q, p), i)].key \in ResidencyKeys
           /\ Line(q, p)[i] \notin DueOf(q, p) =>
                DueTo(Line(q, p), DueOf(q, p), i) = DueTo(Line(q, p), DueOf(q, p), h)
           /\ Line(q, p)[i] \in DueOf(q, p) =>
                /\ DueTo(Line(q, p), DueOf(q, p), i)
                     = DueTo(Line(q, p), DueOf(q, p), h) \cup {Line(q, p)[i]}
                /\ Line(q, p)[i] \notin DueTo(Line(q, p), DueOf(q, p), h)
                /\ \A u \in DueTo(Line(q, p), DueOf(q, p), h) : KeyBefore(u.key, Line(q, p)[i].key)
  <1> DEFINE L == Line(q, p)
             D == DueOf(q, p)
  <1>1. InLine(L, D)
    BY LineIs
  <1>2. Len(L) \in Nat /\ L \in Seq(Candidates)
    BY <1>1 DEF InLine
  <1> HIDE DEF L, D
  <1>3. i \in 1..Len(L)
    BY DEF L
  <1>4. h = i - 1 /\ h \in 0..Len(L)
    BY <1>2, <1>3
  <1>5. BatchEnd(L, i) \in i..Len(L)
    BY <1>2, <1>3, BatchEndIs
  <1>6. BatchEnd(L, i) - i \in Nat /\ BatchEnd(L, i) \in 1..Len(L)
    BY <1>2, <1>3, <1>5
  <1>7. L[BatchEnd(L, i)] \in Candidates
    BY <1>2, <1>6
  <1>8. L[BatchEnd(L, i)].key \in ResidencyKeys
    BY <1>7, CandidatesAre
  <1>9. /\ L[i] \notin D => DueTo(L, D, i) = DueTo(L, D, i - 1)
        /\ L[i] \in D => /\ DueTo(L, D, i) = DueTo(L, D, i - 1) \cup {L[i]}
                         /\ L[i] \notin DueTo(L, D, i - 1)
                         /\ \A u \in DueTo(L, D, i - 1) : KeyBefore(u.key, L[i].key)
        /\ L[i] \in Candidates
    BY <1>1, <1>3, LineStep
  <1> QED
    BY <1>4, <1>6, <1>8, <1>9 DEF L, D

(* Past the boundary nothing more is due.                                    *)
LEMMA BoundaryEnds ==
    ASSUME Stored, NEW q \in Queries, NEW p \in Payloads,
           NEW i \in 1..Len(Line(q, p)), NEW h \in Nat, i = h + 1,
           KeyBefore(p.snapshot, Line(q, p)[i].key)
    PROVE  DueTo(Line(q, p), DueOf(q, p), h) = DueOf(q, p)
  <1> DEFINE L == Line(q, p)
             D == DueOf(q, p)
  <1>1. InLine(L, D) /\ \A r \in D : ~KeyBefore(p.snapshot, r.key)
    BY LineIs, ResumeIs
  <1>2. i \in 1..Len(L) /\ KeyBefore(p.snapshot, L[i].key) /\ p.snapshot \in ResidencyKeys
    BY ResumeIs
  <1> HIDE DEF L, D
  <1>3. Len(L) \in Nat /\ \A k \in 1..Len(L) : L[k] \in Candidates
    BY <1>1 DEF InLine
  <1>4. ASSUME NEW r \in D
        PROVE  \E k \in 1..h : L[k] = r
    <2>1. PICK k \in 1..Len(L) : L[k] = r
      BY <1>1 DEF InLine
    <2>2. SUFFICES ASSUME ~(k <= h)
                   PROVE  FALSE
      BY <2>1
    <2>3. k = i \/ i < k
      BY <1>2, <1>3, <2>1, <2>2
    <2>4. KeyBefore(p.snapshot, L[k].key)
      <3>1. CASE k = i
        BY <1>2, <3>1
      <3>2. CASE i < k
        <4>1. KeyBefore(L[i].key, L[k].key)
          BY <1>1, <1>2, <2>1, <3>2 DEF InLine
        <4>2. L[i].key \in ResidencyKeys /\ L[k].key \in ResidencyKeys
          BY <1>2, <1>3, <2>1, CandidatesAre
        <4> QED
          BY <1>2, <4>1, <4>2, KeyOrder
      <3> QED
        BY <2>3, <3>1, <3>2
    <2> QED
      BY <1>1, <2>1, <2>4
  <1>5. DueTo(L, D, h) = D
    BY <1>4 DEF DueTo
  <1> QED
    BY <1>5 DEF L, D

(* The page ends with nothing left, or with what it counted.                 *)
LEMMA FinishDone ==
    ASSUME Stored, NEW q \in Queries, NEW b \in PageBudgets, NEW p \in Payloads \cup {None},
           NEW i \in 0..Len(Line(q, p)), NEW w, Going(w, q, b, p, i),
           DueTo(Line(q, p), DueOf(q, p), i) = DueOf(q, p),
           NEW tail \in ResidencyKeys, NEW v, Closes(v, w, q, b, p), v.stopped = FinishCounting(w, tail)
    PROVE  Done(v, q, b, p)
  <1>1. CASE w.counting # None
    <2>1. v.stopped = CountingDegrade(w, tail)
      BY <1>1 DEF FinishCounting
    <2> QED
      BY <1>1, <2>1, CloseCounting
  <1>2. CASE w.counting = None
    <2>1. v.stopped = Whole
      BY <1>2 DEF FinishCounting, Whole
    <2> QED
      BY <1>2, <2>1, CloseWhole
  <1> QED
    BY <1>1, <1>2

LEMMA GoingSession ==
    ASSUME NEW q, NEW b \in PageBudgets, NEW p, NEW i \in Nat, NEW w, Going(w, q, b, p, i)
    PROVE  /\ Shape(w, q, b, p) /\ w.session \in Sessions(b) /\ w.scanned = i /\ w.stopped = None
           /\ w.session.left["scan"] = b.scan - i /\ w.session.left["scan"] \in Nat /\ b.scan \in Nat
           /\ w.presented = p /\ w.query = q
  <1>1. /\ Shape(w, q, b, p) /\ w.scanned = i /\ w.stopped = None
        /\ w.session.left["scan"] = b.scan - i
    BY DEF Going
  <1>2. w.session \in Sessions(b) /\ w.presented = p /\ w.query = q
    BY <1>1 DEF Shape, Sheet
  <1>3. w.session.left["scan"] \in Nat
    BY <1>2 DEF Sessions, Ceilings
  <1>4. b.scan \in Nat
    BY BudgetsAre
  <1> QED
    BY <1>1, <1>2, <1>3, <1>4

LEMMA ExamineBoundary ==
    ASSUME Stored, NEW q \in Queries, NEW b \in PageBudgets, NEW p \in Payloads,
           NEW i \in 1..Len(Line(q, p)), NEW h \in Nat, i = h + 1,
           NEW w, Going(w, q, b, p, h), KeyBefore(p.snapshot, Line(q, p)[i].key),
           NEW v, v = Examine(w, Line(q, p), i)
    PROVE  Done(v, q, b, p)
  <1> DEFINE L == Line(q, p)
             tail == L[BatchEnd(L, i)].key
  <1>1. h \in 0..Len(L) /\ BatchEnd(L, i) - i \in Nat /\ tail \in ResidencyKeys
    BY NextRecord
  <1>2. /\ Shape(w, q, b, p) /\ w.session \in Sessions(b) /\ w.scanned = h /\ w.stopped = None
        /\ w.session.left["scan"] = b.scan - h /\ b.scan \in Nat /\ w.presented = p
    BY GoingSession
  <1>3. PICK behind \in Nat : behind = BatchEnd(L, i) - i + 1
    BY <1>1
  <1>4. v = Stopped(w, w.session, behind, FinishCounting(w, tail))
    BY <1>2, <1>3, ResumeIs DEF Examine
  <1>5. DueTo(L, DueOf(q, p), h) = DueOf(q, p)
    BY BoundaryEnds
  <1> HIDE DEF L, tail
  <1>6. w.scanned \in Nat /\ w.scanned + w.session.left["scan"] <= b.scan
    BY <1>2
  <1>7. Closes(v, w, q, b, p) /\ v.stopped = FinishCounting(w, tail)
    <2>1. PICK part : part = FinishCounting(w, tail)
      OBVIOUS
    <2>2. PICK s \in Sessions(b) : s = w.session
      BY <1>2
    <2>3. /\ v = Stopped(w, s, behind, part) /\ Covers(s, w, b)
          /\ s \in Sessions(b) /\ behind \in Nat /\ Shape(w, q, b, p)
      BY <1>2, <1>3, <1>4, <1>6, <2>1, <2>2 DEF Covers
    <2>4. Closes(v, w, q, b, p) /\ v.stopped = part
      BY <2>3, StoppedIs
    <2> QED
      BY <2>1, <2>4
  <1> QED
    BY <1>1, <1>5, <1>7, FinishDone DEF L

LEMMA ExamineRefused ==
    ASSUME Stored, NEW q \in Queries, NEW b \in PageBudgets, NEW p \in Payloads \cup {None},
           NEW i \in 1..Len(Line(q, p)), NEW h \in Nat, i = h + 1,
           NEW w, Going(w, q, b, p, h),
           ~(p # None /\ KeyBefore(p.snapshot, Line(q, p)[i].key)),
           Allow(w.session, "scan", 1).refusal # None,
           NEW v, v = Examine(w, Line(q, p), i)
    PROVE  Done(v, q, b, p)
  <1> DEFINE L == Line(q, p)
             tail == L[BatchEnd(L, i)].key
  <1>1. h \in 0..Len(L) /\ BatchEnd(L, i) - i \in Nat /\ tail \in ResidencyKeys
    BY NextRecord
  <1>2. /\ Shape(w, q, b, p) /\ w.session \in Sessions(b) /\ w.scanned = h /\ w.stopped = None
        /\ w.session.left["scan"] = b.scan - h /\ w.session.left["scan"] \in Nat
        /\ b.scan \in Nat /\ w.presented = p
    BY GoingSession
  <1>3. PICK behind \in Nat : behind = BatchEnd(L, i) - i + 1
    BY <1>1
  <1>4. PICK charge : charge = Allow(w.session, "scan", 1)
    OBVIOUS
  <1>5. v = Stopped(w, charge.session, behind, BeforeExamining(w, charge.refusal, tail))
    BY <1>2, <1>3, <1>4 DEF Examine
  <1>6. /\ charge.session \in Sessions(b) /\ charge.refusal \in Refusals
        /\ charge.refusal.observed >= charge.refusal.limit
        /\ charge.refusal.dimension = "deadline" => charge.session.now >= b.deadline
        /\ charge.refusal.dimension # "deadline" =>
             charge.refusal.dimension = "scan" /\ w.session.left["scan"] < 1
        /\ charge.session.left["scan"] <= w.session.left["scan"]
    <2>1. "scan" \in Ceilings /\ 1 \in Nat
      BY DEF Ceilings
    <2>2. PICK one \in Nat : one = 1
      OBVIOUS
    <2>3. charge = Allow(w.session, "scan", one) /\ charge.refusal # None
      BY <1>4, <2>2
    <2>4. /\ charge.session \in Sessions(b) /\ charge.refusal \in Refusals
          /\ charge.refusal.observed >= charge.refusal.limit
          /\ charge.refusal.dimension = "deadline" => charge.session.now >= b.deadline
          /\ charge.refusal.dimension # "deadline" =>
               charge.refusal.dimension = "scan" /\ w.session.left["scan"] < one
          /\ charge.session.left["scan"] <= w.session.left["scan"]
      BY <1>2, <2>1, <2>3, AllowLaws
    <2> QED
      BY <2>2, <2>4
  <1>7. charge.session.left["scan"] \in Nat
    BY <1>6 DEF Sessions, Ceilings
  <1>8. w.scanned \in Nat /\ w.scanned + charge.session.left["scan"] <= b.scan
    BY <1>2, <1>6, <1>7
  <1>9. /\ Closes(v, w, q, b, p) /\ v.stopped = BeforeExamining(w, charge.refusal, tail)
        /\ v.scanned = h /\ v.session.now = charge.session.now
    <2>1. PICK part : part = BeforeExamining(w, charge.refusal, tail)
      OBVIOUS
    <2>2. PICK s \in Sessions(b) : s = charge.session
      BY <1>6
    <2>3. /\ v = Stopped(w, s, behind, part) /\ Covers(s, w, b)
          /\ s \in Sessions(b) /\ behind \in Nat /\ Shape(w, q, b, p)
      BY <1>2, <1>3, <1>5, <1>8, <2>1, <2>2 DEF Covers
    <2>4. /\ Closes(v, w, q, b, p) /\ v.scanned = w.scanned /\ v.stopped = part
          /\ v.session.now = s.now
      BY <2>3, StoppedIs
    <2> QED
      BY <1>2, <2>1, <2>2, <2>4
  <1>10. charge.refusal.dimension # "deadline" => charge.refusal.dimension = "scan" /\ h = b.scan
    BY <1>2, <1>6
  <1> HIDE DEF tail
  <1>11. CASE w.counting # None
    <2>1. v.stopped = CountingDegrade(w, tail)
      BY <1>9, <1>11 DEF BeforeExamining
    <2> QED
      BY <1>1, <1>9, <1>11, <2>1, CloseCounting
  <1>12. CASE w.counting = None
    <2>1. charge.refusal.dimension = "deadline" => v.session.now >= b.deadline
      BY <1>6, <1>9
    <2> QED
      BY <1>1, <1>6, <1>9, <1>10, <1>12, <2>1, CloseBefore
  <1> QED
    BY <1>11, <1>12

(* A page going on has met r, its record i, and paid its scan charge: s.     *)
At(w, r, s, q, b, p, h, i) ==
    /\ i = h + 1 /\ Going(w, q, b, p, h) /\ r = Line(q, p)[i]
    /\ s \in Sessions(b) /\ s.left["scan"] = b.scan - i
    /\ s.left["results"] = w.session.left["results"] /\ s.left["bytes"] = w.session.left["bytes"]

LEMMA AtLaws ==
    ASSUME Stored, NEW q \in Queries, NEW b \in PageBudgets, NEW p \in Payloads \cup {None},
           NEW i \in 1..Len(Line(q, p)), NEW h \in Nat, NEW w, NEW r, NEW s, At(w, r, s, q, b, p, h, i)
    PROVE  /\ DueTo(Line(q, p), DueOf(q, p), h) \in SUBSET Candidates
           /\ IsFiniteSet(DueTo(Line(q, p), DueOf(q, p), h))
           /\ r \in Candidates /\ h \in 0..Len(Line(q, p)) /\ i \in Nat /\ i # 0
           /\ r \notin DueOf(q, p) =>
                DueTo(Line(q, p), DueOf(q, p), i) = DueTo(Line(q, p), DueOf(q, p), h)
           /\ r \in DueOf(q, p) =>
                /\ DueTo(Line(q, p), DueOf(q, p), i) = DueTo(Line(q, p), DueOf(q, p), h) \cup {r}
                /\ Cardinality(DueTo(Line(q, p), DueOf(q, p), i))
                     = Cardinality(DueTo(Line(q, p), DueOf(q, p), h)) + 1
                /\ Cardinality(DueTo(Line(q, p), DueOf(q, p), h)) \in Nat
                /\ \A u \in DueTo(Line(q, p), DueOf(q, p), h) : KeyBefore(u.key, r.key)
                /\ Tops(r.key, DueTo(Line(q, p), DueOf(q, p), i))
  <1> DEFINE L == Line(q, p)
             D == DueOf(q, p)
             U == DueTo(L, D, h)
             V == DueTo(L, D, i)
  <1>1. i = h + 1 /\ Going(w, q, b, p, h) /\ r = L[i]
    BY DEF At
  <1>2. /\ h \in 0..Len(L) /\ r \in Candidates
        /\ r \notin D => V = U
        /\ r \in D => /\ V = U \cup {r} /\ r \notin U
                      /\ \A u \in U : KeyBefore(u.key, r.key)
    BY <1>1, NextRecord
  <1>3. D \subseteq Candidates /\ U \subseteq D /\ IsFiniteSet(U)
    BY <1>1, <1>2, GoingLaws
  <1> HIDE DEF L, D, U, V
  <1>4. U \in SUBSET Candidates
    BY <1>3
  <1>5. ASSUME r \in D
        PROVE  /\ Cardinality(V) = Cardinality(U) + 1 /\ Cardinality(U) \in Nat
               /\ Tops(r.key, V)
    <2>1. Cardinality(U) \in Nat
      BY <1>3, FS_CardinalityType
    <2>2. Cardinality(U \cup {r}) = Cardinality(U) + 1
      BY <1>2, <1>3, <1>5, FS_AddElement
    <2>3. r \in Candidates /\ \A u \in U : KeyBefore(u.key, r.key)
      BY <1>2, <1>5
    <2>4. Tops(r.key, U \cup {r})
      BY <1>4, <2>3, TopsNew
    <2> QED
      BY <1>2, <1>5, <2>1, <2>2, <2>4
  <1>6. i \in Nat /\ i # 0
    BY <1>1
  <1> QED
    BY <1>2, <1>3, <1>4, <1>5, <1>6 DEF L, D, U, V

LEMMA AtCounts ==
    ASSUME Stored, NEW q \in Queries, NEW b \in PageBudgets, NEW p \in Payloads \cup {None},
           NEW i \in 1..Len(Line(q, p)), NEW h \in Nat, NEW w, NEW r, NEW s, At(w, r, s, q, b, p, h, i),
           r \in DueOf(q, p), NEW t \in Sessions(b), t.left["scan"] = b.scan - i,
           NEW m \in Nat, Cardinality(DueTo(Line(q, p), DueOf(q, p), h)) + 1 = Len(w.items) + m,
           \E x \in DueTo(Line(q, p), DueOf(q, p), h) \cup {r} : Size(w.items) + x.view.size > b.bytes,
           NEW v, v = Sheet(q, p, t, w.items, w.included, r.key, i, [omitted |-> m, last |-> r.key], None)
    PROVE  Going(v, q, b, p, i)
  <1> DEFINE U == DueTo(Line(q, p), DueOf(q, p), h)
             V == DueTo(Line(q, p), DueOf(q, p), i)
  <1>1. /\ Picked(w.items, U) /\ Len(w.items) <= b.results /\ Size(w.items) <= b.bytes
        /\ r = Line(q, p)[i]
    BY DEF At, Going
  <1>2. /\ U \in SUBSET Candidates /\ r \in Candidates /\ i \in Nat /\ i # 0
        /\ V = U \cup {r} /\ Cardinality(V) = Cardinality(U) + 1
        /\ \A u \in U : KeyBefore(u.key, r.key)
        /\ Tops(r.key, V)
    BY AtLaws
  <1>3. /\ v.session = t /\ v.items = w.items /\ v.included = w.included /\ v.examined = r.key
        /\ v.scanned = i /\ v.counting = [omitted |-> m, last |-> r.key] /\ v.stopped = None
        /\ v = Sheet(q, p, v.session, v.items, v.included, v.examined, v.scanned, v.counting, v.stopped)
    BY DEF Sheet
  <1>4. Shape(v, q, b, p)
    BY <1>3 DEF Shape
  <1>5. r.key \in ResidencyKeys
    BY <1>2, CandidatesAre
  <1>6. v.counting # None
    <2>1. v.counting \in [omitted : Nat, last : ResidencyKeys]
      BY <1>3, <1>5
    <2> QED
      BY <2>1, PagesAssumption
  <1>7. Picked(w.items, V)
    <2>1. V \in SUBSET Candidates /\ U \in SUBSET V /\ \A x \in V \ U, u \in U : KeyBefore(u.key, x.key)
      BY <1>2
    <2> QED
      BY <1>1, <2>1, PickedMore
  <1>8. /\ v.counting = [omitted |-> v.counting.omitted, last |-> v.counting.last]
        /\ v.counting.omitted = m /\ v.counting.last = r.key
    BY <1>3
  <1>9. Cardinality(V) = Len(v.items) + m /\ \E x \in V : Size(v.items) + x.view.size > b.bytes
    BY <1>2, <1>3
  <1> HIDE DEF U, V
  <1> QED
    BY <1>1, <1>2, <1>3, <1>4, <1>6, <1>7, <1>8, <1>9 DEF Going, V

LEMMA RoomLeft ==
    ASSUME NEW R \in Nat, NEW n \in Nat, NEW k \in Nat, NEW x \in Int, x = R - n, k <= x
    PROVE  n + k <= R /\ x - k = R - (n + k)
  OBVIOUS

LEMMA AtTakes ==
    ASSUME Stored, NEW q \in Queries, NEW b \in PageBudgets, NEW p \in Payloads \cup {None},
           NEW i \in 1..Len(Line(q, p)), NEW h \in Nat, NEW w, NEW r, NEW s, At(w, r, s, q, b, p, h, i),
           r \in DueOf(q, p), w.counting = None, NEW t \in Sessions(b), t.left["scan"] = b.scan - i,
           s.left["results"] > 0, t.left["results"] = s.left["results"] - 1,
           r.view.size <= s.left["bytes"], t.left["bytes"] = s.left["bytes"] - r.view.size,
           NEW v, v = Sheet(q, p, t, Append(w.items, r), r.key, r.key, i, None, None)
    PROVE  Going(v, q, b, p, i)
  <1> DEFINE U == DueTo(Line(q, p), DueOf(q, p), h)
             V == DueTo(Line(q, p), DueOf(q, p), i)
  <1>1. /\ Picked(w.items, U) /\ Shown(w.items) = U
        /\ s.left["results"] = b.results - Len(w.items) /\ s.left["bytes"] = b.bytes - Size(w.items)
        /\ r = Line(q, p)[i]
    BY DEF At, Going
  <1>2. /\ U \in SUBSET Candidates /\ r \in Candidates /\ i \in Nat /\ i # 0
        /\ V = U \cup {r} /\ Tops(r.key, V)
        /\ \A u \in U : KeyBefore(u.key, r.key)
    BY AtLaws
  <1>3. PICK items : items = Append(w.items, r)
    OBVIOUS
  <1>4. v = Sheet(q, p, t, items, r.key, r.key, i, None, None)
    BY <1>3
  <1>5. /\ v.session = t /\ v.items = items /\ v.included = r.key /\ v.examined = r.key
        /\ v.scanned = i /\ v.counting = None /\ v.stopped = None
        /\ v = Sheet(q, p, v.session, v.items, v.included, v.examined, v.scanned, v.counting, v.stopped)
    BY <1>4 DEF Sheet
  <1>6. Shape(v, q, b, p)
    BY <1>5 DEF Shape
  <1>7. Picked(items, V) /\ Shown(items) = V
    <2>1. Picked(Append(w.items, r), U \cup {r}) /\ Shown(Append(w.items, r)) = U \cup {r}
      BY <1>1, <1>2, PickedAppend
    <2> QED
      BY <1>2, <1>3, <2>1
  <1>8. w.items \in Seq(Candidates)
    BY <1>1, <1>2, PickedLaws
  <1>9. Len(items) = Len(w.items) + 1 /\ Len(w.items) \in Nat
    BY <1>3, <1>8
  <1>10. Size(items) = Size(w.items) + r.view.size /\ Size(w.items) \in Nat /\ r.view.size \in Nat
    <2>1. Size(Append(w.items, r)) = Size(w.items) + r.view.size /\ Size(w.items) \in Nat
      BY <1>2, <1>8, SizeLaws
    <2> QED
      BY <1>2, <1>3, <2>1, CandidatesAre
  <1>11. b.results \in Nat /\ b.bytes \in Nat
    BY BudgetsAre
  <1>12. /\ Len(v.items) <= b.results /\ Size(v.items) <= b.bytes
         /\ v.session.left["results"] = b.results - Len(v.items)
         /\ v.session.left["bytes"] = b.bytes - Size(v.items)
    <2>1. PICK n \in Nat, z \in Nat, k \in Nat :
            n = Len(w.items) /\ z = Size(w.items) /\ k = r.view.size
      BY <1>9, <1>10
    <2>2. PICK x, y : x = s.left["results"] /\ y = s.left["bytes"]
      OBVIOUS
    <2>3. /\ x = b.results - n /\ y = b.bytes - z /\ x > 0 /\ k <= y
          /\ Len(items) = n + 1 /\ Size(items) = z + k
          /\ t.left["results"] = x - 1 /\ t.left["bytes"] = y - k
      BY <1>1, <1>9, <1>10, <2>1, <2>2
    <2>4. /\ n + 1 <= b.results /\ z + k <= b.bytes
          /\ x - 1 = b.results - (n + 1) /\ y - k = b.bytes - (z + k)
      <3>1. PICK R \in Nat, B \in Nat : R = b.results /\ B = b.bytes
        BY <1>11
      <3>2. x = R - n /\ y = B - z /\ x > 0 /\ k <= y /\ n \in Nat /\ z \in Nat /\ k \in Nat
        BY <2>1, <2>3, <3>1
      <3>3. x \in Int /\ y \in Int
        BY <3>1, <3>2
      <3>4. n + 1 <= R /\ x - 1 = R - (n + 1)
        <4>1. PICK one \in Nat : one = 1
          OBVIOUS
        <4>2. R \in Nat /\ n \in Nat /\ one \in Nat /\ x \in Int /\ x = R - n /\ one <= x
          BY <3>1, <3>2, <3>3, <4>1
        <4>3. n + one <= R /\ x - one = R - (n + one)
          BY <4>2, RoomLeft
        <4> QED
          BY <4>1, <4>3
      <3>5. z + k <= B /\ y - k = B - (z + k)
        <4>1. B \in Nat /\ z \in Nat /\ k \in Nat /\ y \in Int /\ y = B - z /\ k <= y
          BY <3>1, <3>2, <3>3
        <4> QED
          BY <4>1, RoomLeft
      <3> QED
        BY <3>1, <3>4, <3>5
    <2>5. /\ Len(items) <= b.results /\ Size(items) <= b.bytes
          /\ t.left["results"] = b.results - Len(items) /\ t.left["bytes"] = b.bytes - Size(items)
      BY <2>3, <2>4
    <2> QED
      BY <1>5, <2>5
  <1>13. v.included # None
    BY <1>2, <1>5, CandidatesAre
  <1>14. v.session.left["scan"] = b.scan - i
    BY <1>5
  <1> HIDE DEF U, V
  <1>15. Picked(v.items, V) /\ Shown(v.items) = V /\ Tops(v.included, V)
    <2>1. Tops(r.key, V)
      BY <1>2
    <2>2. v.items = items /\ v.included = r.key
      BY <1>5
    <2> QED
      BY <1>7, <2>1, <2>2
  <1>16. i # 0 /\ v.examined = Line(q, p)[i].key /\ v.scanned = i /\ v.stopped = None /\ v.counting = None
    BY <1>1, <1>2, <1>5
  <1> QED
    BY <1>6, <1>12, <1>13, <1>14, <1>15, <1>16 DEF Going, V

LEMMA AtPasses ==
    ASSUME Stored, NEW q \in Queries, NEW b \in PageBudgets, NEW p \in Payloads \cup {None},
           NEW i \in 1..Len(Line(q, p)), NEW h \in Nat, NEW w, NEW r, NEW s, At(w, r, s, q, b, p, h, i),
           r \notin DueOf(q, p),
           NEW v, v = Sheet(q, p, s, w.items, w.included, r.key, i, w.counting, None)
    PROVE  Going(v, q, b, p, i)
  <1> DEFINE U == DueTo(Line(q, p), DueOf(q, p), h)
             V == DueTo(Line(q, p), DueOf(q, p), i)
  <1>1. V = U /\ i \in Nat /\ i # 0
    BY AtLaws
  <1>2. /\ v.session = s /\ v.items = w.items /\ v.included = w.included /\ v.examined = r.key
        /\ v.scanned = i /\ v.counting = w.counting /\ v.stopped = None
        /\ v = Sheet(q, p, v.session, v.items, v.included, v.examined, v.scanned, v.counting, v.stopped)
    BY DEF Sheet
  <1>3. /\ r = Line(q, p)[i] /\ s \in Sessions(b) /\ s.left["scan"] = b.scan - i
        /\ s.left["results"] = w.session.left["results"] /\ s.left["bytes"] = w.session.left["bytes"]
        /\ Going(w, q, b, p, h)
    BY DEF At
  <1>4. Shape(v, q, b, p)
    BY <1>2, <1>3 DEF Shape
  <1> HIDE DEF V
  <1>5. /\ Picked(w.items, V) /\ Len(w.items) <= b.results /\ Size(w.items) <= b.bytes
        /\ w.counting = None =>
             /\ Shown(w.items) = V
             /\ IF w.included = None THEN V = {} ELSE Tops(w.included, V)
             /\ w.session.left["results"] = b.results - Len(w.items)
             /\ w.session.left["bytes"] = b.bytes - Size(w.items)
        /\ w.counting # None =>
             /\ w.counting = [omitted |-> w.counting.omitted, last |-> w.counting.last]
             /\ w.counting.omitted \in Nat /\ Tops(w.counting.last, V)
             /\ Cardinality(V) = Len(w.items) + w.counting.omitted
             /\ \E x \in V : Size(w.items) + x.view.size > b.bytes
    BY <1>1, <1>3 DEF Going
  <1> QED
    BY <1>1, <1>2, <1>3, <1>4, <1>5 DEF Going, V

LEMMA AtStops ==
    ASSUME Stored, NEW q \in Queries, NEW b \in PageBudgets, NEW p \in Payloads \cup {None},
           p # None => p.fingerprint = FingerprintOf[CanonicalBytes(q)],
           NEW i \in 1..Len(Line(q, p)), NEW h \in Nat, NEW w, NEW r, NEW s, At(w, r, s, q, b, p, h, i),
           w.counting = None, NEW seen, NEW met,
           seen = Sheet(q, p, w.session, w.items, w.included, r.key, i, w.counting, None),
           met = Sheet(q, p, s, w.items, w.included, r.key, i, w.counting, None),
           NEW t \in Sessions(b), t.left["scan"] = b.scan - i, NEW behind \in Nat,
           NEW tail \in ResidencyKeys, NEW d \in {"results", "deadline"},
           d = "results" => s.left["results"] = 0, d = "deadline" => t.now >= b.deadline,
           NEW v, v = Stopped(met, t, behind, IncludeAnchored(seen, d, tail))
    PROVE  Done(v, q, b, p)
  <1>1. /\ Going(w, q, b, p, h) /\ s \in Sessions(b) /\ w.session \in Sessions(b)
        /\ s.left["results"] = b.results - Len(w.items)
    BY DEF At, Going, Shape
  <1>2. h \in 0..Len(Line(q, p)) /\ i \in Nat
    BY AtLaws
  <1>3. Shape(seen, q, b, p) /\ seen.included = w.included
    BY <1>1 DEF Shape, Sheet
  <1>4. Shape(met, q, b, p) /\ met.items = w.items /\ met.scanned = i
    BY <1>1 DEF Shape, Sheet
  <1>5. PICK part : part = IncludeAnchored(seen, d, tail)
    OBVIOUS
  <1>6. b.scan \in Nat /\ b.results \in Nat /\ t.left["scan"] \in Nat
    BY BudgetsAre DEF Sessions, Ceilings
  <1>7. /\ v = Stopped(met, t, behind, part) /\ Covers(t, met, b) /\ Shape(met, q, b, p)
        /\ t \in Sessions(b) /\ behind \in Nat
    BY <1>2, <1>4, <1>5, <1>6 DEF Covers
  <1>8. Closes(v, met, q, b, p) /\ v.stopped = part /\ v.session.now = t.now
    BY <1>7, StoppedIs
  <1>9. Closes(v, w, q, b, p)
    BY <1>4, <1>8 DEF Closes
  <1>10. d = "results" => Len(w.items) = b.results
    <2>1. Len(w.items) \in Nat
      BY <1>1 DEF Going, Picked
    <2> QED
      BY <1>1, <1>6, <2>1
  <1>11. d = "deadline" => v.session.now >= b.deadline
    BY <1>8
  <1>12. v.stopped = IncludeAnchored(seen, d, tail)
    BY <1>5, <1>8
  <1> QED
    BY <1>1, <1>2, <1>3, <1>9, <1>10, <1>11, <1>12, CloseOffer

LEMMA AllowIs ==
    ASSUME NEW b \in PageBudgets, NEW s \in Sessions(b), NEW d \in Ceilings, NEW want \in Nat,
           NEW a, a = Allow(s, d, want)
    PROVE  /\ a.session \in Sessions(b)
           /\ \A e \in Ceilings : e # d => a.session.left[e] = s.left[e]
           /\ a.refusal = None => want <= s.left[d] /\ a.session.left[d] = s.left[d] - want
           /\ a.refusal # None =>
                /\ a.refusal.dimension = "deadline" => a.session.now >= b.deadline
                /\ a.refusal.dimension # "deadline" => a.refusal.dimension = d /\ s.left[d] < want
  BY AllowLaws

(* A record that matched is shown, counted, or ends the page.                *)
LEMMA OfferStep ==
    ASSUME Stored, NEW q \in Queries, NEW b \in PageBudgets, NEW p \in Payloads \cup {None},
           p # None => p.fingerprint = FingerprintOf[CanonicalBytes(q)],
           NEW i \in 1..Len(Line(q, p)), NEW h \in Nat, NEW w, NEW r, NEW s, At(w, r, s, q, b, p, h, i),
           r \in DueOf(q, p), NEW behind \in Nat, NEW tail \in ResidencyKeys, NEW seen,
           seen = Sheet(q, p, w.session, w.items, w.included, r.key, i, w.counting, None),
           NEW v, v = Offer(seen, r, s, behind, tail)
    PROVE  Going(v, q, b, p, i) \/ Done(v, q, b, p)
  <1> DEFINE U == DueTo(Line(q, p), DueOf(q, p), h)
             unit == 1
  <1>1. PICK met : met = [seen EXCEPT !.session = s]
    OBVIOUS
  <1>2. met = Sheet(q, p, s, w.items, w.included, r.key, i, w.counting, None)
    BY <1>1, SheetSession
  <1>3. PICK granted : granted = Allow(s, "results", 1)
    OBVIOUS
  <1>4. PICK paid : paid = Allow(granted.session, "bytes", r.view.size)
    OBVIOUS
  <1>5. /\ met.counting = w.counting /\ met.items = w.items /\ seen.counting = w.counting
    BY <1>2 DEF Sheet
  <1>6. /\ s \in Sessions(b) /\ s.left["scan"] = b.scan - i /\ Going(w, q, b, p, h)
        /\ s.left["results"] = w.session.left["results"] /\ s.left["bytes"] = w.session.left["bytes"]
    BY DEF At
  <1>7. /\ U \in SUBSET Candidates /\ Cardinality(U) \in Nat /\ r \in Candidates /\ i \in Nat
    BY AtLaws
  <1>8. r.view.size \in Nat
    BY <1>7, CandidatesAre
  <1>9. /\ granted.session \in Sessions(b) /\ granted.session.left["scan"] = s.left["scan"]
        /\ granted.session.left["bytes"] = s.left["bytes"]
        /\ granted.refusal = None =>
             s.left["results"] > 0 /\ granted.session.left["results"] = s.left["results"] - 1
        /\ granted.refusal # None =>
             /\ granted.refusal.dimension = "deadline" => granted.session.now >= b.deadline
             /\ granted.refusal.dimension # "deadline" => s.left["results"] < 1
    <2>1. PICK one \in Nat : one = 1
      OBVIOUS
    <2>2. "results" \in Ceilings /\ "scan" \in Ceilings /\ "bytes" \in Ceilings
      BY DEF Ceilings
    <2>3. granted = Allow(s, "results", one) /\ one \in Nat /\ s \in Sessions(b)
      BY <1>3, <1>6, <2>1
    <2>4. /\ granted.session \in Sessions(b)
          /\ \A e \in Ceilings : e # "results" => granted.session.left[e] = s.left[e]
          /\ granted.refusal = None =>
               one <= s.left["results"] /\ granted.session.left["results"] = s.left["results"] - one
          /\ granted.refusal # None =>
               /\ granted.refusal.dimension = "deadline" => granted.session.now >= b.deadline
               /\ granted.refusal.dimension # "deadline" =>
                    granted.refusal.dimension = "results" /\ s.left["results"] < one
      BY <2>2, <2>3, AllowIs
    <2>5. s.left["results"] \in Nat
      BY <1>6 DEF Sessions, Ceilings
    <2> QED
      BY <2>1, <2>2, <2>4, <2>5
  <1>10. /\ paid.session \in Sessions(b) /\ paid.session.left["scan"] = s.left["scan"]
         /\ paid.session.left["results"] = granted.session.left["results"]
         /\ paid.refusal = None =>
              r.view.size <= s.left["bytes"] /\ paid.session.left["bytes"] = s.left["bytes"] - r.view.size
         /\ paid.refusal # None =>
              /\ paid.refusal.dimension = "deadline" => paid.session.now >= b.deadline
              /\ paid.refusal.dimension # "deadline" => s.left["bytes"] < r.view.size
    <2>1. "results" \in Ceilings /\ "scan" \in Ceilings /\ "bytes" \in Ceilings
      BY DEF Ceilings
    <2>2. PICK g, k : g = granted.session /\ k = r.view.size
      OBVIOUS
    <2>3. paid = Allow(g, "bytes", k) /\ g \in Sessions(b) /\ k \in Nat
      BY <1>4, <1>8, <1>9, <2>2
    <2>4. /\ paid.session \in Sessions(b)
          /\ \A e \in Ceilings : e # "bytes" => paid.session.left[e] = g.left[e]
          /\ paid.refusal = None =>
               k <= g.left["bytes"] /\ paid.session.left["bytes"] = g.left["bytes"] - k
          /\ paid.refusal # None =>
               /\ paid.refusal.dimension = "deadline" => paid.session.now >= b.deadline
               /\ paid.refusal.dimension # "deadline" =>
                    paid.refusal.dimension = "bytes" /\ g.left["bytes"] < k
      BY <2>1, <2>3, AllowIs
    <2> QED
      BY <1>9, <2>1, <2>2, <2>4
  <1>11. v = IF w.counting # None
             THEN [met EXCEPT !.counting = [omitted |-> w.counting.omitted + 1, last |-> r.key]]
             ELSE IF s.left["results"] = 0
             THEN Stopped(met, s, behind, IncludeAnchored(seen, "results", tail))
             ELSE IF granted.refusal # None
             THEN Stopped(met, granted.session, behind,
                          IncludeAnchored(seen, granted.refusal.dimension, tail))
             ELSE IF granted.session.left["bytes"] < r.view.size
             THEN [met EXCEPT !.session = granted.session,
                              !.counting = [omitted |-> 1, last |-> r.key]]
             ELSE IF paid.refusal # None
             THEN Stopped(met, paid.session, behind,
                          IncludeAnchored(seen, paid.refusal.dimension, tail))
             ELSE [met EXCEPT !.session = paid.session, !.items = Append(w.items, r),
                              !.included = r.key]
    BY <1>1, <1>3, <1>4, <1>5 DEF Offer
  <1> HIDE DEF U
  <1>12. CASE w.counting # None
    <2>1. PICK m \in Nat : m = w.counting.omitted + 1
      BY <1>6, <1>12 DEF Going
    <2>2. v = [met EXCEPT !.counting = [omitted |-> m, last |-> r.key]]
      BY <1>11, <1>12, <2>1
    <2>3. v = Sheet(q, p, s, w.items, w.included, r.key, i, [omitted |-> m, last |-> r.key], None)
      BY <1>2, <2>2, SheetCounting
    <2>4. /\ Cardinality(U) = Len(w.items) + w.counting.omitted /\ w.counting.omitted \in Nat
          /\ Len(w.items) \in Nat /\ \E x \in U : Size(w.items) + x.view.size > b.bytes
      BY <1>6, <1>12 DEF Going, U, Picked
    <2>5. Cardinality(U) + 1 = Len(w.items) + m
      BY <2>1, <2>4
    <2>6. \E x \in U \cup {r} : Size(w.items) + x.view.size > b.bytes
      BY <2>4
    <2>7. /\ m \in Nat /\ Cardinality(U) + 1 = Len(w.items) + m /\ s \in Sessions(b)
          /\ s.left["scan"] = b.scan - i
      BY <1>6, <2>1, <2>5
    <2> QED
      BY <2>3, <2>6, <2>7, AtCounts DEF U
  <1>13. CASE w.counting = None /\ s.left["results"] = 0
    <2>1. v = Stopped(met, s, behind, IncludeAnchored(seen, "results", tail))
      BY <1>11, <1>13
    <2>2. PICK d \in {"results", "deadline"} : d = "results"
      OBVIOUS
    <2>3. /\ v = Stopped(met, s, behind, IncludeAnchored(seen, d, tail))
          /\ d = "results" => s.left["results"] = 0
          /\ d = "deadline" => s.now >= b.deadline
          /\ s \in Sessions(b) /\ s.left["scan"] = b.scan - i /\ w.counting = None
          /\ d \in {"results", "deadline"}
      BY <1>6, <1>13, <2>1, <2>2
    <2> QED
      BY <1>2, <2>3, AtStops
  <1>14. ASSUME w.counting = None, s.left["results"] # 0, NEW a \in {granted, paid},
                a.refusal # None, a.refusal.dimension = "deadline", a.session.now >= b.deadline,
                v = Stopped(met, a.session, behind, IncludeAnchored(seen, a.refusal.dimension, tail))
         PROVE  Done(v, q, b, p)
    <2>1. PICK t : t = a.session
      OBVIOUS
    <2>2. t \in Sessions(b) /\ t.left["scan"] = b.scan - i
      BY <1>6, <1>9, <1>10, <1>14, <2>1
    <2>3. PICK d \in {"results", "deadline"} : d = "deadline"
      OBVIOUS
    <2>4. /\ v = Stopped(met, t, behind, IncludeAnchored(seen, d, tail))
          /\ d = "results" => s.left["results"] = 0
          /\ d = "deadline" => t.now >= b.deadline
          /\ t \in Sessions(b) /\ t.left["scan"] = b.scan - i /\ w.counting = None
          /\ d \in {"results", "deadline"}
      BY <1>14, <2>1, <2>2, <2>3
    <2> QED
      BY <1>2, <2>4, AtStops
  <1>15. s.left["results"] \in Nat /\ s.left["bytes"] \in Nat
    BY <1>6 DEF Sessions, Ceilings
  <1>16. CASE w.counting = None /\ s.left["results"] # 0 /\ granted.refusal # None
    <2>1. granted.refusal.dimension = "deadline" /\ granted.session.now >= b.deadline
      BY <1>9, <1>15, <1>16
    <2>2. v = Stopped(met, granted.session, behind,
                      IncludeAnchored(seen, granted.refusal.dimension, tail))
      BY <1>11, <1>16
    <2> QED
      BY <1>14, <1>16, <2>1, <2>2
  <1>17. CASE /\ w.counting = None /\ s.left["results"] # 0 /\ granted.refusal = None
              /\ granted.session.left["bytes"] < r.view.size
    <2>1. v = [met EXCEPT !.session = granted.session, !.counting = [omitted |-> 1, last |-> r.key]]
      BY <1>11, <1>17
    <2>2. PICK m \in Nat : m = 1
      OBVIOUS
    <2>3. PICK t \in Sessions(b) : t = granted.session
      BY <1>9
    <2>4. PICK x : x = [met EXCEPT !.session = t]
      OBVIOUS
    <2>5. v = [x EXCEPT !.counting = [omitted |-> m, last |-> r.key]]
      BY <2>1, <2>2, <2>3, <2>4
    <2>6. x = Sheet(q, p, t, w.items, w.included, r.key, i, w.counting, None)
      BY <1>2, <2>4, SheetSession
    <2>7. v = Sheet(q, p, t, w.items, w.included, r.key, i, [omitted |-> m, last |-> r.key], None)
      BY <2>5, <2>6, SheetCounting
    <2>8. /\ Shown(w.items) = U /\ Picked(w.items, U) /\ w.session.left["bytes"] = b.bytes - Size(w.items)
      BY <1>6, <1>17 DEF Going, U
    <2>9. Cardinality(U) = Len(w.items) /\ w.items \in Seq(Candidates)
      BY <1>7, <2>8, PickedLaws
    <2>10. Cardinality(U) + 1 = Len(w.items) + m
      BY <2>2, <2>9
    <2>11. Size(w.items) + r.view.size > b.bytes
      <3>1. Size(w.items) \in Nat /\ b.bytes \in Nat
        BY <1>7, <2>9, SizeLaws, BudgetsAre
      <3>2. PICK z \in Nat, k \in Nat, B \in Nat : z = Size(w.items) /\ k = r.view.size /\ B = b.bytes
        BY <1>8, <3>1
      <3>3. B - z < k
        BY <1>6, <1>9, <1>17, <2>8, <3>2
      <3>4. z + k > B
        BY <3>2, <3>3
      <3> QED
        BY <3>2, <3>4
    <2>12. \E x1 \in U \cup {r} : Size(w.items) + x1.view.size > b.bytes
      BY <2>11
    <2>13. /\ m \in Nat /\ Cardinality(U) + 1 = Len(w.items) + m /\ t \in Sessions(b)
           /\ t.left["scan"] = b.scan - i
      BY <1>6, <1>9, <2>2, <2>3, <2>10
    <2> QED
      BY <2>7, <2>12, <2>13, AtCounts DEF U
  <1>18. CASE /\ w.counting = None /\ s.left["results"] # 0 /\ granted.refusal = None
              /\ ~(granted.session.left["bytes"] < r.view.size) /\ paid.refusal # None
    <2>1. paid.refusal.dimension = "deadline" /\ paid.session.now >= b.deadline
      BY <1>9, <1>10, <1>18
    <2>2. v = Stopped(met, paid.session, behind, IncludeAnchored(seen, paid.refusal.dimension, tail))
      BY <1>11, <1>18
    <2> QED
      BY <1>14, <1>18, <2>1, <2>2
  <1>19. CASE /\ w.counting = None /\ s.left["results"] # 0 /\ granted.refusal = None
              /\ ~(granted.session.left["bytes"] < r.view.size) /\ paid.refusal = None
    <2>1. v = [met EXCEPT !.session = paid.session, !.items = Append(w.items, r), !.included = r.key]
      BY <1>11, <1>19
    <2>2. PICK t \in Sessions(b) : t = paid.session
      BY <1>10
    <2>3. PICK items : items = Append(w.items, r)
      OBVIOUS
    <2>4. PICK x : x = [met EXCEPT !.session = t]
      OBVIOUS
    <2>5. PICK y : y = [x EXCEPT !.items = items]
      OBVIOUS
    <2>6. [met EXCEPT !.session = t, !.items = items, !.included = r.key] = [y EXCEPT !.included = r.key]
      BY <2>4, <2>5
    <2>7. x = Sheet(q, p, t, w.items, w.included, r.key, i, w.counting, None)
      BY <1>2, <2>4, SheetSession
    <2>8. y = Sheet(q, p, t, items, w.included, r.key, i, w.counting, None)
      BY <2>5, <2>7, SheetItems
    <2>9. [y EXCEPT !.included = r.key] = Sheet(q, p, t, items, r.key, r.key, i, w.counting, None)
      BY <2>8, SheetIncluded
    <2>10. v = Sheet(q, p, t, Append(w.items, r), r.key, r.key, i, None, None)
      BY <1>19, <2>1, <2>2, <2>3, <2>6, <2>9
    <2>11. /\ w.counting = None /\ t \in Sessions(b) /\ t.left["scan"] = b.scan - i
           /\ s.left["results"] > 0 /\ t.left["results"] = s.left["results"] - 1
           /\ r.view.size <= s.left["bytes"] /\ t.left["bytes"] = s.left["bytes"] - r.view.size
      BY <1>6, <1>9, <1>10, <1>19, <2>2
    <2> QED
      BY <2>10, <2>11, AtTakes
  <1> QED
    BY <1>12, <1>13, <1>16, <1>17, <1>18, <1>19

(* One record of the walk.                                                   *)
LEMMA ExamineStep ==
    ASSUME Stored, NEW q \in Queries, NEW b \in PageBudgets, NEW p \in Payloads \cup {None},
           p # None => p.fingerprint = FingerprintOf[CanonicalBytes(q)],
           NEW i \in 1..Len(Line(q, p)), NEW h \in Nat, i = h + 1,
           NEW w, Going(w, q, b, p, h), NEW v, v = Examine(w, Line(q, p), i)
    PROVE  Going(v, q, b, p, i) \/ Done(v, q, b, p)
  <1> DEFINE L == Line(q, p)
             tail == L[BatchEnd(L, i)].key
             behind == BatchEnd(L, i) - i
             past == p # None /\ KeyBefore(p.snapshot, L[i].key)
  <1>1. CASE past
    <2>1. p \in Payloads
      BY <1>1
    <2> QED
      BY <1>1, <2>1, ExamineBoundary
  <1>2. CASE ~past /\ Allow(w.session, "scan", 1).refusal # None
    BY <1>2, ExamineRefused
  <1>3. CASE ~past /\ Allow(w.session, "scan", 1).refusal = None
    <2>1. /\ Shape(w, q, b, p) /\ w.session \in Sessions(b) /\ w.scanned = h /\ w.stopped = None
          /\ w.session.left["scan"] = b.scan - h /\ w.session.left["scan"] \in Nat /\ b.scan \in Nat
          /\ w.presented = p /\ w.query = q
      BY GoingSession
    <2>2. PICK r : r = L[i]
      OBVIOUS
    <2>3. PICK charge : charge = Allow(w.session, "scan", 1)
      OBVIOUS
    <2>4. PICK seen : seen = [w EXCEPT !.examined = r.key, !.scanned = i]
      OBVIOUS
    <2>5. v = IF Matches(q, r.view) THEN Offer(seen, r, charge.session, behind, tail)
              ELSE [seen EXCEPT !.session = charge.session]
      BY <1>3, <2>1, <2>2, <2>3, <2>4 DEF Examine
    <2>6. seen = Sheet(q, p, w.session, w.items, w.included, r.key, i, w.counting, None)
      <3>1. PICK x : x = [w EXCEPT !.examined = r.key]
        OBVIOUS
      <3>2. seen = [x EXCEPT !.scanned = i]
        BY <2>4, <3>1
      <3>3. x = Sheet(q, p, w.session, w.items, w.included, r.key, w.scanned, w.counting, w.stopped)
        BY <2>1, <3>1, SheetExamined DEF Shape
      <3>4. seen = Sheet(q, p, w.session, w.items, w.included, r.key, i, w.counting, w.stopped)
        BY <3>2, <3>3, SheetScanned
      <3> QED
        BY <2>1, <3>4
    <2>7. PICK s : s = charge.session
      OBVIOUS
    <2>8. At(w, r, s, q, b, p, h, i)
      <3>1. PICK one \in Nat : one = 1
        OBVIOUS
      <3>2. "results" \in Ceilings /\ "scan" \in Ceilings /\ "bytes" \in Ceilings
        BY DEF Ceilings
      <3>3. charge = Allow(w.session, "scan", one) /\ one \in Nat /\ w.session \in Sessions(b)
        BY <2>1, <2>3, <3>1
      <3>4. /\ charge.session \in Sessions(b)
            /\ \A e \in Ceilings : e # "scan" => charge.session.left[e] = w.session.left[e]
            /\ charge.refusal = None => charge.session.left["scan"] = w.session.left["scan"] - one
        BY <3>2, <3>3, AllowIs
      <3>5. s \in Sessions(b) /\ s.left["scan"] = w.session.left["scan"] - 1
        BY <1>3, <2>3, <2>7, <3>1, <3>4
      <3>6. s.left["scan"] = b.scan - i
        BY <2>1, <3>5
      <3>7. s.left["results"] = w.session.left["results"] /\ s.left["bytes"] = w.session.left["bytes"]
        BY <2>7, <3>2, <3>4
      <3> QED
        BY <2>2, <3>5, <3>6, <3>7 DEF At
    <2>9. r \in DueOf(q, p) <=> Matches(q, r.view)
      BY <1>3, <2>2, LineIs
    <2>10. tail \in ResidencyKeys /\ behind \in Nat
      BY NextRecord
    <2> HIDE DEF tail, behind, L
    <2>11. CASE Matches(q, r.view)
      <3>1. v = Offer(seen, r, s, behind, tail) /\ r \in DueOf(q, p)
        BY <2>5, <2>7, <2>9, <2>11
      <3> QED
        BY <2>6, <2>8, <2>10, <3>1, OfferStep
    <2>12. CASE ~Matches(q, r.view)
      <3>1. v = [seen EXCEPT !.session = s] /\ r \notin DueOf(q, p)
        BY <2>5, <2>7, <2>9, <2>12
      <3>2. v = Sheet(q, p, s, w.items, w.included, r.key, i, w.counting, None)
        BY <2>6, <3>1, SheetSession
      <3> QED
        BY <2>8, <3>1, <3>2, AtPasses
    <2> QED
      BY <2>11, <2>12
  <1> QED
    BY <1>1, <1>2, <1>3

-----------------------------------------------------------------------------
(* A whole page.                                                             *)

LEMMA BeginGoing ==
    ASSUME Stored, NEW q \in Queries, NEW b \in PageBudgets, NEW p \in Payloads \cup {None},
           NEW w, w = Begin(q, b, p)
    PROVE  Going(w, q, b, p, 0) /\ w.counting = None
  <1> DEFINE U == DueTo(Line(q, p), DueOf(q, p), 0)
  <1>1. w = Sheet(q, p, AdmitBudget(b), <<>>, None, None, 0, None, None)
    BY DEF Begin, Sheet
  <1>2. PICK s \in Sessions(b) : s = AdmitBudget(b) /\ \A d \in Ceilings : s.left[d] = b[d]
    BY BudgetsAre
  <1>3. PICK none : none = <<>>
    OBVIOUS
  <1>4. PICK zero : zero = 0
    OBVIOUS
  <1>5. w = Sheet(q, p, s, none, None, None, zero, None, None)
    BY <1>1, <1>2, <1>3, <1>4
  <1>6. /\ w.session = s /\ w.items = none /\ w.included = None /\ w.examined = None
        /\ w.scanned = zero /\ w.counting = None /\ w.stopped = None
        /\ w = Sheet(q, p, w.session, w.items, w.included, w.examined, w.scanned, w.counting, w.stopped)
    BY <1>5 DEF Sheet
  <1>7. Shape(w, q, b, p)
    BY <1>2, <1>6 DEF Shape
  <1>8. Len(none) = 0 /\ Size(none) = 0
    <2>1. Size(<<>>) = 0
      <3>1. DOMAIN [i \in DOMAIN <<>> |-> <<>>[i].view.size] = {}
        OBVIOUS
      <3>2. SumFunctionOnSet([i \in DOMAIN <<>> |-> <<>>[i].view.size], {}) = 0
        BY TotalUnfolds, FS_EmptySet
      <3> QED
        BY <3>1, <3>2 DEF Size, SumFunction
    <2> QED
      BY <1>3, <2>1
  <1>9. U = {}
    BY DEF DueTo
  <1>10. Picked(none, U) /\ Shown(none) = U
    BY <1>3, <1>9, PickedNone
  <1>11. b.results \in Nat /\ b.bytes \in Nat /\ b.scan \in Nat
    BY BudgetsAre
  <1>12. s.left["results"] = b.results /\ s.left["bytes"] = b.bytes /\ s.left["scan"] = b.scan
    BY <1>2 DEF Ceilings
  <1> HIDE DEF U
  <1>13. /\ Len(w.items) <= b.results /\ Size(w.items) <= b.bytes
         /\ w.session.left["results"] = b.results - Len(w.items)
         /\ w.session.left["bytes"] = b.bytes - Size(w.items)
         /\ w.session.left["scan"] = b.scan - 0
    BY <1>6, <1>8, <1>11, <1>12
  <1>14. Picked(w.items, U) /\ Shown(w.items) = U /\ w.scanned = 0
    BY <1>4, <1>6, <1>10
  <1> QED
    BY <1>6, <1>7, <1>9, <1>13, <1>14 DEF Going, U

LEMMA WalkSteps ==
    ASSUME Stored, NEW q \in Queries, NEW b \in PageBudgets, NEW p \in Payloads \cup {None},
           p # None => p.fingerprint = FingerprintOf[CanonicalBytes(q)],
           NEW w, w[0] = Begin(q, b, p),
           \A i \in 1..Len(Line(q, p)) : w[i] = Examine(w[i - 1], Line(q, p), i)
    PROVE  \A i \in 0..Len(Line(q, p)) : Going(w[i], q, b, p, i) \/ Done(w[i], q, b, p)
  <1> DEFINE L == Line(q, p)
             N == Len(L)
             P == {i \in 0..N : Going(w[i], q, b, p, i) \/ Done(w[i], q, b, p)}
  <1>1. N \in Nat
    BY LineIs DEF InLine
  <1>2. 0 \in P
    <2>1. Going(w[0], q, b, p, 0)
      BY BeginGoing
    <2> QED
      BY <1>1, <2>1
  <1>3. ASSUME NEW i \in 1..N, i - 1 \in P
        PROVE  i \in P
    <2>1. PICK h \in Nat : h = i - 1
      BY <1>1
    <2>2. i = h + 1 /\ i \in 0..N /\ h \in P
      BY <1>1, <1>3, <2>1
    <2>3. PICK u, v : u = w[h] /\ v = w[i]
      OBVIOUS
    <2>4. v = Examine(u, L, i)
      BY <2>1, <2>3
    <2>5. Going(u, q, b, p, h) \/ Done(u, q, b, p)
      BY <2>2, <2>3
    <2>6. CASE Going(u, q, b, p, h)
      <3>1. i = h + 1 /\ h \in Nat /\ Going(u, q, b, p, h) /\ v = Examine(u, Line(q, p), i)
        BY <2>1, <2>2, <2>4, <2>6
      <3>2. Going(v, q, b, p, i) \/ Done(v, q, b, p)
        BY <3>1, ExamineStep
      <3> QED
        BY <2>2, <2>3, <3>2
    <2>7. CASE Done(u, q, b, p)
      <3>1. u.stopped # None
        BY <2>7 DEF Done
      <3>2. v = u
        BY <2>4, <3>1 DEF Examine
      <3> QED
        BY <2>2, <2>3, <2>7, <3>2
    <2> QED
      BY <2>5, <2>6, <2>7
  <1>4. \A i \in 0..N : i \in P
    <2> HIDE DEF P, N
    <2> QED
      BY <1>1, <1>2, <1>3, Climbs
  <1> QED
    BY <1>4

(* Setting what it stopped with changes nothing else of a walk.              *)
LEMMA Stopping ==
    ASSUME NEW w, NEW q, NEW b, NEW p, Shape(w, q, b, p), NEW part, NEW v,
           v = [w EXCEPT !.stopped = part]
    PROVE  /\ Shape(v, q, b, p) /\ v.items = w.items /\ v.scanned = w.scanned
           /\ v.session = w.session /\ v.stopped = part
           /\ part = w.stopped => v = w
  <1>1. v = Sheet(q, p, w.session, w.items, w.included, w.examined, w.scanned, w.counting, part)
    BY SheetStopped DEF Shape
  <1>2. /\ v.session = w.session /\ v.items = w.items /\ v.scanned = w.scanned /\ v.stopped = part
        /\ v = Sheet(q, p, v.session, v.items, v.included, v.examined, v.scanned, v.counting, v.stopped)
    BY <1>1 DEF Sheet
  <1>3. w.session \in Sessions(b)
        /\ w = Sheet(q, p, w.session, w.items, w.included, w.examined, w.scanned, w.counting, w.stopped)
    BY DEF Shape
  <1>4. part = w.stopped => v = w
    BY <1>1, <1>3
  <1> QED
    BY <1>2, <1>3, <1>4 DEF Shape

LEMMA PageDone ==
    ASSUME Stored, NEW q \in Queries, NEW b \in PageBudgets, NEW p \in Payloads \cup {None},
           p # None => p.fingerprint = FingerprintOf[CanonicalBytes(q)], b.results # 0,
           NEW v, v = WalkRecords(q, b, p)
    PROVE  Done(v, q, b, p)
  <1> DEFINE L == Line(q, p)
             N == Len(L)
  <1>1. N \in Nat /\ InLine(L, DueOf(q, p)) /\ L \in Seq(Candidates)
    BY LineIs DEF InLine
  <1>2. PICK w : /\ w[0] = Begin(q, b, p)
                 /\ \A i \in 1..N : w[i] = Examine(w[i - 1], L, i)
                 /\ v = IF b.results = 0 THEN [Begin(q, b, p) EXCEPT !.stopped = Whole]
                        ELSE [w[N] EXCEPT !.stopped =
                                IF L = <<>> THEN Whole
                                ELSE IF w[N].stopped # None THEN w[N].stopped
                                ELSE FinishCounting(w[N], L[N].key)]
    BY <1>1, WalkIs
  <1>3. PICK u : u = w[N]
    OBVIOUS
  <1>4. PICK part : part = IF L = <<>> THEN Whole ELSE IF u.stopped # None THEN u.stopped
                           ELSE FinishCounting(u, L[N].key)
    OBVIOUS
  <1>5. v = [u EXCEPT !.stopped = part]
    BY <1>2, <1>3, <1>4
  <1>6. Going(u, q, b, p, N) \/ Done(u, q, b, p)
    <2>1. \A i \in 0..N : Going(w[i], q, b, p, i) \/ Done(w[i], q, b, p)
      BY <1>2, WalkSteps
    <2>2. N \in 0..N
      BY <1>1
    <2> QED
      BY <1>3, <2>1, <2>2
  <1>7. DueTo(L, DueOf(q, p), N) = DueOf(q, p) /\ N \in 0..N
    <2>1. N \in 0..N
      BY <1>1
    <2> QED
      BY <1>1, <2>1, LineLaws
  <1>8. CASE Done(u, q, b, p) /\ L # <<>>
    <2>1. Shape(u, q, b, p) /\ u.stopped # None
      BY <1>8 DEF Done
    <2>2. part = u.stopped
      BY <1>4, <1>8, <2>1
    <2>3. v = u
      BY <1>5, <2>1, <2>2, Stopping
    <2> QED
      BY <1>8, <2>3
  <1>9. ASSUME Going(u, q, b, p, N)
        PROVE  Closes(v, u, q, b, p) /\ v.stopped = part /\ u.stopped = None
    <2>1. /\ Shape(u, q, b, p) /\ u.session \in Sessions(b) /\ u.scanned = N /\ u.stopped = None
          /\ u.session.left["scan"] = b.scan - N /\ u.session.left["scan"] \in Nat /\ b.scan \in Nat
      BY <1>1, <1>9, GoingSession
    <2>2. /\ Shape(v, q, b, p) /\ v.items = u.items /\ v.scanned = u.scanned
          /\ v.session = u.session /\ v.stopped = part
      BY <1>5, <2>1, Stopping
    <2>3. /\ v.scanned \in Nat /\ v.scanned <= b.scan
          /\ v.session.left["scan"] \in 0 .. b.scan - v.scanned
      BY <1>1, <2>1, <2>2
    <2> QED
      BY <2>1, <2>2, <2>3 DEF Closes
  <1>10. CASE Going(u, q, b, p, N) /\ L # <<>>
    <2>1. N \in 1..N
      BY <1>1, <1>10
    <2>2. L[N] \in Candidates
      BY <1>1, <2>1
    <2>3. PICK tail \in ResidencyKeys : tail = L[N].key
      BY <2>2, CandidatesAre
    <2>4. v.stopped = FinishCounting(u, tail) /\ Closes(v, u, q, b, p)
      BY <1>4, <1>9, <1>10, <2>3
    <2>5. /\ tail \in ResidencyKeys /\ N \in 0..Len(Line(q, p)) /\ Going(u, q, b, p, N)
          /\ DueTo(Line(q, p), DueOf(q, p), N) = DueOf(q, p)
      BY <1>7, <1>10, <2>3
    <2> HIDE DEF N
    <2> QED
      BY <2>4, <2>5, FinishDone
  <1>11. CASE L = <<>>
    <2>1. PICK zero \in Nat : zero = 0 /\ zero = N
      BY <1>11
    <2>2. Going(u, q, b, p, zero) /\ u.counting = None
      <3>1. u = Begin(q, b, p)
        BY <1>2, <1>3, <2>1
      <3> QED
        BY <2>1, <3>1, BeginGoing
    <2>3. Closes(v, u, q, b, p) /\ v.stopped = part
      BY <1>9, <2>1, <2>2
    <2>4. v.stopped = Whole /\ u.counting = None /\ Closes(v, u, q, b, p)
      BY <1>4, <1>11, <2>2, <2>3
    <2>5. /\ zero \in 0..Len(Line(q, p)) /\ Going(u, q, b, p, zero)
          /\ DueTo(Line(q, p), DueOf(q, p), zero) = DueOf(q, p)
      BY <1>7, <2>1, <2>2
    <2> QED
      BY <2>4, <2>5, CloseWhole
  <1> QED
    BY <1>6, <1>8, <1>10, <1>11

LEMMA NoPage ==
    ASSUME NEW q \in Queries, NEW b \in PageBudgets, NEW p \in Payloads \cup {None}, Stored,
           b.results = 0, NEW v, v = WalkRecords(q, b, p)
    PROVE  v.stopped.cursor = None
  <1>1. Len(Line(q, p)) \in Nat
    BY LineIs DEF InLine
  <1>2. v = [Begin(q, b, p) EXCEPT !.stopped = Whole]
    BY <1>1, WalkIs
  <1>3. PICK w : w = Begin(q, b, p)
    OBVIOUS
  <1>4. v.stopped = Whole
    BY <1>2 DEF Begin
  <1> QED
    BY <1>4 DEF Whole, Part

-----------------------------------------------------------------------------
(* What an answer holds.                                                     *)

(* D is exactly accounted for by a page (PageExact), in its budget b.        *)
Exact(page, D) ==
    LET shown == {page.items[i] : i \in DOMAIN page.items}
        cursor == page.stopped.cursor
    IN  /\ shown \subseteq D
        /\ \A i, j \in DOMAIN page.items :
             i < j => KeyBefore(page.items[i].key, page.items[j].key)
        /\ \A r \in D, s \in shown : KeyBefore(r.key, s.key) => r \in shown
        /\ page.stopped.outcome = "Complete" => shown = D
        /\ cursor # None =>
             LET next == Parse(cursor)
             IN  /\ Cardinality({r \in D : ~KeyBefore(Resume(next), r.key)})
                      = Len(page.items) + page.stopped.omitted
                 /\ page.presented # None => next.snapshot = page.presented.snapshot
Truthful(page, budget, D) ==
    LET size == SumFunction([i \in DOMAIN page.items |-> page.items[i].view.size])
        named == page.stopped.dimension
    IN  /\ Len(page.items) <= budget.results
        /\ size <= budget.bytes
        /\ page.scanned <= budget.scan
        /\ page.session.left.scan \in 0 .. budget.scan - page.scanned
        /\ page.stopped.outcome = "Complete" <=> named = None
        /\ named = "results" => Len(page.items) = budget.results
        /\ named = "scan" => page.scanned = budget.scan
        /\ named = "bytes" => \E r \in D : size + r.view.size > budget.bytes
        /\ named = "deadline" => page.session.now >= budget.deadline
        /\ page.stopped.outcome = "Refused" =>
             /\ page.scanned = 0
             /\ page.stopped.refusal.observed >= page.stopped.refusal.limit

LEMMA DoneExact ==
    ASSUME NEW q \in Queries, NEW b \in PageBudgets, NEW p \in Payloads \cup {None},
           NEW v, Done(v, q, b, p)
    PROVE  Exact(v, DueOf(q, p))
  <1> DEFINE D == DueOf(q, p)
             shown == {v.items[i] : i \in DOMAIN v.items}
             part == v.stopped
             next == Parse(part.cursor)
  <1>1. Picked(v.items, D) /\ v.presented = p /\ shown = Shown(v.items)
    BY DEF Done, Shape, Sheet, Shown
  <1>2. DOMAIN v.items = 1..Len(v.items) /\ \A i \in 1..Len(v.items) : v.items[i] \in D
    BY <1>1 DEF Picked
  <1>3. shown \subseteq D
    BY <1>2
  <1>4. \A i, j \in DOMAIN v.items : i < j => KeyBefore(v.items[i].key, v.items[j].key)
    BY <1>1, <1>2 DEF Picked
  <1>5. \A r \in D, s \in shown : KeyBefore(r.key, s.key) => r \in shown
    <2> TAKE r \in D, s \in shown
    <2> HAVE KeyBefore(r.key, s.key)
    <2>1. PICK j \in 1..Len(v.items) : s = v.items[j]
      BY <1>2
    <2> HIDE DEF D, shown
    <2> QED
      BY <1>1, <2>1 DEF Picked
  <1>6. part.outcome = "Complete" => shown = D
    BY <1>1 DEF Done
  <1>7. ASSUME part.cursor # None
        PROVE  /\ Cardinality({r \in D : ~KeyBefore(Resume(next), r.key)}) = Len(v.items) + part.omitted
               /\ v.presented # None => next.snapshot = v.presented.snapshot
    <2>1. PICK a \in ResidencyKeys : /\ Points(part.cursor, q, p, a)
                                     /\ Cardinality(Reach(a, D)) = Len(v.items) + part.omitted
      BY <1>7 DEF Done
    <2>2. PICK c \in Payloads : /\ part.cursor = Encode(c) /\ Resume(c) = a
                                /\ p # None => c.snapshot = p.snapshot
      BY <2>1 DEF Points
    <2>3. next = c
      BY <2>2, EncodeBack
    <2>4. Reach(a, D) = {r \in D : ~KeyBefore(Resume(next), r.key)}
      BY <2>2, <2>3 DEF Reach
    <2> QED
      BY <1>1, <2>1, <2>2, <2>3, <2>4
  <1> HIDE DEF D
  <1> QED
    BY <1>3, <1>4, <1>5, <1>6, <1>7 DEF Exact, D

LEMMA DoneTruthful ==
    ASSUME NEW q \in Queries, NEW b \in PageBudgets, NEW p \in Payloads \cup {None},
           NEW v, Done(v, q, b, p)
    PROVE  Truthful(v, b, DueOf(q, p))
  BY DEF Done, Truthful, Size

(* A page's cursor is one that was minted for its query.                     *)
Mint(m) ==
    /\ m.query \in Queries
    /\ \E c \in Payloads : /\ m.bytes = Encode(c) /\ m.boundary = c.snapshot
                           /\ c.fingerprint = FingerprintOf[CanonicalBytes(m.query)]
MintedAll == \A m \in minted : Mint(m)

LEMMA MintIs ==
    ASSUME NEW q \in Queries, NEW b \in PageBudgets, NEW p \in Payloads \cup {None},
           p # None => p.fingerprint = FingerprintOf[CanonicalBytes(q)],
           Stored, NEW v, v = WalkRecords(q, b, p), v.stopped.cursor # None,
           NEW m, m = [bytes |-> v.stopped.cursor, query |-> q,
                       boundary |-> Parse(v.stopped.cursor).snapshot]
    PROVE  Mint(m)
  <1>1. b.results # 0
    BY NoPage
  <1>2. Done(v, q, b, p)
    BY <1>1, PageDone
  <1>3. PICK a : Points(v.stopped.cursor, q, p, a)
    BY <1>2 DEF Done
  <1>4. PICK c \in Payloads : /\ v.stopped.cursor = Encode(c)
                              /\ c.fingerprint = FingerprintOf[CanonicalBytes(q)]
    BY <1>3 DEF Points
  <1>5. Parse(v.stopped.cursor) = c
    BY <1>4, EncodeBack
  <1> QED
    BY <1>4, <1>5 DEF Mint

(* When a presented cursor is taken up.                                      *)
LEMMA ErrorNone ==
    ASSUME NEW q \in Queries, NEW bytes \in Seq(Byte), NEW lease,
           CursorError(bytes, FingerprintOf[CanonicalBytes(q)], lease) = None
    PROVE  /\ Parse(bytes) \in Payloads /\ Encode(Parse(bytes)) = bytes
           /\ Parse(bytes).fingerprint = FingerprintOf[CanonicalBytes(q)]
  <1>1. Parse(bytes) # None /\ Parse(bytes).fingerprint = FingerprintOf[CanonicalBytes(q)]
    BY CursorsAssumption DEF CursorError
  <1> QED
    BY <1>1, ParseBack

LEMMA BelongsExactly ==
    ASSUME NEW q \in Queries, NEW m, Mint(m), NEW boundary \in ResidencyKeys \cup {None}, NEW lease,
           lease = IF boundary = None THEN None ELSE SnapshotLease(1, boundary)
    PROVE  CursorError(m.bytes, FingerprintOf[CanonicalBytes(q)], lease) = None
             <=> m.query = q /\ (boundary # None => boundary = m.boundary)
  <1>1. PICK c \in Payloads : /\ m.bytes = Encode(c) /\ m.boundary = c.snapshot
                              /\ c.fingerprint = FingerprintOf[CanonicalBytes(m.query)]
    BY DEF Mint
  <1>2. Parse(m.bytes) = c /\ c # None /\ c.snapshot \in ResidencyKeys
    BY <1>1, EncodeBack, ResumeIs
  <1>3. c.fingerprint = FingerprintOf[CanonicalBytes(q)] <=> m.query = q
    <2>1. m.query \in Queries
      BY DEF Mint
    <2>2. c.fingerprint = FingerprintOf[CanonicalBytes(q)] => CanonicalBytes(m.query) = CanonicalBytes(q)
      BY <1>1, <2>1, PagesAssumption
    <2>3. WellFormed(m.query) /\ WellFormed(q)
      BY <2>1, PagesAssumption
    <2> QED
      BY <1>1, <2>2, <2>3, CanonicalTells
  <1>4. (lease # None /\ ~Governs(lease, c.snapshot)) <=> (boundary # None /\ boundary # c.snapshot)
    <2>1. CASE boundary = None
      BY <2>1
    <2>2. CASE boundary # None
      <3>1. boundary \in ResidencyKeys /\ lease = [investigation |-> 1, snapshot |-> BoundaryBytes(boundary)]
        BY <2>2 DEF SnapshotLease, SnapshotFingerprint
      <3>2. BoundaryBytes(boundary) \in Seq(Byte)
        <4>1. boundary.at \in Words /\ boundary.entity \in Entities
          BY <3>1 DEF ResidencyKeys
        <4>2. Word(boundary.at) \in Seq(Byte) /\ PushEntity(boundary.entity) \in Seq(Byte)
          BY <4>1, PushedIs, ApartWords DEF Apart
        <4> QED
          BY <4>2, BytesJoined DEF BoundaryBytes
      <3>3. lease # None
        <4>1. lease \in [investigation : Nat, snapshot : Seq(Byte)]
          BY <3>1, <3>2
        <4> QED
          BY <4>1, CursorsAssumption
      <3>4. Governs(lease, c.snapshot) <=> BoundaryBytes(boundary) = BoundaryBytes(c.snapshot)
        BY <3>1 DEF Governs, SnapshotFingerprint
      <3>5. BoundaryBytes(boundary) = BoundaryBytes(c.snapshot) <=> boundary = c.snapshot
        BY <1>2, <3>1, BoundaryTells
      <3> QED
        BY <2>2, <3>3, <3>4, <3>5
    <2> QED
      BY <2>1, <2>2
  <1>5. CursorError(m.bytes, FingerprintOf[CanonicalBytes(q)], lease) = None
          <=> /\ c.fingerprint = FingerprintOf[CanonicalBytes(q)]
              /\ ~(lease # None /\ ~Governs(lease, c.snapshot))
    BY <1>2, CursorsAssumption DEF CursorError
  <1> QED
    BY <1>1, <1>3, <1>4, <1>5

(* Every answer given is as its properties say.                              *)
Answers == CursorsBelong /\ PageExact /\ SpendTruthful

LEMMA AskHolds ==
    ASSUME Stored, MintedAll, NEW q \in Queries, NEW b \in PageBudgets,
           NEW bytes \in Seq(Byte) \cup {None}, NEW boundary \in ResidencyKeys \cup {None},
           Ask(q, b, bytes, boundary)
    PROVE  MintedAll' /\ Answers'
  <1>1. PICK lease : lease = IF boundary = None THEN None ELSE SnapshotLease(1, boundary)
    OBVIOUS
  <1>2. PICK error : error = IF bytes = None THEN None
                             ELSE CursorError(bytes, FingerprintOf[CanonicalBytes(q)], lease)
    OBVIOUS
  <1>3. PICK p : p = IF bytes = None THEN None ELSE Parse(bytes)
    OBVIOUS
  <1>4. PICK v : v = WalkRecords(q, b, p)
    OBVIOUS
  <1>5. PICK asked : asked = [query |-> q, budget |-> b, bytes |-> bytes, boundary |-> boundary]
    OBVIOUS
  <1>6. /\ resident' = resident
        /\ error # None => answer' = [asked |-> asked, error |-> error, page |-> None]
                           /\ minted' = minted
        /\ error = None => answer' = [asked |-> asked, error |-> None, page |-> v]
                           /\ minted' = minted \cup
                                {[bytes |-> c, query |-> q, boundary |-> Parse(c).snapshot] :
                                   c \in {v.stopped.cursor} \ {None}}
    BY <1>1, <1>2, <1>3, <1>4, <1>5 DEF Ask
  <1>7. /\ answer'.asked = asked /\ answer'.error = error
        /\ error = None => answer'.page = v
        /\ error # None => answer'.page = None
    BY <1>6
  <1>8. error = None => /\ p \in Payloads \cup {None} /\ (bytes # None => Encode(p) = bytes)
                        /\ p # None => p.fingerprint = FingerprintOf[CanonicalBytes(q)]
    <2>1. CASE bytes = None
      BY <1>3, <2>1
    <2>2. CASE bytes # None
      <3>1. bytes \in Seq(Byte) /\ p = Parse(bytes)
        BY <1>3, <2>2
      <3>2. error = None => CursorError(bytes, FingerprintOf[CanonicalBytes(q)], lease) = None
        BY <1>2, <2>2
      <3>3. error = None => /\ Parse(bytes) \in Payloads /\ Encode(Parse(bytes)) = bytes
                            /\ Parse(bytes).fingerprint = FingerprintOf[CanonicalBytes(q)]
        BY <3>1, <3>2, ErrorNone
      <3> QED
        BY <3>1, <3>3
    <2> QED
      BY <2>1, <2>2
  <1>9. ASSUME NEW m \in minted'
        PROVE  Mint(m)
    <2>1. CASE m \in minted
      BY <2>1 DEF MintedAll
    <2>2. CASE m \notin minted
      <3>1. /\ error = None /\ v.stopped.cursor # None
            /\ m = [bytes |-> v.stopped.cursor, query |-> q,
                    boundary |-> Parse(v.stopped.cursor).snapshot]
        BY <1>6, <1>9, <2>2
      <3>2. /\ p \in Payloads \cup {None}
            /\ p # None => p.fingerprint = FingerprintOf[CanonicalBytes(q)]
        BY <1>8, <3>1
      <3> QED
        BY <1>4, <3>1, <3>2, MintIs
    <2> QED
      BY <2>1, <2>2
  <1>10. MintedAll'
    BY <1>9 DEF MintedAll, Mint
  <1>11. CursorsBelong'
    <2>1. SUFFICES ASSUME bytes # None
                   PROVE  /\ \A m \in minted' : m.bytes = bytes =>
                               (error = None <=> /\ m.query = q
                                                 /\ boundary # None => boundary = m.boundary)
                          /\ error = None => Encode(Parse(bytes)) = bytes
      BY <1>5, <1>7 DEF CursorsBelong, Of
    <2>2. ASSUME NEW m \in minted', m.bytes = bytes
          PROVE  error = None <=> m.query = q /\ (boundary # None => boundary = m.boundary)
      <3>1. error = CursorError(m.bytes, FingerprintOf[CanonicalBytes(q)], lease)
        BY <1>2, <2>1, <2>2
      <3>2. CursorError(m.bytes, FingerprintOf[CanonicalBytes(q)], lease) = None
              <=> m.query = q /\ (boundary # None => boundary = m.boundary)
        BY <1>1, <1>9, <2>2, BelongsExactly
      <3> QED
        BY <3>1, <3>2
    <2>3. error = None => Encode(Parse(bytes)) = bytes
      BY <1>3, <1>8, <2>1
    <2> QED
      BY <2>2, <2>3
  <1>12. ASSUME Answered', answer'.asked.budget.results > 0
         PROVE  /\ error = None /\ answer'.page = v /\ Done(v, q, b, p) /\ v.query = q /\ v.presented = p
                /\ p \in Payloads \cup {None} /\ answer'.asked.budget = b
    <2>1. error = None /\ answer'.page = v
      BY <1>7, <1>12 DEF Answered
    <2>2. answer'.asked.budget = b /\ b.results # 0
      <3>1. answer'.asked.budget = b
        BY <1>5, <1>7
      <3> QED
        BY <1>12, <3>1
    <2>3. /\ p \in Payloads \cup {None} /\ b.results # 0
          /\ p # None => p.fingerprint = FingerprintOf[CanonicalBytes(q)]
      BY <1>8, <2>1, <2>2
    <2>4. Done(v, q, b, p)
      BY <1>4, <2>3, PageDone
    <2>5. v.query = q /\ v.presented = p
      BY <2>4 DEF Done, Shape, Sheet
    <2> QED
      BY <2>1, <2>2, <2>3, <2>4, <2>5
  <1>13. ASSUME answer'.page = v, v.query = q, v.presented = p
         PROVE  {r \in Window(answer.page)' : Belongs(answer'.page.query, r.view)} = DueOf(q, p)
    BY <1>6, <1>13 DEF DueOf, Window, OfKind
  <1>14. PageExact'
    <2>1. SUFFICES ASSUME Answered', answer'.asked.budget.results > 0
                   PROVE  Exact(answer'.page, {r \in Window(answer.page)' : Belongs(answer'.page.query, r.view)})
      BY DEF PageExact, Exact
    <2>2. /\ answer'.page = v /\ Done(v, q, b, p) /\ v.query = q /\ v.presented = p
          /\ p \in Payloads \cup {None}
      BY <1>12, <2>1
    <2>3. Exact(v, DueOf(q, p))
      BY <2>2, DoneExact
    <2> QED
      BY <1>13, <2>2, <2>3
  <1>15. SpendTruthful'
    <2>1. SUFFICES ASSUME Answered', answer'.asked.budget.results > 0
                   PROVE  Truthful(answer'.page, answer'.asked.budget,
                                   {r \in Window(answer.page)' : Belongs(answer'.page.query, r.view)})
      BY DEF SpendTruthful, Truthful
    <2>2. /\ answer'.page = v /\ Done(v, q, b, p) /\ v.query = q /\ v.presented = p
          /\ p \in Payloads \cup {None} /\ answer'.asked.budget = b
      BY <1>12, <2>1
    <2>3. Truthful(v, b, DueOf(q, p))
      BY <2>2, DoneTruthful
    <2> QED
      BY <1>13, <2>2, <2>3
  <1> QED
    BY <1>10, <1>11, <1>14, <1>15 DEF Answers

(* Whatever is done to a cursor's bytes, bytes they stay.                    *)
LEMMA AlteredBytes ==
    ASSUME NEW w \in Seq(Byte), NEW u \in Alterations(w)
    PROVE  u \in Seq(Byte)
  <1>1. /\ Base \in Nat /\ Base > 0 /\ Byte = 0 .. Base - 1
    BY Widths DEF Byte
  <1>2. CASE u \in {SubSeq(w, 1, n) : n \in 0 .. Len(w) - 1}
    <2>1. PICK n \in 0 .. Len(w) - 1 : u = SubSeq(w, 1, n)
      BY <1>2
    <2> QED
      BY <2>1
  <1>3. CASE u \in {w \o <<0>>}
    <2>1. <<0>> \in Seq(Byte)
      BY <1>1
    <2> QED
      BY <1>3, <2>1
  <1>4. CASE u \in {[w EXCEPT ![i] = (@ + 1) % Base] : i \in DOMAIN w}
    <2>1. PICK i \in DOMAIN w : u = [w EXCEPT ![i] = (w[i] + 1) % Base]
      BY <1>4
    <2>2. w \in [1..Len(w) -> Byte] /\ Len(w) \in Nat /\ i \in 1..Len(w) /\ w[i] \in Nat
      BY <1>1, <2>1
    <2>3. PICK c : c = (w[i] + 1) % Base
      OBVIOUS
    <2>4. c \in Byte
      BY <1>1, <2>2, <2>3
    <2>5. u \in [1..Len(w) -> Byte]
      BY <2>1, <2>2, <2>3, <2>4
    <2> QED
      BY <2>2, <2>5
  <1> QED
    BY <1>2, <1>3, <1>4 DEF Alterations

LEMMA AskedOfMinted ==
    ASSUME MintedAll, NEW m \in minted
    PROVE  m.query \in Queries /\ m.bytes \in Seq(Byte) /\ m.boundary \in ResidencyKeys
  <1>1. Mint(m)
    BY DEF MintedAll
  <1>2. PICK c \in Payloads : m.bytes = Encode(c) /\ m.boundary = c.snapshot
    BY <1>1 DEF Mint
  <1> QED
    BY <1>1, <1>2, EncodeBack, ResumeIs DEF Mint

PagesInv == Stored /\ MintedAll /\ Answers

LEMMA PagesInit == Init => PagesInv
  <1> SUFFICES ASSUME Init
               PROVE  PagesInv
    OBVIOUS
  <1>1. Stored
    BY StoredInit
  <1>2. minted = {} /\ answer = None
    BY DEF Init
  <1>3. MintedAll
    BY <1>2 DEF MintedAll
  <1>4. Answers
    BY <1>2 DEF Answers, CursorsBelong, PageExact, SpendTruthful, Answered
  <1> QED
    BY <1>1, <1>3, <1>4 DEF PagesInv

LEMMA PagesNext == PagesInv /\ [Next]_vars => PagesInv'
  <1> SUFFICES ASSUME PagesInv, [Next]_vars
               PROVE  MintedAll' /\ Answers'
    BY StoredNext DEF PagesInv
  <1>1. Stored /\ MintedAll /\ Answers
    BY DEF PagesInv
  <1>2. CASE Keep \/ Evict
    <2>1. minted' = minted /\ answer' = None
      BY <1>2 DEF Keep, Evict
    <2>2. MintedAll'
      BY <1>1, <2>1 DEF MintedAll, Mint
    <2>3. Answers'
      BY <2>1 DEF Answers, CursorsBelong, PageExact, SpendTruthful, Answered
    <2> QED
      BY <2>2, <2>3
  <1>3. CASE FirstPage
    <2>1. PICK q \in Queries, b \in PageBudgets : Ask(q, b, None, None)
      BY <1>3 DEF FirstPage
    <2>2. PICK bytes \in Seq(Byte) \cup {None}, boundary \in ResidencyKeys \cup {None} :
            bytes = None /\ boundary = None
      OBVIOUS
    <2>3. Ask(q, b, bytes, boundary) /\ q \in Queries /\ b \in PageBudgets
      BY <2>1, <2>2
    <2> QED
      BY <1>1, <2>2, <2>3, AskHolds
  <1>4. ASSUME NEW m \in minted, NEW q \in {m.query} \cup Queries, NEW b \in PageBudgets,
               NEW bytes \in {m.bytes} \cup Alterations(m.bytes),
               NEW boundary \in {m.boundary, None} \cup {c.key : c \in Candidates},
               Ask(q, b, bytes, boundary)
        PROVE  MintedAll' /\ Answers'
    <2>1. m.query \in Queries /\ m.bytes \in Seq(Byte) /\ m.boundary \in ResidencyKeys
      BY <1>1, AskedOfMinted
    <2>2. bytes \in Seq(Byte) \cup {None}
      BY <2>1, AlteredBytes
    <2>3. boundary \in ResidencyKeys \cup {None}
      BY <2>1, CandidatesAre
    <2> QED
      BY <1>1, <1>4, <2>1, <2>2, <2>3, AskHolds
  <1>5. Probe \in PageBudgets
    BY PagesAssumption
  <1>6. CASE Continue
    BY <1>4, <1>6 DEF Continue
  <1>7. CASE ContinueElsewhere
    BY <1>4, <1>5, <1>7 DEF ContinueElsewhere
  <1>8. CASE ContinueLeased
    BY <1>4, <1>5, <1>8 DEF ContinueLeased
  <1>9. CASE ContinueAltered
    BY <1>4, <1>5, <1>9 DEF ContinueAltered
  <1>10. CASE UNCHANGED vars
    <2> DEFINE due == {r \in Window(answer.page) : Belongs(answer.page.query, r.view)}
    <2>1. resident' = resident /\ minted' = minted /\ answer' = answer
      BY <1>10 DEF vars
    <2>2. MintedAll'
      BY <1>1, <2>1 DEF MintedAll, Mint
    <2>3. CursorsBelong'
      BY <1>1, <2>1 DEF Answers, CursorsBelong, Of
    <2>4. due' = due
      BY <2>1 DEF Window, OfKind
    <2>5. PageExact <=> (Answered /\ answer.asked.budget.results > 0 => Exact(answer.page, due))
      BY DEF PageExact, Exact
    <2>6. PageExact' <=> (Answered' /\ answer'.asked.budget.results > 0 => Exact(answer'.page, due'))
      BY DEF PageExact, Exact
    <2>7. SpendTruthful <=> (Answered /\ answer.asked.budget.results > 0
                               => Truthful(answer.page, answer.asked.budget, due))
      BY DEF SpendTruthful, Truthful
    <2>8. SpendTruthful' <=> (Answered' /\ answer'.asked.budget.results > 0
                                => Truthful(answer'.page, answer'.asked.budget, due'))
      BY DEF SpendTruthful, Truthful
    <2>9. Answered' <=> Answered
      BY <2>1 DEF Answered
    <2> HIDE DEF due
    <2>10. PageExact' /\ SpendTruthful'
      BY <1>1, <2>1, <2>4, <2>5, <2>6, <2>7, <2>8, <2>9 DEF Answers
    <2> QED
      BY <2>2, <2>3, <2>10 DEF Answers
  <1> QED
    BY <1>2, <1>3, <1>6, <1>7, <1>8, <1>9, <1>10 DEF Next

LEMMA PagesAlways == Spec => []PagesInv
  BY PagesInit, PagesNext, PTL DEF Spec

(* A continuation cursor is taken up under the query it was minted for, and  *)
(* under a lease only of its own boundary, and never refused there; any      *)
(* bytes taken up are the one encoding of what they decode to, whatever was  *)
(* cut from, run onto or changed in a minted cursor (query/src/cursor.rs     *)
(* decode, query/src/lease.rs governs).                                      *)
THEOREM CursorsAlwaysBelong == Spec => []CursorsBelong
  <1>1. PagesInv => CursorsBelong
    BY DEF PagesInv, Answers
  <1> QED
    BY <1>1, PagesAlways, PTL

(* A page is the first of the records asked for, in residency order and once *)
(* each, a complete page all of them, and its cursor steps over exactly what *)
(* was shown or counted as omitted, while records are kept and evicted       *)
(* between the pages (query/src/engine.rs, the records walk).                *)
THEOREM PagesAreExact == Spec => []PageExact
  <1>1. PagesInv => PageExact
    BY DEF PagesInv, Answers
  <1> QED
    BY <1>1, PagesAlways, PTL

(* A page stays inside the budget it was admitted with, and the dimension it *)
(* names is the one that ran out (query/src/spend.rs, ExecutionBudget).      *)
THEOREM SpendIsTruthful == Spec => []SpendTruthful
  <1>1. PagesInv => SpendTruthful
    BY DEF PagesInv, Answers
  <1> QED
    BY <1>1, PagesAlways, PTL
=============================================================================
