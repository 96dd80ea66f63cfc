------------------------- MODULE InvestigationProofs -------------------------
(***************************************************************************)
(* Proofs about the trace investigation and the correlation engine under   *)
(* it, for every value of the constants: the engine's bounds, the          *)
(* completeness and the truth of its answer (from EngineCore), then the    *)
(* waterfall, the evidence of the flow and its envelope (from FlowCore).   *)
(***************************************************************************)
EXTENDS TraceInvestigation, Collections

KindSet == {"span", "log", "point"}

(* What the engine's interface takes.                                        *)
GoodBounds(c) ==
    /\ c.strategies \in Seq(Strategies)
    /\ c.subject \in Nat \cup {None} /\ c.window \in Windows \cup {None}
    /\ c.relations \in Nat /\ c.scan \in Nat /\ c.hops \in Nat

(* The record found under the requested entity.                              *)
RootFound == root \in Keys \cup {None} /\ (pc \notin {"root", "unresolved", "direct"} => root \in Keys)

(* What a step does to the engine and its store.                             *)
StoreStep == cpc # "answered" /\ (StoreKeeps \/ StoreExpires) /\ UNCHANGED runVars
Called == \E c : GoodBounds(c) /\ Correlate(c)
Still == UNCHANGED <<storeVars, runVars>>
EngineStep == StoreStep \/ RunStep \/ Called \/ Still

LEMMA KeysNumbers == MaxKey \in Nat /\ \A k \in Keys : k \in Nat /\ 1 <= k /\ k <= MaxKey
  <1>1. MaxKey \in Nat
    BY CorrelationAssumption
  <1> QED
    BY <1>1 DEF Keys

LEMMA FactsTyped ==
    /\ None \notin Nat /\ None \notin {"depth", "scan", "relations"}
    /\ \A k \in Keys :
         /\ Facts[k].kind \in KindSet /\ Facts[k].entity \in Nat /\ Facts[k].resource \in Nat
         /\ Facts[k].trace \in Nat \cup {None} /\ Facts[k].span \in Nat \cup {None}
         /\ Facts[k].parent \in Nat \cup {None}
         /\ Facts[k].start \in Nat /\ Facts[k].end \in Nat
         /\ Facts[k].links \in Seq([trace : Nat, span : Nat])
  BY CorrelationAssumption DEF KindSet

LEMMA CallsGood == \A c \in Calls : GoodBounds(c)
  BY CorrelationAssumption DEF GoodBounds

LEMMA FlowBoundsGood ==
    ASSUME root \in Keys, NEW w \in Asked
    PROVE  GoodBounds(FlowBounds(w))
  <1>1. Trace \in Nat \cup {None}
    BY FactsTyped DEF Trace, Natural
  <1>2. w \in Windows \cup {None} /\ MaxRelations \in Nat /\ MaxScan \in Nat
    BY InvestigationAssumption
  <1>3. /\ <<"span_identity", "trace_identity">> \in Seq(Strategies)
        /\ <<"span_identity", "trace_identity", "temporal">> \in Seq(Strategies)
    BY DEF Strategies
  <1> QED
    BY <1>1, <1>2, <1>3 DEF GoodBounds, FlowBounds

LEMMA RootFoundInit == Init => RootFound
  BY DEF Init, RootFound

LEMMA RootFoundStep ==
    ASSUME RootFound, resident \subseteq Keys, [Next]_vars
    PROVE  RootFound'
  <1>1. CASE UNCHANGED <<pc, root>>
    BY <1>1 DEF RootFound
  <1>2. CASE LookUpRoot
    BY <1>2 DEF LookUpRoot, RootFound
  <1>3. CASE root' = root /\ pc \notin {"root", "unresolved", "direct"}
    BY <1>3 DEF RootFound
  <1>4. CASE DirectRun
    BY <1>4 DEF DirectRun, RootFound
  <1>5. (Next => \/ UNCHANGED <<pc, root>> \/ LookUpRoot \/ DirectRun
                 \/ root' = root /\ pc \notin {"root", "unresolved", "direct"})
    BY DEF Next, flowVars, RunStep, Resolve, StartCorrelation, Narrow, WalkPage, ChainStops,
           NameSlice, Named, Parts, NamingPc
  <1> QED
    BY <1>1, <1>2, <1>3, <1>4, <1>5 DEF vars, flowVars

LEMMA EngineSteps ==
    ASSUME RootFound, [Next]_vars
    PROVE  EngineStep
  <1>1. CASE Reading /\ (StoreKeeps \/ StoreExpires) /\ UNCHANGED <<runVars, flowVars>>
    BY <1>1 DEF Reading, EngineStep, StoreStep
  <1>2. CASE RunStep /\ UNCHANGED flowVars
    BY <1>2 DEF EngineStep
  <1>3. CASE LookUpRoot \/ Resolve \/ Narrow
    BY <1>3 DEF LookUpRoot, Resolve, Narrow, EngineStep, Still
  <1>4. CASE StartCorrelation
    <2>1. root \in Keys
      BY <1>4 DEF StartCorrelation, RootFound
    <2>2. PICK w \in Asked : Correlate(FlowBounds(w))
      BY <1>4 DEF StartCorrelation
    <2> QED
      BY <2>1, <2>2, FlowBoundsGood DEF EngineStep, Called
  <1>5. CASE DirectRun
    BY <1>5, CallsGood DEF DirectRun, EngineStep, Called
  <1>6. ASSUME NEW part \in Parts, WalkPage(part) \/ ChainStops(part)
        PROVE  EngineStep
    BY <1>6 DEF WalkPage, ChainStops, EngineStep, Still
  <1>7. ASSUME NEW part \in {"logs", "points"}, NameSlice(part) \/ Named(part)
        PROVE  EngineStep
    BY <1>7 DEF NameSlice, Named, EngineStep, Still
  <1>8. CASE UNCHANGED vars
    BY <1>8 DEF vars, EngineStep, Still
  <1> QED
    BY <1>1, <1>2, <1>3, <1>4, <1>5, <1>6, <1>7, <1>8 DEF Next

-----------------------------------------------------------------------------
(* Types.                                                                    *)

StoreTyped ==
    /\ resident \subseteq kept /\ kept \subseteq Keys /\ steady \subseteq resident
    /\ moves \in 0..MaxMoves /\ alive \subseteq Keys /\ moved \in BOOLEAN

LEMMA StoreTypedInit == Init => StoreTyped
  <1>1. MaxMoves \in Nat /\ \A S \in Stores : S \subseteq Keys
    BY CorrelationAssumption
  <1>2. 0 \in 0..MaxMoves
    BY <1>1
  <1> QED
    BY <1>1, <1>2 DEF Init, CorrelationInit, StoreTyped

LEMMA StoreTypedStep ==
    ASSUME StoreTyped, EngineStep
    PROVE  StoreTyped'
  <1>1. CASE StoreKeeps
    BY <1>1, CorrelationAssumption DEF StoreKeeps, StoreTyped, Above
  <1>2. CASE StoreExpires
    BY <1>2, CorrelationAssumption DEF StoreExpires, StoreTyped, Above
  <1>3. CASE Called
    BY <1>3 DEF Called, Correlate, StoreTyped
  <1>4. CASE Form
    BY <1>4 DEF Form, StoreTyped
  <1>5. CASE UNCHANGED storeVars
    BY <1>5 DEF storeVars, StoreTyped
  <1>6. RunStep => Form \/ UNCHANGED storeVars
    BY DEF RunStep, Scan, ScanExhausted, Check, AnswerSorted
  <1> QED
    BY <1>1, <1>2, <1>3, <1>4, <1>5, <1>6 DEF EngineStep, StoreStep, Still

(* What a page holds: the first records of its kind beyond the cursor.       *)
LEMMA AheadFinite ==
    ASSUME StoreTyped, NEW kind, NEW floor \in Int
    PROVE  /\ Ahead(kind, floor) \in SUBSET Keys /\ Ahead(kind, floor) \in SUBSET Int
           /\ IsFiniteSet(Ahead(kind, floor))
           /\ \A k \in Ahead(kind, floor) : k > floor /\ k \in resident /\ Facts[k].kind = kind
  <1>1. \A k \in Ahead(kind, floor) : k > floor /\ k \in resident /\ Facts[k].kind = kind
    BY DEF Ahead, Above
  <1>2. resident \subseteq Keys
    BY DEF StoreTyped
  <1>3. IsFiniteSet(Keys) /\ Keys \subseteq Int
    BY CorrelationAssumption, FS_Interval DEF Keys
  <1> HIDE DEF Keys
  <1>4. Ahead(kind, floor) \in SUBSET Keys
    BY <1>1, <1>2
  <1> QED
    BY <1>1, <1>3, <1>4, FS_Subset

LEMMA PageLaws ==
    ASSUME StoreTyped, NEW kind, NEW floor \in Int, NEW size \in Nat
    PROVE  LET page == Page(kind, floor, size)
           IN  /\ page \in Seq(Keys) /\ Len(page) <= size
               /\ \A i \in 1..Len(page) : page[i] \in Ahead(kind, floor)
               /\ \A i, j \in 1..Len(page) : i < j => page[i] < page[j]
               /\ \A k \in Ahead(kind, floor) :
                    k \in ToSet(page) \/ (Len(page) = size /\ \A i \in 1..Len(page) : page[i] < k)
  <1> DEFINE A == Ahead(kind, floor)
             s == Ascending(A)
             page == Page(kind, floor, size)
             N == Cardinality(A)
  <1>1. A \in SUBSET Keys /\ A \in SUBSET Int /\ IsFiniteSet(A)
    BY AheadFinite
  <1> HIDE DEF A
  <1>2. /\ s \in Seq(A) /\ Len(s) = N /\ ToSet(s) = A
        /\ \A i, j \in 1..N : i < j => s[i] < s[j]
    BY <1>1, AscendingLaws
  <1>3. page = UpTo(s, size)
    BY DEF Page, A
  <1>4. N \in Nat
    BY <1>1, FS_CardinalityType
  <1> HIDE DEF s, page, N
  <1>5. /\ page \in Seq(A) /\ Len(page) = (IF N < size THEN N ELSE size)
        /\ \A i \in 1..Len(page) : page[i] = s[i]
    BY <1>2, <1>3, UpToLaws
  <1>6. Len(page) \in Nat /\ Len(page) <= N /\ Len(page) <= size
    BY <1>4, <1>5
  <1>7. page \in Seq(Keys) /\ \A i \in 1..Len(page) : page[i] \in A
    <2>1. \A i \in 1..Len(page) : page[i] \in A
      BY <1>5
    <2>2. A \subseteq Keys
      BY <1>1
    <2> QED
      BY <1>5, <2>1, <2>2, SeqMonotone
  <1>8. \A i, j \in 1..Len(page) : i < j => page[i] < page[j]
    BY <1>2, <1>5, <1>6, <1>4
  <1>9. ASSUME NEW k \in A, k \notin ToSet(page)
        PROVE  Len(page) = size /\ \A i \in 1..Len(page) : page[i] < k
    <2>1. PICK n \in 1..N : s[n] = k
      BY <1>2 DEF ToSet
    <2>2. n > Len(page)
      BY <2>1, <1>5, <1>6, <1>9, <1>4 DEF ToSet
    <2>3. Len(page) = size
      BY <2>2, <1>4, <1>5
    <2>4. \A i \in 1..Len(page) : s[i] < s[n]
      BY <2>2, <1>2, <1>4, <1>6
    <2> QED
      BY <2>1, <2>3, <2>4, <1>5
  <1> QED
    BY <1>6, <1>7, <1>8, <1>9 DEF page, A

-----------------------------------------------------------------------------
(* What the strategies form.                                                 *)

(* What the scans leave: each kind's records, in residency order.            *)
SeenTyped ==
    /\ seen \in [KindSet -> Seq(Keys)]
    /\ \A kind \in KindSet :
         /\ \A i \in 1..Len(seen[kind]) : Facts[seen[kind][i]].kind = kind
         /\ \A i, j \in 1..Len(seen[kind]) : i < j => seen[kind][i] < seen[kind][j]

LEMMA RefTyped == \A k \in Keys : Ref(k) \in Refs
  BY FactsTyped DEF Ref, Refs, KindRank, KindSet

LEMMA RelTyped ==
    \A strategy \in Strategies, a, b \in Keys :
      /\ Rel(strategy, a, b) \in Relations
      /\ Rel(strategy, a, b).type = TypeRank[strategy]
      /\ Rel(strategy, a, b).from = Ref(a) /\ Rel(strategy, a, b).to = Ref(b)
  <1>1. \A strategy \in Strategies : TypeRank[strategy] \in 0..5
    BY DEF Strategies, TypeRank
  <1> QED
    BY <1>1, RefTyped DEF Rel, Relations

(* Two kinds have no reference in common, and what shares one is one record  *)
(* or shares a natural identity.                                             *)
LEMMA SameRef ==
    ASSUME NEW j \in Keys, NEW k \in Keys
    PROVE  Ref(j) = Ref(k) <=> Facts[j].kind = Facts[k].kind /\ (j = k \/ SameIdentity(j, k))
  <1>1. Facts[j].kind \in KindSet /\ Facts[k].kind \in KindSet
    BY FactsTyped
  <1>2. KindRank[Facts[j].kind] = KindRank[Facts[k].kind] <=> Facts[j].kind = Facts[k].kind
    BY <1>1 DEF KindRank, KindSet
  <1>3. Ref(j) = Ref(k) <=> (KindRank[Facts[j].kind] = KindRank[Facts[k].kind]
                              /\ Facts[j].entity = Facts[k].entity)
    BY DEF Ref
  <1> QED
    BY <1>2, <1>3, IdentityAssumption

(* Ascending; without a repetition; no record admitted twice.                *)
Ascends(s) == \A i, j \in 1..Len(s) : i < j => s[i] < s[j]
Once(s) == \A i, j \in 1..Len(s) : s[i] = s[j] => i = j
DistinctIn(K) == \A x, y \in K : Ref(x) = Ref(y) => x = y

LEMMA ElementOf ==
    ASSUME NEW T, NEW s \in Seq(T), NEW i \in 1..Len(s)
    PROVE  s[i] \in ToSet(s)
  BY DEF ToSet

(* rows[i] is froms[i] related to each record of h[i].                       *)
Rows(strategy, froms, h, rows) ==
    /\ froms \in Seq(Keys) /\ h \in [1..Len(froms) -> Seq(Keys)]
    /\ rows \in Seq(Seq(Relations)) /\ Len(rows) = Len(froms)
    /\ \A i \in 1..Len(froms) :
         /\ Len(rows[i]) = Len(h[i])
         /\ \A j \in 1..Len(h[i]) : rows[i][j] = Rel(strategy, froms[i], h[i][j])

LEMMA RowsFormed ==
    ASSUME NEW strategy \in Strategies, NEW froms \in Seq(Keys),
           NEW h \in [1..Len(froms) -> Seq(Keys)]
    PROVE  Rows(strategy, froms, h,
                [i \in 1..Len(froms) |-> [j \in 1..Len(h[i]) |-> Rel(strategy, froms[i], h[i][j])]])
  <1> DEFINE row(i) == [j \in 1..Len(h[i]) |-> Rel(strategy, froms[i], h[i][j])]
             rows == [i \in 1..Len(froms) |-> row(i)]
  <1>1. ASSUME NEW i \in 1..Len(froms)
        PROVE  /\ row(i) \in Seq(Relations) /\ Len(row(i)) = Len(h[i])
               /\ \A j \in 1..Len(h[i]) : row(i)[j] = Rel(strategy, froms[i], h[i][j])
    <2>1. h[i] \in Seq(Keys) /\ froms[i] \in Keys
      OBVIOUS
    <2>2. Len(h[i]) \in Nat /\ \A j \in 1..Len(h[i]) : h[i][j] \in Keys
      BY <2>1
    <2>3. \A j \in 1..Len(h[i]) : Rel(strategy, froms[i], h[i][j]) \in Relations
      BY <2>1, <2>2, RelTyped
    <2>4. row(i) \in [1..Len(h[i]) -> Relations]
      BY <2>3
    <2> QED
      BY <2>2, <2>4
  <1> HIDE DEF row
  <1>2. Len(froms) \in Nat
    OBVIOUS
  <1>3. rows \in [1..Len(froms) -> Seq(Relations)]
    BY <1>1
  <1>4. rows \in Seq(Seq(Relations)) /\ Len(rows) = Len(froms)
    BY <1>2, <1>3
  <1>5. \A i \in 1..Len(froms) : rows[i] = row(i)
    OBVIOUS
  <1> HIDE DEF rows
  <1>6. Rows(strategy, froms, h, rows)
    BY <1>1, <1>4, <1>5 DEF Rows
  <1> QED
    BY <1>6 DEF rows, row

(* Put together they are the relations of each with its own partners.        *)
LEMMA PairRows ==
    ASSUME NEW strategy \in Strategies, NEW froms, NEW h, NEW rows, Rows(strategy, froms, h, rows)
    PROVE  /\ FlattenSeq(rows) \in Seq(Relations)
           /\ \A r \in ToSet(FlattenSeq(rows)) :
                \E i \in 1..Len(froms) : \E b \in ToSet(h[i]) : r = Rel(strategy, froms[i], b)
           /\ \A i \in 1..Len(froms) : \A b \in ToSet(h[i]) :
                Rel(strategy, froms[i], b) \in ToSet(FlattenSeq(rows))
  <1>1. rows \in Seq(Seq(Relations)) /\ Len(rows) = Len(froms)
    BY DEF Rows
  <1>2. \A i \in 1..Len(froms) :
          /\ Len(h[i]) \in Nat /\ DOMAIN h[i] = 1..Len(h[i])
          /\ Len(rows[i]) = Len(h[i])
          /\ \A j \in 1..Len(h[i]) : rows[i][j] = Rel(strategy, froms[i], h[i][j])
    <2> TAKE i \in 1..Len(froms)
    <2>1. h[i] \in Seq(Keys)
      BY DEF Rows
    <2> QED
      BY <2>1 DEF Rows
  <1>4. /\ FlattenSeq(rows) \in Seq(Relations)
        /\ \A x \in ToSet(FlattenSeq(rows)) :
             \E i \in 1..Len(rows) : \E j \in 1..Len(rows[i]) : rows[i][j] = x
        /\ \A i \in 1..Len(rows) : \A j \in 1..Len(rows[i]) : rows[i][j] \in ToSet(FlattenSeq(rows))
    BY <1>1, FlattenElements
  <1>5. ASSUME NEW r \in ToSet(FlattenSeq(rows))
        PROVE  \E i \in 1..Len(froms) : \E b \in ToSet(h[i]) : r = Rel(strategy, froms[i], b)
    <2>0. PICK i \in 1..Len(froms) : \E j \in 1..Len(rows[i]) : rows[i][j] = r
      BY <1>1, <1>4
    <2>1. PICK j \in 1..Len(rows[i]) : rows[i][j] = r
      BY <2>0
    <2>2. j \in 1..Len(h[i]) /\ r = Rel(strategy, froms[i], h[i][j])
      BY <1>2, <2>1
    <2>3. h[i][j] \in ToSet(h[i])
      BY <2>2, <1>2 DEF ToSet
    <2> QED
      BY <2>2, <2>3
  <1>6. ASSUME NEW i \in 1..Len(froms), NEW b \in ToSet(h[i])
        PROVE  Rel(strategy, froms[i], b) \in ToSet(FlattenSeq(rows))
    <2>1. PICK j \in 1..Len(h[i]) : h[i][j] = b
      BY <1>2 DEF ToSet
    <2>2. j \in 1..Len(rows[i]) /\ rows[i][j] = Rel(strategy, froms[i], b)
      BY <1>2, <2>1
    <2>3. rows[i][j] \in ToSet(FlattenSeq(rows))
      BY <1>1, <1>4, <2>2
    <2> QED
      BY <2>2, <2>3
  <1> QED
    BY <1>4, <1>5, <1>6

(* Each pair once, when the records are distinct.                            *)
LEMMA PairRowsOnce ==
    ASSUME NEW strategy \in Strategies, NEW froms, NEW h, NEW rows, Rows(strategy, froms, h, rows),
           NEW K, DistinctIn(K),
           \A i \in 1..Len(froms) : \A j \in 1..Len(h[i]) : froms[i] \in K /\ h[i][j] \in K,
           Once(froms), \A i \in 1..Len(froms) : Once(h[i])
    PROVE  Once(FlattenSeq(rows))
  <1> DEFINE f == FlattenSeq(rows)
  <1>0. rows \in Seq(Seq(Relations)) /\ Len(rows) = Len(froms) /\ froms \in Seq(Keys)
    BY DEF Rows
  <1>1. f \in Seq(Relations)
    BY PairRows
  <1>2. PICK row, col : PutTogether(rows, Len(rows), f, row, col)
    BY <1>0, FlattenPlaces
  <1> HIDE DEF f
  <1>3. ASSUME NEW k \in 1..Len(f)
        PROVE  /\ row[k] \in 1..Len(froms) /\ col[k] \in 1..Len(h[row[k]])
               /\ f[k] = Rel(strategy, froms[row[k]], h[row[k]][col[k]])
               /\ froms[row[k]] \in Keys /\ h[row[k]][col[k]] \in Keys
    <2>1. row[k] \in 1..Len(froms) /\ col[k] \in 1..Len(rows[row[k]]) /\ f[k] = rows[row[k]][col[k]]
      BY <1>0, <1>2 DEF PutTogether
    <2>2. h[row[k]] \in Seq(Keys) /\ Len(rows[row[k]]) = Len(h[row[k]])
      BY <2>1 DEF Rows
    <2>3. h[row[k]][col[k]] \in Keys
      BY <2>1, <2>2
    <2> QED
      BY <1>0, <2>1, <2>2, <2>3 DEF Rows
  <1>4. ASSUME NEW k \in 1..Len(f), NEW l \in 1..Len(f), f[k] = f[l], k # l
        PROVE  FALSE
    <2> DEFINE a == froms[row[k]]
               b == h[row[k]][col[k]]
               c == froms[row[l]]
               d == h[row[l]][col[l]]
    <2>1. /\ a \in Keys /\ b \in Keys /\ c \in Keys /\ d \in Keys
          /\ Rel(strategy, a, b) = Rel(strategy, c, d)
          /\ a \in K /\ b \in K /\ c \in K /\ d \in K
      BY <1>3, <1>4
    <2> HIDE DEF a, b, c, d
    <2>2. Ref(a) = Ref(c) /\ Ref(b) = Ref(d)
      BY <2>1, RelTyped
    <2>3. a = c /\ b = d
      BY <2>1, <2>2 DEF DistinctIn
    <2>4. row[k] = row[l]
      BY <2>3, <1>3 DEF a, c, Once
    <2>5. col[k] = col[l]
      BY <2>3, <2>4, <1>3 DEF b, d, Once
    <2>6. k < l \/ l < k
      BY <1>1, <1>4
    <2>7. \A m, n \in 1..Len(f) : m < n => row[m] < row[n] \/ (row[m] = row[n] /\ col[m] < col[n])
      BY <1>2 DEF PutTogether
    <2>8. row[k] \in Int /\ row[l] \in Int /\ col[k] \in Int /\ col[l] \in Int
      BY <1>3
    <2> QED
      BY <2>4, <2>5, <2>6, <2>7, <2>8
  <1> QED
    BY <1>4 DEF f, Once


LEMMA SelectionAscends ==
    ASSUME NEW s \in Seq(Keys), Ascends(s), NEW S
    PROVE  /\ OnlyIn(s, S) \in Seq(Keys)
           /\ Ascends(OnlyIn(s, S))
           /\ ToSet(OnlyIn(s, S)) = ToSet(s) \cap S
  <1>1. /\ OnlyIn(s, S) \in Seq(Keys \cap S)
        /\ ToSet(OnlyIn(s, S)) = ToSet(s) \cap S
        /\ \E at : Selects(s, S, OnlyIn(s, S), at)
    BY OnlyInLaws
  <1>2. OnlyIn(s, S) \in Seq(Keys)
    BY <1>1, SeqMonotone
  <1>3. Ascends(OnlyIn(s, S))
    <2>1. PICK at : Selects(s, S, OnlyIn(s, S), at)
      BY <1>1
    <2> QED
      BY <2>1 DEF Ascends, Selects
  <1> QED
    BY <1>1, <1>2, <1>3

LEMMA AscendsOnce ==
    ASSUME NEW s \in Seq(Keys), Ascends(s)
    PROVE  Once(s)
  <1>1. SUFFICES ASSUME NEW i \in 1..Len(s), NEW j \in 1..Len(s), s[i] = s[j], i # j
                 PROVE  FALSE
    BY DEF Once
  <1>a. s[i] \in Keys /\ s[j] \in Keys /\ Len(s) \in Nat
    OBVIOUS
  <1>2. s[i] \in Int /\ s[j] \in Int
    BY <1>a, KeysNumbers
  <1>3. i < j \/ j < i
    BY <1>1, <1>a
  <1> QED
    BY <1>1, <1>2, <1>3 DEF Ascends

LEMMA SeenKinds ==
    ASSUME SeenTyped, NEW kind \in KindSet
    PROVE  /\ seen[kind] \in Seq(Keys) /\ Ascends(seen[kind])
           /\ \A k \in ToSet(seen[kind]) : k \in Keys /\ Facts[k].kind = kind
  BY DEF SeenTyped, Ascends, ToSet

LEMMA MembersLaws ==
    ASSUME SeenTyped
    PROVE  /\ Members \in Seq(Keys) /\ Ascends(Members)
           /\ \A k : k \in ToSet(Members) <=> k \in ToSet(seen.span) /\ IsMember(k)
  <1>1. seen.span \in Seq(Keys) /\ Ascends(seen.span)
    BY SeenKinds DEF KindSet
  <1> DEFINE S == {k \in ToSet(seen.span) : IsMember(k)}
  <1>2. Members = OnlyIn(seen.span, S)
    BY DEF Members
  <1>3. \A k : k \in ToSet(seen.span) \cap S <=> k \in ToSet(seen.span) /\ IsMember(k)
    OBVIOUS
  <1> HIDE DEF S
  <1> QED
    BY <1>1, <1>2, <1>3, SelectionAscends

LEMMA RelatedLogsLaws ==
    ASSUME SeenTyped
    PROVE  /\ RelatedLogs \in Seq(Keys) /\ Ascends(RelatedLogs)
           /\ \A k : k \in ToSet(RelatedLogs) <=> k \in ToSet(seen.log) /\ IsRelatedLog(k)
  <1>1. seen.log \in Seq(Keys) /\ Ascends(seen.log)
    BY SeenKinds DEF KindSet
  <1> DEFINE S == {k \in ToSet(seen.log) : IsRelatedLog(k)}
  <1>2. RelatedLogs = OnlyIn(seen.log, S)
    BY DEF RelatedLogs
  <1>3. \A k : k \in ToSet(seen.log) \cap S <=> k \in ToSet(seen.log) /\ IsRelatedLog(k)
    OBVIOUS
  <1> HIDE DEF S
  <1> QED
    BY <1>1, <1>2, <1>3, SelectionAscends

(* A log's exact span is a member, so that the looser strategy sees it.      *)
LEMMA LooseLaws ==
    ASSUME SeenTyped
    PROVE  /\ Loose \in Seq(Keys) /\ Ascends(Loose)
           /\ \A l : l \in ToSet(Loose) <=>
                /\ l \in ToSet(RelatedLogs)
                /\ \A s \in ToSet(seen.span) : ~ExactFor(l, s)
           /\ \A l \in ToSet(RelatedLogs) : ExactSeen(l) \in Seq(Keys)
           /\ \A l \in ToSet(RelatedLogs) : \A s : s \in ToSet(ExactSeen(l)) <=>
                s \in ToSet(seen.span) /\ ExactFor(l, s)
  <1>1. RelatedLogs \in Seq(Keys) /\ Ascends(RelatedLogs)
    BY RelatedLogsLaws
  <1>2. ASSUME NEW l \in ToSet(RelatedLogs)
        PROVE  /\ ExactSeen(l) \in Seq(Keys)
               /\ \A s : s \in ToSet(ExactSeen(l)) <=> s \in ToSet(seen.span) /\ ExactFor(l, s)
    <2> DEFINE S == {s \in ToSet(Members) : ExactFor(l, s)}
    <2>1. ExactSeen(l) = OnlyIn(Members, S)
      BY DEF ExactSeen
    <2>2. \A s : s \in ToSet(Members) \cap S <=> s \in ToSet(Members) /\ ExactFor(l, s)
      OBVIOUS
    <2> HIDE DEF S
    <2>3. /\ ExactSeen(l) \in Seq(Keys)
          /\ \A s : s \in ToSet(ExactSeen(l)) <=> s \in ToSet(Members) /\ ExactFor(l, s)
      BY <2>1, <2>2, MembersLaws, SelectionAscends
    <2>4. \A s : ExactFor(l, s) => IsMember(s)
      BY RelatedLogsLaws DEF ExactFor, Identified, IsMember, IsRelatedLog
    <2> QED
      BY <2>3, <2>4, MembersLaws
  <1> DEFINE S == {l \in ToSet(RelatedLogs) : ExactSeen(l) = <<>>}
  <1>3. Loose = OnlyIn(RelatedLogs, S)
    BY DEF Loose
  <1>4. \A l : l \in ToSet(RelatedLogs) \cap S <=> l \in ToSet(RelatedLogs) /\ ExactSeen(l) = <<>>
    OBVIOUS
  <1> HIDE DEF S
  <1>5. /\ Loose \in Seq(Keys) /\ Ascends(Loose)
        /\ \A l : l \in ToSet(Loose) <=> l \in ToSet(RelatedLogs) /\ ExactSeen(l) = <<>>
    BY <1>1, <1>3, <1>4, SelectionAscends
  <1>6. ASSUME NEW l \in ToSet(RelatedLogs)
        PROVE  ExactSeen(l) = <<>> <=> \A s \in ToSet(seen.span) : ~ExactFor(l, s)
    <2>1. ExactSeen(l) = <<>> <=> ToSet(ExactSeen(l)) = {}
      BY <1>2 DEF ToSet
    <2> QED
      BY <1>2, <2>1
  <1> QED
    BY <1>2, <1>5, <1>6

LEMMA RelatedMeans ==
    ASSUME NEW S, NEW r
    PROVE  r \in Related(S) <=>
             \E strategy \in ToSet(call.strategies) : \E a, b \in S :
               Holds(strategy, a, b, S) /\ r = Rel(strategy, a, b)
  <1>1. ASSUME r \in Related(S)
        PROVE  \E strategy \in ToSet(call.strategies) : \E a, b \in S :
                 Holds(strategy, a, b, S) /\ r = Rel(strategy, a, b)
    <2>1. PICK strategy \in ToSet(call.strategies) :
            r \in {Rel(strategy, p[1], p[2]) : p \in {q \in S \X S : Holds(strategy, q[1], q[2], S)}}
      BY <1>1 DEF Related
    <2>2. PICK p \in {q \in S \X S : Holds(strategy, q[1], q[2], S)} : r = Rel(strategy, p[1], p[2])
      BY <2>1
    <2>3. p[1] \in S /\ p[2] \in S /\ Holds(strategy, p[1], p[2], S)
      BY <2>2
    <2> QED
      BY <2>2, <2>3
  <1>2. ASSUME NEW strategy \in ToSet(call.strategies), NEW a \in S, NEW b \in S,
               Holds(strategy, a, b, S), r = Rel(strategy, a, b)
        PROVE  r \in Related(S)
    <2>1. <<a, b>> \in {q \in S \X S : Holds(strategy, q[1], q[2], S)}
      BY <1>2
    <2>2. r \in {Rel(strategy, p[1], p[2]) : p \in {q \in S \X S : Holds(strategy, q[1], q[2], S)}}
      BY <1>2, <2>1
    <2> QED
      BY <2>2 DEF Related
  <1> QED
    BY <1>1, <1>2

(* The records scanned.                                                      *)
Scanned == ToSet(seen.span) \cup ToSet(seen.log) \cup ToSet(seen.point)

LEMMA ScannedKinds ==
    ASSUME SeenTyped
    PROVE  /\ Scanned \subseteq Keys
           /\ \A kind \in KindSet : \A k : k \in ToSet(seen[kind]) <=> k \in Scanned /\ Facts[k].kind = kind
  <1>1. \A kind \in KindSet : \A k \in ToSet(seen[kind]) : k \in Keys /\ Facts[k].kind = kind
    BY SeenKinds
  <1> QED
    BY <1>1 DEF Scanned, KindSet

(* No record was admitted twice among those scanned.                         *)
Distinct == DistinctIn(Scanned)

(* What a strategy's run forms is what the strategy relates, each once but   *)
(* for the exemplars.                                                        *)
Forms(strategy) ==
    /\ Run(strategy) \in Seq(Relations)
    /\ \A r \in ToSet(Run(strategy)) :
         \E a, b \in Scanned : Holds(strategy, a, b, Scanned) /\ r = Rel(strategy, a, b)
    /\ \A a, b \in Scanned :
         Holds(strategy, a, b, Scanned) => Rel(strategy, a, b) \in ToSet(Run(strategy))
    /\ strategy # "exemplar" /\ Distinct => Once(Run(strategy))

LEMMA FormsFromRows ==
    ASSUME NEW strategy \in Strategies, NEW froms, NEW h, NEW rows, Rows(strategy, froms, h, rows),
           Run(strategy) = FlattenSeq(rows),
           \A i \in 1..Len(froms) : \A b \in ToSet(h[i]) :
             froms[i] \in Scanned /\ b \in Scanned /\ Holds(strategy, froms[i], b, Scanned),
           \A a, b \in Scanned : Holds(strategy, a, b, Scanned) =>
             \E i \in 1..Len(froms) : froms[i] = a /\ \E c \in ToSet(h[i]) : Ref(c) = Ref(b),
           Once(froms), \A i \in 1..Len(froms) : Once(h[i])
    PROVE  Forms(strategy)
  <1>0. /\ FlattenSeq(rows) \in Seq(Relations)
        /\ \A r \in ToSet(FlattenSeq(rows)) :
             \E i \in 1..Len(froms) : \E b \in ToSet(h[i]) : r = Rel(strategy, froms[i], b)
        /\ \A i \in 1..Len(froms) : \A b \in ToSet(h[i]) :
             Rel(strategy, froms[i], b) \in ToSet(FlattenSeq(rows))
    BY PairRows
  <1>1. /\ Run(strategy) \in Seq(Relations)
        /\ \A r \in ToSet(Run(strategy)) :
             \E i \in 1..Len(froms) : \E b \in ToSet(h[i]) : r = Rel(strategy, froms[i], b)
        /\ \A i \in 1..Len(froms) : \A b \in ToSet(h[i]) :
             Rel(strategy, froms[i], b) \in ToSet(Run(strategy))
    BY <1>0
  <1>2. ASSUME NEW r \in ToSet(Run(strategy))
        PROVE  \E a, b \in Scanned : Holds(strategy, a, b, Scanned) /\ r = Rel(strategy, a, b)
    BY <1>1
  <1>3. ASSUME NEW a \in Scanned, NEW b \in Scanned, Holds(strategy, a, b, Scanned)
        PROVE  Rel(strategy, a, b) \in ToSet(Run(strategy))
    <2>1. PICK i \in 1..Len(froms) : froms[i] = a /\ \E c \in ToSet(h[i]) : Ref(c) = Ref(b)
      BY <1>3
    <2>2. PICK c \in ToSet(h[i]) : Ref(c) = Ref(b)
      BY <2>1
    <2>3. Rel(strategy, a, b) = Rel(strategy, froms[i], c)
      BY <2>1, <2>2 DEF Rel
    <2> QED
      BY <1>1, <2>3
  <1>4. ASSUME Distinct
        PROVE  Once(Run(strategy))
    <2>1. ASSUME NEW i \in 1..Len(froms), NEW j \in 1..Len(h[i])
          PROVE  froms[i] \in Scanned /\ h[i][j] \in Scanned
      <3>1. h[i] \in Seq(Keys)
        BY DEF Rows
      <3>2. h[i][j] \in ToSet(h[i])
        BY <3>1 DEF ToSet
      <3> QED
        BY <3>2
    <2> QED
      BY <1>4, <2>1, PairRowsOnce DEF Distinct
  <1> QED
    BY <1>1, <1>2, <1>3, <1>4 DEF Forms

LEMMA TemporalForms ==
    ASSUME SeenTyped
    PROVE  Forms("temporal")
  <1> DEFINE h == [i \in 1..Len(Members) |->
                     OnlyIn(seen.point, {b \in ToSet(seen.point) : CoActive(Members[i], b)})]
             rows == [i \in 1..Len(Members) |->
                        [j \in 1..Len(h[i]) |-> Rel("temporal", Members[i], h[i][j])]]
  <1>1. /\ Members \in Seq(Keys) /\ Once(Members)
        /\ \A k : k \in ToSet(Members) <=> k \in ToSet(seen.span) /\ IsMember(k)
    BY MembersLaws, AscendsOnce
  <1>2. seen.point \in Seq(Keys) /\ Ascends(seen.point)
    BY SeenKinds DEF KindSet
  <1>3. ASSUME NEW i \in 1..Len(Members)
        PROVE  /\ h[i] \in Seq(Keys) /\ DOMAIN h[i] = 1..Len(h[i])
               /\ \A b : b \in ToSet(h[i]) <=> b \in ToSet(seen.point) /\ CoActive(Members[i], b)
               /\ Once(h[i])
    <2> DEFINE S == {b \in ToSet(seen.point) : CoActive(Members[i], b)}
    <2>1. h[i] = OnlyIn(seen.point, S)
      OBVIOUS
    <2>2. \A b : b \in ToSet(seen.point) \cap S <=> b \in ToSet(seen.point) /\ CoActive(Members[i], b)
      OBVIOUS
    <2> HIDE DEF S, h
    <2>3. h[i] \in Seq(Keys) /\ ToSet(h[i]) = ToSet(seen.point) \cap S /\ Ascends(h[i])
      BY <2>1, <1>2, SelectionAscends
    <2>4. Once(h[i])
      BY <2>3, AscendsOnce
    <2> QED
      BY <2>2, <2>3, <2>4
  <1>4. Run("temporal") = FlattenSeq(rows)
    <2>1. Run("temporal") = Pairs("temporal", Members, seen.point, CoActive)
      BY DEF Run
    <2>2. DOMAIN Members = 1..Len(Members)
      BY <1>1
    <2>3. Pairs("temporal", Members, seen.point, CoActive) =
            FlattenSeq([i \in 1..Len(Members) |-> [j \in DOMAIN h[i] |-> Rel("temporal", Members[i], h[i][j])]])
      BY <2>2 DEF Pairs
    <2>4. [i \in 1..Len(Members) |-> [j \in DOMAIN h[i] |-> Rel("temporal", Members[i], h[i][j])]] = rows
      <3> HIDE DEF h
      <3> QED
        BY <1>3
    <2> HIDE DEF h, rows
    <2> QED
      BY <2>1, <2>3, <2>4
  <1>5. h \in [1..Len(Members) -> Seq(Keys)]
    <2>1. h = [i \in 1..Len(Members) |-> h[i]]
      OBVIOUS
    <2> HIDE DEF h
    <2> QED
      BY <1>3, <2>1
  <1> HIDE DEF h
  <1>6. Rows("temporal", Members, h, rows)
    BY <1>1, <1>5, RowsFormed DEF Strategies
  <1> HIDE DEF rows
  <1>7. \A a, b \in Scanned : Holds("temporal", a, b, Scanned) <=>
          a \in ToSet(Members) /\ b \in ToSet(seen.point) /\ CoActive(a, b)
    BY <1>1, ScannedKinds DEF Holds, IsMember, Natural, KindSet
  <1>8. \A i \in 1..Len(Members) : Members[i] \in ToSet(Members)
    BY <1>1 DEF ToSet
  <1>9. \A a \in ToSet(Members) : \E i \in 1..Len(Members) : Members[i] = a
    BY <1>1 DEF ToSet
  <1>10. \A i \in 1..Len(Members) : \A b \in ToSet(h[i]) :
           Members[i] \in Scanned /\ b \in Scanned /\ Holds("temporal", Members[i], b, Scanned)
    BY <1>1, <1>3, <1>7, <1>8, ScannedKinds DEF KindSet
  <1>11. \A a, b \in Scanned : Holds("temporal", a, b, Scanned) =>
           \E i \in 1..Len(Members) : Members[i] = a /\ \E c \in ToSet(h[i]) : Ref(c) = Ref(b)
    <2> SUFFICES ASSUME NEW a \in Scanned, NEW b \in Scanned, Holds("temporal", a, b, Scanned)
                 PROVE  \E i \in 1..Len(Members) :
                          Members[i] = a /\ \E c \in ToSet(h[i]) : Ref(c) = Ref(b)
      OBVIOUS
    <2>1. a \in ToSet(Members) /\ b \in ToSet(seen.point) /\ CoActive(a, b)
      BY <1>7
    <2>2. PICK i \in 1..Len(Members) : Members[i] = a
      BY <1>9, <2>1
    <2>3. b \in ToSet(h[i])
      BY <1>3, <2>1, <2>2
    <2> QED
      BY <2>2, <2>3
  <1> QED
    BY <1>1, <1>3, <1>4, <1>6, <1>10, <1>11, FormsFromRows DEF Strategies

LEMMA TraceIdentityForms ==
    ASSUME SeenTyped
    PROVE  Forms("trace_identity")
  <1> DEFINE h == [i \in 1..Len(Loose) |->
                     OnlyIn(Members, {b \in ToSet(Members) : TRUE})]
             rows == [i \in 1..Len(Loose) |->
                        [j \in 1..Len(h[i]) |-> Rel("trace_identity", Loose[i], h[i][j])]]
  <1>1. /\ Loose \in Seq(Keys) /\ Once(Loose)
        /\ \A l : l \in ToSet(Loose) <=>
             l \in ToSet(RelatedLogs) /\ \A s \in ToSet(seen.span) : ~ExactFor(l, s)
        /\ \A l : l \in ToSet(RelatedLogs) <=> l \in ToSet(seen.log) /\ IsRelatedLog(l)
    BY LooseLaws, RelatedLogsLaws, AscendsOnce
  <1>2. /\ Members \in Seq(Keys) /\ Ascends(Members)
        /\ \A k : k \in ToSet(Members) <=> k \in ToSet(seen.span) /\ IsMember(k)
    BY MembersLaws
  <1>3. ASSUME NEW i \in 1..Len(Loose)
        PROVE  /\ h[i] \in Seq(Keys) /\ DOMAIN h[i] = 1..Len(h[i])
               /\ \A b : b \in ToSet(h[i]) <=> b \in ToSet(Members)
               /\ Once(h[i])
    <2> DEFINE S == {b \in ToSet(Members) : TRUE}
    <2>1. h[i] = OnlyIn(Members, S)
      OBVIOUS
    <2>2. \A b : b \in ToSet(Members) \cap S <=> b \in ToSet(Members)
      OBVIOUS
    <2> HIDE DEF S, h
    <2>3. h[i] \in Seq(Keys) /\ ToSet(h[i]) = ToSet(Members) \cap S /\ Ascends(h[i])
      BY <2>1, <1>2, SelectionAscends
    <2>4. Once(h[i])
      BY <2>3, AscendsOnce
    <2> QED
      BY <2>2, <2>3, <2>4
  <1>4. Run("trace_identity") = FlattenSeq(rows)
    <2>1. Run("trace_identity") = Pairs("trace_identity", Loose, Members, LAMBDA l, s : TRUE)
      BY DEF Run
    <2>2. DOMAIN Loose = 1..Len(Loose)
      BY <1>1
    <2>3. Pairs("trace_identity", Loose, Members, LAMBDA l, s : TRUE) =
            FlattenSeq([i \in 1..Len(Loose) |-> [j \in DOMAIN h[i] |-> Rel("trace_identity", Loose[i], h[i][j])]])
      BY <2>2 DEF Pairs
    <2>4. [i \in 1..Len(Loose) |-> [j \in DOMAIN h[i] |-> Rel("trace_identity", Loose[i], h[i][j])]] = rows
      <3> HIDE DEF h
      <3> QED
        BY <1>3
    <2> HIDE DEF h, rows
    <2> QED
      BY <2>1, <2>3, <2>4
  <1>5. h \in [1..Len(Loose) -> Seq(Keys)]
    <2>1. h = [i \in 1..Len(Loose) |-> h[i]]
      OBVIOUS
    <2> HIDE DEF h
    <2> QED
      BY <1>3, <2>1
  <1> HIDE DEF h
  <1>6. Rows("trace_identity", Loose, h, rows)
    BY <1>1, <1>5, RowsFormed DEF Strategies
  <1> HIDE DEF rows
  <1>7. \A a, b \in Scanned : Holds("trace_identity", a, b, Scanned) <=>
          a \in ToSet(Loose) /\ b \in ToSet(Members)
    <2>1. \A a : (\A s \in Scanned : ~ExactFor(a, s)) <=> \A s \in ToSet(seen.span) : ~ExactFor(a, s)
      BY ScannedKinds DEF ExactFor, Identified, Natural, KindSet
    <2>2. \A a, b \in Scanned : Holds("trace_identity", a, b, Scanned) <=>
            /\ IsRelatedLog(a) /\ Facts[a].kind = "log" /\ IsMember(b)
            /\ \A s \in ToSet(seen.span) : ~ExactFor(a, s)
      BY <2>1 DEF Holds
    <2> QED
      BY <2>2, <1>1, <1>2, ScannedKinds DEF IsMember, Natural, KindSet
  <1>8. \A i \in 1..Len(Loose) : Loose[i] \in ToSet(Loose)
    BY <1>1 DEF ToSet
  <1>9. \A a \in ToSet(Loose) : \E i \in 1..Len(Loose) : Loose[i] = a
    BY <1>1 DEF ToSet
  <1>10. \A i \in 1..Len(Loose) : \A b \in ToSet(h[i]) :
           Loose[i] \in Scanned /\ b \in Scanned /\ Holds("trace_identity", Loose[i], b, Scanned)
    BY <1>1, <1>2, <1>3, <1>7, <1>8, ScannedKinds DEF KindSet
  <1>11. \A a, b \in Scanned : Holds("trace_identity", a, b, Scanned) =>
           \E i \in 1..Len(Loose) : Loose[i] = a /\ \E c \in ToSet(h[i]) : Ref(c) = Ref(b)
    <2> SUFFICES ASSUME NEW a \in Scanned, NEW b \in Scanned, Holds("trace_identity", a, b, Scanned)
                 PROVE  \E i \in 1..Len(Loose) :
                          Loose[i] = a /\ \E c \in ToSet(h[i]) : Ref(c) = Ref(b)
      OBVIOUS
    <2>1. a \in ToSet(Loose) /\ b \in ToSet(Members)
      BY <1>7
    <2>2. PICK i \in 1..Len(Loose) : Loose[i] = a
      BY <1>9, <2>1
    <2>3. b \in ToSet(h[i])
      BY <1>3, <2>1, <2>2
    <2> QED
      BY <2>2, <2>3
  <1> QED
    BY <1>1, <1>3, <1>4, <1>6, <1>10, <1>11, FormsFromRows DEF Strategies

LEMMA SpanIdentityForms ==
    ASSUME SeenTyped
    PROVE  Forms("span_identity")
  <1> DEFINE hits(i) == OnlyIn(Members, {b \in ToSet(Members) : ExactFor(RelatedLogs[i], b)})
             h == [i \in 1..Len(RelatedLogs) |-> IF hits(i) = <<>> THEN <<>> ELSE <<hits(i)[1]>>]
             rows == [i \in 1..Len(RelatedLogs) |->
                        [j \in 1..Len(h[i]) |-> Rel("span_identity", RelatedLogs[i], h[i][j])]]
  <1>1. /\ RelatedLogs \in Seq(Keys) /\ Once(RelatedLogs)
        /\ \A k : k \in ToSet(RelatedLogs) <=> k \in ToSet(seen.log) /\ IsRelatedLog(k)
    BY RelatedLogsLaws, AscendsOnce
  <1>2. /\ Members \in Seq(Keys) /\ Ascends(Members)
        /\ \A k : k \in ToSet(Members) <=> k \in ToSet(seen.span) /\ IsMember(k)
    BY MembersLaws
  <1>3. ASSUME NEW i \in 1..Len(RelatedLogs)
        PROVE  /\ hits(i) \in Seq(Keys)
               /\ \A b : b \in ToSet(hits(i)) <=> b \in ToSet(Members) /\ ExactFor(RelatedLogs[i], b)
    <2> DEFINE S == {b \in ToSet(Members) : ExactFor(RelatedLogs[i], b)}
    <2>1. hits(i) = OnlyIn(Members, S)
      OBVIOUS
    <2>2. \A b : b \in ToSet(Members) \cap S <=> b \in ToSet(Members) /\ ExactFor(RelatedLogs[i], b)
      OBVIOUS
    <2> HIDE DEF S, hits
    <2>3. hits(i) \in Seq(Keys) /\ ToSet(hits(i)) = ToSet(Members) \cap S
      BY <2>1, <1>2, SelectionAscends
    <2> QED
      BY <2>2, <2>3
  <1>4. Run("span_identity") =
          FlattenSeq([i \in 1..Len(RelatedLogs) |->
                        IF hits(i) = <<>> THEN <<>> ELSE <<Rel("span_identity", RelatedLogs[i], hits(i)[1])>>])
    <2>1. Run("span_identity") = FirstPairs("span_identity", RelatedLogs, Members, ExactFor)
      BY DEF Run
    <2>2. DOMAIN RelatedLogs = 1..Len(RelatedLogs)
      BY <1>1
    <2> QED
      BY <2>1, <2>2 DEF FirstPairs, FirstOf
  <1> HIDE DEF hits
  <1>5. ASSUME NEW i \in 1..Len(RelatedLogs)
        PROVE  /\ h[i] \in Seq(Keys) /\ Once(h[i])
               /\ [j \in 1..Len(h[i]) |-> Rel("span_identity", RelatedLogs[i], h[i][j])] =
                    IF hits(i) = <<>> THEN <<>> ELSE <<Rel("span_identity", RelatedLogs[i], hits(i)[1])>>
               /\ \A b \in ToSet(h[i]) : b \in ToSet(hits(i))
               /\ \A b \in ToSet(hits(i)) : \E c \in ToSet(h[i]) : c \in ToSet(hits(i))
    <2>1. CASE hits(i) = <<>>
      BY <2>1 DEF ToSet, Once
    <2>2. CASE hits(i) # <<>>
      <3>1. hits(i)[1] \in Keys /\ hits(i)[1] \in ToSet(hits(i))
        BY <2>2, <1>3 DEF ToSet
      <3>2. h[i] = <<hits(i)[1]>>
        BY <2>2
      <3> HIDE DEF h
      <3>3. h[i] \in Seq(Keys) /\ Len(h[i]) = 1 /\ h[i][1] = hits(i)[1] /\ DOMAIN h[i] = 1..1
        BY <3>1, <3>2
      <3>4. ToSet(h[i]) = {hits(i)[1]}
        BY <3>3 DEF ToSet
      <3>5. [j \in 1..Len(h[i]) |-> Rel("span_identity", RelatedLogs[i], h[i][j])]
              = <<Rel("span_identity", RelatedLogs[i], hits(i)[1])>>
        BY <3>3
      <3>6. Once(h[i])
        BY <3>3 DEF Once
      <3> QED
        BY <2>2, <3>1, <3>3, <3>4, <3>5, <3>6
    <2> QED
      BY <2>1, <2>2
  <1>6. h \in [1..Len(RelatedLogs) -> Seq(Keys)]
    <2>1. h = [i \in 1..Len(RelatedLogs) |-> h[i]]
      OBVIOUS
    <2> HIDE DEF h
    <2> QED
      BY <1>5, <2>1
  <1> HIDE DEF h
  <1>7. Run("span_identity") = FlattenSeq(rows)
    BY <1>4, <1>5
  <1>8. Rows("span_identity", RelatedLogs, h, rows)
    BY <1>1, <1>6, RowsFormed DEF Strategies
  <1> HIDE DEF rows
  <1>9. \A a, b \in Scanned : Holds("span_identity", a, b, Scanned) <=>
          a \in ToSet(RelatedLogs) /\ b \in ToSet(Members) /\ ExactFor(a, b)
    BY <1>1, <1>2, ScannedKinds DEF Holds, IsRelatedLog, IsMember, ExactFor, Identified, Natural, KindSet
  <1>10. \A i \in 1..Len(RelatedLogs) : RelatedLogs[i] \in ToSet(RelatedLogs)
    BY <1>1 DEF ToSet
  <1>11. \A a \in ToSet(RelatedLogs) : \E i \in 1..Len(RelatedLogs) : RelatedLogs[i] = a
    BY <1>1 DEF ToSet
  <1>12. \A i \in 1..Len(RelatedLogs) : \A b \in ToSet(h[i]) :
           RelatedLogs[i] \in Scanned /\ b \in Scanned /\ Holds("span_identity", RelatedLogs[i], b, Scanned)
    <2> SUFFICES ASSUME NEW i \in 1..Len(RelatedLogs), NEW b \in ToSet(h[i])
                 PROVE  RelatedLogs[i] \in Scanned /\ b \in Scanned /\ Holds("span_identity", RelatedLogs[i], b, Scanned)
      OBVIOUS
    <2>1. b \in ToSet(Members) /\ ExactFor(RelatedLogs[i], b)
      BY <1>3, <1>5
    <2>2. RelatedLogs[i] \in Scanned /\ b \in Scanned
      BY <2>1, <1>1, <1>2, <1>10, ScannedKinds DEF KindSet
    <2> QED
      BY <1>9, <1>10, <2>1, <2>2
  <1>13. \A a, b \in Scanned : Holds("span_identity", a, b, Scanned) =>
           \E i \in 1..Len(RelatedLogs) : RelatedLogs[i] = a /\ \E c \in ToSet(h[i]) : Ref(c) = Ref(b)
    <2> SUFFICES ASSUME NEW a \in Scanned, NEW b \in Scanned, Holds("span_identity", a, b, Scanned)
                 PROVE  \E i \in 1..Len(RelatedLogs) :
                          RelatedLogs[i] = a /\ \E c \in ToSet(h[i]) : Ref(c) = Ref(b)
      OBVIOUS
    <2>1. a \in ToSet(RelatedLogs) /\ b \in ToSet(Members) /\ ExactFor(a, b)
      BY <1>9
    <2>2. PICK i \in 1..Len(RelatedLogs) : RelatedLogs[i] = a
      BY <1>11, <2>1
    <2>3. b \in ToSet(hits(i))
      BY <1>3, <2>1, <2>2
    <2>4. PICK c \in ToSet(h[i]) : c \in ToSet(hits(i))
      BY <1>5, <2>3
    <2>5. c \in ToSet(Members) /\ ExactFor(a, c)
      BY <1>3, <2>2, <2>4
    <2>6. SameIdentity(b, c) /\ b \in Keys /\ c \in Keys /\ Facts[b].kind = Facts[c].kind
      BY <2>1, <2>5, <1>2, ScannedKinds DEF ExactFor, SameIdentity, Identified, Natural, KindSet
    <2>7. Ref(c) = Ref(b)
      BY <2>6, SameRef
    <2> QED
      BY <2>2, <2>4, <2>7
  <1>14. Once(RelatedLogs) /\ \A i \in 1..Len(RelatedLogs) : Once(h[i])
    BY <1>1, <1>5
  <1> QED
    BY <1>7, <1>8, <1>12, <1>13, <1>14, FormsFromRows DEF Strategies

LEMMA ParentChildForms ==
    ASSUME SeenTyped
    PROVE  Forms("parent_child")
  <1> DEFINE hits(i) == OnlyIn(seen.span, {b \in ToSet(seen.span) : ParentOf(seen.span[i], b)})
             h == [i \in 1..Len(seen.span) |-> IF hits(i) = <<>> THEN <<>> ELSE <<hits(i)[1]>>]
             rows == [i \in 1..Len(seen.span) |->
                        [j \in 1..Len(h[i]) |-> Rel("parent_child", seen.span[i], h[i][j])]]
  <1>1. seen.span \in Seq(Keys) /\ Once(seen.span)
    BY SeenKinds, AscendsOnce DEF KindSet
  <1>2. /\ seen.span \in Seq(Keys) /\ Ascends(seen.span)
        /\ \A k \in ToSet(seen.span) : k \in Keys /\ Facts[k].kind = "span"
    BY SeenKinds DEF KindSet
  <1>3. ASSUME NEW i \in 1..Len(seen.span)
        PROVE  /\ hits(i) \in Seq(Keys)
               /\ \A b : b \in ToSet(hits(i)) <=> b \in ToSet(seen.span) /\ ParentOf(seen.span[i], b)
    <2> DEFINE S == {b \in ToSet(seen.span) : ParentOf(seen.span[i], b)}
    <2>1. hits(i) = OnlyIn(seen.span, S)
      OBVIOUS
    <2>2. \A b : b \in ToSet(seen.span) \cap S <=> b \in ToSet(seen.span) /\ ParentOf(seen.span[i], b)
      OBVIOUS
    <2> HIDE DEF S, hits
    <2>3. hits(i) \in Seq(Keys) /\ ToSet(hits(i)) = ToSet(seen.span) \cap S
      BY <2>1, <1>2, SelectionAscends
    <2> QED
      BY <2>2, <2>3
  <1>4. Run("parent_child") =
          FlattenSeq([i \in 1..Len(seen.span) |->
                        IF hits(i) = <<>> THEN <<>> ELSE <<Rel("parent_child", seen.span[i], hits(i)[1])>>])
    <2>1. Run("parent_child") = FirstPairs("parent_child", seen.span, seen.span, ParentOf)
      BY DEF Run
    <2>2. DOMAIN seen.span = 1..Len(seen.span)
      BY <1>1
    <2> QED
      BY <2>1, <2>2 DEF FirstPairs, FirstOf
  <1> HIDE DEF hits
  <1>5. ASSUME NEW i \in 1..Len(seen.span)
        PROVE  /\ h[i] \in Seq(Keys) /\ Once(h[i])
               /\ [j \in 1..Len(h[i]) |-> Rel("parent_child", seen.span[i], h[i][j])] =
                    IF hits(i) = <<>> THEN <<>> ELSE <<Rel("parent_child", seen.span[i], hits(i)[1])>>
               /\ \A b \in ToSet(h[i]) : b \in ToSet(hits(i))
               /\ \A b \in ToSet(hits(i)) : \E c \in ToSet(h[i]) : c \in ToSet(hits(i))
    <2>1. CASE hits(i) = <<>>
      BY <2>1 DEF ToSet, Once
    <2>2. CASE hits(i) # <<>>
      <3>1. hits(i)[1] \in Keys /\ hits(i)[1] \in ToSet(hits(i))
        BY <2>2, <1>3 DEF ToSet
      <3>2. h[i] = <<hits(i)[1]>>
        BY <2>2
      <3> HIDE DEF h
      <3>3. h[i] \in Seq(Keys) /\ Len(h[i]) = 1 /\ h[i][1] = hits(i)[1] /\ DOMAIN h[i] = 1..1
        BY <3>1, <3>2
      <3>4. ToSet(h[i]) = {hits(i)[1]}
        BY <3>3 DEF ToSet
      <3>5. [j \in 1..Len(h[i]) |-> Rel("parent_child", seen.span[i], h[i][j])]
              = <<Rel("parent_child", seen.span[i], hits(i)[1])>>
        BY <3>3
      <3>6. Once(h[i])
        BY <3>3 DEF Once
      <3> QED
        BY <2>2, <3>1, <3>3, <3>4, <3>5, <3>6
    <2> QED
      BY <2>1, <2>2
  <1>6. h \in [1..Len(seen.span) -> Seq(Keys)]
    <2>1. h = [i \in 1..Len(seen.span) |-> h[i]]
      OBVIOUS
    <2> HIDE DEF h
    <2> QED
      BY <1>5, <2>1
  <1> HIDE DEF h
  <1>7. Run("parent_child") = FlattenSeq(rows)
    BY <1>4, <1>5
  <1>8. Rows("parent_child", seen.span, h, rows)
    BY <1>1, <1>6, RowsFormed DEF Strategies
  <1> HIDE DEF rows
  <1>9. \A a, b \in Scanned : Holds("parent_child", a, b, Scanned) <=>
          a \in ToSet(seen.span) /\ b \in ToSet(seen.span) /\ ParentOf(a, b)
    BY <1>1, <1>2, ScannedKinds DEF Holds, ParentOf, Identified, Natural, KindSet
  <1>10. \A i \in 1..Len(seen.span) : seen.span[i] \in ToSet(seen.span)
    BY <1>1 DEF ToSet
  <1>11. \A a \in ToSet(seen.span) : \E i \in 1..Len(seen.span) : seen.span[i] = a
    BY <1>1 DEF ToSet
  <1>12. \A i \in 1..Len(seen.span) : \A b \in ToSet(h[i]) :
           seen.span[i] \in Scanned /\ b \in Scanned /\ Holds("parent_child", seen.span[i], b, Scanned)
    <2> SUFFICES ASSUME NEW i \in 1..Len(seen.span), NEW b \in ToSet(h[i])
                 PROVE  seen.span[i] \in Scanned /\ b \in Scanned /\ Holds("parent_child", seen.span[i], b, Scanned)
      OBVIOUS
    <2>1. b \in ToSet(seen.span) /\ ParentOf(seen.span[i], b)
      BY <1>3, <1>5
    <2>2. seen.span[i] \in Scanned /\ b \in Scanned
      BY <2>1, <1>1, <1>2, <1>10, ScannedKinds DEF KindSet
    <2> QED
      BY <1>9, <1>10, <2>1, <2>2
  <1>13. \A a, b \in Scanned : Holds("parent_child", a, b, Scanned) =>
           \E i \in 1..Len(seen.span) : seen.span[i] = a /\ \E c \in ToSet(h[i]) : Ref(c) = Ref(b)
    <2> SUFFICES ASSUME NEW a \in Scanned, NEW b \in Scanned, Holds("parent_child", a, b, Scanned)
                 PROVE  \E i \in 1..Len(seen.span) :
                          seen.span[i] = a /\ \E c \in ToSet(h[i]) : Ref(c) = Ref(b)
      OBVIOUS
    <2>1. a \in ToSet(seen.span) /\ b \in ToSet(seen.span) /\ ParentOf(a, b)
      BY <1>9
    <2>2. PICK i \in 1..Len(seen.span) : seen.span[i] = a
      BY <1>11, <2>1
    <2>3. b \in ToSet(hits(i))
      BY <1>3, <2>1, <2>2
    <2>4. PICK c \in ToSet(h[i]) : c \in ToSet(hits(i))
      BY <1>5, <2>3
    <2>5. c \in ToSet(seen.span) /\ ParentOf(a, c)
      BY <1>3, <2>2, <2>4
    <2>6. SameIdentity(b, c) /\ b \in Keys /\ c \in Keys /\ Facts[b].kind = Facts[c].kind
      BY <2>1, <2>5, <1>2, ScannedKinds DEF ParentOf, SameIdentity, Identified, Natural, KindSet
    <2>7. Ref(c) = Ref(b)
      BY <2>6, SameRef
    <2> QED
      BY <2>2, <2>4, <2>7
  <1>14. Once(seen.span) /\ \A i \in 1..Len(seen.span) : Once(h[i])
    BY <1>1, <1>5
  <1>15. "parent_child" \in Strategies
    BY DEF Strategies
  <1> QED
    BY <1>7, <1>8, <1>12, <1>13, <1>14, <1>15, FormsFromRows, SMTT(60)

(* What one sequence after another holds, and where.                         *)
LEMMA JoinedLaws ==
    ASSUME NEW T, NEW s \in Seq(T), NEW t \in Seq(T)
    PROVE  /\ s \o t \in Seq(T) /\ Len(s \o t) = Len(s) + Len(t)
           /\ \A i \in 1..Len(s) : (s \o t)[i] = s[i]
           /\ \A i \in 1..Len(t) : (s \o t)[Len(s) + i] = t[i]
           /\ \A i \in 1..Len(s \o t) :
                \/ i \in 1..Len(s) /\ (s \o t)[i] = s[i]
                \/ i - Len(s) \in 1..Len(t) /\ (s \o t)[i] = t[i - Len(s)]
           /\ ToSet(s \o t) = ToSet(s) \cup ToSet(t)
  <1> DEFINE u == s \o t
  <1>1. Len(s) \in Nat /\ Len(t) \in Nat
    OBVIOUS
  <1>2. u \in Seq(T) /\ Len(u) = Len(s) + Len(t)
    OBVIOUS
  <1>3. \A i \in 1..Len(s) : u[i] = s[i]
    OBVIOUS
  <1>4. \A i \in 1..Len(t) : u[Len(s) + i] = t[i]
    OBVIOUS
  <1> HIDE DEF u
  <1>5. ASSUME NEW i \in 1..Len(u)
        PROVE  \/ i \in 1..Len(s) /\ u[i] = s[i]
               \/ i - Len(s) \in 1..Len(t) /\ u[i] = t[i - Len(s)]
    <2>1. CASE i <= Len(s)
      BY <1>1, <1>3, <2>1
    <2>2. CASE i > Len(s)
      <3>1. i - Len(s) \in 1..Len(t) /\ Len(s) + (i - Len(s)) = i
        BY <1>1, <1>2, <2>2
      <3> QED
        BY <1>4, <3>1
    <2> QED
      BY <1>1, <2>1, <2>2
  <1>6. ASSUME NEW x \in ToSet(u)
        PROVE  x \in ToSet(s) \cup ToSet(t)
    <2>1. PICK i \in 1..Len(u) : u[i] = x
      BY <1>2 DEF ToSet
    <2> QED
      BY <1>5, <2>1 DEF ToSet
  <1>7. ASSUME NEW x \in ToSet(s)
        PROVE  x \in ToSet(u)
    <2>1. PICK i \in 1..Len(s) : s[i] = x
      BY DEF ToSet
    <2>2. i \in 1..Len(u) /\ u[i] = x
      BY <1>1, <1>2, <1>3, <2>1
    <2> QED
      BY <1>2, <2>2 DEF ToSet
  <1>8. ASSUME NEW x \in ToSet(t)
        PROVE  x \in ToSet(u)
    <2>1. PICK i \in 1..Len(t) : t[i] = x
      BY DEF ToSet
    <2>2. Len(s) + i \in 1..Len(u) /\ u[Len(s) + i] = x
      BY <1>1, <1>2, <1>4, <2>1
    <2> QED
      BY <1>2, <2>2 DEF ToSet
  <1>9. ToSet(u) = ToSet(s) \cup ToSet(t)
    BY <1>6, <1>7, <1>8
  <1> QED
    BY <1>2, <1>3, <1>4, <1>5, <1>9 DEF u

(* All that was scanned, in order: a record before another is earlier.       *)
LEMMA AllScanned ==
    ASSUME SeenTyped
    PROVE  LET all == AllSeen
           IN  /\ all \in Seq(Keys) /\ ToSet(all) = Scanned
               /\ \A i, j \in 1..Len(all) : i < j => Earlier(all[i], all[j])
  <1> DEFINE s == seen.span
             l == seen.log
             p == seen.point
             q == s \o l
             all == q \o p
  <1>0. KindRank.span = 0 /\ KindRank.log = 1 /\ KindRank.point = 2
    BY DEF KindRank
  <1>1. /\ s \in Seq(Keys) /\ l \in Seq(Keys) /\ p \in Seq(Keys)
        /\ Ascends(s) /\ Ascends(l) /\ Ascends(p)
        /\ \A k \in ToSet(s) : Facts[k].kind = "span"
        /\ \A k \in ToSet(l) : Facts[k].kind = "log"
        /\ \A k \in ToSet(p) : Facts[k].kind = "point"
    BY SeenKinds DEF KindSet
  <1>2. Scanned = ToSet(s) \cup ToSet(l) \cup ToSet(p)
    BY DEF Scanned
  <1> HIDE DEF s, l, p
  <1>3. /\ q \in Seq(Keys) /\ Len(q) = Len(s) + Len(l)
        /\ \A i \in 1..Len(q) :
             \/ i \in 1..Len(s) /\ q[i] = s[i]
             \/ i - Len(s) \in 1..Len(l) /\ q[i] = l[i - Len(s)]
        /\ ToSet(q) = ToSet(s) \cup ToSet(l)
    BY <1>1, JoinedLaws
  <1> HIDE DEF q
  <1>4. /\ all \in Seq(Keys) /\ Len(all) = Len(q) + Len(p)
        /\ \A i \in 1..Len(all) :
             \/ i \in 1..Len(q) /\ all[i] = q[i]
             \/ i - Len(q) \in 1..Len(p) /\ all[i] = p[i - Len(q)]
        /\ ToSet(all) = ToSet(q) \cup ToSet(p)
    <2>1. p \in Seq(Keys) /\ q \in Seq(Keys)
      BY <1>1, <1>3
    <2> QED
      BY <2>1, JoinedLaws
  <1> HIDE DEF all
  <1>5. Len(s) \in Nat /\ Len(l) \in Nat /\ Len(p) \in Nat /\ Len(q) \in Nat
    BY <1>1, <1>3
  <1>6. /\ \A i \in 1..Len(s) : s[i] \in ToSet(s) /\ Facts[s[i]].kind = "span"
        /\ \A i \in 1..Len(l) : l[i] \in ToSet(l) /\ Facts[l[i]].kind = "log"
        /\ \A i \in 1..Len(p) : p[i] \in ToSet(p) /\ Facts[p[i]].kind = "point"
    BY <1>1 DEF ToSet
  <1>7. ASSUME NEW i \in 1..Len(q), NEW j \in 1..Len(q), i < j
        PROVE  Earlier(q[i], q[j])
    <2>1. CASE j \in 1..Len(s) /\ q[j] = s[j]
      <3>1. i \in 1..Len(s) /\ q[i] = s[i]
        BY <2>1, <1>3, <1>5, <1>7
      <3>2. s[i] < s[j]
        BY <2>1, <3>1, <1>7, <1>1 DEF Ascends
      <3> QED
        BY <2>1, <3>1, <3>2, <1>6 DEF Earlier
    <2>2. CASE j - Len(s) \in 1..Len(l) /\ q[j] = l[j - Len(s)]
      <3>1. CASE i \in 1..Len(s) /\ q[i] = s[i]
        BY <1>0, <2>2, <3>1, <1>6 DEF Earlier
      <3>2. CASE i - Len(s) \in 1..Len(l) /\ q[i] = l[i - Len(s)]
        <4>1. i - Len(s) < j - Len(s)
          BY <1>5, <1>7
        <4>2. l[i - Len(s)] < l[j - Len(s)]
          BY <2>2, <3>2, <4>1, <1>1 DEF Ascends
        <4> QED
          BY <2>2, <3>2, <4>2, <1>6 DEF Earlier
      <3> QED
        BY <1>3, <3>1, <3>2
    <2> QED
      BY <1>3, <2>1, <2>2
  <1>8. ASSUME NEW i \in 1..Len(q)
        PROVE  KindRank[Facts[q[i]].kind] < 2
    <2>1. CASE i \in 1..Len(s) /\ q[i] = s[i]
      BY <2>1, <1>0, <1>6
    <2>2. CASE i - Len(s) \in 1..Len(l) /\ q[i] = l[i - Len(s)]
      BY <2>2, <1>0, <1>6
    <2> QED
      BY <1>3, <2>1, <2>2
  <1>9. ASSUME NEW i \in 1..Len(all), NEW j \in 1..Len(all), i < j
        PROVE  Earlier(all[i], all[j])
    <2>1. CASE j \in 1..Len(q) /\ all[j] = q[j]
      <3>1. i \in 1..Len(q) /\ all[i] = q[i]
        BY <2>1, <1>4, <1>5, <1>9
      <3> QED
        BY <2>1, <3>1, <1>7, <1>9
    <2>2. CASE j - Len(q) \in 1..Len(p) /\ all[j] = p[j - Len(q)]
      <3>1. CASE i \in 1..Len(q) /\ all[i] = q[i]
        BY <1>0, <1>8, <2>2, <3>1, <1>6 DEF Earlier
      <3>2. CASE i - Len(q) \in 1..Len(p) /\ all[i] = p[i - Len(q)]
        <4>1. i - Len(q) < j - Len(q)
          BY <1>5, <1>9
        <4>2. p[i - Len(q)] < p[j - Len(q)]
          BY <2>2, <3>2, <4>1, <1>1 DEF Ascends
        <4> QED
          BY <2>2, <3>2, <4>2, <1>6 DEF Earlier
      <3> QED
        BY <1>4, <3>1, <3>2
    <2> QED
      BY <1>4, <2>1, <2>2
  <1>10. ToSet(all) = Scanned
    BY <1>2, <1>3, <1>4
  <1> QED
    BY <1>4, <1>9, <1>10 DEF all, q, s, l, p, AllSeen

LEMMA FlattenOnce ==
    ASSUME NEW T, NEW ss \in Seq(Seq(T)),
           \A i \in 1..Len(ss) : Once(ss[i]),
           \A i, j \in 1..Len(ss) : i # j => \A x \in ToSet(ss[i]) : x \notin ToSet(ss[j])
    PROVE  Once(FlattenSeq(ss))
  <1> DEFINE f == FlattenSeq(ss)
  <1>1. f \in Seq(T)
    BY FlattenPlaces
  <1>2. PICK row, col : PutTogether(ss, Len(ss), f, row, col)
    BY FlattenPlaces
  <1> HIDE DEF f
  <1>3. \A k \in 1..Len(f) :
          /\ row[k] \in 1..Len(ss) /\ col[k] \in 1..Len(ss[row[k]]) /\ f[k] = ss[row[k]][col[k]]
    BY <1>2 DEF PutTogether
  <1>4. \A k \in 1..Len(f) : f[k] \in ToSet(ss[row[k]])
    <2> TAKE k \in 1..Len(f)
    <2>1. ss[row[k]] \in Seq(T)
      BY <1>3
    <2> QED
      BY <1>3, <2>1, ElementOf
  <1>5. ASSUME NEW k \in 1..Len(f), NEW l \in 1..Len(f), f[k] = f[l], k < l
        PROVE  FALSE
    <2>1. row[k] = row[l]
      BY <1>3, <1>4, <1>5
    <2>2. col[k] < col[l]
      BY <1>2, <1>3, <1>5, <2>1 DEF PutTogether
    <2>3. ss[row[k]][col[k]] = ss[row[k]][col[l]] /\ col[l] \in 1..Len(ss[row[k]])
      BY <1>3, <1>5, <2>1
    <2>4. col[k] = col[l]
      BY <1>3, <2>3 DEF Once
    <2> QED
      BY <1>3, <2>1, <2>2, <2>4
  <1>6. ASSUME NEW k \in 1..Len(f), NEW l \in 1..Len(f), f[k] = f[l]
        PROVE  k = l
    <2>1. k < l \/ l < k \/ k = l
      BY <1>1
    <2> QED
      BY <1>5, <1>6, <2>1
  <1> QED
    BY <1>6 DEF Once, f

LEMMA EarlierStrict ==
    ASSUME NEW a \in Keys, NEW b \in Keys, Earlier(a, b)
    PROVE  ~Earlier(b, a) /\ a # b
  <1>1. Facts[a].kind \in KindSet /\ Facts[b].kind \in KindSet
    BY FactsTyped
  <1>2. a \in Int /\ b \in Int
    BY KeysNumbers
  <1> QED
    BY <1>1, <1>2 DEF Earlier, KindRank, KindSet

(* A group's pairs are its records with the earlier ones first, each once.   *)
LEMMA GroupForms ==
    ASSUME NEW group \in Seq(Keys),
           \A i, j \in 1..Len(group) : i < j => Earlier(group[i], group[j])
    PROVE  /\ PairsOf(group) \in Seq(Relations)
           /\ \A r \in ToSet(PairsOf(group)) : \E a, b \in ToSet(group) :
                Earlier(a, b) /\ r = Rel("resource_context", a, b)
           /\ \A a, b \in ToSet(group) :
                Earlier(a, b) => Rel("resource_context", a, b) \in ToSet(PairsOf(group))
           /\ DistinctIn(ToSet(group)) => Once(PairsOf(group))
  <1> DEFINE h == [i \in 1..Len(group) |-> [j \in 1..(Len(group) - i) |-> group[i + j]]]
             rows == [i \in 1..Len(group) |->
                        [j \in 1..Len(h[i]) |-> Rel("resource_context", group[i], h[i][j])]]
  <1>1. Len(group) \in Nat /\ DOMAIN group = 1..Len(group)
    OBVIOUS
  <1>2. ASSUME NEW i \in 1..Len(group)
        PROVE  /\ h[i] \in Seq(Keys) /\ Len(h[i]) = Len(group) - i
               /\ \A j \in 1..(Len(group) - i) : h[i][j] = group[i + j] /\ i + j \in 1..Len(group)
    <2>1. \A j \in 1..(Len(group) - i) : i + j \in 1..Len(group)
      BY <1>1
    <2>2. \A j \in 1..(Len(group) - i) : group[i + j] \in Keys
      BY <2>1
    <2>3. Len(group) - i \in Nat
      BY <1>1
    <2> DEFINE m == Len(group) - i
               g == [j \in 1..m |-> group[i + j]]
    <2>4. h[i] = g
      OBVIOUS
    <2> HIDE DEF h
    <2>5. g \in [1..m -> Keys] /\ m \in Nat
      BY <2>2, <2>3
    <2>6. g \in Seq(Keys) /\ Len(g) = m
      BY <2>5
    <2> QED
      BY <2>1, <2>4, <2>6
  <1>3. h \in [1..Len(group) -> Seq(Keys)]
    <2>1. h = [i \in 1..Len(group) |-> h[i]]
      OBVIOUS
    <2> HIDE DEF h
    <2> QED
      BY <1>2, <2>1
  <1>4. PairsOf(group) = FlattenSeq(rows)
    <2>1. PairsOf(group) = FlattenSeq([i \in 1..Len(group) |->
            [j \in 1..(Len(group) - i) |-> Rel("resource_context", group[i], group[i + j])]])
      BY <1>1 DEF PairsOf
    <2> HIDE DEF h
    <2>2. \A i \in 1..Len(group) :
            [j \in 1..(Len(group) - i) |-> Rel("resource_context", group[i], group[i + j])]
              = [j \in 1..Len(h[i]) |-> Rel("resource_context", group[i], h[i][j])]
      BY <1>2
    <2> QED
      BY <2>1, <2>2
  <1> HIDE DEF h
  <1>5. Rows("resource_context", group, h, rows)
    BY <1>3, RowsFormed DEF Strategies
  <1> HIDE DEF rows
  <1>6. /\ FlattenSeq(rows) \in Seq(Relations)
        /\ \A r \in ToSet(FlattenSeq(rows)) :
             \E i \in 1..Len(group) : \E b \in ToSet(h[i]) : r = Rel("resource_context", group[i], b)
        /\ \A i \in 1..Len(group) : \A b \in ToSet(h[i]) :
             Rel("resource_context", group[i], b) \in ToSet(FlattenSeq(rows))
    BY <1>5, PairRows DEF Strategies
  <1>7. \A i \in 1..Len(group) : group[i] \in ToSet(group)
    BY DEF ToSet
  <1>8. ASSUME NEW i \in 1..Len(group), NEW b \in ToSet(h[i])
        PROVE  b \in ToSet(group) /\ Earlier(group[i], b)
    <2>1. PICK j \in 1..(Len(group) - i) : h[i][j] = b
      BY <1>2 DEF ToSet
    <2>2. b = group[i + j] /\ i + j \in 1..Len(group)
      BY <1>2, <2>1
    <2>3. i < i + j
      OBVIOUS
    <2> QED
      BY <1>7, <2>2, <2>3
  <1>9. ASSUME NEW a \in ToSet(group), NEW b \in ToSet(group), Earlier(a, b)
        PROVE  Rel("resource_context", a, b) \in ToSet(FlattenSeq(rows))
    <2>1. PICK i \in 1..Len(group) : group[i] = a
      BY <1>1 DEF ToSet
    <2>2. PICK k \in 1..Len(group) : group[k] = b
      BY <1>1 DEF ToSet
    <2>3. a \in Keys /\ b \in Keys
      BY <2>1, <2>2
    <2>4. ~Earlier(b, a) /\ a # b
      BY <1>9, <2>3, EarlierStrict
    <2>5. i < k
      BY <1>1, <2>1, <2>2, <2>4
    <2>6. k - i \in 1..(Len(group) - i) /\ i + (k - i) = k
      BY <1>1, <2>5
    <2>7. h[i][k - i] = b /\ k - i \in 1..Len(h[i])
      BY <1>2, <2>2, <2>6
    <2>8. b \in ToSet(h[i])
      BY <1>2, <2>7 DEF ToSet
    <2> QED
      BY <1>6, <2>1, <2>8
  <1>10. ASSUME DistinctIn(ToSet(group))
         PROVE  Once(FlattenSeq(rows))
    <2>1. ASSUME NEW i \in 1..Len(group), NEW j \in 1..Len(h[i])
          PROVE  group[i] \in ToSet(group) /\ h[i][j] \in ToSet(group)
      BY <1>2, <1>7
    <2>2. ASSUME NEW i \in 1..Len(group), NEW j \in 1..Len(group), group[i] = group[j]
          PROVE  i = j
      <3>1. group[i] \in Keys
        OBVIOUS
      <3>2. ~Earlier(group[i], group[i])
        BY <3>1, EarlierStrict
      <3> QED
        BY <1>1, <2>2, <3>2
    <2>3. ASSUME NEW i \in 1..Len(group), NEW m \in 1..Len(h[i]), NEW n \in 1..Len(h[i]),
                 h[i][m] = h[i][n]
          PROVE  m = n
      <3>1. i + m \in 1..Len(group) /\ i + n \in 1..Len(group) /\ group[i + m] = group[i + n]
        BY <1>2, <2>3
      <3>2. i + m = i + n
        BY <2>2, <3>1
      <3>3. m \in Int /\ n \in Int /\ i \in Int
        OBVIOUS
      <3> QED
        BY <3>2, <3>3
    <2>4. Once(group) /\ \A i \in 1..Len(group) : Once(h[i])
      BY <2>2, <2>3 DEF Once
    <2>5. "resource_context" \in Strategies
      BY DEF Strategies
    <2> QED
      BY <1>5, <1>10, <2>1, <2>4, <2>5, PairRowsOnce
  <1> QED
    <2>1. ASSUME NEW r \in ToSet(FlattenSeq(rows))
          PROVE  \E a, b \in ToSet(group) : Earlier(a, b) /\ r = Rel("resource_context", a, b)
      <3>1. PICK i \in 1..Len(group) : \E b \in ToSet(h[i]) : r = Rel("resource_context", group[i], b)
        BY <1>6
      <3>2. PICK b \in ToSet(h[i]) : r = Rel("resource_context", group[i], b)
        BY <3>1
      <3> QED
        BY <1>7, <1>8, <3>2
    <2> QED
      BY <1>4, <1>6, <1>9, <1>10, <2>1

LEMMA ResourceForms ==
    ASSUME SeenTyped
    PROVE  Forms("resource_context")
  <1> DEFINE all == AllSeen
             R == {Facts[k].resource : k \in ToSet(all)}
             resources == Ascending(R)
             group(g) == OnlyIn(all, {k \in ToSet(all) : Facts[k].resource = resources[g]})
             rows == [g \in 1..Len(resources) |-> PairsOf(group(g))]
  <1>1. /\ all \in Seq(Keys) /\ ToSet(all) = Scanned /\ Scanned \subseteq Keys
        /\ \A i, j \in 1..Len(all) : i < j => Earlier(all[i], all[j])
    BY AllScanned, ScannedKinds
  <1> HIDE DEF all
  <1>2. R \in SUBSET Int /\ IsFiniteSet(R)
    <2>1. \A k \in Keys : Facts[k].resource \in Int
      BY FactsTyped
    <2>2. IsFiniteSet(Keys)
      BY CorrelationAssumption, FS_Interval DEF Keys
    <2>3. IsFiniteSet(Scanned)
      BY <1>1, <2>2, FS_Subset
    <2> DEFINE f == [k \in Scanned |-> Facts[k].resource]
    <2>4. f \in Surjection(Scanned, R)
      BY <1>1 DEF Surjection
    <2>5. R \in SUBSET Int
      BY <1>1, <2>1
    <2> HIDE DEF R, f
    <2>6. IsFiniteSet(R)
      BY <2>3, <2>4, FS_Surjection
    <2> QED
      BY <2>5, <2>6
  <1>3. /\ resources \in Seq(R) /\ ToSet(resources) = R /\ Len(resources) \in Nat
        /\ \A g, n \in 1..Len(resources) : g < n => resources[g] < resources[n]
    <2> HIDE DEF R
    <2> QED
      BY <1>2, AscendingLaws
  <1>4. \A k \in Scanned : \E g \in 1..Len(resources) : resources[g] = Facts[k].resource
    <2> TAKE k \in Scanned
    <2>1. Facts[k].resource \in ToSet(resources)
      BY <1>1, <1>3
    <2> HIDE DEF resources
    <2> QED
      BY <1>3, <2>1 DEF ToSet
  <1>5. ASSUME NEW g \in 1..Len(resources), NEW n \in 1..Len(resources), g # n
        PROVE  resources[g] # resources[n]
    <2> HIDE DEF resources
    <2>1. resources[g] \in Int /\ resources[n] \in Int
      BY <1>2, <1>3
    <2>2. g < n \/ n < g
      BY <1>3, <1>5
    <2> QED
      BY <1>3, <2>1, <2>2
  <1> HIDE DEF R
  <1> HIDE DEF resources
  <1>6. ASSUME NEW g \in 1..Len(resources)
        PROVE  /\ group(g) \in Seq(Keys)
               /\ \A k : k \in ToSet(group(g)) <=> k \in Scanned /\ Facts[k].resource = resources[g]
               /\ \A i, j \in 1..Len(group(g)) : i < j => Earlier(group(g)[i], group(g)[j])
    <2> DEFINE S == {k \in ToSet(all) : Facts[k].resource = resources[g]}
               r == group(g)
    <2>1. r = OnlyIn(all, S)
      OBVIOUS
    <2>2. \A k : k \in ToSet(all) \cap S <=> k \in Scanned /\ Facts[k].resource = resources[g]
      BY <1>1
    <2> HIDE DEF S
    <2> HIDE DEF group
    <2>3. /\ r \in Seq(Keys \cap S) /\ ToSet(r) = ToSet(all) \cap S
          /\ \E at : Selects(all, S, r, at)
      BY <1>1, <2>1, OnlyInLaws
    <2>4. r \in Seq(Keys)
      BY <2>3, SeqMonotone
    <2>5. PICK at : Selects(all, S, r, at)
      BY <2>3
    <2>6. ASSUME NEW i \in 1..Len(r), NEW j \in 1..Len(r), i < j
          PROVE  Earlier(r[i], r[j])
      <3>1. /\ at[i] \in 1..Len(all) /\ at[j] \in 1..Len(all) /\ at[i] < at[j]
            /\ r[i] = all[at[i]] /\ r[j] = all[at[j]]
        BY <2>5, <2>6 DEF Selects
      <3> QED
        BY <1>1, <3>1
    <2> QED
      BY <2>2, <2>3, <2>4, <2>6
  <1>7. Run("resource_context") = FlattenSeq(rows)
    <2>1. DOMAIN resources = 1..Len(resources)
      BY <1>3
    <2>2. Run("resource_context") = ResourceContext
      BY DEF Run
    <2> QED
      BY <2>1, <2>2 DEF ResourceContext, resources, R, all
  <1> HIDE DEF group
  <1>8. ASSUME NEW g \in 1..Len(resources)
        PROVE  /\ PairsOf(group(g)) \in Seq(Relations)
               /\ \A r \in ToSet(PairsOf(group(g))) : \E a, b \in ToSet(group(g)) :
                    Earlier(a, b) /\ r = Rel("resource_context", a, b)
               /\ \A a, b \in ToSet(group(g)) :
                    Earlier(a, b) => Rel("resource_context", a, b) \in ToSet(PairsOf(group(g)))
               /\ DistinctIn(ToSet(group(g))) => Once(PairsOf(group(g)))
    BY <1>6, GroupForms
  <1>9. rows \in Seq(Seq(Relations)) /\ Len(rows) = Len(resources)
        /\ \A g \in 1..Len(resources) : rows[g] = PairsOf(group(g))
    <2>1. rows \in [1..Len(resources) -> Seq(Relations)]
      BY <1>8
    <2> QED
      BY <1>3, <2>1
  <1> HIDE DEF rows
  <1>10. /\ FlattenSeq(rows) \in Seq(Relations)
         /\ \A x \in ToSet(FlattenSeq(rows)) :
              \E i \in 1..Len(rows) : \E j \in 1..Len(rows[i]) : rows[i][j] = x
         /\ \A i \in 1..Len(rows) : \A j \in 1..Len(rows[i]) : rows[i][j] \in ToSet(FlattenSeq(rows))
    BY <1>9, FlattenElements
  <1>11. \A a, b : Holds("resource_context", a, b, Scanned) <=>
           Earlier(a, b) /\ Facts[a].resource = Facts[b].resource
    BY DEF Holds
  <1>12. ASSUME NEW r \in ToSet(FlattenSeq(rows))
         PROVE  \E a, b \in Scanned : Holds("resource_context", a, b, Scanned)
                                        /\ r = Rel("resource_context", a, b)
    <2>1. PICK g \in 1..Len(rows) : \E j \in 1..Len(rows[g]) : rows[g][j] = r
      BY <1>10
    <2>2. r \in ToSet(PairsOf(group(g)))
      <3>1. rows[g] \in Seq(Relations)
        BY <1>9
      <3>2. r \in ToSet(rows[g])
        BY <2>1, <3>1, ElementOf
      <3> QED
        BY <1>9, <3>2
    <2>3. PICK a, b \in ToSet(group(g)) : Earlier(a, b) /\ r = Rel("resource_context", a, b)
      BY <1>8, <1>9, <2>2
    <2> QED
      BY <1>6, <1>9, <1>11, <2>3
  <1>13. ASSUME NEW a \in Scanned, NEW b \in Scanned, Holds("resource_context", a, b, Scanned)
         PROVE  Rel("resource_context", a, b) \in ToSet(FlattenSeq(rows))
    <2>1. PICK g \in 1..Len(resources) : resources[g] = Facts[a].resource
      BY <1>4
    <2>2. a \in ToSet(group(g)) /\ b \in ToSet(group(g)) /\ Earlier(a, b)
      BY <1>6, <1>11, <1>13, <2>1
    <2>3. Rel("resource_context", a, b) \in ToSet(rows[g])
      BY <1>8, <1>9, <2>2
    <2>4. rows[g] \in Seq(Relations)
      BY <1>9
    <2>5. PICK j \in 1..Len(rows[g]) : rows[g][j] = Rel("resource_context", a, b)
      BY <2>3, <2>4 DEF ToSet
    <2> QED
      BY <1>9, <1>10, <2>5
  <1>14. ASSUME Distinct
         PROVE  Once(FlattenSeq(rows))
    <2>1. ASSUME NEW g \in 1..Len(rows)
          PROVE  Once(rows[g])
      BY <1>6, <1>8, <1>9, <1>14 DEF Distinct, DistinctIn
    <2>2. ASSUME NEW g \in 1..Len(rows), NEW n \in 1..Len(rows), g # n, NEW x \in ToSet(rows[g]),
                 x \in ToSet(rows[n])
          PROVE  FALSE
      <3>1. PICK a, b \in ToSet(group(g)) : x = Rel("resource_context", a, b)
        BY <1>8, <1>9
      <3>2. PICK c, d \in ToSet(group(n)) : x = Rel("resource_context", c, d)
        BY <1>8, <1>9, <2>2
      <3>3. /\ a \in Scanned /\ c \in Scanned
            /\ Facts[a].resource = resources[g] /\ Facts[c].resource = resources[n]
        BY <1>6, <1>9, <3>1, <3>2
      <3>4. Ref(a) = Ref(c)
        BY <3>1, <3>2 DEF Rel
      <3>5. a = c
        BY <1>14, <3>3, <3>4 DEF Distinct, DistinctIn
      <3> QED
        BY <1>5, <1>9, <2>2, <3>3, <3>5
    <2> QED
      BY <1>9, <2>1, <2>2, FlattenOnce
  <1> QED
    BY <1>7, <1>10, <1>12, <1>13, <1>14 DEF Forms

(* An exemplar's span is the first seen under the name it gives.             *)
LEMMA ExemplarForms ==
    ASSUME SeenTyped
    PROVE  Forms("exemplar")
  <1> DEFINE links(i) == Facts[seen.point[i]].links
             one(i, e) == FirstOf("exemplar", seen.point[i], SpansNamed(links(i)[e]))
             inner(i) == [e \in 1..Len(links(i)) |-> one(i, e)]
             rows == [i \in 1..Len(seen.point) |-> FlattenSeq(inner(i))]
  <1>1. seen.point \in Seq(Keys) /\ Len(seen.point) \in Nat
        /\ \A k : k \in ToSet(seen.point) <=> k \in Scanned /\ Facts[k].kind = "point"
    BY SeenKinds, ScannedKinds DEF KindSet
  <1>2. seen.span \in Seq(Keys) /\ Ascends(seen.span)
        /\ \A k : k \in ToSet(seen.span) <=> k \in Scanned /\ Facts[k].kind = "span"
    BY SeenKinds, ScannedKinds DEF KindSet
  <1>3. ASSUME NEW i \in 1..Len(seen.point)
        PROVE  /\ seen.point[i] \in Keys /\ seen.point[i] \in ToSet(seen.point)
               /\ links(i) \in Seq([trace : Nat, span : Nat]) /\ Len(links(i)) \in Nat
               /\ DOMAIN links(i) = 1..Len(links(i))
    <2>1. seen.point[i] \in Keys
      BY <1>1
    <2>2. links(i) \in Seq([trace : Nat, span : Nat])
      BY <2>1, FactsTyped
    <2>3. seen.point[i] \in ToSet(seen.point)
      BY <1>1, ElementOf
    <2> HIDE DEF links
    <2> QED
      BY <2>1, <2>2, <2>3
  <1>4. ASSUME NEW link
        PROVE  /\ SpansNamed(link) \in Seq(Keys)
               /\ \A s : s \in ToSet(SpansNamed(link)) <=>
                    s \in ToSet(seen.span) /\ Identified(s, link.trace, link.span)
    <2> DEFINE S == {s \in ToSet(seen.span) : Identified(s, link.trace, link.span)}
    <2>1. SpansNamed(link) = OnlyIn(seen.span, S)
      BY DEF SpansNamed
    <2>2. \A s : s \in ToSet(seen.span) \cap S <=>
            s \in ToSet(seen.span) /\ Identified(s, link.trace, link.span)
      OBVIOUS
    <2> HIDE DEF S
    <2> QED
      BY <1>2, <2>1, <2>2, SelectionAscends
  <1>5. Run("exemplar") = FlattenSeq(rows)
    <2>1. Run("exemplar") = ExemplarAttachment
      BY DEF Run
    <2>a. DOMAIN seen.point = 1..Len(seen.point)
      BY <1>1
    <2>2. ExemplarAttachment =
            FlattenSeq([i \in 1..Len(seen.point) |-> FlattenSeq([e \in DOMAIN links(i) |-> one(i, e)])])
      BY <2>a DEF ExemplarAttachment
    <2> HIDE DEF links
    <2>3. \A i \in 1..Len(seen.point) :
            FlattenSeq([e \in DOMAIN links(i) |-> one(i, e)]) = FlattenSeq(inner(i))
      BY <1>3
    <2> HIDE DEF inner
    <2> QED
      BY <2>1, <2>2, <2>3
  <1> HIDE DEF links
  <1>6. ASSUME NEW i \in 1..Len(seen.point), NEW e \in 1..Len(links(i))
        PROVE  /\ one(i, e) \in Seq(Relations)
               /\ \A j \in 1..Len(one(i, e)) : \E s \in ToSet(SpansNamed(links(i)[e])) :
                    one(i, e)[j] = Rel("exemplar", seen.point[i], s)
               /\ ToSet(SpansNamed(links(i)[e])) # {} =>
                    \E s \in ToSet(SpansNamed(links(i)[e])) : \E j \in 1..Len(one(i, e)) :
                      one(i, e)[j] = Rel("exemplar", seen.point[i], s)
    <2> DEFINE hits == SpansNamed(links(i)[e])
    <2>0. hits \in Seq(Keys)
      BY <1>4
    <2> HIDE DEF hits
    <2>a. one(i, e) = FirstOf("exemplar", seen.point[i], hits)
      BY DEF hits
    <2> HIDE DEF one
    <2>1. CASE hits = <<>>
      <3>1. one(i, e) = <<>>
        BY <2>1, <2>a DEF FirstOf
      <3>2. ToSet(hits) = {}
        BY <2>1 DEF ToSet
      <3> QED
        BY <3>1, <3>2 DEF hits
    <2>2. CASE hits # <<>>
      <3>1. hits[1] \in Keys /\ hits[1] \in ToSet(hits)
        BY <2>0, <2>2 DEF ToSet
      <3>2. one(i, e) = <<Rel("exemplar", seen.point[i], hits[1])>>
        BY <2>2, <2>a DEF FirstOf
      <3>3. Rel("exemplar", seen.point[i], hits[1]) \in Relations
        BY <1>3, <3>1, RelTyped DEF Strategies
      <3> DEFINE x == Rel("exemplar", seen.point[i], hits[1])
      <3>4. one(i, e) = <<x>> /\ x \in Relations
        BY <3>2, <3>3
      <3>5. /\ one(i, e) \in Seq(Relations) /\ Len(one(i, e)) = 1 /\ one(i, e)[1] = x
        <4> HIDE DEF x
        <4> QED
          BY <3>4
      <3>6. \A j \in 1..Len(one(i, e)) : one(i, e)[j] = x
        BY <3>5
      <3>7. one(i, e)[1] = x /\ 1 \in 1..Len(one(i, e))
        BY <3>5
      <3> QED
        BY <3>1, <3>5, <3>6, <3>7 DEF hits
    <2> QED
      BY <2>1, <2>2
  <1> HIDE DEF one
  <1>7. ASSUME NEW i \in 1..Len(seen.point)
        PROVE  /\ FlattenSeq(inner(i)) \in Seq(Relations)
               /\ \A x \in ToSet(FlattenSeq(inner(i))) :
                    \E e \in 1..Len(links(i)) : \E j \in 1..Len(one(i, e)) : one(i, e)[j] = x
               /\ \A e \in 1..Len(links(i)) : \A j \in 1..Len(one(i, e)) :
                    one(i, e)[j] \in ToSet(FlattenSeq(inner(i)))
    <2>1. inner(i) \in [1..Len(links(i)) -> Seq(Relations)]
      BY <1>6
    <2>2. \A e \in 1..Len(links(i)) : inner(i)[e] = one(i, e)
      OBVIOUS
    <2> DEFINE it == inner(i)
               N == Len(links(i))
    <2>3. it \in [1..N -> Seq(Relations)] /\ N \in Nat /\ \A e \in 1..N : it[e] = one(i, e)
      BY <1>3, <2>1, <2>2
    <2> HIDE DEF it, N
    <2>4. it \in Seq(Seq(Relations)) /\ Len(it) = N
      BY <2>3
    <2>5. /\ FlattenSeq(it) \in Seq(Relations)
          /\ \A x \in ToSet(FlattenSeq(it)) :
               \E e \in 1..Len(it) : \E j \in 1..Len(it[e]) : it[e][j] = x
          /\ \A e \in 1..Len(it) : \A j \in 1..Len(it[e]) : it[e][j] \in ToSet(FlattenSeq(it))
      BY <2>4, FlattenElements
    <2>6. /\ FlattenSeq(it) \in Seq(Relations)
          /\ \A x \in ToSet(FlattenSeq(it)) :
               \E e \in 1..N : \E j \in 1..Len(one(i, e)) : one(i, e)[j] = x
          /\ \A e \in 1..N : \A j \in 1..Len(one(i, e)) : one(i, e)[j] \in ToSet(FlattenSeq(it))
      BY <2>3, <2>4, <2>5
    <2> QED
      BY <2>6 DEF it, N
  <1> HIDE DEF inner
  <1>8. rows \in Seq(Seq(Relations)) /\ Len(rows) = Len(seen.point)
        /\ \A i \in 1..Len(seen.point) : rows[i] = FlattenSeq(inner(i))
    <2>1. rows \in [1..Len(seen.point) -> Seq(Relations)]
      BY <1>7
    <2> QED
      BY <1>1, <2>1
  <1> HIDE DEF rows
  <1>9. /\ FlattenSeq(rows) \in Seq(Relations)
        /\ \A x \in ToSet(FlattenSeq(rows)) :
             \E i \in 1..Len(rows) : \E j \in 1..Len(rows[i]) : rows[i][j] = x
        /\ \A i \in 1..Len(rows) : \A j \in 1..Len(rows[i]) : rows[i][j] \in ToSet(FlattenSeq(rows))
    BY <1>8, FlattenElements
  <1>10. \A a, b : Holds("exemplar", a, b, Scanned) <=>
           /\ Facts[a].kind = "point"
           /\ \E e \in DOMAIN Facts[a].links :
                Identified(b, Facts[a].links[e].trace, Facts[a].links[e].span)
    BY DEF Holds
  <1>11. ASSUME NEW r \in ToSet(FlattenSeq(rows))
         PROVE  \E a, b \in Scanned : Holds("exemplar", a, b, Scanned) /\ r = Rel("exemplar", a, b)
    <2>1. PICK i \in 1..Len(rows) : \E j \in 1..Len(rows[i]) : rows[i][j] = r
      BY <1>9
    <2>2. r \in ToSet(FlattenSeq(inner(i)))
      BY <1>8, <2>1, ElementOf
    <2>3. PICK e \in 1..Len(links(i)) : \E j \in 1..Len(one(i, e)) : one(i, e)[j] = r
      BY <1>7, <1>8, <2>2
    <2>4. PICK s \in ToSet(SpansNamed(links(i)[e])) : r = Rel("exemplar", seen.point[i], s)
      BY <1>6, <1>8, <2>3
    <2>5. s \in Scanned /\ Identified(s, links(i)[e].trace, links(i)[e].span)
      BY <1>2, <1>4, <2>4
    <2>6. seen.point[i] \in Scanned /\ Facts[seen.point[i]].kind = "point" /\ e \in DOMAIN links(i)
      BY <1>1, <1>3, <1>8
    <2>7. Holds("exemplar", seen.point[i], s, Scanned)
      BY <1>10, <2>5, <2>6 DEF links
    <2> QED
      BY <2>4, <2>5, <2>6, <2>7
  <1>12. ASSUME NEW a \in Scanned, NEW b \in Scanned, Holds("exemplar", a, b, Scanned)
         PROVE  Rel("exemplar", a, b) \in ToSet(FlattenSeq(rows))
    <2>1. a \in ToSet(seen.point)
      BY <1>1, <1>10, <1>12
    <2>2. PICK i \in 1..Len(seen.point) : seen.point[i] = a
      BY <1>1, <2>1 DEF ToSet
    <2>3. PICK e \in 1..Len(links(i)) : Identified(b, links(i)[e].trace, links(i)[e].span)
      BY <1>3, <1>10, <1>12, <2>2 DEF links
    <2>4. b \in ToSet(seen.span)
      BY <1>2, <2>3, ScannedKinds DEF Identified, Natural
    <2>5. b \in ToSet(SpansNamed(links(i)[e]))
      BY <1>4, <2>3, <2>4
    <2>6. PICK s \in ToSet(SpansNamed(links(i)[e])) :
            \E j \in 1..Len(one(i, e)) : one(i, e)[j] = Rel("exemplar", seen.point[i], s)
      BY <1>6, <2>5
    <2>7. s \in ToSet(seen.span) /\ Identified(s, links(i)[e].trace, links(i)[e].span)
      BY <1>4, <2>6
    <2>8. SameIdentity(s, b) /\ Facts[s].kind = Facts[b].kind /\ s \in Keys /\ b \in Keys
      BY <1>2, <2>3, <2>4, <2>7, ScannedKinds DEF SameIdentity, Identified
    <2>9. Ref(s) = Ref(b)
      BY <2>8, SameRef
    <2>10. Rel("exemplar", a, b) \in ToSet(FlattenSeq(inner(i)))
      BY <1>7, <2>2, <2>6, <2>9 DEF Rel
    <2>11. rows[i] \in Seq(Relations) /\ Rel("exemplar", a, b) \in ToSet(rows[i])
      BY <1>8, <2>10
    <2>12. PICK j \in 1..Len(rows[i]) : rows[i][j] = Rel("exemplar", a, b)
      BY <2>11 DEF ToSet
    <2>13. i \in 1..Len(rows)
      BY <1>8
    <2>14. rows[i][j] \in ToSet(FlattenSeq(rows))
      BY <1>9, <2>13
    <2> QED
      BY <2>12, <2>14
  <1> QED
    BY <1>5, <1>9, <1>11, <1>12 DEF Forms

LEMMA AllForm ==
    ASSUME SeenTyped, NEW strategy \in Strategies
    PROVE  Forms(strategy)
  BY TemporalForms, TraceIdentityForms, SpanIdentityForms, ParentChildForms, ResourceForms,
     ExemplarForms DEF Strategies

LEMMA RanksDiffer ==
    ASSUME NEW x \in Strategies, NEW y \in Strategies, TypeRank[x] = TypeRank[y]
    PROVE  x = y
  BY DEF TypeRank, Strategies

(* A run that stood on what was scanned forms exactly what is related there, *)
(* each relation once but for the exemplars.                                 *)
LEMMA GeneratedLaws ==
    ASSUME SeenTyped, call.strategies \in Seq(Strategies)
    PROVE  /\ Generated \in Seq(Relations)
           /\ ToSet(Generated) = Related(Scanned)
           /\ Distinct /\ IsInjective(call.strategies) =>
                \A i, j \in 1..Len(Generated) : Generated[i] = Generated[j] =>
                  i = j \/ Generated[i].type = TypeRank["exemplar"]
  <1> DEFINE asked == call.strategies
             rows == [i \in 1..Len(asked) |-> Run(asked[i])]
             f == FlattenSeq(rows)
  <1>1. asked \in Seq(Strategies) /\ Len(asked) \in Nat /\ DOMAIN asked = 1..Len(asked)
    OBVIOUS
  <1>2. Generated = f
    BY <1>1 DEF Generated
  <1>3. asked = call.strategies
    OBVIOUS
  <1> HIDE DEF asked
  <1>4. ASSUME NEW i \in 1..Len(asked)
        PROVE  asked[i] \in Strategies /\ Forms(asked[i]) /\ Run(asked[i]) \in Seq(Relations)
    <2>1. asked[i] \in Strategies
      BY <1>1
    <2>2. Forms(asked[i])
      BY <2>1, AllForm
    <2> QED
      BY <2>1, <2>2 DEF Forms
  <1>5. rows \in Seq(Seq(Relations)) /\ Len(rows) = Len(asked)
        /\ \A i \in 1..Len(asked) : rows[i] = Run(asked[i])
    <2>1. rows \in [1..Len(asked) -> Seq(Relations)]
      BY <1>4
    <2> QED
      BY <1>1, <2>1
  <1> HIDE DEF rows
  <1>6. /\ f \in Seq(Relations)
        /\ \A x \in ToSet(f) : \E i \in 1..Len(rows) : \E j \in 1..Len(rows[i]) : rows[i][j] = x
        /\ \A i \in 1..Len(rows) : \A j \in 1..Len(rows[i]) : rows[i][j] \in ToSet(f)
    BY <1>5, FlattenElements
  <1>7. PICK row, col : PutTogether(rows, Len(rows), f, row, col)
    BY <1>5, FlattenPlaces
  <1> HIDE DEF f
  <1>8. ASSUME NEW r \in ToSet(f)
        PROVE  r \in Related(Scanned)
    <2>1. PICK i \in 1..Len(rows) : \E j \in 1..Len(rows[i]) : rows[i][j] = r
      BY <1>6
    <2>2. r \in ToSet(Run(asked[i]))
      BY <1>4, <1>5, <2>1, ElementOf
    <2>3. PICK a, b \in Scanned : Holds(asked[i], a, b, Scanned) /\ r = Rel(asked[i], a, b)
      BY <1>4, <1>5, <2>2 DEF Forms
    <2>4. asked[i] \in ToSet(asked)
      BY <1>1, <1>5, ElementOf
    <2> QED
      BY <1>3, <2>3, <2>4, RelatedMeans
  <1>9. ASSUME NEW r \in Related(Scanned)
        PROVE  r \in ToSet(f)
    <2>1. PICK strategy \in ToSet(asked) : \E a, b \in Scanned :
            Holds(strategy, a, b, Scanned) /\ r = Rel(strategy, a, b)
      BY <1>3, RelatedMeans
    <2>2. PICK i \in 1..Len(asked) : asked[i] = strategy
      BY <1>1, <2>1 DEF ToSet
    <2>3. r \in ToSet(rows[i]) /\ rows[i] \in Seq(Relations) /\ i \in 1..Len(rows)
      BY <1>4, <1>5, <2>1, <2>2 DEF Forms
    <2>4. PICK j \in 1..Len(rows[i]) : rows[i][j] = r
      BY <2>3 DEF ToSet
    <2> QED
      BY <1>6, <2>3, <2>4
  <1>10. ASSUME NEW k \in 1..Len(f)
         PROVE  /\ row[k] \in 1..Len(asked) /\ col[k] \in 1..Len(rows[row[k]])
                /\ f[k] = rows[row[k]][col[k]]
                /\ f[k].type = TypeRank[asked[row[k]]]
    <2>1. row[k] \in 1..Len(asked) /\ col[k] \in 1..Len(rows[row[k]]) /\ f[k] = rows[row[k]][col[k]]
      BY <1>5, <1>7 DEF PutTogether
    <2>2. rows[row[k]] \in Seq(Relations)
      BY <1>5, <2>1
    <2>3. f[k] \in ToSet(Run(asked[row[k]]))
      BY <1>5, <2>1, <2>2, ElementOf
    <2>4. PICK a, b \in Scanned : f[k] = Rel(asked[row[k]], a, b)
      BY <1>4, <2>1, <2>3 DEF Forms
    <2>5. f[k].type = TypeRank[asked[row[k]]]
      BY <2>4 DEF Rel
    <2> QED
      BY <2>1, <2>5
  <1>11. ASSUME Distinct, IsInjective(asked), NEW k \in 1..Len(f), NEW l \in 1..Len(f),
                f[k] = f[l], k < l
         PROVE  f[k].type = TypeRank["exemplar"]
    <2>0. asked[row[k]] \in Strategies /\ asked[row[l]] \in Strategies
      BY <1>4, <1>10
    <2>a. TypeRank[asked[row[k]]] = TypeRank[asked[row[l]]]
      BY <1>10, <1>11
    <2>1. asked[row[k]] = asked[row[l]]
      BY <2>0, <2>a, RanksDiffer
    <2>2. row[k] = row[l]
      BY <1>1, <1>10, <1>11, <2>1 DEF IsInjective
    <2>3. col[k] < col[l]
      BY <1>7, <1>10, <1>11, <2>2 DEF PutTogether
    <2>4. rows[row[k]][col[k]] = rows[row[k]][col[l]] /\ col[k] # col[l]
          /\ col[k] \in 1..Len(rows[row[k]]) /\ col[l] \in 1..Len(rows[row[k]])
      BY <1>10, <1>11, <2>2, <2>3
    <2>5. ~Once(rows[row[k]])
      BY <2>4 DEF Once
    <2>6. asked[row[k]] = "exemplar"
      BY <1>4, <1>5, <1>10, <1>11, <2>5 DEF Forms
    <2> QED
      BY <1>10, <2>6
  <1>12. ASSUME Distinct, IsInjective(asked), NEW k \in 1..Len(f), NEW l \in 1..Len(f), f[k] = f[l]
         PROVE  k = l \/ f[k].type = TypeRank["exemplar"]
    <2>1. k < l \/ l < k \/ k = l
      BY <1>6
    <2> QED
      BY <1>11, <1>12, <2>1
  <1> QED
    BY <1>2, <1>3, <1>6, <1>8, <1>9, <1>12

(* The strongest identity stands alone among the related.                    *)
LEMMA StrongestRelated ==
    ASSUME NEW S, S \subseteq Keys, NEW r \in Related(S), NEW q \in Related(S),
           r.type = TypeRank["span_identity"], q.type = TypeRank["trace_identity"],
           call.strategies \in Seq(Strategies)
    PROVE  r.from # q.from
  <1>0. ToSet(call.strategies) \subseteq Strategies
    BY DEF ToSet
  <1>1. PICK x \in ToSet(call.strategies) : \E a, b \in S : Holds(x, a, b, S) /\ r = Rel(x, a, b)
    BY RelatedMeans
  <1>2. PICK a, b \in S : Holds(x, a, b, S) /\ r = Rel(x, a, b)
    BY <1>1
  <1>3. PICK y \in ToSet(call.strategies) : \E c, d \in S : Holds(y, c, d, S) /\ q = Rel(y, c, d)
    BY RelatedMeans
  <1>4. PICK c, d \in S : Holds(y, c, d, S) /\ q = Rel(y, c, d)
    BY <1>3
  <1>5. TypeRank[x] = TypeRank["span_identity"] /\ TypeRank[y] = TypeRank["trace_identity"]
    BY <1>2, <1>4 DEF Rel
  <1>6. x = "span_identity" /\ y = "trace_identity"
    BY <1>0, <1>5, RanksDiffer DEF Strategies
  <1>7. Facts[a].kind = "log" /\ ExactFor(a, b) /\ Facts[c].kind = "log" /\ ~ExactFor(c, b)
    BY <1>2, <1>4, <1>6 DEF Holds
  <1>8. a # c
    BY <1>7
  <1>9. a \in Keys /\ c \in Keys
    OBVIOUS
  <1>10. ~SameIdentity(a, c)
    BY <1>7 DEF SameIdentity, Natural
  <1>11. Ref(a) # Ref(c)
    BY <1>8, <1>9, <1>10, SameRef
  <1> QED
    BY <1>2, <1>4, <1>11 DEF Rel

-----------------------------------------------------------------------------
(* The documented order, and what sorting by it returns.                     *)

LEMMA RelationParts ==
    ASSUME NEW r \in Relations
    PROVE  /\ r.type \in Nat /\ r.from[1] \in Nat /\ r.from[2] \in Nat
           /\ r.to[1] \in Nat /\ r.to[2] \in Nat
           /\ r = [type |-> r.type, from |-> <<r.from[1], r.from[2]>>, to |-> <<r.to[1], r.to[2]>>]
  BY DEF Relations, Refs

LEMMA BeforeMeans ==
    ASSUME NEW r \in Relations, NEW q \in Relations
    PROVE  Before(r, q) <=>
             \/ r.type < q.type
             \/ r.type = q.type /\ r.from[1] < q.from[1]
             \/ r.type = q.type /\ r.from[1] = q.from[1] /\ r.from[2] < q.from[2]
             \/ /\ r.type = q.type /\ r.from[1] = q.from[1] /\ r.from[2] = q.from[2]
                /\ r.to[1] < q.to[1]
             \/ /\ r.type = q.type /\ r.from[1] = q.from[1] /\ r.from[2] = q.from[2]
                /\ r.to[1] = q.to[1] /\ r.to[2] < q.to[2]
  <1> DEFINE x == Rank(r)
             y == Rank(q)
  <1>1. /\ x[1] = r.type /\ x[2] = r.from[1] /\ x[3] = r.from[2] /\ x[4] = r.to[1] /\ x[5] = r.to[2]
        /\ y[1] = q.type /\ y[2] = q.from[1] /\ y[3] = q.from[2] /\ y[4] = q.to[1] /\ y[5] = q.to[2]
    BY DEF Rank
  <1>2. Before(r, q) <=> \E i \in 1..5 : x[i] < y[i] /\ \A j \in 1..(i - 1) : x[j] = y[j]
    BY DEF Before
  <1> HIDE DEF x, y
  <1>3. (\E i \in 1..5 : x[i] < y[i] /\ \A j \in 1..(i - 1) : x[j] = y[j]) <=>
          \/ x[1] < y[1]
          \/ x[1] = y[1] /\ x[2] < y[2]
          \/ x[1] = y[1] /\ x[2] = y[2] /\ x[3] < y[3]
          \/ x[1] = y[1] /\ x[2] = y[2] /\ x[3] = y[3] /\ x[4] < y[4]
          \/ x[1] = y[1] /\ x[2] = y[2] /\ x[3] = y[3] /\ x[4] = y[4] /\ x[5] < y[5]
    <2>1. \A i \in 1..5 : i = 1 \/ i = 2 \/ i = 3 \/ i = 4 \/ i = 5
      OBVIOUS
    <2>2. /\ \A j : j \in 1..(1 - 1) <=> FALSE
          /\ \A j : j \in 1..(2 - 1) <=> j = 1
          /\ \A j : j \in 1..(3 - 1) <=> j = 1 \/ j = 2
          /\ \A j : j \in 1..(4 - 1) <=> j = 1 \/ j = 2 \/ j = 3
          /\ \A j : j \in 1..(5 - 1) <=> j = 1 \/ j = 2 \/ j = 3 \/ j = 4
      OBVIOUS
    <2> DEFINE first(i) == x[i] < y[i] /\ \A j \in 1..(i - 1) : x[j] = y[j]
    <2>3. /\ first(1) <=> x[1] < y[1]
          /\ first(2) <=> x[2] < y[2] /\ x[1] = y[1]
          /\ first(3) <=> x[3] < y[3] /\ x[1] = y[1] /\ x[2] = y[2]
          /\ first(4) <=> x[4] < y[4] /\ x[1] = y[1] /\ x[2] = y[2] /\ x[3] = y[3]
          /\ first(5) <=> x[5] < y[5] /\ x[1] = y[1] /\ x[2] = y[2] /\ x[3] = y[3] /\ x[4] = y[4]
      BY <2>2
    <2>4. (\E i \in 1..5 : first(i)) <=> first(1) \/ first(2) \/ first(3) \/ first(4) \/ first(5)
      <3> HIDE DEF first
      <3> QED
        BY <2>1
    <2> QED
      BY <2>3, <2>4
  <1> QED
    BY <1>1, <1>2, <1>3

LEMMA BeforeOrders ==
    /\ \A r \in Relations : ~Before(r, r)
    /\ \A r, q, p \in Relations : Before(r, q) /\ Before(q, p) => Before(r, p)
    /\ \A r, q \in Relations : r = q \/ Before(r, q) \/ Before(q, r)
  <1>1. \A r \in Relations : ~Before(r, r)
    BY BeforeMeans, RelationParts
  <1>2. ASSUME NEW r \in Relations, NEW q \in Relations, NEW p \in Relations,
               Before(r, q), Before(q, p)
        PROVE  Before(r, p)
    BY <1>2, BeforeMeans, RelationParts
  <1>3. ASSUME NEW r \in Relations, NEW q \in Relations, ~Before(r, q), ~Before(q, r)
        PROVE  r = q
    <2>1. /\ r.type = q.type /\ r.from[1] = q.from[1] /\ r.from[2] = q.from[2]
          /\ r.to[1] = q.to[1] /\ r.to[2] = q.to[2]
      BY <1>3, BeforeMeans, RelationParts
    <2> QED
      BY <2>1, RelationParts
  <1> QED
    BY <1>1, <1>2, <1>3

(* Sorting permutes: element n of the result is element at[n].               *)
LEMMA SortedLaws ==
    ASSUME NEW s \in Seq(Relations)
    PROVE  /\ Sorted(s) \in Seq(Relations) /\ Len(Sorted(s)) = Len(s)
           /\ ToSet(Sorted(s)) = ToSet(s)
           /\ \A i, j \in 1..Len(s) : i < j => ~Before(Sorted(s)[j], Sorted(s)[i])
           /\ \E at \in [1..Len(s) -> 1..Len(s)] :
                /\ \A n \in 1..Len(s) : Sorted(s)[n] = s[at[n]]
                /\ \A m, n \in 1..Len(s) : at[m] = at[n] => m = n
  <1> DEFINE S == 1..Len(s)
             After2(i, j) == Before(s[i], s[j]) \/ (s[i] = s[j] /\ i < j)
             R == {p \in S \X S : After2(p[1], p[2])}
             at == [n \in S |-> CHOOSE i \in S : Place(s, i) = n]
  <1>1. Len(s) \in Nat /\ DOMAIN s = S /\ IsFiniteSet(S) /\ Cardinality(S) = Len(s)
    <2>1. Len(s) \in Nat /\ DOMAIN s = S
      OBVIOUS
    <2>2. IsFiniteSet(1..Len(s)) /\ Cardinality(1..Len(s)) = Len(s)
      BY <2>1, FS_Interval
    <2> QED
      BY <2>1, <2>2
  <1>2. \A i \in S : s[i] \in Relations /\ i \in Int
    OBVIOUS
  <1>3. \A i, j \in S : <<i, j>> \in R <=> After2(i, j)
    OBVIOUS
  <1> HIDE DEF R, S
  <1>4. \A i \in S : Place(s, i) = Cardinality(Upon(S, R, i))
    <2> TAKE i \in S
    <2>1. {j \in S : Before(s[j], s[i]) \/ (s[j] = s[i] /\ j <= i)} = Upon(S, R, i)
      <3>1. \A j \in S : (Before(s[j], s[i]) \/ (s[j] = s[i] /\ j <= i)) <=> j = i \/ <<j, i>> \in R
        BY <1>2, <1>3
      <3> QED
        BY <3>1 DEF Upon
    <2> QED
      BY <1>1, <2>1 DEF Place
  <1>5. /\ \A i \in S : <<i, i>> \notin R
        /\ \A i, j, k \in S : <<i, j>> \in R /\ <<j, k>> \in R => <<i, k>> \in R
        /\ \A i, j \in S : i = j \/ <<i, j>> \in R \/ <<j, i>> \in R
    <2>1. \A i \in S : ~After2(i, i)
      BY <1>2, BeforeOrders
    <2>2. ASSUME NEW i \in S, NEW j \in S, NEW k \in S, After2(i, j), After2(j, k)
          PROVE  After2(i, k)
      BY <1>2, <2>2, BeforeOrders
    <2>3. \A i, j \in S : i = j \/ After2(i, j) \/ After2(j, i)
      BY <1>2, BeforeOrders
    <2> HIDE DEF After2
    <2> QED
      BY <1>3, <2>1, <2>2, <2>3
  <1>6. /\ \A i \in S : Place(s, i) \in S
        /\ \A i, j \in S : <<i, j>> \in R => Place(s, i) < Place(s, j)
        /\ \A n \in S : \E i \in S : Place(s, i) = n
    <2>1. /\ \A i \in S : Cardinality(Upon(S, R, i)) \in 1..Cardinality(S)
          /\ \A i, j \in S : <<i, j>> \in R =>
               Cardinality(Upon(S, R, i)) < Cardinality(Upon(S, R, j))
          /\ \A n \in 1..Cardinality(S) : \E i \in S : Cardinality(Upon(S, R, i)) = n
      <3>1. IsFiniteSet(S)
        BY <1>1
      <3> QED
        BY <1>5, <3>1, RankOnto, Zenon
    <2>2. 1..Cardinality(S) = S
      BY <1>1 DEF S
    <2> QED
      BY <1>4, <2>1, <2>2
  <1>7. \A n \in S : at[n] \in S /\ Place(s, at[n]) = n
    <2> TAKE n \in S
    <2>1. \E i \in S : Place(s, i) = n
      BY <1>6
    <2>2. at[n] = CHOOSE i \in S : Place(s, i) = n
      OBVIOUS
    <2> HIDE DEF at
    <2> QED
      BY <2>1, <2>2
  <1>8. at \in [S -> S] /\ \A m, n \in S : at[m] = at[n] => m = n
    <2>1. at = [n \in S |-> at[n]]
      OBVIOUS
    <2> HIDE DEF at
    <2> QED
      BY <1>7, <2>1
  <1>9. Sorted(s) = [n \in S |-> s[at[n]]]
    BY <1>1 DEF Sorted
  <1>10. \A i \in S : \E n \in S : at[n] = i
    <2> TAKE i \in S
    <2>1. at[Place(s, i)] \in S /\ Place(s, at[Place(s, i)]) = Place(s, i) /\ Place(s, i) \in S
      BY <1>6, <1>7
    <2> HIDE DEF at
    <2>2. ASSUME at[Place(s, i)] # i
          PROVE  FALSE
      <3>1. <<at[Place(s, i)], i>> \in R \/ <<i, at[Place(s, i)]>> \in R
        BY <1>5, <2>1, <2>2
      <3>2. Place(s, i) < Place(s, i)
        BY <1>6, <2>1, <3>1
      <3>3. Place(s, i) \in Int
        BY <1>2, <2>1
      <3> QED
        BY <3>2, <3>3
    <2> QED
      BY <2>1, <2>2
  <1> HIDE DEF at
  <1>11. /\ Sorted(s) \in Seq(Relations) /\ Len(Sorted(s)) = Len(s)
         /\ \A n \in S : Sorted(s)[n] = s[at[n]]
    <2>1. Sorted(s) \in [1..Len(s) -> Relations]
      BY <1>2, <1>7, <1>9 DEF S
    <2> QED
      BY <1>1, <1>9, <2>1
  <1>12. ToSet(Sorted(s)) = ToSet(s)
    <2>1. ToSet(Sorted(s)) = {Sorted(s)[n] : n \in S} /\ ToSet(s) = {s[n] : n \in S}
      BY <1>1, <1>11 DEF ToSet, S
    <2> QED
      BY <1>7, <1>10, <1>11, <2>1
  <1>13. ASSUME NEW i \in S, NEW j \in S, i < j, Before(Sorted(s)[j], Sorted(s)[i])
         PROVE  FALSE
    <2>1. <<at[j], at[i]>> \in R
      BY <1>3, <1>7, <1>11, <1>13
    <2>2. j < i
      BY <1>6, <1>7, <2>1
    <2> QED
      BY <1>2, <1>13, <2>2
  <1> QED
    BY <1>8, <1>11, <1>12, <1>13 DEF S

-----------------------------------------------------------------------------
(* A run's stages.                                                           *)

RunTyped ==
    /\ cpc \in {"idle", "scan", "form", "check", "answered"} /\ stopped \in Stops
    /\ shelf \in 1..4 /\ after \in Nat /\ spent \in Nat /\ checked \in Nat
    /\ formed \in Seq(Relations) /\ answer \in Seq(Relations)
    /\ cpc # "idle" => GoodBounds(call)

Stages ==
    /\ cpc = "idle" => call = None /\ stopped = None /\ shelf = 1 /\ after = 0
                         /\ seen = NothingSeen /\ spent = 0
    /\ cpc \in {"idle", "scan", "form"} \/ stopped = "depth" =>
         formed = <<>> /\ answer = <<>> /\ checked = 0 /\ suppressions = {}
    /\ cpc = "scan" => shelf \in 1..3
    /\ cpc \in {"form", "check"} => shelf = 4
    /\ cpc = "answered" /\ stopped # "depth" => shelf = 4
    /\ stopped = "depth" => cpc = "answered" /\ seen = NothingSeen
    /\ stopped = "relations" => cpc \in {"check", "answered"}

(* The scans have come to k.                                                 *)
Passed(k) ==
    \/ KindRank[Facts[k].kind] + 1 < shelf
    \/ KindRank[Facts[k].kind] + 1 = shelf /\ k <= after

(* Nothing is seen ahead of the scans, and nothing that stayed is left       *)
(* behind them unless they were cut.                                         *)
ScanOrder == \A k \in Scanned : Passed(k)
ScanComplete == stopped \notin {"scan", "depth"} => \A k \in steady : Passed(k) => k \in Scanned

BoundsInv ==
    cpc # "idle" =>
      /\ spent <= call.scan
      /\ Len(formed) <= call.relations
      /\ stopped = "scan" => spent = call.scan
      /\ stopped = "relations" => Len(formed) = call.relations

EngineCore ==
    StoreTyped /\ RunTyped /\ Stages /\ SeenTyped /\ ScanOrder /\ ScanComplete /\ BoundsInv

LEMMA EngineCoreInit == Init => EngineCore
  <1> SUFFICES ASSUME Init
               PROVE  EngineCore
    OBVIOUS
  <1>1. /\ resident \in Stores /\ steady = resident
        /\ call = None /\ cpc = "idle" /\ stopped = None
        /\ shelf = 1 /\ after = 0 /\ seen = NothingSeen /\ spent = 0
        /\ formed = <<>> /\ suppressions = {} /\ checked = 0 /\ answer = <<>>
    BY DEF Init, CorrelationInit
  <1>2. NothingSeen \in [KindSet -> Seq(Keys)] /\ \A kind \in KindSet : NothingSeen[kind] = <<>>
    BY DEF NothingSeen, KindSet
  <1>3. Scanned = {}
    BY <1>1, <1>2 DEF Scanned, KindSet, ToSet
  <1>4. SeenTyped
    BY <1>1, <1>2 DEF SeenTyped
  <1>5. RunTyped
    BY <1>1 DEF RunTyped, Stops
  <1>6. None \notin {"depth", "scan", "relations"}
    BY FactsTyped
  <1>7. Stages
    BY <1>1, <1>6 DEF Stages
  <1>8. resident \subseteq Keys
    BY StoreTypedInit DEF StoreTyped
  <1>9. ScanOrder /\ ScanComplete
    <2>1. \A k \in Keys : ~Passed(k)
      BY <1>1, KeysNumbers, FactsTyped DEF Passed, KindRank, KindSet
    <2> QED
      BY <1>1, <1>3, <1>8, <2>1 DEF ScanOrder, ScanComplete
  <1>10. BoundsInv
    BY <1>1 DEF BoundsInv
  <1> QED
    BY <1>4, <1>5, <1>7, <1>9, <1>10, StoreTypedInit DEF EngineCore

(* What a scan step sees of its kind.                                        *)
Taking(kind, page, taken) ==
    /\ kind \in KindSet /\ kind = Kinds[shelf] /\ KindRank[kind] + 1 = shelf
    /\ page = Page(kind, after, ScanPage) /\ taken = UpTo(page, call.scan - spent)
    /\ page \in Seq(Keys) /\ Len(page) <= ScanPage
    /\ \A i \in 1..Len(page) : page[i] > after /\ Facts[page[i]].kind = kind /\ page[i] \in resident
    /\ Ascends(page)
    /\ taken \in Seq(Keys) /\ Len(taken) <= call.scan - spent
    /\ taken # page => Len(taken) = call.scan - spent
    /\ \A i \in 1..Len(taken) : taken[i] \in ToSet(page) /\ taken[i] > after
                                  /\ Facts[taken[i]].kind = kind /\ taken[i] \in resident
    /\ Ascends(taken)
    /\ \A k \in steady : Facts[k].kind = kind /\ k > after =>
         k \in ToSet(page) \/ (Len(page) = ScanPage /\ \A i \in 1..Len(page) : page[i] < k)

LEMMA ScanTakes ==
    ASSUME EngineCore, Scan
    PROVE  Taking(Kinds[shelf], Page(Kinds[shelf], after, ScanPage),
                  UpTo(Page(Kinds[shelf], after, ScanPage), call.scan - spent))
  <1> DEFINE kind == Kinds[shelf]
             page == Page(kind, after, ScanPage)
             room == call.scan - spent
             taken == UpTo(page, room)
  <1>1. /\ shelf \in 1..3 /\ after \in Nat /\ spent \in Nat /\ call.scan \in Nat
        /\ room > 0 /\ StoreTyped
    BY DEF EngineCore, Stages, RunTyped, Scan, GoodBounds
  <1>2. kind \in KindSet /\ KindRank[kind] + 1 = shelf
    BY <1>1 DEF Kinds, KindSet, KindRank
  <1>3. room \in Nat /\ ScanPage \in Nat
    BY <1>1, CorrelationAssumption
  <1> HIDE DEF kind
  <1>4. /\ page \in Seq(Keys) /\ Len(page) <= ScanPage
        /\ \A i \in 1..Len(page) : page[i] \in Ahead(kind, after)
        /\ \A i, j \in 1..Len(page) : i < j => page[i] < page[j]
        /\ \A k \in Ahead(kind, after) :
             k \in ToSet(page) \/ (Len(page) = ScanPage /\ \A i \in 1..Len(page) : page[i] < k)
    BY <1>1, <1>3, PageLaws
  <1>5. \A k \in Ahead(kind, after) : k > after /\ Facts[k].kind = kind /\ k \in resident
    BY DEF Ahead, Above
  <1>6. \A k \in steady : Facts[k].kind = kind /\ k > after => k \in Ahead(kind, after)
    BY <1>1 DEF Ahead, Above, StoreTyped
  <1>7. page = Page(kind, after, ScanPage)
    OBVIOUS
  <1> HIDE DEF page
  <1>8. /\ taken \in Seq(Keys)
        /\ Len(taken) = IF Len(page) < room THEN Len(page) ELSE room
        /\ \A i \in 1..Len(taken) : taken[i] = page[i]
        /\ Len(page) <= room => taken = page
    BY <1>3, <1>4, UpToLaws
  <1>9. taken = UpTo(page, call.scan - spent)
    OBVIOUS
  <1> HIDE DEF taken
  <1>10. Len(page) \in Nat /\ Len(taken) \in Nat /\ Len(taken) <= Len(page) /\ Len(taken) <= room
    BY <1>3, <1>4, <1>8
  <1>11. taken # page => Len(taken) = room
    BY <1>3, <1>8, <1>10
  <1>12. \A i \in 1..Len(page) : page[i] \in ToSet(page)
    BY <1>4, ElementOf
  <1>13. \A i \in 1..Len(taken) : i \in 1..Len(page) /\ taken[i] = page[i]
    BY <1>8, <1>10
  <1>14. Ascends(page) /\ Ascends(taken)
    BY <1>4, <1>13 DEF Ascends
  <1>15. Taking(kind, page, taken)
    BY <1>2, <1>4, <1>5, <1>6, <1>7, <1>8, <1>9, <1>10, <1>11, <1>12, <1>13, <1>14
       DEF Taking, kind
  <1> QED
    BY <1>15 DEF kind, page, taken

(* A scan step appends what it took.                                         *)
LEMMA ScanAppends ==
    ASSUME EngineCore, Scan, NEW kind, NEW page, NEW taken, Taking(kind, page, taken)
    PROVE  /\ seen' = [seen EXCEPT ![kind] = @ \o taken]
           /\ spent' = spent + Len(taken) /\ call.scan - spent > 0
           /\ stopped' = IF taken # page THEN "scan" ELSE stopped
           /\ \/ shelf' = shelf + 1 /\ after' = 0 /\ cpc' = (IF shelf = 3 THEN "form" ELSE "scan")
                 /\ (page = <<>> \/ taken # page \/ \A k \in steady :
                       Facts[k].kind = kind /\ k > after => k \in ToSet(page))
              \/ /\ shelf' = shelf /\ cpc' = cpc /\ page # <<>> /\ taken = page
                 /\ after' = Last(page)
  <1>1. kind = Kinds[shelf] /\ page = Page(Kinds[shelf], after, ScanPage)
        /\ taken = UpTo(Page(Kinds[shelf], after, ScanPage), call.scan - spent)
    BY DEF Taking
  <1>2. Ahead(kind, after) = ToSet(page) =>
          \A k \in steady : Facts[k].kind = kind /\ k > after => k \in ToSet(page)
    BY DEF Ahead, Above, EngineCore, StoreTyped
  <1>3. \/ /\ page = <<>> \/ taken # page \/ Ahead(kind, after) = ToSet(page)
           /\ NextShelf
        \/ /\ page # <<>> /\ taken = page
           /\ after' = Last(page) /\ shelf' = shelf /\ cpc' = cpc
    BY <1>1 DEF Scan
  <1> QED
    BY <1>1, <1>2, <1>3 DEF Scan, NextShelf

LEMMA ScanSeen ==
    ASSUME EngineCore, Scan, NEW kind, NEW page, NEW taken, Taking(kind, page, taken)
    PROVE  SeenTyped' /\ Scanned' = Scanned \cup ToSet(taken)
  <1>1. seen' = [seen EXCEPT ![kind] = @ \o taken]
    BY ScanAppends
  <1>2. kind \in KindSet /\ taken \in Seq(Keys) /\ Ascends(taken) /\ KindRank[kind] + 1 = shelf
        /\ \A i \in 1..Len(taken) : taken[i] > after /\ Facts[taken[i]].kind = kind
    BY DEF Taking
  <1>3. /\ seen \in [KindSet -> Seq(Keys)]
        /\ \A x \in KindSet :
             /\ \A i \in 1..Len(seen[x]) : Facts[seen[x][i]].kind = x
             /\ \A i, j \in 1..Len(seen[x]) : i < j => seen[x][i] < seen[x][j]
    BY DEF EngineCore, SeenTyped
  <1> DEFINE s == seen[kind]
             u == s \o taken
  <1>4. s \in Seq(Keys)
    BY <1>2, <1>3
  <1>5. \A i \in 1..Len(s) : s[i] <= after
    <2> TAKE i \in 1..Len(s)
    <2>1. s[i] \in ToSet(s) /\ s[i] \in Keys
      BY <1>4, ElementOf
    <2>2. s[i] \in Scanned /\ Facts[s[i]].kind = kind
      BY <1>2, <1>3, <2>1 DEF Scanned, KindSet
    <2>3. Passed(s[i])
      BY <2>2 DEF EngineCore, ScanOrder
    <2>4. shelf \in Int
      BY DEF EngineCore, RunTyped
    <2> QED
      BY <1>2, <2>2, <2>3, <2>4 DEF Passed
  <1> HIDE DEF s
  <1>6. /\ u \in Seq(Keys) /\ ToSet(u) = ToSet(s) \cup ToSet(taken)
        /\ \A i \in 1..Len(u) :
             \/ i \in 1..Len(s) /\ u[i] = s[i]
             \/ i - Len(s) \in 1..Len(taken) /\ u[i] = taken[i - Len(s)]
    BY <1>2, <1>4, JoinedLaws
  <1> HIDE DEF u
  <1>7. seen' = [seen EXCEPT ![kind] = u]
    BY <1>1 DEF u, s
  <1>8. \A i \in 1..Len(u) : Facts[u[i]].kind = kind
    BY <1>2, <1>3, <1>6 DEF s
  <1>9. ASSUME NEW i \in 1..Len(u), NEW j \in 1..Len(u), i < j
        PROVE  u[i] < u[j]
    <2>0. Len(s) \in Nat /\ i \in Int /\ j \in Int /\ after \in Int
      BY <1>4 DEF EngineCore, RunTyped
    <2>1. CASE j \in 1..Len(s) /\ u[j] = s[j]
      <3>1. i \in 1..Len(s) /\ u[i] = s[i]
        BY <2>0, <2>1, <1>6, <1>9
      <3> QED
        BY <1>2, <1>3, <1>9, <2>1, <3>1 DEF s
    <2>2. CASE j - Len(s) \in 1..Len(taken) /\ u[j] = taken[j - Len(s)]
      <3>1. CASE i \in 1..Len(s) /\ u[i] = s[i]
        <4>1. s[i] <= after /\ taken[j - Len(s)] > after
          BY <1>2, <1>5, <2>2, <3>1
        <4>2. s[i] \in Int /\ taken[j - Len(s)] \in Int
          <5>1. s[i] \in Keys /\ taken[j - Len(s)] \in Keys
            BY <1>2, <1>4, <2>2, <3>1
          <5> QED
            BY <5>1, KeysNumbers
        <4> QED
          BY <2>0, <2>2, <3>1, <4>1, <4>2
      <3>2. CASE i - Len(s) \in 1..Len(taken) /\ u[i] = taken[i - Len(s)]
        <4>1. i - Len(s) < j - Len(s)
          BY <2>0, <1>9
        <4> QED
          BY <1>2, <2>2, <3>2, <4>1 DEF Ascends
      <3> QED
        BY <1>6, <3>1, <3>2
    <2> QED
      BY <1>6, <2>1, <2>2
  <1>10. /\ seen' \in [KindSet -> Seq(Keys)]
         /\ \A x \in KindSet : seen'[x] = IF x = kind THEN u ELSE seen[x]
    BY <1>2, <1>3, <1>6, <1>7
  <1>11. \A x \in KindSet :
           /\ \A i \in 1..Len(seen'[x]) : Facts[seen'[x][i]].kind = x
           /\ \A i, j \in 1..Len(seen'[x]) : i < j => seen'[x][i] < seen'[x][j]
    <2> TAKE x \in KindSet
    <2>1. CASE x = kind
      <3>1. seen'[x] = u
        BY <1>10, <2>1
      <3> QED
        BY <2>1, <3>1, <1>8, <1>9
    <2>2. CASE x # kind
      <3>1. seen'[x] = seen[x]
        BY <1>10, <2>2
      <3> QED
        BY <3>1, <1>3
    <2> QED
      BY <2>1, <2>2
  <1>12. SeenTyped'
    BY <1>10, <1>11 DEF SeenTyped
  <1>13. Scanned' = Scanned \cup ToSet(taken)
    <2>1. \A x \in KindSet : ToSet(seen'[x]) =
            IF x = kind THEN ToSet(seen[x]) \cup ToSet(taken) ELSE ToSet(seen[x])
      BY <1>6, <1>10 DEF s
    <2>2. Scanned' = ToSet(seen'.span) \cup ToSet(seen'.log) \cup ToSet(seen'.point)
      BY DEF Scanned, ToSet
    <2> QED
      BY <1>2, <2>1, <2>2 DEF Scanned, KindSet
  <1> QED
    BY <1>12, <1>13

LEMMA ScanStep ==
    ASSUME EngineCore, Scan
    PROVE  EngineCore'
  <1> DEFINE kind == Kinds[shelf]
             page == Page(kind, after, ScanPage)
             taken == UpTo(page, call.scan - spent)
  <1>1. Taking(kind, page, taken)
    BY ScanTakes
  <1> HIDE DEF kind, page, taken
  <1>2. SeenTyped' /\ Scanned' = Scanned \cup ToSet(taken)
    BY <1>1, ScanSeen
  <1>3. /\ seen' = [seen EXCEPT ![kind] = @ \o taken]
        /\ spent' = spent + Len(taken) /\ call.scan - spent > 0
        /\ stopped' = IF taken # page THEN "scan" ELSE stopped
        /\ \/ shelf' = shelf + 1 /\ after' = 0 /\ cpc' = (IF shelf = 3 THEN "form" ELSE "scan")
              /\ (page = <<>> \/ taken # page \/ \A k \in steady :
                    Facts[k].kind = kind /\ k > after => k \in ToSet(page))
           \/ /\ shelf' = shelf /\ cpc' = cpc /\ page # <<>> /\ taken = page
              /\ after' = Last(page)
    BY <1>1, ScanAppends
  <1>4. /\ UNCHANGED <<resident, kept, moves, steady, moved, alive>>
        /\ call' = call /\ formed' = formed /\ suppressions' = suppressions
        /\ checked' = checked /\ answer' = answer /\ cpc = "scan"
    BY DEF Scan, storeVars, formVars, answerVars
  <1>5. /\ page \in Seq(Keys) /\ taken \in Seq(Keys) /\ KindRank[kind] + 1 = shelf /\ kind \in KindSet
        /\ \A i \in 1..Len(page) : page[i] > after /\ Facts[page[i]].kind = kind
        /\ Ascends(page) /\ Len(taken) <= call.scan - spent
        /\ taken # page => Len(taken) = call.scan - spent
        /\ \A i \in 1..Len(taken) : taken[i] \in ToSet(page)
        /\ \A k \in steady : Facts[k].kind = kind /\ k > after =>
             k \in ToSet(page) \/ (Len(page) = ScanPage /\ \A i \in 1..Len(page) : page[i] < k)
    BY <1>1 DEF Taking
  <1>6. /\ shelf \in 1..3 /\ after \in Nat /\ spent \in Nat /\ call.scan \in Nat /\ GoodBounds(call)
        /\ formed = <<>> /\ answer = <<>> /\ checked = 0 /\ suppressions = {}
        /\ stopped \in {None, "scan"} /\ stopped # "depth" /\ stopped # "relations"
        /\ spent <= call.scan /\ (stopped = "scan" => spent = call.scan)
        /\ steady \subseteq Keys
    BY <1>4, FactsTyped DEF EngineCore, StoreTyped, Stages, RunTyped, Stops, GoodBounds, BoundsInv
  <1>7. Len(page) \in Nat /\ Len(taken) \in Nat
    BY <1>5
  <1>8. page # <<>> => /\ Last(page) \in Keys /\ Last(page) \in Nat
                       /\ \A i \in 1..Len(page) : page[i] <= Last(page)
                       /\ Len(page) \in 1..Len(page) /\ page[Len(page)] = Last(page)
    <2> SUFFICES ASSUME page # <<>>
                 PROVE  /\ Last(page) \in Keys /\ Last(page) \in Nat
                        /\ \A i \in 1..Len(page) : page[i] <= Last(page)
                        /\ Len(page) \in 1..Len(page) /\ page[Len(page)] = Last(page)
      OBVIOUS
    <2>1. Len(page) \in 1..Len(page) /\ Last(page) = page[Len(page)]
      BY <1>5 DEF Last
    <2>2. Last(page) \in Keys
      BY <1>5, <2>1
    <2>3. \A i \in 1..Len(page) : page[i] \in Keys
      BY <1>5
    <2>4. \A i \in 1..Len(page) : page[i] \in Int
      BY <2>3, KeysNumbers
    <2>5. \A i \in 1..Len(page) : i = Len(page) \/ page[i] < page[Len(page)]
      BY <1>5, <1>7, <2>1 DEF Ascends
    <2> QED
      BY <2>1, <2>2, <2>4, <2>5, KeysNumbers
  <1>9. StoreTyped'
    BY <1>4 DEF EngineCore, StoreTyped
  <1>10. RunTyped'
    <2>1. shelf' \in 1..4 /\ after' \in Nat
      BY <1>3, <1>6, <1>8
    <2>2. stopped' \in Stops /\ cpc' \in {"scan", "form"}
      BY <1>3, <1>4, <1>6 DEF Stops
    <2>3. spent' \in Nat
      BY <1>3, <1>6, <1>7
    <2> QED
      BY <1>4, <1>6, <2>1, <2>2, <2>3 DEF RunTyped, GoodBounds
  <1>11. Stages'
    <2>1. stopped' \notin {"depth", "relations"}
      BY <1>3, <1>6
    <2>2. \/ cpc' = "form" /\ shelf' = 4
          \/ cpc' = "scan" /\ shelf' \in 1..3
      BY <1>3, <1>4, <1>6
    <2> QED
      BY <1>4, <1>6, <2>1, <2>2 DEF Stages
  <1>12. BoundsInv'
    <2>1. /\ spent' <= call.scan
          /\ stopped' = "scan" => spent' = call.scan
          /\ stopped' # "relations" /\ Len(formed') = 0
      BY <1>3, <1>4, <1>5, <1>6, <1>7
    <2> QED
      BY <1>4, <1>6, <2>1 DEF BoundsInv, GoodBounds
  <1>a. \A k \in Keys : k \in Nat /\ k >= 1 /\ KindRank[Facts[k].kind] \in Nat
          /\ (KindRank[Facts[k].kind] = KindRank[kind] => Facts[k].kind = kind)
    BY <1>5, KeysNumbers, FactsTyped DEF KindRank, KindSet
  <1>13. ScanOrder'
    <2> SUFFICES ASSUME NEW k \in Scanned'
                 PROVE  Passed(k)'
      BY DEF ScanOrder
    <2>1. CASE k \in Scanned
      <3>1. Passed(k) /\ k \in Keys
        BY <2>1, ScannedKinds DEF EngineCore, ScanOrder
      <3>2. after <= after' \/ shelf' = shelf + 1
        <4>1. page # <<>> => page[Len(page)] > after
          BY <1>5, <1>8
        <4> QED
          BY <1>3, <1>6, <1>8, <4>1
      <3>3. after' \in Nat /\ shelf' \in Nat /\ (shelf' = shelf \/ shelf' = shelf + 1)
        BY <1>3, <1>6, <1>8
      <3> QED
        BY <3>1, <3>2, <3>3, <1>a, <1>6 DEF Passed
    <2>2. CASE k \in ToSet(taken)
      <3>1. PICK i \in 1..Len(taken) : taken[i] = k
        BY <1>5, <2>2 DEF ToSet
      <3>2. PICK j \in 1..Len(page) : page[j] = k
        BY <1>5, <3>1 DEF ToSet
      <3>3. k \in Keys /\ Facts[k].kind = kind /\ page # <<>>
        BY <1>5, <3>2
      <3>4. KindRank[Facts[k].kind] + 1 = shelf /\ k <= Last(page)
        BY <1>5, <1>8, <3>2, <3>3
      <3> QED
        BY <1>3, <1>6, <1>a, <3>3, <3>4 DEF Passed
    <2> QED
      BY <1>2, <2>1, <2>2
  <1>14. ScanComplete'
    <2> SUFFICES ASSUME stopped' \notin {"scan", "depth"}, NEW k \in steady, Passed(k)'
                 PROVE  k \in Scanned'
      BY <1>4 DEF ScanComplete
    <2>1. taken = page /\ stopped \notin {"scan", "depth"}
      BY <1>3
    <2>2. CASE Passed(k)
      BY <1>2, <2>1, <2>2 DEF EngineCore, ScanComplete
    <2>3. CASE ~Passed(k)
      <3>1. k \in Keys
        BY <1>6
      <3>2. KindRank[Facts[k].kind] + 1 = shelf /\ k > after
        <4>1. (KindRank[Facts[k].kind] + 1 < shelf') \/ (KindRank[Facts[k].kind] + 1 = shelf' /\ k <= after')
          BY DEF Passed
        <4>2. ~(KindRank[Facts[k].kind] + 1 < shelf) /\ ~(KindRank[Facts[k].kind] + 1 = shelf /\ k <= after)
          BY <2>3 DEF Passed
        <4>3. (shelf' = shelf + 1 /\ after' = 0) \/ shelf' = shelf
          BY <1>3
        <4> QED
          BY <1>a, <1>6, <3>1, <4>1, <4>2, <4>3
      <3>3. Facts[k].kind = kind
        <4>1. KindRank[kind] \in Nat
          BY <1>5 DEF KindRank, KindSet
        <4>2. KindRank[Facts[k].kind] = KindRank[kind]
          BY <1>5, <1>a, <3>1, <3>2, <4>1
        <4> QED
          BY <1>a, <3>1, <4>2
      <3>4. k \in ToSet(page)
        <4> SUFFICES ASSUME k \notin ToSet(page)
                     PROVE  FALSE
          OBVIOUS
        <4>1. Len(page) = ScanPage /\ \A i \in 1..Len(page) : page[i] < k
          BY <1>5, <3>2, <3>3
        <4>2. page # <<>>
          BY <4>1, CorrelationAssumption
        <4>3. shelf' = shelf /\ after' = Last(page)
          BY <1>3, <2>1, <3>2, <3>3, <4>2
        <4>4. k <= Last(page)
          BY <1>a, <1>6, <3>1, <3>2, <4>3 DEF Passed
        <4> QED
          BY <1>8, <1>a, <3>1, <4>1, <4>2, <4>4
      <3> QED
        BY <1>2, <2>1, <3>4
    <2> QED
      BY <2>2, <2>3
  <1> QED
    BY <1>2, <1>9, <1>10, <1>11, <1>12, <1>13, <1>14 DEF EngineCore

LEMMA ScanExhaustedStep ==
    ASSUME EngineCore, ScanExhausted
    PROVE  EngineCore'
  <1>1. /\ UNCHANGED <<resident, kept, moves, steady, moved, alive>>
        /\ call' = call /\ formed' = formed /\ suppressions' = suppressions
        /\ checked' = checked /\ answer' = answer /\ cpc = "scan" /\ seen' = seen
        /\ spent' = spent /\ spent >= call.scan /\ stopped' = "scan"
        /\ shelf' = shelf + 1 /\ after' = 0 /\ cpc' = (IF shelf = 3 THEN "form" ELSE "scan")
    BY DEF ScanExhausted, NextShelf, storeVars, formVars, answerVars
  <1>2. /\ shelf \in 1..3 /\ after \in Nat /\ spent \in Nat /\ call.scan \in Nat /\ GoodBounds(call)
        /\ formed = <<>> /\ answer = <<>> /\ checked = 0 /\ suppressions = {}
        /\ spent <= call.scan
    BY <1>1 DEF EngineCore, StoreTyped, Stages, RunTyped, GoodBounds, BoundsInv
  <1>3. StoreTyped'
    BY <1>1 DEF EngineCore, StoreTyped
  <1>4. RunTyped'
    BY <1>1, <1>2 DEF EngineCore, RunTyped, Stops, GoodBounds
  <1>5. Stages'
    <2>1. (cpc' = "form" /\ shelf' = 4) \/ (cpc' = "scan" /\ shelf' \in 1..3)
      BY <1>1, <1>2
    <2> QED
      BY <1>1, <1>2, <2>1 DEF Stages
  <1>6. SeenTyped' /\ Scanned' = Scanned
    BY <1>1 DEF EngineCore, SeenTyped, Scanned
  <1>7. ScanOrder'
    <2>1. ASSUME NEW k \in Scanned
          PROVE  Passed(k)'
      <3>1. Passed(k) /\ k \in Keys
        BY ScannedKinds DEF EngineCore, ScanOrder
      <3>2. KindRank[Facts[k].kind] \in Nat
        BY <3>1, FactsTyped DEF KindRank, KindSet
      <3> QED
        BY <1>1, <1>2, <3>1, <3>2 DEF Passed
    <2> QED
      BY <1>6, <2>1 DEF ScanOrder
  <1>8. ScanComplete'
    BY <1>1 DEF ScanComplete
  <1>9. BoundsInv'
    BY <1>1, <1>2 DEF BoundsInv, GoodBounds
  <1> QED
    BY <1>3, <1>4, <1>5, <1>6, <1>7, <1>8, <1>9 DEF EngineCore

LEMMA StoreStepCore ==
    ASSUME EngineCore, StoreStep
    PROVE  EngineCore'
  <1>1. UNCHANGED <<call, cpc, stopped, shelf, after, seen, spent, formed, suppressions, absent,
                    checked, answer, shrunken>>
    BY DEF StoreStep, runVars, scanVars, formVars, answerVars
  <1>2. StoreTyped'
    BY StoreTypedStep DEF EngineStep, EngineCore
  <1>3. steady' \subseteq steady
    BY DEF StoreStep, StoreKeeps, StoreExpires, Above
  <1>4. RunTyped' /\ Stages' /\ SeenTyped' /\ BoundsInv'
    BY <1>1 DEF EngineCore, RunTyped, Stages, SeenTyped, BoundsInv, GoodBounds
  <1>5. ScanOrder' /\ ScanComplete'
    BY <1>1, <1>3 DEF EngineCore, ScanOrder, ScanComplete, Scanned, Passed
  <1> QED
    BY <1>2, <1>4, <1>5 DEF EngineCore

LEMMA CalledCore ==
    ASSUME EngineCore, Called
    PROVE  EngineCore'
  <1>1. PICK c : GoodBounds(c) /\ Correlate(c)
    BY DEF Called
  <1>2. /\ cpc = "idle" /\ call' = c /\ steady' = resident
        /\ cpc' = IF c.hops = 0 THEN "answered" ELSE "scan"
        /\ stopped' = IF c.hops = 0 THEN "depth" ELSE None
        /\ UNCHANGED <<resident, shelf, after, seen, spent, formed, suppressions, absent,
                       checked, answer, shrunken>>
    BY <1>1 DEF Correlate, scanVars, formVars, answerVars
  <1>3. /\ shelf = 1 /\ after = 0 /\ seen = NothingSeen /\ spent = 0
        /\ formed = <<>> /\ answer = <<>> /\ checked = 0 /\ suppressions = {}
    BY <1>2 DEF EngineCore, Stages
  <1>4. StoreTyped'
    BY StoreTypedStep DEF EngineStep, EngineCore
  <1>5. None \notin {"depth", "scan", "relations"}
    BY FactsTyped
  <1>6. GoodBounds(call')
    BY <1>1, <1>2
  <1>7. RunTyped'
    BY <1>2, <1>3, <1>6 DEF EngineCore, RunTyped, Stops, GoodBounds
  <1>8. Stages'
    BY <1>2, <1>3, <1>5 DEF Stages
  <1>9. SeenTyped' /\ Scanned' = Scanned
    BY <1>2 DEF EngineCore, SeenTyped, Scanned
  <1>10. ScanOrder' /\ ScanComplete'
    <2>1. \A k \in Keys : ~Passed(k)'
      BY <1>2, <1>3, KeysNumbers, FactsTyped DEF Passed, KindRank, KindSet
    <2>2. \A k \in Keys : ~Passed(k)
      BY <1>3, KeysNumbers, FactsTyped DEF Passed, KindRank, KindSet
    <2>3. Scanned \subseteq Keys /\ steady' \subseteq Keys
      BY <1>4, ScannedKinds DEF EngineCore, StoreTyped
    <2>4. Scanned = {}
      BY <2>2, <2>3 DEF EngineCore, ScanOrder
    <2> QED
      BY <1>9, <2>1, <2>3, <2>4 DEF ScanOrder, ScanComplete
  <1>11. BoundsInv'
    BY <1>2, <1>3, <1>5, <1>6 DEF BoundsInv, GoodBounds
  <1> QED
    BY <1>4, <1>7, <1>8, <1>9, <1>10, <1>11 DEF EngineCore

LEMMA FormCore ==
    ASSUME EngineCore, Form
    PROVE  EngineCore'
  <1>1. /\ UNCHANGED <<resident, kept, moves, steady, moved, call, shelf, after, seen, spent,
                       checked, answer, shrunken>>
        /\ cpc = "form" /\ cpc' = "check" /\ formed' = Capped(Generated) /\ alive' = resident
        /\ stopped' = IF Len(Generated) > call.relations /\ stopped = None
                      THEN "relations" ELSE stopped
    BY DEF Form, scanVars, answerVars
  <1>2. /\ GoodBounds(call) /\ call.relations \in Nat /\ call.strategies \in Seq(Strategies)
        /\ shelf = 4 /\ answer = <<>> /\ checked = 0
        /\ stopped # "depth" /\ stopped # "relations" /\ stopped \in {None, "scan"}
        /\ formed = <<>> /\ spent <= call.scan /\ (stopped = "scan" => spent = call.scan)
    BY <1>1 DEF EngineCore, RunTyped, Stages, Stops, GoodBounds, BoundsInv
  <1>3. Generated \in Seq(Relations)
    BY <1>2, GeneratedLaws DEF EngineCore
  <1>4. /\ formed' \in Seq(Relations)
        /\ Len(formed') = IF Len(Generated) < call.relations THEN Len(Generated) ELSE call.relations
    BY <1>1, <1>2, <1>3, UpToLaws DEF Capped
  <1>5. StoreTyped'
    BY <1>1 DEF EngineCore, StoreTyped
  <1>6. RunTyped'
    BY <1>1, <1>2, <1>4 DEF EngineCore, RunTyped, Stops, GoodBounds
  <1>7. Stages'
    BY <1>1, <1>2 DEF EngineCore, Stages
  <1>8. SeenTyped' /\ ScanOrder' /\ ScanComplete'
    <2>1. stopped' = stopped \/ (stopped = None /\ stopped' = "relations")
      BY <1>1
    <2> QED
      BY <1>1, <2>1, FactsTyped DEF EngineCore, SeenTyped, ScanOrder, ScanComplete, Scanned, Passed
  <1>9. BoundsInv'
    <2>1. Len(Generated) \in Nat
      BY <1>3
    <2>2. Len(formed') <= call.relations
      BY <1>2, <1>4, <2>1
    <2>3. stopped' = "relations" => Len(formed') = call.relations
      BY <1>1, <1>2, <1>4, <2>1
    <2> QED
      BY <1>1, <1>2, <2>2, <2>3 DEF BoundsInv, GoodBounds
  <1> QED
    BY <1>5, <1>6, <1>7, <1>8, <1>9 DEF EngineCore

LEMMA CheckCore ==
    ASSUME EngineCore, Check \/ AnswerSorted
    PROVE  EngineCore'
  <1>1. /\ UNCHANGED <<resident, kept, moves, steady, moved, alive, call, stopped, shelf, after,
                       seen, spent, formed, suppressions>>
        /\ cpc = "check" /\ cpc' \in {"check", "answered"}
    BY DEF Check, AnswerSorted, storeVars, scanVars, formVars
  <1>2. shelf = 4 /\ stopped # "depth" /\ GoodBounds(call)
    BY <1>1 DEF EngineCore, Stages, RunTyped
  <1>3. checked' \in Nat /\ answer' \in Seq(Relations)
    <2>1. checked \in Nat /\ answer \in Seq(Relations) /\ formed \in Seq(Relations)
      BY DEF EngineCore, RunTyped
    <2>2. CASE Check
      <3>1. checked < 2 * Len(formed)
        BY <2>2 DEF Check
      <3>2. checked \div 2 + 1 \in 1..Len(formed)
        BY <2>1, <3>1
      <3>3. Current \in Relations
        BY <2>1, <3>2 DEF Current
      <3>4. checked' \in {2 * (checked \div 2 + 1), checked + 1}
            /\ answer' \in {answer, Append(answer, Current)}
        BY <2>2 DEF Check
      <3>5. Append(answer, Current) \in Seq(Relations)
        BY <2>1, <3>3
      <3>6. checked \div 2 \in Nat
        BY <2>1
      <3> QED
        BY <2>1, <3>4, <3>5, <3>6
    <2>3. CASE AnswerSorted
      BY <2>1, <2>3, SortedLaws DEF AnswerSorted
    <2> QED
      BY <2>2, <2>3
  <1>4. StoreTyped' /\ SeenTyped' /\ BoundsInv'
    BY <1>1, <1>2 DEF EngineCore, StoreTyped, SeenTyped, BoundsInv, GoodBounds
  <1>5. RunTyped' /\ Stages'
    BY <1>1, <1>2, <1>3 DEF EngineCore, RunTyped, Stages, GoodBounds
  <1>6. ScanOrder' /\ ScanComplete'
    BY <1>1 DEF EngineCore, ScanOrder, ScanComplete, Scanned, Passed
  <1> QED
    BY <1>4, <1>5, <1>6 DEF EngineCore

LEMMA StillCore ==
    ASSUME EngineCore, Still
    PROVE  EngineCore'
  BY DEF Still, storeVars, runVars, scanVars, formVars, answerVars, EngineCore, StoreTyped, RunTyped,
         Stages, SeenTyped, ScanOrder, ScanComplete, Scanned, Passed, BoundsInv, GoodBounds

LEMMA EngineCoreStep ==
    ASSUME EngineCore, EngineStep
    PROVE  EngineCore'
  BY ScanStep, ScanExhaustedStep, StoreStepCore, CalledCore, FormCore, CheckCore, StillCore
     DEF EngineStep, RunStep

(* What a run takes and forms stays within its bounds, whatever the store    *)
(* does meanwhile.                                                           *)
THEOREM BoundsHold == Spec => []BoundsKept
  <1> DEFINE IInv == EngineCore /\ RootFound
  <1>1. Init => IInv
    BY EngineCoreInit, RootFoundInit
  <1>2. IInv /\ [Next]_vars => IInv'
    <2> SUFFICES ASSUME IInv, [Next]_vars
                 PROVE  IInv'
      OBVIOUS
    <2>1. EngineCore'
      BY EngineSteps, EngineCoreStep
    <2>2. RootFound'
      BY RootFoundStep DEF EngineCore, StoreTyped
    <2> QED
      BY <2>1, <2>2
  <1>3. IInv => BoundsKept
    BY DEF EngineCore, Stages, BoundsInv, BoundsKept
  <1> QED
    BY <1>1, <1>2, <1>3, PTL DEF Spec

-----------------------------------------------------------------------------
(* What is answered.                                                         *)

Lived(ref) == \E k \in alive : Ref(k) = ref
Stayed(ref) == \E k \in steady : Ref(k) = ref

(* Nothing moved: the scans saw residents only.                              *)
Unmoved == ~moved => steady = resident /\ Scanned \subseteq resident

FormedInv ==
    cpc \in {"check", "answered"} /\ stopped # "depth" =>
      /\ formed = Capped(Generated)
      /\ stopped = None => Len(Generated) <= call.relations

SuppressedInv ==
    cpc \in {"check", "answered"} /\ stopped # "depth" /\ Requested("trace_identity") =>
      \A l \in Scanned :
        Facts[l].kind = "log" /\ IsRelatedLog(l) /\ (\E s \in Scanned : ExactFor(l, s)) =>
          \E s \in suppressions : s.log = Facts[l].entity

(* How far the re-check has come.                                            *)
CheckInv ==
    cpc = "check" =>
      /\ resident \subseteq alive /\ checked <= 2 * Len(formed)
      /\ checked % 2 = 1 => Lived(Current.from)

AnswerInv ==
    /\ ToSet(answer) \subseteq ToSet(formed)
    /\ \A r \in ToSet(answer) : Lived(r.from) /\ Lived(r.to)

(* No relation of records that stayed is dropped.                            *)
NothingDropped ==
    \A i \in 1..Len(formed) :
      /\ cpc = "answered" \/ (cpc = "check" /\ i <= checked \div 2)
      /\ Stayed(formed[i].from) /\ Stayed(formed[i].to)
      => formed[i] \in ToSet(answer)

(* Nothing moved: nothing is dropped at all.                                 *)
AllKept ==
    ~moved =>
      /\ cpc = "check" => /\ Len(answer) = checked \div 2
                          /\ \A i \in 1..Len(answer) : answer[i] = formed[i]
      /\ cpc = "answered" /\ stopped # "depth" => answer = Sorted(formed)

AnswerCore ==
    /\ Unmoved /\ DistinctIn(resident) /\ FormedInv /\ SuppressedInv
    /\ CheckInv /\ AnswerInv /\ NothingDropped /\ AllKept

LEMMA AnswerCoreInit == Init => AnswerCore
  <1> SUFFICES ASSUME Init
               PROVE  AnswerCore
    OBVIOUS
  <1>1. /\ resident \in Stores /\ steady = resident /\ cpc = "idle"
        /\ seen = NothingSeen /\ formed = <<>> /\ answer = <<>>
    BY DEF Init, CorrelationInit
  <1>2. Scanned = {}
    BY <1>1 DEF Scanned, NothingSeen, ToSet
  <1>3. ToSet(answer) = {} /\ Len(formed) = 0
    BY <1>1 DEF ToSet
  <1>4. DistinctIn(resident)
    <2>1. \A j, k \in resident : Facts[j].entity = Facts[k].entity => j = k
      BY <1>1, CorrelationAssumption
    <2> QED
      BY <2>1 DEF DistinctIn, Ref
  <1>5. Unmoved
    BY <1>1, <1>2 DEF Unmoved
  <1>6. FormedInv /\ SuppressedInv /\ CheckInv /\ AllKept
    BY <1>1 DEF FormedInv, SuppressedInv, CheckInv, AllKept
  <1>7. AnswerInv /\ NothingDropped
    BY <1>3 DEF AnswerInv, NothingDropped
  <1> QED
    BY <1>4, <1>5, <1>6, <1>7 DEF AnswerCore

LEMMA GeneratedSame ==
    ASSUME call' = call, seen' = seen
    PROVE  Generated' = Generated
  BY DEF Generated, Run, Pairs, FirstPairs, FirstOf, Members, RelatedLogs, Loose, ResourceContext,
         ExemplarAttachment, SpansNamed, AllSeen, CoActive, IsMember, IsRelatedLog, ExactSeen

LEMMA FormedSame ==
    ASSUME FormedInv, SuppressedInv, call' = call, seen' = seen, formed' = formed,
           suppressions' = suppressions, stopped' = stopped,
           cpc \in {"check", "answered"} \/ cpc' \notin {"check", "answered"}
    PROVE  FormedInv' /\ SuppressedInv'
  <1>1. Generated' = Generated
    BY GeneratedSame
  <1>2. FormedInv'
    <2>1. Capped(Generated)' = Capped(Generated)
      BY <1>1 DEF Capped
    <2> QED
      BY <1>1, <2>1 DEF FormedInv
  <1>3. SuppressedInv'
    <2>1. Scanned' = Scanned
      BY DEF Scanned
    <2>2. \A l : IsRelatedLog(l)' <=> IsRelatedLog(l)
      BY DEF IsRelatedLog
    <2>3. Requested("trace_identity")' <=> Requested("trace_identity")
      BY DEF Requested
    <2> QED
      BY <2>1, <2>2, <2>3 DEF SuppressedInv
  <1> QED
    BY <1>2, <1>3

LEMMA StoreStepAnswer ==
    ASSUME EngineCore, AnswerCore, StoreStep
    PROVE  AnswerCore'
  <1>1. /\ UNCHANGED <<call, cpc, stopped, shelf, after, seen, spent, formed, suppressions, absent,
                       checked, answer, shrunken>>
        /\ cpc # "answered"
    BY DEF StoreStep, runVars, scanVars, formVars, answerVars
  <1>2. moved' = TRUE /\ steady' \subseteq steady /\ alive \subseteq alive'
        /\ (cpc = "check" /\ resident \subseteq alive => resident' \subseteq alive')
    BY DEF StoreStep, StoreKeeps, StoreExpires, Above
  <1>3. DistinctIn(resident')
    <2>1. CASE StoreKeeps
      <3>1. PICK k \in Keys \ kept, floor \in resident \cup {0} :
              ~IsResident(Ref(k)) /\ resident' = Above(resident \cup {k}, floor)
        BY <2>1 DEF StoreKeeps
      <3>2. \A j \in resident : Ref(j) # Ref(k)
        BY <3>1 DEF IsResident
      <3>3. resident' \subseteq resident \cup {k}
        BY <3>1 DEF Above
      <3> QED
        BY <3>2, <3>3 DEF AnswerCore, DistinctIn
    <2>2. CASE StoreExpires
      BY <2>2 DEF StoreExpires, Above, AnswerCore, DistinctIn
    <2> QED
      BY <2>1, <2>2 DEF StoreStep
  <1>4. DistinctIn(resident)'
    BY <1>3 DEF DistinctIn, Ref
  <1>5. Unmoved' /\ AllKept'
    BY <1>2 DEF Unmoved, AllKept
  <1>6. FormedInv' /\ SuppressedInv'
    BY <1>1, FormedSame DEF AnswerCore
  <1>7. \A ref : Lived(ref) => Lived(ref)'
    BY <1>2 DEF Lived, Ref
  <1>8. \A ref : Stayed(ref)' => Stayed(ref)
    BY <1>2 DEF Stayed, Ref
  <1>9. CheckInv'
    <2>1. Current' = Current
      BY <1>1 DEF Current
    <2> QED
      BY <1>1, <1>2, <1>7, <2>1 DEF AnswerCore, CheckInv
  <1>10. AnswerInv'
    BY <1>1, <1>7 DEF AnswerCore, AnswerInv
  <1>11. NothingDropped'
    BY <1>1, <1>8 DEF AnswerCore, NothingDropped
  <1> QED
    BY <1>4, <1>5, <1>6, <1>9, <1>10, <1>11 DEF AnswerCore

(* While nothing is answered yet.                                            *)
LEMMA NoAnswerYet ==
    ASSUME Unmoved', DistinctIn(resident)', formed' = <<>>, answer' = <<>>,
           cpc' \notin {"check", "answered"} \/ stopped' = "depth", cpc' # "check"
    PROVE  AnswerCore'
  <1>1. ToSet(answer') = {} /\ Len(formed') = 0
    BY DEF ToSet
  <1>2. FormedInv' /\ SuppressedInv' /\ CheckInv' /\ AllKept'
    BY DEF FormedInv, SuppressedInv, CheckInv, AllKept
  <1>3. AnswerInv' /\ NothingDropped'
    BY <1>1 DEF AnswerInv, NothingDropped
  <1> QED
    BY <1>2, <1>3 DEF AnswerCore

LEMMA CalledAnswer ==
    ASSUME EngineCore, AnswerCore, Called
    PROVE  AnswerCore'
  <1>1. PICK c : Correlate(c)
    BY DEF Called
  <1>2. /\ cpc = "idle" /\ steady' = resident /\ resident' = resident
        /\ seen' = seen /\ formed' = formed /\ answer' = answer
        /\ cpc' = IF c.hops = 0 THEN "answered" ELSE "scan"
        /\ stopped' = IF c.hops = 0 THEN "depth" ELSE None
    BY <1>1 DEF Correlate, scanVars, formVars, answerVars
  <1>3. seen = NothingSeen /\ formed = <<>> /\ answer = <<>>
    BY <1>2 DEF EngineCore, Stages
  <1>4. Scanned' = {}
    BY <1>2, <1>3 DEF Scanned, NothingSeen, ToSet
  <1>5. Unmoved' /\ DistinctIn(resident)'
    BY <1>2, <1>4 DEF Unmoved, DistinctIn, AnswerCore, Ref
  <1> QED
    BY <1>2, <1>3, <1>5, NoAnswerYet

LEMMA ScanAnswer ==
    ASSUME EngineCore, AnswerCore, Scan \/ ScanExhausted
    PROVE  AnswerCore'
  <1>1. /\ UNCHANGED <<resident, kept, moves, steady, moved, alive, formed, answer>>
        /\ cpc = "scan" /\ cpc' \in {"scan", "form"}
    BY DEF Scan, ScanExhausted, NextShelf, storeVars, formVars, answerVars
  <1>2. formed = <<>> /\ answer = <<>>
    BY <1>1 DEF EngineCore, Stages
  <1>3. Unmoved'
    <2>1. CASE Scan
      <3> DEFINE kind == Kinds[shelf]
                 page == Page(kind, after, ScanPage)
                 taken == UpTo(page, call.scan - spent)
      <3>1. Taking(kind, page, taken)
        BY <2>1, ScanTakes
      <3> HIDE DEF kind, page, taken
      <3>2. Scanned' = Scanned \cup ToSet(taken)
        BY <2>1, <3>1, ScanSeen
      <3>3. taken \in Seq(Keys) /\ \A i \in 1..Len(taken) : taken[i] \in resident
        BY <3>1 DEF Taking
      <3>4. ToSet(taken) \subseteq resident
        BY <3>3 DEF ToSet
      <3> QED
        BY <1>1, <3>2, <3>4 DEF AnswerCore, Unmoved
    <2>2. CASE ScanExhausted
      BY <1>1, <2>2 DEF ScanExhausted, AnswerCore, Unmoved, Scanned
    <2> QED
      BY <2>1, <2>2
  <1>4. DistinctIn(resident)'
    BY <1>1 DEF DistinctIn, AnswerCore, Ref
  <1> QED
    BY <1>1, <1>2, <1>3, <1>4, NoAnswerYet

LEMMA FormAnswer ==
    ASSUME EngineCore, AnswerCore, Form
    PROVE  AnswerCore'
  <1>1. /\ UNCHANGED <<resident, kept, moves, steady, moved, call, shelf, after, seen, spent,
                       checked, answer, shrunken>>
        /\ cpc = "form" /\ cpc' = "check" /\ formed' = Capped(Generated) /\ alive' = resident
        /\ stopped' = IF Len(Generated) > call.relations /\ stopped = None
                      THEN "relations" ELSE stopped
        /\ suppressions' = IF ~Requested("trace_identity") THEN {}
                           ELSE {Suppression(l) : l \in ToSet(RelatedLogs) \ ToSet(Loose)}
    BY DEF Form, scanVars, answerVars
  <1>2. /\ GoodBounds(call) /\ call.relations \in Nat /\ call.strategies \in Seq(Strategies)
        /\ answer = <<>> /\ checked = 0 /\ None # "relations"
    BY <1>1, FactsTyped DEF EngineCore, RunTyped, Stages, GoodBounds
  <1>3. Generated' = Generated /\ Scanned' = Scanned /\ Generated \in Seq(Relations)
    BY <1>1, <1>2, GeneratedSame, GeneratedLaws DEF Scanned, EngineCore
  <1>4. formed' \in Seq(Relations)
    BY <1>1, <1>2, <1>3, UpToLaws DEF Capped
  <1>5. Unmoved' /\ DistinctIn(resident)'
    BY <1>1, <1>3 DEF AnswerCore, Unmoved, DistinctIn, Ref
  <1>6. FormedInv'
    <2>1. Capped(Generated)' = Capped(Generated)
      BY <1>1, <1>3 DEF Capped
    <2>2. Len(Generated) \in Nat
      BY <1>3
    <2>3. stopped' = None => Len(Generated) <= call.relations
      BY <1>1, <1>2, <2>2
    <2> QED
      BY <1>1, <1>3, <2>1, <2>3 DEF FormedInv
  <1>7. SuppressedInv'
    <2>1. Requested("trace_identity")' <=> Requested("trace_identity")
      BY <1>1 DEF Requested
    <2>2. \A l : IsRelatedLog(l)' <=> IsRelatedLog(l)
      BY <1>1 DEF IsRelatedLog
    <2>3. ASSUME Requested("trace_identity"), NEW l \in Scanned, Facts[l].kind = "log",
                 IsRelatedLog(l), NEW s \in Scanned, ExactFor(l, s)
          PROVE  \E x \in suppressions' : x.log = Facts[l].entity
      <3>1. l \in ToSet(seen.log) /\ s \in ToSet(seen.span)
        BY <2>3, ScannedKinds DEF EngineCore, ExactFor, Identified, Natural, KindSet
      <3>2. l \in ToSet(RelatedLogs)
        BY <2>3, <3>1, RelatedLogsLaws DEF EngineCore
      <3>3. l \notin ToSet(Loose)
        BY <2>3, <3>1, LooseLaws DEF EngineCore
      <3>4. Suppression(l) \in suppressions'
        BY <1>1, <2>3, <3>2, <3>3
      <3>5. Suppression(l).log = Facts[l].entity
        BY DEF Suppression
      <3> QED
        BY <3>4, <3>5
    <2> QED
      BY <1>3, <2>1, <2>2, <2>3 DEF SuppressedInv
  <1>8. CheckInv'
    <2>1. checked' = 0 /\ Len(formed') \in Nat /\ 0 % 2 # 1
      BY <1>1, <1>2, <1>4
    <2> QED
      BY <1>1, <2>1 DEF CheckInv
  <1>9. AnswerInv'
    <2>1. ToSet(answer') = {}
      BY <1>1, <1>2 DEF ToSet
    <2> QED
      BY <2>1 DEF AnswerInv
  <1>10. NothingDropped' /\ AllKept'
    <2>1. checked' \div 2 = 0 /\ Len(answer') = 0 /\ cpc' = "check"
      BY <1>1, <1>2
    <2> QED
      BY <2>1 DEF NothingDropped, AllKept
  <1> QED
    BY <1>5, <1>6, <1>7, <1>8, <1>9, <1>10 DEF AnswerCore

(* One look-up: an endpoint is gone, the first is there, or both are.        *)
LEMMA CheckSteps ==
    ASSUME EngineCore, Check
    PROVE  LET d == checked \div 2
               r == formed[d + 1]
           IN  /\ d \in Nat /\ d + 1 \in 1..Len(formed) /\ r \in Relations
               /\ \/ /\ checked' = 2 * (d + 1) /\ checked' \div 2 = d + 1 /\ checked' % 2 = 0
                     /\ answer' = answer /\ (~IsResident(r.from) \/ ~IsResident(r.to))
                  \/ /\ checked' = 2 * d + 1 /\ checked' \div 2 = d /\ checked' % 2 = 1
                     /\ answer' = answer /\ IsResident(r.from)
                  \/ /\ checked' = 2 * (d + 1) /\ checked' \div 2 = d + 1 /\ checked' % 2 = 0
                     /\ checked % 2 = 1
                     /\ answer' = Append(answer, r) /\ IsResident(r.to)
  <1> DEFINE d == checked \div 2
             r == formed[d + 1]
  <1>1. checked \in Nat /\ formed \in Seq(Relations) /\ checked < 2 * Len(formed)
    BY DEF EngineCore, RunTyped, Check
  <1>2. d \in Nat /\ checked = 2 * d + (checked % 2) /\ (checked % 2) \in {0, 1}
    BY <1>1
  <1>3. r = Current
    BY DEF Current
  <1>4. Endpoint = IF checked % 2 = 0 THEN r.from ELSE r.to
    BY <1>3 DEF Endpoint
  <1>5. \/ ~IsResident(Endpoint) /\ checked' = 2 * (d + 1) /\ answer' = answer
        \/ /\ IsResident(Endpoint) /\ checked' = checked + 1
           /\ answer' = IF checked % 2 = 1 THEN Append(answer, r) ELSE answer
    BY <1>3 DEF Check
  <1> HIDE DEF r
  <1> HIDE DEF d
  <1>6. d + 1 \in 1..Len(formed)
    BY <1>1, <1>2
  <1>7. (2 * (d + 1)) \div 2 = d + 1 /\ (2 * (d + 1)) % 2 = 0
        /\ (2 * d + 1) \div 2 = d /\ (2 * d + 1) % 2 = 1
    BY <1>2
  <1>8. r \in Relations
    BY <1>1, <1>6 DEF r
  <1>9. CASE ~IsResident(Endpoint) /\ checked' = 2 * (d + 1) /\ answer' = answer
    BY <1>2, <1>4, <1>6, <1>7, <1>8, <1>9 DEF r, d
  <1>10. CASE checked % 2 = 0 /\ IsResident(Endpoint) /\ checked' = checked + 1 /\ answer' = answer
    <2>1. checked' = 2 * d + 1 /\ IsResident(r.from)
      BY <1>2, <1>4, <1>10
    <2> QED
      BY <1>2, <1>6, <1>7, <1>8, <1>10, <2>1 DEF r, d
  <1>11. CASE /\ checked % 2 = 1 /\ IsResident(Endpoint) /\ checked' = checked + 1
              /\ answer' = Append(answer, r)
    <2>1. checked' = 2 * (d + 1) /\ IsResident(r.to)
      BY <1>2, <1>4, <1>11
    <2> QED
      BY <1>2, <1>6, <1>7, <1>8, <1>11, <2>1 DEF r, d
  <1> QED
    BY <1>2, <1>5, <1>9, <1>10, <1>11

(* Over a store that stood still every endpoint formed is resident.          *)
LEMMA FormedResident ==
    ASSUME EngineCore, AnswerCore, cpc = "check", ~moved, NEW i \in 1..Len(formed)
    PROVE  IsResident(formed[i].from) /\ IsResident(formed[i].to)
  <1>1. stopped # "depth" /\ GoodBounds(call)
    BY DEF EngineCore, Stages, RunTyped
  <1>2. formed = Capped(Generated) /\ Scanned \subseteq resident
    BY <1>1 DEF AnswerCore, FormedInv, Unmoved
  <1>3. Generated \in Seq(Relations) /\ ToSet(Generated) = Related(Scanned) /\ call.relations \in Nat
    BY <1>1, GeneratedLaws DEF EngineCore, GoodBounds
  <1>4. formed \in Seq(Relations) /\ ToSet(formed) \subseteq ToSet(Generated)
    BY <1>2, <1>3, UpToLaws DEF Capped
  <1>5. formed[i] \in Related(Scanned)
    BY <1>3, <1>4, ElementOf
  <1>6. PICK x \in ToSet(call.strategies) : \E a, b \in Scanned :
          Holds(x, a, b, Scanned) /\ formed[i] = Rel(x, a, b)
    BY <1>5, RelatedMeans
  <1>7. PICK a, b \in Scanned : formed[i] = Rel(x, a, b)
    BY <1>6
  <1> QED
    BY <1>2, <1>7 DEF Rel, IsResident

LEMMA CheckAnswer ==
    ASSUME EngineCore, AnswerCore, Check
    PROVE  AnswerCore'
  <1> DEFINE d == checked \div 2
             r == formed[d + 1]
  <1>1. /\ d \in Nat /\ d + 1 \in 1..Len(formed) /\ r \in Relations
        /\ \/ /\ checked' = 2 * (d + 1) /\ checked' \div 2 = d + 1 /\ checked' % 2 = 0
              /\ answer' = answer /\ (~IsResident(r.from) \/ ~IsResident(r.to))
           \/ /\ checked' = 2 * d + 1 /\ checked' \div 2 = d /\ checked' % 2 = 1
              /\ answer' = answer /\ IsResident(r.from)
           \/ /\ checked' = 2 * (d + 1) /\ checked' \div 2 = d + 1 /\ checked' % 2 = 0
              /\ checked % 2 = 1
              /\ answer' = Append(answer, r) /\ IsResident(r.to)
    BY CheckSteps
  <1>2. d = checked \div 2 /\ r = formed[d + 1] /\ r = Current
    BY DEF Current
  <1> HIDE DEF r
  <1> HIDE DEF d
  <1>3. /\ UNCHANGED <<resident, kept, moves, steady, moved, alive, call, stopped, shelf, after,
                       seen, spent, formed, suppressions, cpc>>
        /\ cpc = "check"
    BY DEF Check, storeVars, scanVars, formVars
  <1>4. /\ formed \in Seq(Relations) /\ answer \in Seq(Relations) /\ checked \in Nat
        /\ resident \subseteq alive /\ steady \subseteq resident /\ stopped # "depth"
        /\ (checked % 2 = 1 => Lived(r.from))
        /\ Len(formed) \in Nat
    BY <1>2, <1>3 DEF EngineCore, RunTyped, StoreTyped, Stages, AnswerCore, CheckInv
  <1>5. \A ref : (IsResident(ref) => Lived(ref)) /\ (Stayed(ref) => IsResident(ref))
    BY <1>4 DEF IsResident, Lived, Stayed
  <1>6. \A ref : (Lived(ref)' <=> Lived(ref)) /\ (Stayed(ref)' <=> Stayed(ref))
    BY <1>3 DEF Lived, Stayed, Ref
  <1>7. Append(answer, r) \in Seq(Relations) /\ ToSet(Append(answer, r)) = ToSet(answer) \cup {r}
        /\ Len(Append(answer, r)) = Len(answer) + 1
        /\ (\A i \in 1..Len(answer) : Append(answer, r)[i] = answer[i])
        /\ Append(answer, r)[Len(answer) + 1] = r
    <2>1. /\ Append(answer, r) \in Seq(Relations) /\ Len(answer) \in Nat
          /\ Len(Append(answer, r)) = Len(answer) + 1
          /\ (\A i \in 1..Len(answer) : Append(answer, r)[i] = answer[i])
          /\ Append(answer, r)[Len(answer) + 1] = r
      BY <1>1, <1>4
    <2>2. ToSet(Append(answer, r)) = ToSet(answer) \cup {r}
      <3>1. ToSet(answer) = {answer[i] : i \in 1..Len(answer)}
        BY <1>4 DEF ToSet
      <3>2. ToSet(Append(answer, r)) = {Append(answer, r)[i] : i \in 1..(Len(answer) + 1)}
        BY <2>1 DEF ToSet
      <3>3. \A i \in 1..(Len(answer) + 1) : i \in 1..Len(answer) \/ i = Len(answer) + 1
        BY <2>1
      <3>4. 1..Len(answer) \subseteq 1..(Len(answer) + 1) /\ Len(answer) + 1 \in 1..(Len(answer) + 1)
        BY <2>1
      <3> QED
        BY <2>1, <3>1, <3>2, <3>3, <3>4, Zenon
    <2> QED
      BY <2>1, <2>2
  <1>8. r \in ToSet(formed)
    BY <1>1, <1>2, <1>4, ElementOf
  <1>9. Unmoved' /\ DistinctIn(resident)' /\ FormedInv' /\ SuppressedInv'
    BY <1>3, FormedSame DEF AnswerCore, Unmoved, DistinctIn, Scanned, Ref
  <1>10. CheckInv'
    <2>1. checked' <= 2 * Len(formed)
      BY <1>1, <1>4
    <2>2. checked' % 2 = 1 => IsResident(r.from) /\ Current' = r
      BY <1>1, <1>2, <1>3 DEF Current
    <2> QED
      BY <1>3, <1>4, <1>5, <1>6, <2>1, <2>2 DEF CheckInv
  <1>11. AnswerInv'
    <2>1. CASE answer' = answer
      BY <1>3, <1>6, <2>1 DEF AnswerCore, AnswerInv
    <2>2. CASE answer' = Append(answer, r) /\ checked % 2 = 1 /\ IsResident(r.to)
      <3>1. Lived(r.from) /\ Lived(r.to) /\ ToSet(answer') = ToSet(answer) \cup {r}
        BY <1>4, <1>5, <1>7, <2>2
      <3>2. formed' = formed
        BY <1>3
      <3> QED
        BY <1>6, <1>8, <3>1, <3>2 DEF AnswerCore, AnswerInv
    <2> QED
      BY <1>1, <2>1, <2>2
  <1>12. NothingDropped'
    <2> SUFFICES ASSUME NEW i \in 1..Len(formed), i <= checked' \div 2,
                        Stayed(formed[i].from), Stayed(formed[i].to)
                 PROVE  formed[i] \in ToSet(answer')
      BY <1>3, <1>6 DEF NothingDropped
    <2>1. ToSet(answer) \subseteq ToSet(answer')
      BY <1>1, <1>7
    <2>2. CASE i <= d
      <3>1. formed[i] \in ToSet(answer)
        BY <1>2, <1>3, <2>2 DEF AnswerCore, NothingDropped
      <3> QED
        BY <2>1, <3>1
    <2>3. CASE i > d
      <3>1. i = d + 1 /\ checked' \div 2 = d + 1
        BY <1>1, <2>3
      <3>2. IsResident(r.from) /\ IsResident(r.to)
        BY <1>2, <1>5, <3>1
      <3>3. checked' \div 2 # d
        BY <1>1, <3>1
      <3>4. answer' = Append(answer, r)
        BY <1>1, <3>2, <3>3
      <3> QED
        BY <1>2, <1>7, <3>1, <3>4
    <2> QED
      BY <1>1, <2>2, <2>3
  <1>13. AllKept'
    <2> SUFFICES ASSUME ~moved
                 PROVE  /\ Len(answer') = checked' \div 2
                        /\ \A i \in 1..Len(answer') : answer'[i] = formed[i]
      BY <1>3 DEF AllKept
    <2>1. Len(answer) = d /\ \A i \in 1..Len(answer) : answer[i] = formed[i]
      BY <1>2, <1>3 DEF AnswerCore, AllKept
    <2>2. IsResident(r.from) /\ IsResident(r.to)
      BY <1>1, <1>2, <1>3, FormedResident
    <2>3. CASE answer' = answer /\ checked' \div 2 = d
      BY <2>1, <2>3
    <2>4. CASE answer' = Append(answer, r) /\ checked' \div 2 = d + 1
      <3>1. Len(answer') = d + 1
        BY <1>7, <2>1, <2>4
      <3>2. \A i \in 1..(d + 1) : i = d + 1 \/ i \in 1..d
        BY <1>1
      <3>3. answer'[d + 1] = formed[d + 1] /\ \A i \in 1..d : answer'[i] = formed[i]
        BY <1>2, <1>7, <2>1, <2>4
      <3> QED
        BY <2>4, <3>1, <3>2, <3>3
    <2> QED
      BY <1>1, <2>2, <2>3, <2>4
  <1> QED
    BY <1>9, <1>10, <1>11, <1>12, <1>13 DEF AnswerCore

LEMMA SortAnswer ==
    ASSUME EngineCore, AnswerCore, AnswerSorted
    PROVE  AnswerCore'
  <1>1. /\ UNCHANGED <<resident, kept, moves, steady, moved, alive, call, stopped, shelf, after,
                       seen, spent, formed, suppressions>>
        /\ cpc = "check" /\ cpc' = "answered" /\ answer' = Sorted(answer)
        /\ checked = 2 * Len(formed)
    BY DEF AnswerSorted, storeVars, scanVars, formVars
  <1>2. formed \in Seq(Relations) /\ answer \in Seq(Relations) /\ Len(formed) \in Nat
    BY DEF EngineCore, RunTyped
  <1>3. ToSet(answer') = ToSet(answer)
    BY <1>1, <1>2, SortedLaws
  <1>4. checked \div 2 = Len(formed)
    BY <1>1, <1>2
  <1>5. \A ref : (Lived(ref)' <=> Lived(ref)) /\ (Stayed(ref)' <=> Stayed(ref))
    BY <1>1 DEF Lived, Stayed, Ref
  <1>6. Unmoved' /\ DistinctIn(resident)' /\ FormedInv' /\ SuppressedInv' /\ CheckInv'
    BY <1>1, FormedSame DEF AnswerCore, Unmoved, DistinctIn, Scanned, Ref, CheckInv
  <1>7. AnswerInv'
    BY <1>1, <1>3, <1>5 DEF AnswerCore, AnswerInv
  <1>8. NothingDropped'
    <2>1. \A i \in 1..Len(formed) : i <= checked \div 2
      BY <1>2, <1>4
    <2> QED
      BY <1>1, <1>3, <1>5, <2>1 DEF AnswerCore, NothingDropped
  <1>9. AllKept'
    <2>1. ASSUME ~moved
          PROVE  answer = formed
      <3>1. Len(answer) = Len(formed) /\ \A i \in 1..Len(answer) : answer[i] = formed[i]
        BY <1>1, <1>4, <2>1 DEF AnswerCore, AllKept
      <3> QED
        BY <1>2, <3>1
    <2>2. Sorted(formed)' = Sorted(formed)
      BY <1>1 DEF Sorted, Place, Before, Rank
    <2> QED
      BY <1>1, <2>1, <2>2 DEF AllKept
  <1> QED
    BY <1>6, <1>7, <1>8, <1>9 DEF AnswerCore

LEMMA StillAnswer ==
    ASSUME EngineCore, AnswerCore, Still
    PROVE  AnswerCore'
  <1>1. /\ UNCHANGED <<resident, kept, moves, steady, moved, alive, call, stopped, shelf, after,
                       seen, spent, formed, suppressions, cpc, checked, answer>>
    BY DEF Still, storeVars, runVars, scanVars, formVars, answerVars
  <1>2. FormedInv' /\ SuppressedInv'
    BY <1>1, FormedSame DEF AnswerCore
  <1>3. Sorted(formed)' = Sorted(formed)
    BY <1>1 DEF Sorted, Place, Before, Rank
  <1>4. \A ref : (Lived(ref)' <=> Lived(ref)) /\ (Stayed(ref)' <=> Stayed(ref))
    BY <1>1 DEF Lived, Stayed, Ref
  <1>5. Unmoved' /\ DistinctIn(resident)' /\ CheckInv'
    BY <1>1, <1>4 DEF AnswerCore, Unmoved, DistinctIn, Scanned, Ref, CheckInv, Current
  <1>6. AnswerInv' /\ NothingDropped' /\ AllKept'
    BY <1>1, <1>3, <1>4 DEF AnswerCore, AnswerInv, NothingDropped, AllKept
  <1> QED
    BY <1>2, <1>5, <1>6 DEF AnswerCore

LEMMA AnswerCoreStep ==
    ASSUME EngineCore, AnswerCore, EngineStep
    PROVE  AnswerCore'
  BY StoreStepAnswer, CalledAnswer, ScanAnswer, FormAnswer, CheckAnswer, SortAnswer, StillAnswer
     DEF EngineStep, RunStep

(* A run that was not cut scanned everything that stayed, and formed all     *)
(* that is related there.                                                    *)
LEMMA AnsweredFormed ==
    ASSUME EngineCore, AnswerCore, Answered
    PROVE  /\ call.strategies \in Seq(Strategies) /\ Scanned \subseteq Keys
           /\ steady \subseteq Scanned /\ formed = Generated
           /\ formed \in Seq(Relations) /\ ToSet(formed) = Related(Scanned)
  <1>1. cpc = "answered" /\ stopped = None /\ stopped \notin {"depth", "scan"}
    BY FactsTyped DEF Answered
  <1>2. shelf = 4 /\ call.strategies \in Seq(Strategies) /\ call.relations \in Nat
    BY <1>1 DEF EngineCore, RunTyped, Stages, GoodBounds
  <1>3. Scanned \subseteq Keys
    BY ScannedKinds DEF EngineCore
  <1>4. steady \subseteq Scanned
    <2> SUFFICES ASSUME NEW k \in steady
                 PROVE  k \in Scanned
      OBVIOUS
    <2>1. Facts[k].kind \in KindSet
      BY FactsTyped DEF EngineCore, StoreTyped
    <2>2. Passed(k)
      BY <1>2, <2>1 DEF Passed, KindRank, KindSet
    <2> QED
      BY <1>1, <2>2 DEF EngineCore, ScanComplete
  <1>5. /\ Generated \in Seq(Relations) /\ ToSet(Generated) = Related(Scanned)
        /\ Len(Generated) \in Nat
    BY <1>2, GeneratedLaws DEF EngineCore
  <1>6. formed = UpTo(Generated, call.relations) /\ Len(Generated) <= call.relations
    BY <1>1 DEF AnswerCore, FormedInv, Capped
  <1>7. formed = Generated
    BY <1>2, <1>5, <1>6, UpToLaws
  <1> QED
    BY <1>2, <1>3, <1>4, <1>5, <1>7

LEMMA CompleteFromCore ==
    ASSUME EngineCore, AnswerCore
    PROVE  AnswerComplete
  <1> SUFFICES ASSUME Answered, NEW r \in Related(steady)
               PROVE  \/ Contains(answer, r)
                      \/ /\ r.type = TypeRank.trace_identity
                         /\ \E s \in suppressions : s.log = r.from[2]
    BY DEF AnswerComplete
  <1>1. PICK x \in ToSet(call.strategies) : \E a, b \in steady :
          Holds(x, a, b, steady) /\ r = Rel(x, a, b)
    BY RelatedMeans
  <1>2. PICK a, b \in steady : Holds(x, a, b, steady) /\ r = Rel(x, a, b)
    BY <1>1
  <1>3. a \in Scanned /\ b \in Scanned
    BY AnsweredFormed
  <1>4. cpc = "answered" /\ stopped # "depth"
    BY FactsTyped DEF Answered
  <1>5. ASSUME Holds(x, a, b, Scanned)
        PROVE  Contains(answer, r)
    <2>1. r \in ToSet(formed) /\ formed \in Seq(Relations)
      BY <1>1, <1>2, <1>3, <1>5, AnsweredFormed, RelatedMeans
    <2>2. PICK i \in 1..Len(formed) : formed[i] = r
      BY <2>1 DEF ToSet
    <2>3. Stayed(r.from) /\ Stayed(r.to)
      BY <1>2 DEF Stayed, Rel
    <2>4. r \in ToSet(answer) /\ answer \in Seq(Relations)
      BY <1>4, <2>2, <2>3 DEF AnswerCore, NothingDropped, EngineCore, RunTyped
    <2> QED
      BY <2>4 DEF Contains, ToSet
  <1>6. ASSUME ~Holds(x, a, b, Scanned)
        PROVE  /\ r.type = TypeRank.trace_identity
               /\ \E s \in suppressions : s.log = r.from[2]
    <2>1. x \in Strategies
      BY <1>1, AnsweredFormed DEF ToSet
    <2>2. x = "trace_identity"
      BY <1>2, <1>6, <2>1 DEF Holds, Strategies
    <2>3. Facts[a].kind = "log" /\ IsRelatedLog(a) /\ \E s \in Scanned : ExactFor(a, s)
      BY <1>2, <1>6, <2>2 DEF Holds
    <2>4. Requested("trace_identity")
      <3>1. PICK i \in DOMAIN call.strategies : call.strategies[i] = "trace_identity"
        BY <1>1, <2>2 DEF ToSet
      <3>2. DOMAIN call.strategies = 1..Len(call.strategies)
        BY AnsweredFormed
      <3> QED
        BY <3>1, <3>2 DEF Requested, Contains
    <2>5. \E s \in suppressions : s.log = Facts[a].entity
      BY <1>3, <1>4, <2>3, <2>4 DEF AnswerCore, SuppressedInv
    <2>6. r.from[2] = Facts[a].entity
      BY <1>2 DEF Rel, Ref
    <2> QED
      BY <1>2, <2>2, <2>5, <2>6 DEF Rel
  <1> QED
    BY <1>5, <1>6

LEMMA ExactFromCore ==
    ASSUME EngineCore, AnswerCore
    PROVE  AnswerExact
  <1> SUFFICES ASSUME Answered, ~moved
               PROVE  /\ ToSet(answer) = Related(resident)
                      /\ \A i, j \in DOMAIN answer : i < j => ~Before(answer[j], answer[i])
                      /\ IsInjective(call.strategies) =>
                           \A i, j \in DOMAIN answer : answer[i] = answer[j] =>
                             i = j \/ answer[i].type = TypeRank.exemplar
    BY DEF AnswerExact
  <1>1. cpc = "answered" /\ stopped # "depth"
    BY FactsTyped DEF Answered
  <1>2. Scanned = resident /\ Distinct
    <2>1. steady = resident /\ Scanned \subseteq resident /\ steady \subseteq Scanned
      BY AnsweredFormed DEF AnswerCore, Unmoved
    <2> QED
      BY <2>1 DEF AnswerCore, Distinct
  <1>3. formed \in Seq(Relations) /\ formed = Generated /\ ToSet(formed) = Related(resident)
    BY <1>2, AnsweredFormed
  <1>4. answer = Sorted(formed)
    BY <1>1 DEF AnswerCore, AllKept
  <1>5. ToSet(answer) = ToSet(formed) /\ DOMAIN answer = 1..Len(formed)
        /\ \A i, j \in 1..Len(formed) : i < j => ~Before(answer[j], answer[i])
    BY <1>3, <1>4, SortedLaws
  <1>6. PICK at \in [1..Len(formed) -> 1..Len(formed)] :
          /\ \A n \in 1..Len(formed) : answer[n] = formed[at[n]]
          /\ \A m, n \in 1..Len(formed) : at[m] = at[n] => m = n
    BY <1>3, <1>4, SortedLaws
  <1>7. ASSUME IsInjective(call.strategies), NEW i \in 1..Len(formed), NEW j \in 1..Len(formed),
               answer[i] = answer[j]
        PROVE  i = j \/ answer[i].type = TypeRank["exemplar"]
    <2>1. \A m, n \in 1..Len(formed) : formed[m] = formed[n] =>
            m = n \/ formed[m].type = TypeRank["exemplar"]
      BY <1>2, <1>3, <1>7, AnsweredFormed, GeneratedLaws DEF EngineCore
    <2>2. at[i] \in 1..Len(formed) /\ at[j] \in 1..Len(formed) /\ formed[at[i]] = formed[at[j]]
      BY <1>6, <1>7
    <2> QED
      BY <1>6, <2>1, <2>2
  <1> QED
    BY <1>3, <1>5, <1>7

LEMMA StrongestFromCore ==
    ASSUME EngineCore, AnswerCore
    PROVE  StrongestWins
  <1> SUFFICES ASSUME NEW i \in DOMAIN answer, NEW j \in DOMAIN answer,
                      answer[i].type = TypeRank.span_identity,
                      answer[j].type = TypeRank.trace_identity
               PROVE  answer[i].from # answer[j].from
    BY DEF StrongestWins
  <1>1. answer \in Seq(Relations) /\ answer # <<>> /\ DOMAIN answer = 1..Len(answer)
    BY DEF EngineCore, RunTyped
  <1>2. cpc \in {"check", "answered"} /\ stopped # "depth"
    BY <1>1 DEF EngineCore, RunTyped, Stages
  <1>3. GoodBounds(call)
    BY <1>2 DEF EngineCore, RunTyped
  <1>4. call.strategies \in Seq(Strategies) /\ call.relations \in Nat
    BY <1>3 DEF GoodBounds
  <1>5. Generated \in Seq(Relations) /\ ToSet(Generated) = Related(Scanned)
    BY <1>4, GeneratedLaws DEF EngineCore
  <1>6. ToSet(formed) \subseteq Related(Scanned)
    BY <1>2, <1>4, <1>5, UpToLaws DEF AnswerCore, FormedInv, Capped
  <1>7. answer[i] \in Related(Scanned) /\ answer[j] \in Related(Scanned)
    BY <1>1, <1>6, ElementOf DEF AnswerCore, AnswerInv
  <1>8. Scanned \subseteq Keys
    BY ScannedKinds DEF EngineCore
  <1> QED
    BY <1>4, <1>7, <1>8, StrongestRelated

LEMMA EndpointsFromCore ==
    ASSUME EngineCore, AnswerCore
    PROVE  EndpointsSeen
  <1>1. answer \in Seq(Relations)
    BY DEF EngineCore, RunTyped
  <1>2. \A i \in DOMAIN answer : answer[i] \in ToSet(answer)
    BY <1>1, ElementOf
  <1> QED
    BY <1>2 DEF EndpointsSeen, AnswerCore, AnswerInv, Lived

(* The engine's invariant along every behaviour.                             *)
LEMMA EngineHolds == Spec => [](EngineCore /\ AnswerCore)
  <1> DEFINE IInv == EngineCore /\ AnswerCore /\ RootFound
  <1>1. Init => IInv
    BY EngineCoreInit, AnswerCoreInit, RootFoundInit
  <1>2. IInv /\ [Next]_vars => IInv'
    <2> SUFFICES ASSUME IInv, [Next]_vars
                 PROVE  IInv'
      OBVIOUS
    <2>1. EngineStep
      BY EngineSteps
    <2>2. EngineCore' /\ AnswerCore'
      BY <2>1, EngineCoreStep, AnswerCoreStep
    <2>3. RootFound'
      BY RootFoundStep DEF EngineCore, StoreTyped
    <2> QED
      BY <2>2, <2>3
  <1> QED
    BY <1>1, <1>2, PTL DEF Spec

(* Whatever the store does during a run, a run that was not cut misses no    *)
(* relation of records that stayed, but for a suppressed one it accounts     *)
(* for: nothing is lost between pages, between scans, or by the re-check of  *)
(* endpoints.                                                                *)
THEOREM CompleteHolds == Spec => []AnswerComplete
  BY EngineHolds, CompleteFromCore, PTL

(* No relation answered is made up: over a still store the answer is the     *)
(* related pairs of the residents in the documented order; over one that     *)
(* moved both endpoints were resident after the relation was formed, and a   *)
(* log with an exact span never gets the looser relation too.                *)
THEOREM TrueHolds == Spec => []AnswerTrue
  <1>1. EngineCore /\ AnswerCore => AnswerTrue
    BY ExactFromCore, EndpointsFromCore, StrongestFromCore DEF AnswerTrue
  <1> QED
    BY <1>1, EngineHolds, PTL

-----------------------------------------------------------------------------
(* The waterfall.                                                            *)

SpanOf(k) == Facts[k].span
Singly(s) == \A i, j \in 1..Len(s) : SpanOf(s[i]) = SpanOf(s[j]) => i = j
Shows(s, id) == \E i \in 1..Len(s) : SpanOf(s[i]) = id
Continues(s, t) == Len(s) <= Len(t) /\ \A i \in 1..Len(s) : t[i] = s[i]

(* Span i of the walk joins the order, or is passed over.                    *)
Joining(s, i, S) ==
    IF /\ OfTrace(spans[i]) /\ spans[i] \in S
       /\ \A j \in 1..Len(s) : SpanOf(s[j]) # SpanOf(spans[i])
    THEN Append(s, spans[i]) ELSE s

LEMMA VisitRuns ==
    ASSUME spans \in Seq(Keys), NEW ordered \in Seq(Keys), NEW S
    PROVE  \E f \in [0..Len(spans) -> Seq(Keys)] :
             /\ f[0] = ordered /\ Visit(ordered, S) = f[Len(spans)]
             /\ \A i \in 1..Len(spans) : f[i] = Joining(f[i - 1], i, S)
  <1> DEFINE N == Len(spans)
             body(f) == [i \in 0..N |->
               IF i = 0 THEN ordered
               ELSE LET sofar == f[i - 1]
                    IN  IF /\ OfTrace(spans[i]) /\ spans[i] \in S
                           /\ \A j \in DOMAIN sofar : Facts[sofar[j]].span # Facts[spans[i]].span
                        THEN Append(sofar, spans[i]) ELSE sofar]
             step == [p \in (1..N) \X Seq(Keys) |-> Joining(p[2], p[1], S)]
  <1>1. N \in Nat /\ \A i \in 1..N : spans[i] \in Keys
    OBVIOUS
  <1>2. Visit(ordered, S) = (CHOOSE f : f = body(f))[N]
    BY DEF Visit
  <1>3. \A i \in 1..N : \A s \in Seq(Keys) : step[<<i, s>>] = Joining(s, i, S)
    OBVIOUS
  <1>4. \A i \in 1..N : \A s \in Seq(Keys) : Joining(s, i, S) \in Seq(Keys)
    BY <1>1 DEF Joining
  <1> HIDE DEF step
  <1>5. PICK g \in [0..N -> Seq(Keys)] : Carried(N, ordered, step, g)
    <2>1. \A i \in 1..N : \A s \in Seq(Keys) : step[<<i, s>>] \in Seq(Keys)
      BY <1>3, <1>4
    <2> HIDE DEF N
    <2> QED
      BY <1>1, <2>1, CarriedExists
  <1>6. g[0] = ordered /\ \A i \in 1..N : g[i] = Joining(g[i - 1], i, S)
    <2>1. g = [i \in 0..N |-> IF i = 0 THEN ordered ELSE step[<<i, g[i - 1]>>]]
      BY <1>5 DEF Carried
    <2>2. g[0] = ordered
      BY <1>1, <2>1
    <2>3. \A i \in 1..N : i \in 0..N /\ i # 0 /\ i - 1 \in 0..N
      BY <1>1
    <2> QED
      BY <1>3, <2>1, <2>2, <2>3
  <1> HIDE DEF N
  <1>7. ASSUME NEW f
        PROVE  f = body(f) <=>
                 /\ f = [i \in 0..N |-> f[i]] /\ f[0] = ordered
                 /\ \A i \in 1..N : f[i] = IF /\ OfTrace(spans[i]) /\ spans[i] \in S
                           /\ \A j \in DOMAIN f[i - 1] : Facts[f[i - 1][j]].span # Facts[spans[i]].span
                        THEN Append(f[i - 1], spans[i]) ELSE f[i - 1]
    <2>1. 0 \in 0..N /\ (\A i \in 0..N : i = 0 \/ i \in 1..N) /\ (\A i \in 1..N : i \in 0..N /\ i # 0)
      BY <1>1
    <2> QED
      BY <2>1
  <1> HIDE DEF body
  <1>8. g = body(g)
    <2>1. \A i \in 1..N : g[i - 1] \in Seq(Keys)
      BY <1>1, <1>5
    <2>2. \A i \in 1..N : DOMAIN g[i - 1] = 1..Len(g[i - 1])
      BY <2>1
    <2>3. g = [i \in 0..N |-> g[i]]
      BY <1>5
    <2> QED
      <3>1. \A i \in 1..N :
              g[i] = IF /\ OfTrace(spans[i]) /\ spans[i] \in S
                        /\ \A j \in DOMAIN g[i - 1] : Facts[g[i - 1][j]].span # Facts[spans[i]].span
                     THEN Append(g[i - 1], spans[i]) ELSE g[i - 1]
        BY <1>6, <2>2 DEF Joining, SpanOf
      <3> QED
        BY <1>6, <1>7, <2>3, <3>1
  <1> DEFINE h == CHOOSE f : f = body(f)
  <1>9. h = body(h)
    BY <1>8
  <1> HIDE DEF h
  <1>10. h = g
    <2> DEFINE P == {i \in 0..N : h[i] = g[i]}
    <2>1. 0 \in P
      BY <1>1, <1>6, <1>7, <1>9
    <2>2. ASSUME NEW i \in 1..N, i - 1 \in P
          PROVE  i \in P
      <3>1. h[i - 1] = g[i - 1] /\ i \in 0..N
        BY <1>1, <2>2
      <3>2. h[i] = g[i]
        <4>1. h[i] = IF /\ OfTrace(spans[i]) /\ spans[i] \in S
                        /\ \A j \in DOMAIN h[i - 1] : Facts[h[i - 1][j]].span # Facts[spans[i]].span
                     THEN Append(h[i - 1], spans[i]) ELSE h[i - 1]
          BY <1>7, <1>9
        <4>2. g[i] = IF /\ OfTrace(spans[i]) /\ spans[i] \in S
                        /\ \A j \in DOMAIN g[i - 1] : Facts[g[i - 1][j]].span # Facts[spans[i]].span
                     THEN Append(g[i - 1], spans[i]) ELSE g[i - 1]
          BY <1>7, <1>8
        <4> QED
          BY <3>1, <4>1, <4>2
      <3> QED
        BY <3>1, <3>2
    <2> HIDE DEF P
    <2>3. \A i \in 0..N : i \in P
      BY <1>1, <2>1, <2>2, Climbs
    <2>4. \A i \in 0..N : h[i] = g[i]
      BY <2>3 DEF P
    <2>5. h = [i \in 0..N |-> h[i]] /\ g = [i \in 0..N |-> g[i]]
      BY <1>7, <1>8, <1>9
    <2> QED
      BY <2>4, <2>5
  <1>11. Visit(ordered, S) = g[N]
    BY <1>2, <1>10 DEF h
  <1> QED
    BY <1>5, <1>6, <1>11 DEF N

LEMMA ContinuesLaws ==
    ASSUME NEW s \in Seq(Keys), NEW t \in Seq(Keys), Continues(s, t)
    PROVE  /\ \A id : Shows(s, id) => Shows(t, id)
           /\ \A u \in Seq(Keys) : Continues(t, u) => Continues(s, u)
  <1>1. Len(s) \in Nat /\ Len(t) \in Nat /\ Len(s) <= Len(t)
    BY DEF Continues
  <1>2. \A i \in 1..Len(s) : i \in 1..Len(t)
    BY <1>1
  <1>3. \A id : Shows(s, id) => Shows(t, id)
    BY <1>2 DEF Shows, Continues
  <1>4. ASSUME NEW u \in Seq(Keys), Continues(t, u)
        PROVE  Continues(s, u)
    <2>1. Len(s) <= Len(u)
      BY <1>1, <1>4 DEF Continues
    <2> QED
      BY <1>2, <1>4, <2>1 DEF Continues
  <1> QED
    BY <1>3, <1>4

LEMMA JoiningLaws ==
    ASSUME spans \in Seq(Keys), NEW s \in Seq(Keys), NEW i \in 1..Len(spans), NEW S
    PROVE  LET t == Joining(s, i, S)
           IN  /\ t \in Seq(Keys) /\ Continues(s, t)
               /\ \A j \in 1..Len(t) : j <= Len(s) \/ (t[j] \in TraceMembers /\ t[j] \in S)
               /\ Singly(s) => Singly(t)
               /\ OfTrace(spans[i]) /\ spans[i] \in S => Shows(t, SpanOf(spans[i]))
  <1> DEFINE t == Joining(s, i, S)
             k == spans[i]
  <1>1. k \in Keys /\ k \in ToSet(spans) /\ Len(s) \in Nat
    BY ElementOf
  <1>2. CASE OfTrace(k) /\ k \in S /\ \A j \in 1..Len(s) : SpanOf(s[j]) # SpanOf(k)
    <2>1. t = Append(s, k)
      BY <1>2 DEF Joining
    <2>2. /\ t \in Seq(Keys) /\ Len(t) = Len(s) + 1
          /\ (\A j \in 1..Len(s) : t[j] = s[j]) /\ t[Len(s) + 1] = k
      BY <1>1, <2>1
    <2>3. k \in TraceMembers
      BY <1>1, <1>2 DEF TraceMembers
    <2> HIDE DEF t, k
    <2>4. \A j \in 1..Len(t) : j \in 1..Len(s) \/ j = Len(s) + 1
      BY <1>1, <2>2
    <2>5. Continues(s, t)
      BY <1>1, <2>2 DEF Continues
    <2>6. \A j \in 1..Len(t) : j <= Len(s) \/ (t[j] \in TraceMembers /\ t[j] \in S)
      BY <1>1, <1>2, <2>2, <2>3, <2>4
    <2>7. Singly(s) => Singly(t)
      BY <1>2, <2>2, <2>4 DEF Singly
    <2>8. Shows(t, SpanOf(k))
      <3>1. Len(s) + 1 \in 1..Len(t)
        BY <1>1, <2>2
      <3> QED
        BY <2>2, <3>1 DEF Shows
    <2> QED
      BY <2>2, <2>5, <2>6, <2>7, <2>8 DEF t, k
  <1>3. CASE ~(OfTrace(k) /\ k \in S /\ \A j \in 1..Len(s) : SpanOf(s[j]) # SpanOf(k))
    <2>1. t = s
      BY <1>3 DEF Joining
    <2>2. OfTrace(k) /\ k \in S => Shows(s, SpanOf(k))
      BY <1>3 DEF Shows
    <2>3. Continues(s, s) /\ \A j \in 1..Len(s) : j <= Len(s)
      BY <1>1 DEF Continues
    <2> QED
      BY <2>1, <2>2, <2>3
  <1> QED
    BY <1>2, <1>3

(* A visit appends the walked members of S whose identity is not in the      *)
(* order yet, each identity once.                                            *)
LEMMA VisitLaws ==
    ASSUME spans \in Seq(Keys), NEW ordered \in Seq(Keys), NEW S
    PROVE  LET v == Visit(ordered, S)
           IN  /\ v \in Seq(Keys) /\ Continues(ordered, v)
               /\ \A j \in 1..Len(v) : j <= Len(ordered) \/ (v[j] \in TraceMembers /\ v[j] \in S)
               /\ Singly(ordered) => Singly(v)
               /\ \A k \in TraceMembers : k \in S => Shows(v, SpanOf(k))
  <1> DEFINE N == Len(spans)
  <1>1. PICK f \in [0..N -> Seq(Keys)] :
          /\ f[0] = ordered /\ Visit(ordered, S) = f[N]
          /\ \A i \in 1..N : f[i] = Joining(f[i - 1], i, S)
    BY VisitRuns
  <1> DEFINE P == {n \in 0..N :
               /\ Continues(ordered, f[n])
               /\ \A j \in 1..Len(f[n]) : j <= Len(ordered) \/ (f[n][j] \in TraceMembers /\ f[n][j] \in S)
               /\ Singly(ordered) => Singly(f[n])
               /\ \A i \in 1..n : OfTrace(spans[i]) /\ spans[i] \in S => Shows(f[n], SpanOf(spans[i]))}
  <1>2. N \in Nat
    OBVIOUS
  <1>3. 0 \in P
    <2>1. Continues(ordered, ordered) /\ \A j \in 1..Len(ordered) : j <= Len(ordered)
      BY DEF Continues
    <2>2. 0 \in 0..N /\ \A i \in 1..0 : FALSE
      BY <1>2
    <2> HIDE DEF N
    <2> QED
      BY <1>1, <2>1, <2>2
  <1>4. ASSUME NEW n \in 1..N, n - 1 \in P
        PROVE  n \in P
    <2> DEFINE s == f[n - 1]
               t == f[n]
    <2>1. s \in Seq(Keys) /\ t \in Seq(Keys) /\ t = Joining(s, n, S) /\ n \in 0..N
      BY <1>1, <1>4
    <2>2. /\ Continues(ordered, s)
          /\ \A j \in 1..Len(s) : j <= Len(ordered) \/ (s[j] \in TraceMembers /\ s[j] \in S)
          /\ Singly(ordered) => Singly(s)
          /\ \A i \in 1..(n - 1) : OfTrace(spans[i]) /\ spans[i] \in S => Shows(s, SpanOf(spans[i]))
      BY <1>4
    <2>3. /\ Continues(s, t)
          /\ \A j \in 1..Len(t) : j <= Len(s) \/ (t[j] \in TraceMembers /\ t[j] \in S)
          /\ Singly(s) => Singly(t)
          /\ OfTrace(spans[n]) /\ spans[n] \in S => Shows(t, SpanOf(spans[n]))
      <3>1. n \in 1..Len(spans)
        BY <1>4
      <3> HIDE DEF s, t, N
      <3> QED
        BY <2>1, <3>1, JoiningLaws
    <2> HIDE DEF s, t
    <2>4. Continues(ordered, t) /\ \A id : Shows(s, id) => Shows(t, id)
      BY <2>1, <2>2, <2>3, ContinuesLaws
    <2>5. \A j \in 1..Len(t) : j <= Len(ordered) \/ (t[j] \in TraceMembers /\ t[j] \in S)
      <3> TAKE j \in 1..Len(t)
      <3>1. CASE j <= Len(s)
        <4>1. j \in 1..Len(s) /\ t[j] = s[j]
          BY <2>1, <2>3, <3>1 DEF Continues
        <4> QED
          BY <2>2, <4>1
      <3> QED
        BY <2>3, <3>1
    <2>6. \A i \in 1..n : OfTrace(spans[i]) /\ spans[i] \in S => Shows(t, SpanOf(spans[i]))
      <3>1. \A i \in 1..n : i = n \/ i \in 1..(n - 1)
        BY <1>2, <1>4
      <3> QED
        BY <2>2, <2>3, <2>4, <3>1
    <2> QED
      BY <2>1, <2>2, <2>3, <2>4, <2>5, <2>6 DEF s, t
  <1>5. N \in P
    <2> HIDE DEF P, N
    <2>1. \A n \in 1..N : n - 1 \in P => n \in P
      BY <1>4
    <2>2. \A n \in 0..N : n \in P
      BY <1>2, <1>3, <2>1, Climbs
    <2> QED
      BY <1>2, <2>2
  <1>6. \A k \in TraceMembers : k \in S => Shows(f[N], SpanOf(k))
    <2> TAKE k \in TraceMembers
    <2>1. PICK i \in 1..N : spans[i] = k
      BY DEF TraceMembers, ToSet
    <2>2. OfTrace(k)
      BY DEF TraceMembers
    <2> QED
      BY <1>5, <2>1, <2>2
  <1> HIDE DEF N
  <1> QED
    BY <1>1, <1>2, <1>5, <1>6

(* Span n of the order is expanded, once there is one.                       *)
Expanding(s, n) == IF n > Len(s) THEN s ELSE Visit(s, ChildrenOf(s[n]))

LEMMA ReachedRuns ==
    ASSUME spans \in Seq(Keys), Seeds[1] \in Keys
    PROVE  \E f \in [0..Len(spans) -> Seq(Keys)] :
             /\ f[0] = <<Seeds[1]>> /\ Reached = f[Len(spans)]
             /\ \A n \in 1..Len(spans) : f[n] = Expanding(f[n - 1], n)
  <1> DEFINE N == Len(spans)
             e == <<Seeds[1]>>
             body(f) == [n \in 0..N |->
               IF n = 0 THEN e
               ELSE IF n > Len(f[n - 1]) THEN f[n - 1]
               ELSE Visit(f[n - 1], ChildrenOf(f[n - 1][n]))]
             step == [p \in (1..N) \X Seq(Keys) |-> Expanding(p[2], p[1])]
  <1>1. N \in Nat /\ e \in Seq(Keys)
    OBVIOUS
  <1>2. Reached = (CHOOSE f : f = body(f))[N]
    BY DEF Reached
  <1>3. \A i \in 1..N : \A s \in Seq(Keys) : step[<<i, s>>] = Expanding(s, i)
    OBVIOUS
  <1>4. \A i \in 1..N : \A s \in Seq(Keys) : Expanding(s, i) \in Seq(Keys)
    <2> TAKE i \in 1..N
    <2> TAKE s \in Seq(Keys)
    <2>1. Visit(s, ChildrenOf(s[i])) \in Seq(Keys)
      BY VisitLaws
    <2> QED
      BY <2>1 DEF Expanding
  <1> HIDE DEF step, e
  <1>5. PICK g \in [0..N -> Seq(Keys)] : Carried(N, e, step, g)
    <2>1. \A i \in 1..N : \A s \in Seq(Keys) : step[<<i, s>>] \in Seq(Keys)
      BY <1>3, <1>4
    <2> HIDE DEF N
    <2> QED
      BY <1>1, <2>1, CarriedExists
  <1>6. g[0] = e /\ \A i \in 1..N : g[i] = Expanding(g[i - 1], i)
    <2>1. g = [i \in 0..N |-> IF i = 0 THEN e ELSE step[<<i, g[i - 1]>>]]
      BY <1>5 DEF Carried
    <2>2. g[0] = e
      BY <1>1, <2>1
    <2>3. \A i \in 1..N : i \in 0..N /\ i # 0 /\ i - 1 \in 0..N
      BY <1>1
    <2> QED
      BY <1>3, <2>1, <2>2, <2>3
  <1> HIDE DEF N
  <1>7. ASSUME NEW f
        PROVE  f = body(f) <=>
                 /\ f = [i \in 0..N |-> f[i]] /\ f[0] = e
                 /\ \A i \in 1..N : f[i] = Expanding(f[i - 1], i)
    <2>1. 0 \in 0..N /\ (\A i \in 0..N : i = 0 \/ i \in 1..N) /\ (\A i \in 1..N : i \in 0..N /\ i # 0)
      BY <1>1
    <2> QED
      BY <2>1 DEF Expanding
  <1> HIDE DEF body
  <1>8. g = body(g)
    <2>1. g = [i \in 0..N |-> g[i]]
      BY <1>5
    <2> QED
      BY <1>6, <1>7, <2>1
  <1> DEFINE h == CHOOSE f : f = body(f)
  <1>9. h = body(h)
    BY <1>8
  <1> HIDE DEF h
  <1>10. h = g
    <2> DEFINE P == {i \in 0..N : h[i] = g[i]}
    <2>1. 0 \in P
      BY <1>1, <1>6, <1>7, <1>9
    <2>2. ASSUME NEW i \in 1..N, i - 1 \in P
          PROVE  i \in P
      <3>1. h[i - 1] = g[i - 1] /\ i \in 0..N
        BY <1>1, <2>2
      <3>2. h[i] = Expanding(h[i - 1], i) /\ g[i] = Expanding(g[i - 1], i)
        BY <1>6, <1>7, <1>9
      <3> QED
        BY <3>1, <3>2
    <2> HIDE DEF P
    <2>3. \A i \in 0..N : i \in P
      BY <1>1, <2>1, <2>2, Climbs
    <2>4. \A i \in 0..N : h[i] = g[i]
      BY <2>3 DEF P
    <2>5. h = [i \in 0..N |-> h[i]] /\ g = [i \in 0..N |-> g[i]]
      BY <1>7, <1>8, <1>9
    <2> QED
      BY <2>4, <2>5
  <1>11. Reached = g[N]
    BY <1>2, <1>10 DEF h
  <1> QED
    BY <1>5, <1>6, <1>11 DEF N, e

LEMMA LevelLaws ==
    ASSUME spans \in Seq(Keys)
    PROVE  /\ DOMAIN Levels = 0..Len(spans)
           /\ \A id : id \in Levels[0] <=> \E k \in ToSet(Seeds) : id = SpanOf(k)
           /\ \A n \in 1..Len(spans) : \A id : id \in Levels[n] <=>
                \/ id \in Levels[n - 1]
                \/ \E k \in TraceMembers : Facts[k].parent \in Levels[n - 1] /\ id = SpanOf(k)
  <1> DEFINE N == Len(spans)
             e == {Facts[j].span : j \in ToSet(Seeds)}
             T == SUBSET {SpanOf(k) : k \in TraceMembers \cup ToSet(Seeds)}
             farther(S) == S \cup {Facts[j].span : j \in {i \in TraceMembers : Facts[i].parent \in S}}
             body(f) == [n \in 0..N |->
               IF n = 0 THEN e
               ELSE LET nearer == f[n - 1]
                    IN  nearer \cup {Facts[j].span : j \in {i \in TraceMembers : Facts[i].parent \in nearer}}]
             step == [p \in (1..N) \X T |-> farther(p[2])]
  <1>1. N \in Nat
    OBVIOUS
  <1>2. Levels = CHOOSE f : f = body(f)
    BY DEF Levels
  <1>3. e \in T /\ \A S \in T : farther(S) \in T
    BY DEF SpanOf
  <1>4. \A i \in 1..N : \A S \in T : step[<<i, S>>] = farther(S)
    OBVIOUS
  <1> HIDE DEF step, T
  <1>5. PICK g \in [0..N -> T] : Carried(N, e, step, g)
    <2>1. \A i \in 1..N : \A S \in T : step[<<i, S>>] \in T
      BY <1>3, <1>4
    <2> HIDE DEF N, e
    <2> QED
      BY <1>1, <1>3, <2>1, CarriedExists
  <1> HIDE DEF e, farther
  <1>6. g[0] = e /\ \A i \in 1..N : g[i] = farther(g[i - 1])
    <2>1. g = [i \in 0..N |-> IF i = 0 THEN e ELSE step[<<i, g[i - 1]>>]]
      BY <1>5 DEF Carried
    <2>2. g[0] = e
      BY <1>1, <2>1
    <2>3. \A i \in 1..N : i \in 0..N /\ i # 0 /\ i - 1 \in 0..N
      BY <1>1
    <2> QED
      BY <1>4, <2>1, <2>2, <2>3
  <1> HIDE DEF N
  <1>7. ASSUME NEW f
        PROVE  f = body(f) <=>
                 /\ f = [i \in 0..N |-> f[i]] /\ f[0] = e
                 /\ \A i \in 1..N : f[i] = farther(f[i - 1])
    <2>1. 0 \in 0..N /\ (\A i \in 0..N : i = 0 \/ i \in 1..N) /\ (\A i \in 1..N : i \in 0..N /\ i # 0)
      BY <1>1
    <2>2. body(f) = [n \in 0..N |-> IF n = 0 THEN e ELSE farther(f[n - 1])]
      BY DEF farther
    <2> HIDE DEF body
    <2> QED
      BY <2>1, <2>2
  <1> HIDE DEF body
  <1>8. g = body(g)
    <2>1. g = [i \in 0..N |-> g[i]]
      BY <1>5
    <2> QED
      BY <1>6, <1>7, <2>1
  <1>9. Levels = body(Levels)
    BY <1>2, <1>8
  <1>10. /\ Levels = [i \in 0..N |-> Levels[i]] /\ Levels[0] = e
         /\ \A i \in 1..N : Levels[i] = farther(Levels[i - 1])
    BY <1>7, <1>9
  <1>11. DOMAIN Levels = 0..N
    BY <1>10
  <1>12. \A id : id \in Levels[0] <=> \E k \in ToSet(Seeds) : id = SpanOf(k)
    BY <1>10 DEF e, SpanOf
  <1>13. \A n \in 1..N : \A id : id \in Levels[n] <=>
                \/ id \in Levels[n - 1]
                \/ \E k \in TraceMembers : Facts[k].parent \in Levels[n - 1] /\ id = SpanOf(k)
    BY <1>10 DEF farther, SpanOf
  <1> QED
    BY <1>11, <1>12, <1>13 DEF N

LEMMA SeedsLaws ==
    ASSUME spans \in Seq(Keys), Seeds # <<>>
    PROVE  /\ Seeds[1] \in TraceMembers /\ Seeds[1] \in Keys
           /\ \A k \in ToSet(Seeds) : k \in TraceMembers /\ SpanOf(k) = SpanOf(Seeds[1])
           /\ Seeds[1] \in ToSet(Seeds)
  <1> DEFINE S == {k \in ToSet(spans) : OfTrace(k) /\ Facts[k].entity = Effective.entity}
  <1>1. Seeds \in Seq(Keys \cap S) /\ ToSet(Seeds) = ToSet(spans) \cap S
    <2>1. Seeds = OnlyIn(spans, S)
      BY DEF Seeds
    <2> HIDE DEF S
    <2> QED
      BY <2>1, OnlyInLaws
  <1>2. \A k \in ToSet(Seeds) : k \in TraceMembers /\ Facts[k].entity = Effective.entity /\ OfTrace(k)
    BY <1>1 DEF TraceMembers
  <1>3. 1 \in 1..Len(Seeds)
    BY <1>1
  <1>4. Seeds[1] \in ToSet(Seeds)
    <2> HIDE DEF S
    <2> QED
      BY <1>1, <1>3, ElementOf
  <1>5. ToSet(Seeds) \subseteq Keys
    BY <1>1 DEF ToSet
  <1>6. ASSUME NEW k \in ToSet(Seeds)
        PROVE  SpanOf(k) = SpanOf(Seeds[1])
    <2>1. Natural(k) /\ Natural(Seeds[1]) /\ Facts[k].entity = Facts[Seeds[1]].entity
      BY <1>2, <1>4 DEF OfTrace
    <2>2. Facts[k].kind = Facts[Seeds[1]].kind
      BY <2>1 DEF Natural
    <2>3. k = Seeds[1] \/ SameIdentity(k, Seeds[1])
      BY <1>4, <1>5, <2>1, <2>2, IdentityAssumption
    <2> QED
      BY <2>3 DEF SameIdentity, SpanOf
  <1> QED
    BY <1>2, <1>4, <1>5, <1>6

(* The order after n of its spans were expanded.                             *)
Expanded(s, n) ==
    \A m \in 1..n : m <= Len(s) =>
      \A k \in TraceMembers : Facts[k].parent = SpanOf(s[m]) => Shows(s, SpanOf(k))
Parented(s, n) ==
    \A i \in 2..Len(s) : \E m \in 1..n : m < i /\ Facts[s[i]].parent = SpanOf(s[m])
Nearest(s) ==
    \A i, j \in 1..Len(s) : i < j =>
      \A L \in 0..Len(spans) : SpanOf(s[j]) \in Levels[L] => SpanOf(s[i]) \in Levels[L]
BreadthFirst(s, n) ==
    /\ s \in Seq(Keys) /\ Len(s) >= 1 /\ s[1] = Seeds[1]
    /\ \A i \in 1..Len(s) : s[i] \in TraceMembers
    /\ Singly(s) /\ Expanded(s, n) /\ Parented(s, n) /\ Nearest(s)

(* An identity that is not in the order yet is farther than all that were    *)
(* expanded and the next.                                                    *)
LEMMA Frontier ==
    ASSUME spans \in Seq(Keys), Seeds # <<>>, NEW s, NEW n \in 1..Len(spans), n <= Len(s),
           BreadthFirst(s, n - 1)
    PROVE  \A L \in 0..Len(spans) : \A id \in Levels[L] :
             Shows(s, id) \/ (L >= 1 /\ \A i \in 1..n : SpanOf(s[i]) \in Levels[L - 1])
  <1> DEFINE N == Len(spans)
             Far(L, id) == Shows(s, id) \/ (L >= 1 /\ \A i \in 1..n : SpanOf(s[i]) \in Levels[L - 1])
             P == {L \in 0..N : \A id \in Levels[L] : Far(L, id)}
  <1>1. N \in Nat /\ s \in Seq(Keys) /\ Len(s) \in Nat /\ Len(s) >= 1 /\ s[1] = Seeds[1]
    BY DEF BreadthFirst
  <1>2. 0 \in P
    <2>1. ASSUME NEW id \in Levels[0]
          PROVE  Shows(s, id)
      <3>1. id = SpanOf(s[1])
        BY <1>1, <2>1, LevelLaws, SeedsLaws
      <3>2. 1 \in 1..Len(s)
        BY <1>1
      <3> QED
        BY <3>1, <3>2 DEF Shows
    <2>2. 0 \in 0..N
      BY <1>1
    <2> QED
      BY <2>1, <2>2
  <1>3. ASSUME NEW L \in 1..N, L - 1 \in P
        PROVE  L \in P
    <2>0. L \in 0..N /\ L - 1 \in 0..N /\ L >= 1 /\ L \in Nat
      BY <1>1
    <2>1. \A id \in Levels[L - 1] : Far(L - 1, id)
      BY <1>3
    <2>g. Levels[L - 1] \subseteq Levels[L]
      BY LevelLaws
    <2>m. ASSUME NEW id \in Levels[L - 1]
          PROVE  Shows(s, id) \/ \A i \in 1..n : SpanOf(s[i]) \in Levels[L - 1]
      <3>1. CASE Shows(s, id)
        BY <3>1
      <3>2. CASE L - 1 >= 1 /\ \A i \in 1..n : SpanOf(s[i]) \in Levels[(L - 1) - 1]
        <4>1. L - 1 \in 1..N
          BY <2>0, <3>2
        <4>2. Levels[(L - 1) - 1] \subseteq Levels[L - 1]
          BY <4>1, LevelLaws
        <4> QED
          BY <3>2, <4>2
      <3> QED
        BY <2>1, <3>1, <3>2
    <2>2. ASSUME NEW id \in Levels[L], ~Shows(s, id)
          PROVE  \A i \in 1..n : SpanOf(s[i]) \in Levels[L - 1]
      <3>1. CASE id \in Levels[L - 1]
        BY <2>2, <2>m, <3>1
      <3>2. ASSUME NEW k \in TraceMembers, Facts[k].parent \in Levels[L - 1], id = SpanOf(k)
            PROVE  \A i \in 1..n : SpanOf(s[i]) \in Levels[L - 1]
        <4>1. CASE ~Shows(s, Facts[k].parent)
          BY <2>m, <3>2, <4>1
        <4>2. ASSUME NEW m \in 1..Len(s), SpanOf(s[m]) = Facts[k].parent
              PROVE  \A i \in 1..n : SpanOf(s[i]) \in Levels[L - 1]
          <5>1. ~(m \in 1..(n - 1))
            <6> SUFFICES ASSUME m \in 1..(n - 1)
                         PROVE  FALSE
              OBVIOUS
            <6>1. m <= Len(s)
              BY <1>1
            <6>2. Shows(s, SpanOf(k))
              BY <3>2, <4>2, <6>1 DEF BreadthFirst, Expanded
            <6> QED
              BY <2>2, <3>2, <6>2
          <5>2. m >= n
            BY <1>1, <5>1
          <5> TAKE i \in 1..n
          <5>3. i \in 1..Len(s) /\ (i = m \/ i < m)
            BY <1>1, <5>2
          <5>4. SpanOf(s[m]) \in Levels[L - 1]
            BY <3>2, <4>2
          <5>5. i < m => SpanOf(s[i]) \in Levels[L - 1]
            BY <2>0, <5>3, <5>4 DEF BreadthFirst, Nearest
          <5> QED
            BY <5>3, <5>4, <5>5
        <4> QED
          BY <4>1, <4>2 DEF Shows
      <3> QED
        BY <2>2, <3>1, <3>2, LevelLaws
    <2> QED
      BY <2>0, <2>2
  <1>4. \A L \in 0..N : L \in P
    <2> HIDE DEF P, N
    <2>1. \A L \in 1..N : L - 1 \in P => L \in P
      BY <1>3
    <2> QED
      BY <1>1, <1>2, <2>1, Climbs
  <1> QED
    BY <1>4

LEMMA ExpandingStep ==
    ASSUME spans \in Seq(Keys), Seeds # <<>>, NEW s, NEW n \in 1..Len(spans), BreadthFirst(s, n - 1)
    PROVE  BreadthFirst(Expanding(s, n), n)
  <1> DEFINE t == Expanding(s, n)
             N == Len(spans)
  <1>1. /\ s \in Seq(Keys) /\ Len(s) >= 1 /\ Len(s) \in Nat /\ s[1] = Seeds[1] /\ n \in Nat
        /\ \A i \in 1..Len(s) : s[i] \in TraceMembers
        /\ Singly(s) /\ Expanded(s, n - 1) /\ Parented(s, n - 1) /\ Nearest(s)
    BY DEF BreadthFirst
  <1>2. CASE n > Len(s)
    <2>1. t = s
      BY <1>2 DEF Expanding
    <2>2. Expanded(s, n)
      <3>1. \A m \in 1..n : m <= Len(s) => m \in 1..(n - 1)
        BY <1>1, <1>2
      <3> QED
        BY <1>1, <3>1 DEF Expanded
    <2>3. Parented(s, n)
      <3>1. \A m \in 1..(n - 1) : m \in 1..n
        BY <1>1
      <3> QED
        BY <1>1, <3>1 DEF Parented
    <2> QED
      BY <1>1, <2>1, <2>2, <2>3 DEF BreadthFirst
  <1>3. CASE n <= Len(s)
    <2> DEFINE C == ChildrenOf(s[n])
    <2>1. t = Visit(s, C)
      BY <1>1, <1>3 DEF Expanding
    <2>2. \A k : k \in TraceMembers => (k \in C <=> Facts[k].parent = SpanOf(s[n]))
      BY DEF ChildrenOf, TraceMembers, SpanOf
    <2> HIDE DEF C, t
    <2>3. /\ t \in Seq(Keys) /\ Continues(s, t)
          /\ \A j \in 1..Len(t) : j <= Len(s) \/ (t[j] \in TraceMembers /\ t[j] \in C)
          /\ Singly(t)
          /\ \A k \in TraceMembers : k \in C => Shows(t, SpanOf(k))
      BY <1>1, <2>1, VisitLaws
    <2>4. /\ Len(t) \in Nat /\ Len(s) <= Len(t) /\ \A i \in 1..Len(s) : i \in 1..Len(t) /\ t[i] = s[i]
      BY <1>1, <2>3 DEF Continues
    <2>5. Len(t) >= 1 /\ t[1] = Seeds[1]
      <3>1. 1 \in 1..Len(s) /\ Len(t) >= 1
        BY <1>1, <2>4
      <3>2. t[1] = s[1]
        BY <2>4, <3>1
      <3> QED
        BY <1>1, <3>1, <3>2
    <2>6. \A j \in 1..Len(t) : t[j] \in TraceMembers
      <3> TAKE j \in 1..Len(t)
      <3>1. j \in 1..Len(s) \/ ~(j <= Len(s))
        BY <1>1, <2>4
      <3> QED
        BY <1>1, <2>3, <2>4, <3>1
    <2>7. Expanded(t, n)
      <3> SUFFICES ASSUME NEW m \in 1..n, NEW k \in TraceMembers, Facts[k].parent = SpanOf(t[m])
                   PROVE  Shows(t, SpanOf(k))
        BY DEF Expanded
      <3>1. m \in 1..Len(s) /\ t[m] = s[m]
        BY <1>1, <1>3, <2>4
      <3>2. CASE m = n
        BY <2>2, <2>3, <3>1, <3>2
      <3>3. CASE m \in 1..(n - 1)
        <4>1. Shows(s, SpanOf(k))
          BY <1>1, <3>1, <3>3 DEF Expanded
        <4> QED
          BY <1>1, <2>3, <4>1, ContinuesLaws
      <3> QED
        BY <1>1, <3>2, <3>3
    <2>8. Parented(t, n)
      <3> SUFFICES ASSUME NEW i \in 2..Len(t)
                   PROVE  \E m \in 1..n : m < i /\ Facts[t[i]].parent = SpanOf(t[m])
        BY DEF Parented
      <3>1. CASE i \in 2..Len(s)
        <4>1. PICK m \in 1..(n - 1) : m < i /\ Facts[s[i]].parent = SpanOf(s[m])
          BY <1>1, <3>1 DEF Parented
        <4>2. m \in 1..n /\ t[m] = s[m] /\ t[i] = s[i]
          BY <1>1, <1>3, <2>4, <3>1, <4>1
        <4> QED
          BY <4>1, <4>2
      <3>2. CASE i > Len(s)
        <4>1. i \in 1..Len(t)
          BY <1>1
        <4>2. t[i] \in TraceMembers /\ t[i] \in C
          BY <1>1, <2>3, <3>2, <4>1
        <4>3. Facts[t[i]].parent = SpanOf(t[n]) /\ n < i /\ n \in 1..n
          BY <1>1, <1>3, <2>2, <2>4, <3>2, <4>2
        <4> QED
          BY <4>3
      <3> QED
        BY <1>1, <2>4, <3>1, <3>2
    <2>9. Nearest(t)
      <3> SUFFICES ASSUME NEW i \in 1..Len(t), NEW j \in 1..Len(t), i < j,
                          NEW L \in 0..N, SpanOf(t[j]) \in Levels[L]
                   PROVE  SpanOf(t[i]) \in Levels[L]
        BY DEF Nearest
      <3>1. CASE j <= Len(s)
        <4>1. i \in 1..Len(s) /\ j \in 1..Len(s)
          BY <1>1, <3>1
        <4> QED
          BY <1>1, <2>4, <4>1 DEF Nearest
      <3>2. CASE j > Len(s)
        <4>1. ~Shows(s, SpanOf(t[j]))
          <5> SUFFICES ASSUME NEW m \in 1..Len(s), SpanOf(s[m]) = SpanOf(t[j])
                       PROVE  FALSE
            BY DEF Shows
          <5>1. m = j
            BY <2>3, <2>4 DEF Singly
          <5> QED
            BY <1>1, <3>2, <5>1
        <4>2. L >= 1 /\ \A m \in 1..n : SpanOf(s[m]) \in Levels[L - 1]
          BY <1>3, <4>1, Frontier
        <4>3. L \in 1..N /\ Levels[L - 1] \subseteq Levels[L]
          <5>1. L \in 1..N
            BY <4>2
          <5> QED
            BY <5>1, LevelLaws
        <4>4. CASE i <= n
          <5>1. i \in 1..n /\ t[i] = s[i]
            BY <1>1, <1>3, <2>4, <4>4
          <5> QED
            BY <4>2, <4>3, <5>1
        <4>5. CASE i > n
          <5>1. i \in 2..Len(t)
            BY <1>1, <4>5
          <5>2. PICK m \in 1..n : Facts[t[i]].parent = SpanOf(t[m])
            BY <2>8, <5>1 DEF Parented
          <5>3. t[m] = s[m]
            BY <1>1, <1>3, <2>4
          <5>4. Facts[t[i]].parent \in Levels[L - 1]
            BY <4>2, <5>2, <5>3
          <5> QED
            BY <2>6, <4>3, <5>4, LevelLaws
        <4> QED
          BY <1>1, <4>4, <4>5
      <3> QED
        BY <1>1, <2>4, <3>1, <3>2
    <2> QED
      BY <2>3, <2>5, <2>6, <2>7, <2>8, <2>9 DEF BreadthFirst, t
  <1> QED
    BY <1>1, <1>2, <1>3

(* A sequence of members that shows each identity once is no longer than the *)
(* walk.                                                                     *)
LEMMA SinglyShort ==
    ASSUME spans \in Seq(Keys), NEW s \in Seq(Keys), Singly(s),
           \A i \in 1..Len(s) : s[i] \in TraceMembers
    PROVE  Len(s) <= Len(spans)
  <1> DEFINE W == ToSet(spans)
             f == [i \in 1..Len(s) |-> s[i]]
             g == [i \in 1..Len(spans) |-> spans[i]]
  <1>1. Len(s) \in Nat /\ Len(spans) \in Nat
    OBVIOUS
  <1>2. /\ IsFiniteSet(1..Len(s)) /\ Cardinality(1..Len(s)) = Len(s)
        /\ IsFiniteSet(1..Len(spans)) /\ Cardinality(1..Len(spans)) = Len(spans)
    <2>1. \A n \in Nat : IsFiniteSet(1..n) /\ Cardinality(1..n) = n
      BY FS_Interval
    <2> QED
      BY <1>1, <2>1
  <1>3. \A i \in 1..Len(s) : s[i] \in W
    BY DEF TraceMembers
  <1>4. g \in Surjection(1..Len(spans), W)
    <2>1. W = {spans[i] : i \in 1..Len(spans)}
      BY DEF ToSet
    <2>2. g \in [1..Len(spans) -> W] /\ \A i \in 1..Len(spans) : g[i] = spans[i]
      BY <2>1
    <2> HIDE DEF g, W
    <2>3. \A w \in W : \E i \in 1..Len(spans) : g[i] = w
      BY <2>1, <2>2
    <2> QED
      BY <2>2, <2>3 DEF Surjection
  <1> HIDE DEF W, g
  <1>5. IsFiniteSet(W) /\ Cardinality(W) <= Len(spans)
    BY <1>2, <1>4, FS_Surjection
  <1>6. f \in Injection(1..Len(s), W)
    <2>1. f \in [1..Len(s) -> W]
      BY <1>3
    <2>2. \A i, j \in 1..Len(s) : f[i] = f[j] => i = j
      BY DEF Singly
    <2> HIDE DEF f
    <2> QED
      BY <2>1, <2>2 DEF Injection, IsInjective
  <1> HIDE DEF f
  <1>7. Len(s) <= Cardinality(W) /\ Cardinality(W) \in Nat
    BY <1>2, <1>5, <1>6, FS_Injection, FS_CardinalityType
  <1> QED
    BY <1>1, <1>5, <1>7

LEMMA ReachedLaws ==
    ASSUME spans \in Seq(Keys), Seeds # <<>>
    PROVE  BreadthFirst(Reached, Len(spans)) /\ Len(Reached) <= Len(spans)
  <1> DEFINE N == Len(spans)
  <1>1. Seeds[1] \in Keys /\ Seeds[1] \in TraceMembers /\ N \in Nat
    BY SeedsLaws
  <1>2. PICK f \in [0..N -> Seq(Keys)] :
          /\ f[0] = <<Seeds[1]>> /\ Reached = f[N]
          /\ \A n \in 1..N : f[n] = Expanding(f[n - 1], n)
    BY <1>1, ReachedRuns
  <1> DEFINE P == {n \in 0..N : BreadthFirst(f[n], n)}
  <1>3. 0 \in P
    <2> DEFINE s == f[0]
    <2>1. s \in Seq(Keys) /\ Len(s) = 1 /\ s[1] = Seeds[1] /\ 1..Len(s) = {1} /\ 0 \in 0..N
      BY <1>1, <1>2
    <2>2. \A i \in 1..Len(s) : s[i] \in TraceMembers
      BY <1>1, <2>1
    <2> HIDE DEF s
    <2>3. Singly(s) /\ Nearest(s)
      BY <2>1 DEF Singly, Nearest
    <2>4. Expanded(s, 0) /\ Parented(s, 0)
      <3>1. (\A m \in 1..0 : FALSE) /\ \A i \in 2..Len(s) : FALSE
        BY <2>1
      <3> QED
        BY <3>1 DEF Expanded, Parented
    <2> QED
      BY <2>1, <2>2, <2>3, <2>4 DEF BreadthFirst, s
  <1>4. \A n \in 1..N : n - 1 \in P => n \in P
    <2> SUFFICES ASSUME NEW n \in 1..N, n - 1 \in P
                 PROVE  n \in P
      OBVIOUS
    <2>1. BreadthFirst(f[n - 1], n - 1) /\ n \in 0..N
      BY <1>1
    <2>2. BreadthFirst(Expanding(f[n - 1], n), n)
      BY <2>1, ExpandingStep
    <2> QED
      BY <1>2, <2>1, <2>2
  <1>5. N \in P
    <2> HIDE DEF P, N
    <2>1. \A n \in 0..N : n \in P
      BY <1>1, <1>3, <1>4, Climbs
    <2> QED
      BY <1>1, <2>1
  <1>6. BreadthFirst(Reached, N)
    BY <1>2, <1>5
  <1>7. Len(Reached) <= N
    BY <1>6, SinglyShort DEF BreadthFirst
  <1> QED
    BY <1>6, <1>7

(* Every identity with a chain to the root is reached.                       *)
LEMMA ReachedClosed ==
    ASSUME spans \in Seq(Keys), Seeds # <<>>
    PROVE  \A L \in 0..Len(spans) : \A id \in Levels[L] : Shows(Reached, id)
  <1> DEFINE N == Len(spans)
             P == {L \in 0..N : \A id \in Levels[L] : Shows(Reached, id)}
  <1>1. /\ Reached \in Seq(Keys) /\ Len(Reached) >= 1 /\ Len(Reached) <= N
        /\ Reached[1] = Seeds[1] /\ Expanded(Reached, N) /\ N \in Nat /\ Len(Reached) \in Nat
    BY ReachedLaws DEF BreadthFirst
  <1>2. 0 \in P
    <2>1. ASSUME NEW id \in Levels[0]
          PROVE  Shows(Reached, id)
      <3>1. id = SpanOf(Reached[1]) /\ 1 \in 1..Len(Reached)
        BY <1>1, <2>1, LevelLaws, SeedsLaws
      <3> QED
        BY <3>1 DEF Shows
    <2>2. 0 \in 0..N
      BY <1>1
    <2> QED
      BY <2>1, <2>2
  <1>3. \A L \in 1..N : L - 1 \in P => L \in P
    <2> SUFFICES ASSUME NEW L \in 1..N, L - 1 \in P
                 PROVE  L \in P
      OBVIOUS
    <2>1. L \in 0..N /\ \A id \in Levels[L - 1] : Shows(Reached, id)
      BY <1>1
    <2>2. ASSUME NEW id \in Levels[L]
          PROVE  Shows(Reached, id)
      <3>1. CASE id \in Levels[L - 1]
        BY <2>1, <3>1
      <3>2. ASSUME NEW k \in TraceMembers, Facts[k].parent \in Levels[L - 1], id = SpanOf(k)
            PROVE  Shows(Reached, id)
        <4>1. PICK m \in 1..Len(Reached) : SpanOf(Reached[m]) = Facts[k].parent
          BY <2>1, <3>2 DEF Shows
        <4>2. m \in 1..N /\ m <= Len(Reached)
          BY <1>1
        <4> QED
          BY <1>1, <3>2, <4>1, <4>2 DEF Expanded
      <3> QED
        BY <2>2, <3>1, <3>2, LevelLaws
    <2> QED
      BY <2>1, <2>2
  <1>4. \A L \in 0..N : L \in P
    <2> HIDE DEF P, N
    <2> QED
      BY <1>1, <1>2, <1>3, Climbs
  <1> QED
    BY <1>4

(* The waterfall shows every walked identity of the trace once, the nearer   *)
(* ones first.                                                               *)
LEMMA WaterfallLaws ==
    ASSUME spans \in Seq(Keys), Seeds # <<>>
    PROVE  /\ Waterfall \in Seq(Keys) /\ Len(Waterfall) >= 1
           /\ \A i \in 1..Len(Waterfall) : Waterfall[i] \in TraceMembers
           /\ Singly(Waterfall) /\ Nearest(Waterfall)
           /\ \A k \in TraceMembers : Shows(Waterfall, SpanOf(k))
  <1> DEFINE s == Reached
             t == Waterfall
  <1>1. /\ s \in Seq(Keys) /\ Len(s) >= 1 /\ Len(s) \in Nat
        /\ \A i \in 1..Len(s) : s[i] \in TraceMembers
        /\ Singly(s) /\ Nearest(s)
    BY ReachedLaws DEF BreadthFirst
  <1>2. t = Visit(s, Keys)
    BY DEF Waterfall
  <1> HIDE DEF s, t
  <1>3. /\ t \in Seq(Keys) /\ Continues(s, t)
        /\ \A j \in 1..Len(t) : j <= Len(s) \/ t[j] \in TraceMembers
        /\ Singly(t)
        /\ \A k \in TraceMembers : k \in Keys => Shows(t, SpanOf(k))
    BY <1>1, <1>2, VisitLaws
  <1>4. /\ Len(t) \in Nat /\ Len(s) <= Len(t) /\ Len(t) >= 1
        /\ \A i \in 1..Len(s) : i \in 1..Len(t) /\ t[i] = s[i]
    BY <1>1, <1>3 DEF Continues
  <1>5. \A j \in 1..Len(t) : t[j] \in TraceMembers
    <2> TAKE j \in 1..Len(t)
    <2>1. j \in 1..Len(s) \/ ~(j <= Len(s))
      BY <1>1, <1>4
    <2> QED
      BY <1>1, <1>3, <1>4, <2>1
  <1>6. \A k \in TraceMembers : k \in Keys
    BY DEF TraceMembers, ToSet
  <1>7. Nearest(t)
    <2> SUFFICES ASSUME NEW i \in 1..Len(t), NEW j \in 1..Len(t), i < j,
                        NEW L \in 0..Len(spans), SpanOf(t[j]) \in Levels[L]
                 PROVE  SpanOf(t[i]) \in Levels[L]
      BY DEF Nearest
    <2>1. PICK m \in 1..Len(s) : SpanOf(s[m]) = SpanOf(t[j])
      BY ReachedClosed DEF Shows, s
    <2>2. m = j
      BY <1>3, <1>4, <2>1 DEF Singly
    <2>3. i \in 1..Len(s) /\ j \in 1..Len(s)
      BY <1>1, <2>2
    <2> QED
      BY <1>1, <1>4, <2>3 DEF Nearest
  <1> QED
    BY <1>3, <1>4, <1>5, <1>6, <1>7 DEF t

-----------------------------------------------------------------------------
(* The investigation's invariant.                                            *)

PastSpans == {"resolve", "logs", "name_logs", "points", "name_points", "correlate",
              "correlating", "done"}
PastResolve == PastSpans \ {"resolve"}
PastLogs == {"points", "name_points", "correlate", "correlating", "done"}
PastPoints == {"correlate", "correlating", "done"}

FlowTyped ==
    /\ pc \in Pcs /\ cursor \in Nat \cup {None}
    /\ pc \in {"root", "spans", "resolve", "logs", "points"} => cursor \in Nat
    /\ walked \in Seq(Keys) /\ spans \in Seq(Keys) /\ waterfall \in Seq(Keys)
    /\ named \in SUBSET Keys
    /\ holes \in [{"logs", "points"} -> Nat] /\ runs \in [Parts -> Nat]
    /\ entities \in Nat /\ examined \in Nat

(* What was walked was resident once, and is of the walk's kind.             *)
WalkedInv ==
    /\ ToSet(walked) \subseteq kept
    /\ pc = "resolve" => walked = <<>>
    /\ pc \in {"logs", "name_logs"} => \A k \in ToSet(walked) : Facts[k].kind = "log"
    /\ pc \in {"points", "name_points"} => \A k \in ToSet(walked) : Facts[k].kind = "point"

RootInv ==
    /\ pc \in PastSpans \cup {"spans"} =>
         root \in Keys /\ Facts[root].kind = "span" /\ Facts[root].entity = requested
    /\ pc \in PastResolve => subject = Effective /\ waterfall = Waterfall

(* The ceilings, and who was walked when none was met.                       *)
ChainInv ==
    /\ TotalPages <= MaxPages /\ examined <= MaxExaminations
    /\ pc \in {"root", "spans", "resolve"} => entities = 0
    /\ pc \in PastSpans \/ halted # None => TotalPages > 0
    /\ halted = None =>
         /\ pc \in PastSpans => runs["spans"] > 0
         /\ pc \in PastLogs \cup {"name_logs"} => runs["logs"] > 0
         /\ pc \in PastPoints \cup {"name_points"} => runs["points"] > 0

NamedOf(kind) == {k \in named : Facts[k].kind = kind}

(* The names and the holes of the parts done, and of the one under way.      *)
NamedInv ==
    /\ named = NamedOf("log") \cup NamedOf("point")
    /\ pc \notin PastLogs \cup {"name_logs"} => NamedOf("log") = {}
    /\ pc \notin PastPoints \cup {"name_points"} => NamedOf("point") = {}
    /\ pc = "name_logs" => named \subseteq Selected("logs")
    /\ pc = "name_points" => NamedOf("point") \subseteq Selected("points")
    /\ pc \in PastPoints => \A k \in NamedOf("point") :
         Extent.from <= Facts[k].start /\ Facts[k].start < Extent.to
    /\ pc \notin PastLogs => holes["logs"] = 0
    /\ pc \notin PastPoints => holes["points"] = 0

CountInv ==
    /\ pc \in {"logs", "name_logs"} => entities = Len(waterfall)
    /\ pc \in {"points", "name_points"} =>
         entities = Len(waterfall) + Cardinality(NamedOf("log")) + holes["logs"]
    /\ pc \in PastPoints =>
         entities = Len(waterfall) + Cardinality(NamedOf("log")) + holes["logs"]
                      + Cardinality(NamedOf("point")) + holes["points"]

(* What is wanted and resident lies ahead of the recovery walk.              *)
HolesInv ==
    \A part \in {"logs", "points"} :
      pc = NamingPc[part] /\ examined < MaxExaminations =>
        \A k \in Wanted(part) \cap resident : cursor # None /\ k > cursor

RelationsInv ==
    pc = "done" => relations \in Seq(Relations) /\ \A r \in ToSet(relations) : InEvidence(r)

FlowCore ==
    /\ FlowTyped /\ WalkedInv /\ RootInv /\ ChainInv
    /\ NamedInv /\ CountInv /\ HolesInv /\ RelationsInv

(* What depends on the investigation's own state only.                       *)
LEMMA SameWaterfall ==
    ASSUME spans' = spans, root' = root, requested' = requested
    PROVE  /\ Effective' = Effective /\ Waterfall' = Waterfall /\ Seeds' = Seeds
           /\ Levels' = Levels /\ TraceMembers' = TraceMembers
  <1>1. Trace' = Trace
    BY DEF Trace
  <1>2. \A k : OfTrace(k)' <=> OfTrace(k)
    BY <1>1 DEF OfTrace
  <1>3. TraceMembers' = TraceMembers
    BY <1>2 DEF TraceMembers
  <1>4. Parentless' = Parentless
    BY <1>2 DEF Parentless
  <1>5. Effective' = Effective
    BY <1>1, <1>4 DEF Effective
  <1>6. Seeds' = Seeds
    BY <1>2, <1>5 DEF Seeds
  <1>7. \A ordered, S : Visit(ordered, S)' = Visit(ordered, S)
    <2>1. SUFFICES ASSUME NEW ordered, NEW S
                   PROVE  Visit(ordered, S)' = Visit(ordered, S)
      OBVIOUS
    <2> QED
      BY SMT DEF Visit, OfTrace, Trace
  <1>8. \A k : ChildrenOf(k)' = ChildrenOf(k)
    BY DEF ChildrenOf
  <1>9. Reached' = Reached
    BY <1>6, <1>7, <1>8 DEF Reached
  <1>10. Waterfall' = Waterfall
    BY <1>6, <1>7, <1>9 DEF Waterfall
  <1>11. Levels' = Levels
    BY <1>3, <1>6 DEF Levels
  <1> QED
    BY <1>3, <1>5, <1>6, <1>10, <1>11

LEMMA SameSelection ==
    ASSUME walked' = walked, waterfall' = waterfall, root' = root, NEW part
    PROVE  /\ Extent' = Extent /\ Selected(part)' = Selected(part)
           /\ named' = named => Wanted(part)' = Wanted(part)
  <1>1. Trace' = Trace
    BY DEF Trace
  <1>2. Extent' = Extent
    BY DEF Extent
  <1>3. Selected(part)' = Selected(part)
    BY <1>1, <1>2 DEF Selected
  <1> QED
    BY <1>2, <1>3 DEF Wanted

LEMMA LeastAndGreatest ==
    ASSUME NEW S \in SUBSET Int, IsFiniteSet(S), S # {}
    PROVE  /\ Min(S) \in S /\ \A x \in S : Min(S) <= x
           /\ Max(S) \in S /\ \A x \in S : x <= Max(S)
  <1> DEFINE a == Ascending(S)
             n == Cardinality(S)
  <1>1. /\ a \in Seq(S) /\ Len(a) = n /\ ToSet(a) = S
        /\ \A i, j \in 1..n : i < j => a[i] < a[j]
    BY AscendingLaws
  <1>2. n \in Nat /\ n # 0
    BY FS_CardinalityType, FS_EmptySet
  <1>3. \A i \in 1..n : a[i] \in S /\ a[i] \in Int
    BY <1>1, ElementOf
  <1>4. \A x \in S : \E i \in 1..n : a[i] = x
    BY <1>1, <1>2 DEF ToSet
  <1> HIDE DEF a, n
  <1>5. 1 \in 1..n /\ n \in 1..n
    BY <1>2
  <1>6. \A i \in 1..n : a[1] <= a[i] /\ a[i] <= a[n]
    <2>1. TAKE i \in 1..n
    <2>2. i = 1 \/ a[1] < a[i]
      BY <1>1, <1>5, <2>1
    <2>3. i = n \/ a[i] < a[n]
      BY <1>1, <1>5, <2>1
    <2> QED
      BY <2>1, <2>2, <2>3, <1>3, <1>5
  <1>7. \A x \in S : a[1] <= x /\ x <= a[n]
    BY <1>4, <1>6
  <1>8. a[1] \in S /\ a[n] \in S
    BY <1>3, <1>5
  <1>9. \E x \in S : \A y \in S : x <= y
    BY <1>7, <1>8
  <1>10. \E x \in S : \A y \in S : x >= y
    BY <1>7, <1>8
  <1>11. Min(S) \in S /\ \A y \in S : Min(S) <= y
    BY <1>9 DEF Min
  <1>12. Max(S) \in S /\ \A y \in S : Max(S) >= y
    BY <1>10 DEF Max
  <1> QED
    BY <1>11, <1>12

LEMMA ImageFinite ==
    ASSUME NEW n \in Nat, NEW f
    PROVE  IsFiniteSet({f[i] : i \in 1..n})
  <1> DEFINE T == {f[i] : i \in 1..n}
             g == [i \in 1..n |-> f[i]]
  <1>1. g \in Surjection(1..n, T)
    BY DEF Surjection
  <1>2. IsFiniteSet(1..n)
    BY FS_Interval
  <1> HIDE DEF T, g
  <1>3. IsFiniteSet(T)
    BY <1>1, <1>2, FS_Surjection
  <1> QED
    BY <1>3 DEF T

(* The span ends and starts of a waterfall bound one window.                 *)
LEMMA ExtentLaws ==
    ASSUME waterfall \in Seq(Keys), Len(waterfall) >= 1
    PROVE  Extent.from \in Nat /\ Extent.to \in Nat
  <1> DEFINE starts == {Facts[waterfall[i]].start : i \in DOMAIN waterfall}
             ends == {Facts[waterfall[i]].end : i \in DOMAIN waterfall}
  <1>1. \A i \in DOMAIN waterfall :
          waterfall[i] \in Keys /\ Facts[waterfall[i]].start \in Nat /\ Facts[waterfall[i]].end \in Nat
    BY FactsTyped
  <1>2. starts \in SUBSET Nat /\ ends \in SUBSET Nat
    BY <1>1
  <1>3. DOMAIN waterfall = 1..Len(waterfall) /\ IsFiniteSet(DOMAIN waterfall) /\ 1 \in DOMAIN waterfall
    BY FS_Interval
  <1>4. IsFiniteSet(starts) /\ IsFiniteSet(ends)
    <2> DEFINE s == [i \in 1..Len(waterfall) |-> Facts[waterfall[i]].start]
               e == [i \in 1..Len(waterfall) |-> Facts[waterfall[i]].end]
    <2>1. starts = {s[i] : i \in 1..Len(waterfall)} /\ ends = {e[i] : i \in 1..Len(waterfall)}
      BY <1>3
    <2>2. Len(waterfall) \in Nat
      OBVIOUS
    <2> HIDE DEF s, e, starts, ends
    <2> QED
      BY <2>1, <2>2, ImageFinite
  <1>5. starts # {} /\ ends # {}
    BY <1>3
  <1>6. starts \in SUBSET Int /\ ends \in SUBSET Int
    BY <1>2
  <1>7. Extent = [from |-> Min(starts), to |-> Max(ends)]
    BY DEF Extent
  <1> HIDE DEF starts, ends
  <1>8. Min(starts) \in starts /\ Max(ends) \in ends
    BY <1>4, <1>5, <1>6, LeastAndGreatest
  <1> QED
    BY <1>2, <1>7, <1>8

-----------------------------------------------------------------------------
(* The steps of the flow.                                                    *)

(* Nothing of the investigation's changes: the store moves, or the engine runs. *)
FlowStill ==
    /\ UNCHANGED flowVars
    /\ kept \subseteq kept' /\ \A k \in resident' : k \in resident \/ k \notin kept

LEMMA FlowCoreInit == Init => FlowCore
  <1> SUFFICES ASSUME Init
               PROVE  FlowCore
    OBVIOUS
  <1>1. FlowTyped
    <2>1. <<>> \in Seq(Keys)
      OBVIOUS
    <2> QED
      BY <2>1 DEF Init, FlowTyped, Pcs, Parts
  <1>2. WalkedInv
    BY DEF Init, WalkedInv, ToSet
  <1>3. RootInv
    BY DEF Init, RootInv, PastSpans, PastResolve
  <1>4. ChainInv
    BY InvestigationAssumption DEF Init, ChainInv, TotalPages, PastSpans, PastLogs, PastPoints, Parts
  <1>5. NamedInv
    BY DEF Init, NamedInv, NamedOf, PastSpans, PastLogs, PastPoints
  <1>6. CountInv
    BY DEF Init, CountInv, PastSpans, PastLogs, PastPoints
  <1>7. HolesInv
    BY DEF Init, HolesInv, NamingPc
  <1>8. RelationsInv
    BY DEF Init, RelationsInv
  <1> QED
    BY <1>1, <1>2, <1>3, <1>4, <1>5, <1>6, <1>7, <1>8 DEF FlowCore

LEMMA FlowStillCore ==
    ASSUME FlowCore, FlowStill
    PROVE  FlowCore'
  <1> USE DEF FlowStill, flowVars
  <1>1. FlowTyped'
    BY DEF FlowCore, FlowTyped
  <1>2. WalkedInv'
    BY DEF FlowCore, WalkedInv
  <1>3. Effective' = Effective /\ Waterfall' = Waterfall
    BY SameWaterfall
  <1>4. RootInv'
    BY <1>3 DEF FlowCore, RootInv
  <1>5. ChainInv'
    BY DEF FlowCore, ChainInv, TotalPages
  <1>6. \A part : Selected(part)' = Selected(part) /\ Wanted(part)' = Wanted(part) /\ Extent' = Extent
    BY SameSelection
  <1>7. \A kind : NamedOf(kind)' = NamedOf(kind)
    BY DEF NamedOf
  <1>8. NamedInv'
    <2>1. Extent' = Extent
      BY <1>6
    <2>2. Selected("logs")' = Selected("logs") /\ Selected("points")' = Selected("points")
      BY <1>6
    <2>3. NamedOf("log")' = NamedOf("log") /\ NamedOf("point")' = NamedOf("point")
      BY <1>7
    <2> QED
      BY <2>1, <2>2, <2>3 DEF FlowCore, NamedInv
  <1>9. CountInv'
    BY <1>7 DEF FlowCore, CountInv
  <1>10. HolesInv'
    <2>1. SUFFICES ASSUME NEW part \in {"logs", "points"}, pc = NamingPc[part],
                          examined < MaxExaminations, NEW k \in Wanted(part)', k \in resident'
                   PROVE  cursor # None /\ k > cursor
      BY DEF HolesInv
    <2>2. Wanted(part)' = Wanted(part)
      BY <1>6
    <2>3. k \in ToSet(walked)
      BY <2>1, <2>2 DEF Wanted, Selected
    <2>4. k \in resident
      BY <2>1, <2>3 DEF FlowCore, WalkedInv
    <2> QED
      BY <2>1, <2>2, <2>4 DEF FlowCore, HolesInv
  <1>11. RelationsInv'
    BY DEF FlowCore, RelationsInv, InEvidence, Evidence, SpanEntity
  <1> QED
    BY <1>1, <1>2, <1>4, <1>5, <1>8, <1>9, <1>10, <1>11 DEF FlowCore

LEMMA StillSteps ==
    ASSUME StoreTyped, [Next]_vars
    PROVE  \/ FlowStill \/ LookUpRoot \/ Resolve \/ StartCorrelation \/ Narrow \/ DirectRun
           \/ \E part \in Parts : WalkPage(part) \/ ChainStops(part)
           \/ \E part \in {"logs", "points"} : NameSlice(part) \/ Named(part)
  <1> USE DEF FlowStill
  <1>1. CASE StoreKeeps /\ UNCHANGED <<runVars, flowVars>>
    <2>1. \A k \in resident' : k \in resident \/ k \notin kept
      BY <1>1 DEF StoreKeeps, Above
    <2>2. kept \subseteq kept'
      BY <1>1 DEF StoreKeeps
    <2> QED
      BY <1>1, <2>1, <2>2
  <1>2. CASE StoreExpires /\ UNCHANGED <<runVars, flowVars>>
    BY <1>2 DEF StoreExpires, Above
  <1>3. CASE RunStep /\ UNCHANGED flowVars
    <2>1. resident' = resident /\ kept' = kept
      BY <1>3 DEF RunStep, Scan, ScanExhausted, Form, Check, AnswerSorted, storeVars
    <2> QED
      BY <1>3, <2>1
  <1>4. CASE UNCHANGED vars
    BY <1>4 DEF vars, storeVars
  <1> QED
    BY <1>1, <1>2, <1>3, <1>4 DEF Next

LEMMA LookUpRootFlow ==
    ASSUME StoreTyped, FlowCore, LookUpRoot
    PROVE  FlowCore'
  <1> USE DEF LookUpRoot, storeVars, runVars
  <1>1. pc' \in {"unresolved", "spans"}
    OBVIOUS
  <1>2. FlowTyped'
    BY <1>1 DEF FlowCore, FlowTyped, Pcs
  <1>3. WalkedInv'
    BY <1>1 DEF FlowCore, WalkedInv
  <1>4. RootInv'
    <2>1. ASSUME pc' = "spans"
          PROVE  root' \in Keys /\ Facts[root'].kind = "span" /\ Facts[root'].entity = requested
      <3>1. PICK k \in resident : Ref(k) = <<KindRank.span, requested>> /\ root' = k
        BY <2>1
      <3>2. k \in Keys
        BY <3>1 DEF StoreTyped
      <3>3. KindRank[Facts[k].kind] = KindRank.span /\ Facts[k].entity = requested
        BY <3>1 DEF Ref
      <3>4. Facts[k].kind \in KindSet
        BY <3>2, FactsTyped
      <3> QED
        BY <3>1, <3>2, <3>3, <3>4 DEF KindRank, KindSet
    <2> QED
      BY <1>1, <2>1 DEF RootInv, PastSpans, PastResolve
  <1>5. ChainInv'
    BY <1>1 DEF FlowCore, ChainInv, TotalPages, PastSpans, PastLogs, PastPoints
  <1>6. NamedInv'
    BY <1>1 DEF FlowCore, NamedInv, NamedOf, PastSpans, PastLogs, PastPoints
  <1>7. CountInv'
    BY <1>1 DEF CountInv, PastSpans, PastLogs, PastPoints
  <1>8. HolesInv'
    BY <1>1 DEF HolesInv, NamingPc
  <1>9. RelationsInv'
    BY <1>1 DEF RelationsInv
  <1> QED
    BY <1>2, <1>3, <1>4, <1>5, <1>6, <1>7, <1>8, <1>9 DEF FlowCore

LEMMA DirectRunFlow ==
    ASSUME FlowCore, DirectRun
    PROVE  FlowCore'
  <1> USE DEF DirectRun
  <1>1. pc' = "direct" /\ kept' = kept
    BY DEF Correlate
  <1>2. FlowTyped'
    BY <1>1 DEF FlowCore, FlowTyped, Pcs
  <1>3. WalkedInv'
    BY <1>1 DEF FlowCore, WalkedInv
  <1>4. RootInv'
    BY <1>1 DEF RootInv, PastSpans, PastResolve
  <1>5. ChainInv'
    BY <1>1 DEF FlowCore, ChainInv, TotalPages, PastSpans, PastLogs, PastPoints
  <1>6. NamedInv'
    BY <1>1 DEF FlowCore, NamedInv, NamedOf, PastSpans, PastLogs, PastPoints
  <1>7. CountInv' /\ HolesInv' /\ RelationsInv'
    BY <1>1 DEF CountInv, HolesInv, RelationsInv, NamingPc, PastSpans, PastLogs, PastPoints
  <1> QED
    BY <1>2, <1>3, <1>4, <1>5, <1>6, <1>7 DEF FlowCore

LEMMA ResolveFlow ==
    ASSUME FlowCore, Resolve
    PROVE  FlowCore'
  <1> USE DEF Resolve, storeVars, runVars
  <1>1. Waterfall \in Seq(Keys) /\ Len(Waterfall) \in Nat
    <2>1. spans \in Seq(Keys) /\ root \in Keys
      BY DEF FlowCore, FlowTyped, RootInv, PastSpans
    <2>2. CASE Seeds = <<>>
      BY <2>1, <2>2 DEF Waterfall
    <2>3. CASE Seeds # <<>>
      BY <2>1, <2>3, WaterfallLaws
    <2> QED
      BY <2>2, <2>3
  <1>2. FlowTyped'
    BY <1>1 DEF FlowCore, FlowTyped, Pcs
  <1>3. WalkedInv'
    BY DEF FlowCore, WalkedInv, ToSet
  <1>4. RootInv'
    <2>1. Effective' = Effective /\ Waterfall' = Waterfall
      BY SameWaterfall
    <2> QED
      BY <2>1 DEF FlowCore, RootInv, PastSpans, PastResolve
  <1>5. ChainInv'
    BY DEF FlowCore, ChainInv, TotalPages, PastSpans, PastLogs, PastPoints
  <1>6. NamedInv'
    BY DEF FlowCore, NamedInv, NamedOf, PastSpans, PastLogs, PastPoints
  <1>7. CountInv'
    BY <1>1 DEF FlowCore, ChainInv, CountInv, PastSpans, PastLogs, PastPoints
  <1>8. HolesInv' /\ RelationsInv'
    BY DEF HolesInv, RelationsInv, NamingPc
  <1> QED
    BY <1>2, <1>3, <1>4, <1>5, <1>6, <1>7, <1>8 DEF FlowCore

LEMMA StartCorrelationFlow ==
    ASSUME FlowCore, StartCorrelation
    PROVE  FlowCore'
  <1> USE DEF StartCorrelation
  <1>1. kept' = kept /\ pc' = "correlating"
    BY DEF Correlate
  <1>2. FlowTyped'
    BY <1>1 DEF FlowCore, FlowTyped, Pcs
  <1>3. WalkedInv'
    BY <1>1 DEF FlowCore, WalkedInv
  <1>4. RootInv'
    <2>1. Effective' = Effective /\ Waterfall' = Waterfall
      BY SameWaterfall
    <2> QED
      BY <1>1, <2>1 DEF FlowCore, RootInv, PastSpans, PastResolve
  <1>5. ChainInv'
    BY <1>1 DEF FlowCore, ChainInv, TotalPages, PastSpans, PastLogs, PastPoints
  <1>6. Extent' = Extent /\ \A kind : NamedOf(kind)' = NamedOf(kind)
    BY SameSelection DEF NamedOf
  <1>7. NamedInv'
    BY <1>1, <1>6 DEF FlowCore, NamedInv, PastSpans, PastLogs, PastPoints
  <1>8. CountInv'
    BY <1>1, <1>6 DEF FlowCore, CountInv, PastSpans, PastLogs, PastPoints
  <1>9. HolesInv' /\ RelationsInv'
    BY <1>1 DEF HolesInv, RelationsInv, NamingPc
  <1> QED
    BY <1>2, <1>3, <1>4, <1>5, <1>7, <1>8, <1>9 DEF FlowCore

LEMMA NarrowFlow ==
    ASSUME FlowCore, answer \in Seq(Relations), Narrow
    PROVE  FlowCore'
  <1> USE DEF Narrow, storeVars, runVars
  <1>2. FlowTyped'
    BY DEF FlowCore, FlowTyped, Pcs
  <1>3. WalkedInv'
    BY DEF FlowCore, WalkedInv
  <1>4. RootInv'
    <2>1. Effective' = Effective /\ Waterfall' = Waterfall
      BY SameWaterfall
    <2> QED
      BY <2>1 DEF FlowCore, RootInv, PastSpans, PastResolve
  <1>5. ChainInv'
    BY DEF FlowCore, ChainInv, TotalPages, PastSpans, PastLogs, PastPoints
  <1>6. Extent' = Extent /\ \A kind : NamedOf(kind)' = NamedOf(kind)
    BY SameSelection DEF NamedOf
  <1>7. NamedInv'
    BY <1>6 DEF FlowCore, NamedInv, PastSpans, PastLogs, PastPoints
  <1>8. CountInv'
    BY <1>6 DEF FlowCore, CountInv, PastSpans, PastLogs, PastPoints
  <1>9. HolesInv'
    BY DEF HolesInv, NamingPc
  <1>10. RelationsInv'
    <2> DEFINE E == {r \in ToSet(answer) : InEvidence(r)}
    <2>1. /\ OnlyIn(answer, E) \in Seq(Relations \cap E)
          /\ ToSet(OnlyIn(answer, E)) = ToSet(answer) \cap E
      BY OnlyInLaws
    <2>2. relations' = OnlyIn(answer, E)
      OBVIOUS
    <2>3. OnlyIn(answer, E) \in Seq(Relations)
      BY <2>1, SeqMonotone
    <2>4. \A r : InEvidence(r)' <=> InEvidence(r)
      BY DEF InEvidence, Evidence, SpanEntity
    <2>5. \A r \in ToSet(relations') : InEvidence(r)
      BY <2>1, <2>2
    <2>6. \A r \in ToSet(relations') : InEvidence(r)'
      BY <2>4, <2>5
    <2> QED
      BY <2>2, <2>3, <2>6 DEF RelationsInv
  <1> QED
    BY <1>2, <1>3, <1>4, <1>5, <1>7, <1>8, <1>9, <1>10 DEF FlowCore

(* What a page, or a stop at a ceiling, leaves alone.                        *)
WalkKeeps == UNCHANGED <<storeVars, requested, root, subject, waterfall, named, holes,
                         entities, examined, relations, shrunk>>

(* The counters a page or a stop leaves.                                     *)
WalkCounts(part) ==
    /\ runs' \in [Parts -> Nat] /\ \A p \in Parts : runs[p] <= runs'[p]
    /\ 0 < TotalPages' /\ TotalPages' <= MaxPages
    /\ halted' = None => halted = None /\ runs'[part] > 0

(* The records a walk has met.                                               *)
Met(part, records) ==
    /\ records \in Seq(Keys) /\ ToSet(records) \subseteq kept
    /\ \A k \in ToSet(records) : part # "spans" => Facts[k].kind = KindOf[part]

LEMMA WalkChain ==
    ASSUME FlowCore, NEW part \in Parts, pc = part, WalkKeeps, WalkCounts(part),
           pc' \in {part, After[part]}, pc' = part => halted' = halted
    PROVE  ChainInv'
  <1> USE DEF WalkKeeps, WalkCounts, Parts
  <1>1. examined' <= MaxExaminations /\ TotalPages' <= MaxPages /\ TotalPages' > 0
    BY DEF FlowCore, ChainInv
  <1>2. pc' \in {"root", "spans", "resolve"} => entities' = 0
    BY DEF FlowCore, ChainInv, After
  <1>3. ASSUME halted' = None
        PROVE  /\ pc' \in PastSpans => runs'["spans"] > 0
               /\ pc' \in PastLogs \cup {"name_logs"} => runs'["logs"] > 0
               /\ pc' \in PastPoints \cup {"name_points"} => runs'["points"] > 0
    <2>1. /\ halted = None /\ runs'[part] > 0
          /\ runs["spans"] <= runs'["spans"] /\ runs["logs"] <= runs'["logs"]
          /\ runs["points"] <= runs'["points"]
          /\ runs["spans"] \in Nat /\ runs["logs"] \in Nat /\ runs["points"] \in Nat
          /\ runs'["spans"] \in Nat /\ runs'["logs"] \in Nat /\ runs'["points"] \in Nat
      BY <1>3 DEF FlowCore, FlowTyped
    <2> QED
      BY <2>1 DEF FlowCore, ChainInv, After, PastSpans, PastLogs, PastPoints
  <1> QED
    BY <1>1, <1>2, <1>3 DEF ChainInv

LEMMA WalkEndsFlow ==
    ASSUME FlowCore, NEW part \in Parts, pc = part, NEW records, Met(part, records),
           WalkEnds(part, records), WalkKeeps, WalkCounts(part)
    PROVE  FlowCore'
  <1> USE DEF WalkEnds, WalkKeeps, storeVars
  <1>1. part \in {"spans", "logs", "points"} /\ pc' = After[part]
    BY DEF Parts
  <1>2. FlowTyped'
    BY <1>1 DEF FlowCore, FlowTyped, Pcs, After, Met, WalkCounts
  <1>3. WalkedInv'
    BY <1>1 DEF FlowCore, WalkedInv, After, Met, KindOf, ToSet
  <1>4. RootInv'
    <2>1. CASE part = "spans"
      BY <2>1 DEF FlowCore, RootInv, After, PastSpans, PastResolve
    <2>2. CASE part # "spans"
      <3>1. Effective' = Effective /\ Waterfall' = Waterfall
        BY <2>2, SameWaterfall
      <3> QED
        BY <1>1, <2>2, <3>1 DEF FlowCore, RootInv, After, PastSpans, PastResolve
    <2> QED
      BY <2>1, <2>2
  <1>5. ChainInv'
    BY <1>1, WalkChain DEF After
  <1>6. \A kind : NamedOf(kind)' = NamedOf(kind)
    BY DEF NamedOf
  <1>7. NamedInv'
    BY <1>1, <1>6 DEF FlowCore, NamedInv, After, PastSpans, PastLogs, PastPoints
  <1>8. CountInv'
    BY <1>1, <1>6 DEF FlowCore, CountInv, After, PastSpans, PastLogs, PastPoints
  <1>9. HolesInv'
    <2>1. walked' \in Seq(Keys) /\ cursor' = 0 /\ cursor' # None
      BY <1>2, FactsTyped DEF FlowTyped
    <2>2. \A p, k : k \in Wanted(p)' => k \in Keys
      BY <2>1 DEF Wanted, Selected, ToSet
    <2>3. \A k \in Keys : k > 0
      BY KeysNumbers
    <2> QED
      BY <2>1, <2>2, <2>3 DEF HolesInv
  <1>10. RelationsInv'
    BY <1>1 DEF RelationsInv, After
  <1> QED
    BY <1>2, <1>3, <1>4, <1>5, <1>7, <1>8, <1>9, <1>10 DEF FlowCore

LEMMA ChainStopsFlow ==
    ASSUME FlowCore, NEW part \in Parts, ChainStops(part)
    PROVE  FlowCore'
  <1>0. pc = part
    BY DEF ChainStops
  <1>1. Met(part, walked)
    <2>1. walked \in Seq(Keys) /\ ToSet(walked) \subseteq kept
      BY DEF FlowCore, FlowTyped, WalkedInv
    <2>2. /\ part = "logs" => \A k \in ToSet(walked) : Facts[k].kind = "log"
          /\ part = "points" => \A k \in ToSet(walked) : Facts[k].kind = "point"
      BY <1>0 DEF FlowCore, WalkedInv
    <2>3. part \in {"spans", "logs", "points"} /\ KindOf["logs"] = "log" /\ KindOf["points"] = "point"
      BY DEF Parts, KindOf
    <2> QED
      BY <2>1, <2>2, <2>3 DEF Met
  <1> USE DEF ChainStops
  <1>2. WalkKeeps
    BY DEF WalkKeeps
  <1>3. WalkCounts(part)
    <2>1. /\ TotalPages' = TotalPages /\ runs' = runs /\ runs \in [Parts -> Nat]
          /\ TotalPages \in Nat /\ halted' # None
      BY InvestigationAssumption
         DEF FlowCore, FlowTyped, TotalPages, Parts
    <2>2. TotalPages > 0
      BY InvestigationAssumption, <2>1 DEF FlowCore, ChainInv, Parts, PastSpans
    <2> QED
      BY <2>1, <2>2 DEF FlowCore, ChainInv, WalkCounts
  <1> QED
    BY <1>1, <1>2, <1>3, WalkEndsFlow

LEMMA WalkOnFlow ==
    ASSUME FlowCore, NEW part \in Parts, pc = part, NEW records, Met(part, records),
           walked' = records, cursor' \in Nat, UNCHANGED <<pc, spans, halted>>,
           WalkKeeps, WalkCounts(part)
    PROVE  FlowCore'
  <1> USE DEF WalkKeeps, storeVars
  <1>1. part \in {"spans", "logs", "points"} /\ pc' = part
    BY DEF Parts
  <1>2. FlowTyped'
    BY <1>1 DEF FlowCore, FlowTyped, Met, WalkCounts
  <1>3. WalkedInv'
    BY <1>1 DEF WalkedInv, Met, KindOf
  <1>4. RootInv'
    <2>1. Effective' = Effective /\ Waterfall' = Waterfall
      BY SameWaterfall
    <2> QED
      BY <1>1, <2>1 DEF FlowCore, RootInv, PastSpans, PastResolve
  <1>5. ChainInv'
    BY <1>1, WalkChain
  <1>6. \A kind : NamedOf(kind)' = NamedOf(kind)
    BY DEF NamedOf
  <1>7. NamedInv'
    BY <1>1, <1>6 DEF FlowCore, NamedInv, PastSpans, PastLogs, PastPoints
  <1>8. CountInv'
    BY <1>1, <1>6 DEF FlowCore, CountInv, PastSpans, PastLogs, PastPoints
  <1>9. HolesInv' /\ RelationsInv'
    BY <1>1 DEF HolesInv, RelationsInv, NamingPc
  <1> QED
    BY <1>2, <1>3, <1>4, <1>5, <1>7, <1>8, <1>9 DEF FlowCore

LEMMA PageMet ==
    ASSUME StoreTyped, FlowCore, NEW part \in Parts, pc = part, NEW n \in Nat
    PROVE  LET page == Page(KindOf[part], cursor, n)
           IN  /\ Met(part, walked \o page)
               /\ page \in Seq(Keys) /\ \A i \in 1..Len(page) : page[i] \in Nat
  <1> DEFINE page == Page(KindOf[part], cursor, n)
  <1>1. cursor \in Nat /\ cursor \in Int /\ walked \in Seq(Keys)
    BY DEF FlowCore, FlowTyped, Parts
  <1>2. /\ page \in Seq(Keys)
        /\ \A i \in 1..Len(page) : page[i] \in Ahead(KindOf[part], cursor)
    BY <1>1, PageLaws
  <1>3. \A k \in Ahead(KindOf[part], cursor) : k \in resident /\ Facts[k].kind = KindOf[part]
    BY <1>1, AheadFinite
  <1> HIDE DEF page
  <1>4. \A k \in ToSet(page) : k \in kept /\ Facts[k].kind = KindOf[part]
    BY <1>2, <1>3 DEF ToSet, StoreTyped
  <1>5. walked \o page \in Seq(Keys) /\ ToSet(walked \o page) = ToSet(walked) \cup ToSet(page)
    BY <1>1, <1>2, JoinedLaws
  <1>6. \A k \in ToSet(walked) : k \in kept /\ (part # "spans" => Facts[k].kind = KindOf[part])
    BY DEF FlowCore, WalkedInv, KindOf, Parts
  <1>7. \A k \in ToSet(walked \o page) : k \in kept /\ (part # "spans" => Facts[k].kind = KindOf[part])
    BY <1>4, <1>5, <1>6
  <1>8. \A i \in 1..Len(page) : page[i] \in Nat
    BY <1>2, KeysNumbers
  <1> QED
    BY <1>2, <1>5, <1>7, <1>8 DEF Met, page

LEMMA WalkPageFlow ==
    ASSUME StoreTyped, FlowCore, NEW part \in Parts, WalkPage(part)
    PROVE  FlowCore'
  <1>1. pc = part /\ WalkKeeps /\ halted' = halted /\ TotalPages < MaxPages
        /\ runs' = [runs EXCEPT ![part] = @ + 1]
    BY DEF WalkPage, WalkKeeps
  <1>2. WalkCounts(part)
    <2>1. runs \in [Parts -> Nat] /\ MaxPages \in Nat
      BY InvestigationAssumption DEF FlowCore, FlowTyped
    <2>2. \A p \in Parts : runs'[p] = IF p = part THEN runs[p] + 1 ELSE runs[p]
      BY <1>1, <2>1
    <2>3. /\ runs["spans"] \in Nat /\ runs["logs"] \in Nat /\ runs["points"] \in Nat
          /\ runs'["spans"] = (IF "spans" = part THEN runs["spans"] + 1 ELSE runs["spans"])
          /\ runs'["logs"] = (IF "logs" = part THEN runs["logs"] + 1 ELSE runs["logs"])
          /\ runs'["points"] = (IF "points" = part THEN runs["points"] + 1 ELSE runs["points"])
      BY <2>1, <2>2 DEF Parts
    <2>4. TotalPages' = TotalPages + 1 /\ TotalPages \in Nat
      <3>1. part \in {"spans", "logs", "points"}
        BY DEF Parts
      <3> QED
        BY <2>3, <3>1 DEF TotalPages
    <2>5. runs' \in [Parts -> Nat]
      BY <1>1, <2>1
    <2>6. \A p \in Parts : runs[p] <= runs'[p] /\ runs[p] \in Nat
      BY <2>1, <2>2
    <2>7. runs'[part] > 0
      BY <2>2, <2>6
    <2> QED
      BY <1>1, <2>1, <2>4, <2>5, <2>6, <2>7 DEF WalkCounts
  <1>3. PICK n \in 0..PageSize :
          LET page == Page(KindOf[part], cursor, n)
          IN  \/ WalkEnds(part, walked \o page)
              \/ \E m \in n..PageSize :
                   LET passed == Page(KindOf[part], cursor, m)
                   IN  /\ passed # <<>>
                       /\ cursor' = Last(passed) /\ walked' = walked \o page
                       /\ UNCHANGED <<pc, spans>>
    BY DEF WalkPage
  <1>4. n \in Nat /\ PageSize \in Nat
    BY InvestigationAssumption
  <1>5. Met(part, walked \o Page(KindOf[part], cursor, n))
    BY <1>1, <1>4, PageMet
  <1>6. CASE WalkEnds(part, walked \o Page(KindOf[part], cursor, n))
    BY <1>1, <1>2, <1>5, <1>6, WalkEndsFlow
  <1>7. CASE \E m \in n..PageSize :
               /\ Page(KindOf[part], cursor, m) # <<>>
               /\ cursor' = Last(Page(KindOf[part], cursor, m))
               /\ walked' = walked \o Page(KindOf[part], cursor, n)
               /\ UNCHANGED <<pc, spans>>
    <2>1. PICK m \in n..PageSize :
               /\ Page(KindOf[part], cursor, m) # <<>>
               /\ cursor' = Last(Page(KindOf[part], cursor, m))
               /\ walked' = walked \o Page(KindOf[part], cursor, n)
               /\ UNCHANGED <<pc, spans>>
      BY <1>7
    <2> DEFINE passed == Page(KindOf[part], cursor, m)
    <2>2. m \in Nat
      BY <1>4
    <2>3. passed \in Seq(Keys) /\ \A i \in 1..Len(passed) : passed[i] \in Nat
      BY <1>1, <2>2, PageMet
    <2>4. passed # <<>> /\ cursor' = Last(passed)
      BY <2>1
    <2> HIDE DEF passed
    <2>5. cursor' \in Nat
      BY <2>3, <2>4 DEF Last
    <2> QED
      BY <1>1, <1>2, <1>5, <2>1, <2>5, WalkOnFlow
  <1> QED
    BY <1>3, <1>6, <1>7

(* What one slice of the recovery walk does.                                 *)
Sliced(part, found) ==
    /\ named' = named \cup found /\ found \subseteq Wanted(part)
    /\ cursor' \in Nat \cup {None} /\ examined' \in Nat /\ examined' <= MaxExaminations
    /\ examined' < MaxExaminations =>
         \A k \in Wanted(part) \cap resident : k \in found \/ (cursor' # None /\ k > cursor')

LEMMA WantedAre ==
    ASSUME FlowCore, NEW part \in {"logs", "points"}, pc = NamingPc[part]
    PROVE  \A k \in Wanted(part) :
             /\ k \in Keys /\ k \in ToSet(walked) /\ Facts[k].kind = KindOf[part]
             /\ k \in Selected(part) /\ k \notin named
  <1>1. \A k \in ToSet(walked) : k \in Keys /\ Facts[k].kind = KindOf[part]
    BY DEF FlowCore, FlowTyped, WalkedInv, ToSet, NamingPc, KindOf
  <1> QED
    BY <1>1 DEF Wanted, Selected

LEMMA NameSliceFinds ==
    ASSUME StoreTyped, FlowCore, NEW part \in {"logs", "points"}, NameSlice(part)
    PROVE  \E found : Sliced(part, found)
  <1> DEFINE page == Page(KindOf[part], cursor, Slice)
             wanted == Wanted(part)
             enough == {i \in DOMAIN page : wanted \subseteq ToSet(SubSeq(page, 1, i))}
             n == Min(enough \cup {Len(page), MaxExaminations - examined})
             found == wanted \cap ToSet(SubSeq(page, 1, n))
  <1>1. /\ examined' = examined + n /\ named' = named \cup found
        /\ cursor' = IF Ahead(KindOf[part], cursor) = ToSet(page) THEN None ELSE Last(page)
    BY DEF NameSlice
  <1>2. pc = NamingPc[part] /\ examined < MaxExaminations /\ cursor # None
        /\ resident' = resident
    <2>1. pc = NamingPc[part] /\ ~NamingEnds(part) /\ resident' = resident
      BY DEF NameSlice, storeVars
    <2>2. examined \in Nat /\ MaxExaminations \in Nat
      BY InvestigationAssumption DEF FlowCore, FlowTyped
    <2> QED
      BY <2>1, <2>2 DEF NamingEnds
  <1>3. /\ cursor \in Nat /\ cursor \in Int /\ examined \in Nat /\ MaxExaminations \in Nat
        /\ Slice \in Nat /\ Slice > 0
    BY <1>2, InvestigationAssumption DEF FlowCore, FlowTyped
  <1>4. /\ page \in Seq(Keys) /\ Len(page) \in Nat
        /\ \A i \in 1..Len(page) : page[i] \in Ahead(KindOf[part], cursor)
        /\ \A k \in Ahead(KindOf[part], cursor) :
             k \in ToSet(page) \/ (Len(page) = Slice /\ \A i \in 1..Len(page) : page[i] < k)
    BY <1>3, PageLaws
  <1> HIDE DEF page, wanted
  <1>5. enough \subseteq 1..Len(page)
    BY <1>4
  <1>6. /\ n \in enough \cup {Len(page), MaxExaminations - examined}
        /\ n <= Len(page) /\ n <= MaxExaminations - examined
    <2> DEFINE S == enough \cup {Len(page), MaxExaminations - examined}
    <2>1. S \in SUBSET Int
      BY <1>3, <1>4, <1>5
    <2>2. IsFiniteSet(S)
      <3>1. IsFiniteSet(1..Len(page))
        BY <1>4, FS_Interval
      <3>2. IsFiniteSet(enough)
        BY <1>5, <3>1, FS_Subset
      <3>3. IsFiniteSet({Len(page), MaxExaminations - examined})
        <4>1. IsFiniteSet({Len(page)}) /\ IsFiniteSet({MaxExaminations - examined})
          BY FS_Singleton
        <4>2. {Len(page), MaxExaminations - examined} = {Len(page)} \cup {MaxExaminations - examined}
          OBVIOUS
        <4>3. IsFiniteSet({Len(page)} \cup {MaxExaminations - examined})
          BY <4>1, FS_Union
        <4> QED
          BY <4>2, <4>3
      <3> HIDE DEF enough
      <3> QED
        BY <3>2, <3>3, FS_Union
    <2>3. S # {} /\ Len(page) \in S /\ MaxExaminations - examined \in S
      OBVIOUS
    <2>4. n = Min(S)
      OBVIOUS
    <2> HIDE DEF S
    <2>5. Min(S) \in S /\ \A x \in S : Min(S) <= x
      BY <2>1, <2>2, <2>3, LeastAndGreatest
    <2> QED
      BY <2>3, <2>4, <2>5 DEF S
  <1> HIDE DEF n
  <1>7. n \in Nat
    BY <1>2, <1>3, <1>4, <1>5, <1>6
  <1>8. examined' \in Nat /\ examined' <= MaxExaminations
    BY <1>1, <1>3, <1>6, <1>7
  <1>9. ASSUME Ahead(KindOf[part], cursor) # ToSet(page)
        PROVE  Len(page) \in 1..Len(page) /\ Last(page) = page[Len(page)] /\ page[Len(page)] \in Nat
    <2>1. \A k \in ToSet(page) : k \in Ahead(KindOf[part], cursor)
      BY <1>4 DEF ToSet
    <2>2. PICK k \in Ahead(KindOf[part], cursor) : k \notin ToSet(page)
      BY <1>9, <2>1
    <2>3. Len(page) = Slice
      BY <1>4, <2>2
    <2>4. Len(page) \in 1..Len(page)
      BY <1>3, <2>3
    <2>5. page[Len(page)] \in Keys
      BY <1>4, <2>4
    <2> QED
      BY <2>4, <2>5, KeysNumbers DEF Last
  <1>10. cursor' \in Nat \cup {None}
    BY <1>1, <1>9
  <1>11. ASSUME examined' < MaxExaminations, NEW k \in wanted, k \in resident, k \notin found
         PROVE  cursor' # None /\ k > cursor'
    <2>1. k \in Keys /\ Facts[k].kind = KindOf[part]
      BY <1>2, <1>11, WantedAre DEF wanted
    <2>2. k > cursor
      BY <1>2, <1>3, <1>11 DEF FlowCore, HolesInv, wanted
    <2>3. k \in Ahead(KindOf[part], cursor)
      BY <1>11, <2>1, <2>2 DEF Ahead, Above
    <2>4. n # MaxExaminations - examined
      BY <1>1, <1>3, <1>7, <1>8, <1>11
    <2>5. k \notin ToSet(SubSeq(page, 1, n))
      BY <1>11 DEF found
    <2>6. n \notin enough
      BY <1>11, <2>5
    <2>7. n = Len(page)
      BY <1>6, <2>4, <2>6
    <2>8. SubSeq(page, 1, n) = page
      BY <1>4, <2>7
    <2>9. k \notin ToSet(page)
      BY <2>5, <2>8
    <2>10. Len(page) \in 1..Len(page) /\ cursor' = page[Len(page)] /\ page[Len(page)] \in Nat
      BY <1>1, <1>9, <2>3, <2>9
    <2>11. page[Len(page)] < k
      BY <1>4, <2>3, <2>9, <2>10
    <2>12. None \notin Nat /\ k \in Nat
      BY <2>1, FactsTyped, KeysNumbers
    <2> QED
      BY <2>10, <2>11, <2>12
  <1> HIDE DEF found
  <1>12. found \subseteq Wanted(part)
    BY DEF found, wanted
  <1>13. Sliced(part, found)
    BY <1>1, <1>8, <1>10, <1>11, <1>12 DEF Sliced, wanted
  <1> QED
    BY <1>13

LEMMA NameSliceFlow ==
    ASSUME StoreTyped, FlowCore, NEW part \in {"logs", "points"}, NameSlice(part)
    PROVE  FlowCore'
  <1>1. PICK found : Sliced(part, found)
    BY NameSliceFinds
  <1>2. /\ pc = NamingPc[part]
        /\ UNCHANGED <<storeVars, pc, requested, root, walked, spans, subject, waterfall,
                       holes, runs, entities, halted, relations>>
    BY DEF NameSlice
  <1> USE <1>2 DEF storeVars
  <1>3. pc \in {"name_logs", "name_points"}
    BY DEF NamingPc
  <1>4. \A k \in found : k \in Keys /\ Facts[k].kind = KindOf[part] /\ k \in Selected(part)
    BY <1>1, WantedAre DEF Sliced
  <1>5. FlowTyped'
    BY <1>1, <1>3, <1>4 DEF FlowCore, FlowTyped, Sliced
  <1>6. WalkedInv'
    BY DEF FlowCore, WalkedInv
  <1>7. RootInv'
    <2>1. Effective' = Effective /\ Waterfall' = Waterfall
      BY SameWaterfall
    <2> QED
      BY <2>1 DEF FlowCore, RootInv
  <1>8. ChainInv'
    BY <1>1, <1>3 DEF FlowCore, ChainInv, TotalPages, Sliced, PastSpans, PastLogs, PastPoints
  <1>9. /\ part = "logs" => pc = "name_logs" /\ NamedOf("point")' = NamedOf("point")
        /\ part = "points" => pc = "name_points" /\ NamedOf("log")' = NamedOf("log")
    BY <1>1, <1>4 DEF NamedOf, Sliced, KindOf, NamingPc
  <1>10. Selected("logs")' = Selected("logs") /\ Selected("points")' = Selected("points")
    BY SameSelection
  <1>11. NamedInv'
    <2>1. named' = NamedOf("log")' \cup NamedOf("point")'
      BY <1>1, <1>4 DEF FlowCore, NamedInv, NamedOf, Sliced, KindOf
    <2>2. pc = "name_logs" => named' \subseteq Selected("logs")
      BY <1>1, <1>3, <1>4, <1>9 DEF FlowCore, NamedInv, Sliced
    <2>3. pc = "name_points" => NamedOf("point")' \subseteq Selected("points")
      <3>1. pc = "name_points" => part = "points"
        BY <1>9
      <3>2. NamedOf("point")' \subseteq NamedOf("point") \cup found
        BY <1>1 DEF NamedOf, Sliced
      <3> QED
        BY <1>4, <3>1, <3>2 DEF FlowCore, NamedInv
    <2> QED
      BY <1>3, <1>9, <1>10, <2>1, <2>2, <2>3 DEF FlowCore, NamedInv, PastSpans, PastLogs, PastPoints
  <1>12. CountInv'
    BY <1>3, <1>9 DEF FlowCore, CountInv, PastSpans, PastLogs, PastPoints
  <1>13. HolesInv'
    <2>1. SUFFICES ASSUME NEW p \in {"logs", "points"}, pc = NamingPc[p],
                          examined' < MaxExaminations, NEW k \in Wanted(p)', k \in resident
                   PROVE  cursor' # None /\ k > cursor'
      BY DEF HolesInv
    <2>2. p = part
      BY <2>1 DEF NamingPc
    <2>3. Selected(part)' = Selected(part)
      BY SameSelection
    <2>4. k \in Selected(part) /\ k \notin named'
      BY <2>1, <2>2, <2>3 DEF Wanted
    <2>5. k \in Wanted(part) /\ k \notin found
      BY <1>1, <2>4 DEF Wanted, Sliced
    <2> QED
      BY <1>1, <2>1, <2>5 DEF Sliced
  <1>14. RelationsInv'
    BY <1>3 DEF RelationsInv
  <1> QED
    BY <1>5, <1>6, <1>7, <1>8, <1>11, <1>12, <1>13, <1>14 DEF FlowCore

LEMMA KeysFinite == IsFiniteSet(Keys)
  BY CorrelationAssumption, FS_Interval DEF Keys

(* What was selected was named or is a hole.                                 *)
LEMMA SelectedCounts ==
    ASSUME FlowCore, NEW part \in {"logs", "points"}, pc = NamingPc[part]
    PROVE  /\ Cardinality(Selected(part)) \in Nat /\ Cardinality(Wanted(part)) \in Nat
           /\ Cardinality(NamedOf(KindOf[part])) \in Nat
           /\ Cardinality(Selected(part)) = Cardinality(NamedOf(KindOf[part])) + Cardinality(Wanted(part))
  <1>1. \A k \in Selected(part) : k \in Keys /\ Facts[k].kind = KindOf[part]
    BY DEF FlowCore, FlowTyped, WalkedInv, ToSet, NamingPc, KindOf, Selected
  <1>2. IsFiniteSet(Selected(part))
    BY <1>1, KeysFinite, FS_Subset
  <1>3. NamedOf(KindOf[part]) \subseteq Selected(part)
    BY DEF FlowCore, NamedInv, NamingPc, KindOf, NamedOf
  <1>4. Selected(part) \cap named = NamedOf(KindOf[part])
    BY <1>1, <1>3 DEF NamedOf
  <1>5. /\ IsFiniteSet(Wanted(part))
        /\ Cardinality(Wanted(part)) = Cardinality(Selected(part)) - Cardinality(NamedOf(KindOf[part]))
    BY <1>2, <1>4, FS_Difference DEF Wanted
  <1>6. IsFiniteSet(NamedOf(KindOf[part]))
    BY <1>2, <1>3, FS_Subset
  <1>7. /\ Cardinality(Selected(part)) \in Nat /\ Cardinality(Wanted(part)) \in Nat
        /\ Cardinality(NamedOf(KindOf[part])) \in Nat
    BY <1>2, <1>5, <1>6, FS_CardinalityType
  <1> QED
    BY <1>5, <1>7

LEMMA NamedFlow ==
    ASSUME StoreTyped, FlowCore, NEW part \in {"logs", "points"}, Named(part)
    PROVE  FlowCore'
  <1>1. /\ pc = NamingPc[part] /\ pc' = IF part = "logs" THEN "points" ELSE "correlate"
        /\ holes' = [holes EXCEPT ![part] = Cardinality(Wanted(part))]
        /\ entities' = entities + Cardinality(Selected(part))
        /\ cursor' = 0 /\ walked' = <<>>
        /\ UNCHANGED <<storeVars, requested, root, spans, subject, waterfall, named,
                       runs, examined, halted, relations>>
    BY DEF Named
  <1> USE <1>1 DEF storeVars
  <1>2. \/ part = "logs" /\ pc = "name_logs" /\ pc' = "points" /\ KindOf[part] = "log"
        \/ part = "points" /\ pc = "name_points" /\ pc' = "correlate" /\ KindOf[part] = "point"
    BY DEF NamingPc, KindOf
  <1>3. /\ Cardinality(Selected(part)) \in Nat /\ Cardinality(Wanted(part)) \in Nat
        /\ Cardinality(NamedOf(KindOf[part])) \in Nat
        /\ Cardinality(Selected(part)) = Cardinality(NamedOf(KindOf[part])) + Cardinality(Wanted(part))
    BY SelectedCounts
  <1>4. /\ holes \in [{"logs", "points"} -> Nat] /\ holes' \in [{"logs", "points"} -> Nat]
        /\ holes'[part] = Cardinality(Wanted(part))
        /\ part = "logs" => holes'["points"] = holes["points"]
        /\ part = "points" => holes'["logs"] = holes["logs"]
    <2>1. holes \in [{"logs", "points"} -> Nat]
      BY DEF FlowCore, FlowTyped
    <2> QED
      BY <1>3, <2>1
  <1>5. FlowTyped'
    BY <1>2, <1>3, <1>4 DEF FlowCore, FlowTyped, Pcs
  <1>6. WalkedInv'
    BY DEF FlowCore, WalkedInv, ToSet
  <1>7. RootInv'
    <2>1. Effective' = Effective /\ Waterfall' = Waterfall
      BY SameWaterfall
    <2> QED
      BY <1>2, <2>1 DEF FlowCore, RootInv, PastSpans, PastResolve
  <1>8. ChainInv'
    BY <1>2 DEF FlowCore, ChainInv, TotalPages, PastSpans, PastLogs, PastPoints
  <1>9. NamedOf("log")' = NamedOf("log") /\ NamedOf("point")' = NamedOf("point")
    BY DEF NamedOf
  <1>10. Extent' = Extent
    BY DEF Extent
  <1>11. NamedInv'
    <2>1. ASSUME part = "points", NEW k \in NamedOf("point")
          PROVE  Extent.from <= Facts[k].start /\ Facts[k].start < Extent.to
      <3>1. k \in Selected("points")
        BY <1>2, <2>1 DEF FlowCore, NamedInv
      <3> QED
        BY <3>1 DEF Selected
    <2> QED
      BY <1>2, <1>4, <1>9, <1>10, <2>1 DEF FlowCore, NamedInv, PastSpans, PastLogs, PastPoints
  <1>12. CountInv'
    <2>1. entities \in Nat /\ Len(waterfall) \in Nat
      BY DEF FlowCore, FlowTyped
    <2>2. CASE part = "logs"
      <3>1. entities = Len(waterfall) /\ pc' = "points"
        BY <1>2, <2>2 DEF FlowCore, CountInv
      <3>2. entities' = Len(waterfall) + Cardinality(NamedOf("log")) + holes'["logs"]
        BY <1>2, <1>3, <1>4, <2>1, <2>2, <3>1
      <3> QED
        BY <1>9, <3>1, <3>2 DEF CountInv, PastSpans, PastLogs, PastPoints
    <2>3. CASE part = "points"
      <3>1. entities = Len(waterfall) + Cardinality(NamedOf("log")) + holes["logs"] /\ pc' = "correlate"
        BY <1>2, <2>3 DEF FlowCore, CountInv
      <3>2. entities' = Len(waterfall) + Cardinality(NamedOf("log")) + holes'["logs"]
                          + Cardinality(NamedOf("point")) + holes'["points"]
        <4>1. entities' = entities + (Cardinality(NamedOf("point")) + holes'["points"])
          BY <1>2, <1>3, <1>4, <2>3
        <4>2. Cardinality(NamedOf("point")) \in Nat /\ holes'["points"] \in Nat /\ holes'["logs"] = holes["logs"]
          BY <1>2, <1>3, <1>4, <2>3
        <4> HIDE <1>1
        <4> QED
          BY <2>1, <3>1, <4>1, <4>2
      <3> QED
        BY <1>9, <3>1, <3>2 DEF CountInv, PastSpans, PastLogs, PastPoints
    <2> QED
      BY <2>2, <2>3
  <1>13. HolesInv' /\ RelationsInv'
    BY <1>2 DEF HolesInv, RelationsInv, NamingPc
  <1> QED
    BY <1>5, <1>6, <1>7, <1>8, <1>11, <1>12, <1>13 DEF FlowCore

LEMMA FlowCoreStep ==
    ASSUME EngineCore, FlowCore, [Next]_vars
    PROVE  FlowCore'
  <1>1. StoreTyped /\ answer \in Seq(Relations)
    BY DEF EngineCore, RunTyped
  <1>2. CASE FlowStill
    BY <1>2, FlowStillCore
  <1>3. CASE LookUpRoot \/ Resolve \/ StartCorrelation \/ Narrow \/ DirectRun
    BY <1>1, <1>3, LookUpRootFlow, ResolveFlow, StartCorrelationFlow, NarrowFlow, DirectRunFlow
  <1>4. CASE \E part \in Parts : WalkPage(part) \/ ChainStops(part)
    BY <1>1, <1>4, WalkPageFlow, ChainStopsFlow
  <1>5. CASE \E part \in {"logs", "points"} : NameSlice(part) \/ Named(part)
    BY <1>1, <1>5, NameSliceFlow, NamedFlow
  <1> QED
    BY <1>1, <1>2, <1>3, <1>4, <1>5, StillSteps

LEMMA FlowHolds == Spec => [](StoreTyped /\ FlowCore)
  <1>1. Init => EngineCore /\ RootFound /\ FlowCore
    BY EngineCoreInit, RootFoundInit, FlowCoreInit
  <1>2. EngineCore /\ RootFound /\ FlowCore /\ [Next]_vars => (EngineCore /\ RootFound /\ FlowCore)'
    <2>1. SUFFICES ASSUME EngineCore, RootFound, FlowCore, [Next]_vars
                   PROVE  EngineCore' /\ RootFound' /\ FlowCore'
      OBVIOUS
    <2>2. resident \subseteq Keys
      BY <2>1 DEF EngineCore, StoreTyped
    <2>3. RootFound'
      BY <2>1, <2>2, RootFoundStep
    <2>4. EngineCore'
      BY <2>1, EngineSteps, EngineCoreStep
    <2>5. FlowCore'
      BY <2>1, FlowCoreStep
    <2> QED
      BY <2>3, <2>4, <2>5
  <1>3. EngineCore /\ RootFound /\ FlowCore => StoreTyped /\ FlowCore
    BY DEF EngineCore
  <1> QED
    BY <1>1, <1>2, <1>3, PTL DEF Spec

LEMMA WholeFromCore ==
    ASSUME FlowCore
    PROVE  EvidenceWhole
  <1>1. WaterfallWhole
    <2>1. SUFFICES ASSUME Resolved, Seeds # <<>>
                   PROVE  /\ \A k \in TraceMembers :
                               \E i \in DOMAIN waterfall : Facts[waterfall[i]].span = Facts[k].span
                          /\ ToSet(waterfall) \subseteq TraceMembers
                          /\ \A i, j \in DOMAIN waterfall : i < j =>
                               /\ Facts[waterfall[i]].span # Facts[waterfall[j]].span
                               /\ \A n \in DOMAIN Levels :
                                    Facts[waterfall[j]].span \in Levels[n] =>
                                      Facts[waterfall[i]].span \in Levels[n]
      BY DEF WaterfallWhole
    <2>2. spans \in Seq(Keys) /\ waterfall = Waterfall
      BY <2>1 DEF Resolved, FlowCore, FlowTyped, RootInv, PastSpans, PastResolve
    <2>3. /\ waterfall \in Seq(Keys)
          /\ \A i \in 1..Len(waterfall) : waterfall[i] \in TraceMembers
          /\ Singly(waterfall) /\ Nearest(waterfall)
          /\ \A k \in TraceMembers : Shows(waterfall, SpanOf(k))
      BY <2>1, <2>2, WaterfallLaws
    <2>4. DOMAIN Levels = 0..Len(spans)
      BY <2>2, LevelLaws
    <2>5. DOMAIN waterfall = 1..Len(waterfall)
      BY <2>3
    <2>6. \A k \in TraceMembers :
            \E i \in DOMAIN waterfall : Facts[waterfall[i]].span = Facts[k].span
      BY <2>3, <2>5 DEF Shows, SpanOf
    <2>7. ToSet(waterfall) \subseteq TraceMembers
      BY <2>3, <2>5 DEF ToSet
    <2>8. \A i, j \in DOMAIN waterfall : i < j =>
            /\ Facts[waterfall[i]].span # Facts[waterfall[j]].span
            /\ \A n \in DOMAIN Levels :
                 Facts[waterfall[j]].span \in Levels[n] => Facts[waterfall[i]].span \in Levels[n]
      BY <2>3, <2>4, <2>5 DEF Singly, Nearest, SpanOf
    <2> QED
      BY <2>6, <2>7, <2>8
  <1>2. HolesAreReal
    <2>1. SUFFICES ASSUME NEW part \in {"logs", "points"}, pc = NamingPc[part], NamingEnds(part),
                          examined < MaxExaminations, NEW k \in Wanted(part) \cap resident
                   PROVE  FALSE
      BY DEF HolesAreReal
    <2>2. cursor # None
      BY <2>1 DEF FlowCore, HolesInv
    <2>3. examined \in Nat /\ MaxExaminations \in Nat
      BY InvestigationAssumption DEF FlowCore, FlowTyped
    <2> QED
      BY <2>1, <2>2, <2>3 DEF NamingEnds
  <1> QED
    BY <1>1, <1>2 DEF EvidenceWhole

(* Once the effective root was walked the waterfall shows every walked       *)
(* identity of the trace exactly once, nearer ones first, over broken links, *)
(* parent cycles and identities walked twice; and the recovery walk leaves a *)
(* selected record unnamed only because it left the store or because the     *)
(* examinations ran out (flow.rs: waterfall, name_log_identities).           *)
THEOREM EvidenceHolds == Spec => []EvidenceWhole
  <1>1. StoreTyped /\ FlowCore => EvidenceWhole
    BY WholeFromCore
  <1> QED
    BY <1>1, FlowHolds, PTL

-----------------------------------------------------------------------------
(* The envelope.                                                             *)

LEMMA WaterfallKeys ==
    ASSUME FlowCore, pc \in PastResolve
    PROVE  /\ waterfall \in Seq(Keys) /\ Len(waterfall) >= 1 /\ Len(waterfall) \in Nat
           /\ Seeds = <<>> => Len(waterfall) = 1
           /\ Seeds # <<>> =>
                Singly(waterfall) /\ \A i \in 1..Len(waterfall) : waterfall[i] \in TraceMembers
  <1>1. /\ waterfall = Waterfall /\ waterfall \in Seq(Keys) /\ spans \in Seq(Keys)
        /\ root \in Keys
    BY DEF FlowCore, FlowTyped, RootInv, PastResolve
  <1>2. CASE Seeds = <<>>
    <2>1. waterfall = <<root>>
      BY <1>1, <1>2 DEF Waterfall
    <2> QED
      BY <1>1, <1>2, <2>1
  <1>3. CASE Seeds # <<>>
    BY <1>1, <1>3, WaterfallLaws
  <1> QED
    BY <1>2, <1>3

LEMMA SubjectsFromCore ==
    ASSUME FlowCore, pc = "done"
    PROVE  SubjectsAreStatedSeparately
  <1>1. subject = Effective /\ Facts[root].entity = requested
    BY DEF FlowCore, RootInv, PastResolve, PastSpans
  <1>2. CASE Trace = None
    BY <1>1, <1>2 DEF Effective, SubjectsAreStatedSeparately
  <1>3. CASE Trace # None /\ Parentless = <<>>
    BY <1>1, <1>3 DEF Effective, SubjectsAreStatedSeparately
  <1>4. CASE Trace # None /\ Parentless # <<>>
    <2>1. subject = [entity |-> Facts[Parentless[1]].entity,
                     note |-> IF Parentless[1] = root THEN "is_root" ELSE "rooted_at"]
      BY <1>1, <1>4 DEF Effective
    <2>2. CASE Parentless[1] = root
      BY <1>1, <2>1, <2>2 DEF SubjectsAreStatedSeparately
    <2>3. CASE Parentless[1] # root
      BY <2>1, <2>3 DEF SubjectsAreStatedSeparately
    <2> QED
      BY <2>2, <2>3
  <1> QED
    BY <1>2, <1>3, <1>4

(* The named logs and points go by their own entities.                       *)
LEMMA NamedEntities ==
    ASSUME FlowCore
    PROVE  LET N == {Ref(k) : k \in named}
           IN  /\ IsFiniteSet(named) /\ Cardinality(named) \in Nat
               /\ IsFiniteSet(N) /\ Cardinality(N) = Cardinality(named)
               /\ \A ref \in N : ref[1] # 0
  <1> DEFINE N == {Ref(k) : k \in named}
             f == [k \in named |-> Ref(k)]
  <1>1. named \subseteq Keys /\ \A k \in named : Facts[k].kind \in {"log", "point"}
    BY DEF FlowCore, FlowTyped, NamedInv, NamedOf
  <1>2. IsFiniteSet(named)
    BY <1>1, KeysFinite, FS_Subset
  <1>3. \A j, k \in named : Ref(j) = Ref(k) => j = k
    <2>1. TAKE j, k \in named
    <2>2. HAVE Ref(j) = Ref(k)
    <2>3. j \in Keys /\ k \in Keys /\ Facts[j].kind # "span"
      BY <1>1, <2>1
    <2>4. j = k \/ SameIdentity(j, k)
      BY <2>2, <2>3, SameRef
    <2> QED
      BY <2>3, <2>4 DEF SameIdentity, Natural
  <1>4. f \in Surjection(named, N)
    BY DEF Surjection
  <1>5. f \in Injection(named, N)
    <2>1. f \in [named -> N]
      OBVIOUS
    <2> QED
      BY <1>3, <2>1 DEF Injection, IsInjective
  <1>6. \A ref \in N : ref[1] # 0
    BY <1>1 DEF Ref, KindRank
  <1> HIDE DEF N, f
  <1>7. IsFiniteSet(N) /\ Cardinality(N) = Cardinality(named)
    BY <1>2, <1>4, <1>5, FS_Surjection
  <1>8. Cardinality(named) \in Nat
    BY <1>2, FS_CardinalityType
  <1> QED
    BY <1>2, <1>6, <1>7, <1>8 DEF N

(* The waterfall's spans go by different entities: a member's is its         *)
(* identity, and a waterfall of other spans is the root alone.               *)
LEMMA WaterfallEntities ==
    ASSUME FlowCore, pc \in PastResolve
    PROVE  LET W == {<<KindRank.span, SpanEntity(waterfall[i])>> : i \in DOMAIN waterfall}
           IN  /\ IsFiniteSet(W) /\ Cardinality(W) = Len(waterfall)
               /\ \A ref \in W : ref[1] = 0
  <1> DEFINE W == {<<KindRank.span, SpanEntity(waterfall[i])>> : i \in DOMAIN waterfall}
             f == [i \in 1..Len(waterfall) |-> <<KindRank.span, SpanEntity(waterfall[i])>>]
  <1>1. /\ waterfall \in Seq(Keys) /\ Len(waterfall) >= 1 /\ Len(waterfall) \in Nat
        /\ Seeds = <<>> => Len(waterfall) = 1
        /\ Seeds # <<>> =>
             Singly(waterfall) /\ \A i \in 1..Len(waterfall) : waterfall[i] \in TraceMembers
    BY WaterfallKeys
  <1>2. DOMAIN waterfall = 1..Len(waterfall)
    BY <1>1
  <1>3. \A i, j \in 1..Len(waterfall) : f[i] = f[j] => i = j
    <2>1. SUFFICES ASSUME NEW i \in 1..Len(waterfall), NEW j \in 1..Len(waterfall), f[i] = f[j]
                   PROVE  i = j
      OBVIOUS
    <2>2. \A n, m \in 1..Len(waterfall) :
            SpanOf(waterfall[n]) = SpanOf(waterfall[m]) /\ Singly(waterfall) => n = m
      BY DEF Singly
    <2>3. CASE Seeds = <<>>
      <3>1. Len(waterfall) = 1
        BY <1>1, <2>3
      <3> QED
        BY <3>1
    <2>4. CASE Seeds # <<>>
      <3>1. /\ waterfall[i] \in Keys /\ waterfall[j] \in Keys
            /\ Natural(waterfall[i]) /\ Natural(waterfall[j])
        BY <1>1, <2>1, <2>4 DEF TraceMembers, OfTrace
      <3>2. SpanEntity(waterfall[i]) = SpanEntity(waterfall[j])
        BY <2>1
      <3>3. Facts[waterfall[i]].entity = Facts[waterfall[j]].entity
        BY <3>1, <3>2 DEF SpanEntity
      <3>4. Facts[waterfall[i]].kind = Facts[waterfall[j]].kind
        BY <3>1 DEF Natural
      <3>5. waterfall[i] = waterfall[j] \/ SameIdentity(waterfall[i], waterfall[j])
        BY <3>1, <3>3, <3>4, IdentityAssumption
      <3>6. SpanOf(waterfall[i]) = SpanOf(waterfall[j])
        BY <3>5 DEF SameIdentity, SpanOf
      <3>7. Singly(waterfall)
        BY <1>1, <2>4
      <3> QED
        BY <2>2, <3>6, <3>7
    <2> QED
      BY <2>3, <2>4
  <1>4. f \in Surjection(1..Len(waterfall), W)
    BY <1>2 DEF Surjection
  <1>5. f \in Injection(1..Len(waterfall), W)
    <2>1. f \in [1..Len(waterfall) -> W]
      BY <1>2
    <2> HIDE DEF f, W
    <2> QED
      BY <1>3, <2>1 DEF Injection, IsInjective
  <1>6. \A ref \in W : ref[1] = 0
    BY DEF KindRank
  <1>7. IsFiniteSet(1..Len(waterfall)) /\ Cardinality(1..Len(waterfall)) = Len(waterfall)
    <2>1. \A n \in Nat : IsFiniteSet(1..n) /\ Cardinality(1..n) = n
      BY FS_Interval
    <2> QED
      BY <1>1, <2>1
  <1> HIDE DEF W, f
  <1>8. IsFiniteSet(W) /\ Cardinality(W) = Len(waterfall)
    BY <1>4, <1>5, <1>7, FS_Surjection
  <1> QED
    BY <1>6, <1>8 DEF W

LEMMA ViewsFromCore ==
    ASSUME FlowCore, pc \in PastResolve
    PROVE  ViewsCarryEntityIds
  <1> DEFINE W == {<<KindRank.span, SpanEntity(waterfall[i])>> : i \in DOMAIN waterfall}
             N == {Ref(k) : k \in named}
  <1>1. IsFiniteSet(W) /\ Cardinality(W) = Len(waterfall) /\ \A ref \in W : ref[1] = 0
    BY WaterfallEntities
  <1>2. IsFiniteSet(N) /\ Cardinality(N) = Cardinality(named) /\ \A ref \in N : ref[1] # 0
    BY NamedEntities
  <1>3. Evidence = W \cup N
    BY DEF Evidence
  <1> HIDE DEF W, N
  <1>4. W \cap N = {}
    BY <1>1, <1>2
  <1>5. Cardinality(W \cup N) = Cardinality(W) + Cardinality(N) - Cardinality(W \cap N)
    BY <1>1, <1>2, FS_Union
  <1>6. Cardinality(W \cap N) = 0
    BY <1>4, FS_EmptySet
  <1>7. Len(waterfall) \in Nat /\ Cardinality(named) \in Nat
    BY WaterfallKeys, NamedEntities
  <1> QED
    BY <1>1, <1>2, <1>3, <1>5, <1>6, <1>7 DEF ViewsCarryEntityIds

(* The holes the coverage states add up to the holes there are.              *)
LEMMA HolesStated ==
    ASSUME FlowCore
    PROVE  SumFunction([e \in Stated("residency_hole") |-> e.count]) = holes["logs"] + holes["points"]
  <1> DEFINE hole(part) == [kind |-> "residency_hole", part |-> part, count |-> holes[part]]
             E == Stated("residency_hole")
             g == [e \in E |-> e.count]
  <1>1. holes["logs"] \in Nat /\ holes["points"] \in Nat
    BY DEF FlowCore, FlowTyped
  <1>2. \A e : e \in E <=> \E part \in {"logs", "points"} : holes[part] > 0 /\ e = hole(part)
    BY DEF Stated, FlowCoverage
  <1>3. SumFunction(g) = SumFunctionOnSet(g, E)
    BY DEF SumFunction
  <1>4. hole("logs") # hole("points") /\ hole("logs").count = holes["logs"]
        /\ hole("points").count = holes["points"]
    OBVIOUS
  <1>5. \A e \in E : g[e] = e.count
    OBVIOUS
  <1>6. IsFiniteSet({}) /\ SumFunctionOnSet(g, {}) = 0
    BY TotalUnfolds, FS_EmptySet
  <1>7. \A part \in {"logs", "points"} : holes[part] > 0 => hole(part) \in E /\ g[hole(part)] = holes[part]
    BY <1>2, <1>4, <1>5
  <1> HIDE DEF hole, E, g
  <1>8. ASSUME NEW part \in {"logs", "points"}, holes[part] > 0
        PROVE  IsFiniteSet({hole(part)}) /\ SumFunctionOnSet(g, {hole(part)}) = holes[part]
    <2>1. g[hole(part)] = holes[part] /\ holes[part] \in Nat
      BY <1>1, <1>7, <1>8
    <2>2. {} \cup {hole(part)} = {hole(part)} /\ hole(part) \notin {}
      OBVIOUS
    <2>3. \A y \in {} \cup {hole(part)} : g[y] \in Nat
      BY <2>1
    <2>4. SumFunctionOnSet(g, {} \cup {hole(part)}) = SumFunctionOnSet(g, {}) + g[hole(part)]
      BY <1>6, <2>3, TotalAdd
    <2>5. SumFunctionOnSet(g, {hole(part)}) = 0 + holes[part]
      BY <1>6, <2>1, <2>2, <2>4
    <2>6. IsFiniteSet({hole(part)})
      BY FS_Singleton
    <2> QED
      BY <2>1, <2>5, <2>6
  <1>9. ASSUME holes["logs"] = 0 /\ holes["points"] = 0
         PROVE  SumFunctionOnSet(g, E) = holes["logs"] + holes["points"]
    <2>1. E = {}
      BY <1>2, <1>9
    <2> QED
      BY <1>6, <1>9, <2>1
  <1>10. ASSUME holes["logs"] > 0 /\ holes["points"] = 0
         PROVE  SumFunctionOnSet(g, E) = holes["logs"] + holes["points"]
    <2>1. E = {hole("logs")}
      BY <1>2, <1>10
    <2> QED
      BY <1>1, <1>8, <1>10, <2>1
  <1>11. ASSUME holes["logs"] = 0 /\ holes["points"] > 0
         PROVE  SumFunctionOnSet(g, E) = holes["logs"] + holes["points"]
    <2>1. E = {hole("points")}
      BY <1>2, <1>11
    <2> QED
      BY <1>1, <1>8, <1>11, <2>1
  <1>12. ASSUME holes["logs"] > 0 /\ holes["points"] > 0
         PROVE  SumFunctionOnSet(g, E) = holes["logs"] + holes["points"]
    <2>1. E = {hole("logs")} \cup {hole("points")} /\ hole("points") \notin {hole("logs")}
      BY <1>2, <1>4, <1>12
    <2>2. \A y \in {hole("logs")} \cup {hole("points")} : g[y] \in Nat
      BY <1>1, <1>7, <1>12
    <2>3. SumFunctionOnSet(g, {hole("logs")} \cup {hole("points")})
            = SumFunctionOnSet(g, {hole("logs")}) + g[hole("points")]
      BY <1>8, <1>12, <2>1, <2>2, TotalAdd
    <2> QED
      BY <1>7, <1>8, <1>12, <2>1, <2>3
  <1>13. SumFunctionOnSet(g, E) = holes["logs"] + holes["points"]
    BY <1>1, <1>9, <1>10, <1>11, <1>12
  <1> QED
    BY <1>3, <1>13 DEF g, E

LEMMA RunFactsFromCore ==
    ASSUME FlowCore, pc = "done"
    PROVE  RunFactsAreConsistent
  <1>1. SumFunction([e \in Stated("residency_hole") |-> e.count]) = holes["logs"] + holes["points"]
    BY HolesStated
  <1>2. entities = Len(waterfall) + Cardinality(NamedOf("log")) + holes["logs"]
                     + Cardinality(NamedOf("point")) + holes["points"]
    BY DEF FlowCore, CountInv, PastPoints
  <1>3. IsFiniteSet(named)
    BY NamedEntities
  <1>4. IsFiniteSet(NamedOf("log")) /\ IsFiniteSet(NamedOf("point"))
    BY <1>3, FS_Subset DEF NamedOf
  <1>5. NamedOf("log") \cap NamedOf("point") = {}
    BY DEF NamedOf
  <1>6. Cardinality(named) = Cardinality(NamedOf("log")) + Cardinality(NamedOf("point"))
    <2>1. named = NamedOf("log") \cup NamedOf("point")
      BY DEF FlowCore, NamedInv
    <2>2. Cardinality(NamedOf("log") \cup NamedOf("point"))
            = Cardinality(NamedOf("log")) + Cardinality(NamedOf("point"))
                - Cardinality(NamedOf("log") \cap NamedOf("point"))
      BY <1>4, FS_Union
    <2>3. Cardinality(NamedOf("log") \cap NamedOf("point")) = 0
      BY <1>5, FS_EmptySet
    <2>4. Cardinality(NamedOf("log")) \in Nat /\ Cardinality(NamedOf("point")) \in Nat
      BY <1>4, FS_CardinalityType
    <2> QED
      BY <2>1, <2>2, <2>3, <2>4
  <1>7. /\ Cardinality(NamedOf("log")) \in Nat /\ Cardinality(NamedOf("point")) \in Nat
        /\ holes["logs"] \in Nat /\ holes["points"] \in Nat /\ Len(waterfall) \in Nat
    BY <1>4, FS_CardinalityType DEF FlowCore, FlowTyped
  <1> QED
    BY <1>1, <1>2, <1>6, <1>7 DEF RunFactsAreConsistent

LEMMA WindowFromCore ==
    ASSUME FlowCore, pc = "done"
    PROVE  MetricWindowIsStated
  <1> SUFFICES ASSUME runs["points"] > 0
               PROVE  \E entry \in Stated("metric_window") :
                        /\ entry.asked = Extent
                        /\ \/ /\ entry.asked.from <= entry.resident.from
                              /\ entry.resident.from < entry.resident.to
                           \/ entry.resident.from = entry.asked.to
                        /\ entry.resident.to <= entry.asked.to
    BY DEF MetricWindowIsStated
  <1> DEFINE entry == [kind |-> "metric_window", asked |-> Extent, resident |-> ResidentWindow]
             P == NamedOf("point")
             times == {Facts[k].start : k \in {j \in named : Facts[j].kind = "point"}}
  <1>1. entry \in Stated("metric_window")
    <2>1. entry \in FlowCoverage
      BY DEF FlowCoverage
    <2> QED
      BY <2>1 DEF Stated
  <1>2. Extent.from \in Nat /\ Extent.to \in Nat
    BY WaterfallKeys, ExtentLaws DEF PastResolve, PastSpans
  <1>3. \A k \in P : k \in Keys /\ Extent.from <= Facts[k].start /\ Facts[k].start < Extent.to
    BY DEF FlowCore, FlowTyped, NamedInv, NamedOf, PastPoints
  <1>4. \A x \in times : x \in Nat /\ Extent.from <= x /\ x < Extent.to
    BY <1>3, FactsTyped DEF NamedOf
  <1>5. IsFiniteSet(times)
    <2> DEFINE f == [k \in P |-> Facts[k].start]
    <2>1. IsFiniteSet(P)
      BY NamedEntities, FS_Subset DEF NamedOf
    <2>2. f \in Surjection(P, times)
      BY DEF Surjection, NamedOf
    <2> HIDE DEF f, times, P
    <2> QED
      BY <2>1, <2>2, FS_Surjection
  <1>6. ResidentWindow = IF times = {} THEN [from |-> Extent.to, to |-> Extent.to]
                         ELSE [from |-> Min(times), to |-> Max(times) + 1]
    BY DEF ResidentWindow
  <1>7. entry.asked = Extent /\ entry.resident = ResidentWindow
    OBVIOUS
  <1> HIDE DEF times, P, entry
  <1>8. CASE times = {}
    BY <1>1, <1>2, <1>6, <1>7, <1>8
  <1>9. CASE times # {}
    <2>1. times \in SUBSET Int
      BY <1>4
    <2>2. Min(times) \in times /\ Max(times) \in times /\ \A x \in times : Min(times) <= x
      BY <1>5, <1>9, <2>1, LeastAndGreatest
    <2>3. /\ Min(times) \in Nat /\ Max(times) \in Nat /\ Min(times) <= Max(times)
          /\ Extent.from <= Min(times) /\ Max(times) < Extent.to
      BY <1>4, <2>2
    <2>4. ResidentWindow.from = Min(times) /\ ResidentWindow.to = Max(times) + 1
      BY <1>6, <1>9
    <2>5. /\ Extent.from <= ResidentWindow.from /\ ResidentWindow.from < ResidentWindow.to
          /\ ResidentWindow.to <= Extent.to
      BY <1>2, <2>3, <2>4
    <2> QED
      BY <1>1, <1>7, <2>5
  <1> QED
    BY <1>8, <1>9

LEMMA SoundFromCore ==
    ASSUME FlowCore
    PROVE  EnvelopeSound
  <1> SUFFICES ASSUME pc = "done"
               PROVE  /\ SubjectsAreStatedSeparately /\ SignalRefsResolve /\ ViewsCarryEntityIds
                      /\ NoPartialContentAsComplete /\ RunFactsAreConsistent /\ MetricWindowIsStated
                      /\ TotalPages <= MaxPages /\ examined <= MaxExaminations
                      /\ halted = None => \A part \in Parts : runs[part] > 0
    BY DEF EnvelopeSound
  <1>1. SubjectsAreStatedSeparately /\ RunFactsAreConsistent /\ MetricWindowIsStated
    BY SubjectsFromCore, RunFactsFromCore, WindowFromCore
  <1>2. ViewsCarryEntityIds
    BY ViewsFromCore DEF PastResolve, PastSpans
  <1>3. SignalRefsResolve
    <2>1. relations \in Seq(Relations) /\ \A r \in ToSet(relations) : InEvidence(r)
      BY DEF FlowCore, RelationsInv
    <2>2. \A i \in DOMAIN relations : relations[i] \in ToSet(relations)
      BY DEF ToSet
    <2> QED
      BY <2>1, <2>2 DEF SignalRefsResolve, InEvidence
  <1>4. NoPartialContentAsComplete /\ TotalPages <= MaxPages /\ examined <= MaxExaminations
    BY DEF FlowCore, ChainInv, NoPartialContentAsComplete
  <1>5. halted = None => \A part \in Parts : runs[part] > 0
    BY DEF FlowCore, ChainInv, PastSpans, PastLogs, PastPoints, Parts
  <1> QED
    BY <1>1, <1>2, <1>3, <1>4, <1>5

(* A response satisfies invariants 1 and 3 to 7 of envelope.rs, but not      *)
(* truncations_are_named (2), whatever the store did between the walks, the  *)
(* namings and the correlation: a redirected subject is named, every         *)
(* relation ends in the evidence, no entity is in two views, the totals are  *)
(* the views and the holes stated, the metric window is stated within its    *)
(* extent, and a response that names no stop walked every part, within the   *)
(* chain's ceilings (envelope.rs: invariants; flow.rs: walk_pages).          *)
THEOREM EnvelopeHolds == Spec => []EnvelopeSound
  <1>1. StoreTyped /\ FlowCore => EnvelopeSound
    BY SoundFromCore
  <1> QED
    BY <1>1, FlowHolds, PTL
=============================================================================
