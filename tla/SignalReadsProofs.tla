-------------------------- MODULE SignalReadsProofs --------------------------
(***************************************************************************)
(* The lists of traces and logs, for any rows, tenants, queries, windows   *)
(* and limits: what a walk through the pages can miss or repeat.           *)
(***************************************************************************)
EXTENDS SignalReads, FiniteSetTheorems, WellFoundedInduction, TLAPS

-------------------------------------------------------------------------------
(* Ranks in a finite set with a strict total order R. *)

AheadIn(G, R, g) == {h \in G : <<h, g>> \in R}

Rank(G, R, g) == Cardinality(AheadIn(G, R, g))

TotalOrder(G, R) ==
  /\ IsFiniteSet(G)
  /\ \A g \in G : <<g, g>> \notin R
  /\ \A f, g, h \in G : <<f, g>> \in R /\ <<g, h>> \in R => <<f, h>> \in R
  /\ \A g, h \in G : g = h \/ <<g, h>> \in R \/ <<h, g>> \in R

LEMMA RankType ==
  ASSUME NEW G, NEW R, TotalOrder(G, R), NEW g \in G
  PROVE  IsFiniteSet(AheadIn(G, R, g)) /\ Rank(G, R, g) \in Nat
<1>1. IsFiniteSet(AheadIn(G, R, g))
  BY FS_Subset DEF TotalOrder, AheadIn
<1> QED
  BY <1>1, FS_CardinalityType DEF Rank

LEMMA AheadGrows ==
  ASSUME NEW G, NEW R, TotalOrder(G, R), NEW g \in G, NEW h \in G, <<g, h>> \in R
  PROVE  /\ AheadIn(G, R, g) \subseteq AheadIn(G, R, h)
         /\ AheadIn(G, R, g) # AheadIn(G, R, h)
         /\ Rank(G, R, g) < Rank(G, R, h)
<1>1. AheadIn(G, R, g) \subseteq AheadIn(G, R, h)
  BY DEF TotalOrder, AheadIn
<1>2. g \in AheadIn(G, R, h) /\ g \notin AheadIn(G, R, g)
  BY DEF TotalOrder, AheadIn
<1>3. /\ Rank(G, R, g) <= Rank(G, R, h)
      /\ Rank(G, R, g) # Rank(G, R, h)
  BY <1>1, <1>2, RankType, FS_Subset DEF Rank
<1> QED
  BY <1>1, <1>2, <1>3, RankType

LEMMA RankInjective ==
  ASSUME NEW G, NEW R, TotalOrder(G, R), NEW g \in G, NEW h \in G,
         Rank(G, R, g) = Rank(G, R, h)
  PROVE  g = h
<1>1. ASSUME NEW x \in G, NEW y \in G, <<x, y>> \in R PROVE Rank(G, R, x) # Rank(G, R, y)
  BY <1>1, AheadGrows, RankType
<1> QED
  BY <1>1 DEF TotalOrder

\* Below a rank every rank is taken.
LEMMA RankTaken ==
  ASSUME NEW G, NEW R, TotalOrder(G, R), NEW g \in G, NEW k \in Nat, k <= Rank(G, R, g)
  PROVE  \E m \in G : Rank(G, R, m) = k
<1> DEFINE Far == {h \in G : k <= Rank(G, R, h)}
           Sets == {AheadIn(G, R, h) : h \in Far}
<1>1. Sets \subseteq FiniteSubsetsOf(G) /\ Sets # {}
  <2>1. ASSUME NEW h \in Far PROVE AheadIn(G, R, h) \in FiniteSubsetsOf(G)
    BY RankType DEF AheadIn, FiniteSubsetsOf
  <2> QED
    BY <2>1
<1>2. \E B \in Sets : \A C \in Sets : <<C, B>> \notin StrictSubsetOrdering(G)
  <2> HIDE DEF Sets
  <2> QED
    BY <1>1, WFMin, FS_StrictSubsetOrderingWellFounded
<1>3. PICK m \in Far : \A h \in Far : <<AheadIn(G, R, h), AheadIn(G, R, m)>>
                                        \notin StrictSubsetOrdering(G)
  BY <1>2
<1>4. ASSUME NEW h \in AheadIn(G, R, m) PROVE Rank(G, R, h) \in 0..(k - 1)
  <2>1. h \in G /\ <<h, m>> \in R
    BY DEF AheadIn
  <2>2. /\ AheadIn(G, R, h) \subseteq AheadIn(G, R, m)
        /\ AheadIn(G, R, h) # AheadIn(G, R, m)
        /\ AheadIn(G, R, m) \subseteq G
    BY <2>1, AheadGrows DEF AheadIn
  <2>3. <<AheadIn(G, R, h), AheadIn(G, R, m)>> \in StrictSubsetOrdering(G)
    BY <2>2 DEF StrictSubsetOrdering
  <2>4. h \notin Far
    BY <1>3, <2>3
  <2> QED
    BY <2>1, <2>4, RankType
<1>5. Rank(G, R, m) <= k
  <2> DEFINE A == AheadIn(G, R, m)
             f == [h \in A |-> Rank(G, R, h)]
  <2>1. f \in Injection(A, 0..(k - 1))
    <3>1. f \in [A -> 0..(k - 1)]
      BY <1>4
    <3>2. \A x, y \in A : f[x] = f[y] => x = y
      BY RankInjective DEF AheadIn
    <3> QED
      BY <3>1, <3>2 DEF Injection, IsInjective
  <2>2. IsFiniteSet(0..(k - 1)) /\ Cardinality(0..(k - 1)) = k
    BY FS_Interval
  <2> QED
    BY <2>1, <2>2, FS_Injection DEF Rank
<1> QED
  BY <1>5, RankType

\* So that a page is full if there is anything behind it.
LEMMA PageIsFull ==
  ASSUME NEW G, NEW R, TotalOrder(G, R), NEW g \in G, NEW o \in Nat, NEW c \in Nat,
         o + c <= Rank(G, R, g)
  PROVE  LET W == {h \in G : o <= Rank(G, R, h) /\ Rank(G, R, h) < o + c + 1}
         IN  IsFiniteSet(W) /\ Cardinality(W) > c
<1> DEFINE W == {h \in G : o <= Rank(G, R, h) /\ Rank(G, R, h) < o + c + 1}
           f == [k \in o..(o + c) |-> CHOOSE m \in G : Rank(G, R, m) = k]
<1>1. ASSUME NEW k \in o..(o + c) PROVE f[k] \in G /\ Rank(G, R, f[k]) = k
  <2>1. \E m \in G : Rank(G, R, m) = k
    BY RankTaken, RankType
  <2> QED
    BY <2>1
<1>2. f \in Injection(o..(o + c), W)
  <2> HIDE DEF f
  <2>1. \A k \in o..(o + c) : f[k] \in W
    BY <1>1
  <2>2. f \in [o..(o + c) -> W]
    BY <2>1 DEF f
  <2>3. \A k, l \in o..(o + c) : f[k] = f[l] => k = l
    BY <1>1
  <2> QED
    BY <2>2, <2>3 DEF Injection, IsInjective
<1>3. IsFiniteSet(W)
  BY FS_Subset DEF TotalOrder
<1>4. Cardinality(o..(o + c)) = c + 1
  BY FS_Interval
<1>5. Cardinality(o..(o + c)) <= Cardinality(W) /\ Cardinality(W) \in Nat
  <2> HIDE DEF W, f
  <2> QED
    BY <1>2, <1>3, FS_Injection, FS_CardinalityType
<1> QED
  BY <1>3, <1>4, <1>5

-------------------------------------------------------------------------------
(* The keys of a query. *)

LEMMA Bounds ==
  /\ IsFiniteSet(Row) /\ Row \cap Trace = {}
  /\ Hour \in Nat \ {0} /\ Second \in Nat \ {0} /\ MaxLimit \in Nat \ {0}
  /\ MaxDuration \in Nat /\ MaxClock \in Nat /\ MaxWalk \in Nat /\ Hour < MaxClock
<1>1. \A n \in {Hour, Second, MaxLimit} : n \in Nat \ {0}
  BY SignalReadsAssumption
<1>2. \A n \in {MaxDuration, MaxClock, MaxWalk} : n \in Nat
  BY SignalReadsAssumption
<1> QED
  BY <1>1, <1>2, SignalReadsAssumption

USE Bounds

LEMMA DataType ==
  ASSUME NEW r \in Row
  PROVE  /\ Data[r].signal \in Signal /\ Data[r].trace \in Trace
         /\ Data[r].service \in Service /\ Data[r].tenant \in Tenant
         /\ Data[r].ts \in Instant /\ Data[r].observed \in Instant
         /\ Data[r].duration \in 0..MaxDuration
         /\ Stamp(r) \in Nat
<1>1. Data[r] \in [signal : Signal, tenant : Tenant, trace : Trace, service : Service,
                   ts : Instant, observed : Instant, duration : 0..MaxDuration]
  BY SignalReadsAssumption
<1> QED
  BY <1>1 DEF Stamp, Instant

LEMMA AskedType ==
  ASSUME NEW q \in Asked
  PROVE  /\ q.signal \in Signal /\ q.limit \in Nat
         /\ q.sort \in {"ts", "duration"} /\ q.order \in {"asc", "desc"}
  BY SignalReadsAssumption DEF Query

LEMMA NatMinimum ==
  ASSUME NEW T, T \subseteq Nat, T # {}
  PROVE  \E x \in T : \A y \in T : x <= y
<1> DEFINE Below == {0..x : x \in T}
<1>1. Below \subseteq FiniteSubsetsOf(Nat) /\ Below # {}
  <2>1. ASSUME NEW x \in T PROVE 0..x \in FiniteSubsetsOf(Nat)
    <3>1. IsFiniteSet(0..x)
      BY FS_Interval
    <3> QED
      BY <3>1 DEF FiniteSubsetsOf
  <2> QED
    BY <2>1
<1>2. \E B \in Below : \A C \in Below : <<C, B>> \notin StrictSubsetOrdering(Nat)
  <2> HIDE DEF Below
  <2> QED
    BY <1>1, WFMin, FS_StrictSubsetOrderingWellFounded
<1>3. PICK x \in T : \A y \in T : <<0..y, 0..x>> \notin StrictSubsetOrdering(Nat)
  BY <1>2
<1>4. ASSUME NEW y \in T, y < x PROVE FALSE
  <2>1. 0..y \subseteq 0..x /\ 0..y # 0..x /\ 0..y \subseteq Nat /\ 0..x \subseteq Nat
    BY <1>4
  <2> QED
    BY <2>1, <1>3 DEF StrictSubsetOrdering
<1> QED
  BY <1>3, <1>4

LEMMA KeyTypes ==
  ASSUME NEW S \in SUBSET Row, S # {}
  PROVE  Earliest(S) \in Nat /\ TotalDuration(S) \in Nat
<1>1. {Stamp(r) : r \in S} \subseteq Nat /\ {Stamp(r) : r \in S} # {}
  BY DataType
<1>2. \E m \in {Stamp(r) : r \in S} : \A n \in {Stamp(r) : r \in S} : m <= n
  BY <1>1, NatMinimum
<1>3. Earliest(S) \in {Stamp(r) : r \in S}
  BY <1>2 DEF Earliest
<1>4. IsFiniteSet(S \X (1..MaxDuration))
  <2>1. IsFiniteSet(S) /\ IsFiniteSet(1..MaxDuration)
    BY FS_Subset, FS_Interval
  <2> QED
    BY <2>1, FS_Product
<1>5. TotalDuration(S) \in Nat
  <2> DEFINE P == {p \in S \X (1..MaxDuration) : p[2] <= Data[p[1]].duration}
  <2>1. IsFiniteSet(P)
    BY <1>4, FS_Subset
  <2> QED
    BY <2>1, FS_CardinalityType DEF TotalDuration
<1> QED
  BY <1>1, <1>3, <1>5

\* What the proofs need of the keys: finitely many groups, each with a number.
KeysOK(keys) == IsFiniteSet(DOMAIN keys) /\ \A g \in DOMAIN keys : keys[g] \in Nat

LEMMA KeysAreOK ==
  ASSUME stored \subseteq Row, NEW q
  PROVE  KeysOK(Keys(q)) /\ DOMAIN Keys(q) \subseteq Group
<1> DEFINE G == {GroupOf(r) : r \in Rows(q)}
<1>1. Rows(q) \subseteq Row /\ IsFiniteSet(Rows(q))
  BY FS_Subset DEF Rows
<1>2. IsFiniteSet(G)
  <2> DEFINE f == [r \in Rows(q) |-> GroupOf(r)]
  <2>1. f \in Surjection(Rows(q), G)
    BY DEF Surjection
  <2> QED
    BY <1>1, <2>1, FS_Surjection
<1>3. DOMAIN Keys(q) = G
  BY DEF Keys
<1>4. ASSUME NEW g \in G PROVE Keys(q)[g] \in Nat
  <2>1. RowsOf(q, g) \subseteq Row /\ RowsOf(q, g) # {}
    BY <1>1 DEF RowsOf
  <2>2. Earliest(RowsOf(q, g)) \in Nat /\ TotalDuration(RowsOf(q, g)) \in Nat
    BY <2>1, KeyTypes
  <2> QED
    BY <2>2 DEF Keys
<1>5. G \subseteq Group
  BY <1>1, DataType DEF GroupOf, Group
<1> QED
  BY <1>2, <1>3, <1>4, <1>5 DEF KeysOK

-------------------------------------------------------------------------------
(* Without groups of the same key, a page is a range of ranks. *)

Distinct(keys) == \A g, h \in DOMAIN keys : keys[g] = keys[h] => g = h

\* The groups with a key before g's.
Higher(q, keys, g) == {h \in DOMAIN keys : Before(q, keys[h], keys[g])}

Order(q, keys) ==
  {p \in (DOMAIN keys) \X (DOMAIN keys) : Before(q, keys[p[1]], keys[p[2]])}

LEMMA DistinctOrder ==
  ASSUME NEW q, NEW keys, KeysOK(keys), Distinct(keys)
  PROVE  /\ TotalOrder(DOMAIN keys, Order(q, keys))
         /\ \A g \in DOMAIN keys : Higher(q, keys, g) = AheadIn(DOMAIN keys, Order(q, keys), g)
<1>1. \A g, h \in DOMAIN keys :
        <<g, h>> \in Order(q, keys) <=> Before(q, keys[g], keys[h])
  BY DEF Order
<1>2. \A g, h \in DOMAIN keys :
        g = h \/ Before(q, keys[g], keys[h]) \/ Before(q, keys[h], keys[g])
  BY DEF Distinct, KeysOK, Before
<1>3. \A g \in DOMAIN keys : ~Before(q, keys[g], keys[g])
  BY DEF KeysOK, Before
<1>4. \A f, g, h \in DOMAIN keys :
        Before(q, keys[f], keys[g]) /\ Before(q, keys[g], keys[h]) => Before(q, keys[f], keys[h])
  BY DEF KeysOK, Before
<1>5. TotalOrder(DOMAIN keys, Order(q, keys))
  BY <1>1, <1>2, <1>3, <1>4 DEF TotalOrder, KeysOK
<1>6. ASSUME NEW g \in DOMAIN keys
      PROVE  Higher(q, keys, g) = AheadIn(DOMAIN keys, Order(q, keys), g)
  BY <1>1 DEF Higher, AheadIn
<1> QED
  BY <1>5, <1>6

LEMMA DistinctAhead ==
  ASSUME NEW q, NEW keys, KeysOK(keys), Distinct(keys), NEW tie \in Ties(DOMAIN keys),
         NEW g \in DOMAIN keys
  PROVE  /\ Ahead(q, keys, tie, g) = Higher(q, keys, g)
         /\ Cardinality(Ahead(q, keys, tie, g)) = Rank(DOMAIN keys, Order(q, keys), g)
         /\ Cardinality(Higher(q, keys, g)) \in Nat
<1>1. ASSUME NEW h \in DOMAIN keys PROVE ~(keys[h] = keys[g] /\ tie[h] < tie[g])
  <2>1. tie[g] \in 1..Cardinality(DOMAIN keys)
    BY DEF Ties
  <2> QED
    BY <2>1 DEF Distinct
<1>2. Ahead(q, keys, tie, g) = Higher(q, keys, g)
  BY <1>1 DEF Ahead, Higher
<1> QED
  BY <1>2, DistinctOrder, RankType DEF Rank

\* The keys of the groups of a walk when neither the window nor a new span moved them.
LEMMA HigherGrows ==
  ASSUME NEW q, NEW old, NEW new, KeysOK(old), KeysOK(new),
         \A g \in DOMAIN old : g \in DOMAIN new /\ new[g] = old[g],
         NEW g \in DOMAIN old
  PROVE  /\ Cardinality(Higher(q, old, g)) \in Nat /\ Cardinality(Higher(q, new, g)) \in Nat
         /\ Cardinality(Higher(q, old, g)) <= Cardinality(Higher(q, new, g))
         /\ DOMAIN new \subseteq DOMAIN old => Higher(q, new, g) = Higher(q, old, g)
<1>1. Higher(q, old, g) \subseteq Higher(q, new, g) /\ Higher(q, new, g) \subseteq DOMAIN new
  BY DEF Higher
<1>2. IsFiniteSet(Higher(q, new, g))
  BY <1>1, FS_Subset DEF KeysOK
<1>3. IsFiniteSet(Higher(q, old, g))
  BY <1>1, <1>2, FS_Subset
<1>4. DOMAIN new \subseteq DOMAIN old => Higher(q, new, g) = Higher(q, old, g)
  BY DEF Higher
<1> QED
  BY <1>1, <1>2, <1>3, <1>4, FS_Subset, FS_CardinalityType

-------------------------------------------------------------------------------
(* The walk through the pages. *)

Sized(w) == w.query.limit \in 1..MaxLimit

\* What holds of a walk before and after each page.
WalkOK(w) ==
  /\ w.query \in Asked /\ w.offset \in Nat /\ KeysOK(w.keys)
  /\ {w.moved, w.grew, w.tied, w.repeated} \subseteq BOOLEAN
  /\ DOMAIN w.keys \subseteq Group /\ w.first \cup w.listed \subseteq Group
  /\ Sized(w) /\ ~w.moved => w.first \subseteq DOMAIN w.keys
  /\ Sized(w) /\ ~w.moved /\ ~w.tied =>
       \A g \in w.first \ w.listed : w.offset <= Cardinality(Higher(w.query, w.keys, g))
  /\ Sized(w) /\ ~w.moved /\ ~w.grew /\ ~w.tied =>
       /\ \A g \in w.listed : g \in DOMAIN w.keys
                            /\ Cardinality(Higher(w.query, w.keys, g)) < w.offset
       /\ ~w.repeated

\* A page of distinct keys: those whose rank is in its range.
LEMMA PageOfDistinct ==
  ASSUME NEW q \in Asked, q.limit \in 1..MaxLimit, NEW keys, KeysOK(keys), Distinct(keys),
         NEW tie \in Ties(DOMAIN keys), NEW o \in Nat
  PROVE  /\ Page(q, keys, tie, o) =
              {g \in DOMAIN keys : /\ o <= Cardinality(Higher(q, keys, g))
                                   /\ Cardinality(Higher(q, keys, g)) < o + q.limit}
         /\ ~HasMore(q, keys, tie, o) =>
              \A g \in DOMAIN keys : Cardinality(Higher(q, keys, g)) < o + q.limit
<1>1. Limit(q) = q.limit /\ q.limit \in Nat
  BY DEF Limit
<1>2. \A g \in DOMAIN keys : /\ Ahead(q, keys, tie, g) = Higher(q, keys, g)
                             /\ Cardinality(Higher(q, keys, g)) \in Nat
  BY DistinctAhead
<1>3. Page(q, keys, tie, o) =
        {g \in DOMAIN keys : /\ o <= Cardinality(Higher(q, keys, g))
                             /\ Cardinality(Higher(q, keys, g)) < o + q.limit}
  BY <1>1, <1>2 DEF Page, Fetched
<1>4. ASSUME NEW g \in DOMAIN keys, o + q.limit <= Cardinality(Higher(q, keys, g))
      PROVE  HasMore(q, keys, tie, o)
  <2> DEFINE R == Order(q, keys)
             W == {h \in DOMAIN keys : /\ o <= Rank(DOMAIN keys, R, h)
                                       /\ Rank(DOMAIN keys, R, h) < o + q.limit + 1}
  <2>1. \A h \in DOMAIN keys : Cardinality(Ahead(q, keys, tie, h)) = Rank(DOMAIN keys, R, h)
    BY DistinctAhead
  <2>2. Fetched(q, keys, tie, o, Limit(q) + 1) = W
    <3>1. o + (q.limit + 1) = o + q.limit + 1
      BY <1>1
    <3> QED
      BY <1>1, <2>1, <3>1 DEF Fetched
  <2>3. TotalOrder(DOMAIN keys, R) /\ o + q.limit <= Rank(DOMAIN keys, R, g)
    BY <1>2, <1>4, <2>1, DistinctOrder
  <2>4. Cardinality(W) > q.limit
    BY <1>1, <2>3, PageIsFull
  <2> QED
    BY <1>1, <2>2, <2>4 DEF HasMore
<1> QED
  BY <1>1, <1>2, <1>3, <1>4

\* At the end of a walk nothing of its first query is left.
DoneOK(w) ==
  w.pc = "done" /\ Sized(w) /\ ~w.moved /\ ~w.tied => w.first \subseteq w.listed

LEMMA PageKeepsWalk ==
  ASSUME NEW w, WalkOK(w), NEW keys, KeysOK(keys), DOMAIN keys \subseteq Group,
         NEW tie \in Ties(DOMAIN keys)
  PROVE  WalkOK(Listed(w, keys, tie)) /\ DoneOK(Listed(w, keys, tie))
<1> DEFINE x == Listed(w, keys, tie)
           page == Page(w.query, keys, tie, w.offset)
<1>1. /\ x.query = w.query /\ x.offset = w.offset + w.query.limit /\ x.keys = keys
      /\ x.first = w.first /\ x.listed = w.listed \cup page
      /\ x.pc = IF HasMore(w.query, keys, tie, w.offset) THEN "more" ELSE "done"
  BY DEF Listed
<1>2. /\ x.moved = (w.moved \/ \E g \in DOMAIN w.keys :
                                 g \notin DOMAIN keys \/ keys[g] # w.keys[g])
      /\ x.grew = (w.grew \/ ~(DOMAIN keys \subseteq DOMAIN w.keys))
      /\ x.tied = (w.tied \/ \E g, h \in DOMAIN keys : g # h /\ keys[g] = keys[h])
      /\ x.repeated = (w.repeated \/ page \cap w.listed # {})
  BY DEF Listed
<1>3. /\ w.query \in Asked /\ w.query.limit \in Nat /\ w.offset \in Nat
      /\ KeysOK(w.keys) /\ page \subseteq DOMAIN keys
      /\ w.first \cup w.listed \subseteq Group
  BY AskedType DEF WalkOK, Page, Fetched
<1> HIDE DEF x, page
<1>4. {x.moved, x.grew, x.tied, x.repeated} \subseteq BOOLEAN
  <2>1. /\ w.moved \in BOOLEAN /\ w.grew \in BOOLEAN
        /\ w.tied \in BOOLEAN /\ w.repeated \in BOOLEAN
    BY DEF WalkOK
  <2>2. x.moved \in BOOLEAN /\ x.grew \in BOOLEAN /\ x.tied \in BOOLEAN /\ x.repeated \in BOOLEAN
    BY <1>2, <2>1
  <2> QED
    BY <2>2
<1>5. x.query \in Asked /\ x.offset \in Nat /\ x.first \cup x.listed \subseteq Group
  BY <1>1, <1>3
<1>6. Sized(x) <=> Sized(w)
  BY <1>1 DEF Sized
<1>7. ASSUME ~x.moved
      PROVE  ~w.moved /\ \A g \in DOMAIN w.keys : g \in DOMAIN keys /\ keys[g] = w.keys[g]
  BY <1>2, <1>7
<1>8. ASSUME ~x.tied PROVE ~w.tied /\ Distinct(keys)
  BY <1>2, <1>8 DEF Distinct
<1>9. ASSUME ~x.grew PROVE ~w.grew /\ DOMAIN keys \subseteq DOMAIN w.keys
  BY <1>2, <1>9
<1>10. ASSUME Sized(x), ~x.moved PROVE x.first \subseteq DOMAIN x.keys
  BY <1>1, <1>6, <1>7, <1>10 DEF WalkOK
<1>11. ASSUME Sized(x), ~x.moved, ~x.tied
       PROVE  /\ \A g \in x.first \ x.listed :
                   x.offset <= Cardinality(Higher(x.query, x.keys, g))
              /\ x.pc = "done" => x.first \subseteq x.listed
  <2>1. /\ w.query.limit \in 1..MaxLimit /\ Distinct(keys) /\ ~w.moved /\ ~w.tied
        /\ \A g \in DOMAIN w.keys : g \in DOMAIN keys /\ keys[g] = w.keys[g]
        /\ w.first \subseteq DOMAIN w.keys
    BY <1>6, <1>7, <1>8, <1>11 DEF Sized, WalkOK
  <2>2. page = {g \in DOMAIN keys :
                  /\ w.offset <= Cardinality(Higher(w.query, keys, g))
                  /\ Cardinality(Higher(w.query, keys, g)) < w.offset + w.query.limit}
    BY <1>3, <2>1, PageOfDistinct DEF page
  <2>3. ASSUME NEW g \in x.first \ x.listed
        PROVE  g \in DOMAIN keys /\ x.offset <= Cardinality(Higher(w.query, keys, g))
    <3>1. g \in w.first \ w.listed /\ g \notin page /\ g \in DOMAIN w.keys /\ g \in DOMAIN keys
      BY <1>1, <2>1, <2>3
    <3>2. w.offset <= Cardinality(Higher(w.query, w.keys, g))
      BY <1>6, <1>11, <2>1, <3>1 DEF WalkOK
    <3>3. /\ Cardinality(Higher(w.query, w.keys, g)) \in Nat
          /\ Cardinality(Higher(w.query, keys, g)) \in Nat
          /\ Cardinality(Higher(w.query, w.keys, g)) <= Cardinality(Higher(w.query, keys, g))
      BY <1>3, <2>1, <3>1, HigherGrows
    <3>4. w.offset <= Cardinality(Higher(w.query, keys, g))
      BY <1>3, <3>2, <3>3
    <3>5. ~(Cardinality(Higher(w.query, keys, g)) < w.offset + w.query.limit)
      BY <2>2, <3>1, <3>4
    <3> QED
      BY <1>1, <1>3, <3>1, <3>3, <3>5
  <2>4. ASSUME x.pc = "done" PROVE x.first \subseteq x.listed
    <3>1. ~HasMore(w.query, keys, tie, w.offset)
      BY <1>1, <2>4
    <3>2. \A g \in DOMAIN keys :
            Cardinality(Higher(w.query, keys, g)) < w.offset + w.query.limit
      BY <1>3, <2>1, <3>1, PageOfDistinct
    <3>3. \A g \in DOMAIN keys : Cardinality(Higher(w.query, keys, g)) \in Nat
      BY <2>1, DistinctAhead
    <3> QED
      BY <1>1, <1>3, <2>3, <3>2, <3>3
  <2> QED
    BY <1>1, <2>3, <2>4
<1>12. ASSUME Sized(x), ~x.moved, ~x.grew, ~x.tied
       PROVE  /\ \A g \in x.listed : g \in DOMAIN x.keys
                                    /\ Cardinality(Higher(x.query, x.keys, g)) < x.offset
              /\ ~x.repeated
  <2>1. /\ w.query.limit \in 1..MaxLimit /\ Distinct(keys) /\ ~w.moved /\ ~w.tied /\ ~w.grew
        /\ \A g \in DOMAIN w.keys : g \in DOMAIN keys /\ keys[g] = w.keys[g]
        /\ DOMAIN keys \subseteq DOMAIN w.keys
    BY <1>6, <1>7, <1>8, <1>9, <1>12 DEF Sized
  <2>2. page = {g \in DOMAIN keys :
                  /\ w.offset <= Cardinality(Higher(w.query, keys, g))
                  /\ Cardinality(Higher(w.query, keys, g)) < w.offset + w.query.limit}
    BY <1>3, <2>1, PageOfDistinct DEF page
  <2>3. ASSUME NEW g \in w.listed
        PROVE  g \in DOMAIN keys /\ Cardinality(Higher(w.query, keys, g)) < w.offset
    <3>1. g \in DOMAIN w.keys /\ Cardinality(Higher(w.query, w.keys, g)) < w.offset
      BY <1>6, <1>12, <2>1 DEF WalkOK
    <3>2. Higher(w.query, keys, g) = Higher(w.query, w.keys, g)
      BY <1>3, <2>1, <3>1, HigherGrows
    <3> QED
      BY <2>1, <3>1, <3>2
  <2>4. \A g \in DOMAIN keys : Cardinality(Higher(w.query, keys, g)) \in Nat
    BY <2>1, DistinctAhead
  <2>5. page \cap w.listed = {}
    BY <1>3, <2>2, <2>3, <2>4
  <2>6. ~w.repeated
    BY <1>6, <1>12, <2>1 DEF WalkOK
  <2>7. ~x.repeated
    BY <1>2, <2>5, <2>6
  <2>8. \A g \in w.listed \cup page :
          g \in DOMAIN keys /\ Cardinality(Higher(w.query, keys, g)) < w.offset + w.query.limit
    BY <1>3, <2>1, <2>2, <2>3, <2>4
  <2> QED
    BY <1>1, <2>7, <2>8
<1>13. KeysOK(x.keys) /\ DOMAIN x.keys \subseteq Group
  BY <1>1
<1> QED
  BY <1>4, <1>5, <1>10, <1>11, <1>12, <1>13 DEF WalkOK, DoneOK, x

-------------------------------------------------------------------------------
(* The invariant. *)

\* The spans a list described are still there.
Described(w) ==
  w.query.signal = "traces" =>
    \A g \in DOMAIN w.items : w.items[g] \subseteq SpansOf(w.query.tenant, g)

Walking ==
  /\ walk.pc \in {"more", "done"}
  /\ WalkOK(walk) /\ DoneOK(walk) /\ Described(walk)
  /\ DOMAIN walk.items \subseteq walk.listed

BaseInv ==
  /\ clock \in Nat /\ Hour < clock /\ clock <= MaxClock
  /\ stored \subseteq Row /\ walks \in 0..MaxWalk

OpenedInv ==
  /\ opened.tenant \in Tenant
  /\ opened.promised \subseteq opened.spans /\ opened.spans \subseteq Row
  /\ \A r \in opened.spans : Data[r].tenant = opened.tenant

Inv == BaseInv /\ (walk = NoWalk \/ Walking) /\ OpenedInv

LEMMA PageDescribes ==
  ASSUME NEW w, NEW tie
  PROVE  /\ Described(Listed(w, Keys(w.query), tie))
         /\ LET x == Listed(w, Keys(w.query), tie) IN DOMAIN x.items \subseteq x.listed
<1> DEFINE x == Listed(w, Keys(w.query), tie)
           page == Page(w.query, Keys(w.query), tie, w.offset)
<1>1. /\ x.query = w.query /\ x.items = [g \in page |-> RowsOf(w.query, g)]
      /\ x.listed = w.listed \cup page
  BY DEF Listed
<1>2. ASSUME w.query.signal = "traces", NEW g \in page
      PROVE  RowsOf(w.query, g) \subseteq SpansOf(w.query.tenant, g)
  BY <1>2 DEF RowsOf, Rows, Passes, SpansOf, GroupOf
<1> HIDE DEF x, page
<1>3. Described(x)
  BY <1>1, <1>2 DEF Described
<1> QED
  BY <1>1, <1>3 DEF x

LEMMA PageKeepsInv ==
  ASSUME Inv, NEW w, WalkOK(w), NEW tie \in Ties(DOMAIN Keys(w.query)),
         walk' = Listed(w, Keys(w.query), tie),
         UNCHANGED <<clock, stored, opened>>, walks' \in 0..MaxWalk
  PROVE  Inv'
<1> DEFINE x == Listed(w, Keys(w.query), tie)
<1>1. KeysOK(Keys(w.query)) /\ DOMAIN Keys(w.query) \subseteq Group
  BY KeysAreOK DEF Inv, BaseInv
<1>2. WalkOK(x) /\ DoneOK(x)
  BY <1>1, PageKeepsWalk
<1>3. Described(x) /\ DOMAIN x.items \subseteq x.listed
  BY PageDescribes
<1>4. x.pc \in {"more", "done"}
  BY DEF Listed
<1>5. walk' = x /\ UNCHANGED stored
  OBVIOUS
<1> HIDE DEF x
<1>6. /\ WalkOK(walk)' /\ DoneOK(walk)' /\ Described(walk)'
      /\ (walk.pc \in {"more", "done"})' /\ (DOMAIN walk.items \subseteq walk.listed)'
  BY <1>2, <1>3, <1>4, <1>5 DEF WalkOK, DoneOK, Described, Sized, Higher, SpansOf
<1> QED
  BY <1>6 DEF Inv, Walking, BaseInv, OpenedInv

LEMMA InitInv == Init => Inv
<1> SUFFICES ASSUME Init PROVE Inv
  OBVIOUS
<1>1. PICK t \in Tenant : opened = NothingOpened(t)
  BY DEF Init
<1> QED
  BY <1>1 DEF Init, Inv, BaseInv, OpenedInv, NothingOpened

LEMMA NextInv == Inv /\ [Next]_vars => Inv'
<1> SUFFICES ASSUME Inv, [Next]_vars PROVE Inv'
  OBVIOUS
<1>0. BaseInv /\ OpenedInv /\ (walk = NoWalk \/ Walking)
  BY DEF Inv
<1>1. ASSUME stored \subseteq stored', stored' \subseteq Row, walk' = walk
      PROVE  (walk = NoWalk \/ Walking)'
  <2>1. CASE walk = NoWalk
    BY <1>1, <2>1 DEF NoWalk, NoItems
  <2>2. CASE Walking
    <3>1. Described(walk)'
      BY <1>1, <2>2 DEF Walking, Described, SpansOf
    <3> QED
      BY <1>1, <2>2, <3>1 DEF Walking, WalkOK, DoneOK, Sized, Higher
  <2> QED
    BY <1>0, <2>1, <2>2
<1>2. CASE Tick
  BY <1>0, <1>1, <1>2 DEF Tick, Inv, BaseInv, OpenedInv
<1>3. ASSUME NEW r \in Row, StoreRow(r) PROVE Inv'
  BY <1>0, <1>1, <1>3 DEF StoreRow, Inv, BaseInv, OpenedInv
<1>4. ASSUME NEW q \in Asked, FirstPage(q) PROVE Inv'
  <2> DEFINE keys == Keys(q)
             w == [NoWalk EXCEPT !.query = q, !.keys = keys, !.first = DOMAIN keys]
  <2>1. PICK tie \in Ties(DOMAIN keys) : walk' = Listed(w, keys, tie)
    BY <1>4 DEF FirstPage
  <2>2. /\ w.query = q /\ w.offset = 0 /\ w.keys = keys /\ w.first = DOMAIN keys
        /\ w.listed = {} /\ w.moved = FALSE /\ w.grew = FALSE /\ w.tied = FALSE
        /\ w.repeated = FALSE
    BY DEF NoWalk
  <2>3. KeysOK(keys) /\ DOMAIN keys \subseteq Group
    BY <1>0, KeysAreOK DEF BaseInv
  <2> HIDE DEF w
  <2>4. \A g \in DOMAIN keys : 0 <= Cardinality(Higher(q, keys, g))
    BY <2>3, HigherGrows
  <2>5. WalkOK(w)
    <3>1. {w.moved, w.grew, w.tied, w.repeated} \subseteq BOOLEAN
      BY <2>2
    <3>2. w.query \in Asked /\ w.offset \in Nat /\ w.first \cup w.listed \subseteq Group
      BY <2>2, <2>3
    <3> QED
      BY <2>2, <2>3, <2>4, <3>1, <3>2 DEF WalkOK
  <2>6. walks' \in 0..MaxWalk /\ UNCHANGED <<clock, stored, opened>>
    BY <1>0, <1>4 DEF FirstPage, BaseInv
  <2> QED
    BY <2>1, <2>2, <2>5, <2>6, PageKeepsInv
<1>5. CASE NextPage
  <2>1. PICK tie \in Ties(DOMAIN Keys(walk.query)) :
                 walk' = Listed(walk, Keys(walk.query), tie)
    BY <1>5 DEF NextPage
  <2>2. WalkOK(walk)
    BY <1>0, <1>5 DEF NextPage, Walking, NoWalk
  <2>3. walks' \in 0..MaxWalk /\ UNCHANGED <<clock, stored, opened>>
    BY <1>0, <1>5 DEF NextPage, BaseInv
  <2> QED
    BY <2>1, <2>2, <2>3, PageKeepsInv
<1>6. ASSUME NEW t \in Tenant, NEW g \in Trace, Open(t, g) PROVE Inv'
  <2> DEFINE promised == IF Shows(t, g) THEN walk.items[g] ELSE {}
  <2>1. /\ opened' = [tenant |-> t, promised |-> promised, spans |-> SpansOf(t, g)]
        /\ UNCHANGED <<clock, stored, walk, walks>>
    BY <1>6 DEF Open
  <2>2. promised \subseteq SpansOf(t, g)
    <3>1. CASE Shows(t, g)
      <4>1. Described(walk)
        BY <1>0, <3>1 DEF Shows, Walking, NoWalk
      <4> QED
        BY <3>1, <4>1 DEF Shows, Described
    <3> QED
      BY <3>1
  <2>3. SpansOf(t, g) \subseteq Row /\ \A r \in SpansOf(t, g) : Data[r].tenant = t
    BY <1>0 DEF SpansOf, BaseInv
  <2> HIDE DEF promised
  <2>4. OpenedInv'
    BY <2>1, <2>2, <2>3 DEF OpenedInv
  <2> QED
    BY <1>0, <1>1, <2>1, <2>4 DEF Inv, BaseInv
<1>7. CASE UNCHANGED vars
  BY <1>0, <1>1, <1>7 DEF vars, Inv, BaseInv, OpenedInv
<1> QED
  BY <1>2, <1>3, <1>4, <1>5, <1>6, <1>7 DEF Next

LEMMA Invariance == Spec => []Inv
<1> QED
  BY InitInv, NextInv, PTL DEF Spec

-------------------------------------------------------------------------------
(* The theorems. *)

\* The variables keep their types.
THEOREM TypeCorrect == Spec => []TypeOK
<1>1. ASSUME Inv PROVE TypeOK
  <2>1. /\ clock \in Instant /\ stored \subseteq Row /\ walks \in 0..MaxWalk
        /\ opened.tenant \in Tenant /\ opened.promised \cup opened.spans \subseteq Row
    BY <1>1 DEF Inv, BaseInv, OpenedInv, Instant
  <2>2. CASE walk = NoWalk
    BY <2>1, <2>2 DEF TypeOK, NoWalk, NoItems
  <2>3. CASE Walking
    BY <2>1, <2>3 DEF TypeOK, Walking, WalkOK
  <2> QED
    BY <1>1, <2>2, <2>3 DEF Inv
<1> QED
  BY <1>1, Invariance, PTL

\* A walk misses a group of its first query only if a group moved or two had the same key.
THEOREM SkipsNeedMovesHolds == Spec => []SkipsNeedMoves
<1>1. Inv => SkipsNeedMoves
  BY DEF Inv, Walking, DoneOK, Sized, SkipsNeedMoves, Unclamped, NoWalk
<1> QED
  BY <1>1, Invariance, PTL

\* A walk lists a group twice only if groups came, moved or had the same key.
THEOREM RepeatsNeedChangesHolds == Spec => []RepeatsNeedChanges
<1>1. Inv => RepeatsNeedChanges
  BY DEF Inv, Walking, WalkOK, Sized, RepeatsNeedChanges, Unclamped, NoWalk
<1> QED
  BY <1>1, Invariance, PTL

\* What the list has shown of a trace is found when it is opened, and nothing of another tenant.
THEOREM OpenedKeepsPromiseHolds == Spec => []OpenedKeepsPromise
<1>1. Inv => OpenedKeepsPromise
  BY DEF Inv, OpenedInv, OpenedKeepsPromise
<1> QED
  BY <1>1, Invariance, PTL

\* The bound of the window is the start of a second.
LEMMA BoundOf ==
  ASSUME NEW m \in Nat
  PROVE  Bound(m) \in Int /\ Bound(m) <= m /\ m - Second < Bound(m)
<1>1. m % Second \in 0..(Second - 1)
  OBVIOUS
<1> QED
  BY <1>1 DEF Bound

\* Rows of the last hour are in the default window.
THEOREM FreshRowsAreListedHolds == Spec => []FreshRowsAreListed
<1>1. ASSUME Inv PROVE FreshRowsAreListed
  <2> SUFFICES ASSUME NEW r \in stored
               PROVE  LET d == Data[r]
                          sent == IF d.ts # Unset THEN d.ts ELSE d.observed
                          q == [signal |-> d.signal, tenant |-> d.tenant,
                                service |-> AnyService, longer |-> 0, window |-> NoWindow,
                                sort |-> "ts", order |-> "desc", limit |-> MaxLimit]
                      IN /\ d.signal = "logs" /\ clock - Hour <= sent /\ sent <= clock
                            => r \in Rows(q)
                         /\ d.signal = "traces" /\ clock - Hour <= d.ts
                               /\ d.ts <= clock - Second => r \in Rows(q)
    BY DEF FreshRowsAreListed
  <2> DEFINE d == Data[r]
             sent == IF d.ts # Unset THEN d.ts ELSE d.observed
             q == [signal |-> d.signal, tenant |-> d.tenant, service |-> AnyService,
                   longer |-> 0, window |-> NoWindow, sort |-> "ts", order |-> "desc",
                   limit |-> MaxLimit]
  <2>1. r \in Row /\ clock \in Nat /\ Hour < clock
    BY <1>1 DEF Inv, BaseInv
  <2>2. /\ d.ts \in Nat /\ d.observed \in Nat /\ d.duration \in 0..MaxDuration
        /\ Stamp(r) \in Nat
    BY <2>1, DataType DEF Instant
  <2>3. Passes(q, r)
    BY <2>2 DEF Passes
  <2>4. /\ WindowOf(q).from = clock - Hour
        /\ WindowOf(q).to = IF d.signal = "logs" THEN clock + Second ELSE clock
    BY DEF WindowOf, DefaultWindow, NoWindow
  <2>5. /\ Bound(clock - Hour) \in Int /\ Bound(clock - Hour) <= clock - Hour
        /\ Bound(clock) \in Int /\ clock - Second < Bound(clock)
        /\ Bound(clock + Second) \in Int /\ clock < Bound(clock + Second)
    <3>1. clock - Hour \in Nat /\ clock + Second \in Nat /\ (clock + Second) - Second = clock
      BY <2>1
    <3> QED
      BY <2>1, <3>1, BoundOf
  <2>6. ASSUME d.signal = "logs", clock - Hour <= sent, sent <= clock PROVE r \in Rows(q)
    <3>1. Stamp(r) = sent
      BY <2>6 DEF Stamp
    <3> HIDE DEF sent, q
    <3> QED
      BY <2>1, <2>2, <2>3, <2>4, <2>5, <2>6, <3>1 DEF Rows
  <2>7. ASSUME d.signal = "traces", clock - Hour <= d.ts, d.ts <= clock - Second
        PROVE  r \in Rows(q)
    <3>1. Stamp(r) = d.ts
      BY <2>7 DEF Stamp
    <3> HIDE DEF sent, q
    <3> QED
      BY <2>1, <2>2, <2>3, <2>4, <2>5, <2>7, <3>1 DEF Rows
  <2> QED
    BY <2>6, <2>7
<1> QED
  BY <1>1, Invariance, PTL

-------------------------------------------------------------------------------
(* The walk of a client through the logs from an instant of its own on. *)

OwnStart(q) == q.signal = "logs" /\ q.window.from # NotGiven

\* The rows R of the query are its groups, and the keys their timestamps: none moves.
LogsOK(w, R) ==
  /\ Sized(w) /\ Accepted(w.query) /\ ~w.moved
  /\ DOMAIN w.keys \subseteq R
  /\ \A g \in DOMAIN w.keys : w.keys[g] = Stamp(g)
  /\ w.tied => \E r, s \in R : r # s /\ Stamp(r) = Stamp(s)

LogsInv ==
  walk.pc # "idle" /\ OwnStart(walk.query) => LogsOK(walk, Rows(walk.query))

LEMMA LogKeys ==
  ASSUME stored \subseteq Row, NEW q, q.signal = "logs", Accepted(q)
  PROVE  /\ DOMAIN Keys(q) = Rows(q)
         /\ \A r \in Rows(q) : Keys(q)[r] = Stamp(r)
<1>1. \A r \in Rows(q) : GroupOf(r) = r
  BY DEF Rows, Passes, GroupOf
<1>2. {GroupOf(r) : r \in Rows(q)} = Rows(q)
  BY <1>1
<1>3. ASSUME NEW r \in Rows(q) PROVE Earliest(RowsOf(q, r)) = Stamp(r)
  <2>1. RowsOf(q, r) = {r}
    BY <1>1 DEF RowsOf
  <2>2. Stamp(r) \in Nat
    BY DataType DEF Rows
  <2>3. {Stamp(s) : s \in {r}} = {Stamp(r)}
    OBVIOUS
  <2>4. Earliest({r}) = CHOOSE m \in {Stamp(r)} : \A s \in {r} : m <= Stamp(s)
    BY <2>3 DEF Earliest
  <2>5. \E m \in {Stamp(r)} : \A s \in {r} : m <= Stamp(s)
    BY <2>2
  <2> QED
    BY <2>1, <2>4, <2>5
<1>4. q.sort = "ts"
  BY DEF Accepted
<1> QED
  BY <1>2, <1>3, <1>4 DEF Keys

\* The bounds of seconds are in the order of the instants.
LEMMA BoundGrows == ASSUME NEW m \in Nat, NEW n \in Nat, m <= n PROVE Bound(m) <= Bound(n)
<1> DEFINE i == m \div Second
           j == n \div Second
<1>1. /\ i \in Nat /\ j \in Nat /\ i <= j
      /\ m % Second = m - Second * i /\ n % Second = n - Second * j
  OBVIOUS
<1> HIDE DEF i, j
<1>2. Second * i <= Second * j
  BY <1>1
<1> QED
  BY <1>1, <1>2 DEF Bound

\* As time passes and rows are stored, no row leaves such a window.
LEMMA RowsGrow ==
  ASSUME stored \subseteq stored', stored' \subseteq Row, clock \in Nat, clock' \in Nat,
         clock <= clock', NEW q \in Asked, OwnStart(q)
  PROVE  Rows(q) \subseteq Rows(q)'
<1>1. /\ WindowOf(q)["from"] = q.window.from /\ WindowOf(q)'["from"] = q.window.from
  BY DEF WindowOf, OwnStart
<1>2. CASE q.window.to # NotGiven
  <2>1. WindowOf(q)["to"] = q.window.to /\ WindowOf(q)'["to"] = q.window.to
    BY <1>2 DEF WindowOf
  <2> QED
    BY <1>1, <2>1 DEF Rows, Passes
<1>3. CASE q.window.to = NotGiven
  <2>1. WindowOf(q)["to"] = clock + Second /\ WindowOf(q)'["to"] = clock' + Second
    BY <1>3 DEF WindowOf, DefaultWindow, OwnStart
  <2>2. Bound(clock + Second) <= Bound(clock' + Second)
    BY BoundGrows
  <2>3. Bound(clock + Second) \in Int /\ Bound(clock' + Second) \in Int
    BY BoundOf
  <2>4. ASSUME NEW r \in Row, Stamp(r) < Bound(clock + Second)
        PROVE  Stamp(r) < Bound(clock' + Second)
    BY <2>2, <2>3, <2>4, DataType
  <2> QED
    BY <1>1, <2>1, <2>4 DEF Rows, Passes
<1> QED
  BY <1>2, <1>3

\* Each page of such a walk leaves the logs it had where they were.
LEMMA PageKeepsLogs ==
  ASSUME stored \subseteq Row, NEW w, w.query.signal = "logs", NEW tie,
         LogsOK(w, Rows(w.query)), w.tied \in BOOLEAN, w.moved \in BOOLEAN
  PROVE  LogsOK(Listed(w, Keys(w.query), tie), Rows(w.query))
<1> DEFINE q == w.query
           keys == Keys(q)
           x == Listed(w, keys, tie)
<1>1. DOMAIN keys = Rows(q) /\ \A r \in Rows(q) : keys[r] = Stamp(r)
  BY LogKeys DEF LogsOK
<1>2. /\ x.query = q /\ x.keys = keys
      /\ x.moved = (w.moved \/ \E g \in DOMAIN w.keys :
                                  g \notin DOMAIN keys \/ keys[g] # w.keys[g])
      /\ x.tied = (w.tied \/ \E g, h \in DOMAIN keys : g # h /\ keys[g] = keys[h])
  BY DEF Listed
<1> HIDE DEF x, keys
<1>3. \A g \in DOMAIN w.keys : g \in DOMAIN keys /\ keys[g] = w.keys[g]
  BY <1>1 DEF LogsOK
<1>4. ~x.moved
  BY <1>2, <1>3 DEF LogsOK
<1>5. ASSUME x.tied PROVE \E r, s \in Rows(q) : r # s /\ Stamp(r) = Stamp(s)
  <2>1. CASE w.tied
    BY <2>1 DEF LogsOK
  <2>2. CASE \E g, h \in DOMAIN keys : g # h /\ keys[g] = keys[h]
    BY <1>1, <2>2
  <2> QED
    BY <1>2, <1>5, <2>1, <2>2
<1>6. Sized(x) /\ Accepted(x.query)
  BY <1>2 DEF LogsOK, Sized
<1> QED
  BY <1>1, <1>2, <1>4, <1>5, <1>6 DEF LogsOK, x, keys

LEMMA NextLogsInv == Inv /\ LogsInv /\ [Next]_vars => LogsInv'
<1> SUFFICES ASSUME Inv, LogsInv, [Next]_vars PROVE LogsInv'
  OBVIOUS
<1>0. stored \subseteq Row
  BY DEF Inv, BaseInv
<1>1. ASSUME stored \subseteq stored', stored' \subseteq Row, clock' \in Nat, clock <= clock',
             walk' = walk
      PROVE  LogsInv'
  <2> SUFFICES ASSUME walk.pc # "idle", OwnStart(walk.query)
               PROVE  LogsOK(walk, Rows(walk.query)')
    BY <1>1 DEF LogsInv, OwnStart, LogsOK, Rows, WindowOf, DefaultWindow, Sized
  <2>1. LogsOK(walk, Rows(walk.query))
    BY DEF LogsInv
  <2>2. Rows(walk.query) \subseteq Rows(walk.query)'
    <3>1. walk.query \in Asked
      BY DEF Inv, Walking, WalkOK, NoWalk
    <3>2. ASSUME NEW q \in Asked, q = walk.query PROVE Rows(q) \subseteq Rows(q)'
      BY <1>1, <3>2, RowsGrow DEF Inv, BaseInv
    <3> QED
      BY <1>1, <3>1, <3>2
  <2> QED
    BY <2>1, <2>2 DEF LogsOK
<1>2. ASSUME NEW w, OwnStart(w.query), LogsOK(w, Rows(w.query)),
             w.tied \in BOOLEAN, w.moved \in BOOLEAN, NEW tie,
             walk' = Listed(w, Keys(w.query), tie), UNCHANGED <<clock, stored>>
      PROVE  LogsInv'
  <2>1. LogsOK(Listed(w, Keys(w.query), tie), Rows(w.query))
    BY <1>0, <1>2, PageKeepsLogs DEF OwnStart
  <2>2. walk'.query = w.query
    BY <1>2 DEF Listed
  <2>3. Rows(walk.query)' = Rows(w.query)
    BY <1>2, <2>2 DEF Rows, WindowOf, DefaultWindow
  <2> QED
    BY <1>2, <2>1, <2>3 DEF LogsInv, LogsOK, Sized
<1>3. ASSUME NEW q \in Asked, FirstPage(q) PROVE LogsInv'
  <2> DEFINE keys == Keys(q)
             w == [NoWalk EXCEPT !.query = q, !.keys = keys, !.first = DOMAIN keys]
  <2>1. PICK tie \in Ties(DOMAIN keys) : walk' = Listed(w, keys, tie)
    BY <1>3 DEF FirstPage
  <2>2. w.query = q /\ w.keys = keys /\ w.moved = FALSE /\ w.tied = FALSE
    BY DEF NoWalk
  <2>3. Accepted(q) /\ UNCHANGED <<clock, stored>>
    BY <1>3 DEF FirstPage
  <2> HIDE DEF w
  <2>4. CASE OwnStart(q)
    <3>1. DOMAIN keys = Rows(q) /\ \A r \in Rows(q) : keys[r] = Stamp(r)
      BY <1>0, <2>3, <2>4, LogKeys DEF OwnStart
    <3>2. Sized(w)
      BY <2>2, <2>3, <2>4 DEF Sized, Accepted, OwnStart
    <3>3. LogsOK(w, Rows(q))
      BY <2>2, <2>3, <3>1, <3>2 DEF LogsOK
    <3> QED
      BY <1>2, <2>1, <2>2, <2>3, <2>4, <3>3
  <2>5. CASE ~OwnStart(q)
    <3>1. walk'.query = q
      BY <2>1, <2>2 DEF Listed
    <3> QED
      BY <2>5, <3>1 DEF LogsInv, OwnStart
  <2> QED
    BY <2>4, <2>5
<1>4. CASE NextPage
  <2>1. PICK tie \in Ties(DOMAIN Keys(walk.query)) :
                 walk' = Listed(walk, Keys(walk.query), tie)
    BY <1>4 DEF NextPage
  <2>2. walk.pc = "more" /\ UNCHANGED <<clock, stored>>
    BY <1>4 DEF NextPage
  <2>3. walk.tied \in BOOLEAN /\ walk.moved \in BOOLEAN
    BY <2>2 DEF Inv, Walking, WalkOK, NoWalk
  <2>4. walk'.query = walk.query
    BY <2>1 DEF Listed
  <2>5. CASE OwnStart(walk.query)
    BY <1>2, <2>1, <2>2, <2>3, <2>5 DEF LogsInv
  <2>6. CASE ~OwnStart(walk.query)
    BY <2>4, <2>6 DEF LogsInv, OwnStart
  <2> QED
    BY <2>5, <2>6
<1>5. ASSUME NEW r \in Row, StoreRow(r) PROVE LogsInv'
  BY <1>0, <1>1, <1>5 DEF StoreRow, Inv, BaseInv
<1>6. CASE Tick
  BY <1>0, <1>1, <1>6 DEF Tick, Inv, BaseInv
<1>7. ASSUME NEW t \in Tenant, NEW g \in Trace, Open(t, g) PROVE LogsInv'
  BY <1>0, <1>1, <1>7 DEF Open, Inv, BaseInv
<1>8. CASE UNCHANGED vars
  BY <1>0, <1>1, <1>8 DEF vars, Inv, BaseInv
<1> QED
  BY <1>3, <1>4, <1>5, <1>6, <1>7, <1>8 DEF Next

\* A walk through the logs from an explicit instant on misses none that the table had at first, if
\* their timestamps differ.
THEOREM LogsAreNeverSkippedHolds == Spec => []LogsAreNeverSkipped
<1>1. Init => LogsInv
  BY DEF Init, LogsInv, NoWalk
<1>2. Spec => []LogsInv
  BY <1>1, NextLogsInv, Invariance, PTL DEF Spec
<1>3. Inv /\ LogsInv => LogsAreNeverSkipped
  <2> SUFFICES ASSUME Inv, LogsInv, walk.pc = "done", OwnStart(walk.query),
                      \A r, s \in Rows(walk.query) : Stamp(r) = Stamp(s) => r = s
               PROVE  walk.first \subseteq walk.listed
    BY DEF LogsAreNeverSkipped, OwnStart
  <2>1. LogsOK(walk, Rows(walk.query))
    BY DEF LogsInv
  <2>2. DoneOK(walk)
    BY DEF Inv, Walking, NoWalk
  <2> QED
    BY <2>1, <2>2 DEF LogsOK, DoneOK
<1> QED
  BY <1>2, <1>3, Invariance, PTL

===============================================================================
