--------------------------- MODULE RetrievalProofs ---------------------------
(***************************************************************************)
(* The retrieval service for any collection files, embedders, flags,       *)
(* profiles, queries and crashes: no answer shows a memory to anyone but   *)
(* its owner, vectors that are compared are of one embedder, a grounding   *)
(* block holds what was found within its budget, and a collection file is  *)
(* the whole text of a source tree.                                        *)
(*                                                                         *)
(* The operators of Grounding and Corpus are folds over sequences and      *)
(* sets.  A fold is a function by recursion over the subsets of its        *)
(* indices; that the function exists and that its values stay in a set     *)
(* follow from a least counterexample, a subset of the fewest elements.    *)
(* Such facts come first, then how chunking keeps a text, by induction on  *)
(* sequences one element at a time, then the invariant and a lemma per     *)
(* action.                                                                 *)
(***************************************************************************)
EXTENDS Retrieval, FiniteSetTheorems, SequenceTheorems, WellFoundedInduction, TLAPS

-----------------------------------------------------------------------------
(* Numbers: least and greatest elements. *)

Less == {ss \in Nat \X Nat : ss[1] < ss[2]}

LEMMA LessIs == OpToRel(<, Nat) = Less
  BY Zenon DEF OpToRel, Less

LEMMA LeastOf == ASSUME NEW T, T \subseteq Nat, T # {} PROVE \E n \in T : \A m \in T : n <= m
  <1>1. IsWellFoundedOn(Less, Nat)
    BY Zenon, NatLessThanWellFounded, LessIs
  <1>2. PICK n \in T : \A m \in T : ~(<<m, n>> \in Less)
    BY <1>1, WFMin
  <1>3. \A m \in T : ~(m < n)
    BY <1>2 DEF Less
  <1>. QED BY <1>3

LEMMA GreatestOf ==
    ASSUME NEW N \in Nat, NEW T, T \subseteq Nat, T # {}, \A c \in T : c <= N
    PROVE  Max(T) \in T /\ \A y \in T : y <= Max(T)
  <1>1. PICK D : D = {N - c : c \in T}
    OBVIOUS
  <1>2. D \subseteq Nat /\ D # {}
    <2>1. \A c \in T : N - c \in Nat
      OBVIOUS
    <2>. QED BY <1>1, <2>1
  <1>3. PICK d \in D : \A e \in D : d <= e
    BY <1>2, LeastOf
  <1>4. PICK x \in T : d = N - x
    BY <1>1
  <1>5. ASSUME NEW y \in T PROVE y <= x
    <2>1. N - y \in D
      BY <1>1
    <2>. QED BY <1>3, <1>4, <2>1
  <1>6. \A y \in T : x >= y
    BY <1>5
  <1>7. Max(T) \in T /\ \A y \in T : Max(T) >= y
    BY <1>6 DEF Max
  <1>. QED BY <1>7

LEMMA MinOf == ASSUME NEW T, T \subseteq Nat, T # {} PROVE Min(T) \in T /\ \A m \in T : Min(T) <= m
  BY LeastOf DEF Min

LEMMA MinTwo == ASSUME NEW a \in Int, NEW b \in Int PROVE Min({a, b}) = IF a <= b THEN a ELSE b
  BY DEF Min

LEMMA MaxTwo == ASSUME NEW a \in Int, NEW b \in Int PROVE Max({a, b}) = IF a >= b THEN a ELSE b
  BY DEF Max

LEMMA MinThree ==
    ASSUME NEW a \in Int, NEW b \in Int, NEW c \in Int
    PROVE  /\ Min({a, b, c}) \in {a, b, c}
           /\ Min({a, b, c}) <= a /\ Min({a, b, c}) <= b /\ Min({a, b, c}) <= c
  <1>1. \E x \in {a, b, c} : \A y \in {a, b, c} : x <= y
    OBVIOUS
  <1>. QED BY <1>1 DEF Min

-----------------------------------------------------------------------------
(* Folds.  A fold over a finite set takes its elements away one by one, in   *)
(* the order ch; F is its step, and V a set of values the step stays in.     *)

Upto(S, n) == {s \in SUBSET S : Cardinality(s) <= n}

Unfold(g, D, b, ch, F) == g = [s \in D |-> IF s = {} THEN b ELSE F[<<ch[s], g[s \ {ch[s]}]>>]]

Chooser(ch, S) == \A s \in SUBSET S : s # {} => ch[s] \in s

LEMMA Rest ==
    ASSUME NEW S, IsFiniteSet(S), NEW ch, Chooser(ch, S), NEW s \in SUBSET S, s # {}
    PROVE  /\ ch[s] \in s /\ ch[s] \in S /\ s \ {ch[s]} \in SUBSET S
           /\ Cardinality(s) \in Nat /\ Cardinality(s \ {ch[s]}) \in Nat
           /\ Cardinality(s \ {ch[s]}) = Cardinality(s) - 1
  <1>1. ch[s] \in s  BY DEF Chooser
  <1>2. IsFiniteSet(s) BY FS_Subset
  <1>3. Cardinality(s) \in Nat BY <1>2, FS_CardinalityType
  <1>4. IsFiniteSet(s \ {ch[s]}) /\ Cardinality(s \ {ch[s]}) = Cardinality(s) - 1
    BY <1>1, <1>2, FS_RemoveElement
  <1>5. Cardinality(s \ {ch[s]}) \in Nat BY <1>4, FS_CardinalityType
  <1>. QED BY <1>1, <1>3, <1>4, <1>5

LEMMA FoldIn ==
    ASSUME NEW S, IsFiniteSet(S), NEW ch, Chooser(ch, S), NEW V, NEW h, h[{}] \in V,
           \A s \in SUBSET S : s # {} /\ h[s \ {ch[s]}] \in V => h[s] \in V
    PROVE  \A s \in SUBSET S : h[s] \in V
  <1>. DEFINE Bad == {n \in Nat : \E s \in SUBSET S : Cardinality(s) = n /\ h[s] \notin V}
  <1>1. ASSUME Bad # {} PROVE FALSE
    <2>1. PICK n \in Bad : \A m \in Bad : n <= m
      <3>1. Bad \subseteq Nat OBVIOUS
      <3>2. PICK T : T = Bad OBVIOUS
      <3>. HIDE DEF Bad
      <3>. QED BY <1>1, <3>1, <3>2, LeastOf
    <2>2. PICK s \in SUBSET S : Cardinality(s) = n /\ h[s] \notin V
      BY <2>1
    <2>3. s # {}
      BY <2>2
    <2>4. /\ s \ {ch[s]} \in SUBSET S /\ n \in Nat
          /\ Cardinality(s \ {ch[s]}) \in Nat /\ Cardinality(s \ {ch[s]}) = n - 1
      BY <2>2, <2>3, Rest
    <2>5. n - 1 \in Nat /\ n - 1 \notin Bad
      <3>1. n - 1 \in Nat BY <2>4
      <3>. HIDE DEF Bad
      <3>. QED BY <2>1, <2>4, <3>1
    <2>6. h[s \ {ch[s]}] \in V
      BY <2>4, <2>5
    <2>. QED BY <2>2, <2>3, <2>6
  <1>2. ASSUME NEW s \in SUBSET S PROVE h[s] \in V
    <2>1. Cardinality(s) \in Nat
      BY FS_Subset, FS_CardinalityType
    <2>. QED BY <1>1, <2>1
  <1>. QED BY <1>2

Closed(F, S, V) == \A x \in S : \A v \in V : F[<<x, v>>] \in V

Foldable(S, V, b, ch, F) == \E g : Unfold(g, SUBSET S, b, ch, F) /\ \A s \in SUBSET S : g[s] \in V

LEMMA FoldExists ==
    ASSUME NEW S, IsFiniteSet(S), NEW ch, Chooser(ch, S), NEW V, NEW b \in V,
           NEW F, Closed(F, S, V)
    PROVE  Foldable(S, V, b, ch, F)
  <1>. DEFINE Bad == {n \in Nat : ~\E g : Unfold(g, Upto(S, n), b, ch, F)}
  <1>1. ASSUME Bad # {} PROVE FALSE
    <2>1. PICK n \in Bad : \A m \in Bad : n <= m
      <3>1. Bad \subseteq Nat OBVIOUS
      <3>2. PICK T : T = Bad OBVIOUS
      <3>. HIDE DEF Bad
      <3>. QED BY <1>1, <3>1, <3>2, LeastOf
    <2>2. n \in Nat /\ ~\E g : Unfold(g, Upto(S, n), b, ch, F)
      BY <2>1
    <2>3. CASE n = 0
      <3>1. PICK g : g = [s \in Upto(S, n) |-> b]
        OBVIOUS
      <3>2. \A s \in Upto(S, n) : s = {}
        BY <2>3, FS_Subset, FS_CardinalityType, FS_EmptySet DEF Upto
      <3>3. Unfold(g, Upto(S, n), b, ch, F)
        BY <3>1, <3>2 DEF Unfold
      <3>. QED BY <2>2, <3>3
    <2>4. CASE n # 0
      <3>1. n - 1 \in Nat /\ n - 1 \notin Bad
        BY <2>1, <2>2, <2>4
      <3>2. PICK h : Unfold(h, Upto(S, n - 1), b, ch, F)
        BY <3>1
      <3>3. PICK g : g = [s \in Upto(S, n) |-> IF s = {} THEN b ELSE F[<<ch[s], h[s \ {ch[s]}]>>]]
        OBVIOUS
      <3>4. ASSUME NEW s \in Upto(S, n), s # {}
            PROVE  s \ {ch[s]} \in Upto(S, n - 1)
        <4>1. Cardinality(s) \in Nat /\ Cardinality(s) <= n /\ s \in SUBSET S
          BY <3>4, Rest DEF Upto
        <4>2. Cardinality(s \ {ch[s]}) = Cardinality(s) - 1 /\ s \ {ch[s]} \in SUBSET S
          BY <3>4, <4>1, Rest
        <4>. QED BY <2>2, <4>1, <4>2 DEF Upto
      <3>5. \A t \in Upto(S, n - 1) : t \in Upto(S, n) /\ g[t] = h[t]
        <4>1. SUFFICES ASSUME NEW t \in Upto(S, n - 1) PROVE t \in Upto(S, n) /\ g[t] = h[t]
          OBVIOUS
        <4>2. Cardinality(t) \in Nat
          BY FS_Subset, FS_CardinalityType DEF Upto
        <4>3. t \in Upto(S, n)
          BY <2>2, <4>2 DEF Upto
        <4>4. h[t] = IF t = {} THEN b ELSE F[<<ch[t], h[t \ {ch[t]}]>>]
          BY <3>2 DEF Unfold
        <4>. QED BY <3>3, <4>3, <4>4
      <3>6. \A s \in Upto(S, n) : s # {} => g[s \ {ch[s]}] = h[s \ {ch[s]}]
        BY <3>4, <3>5
      <3>7. Unfold(g, Upto(S, n), b, ch, F)
        BY <3>3, <3>6 DEF Unfold
      <3>. QED BY <2>2, <3>7
    <2>. QED BY <2>3, <2>4
  <1>2. Cardinality(S) \in Nat
    BY FS_CardinalityType
  <1>3. PICK g : Unfold(g, Upto(S, Cardinality(S)), b, ch, F)
    BY <1>1, <1>2
  <1>4. Upto(S, Cardinality(S)) = SUBSET S
    BY FS_Subset DEF Upto
  <1>5. Unfold(g, SUBSET S, b, ch, F)
    BY <1>3, <1>4
  <1>6. g[{}] \in V
    BY <1>5 DEF Unfold
  <1>7. ASSUME NEW s \in SUBSET S, s # {} /\ g[s \ {ch[s]}] \in V PROVE g[s] \in V
    <2>1. g[s] = F[<<ch[s], g[s \ {ch[s]}]>>]
      BY <1>5, <1>7 DEF Unfold
    <2>2. ch[s] \in S
      BY <1>7, Rest
    <2>. QED BY <1>7, <2>1, <2>2 DEF Closed
  <1>8. \A s \in SUBSET S : g[s] \in V
    BY <1>6, <1>7, FoldIn
  <1>. QED BY <1>5, <1>8 DEF Foldable

-----------------------------------------------------------------------------
(* Folds over sequences take the last element away.                          *)

LEMMA LastIndex ==
    ASSUME NEW T, NEW q \in Seq(T), NEW s \in SUBSET DOMAIN q, s # {}
    PROVE  Max(s) \in s /\ q[Max(s)] \in T
  <1>1. Len(q) \in Nat /\ DOMAIN q = 1 .. Len(q)
    OBVIOUS
  <1>2. s \subseteq Nat /\ \A c \in s : c <= Len(q)
    BY <1>1
  <1>3. Max(s) \in s
    BY <1>1, <1>2, GreatestOf
  <1>. QED BY <1>1, <1>3

LEMMA Indices == ASSUME NEW T, NEW q \in Seq(T) PROVE IsFiniteSet(DOMAIN q)
  <1>1. Len(q) \in Nat /\ DOMAIN q = 1 .. Len(q)
    OBVIOUS
  <1>. QED BY <1>1, FS_Interval

LEMMA LeftIn ==
    ASSUME NEW T, NEW q \in Seq(T), NEW V, NEW h, h[{}] \in V,
           \A s \in SUBSET DOMAIN q : s # {} /\ h[s \ {Max(s)}] \in V => h[s] \in V
    PROVE  \A s \in SUBSET DOMAIN q : h[s] \in V
  <1>1. PICK ch : ch = [s \in SUBSET DOMAIN q |-> Max(s)]
    OBVIOUS
  <1>2. Chooser(ch, DOMAIN q)
    BY <1>1, LastIndex DEF Chooser
  <1>3. \A s \in SUBSET DOMAIN q : s # {} /\ h[s \ {ch[s]}] \in V => h[s] \in V
    BY <1>1
  <1>. QED BY <1>2, <1>3, Indices, FoldIn

LeftUnfold(g, q, b, F) ==
    g = [s \in SUBSET DOMAIN q |-> IF s = {} THEN b ELSE F[<<g[s \ {Max(s)}], q[Max(s)]>>]]

LEMMA LeftExists ==
    ASSUME NEW T, NEW q \in Seq(T), NEW V, NEW b \in V,
           NEW F, \A x \in T, v \in V : F[<<v, x>>] \in V
    PROVE  \E g : LeftUnfold(g, q, b, F) /\ \A s \in SUBSET DOMAIN q : g[s] \in V
  <1>1. PICK ch : ch = [s \in SUBSET DOMAIN q |-> Max(s)]
    OBVIOUS
  <1>2. Chooser(ch, DOMAIN q)
    BY <1>1, LastIndex DEF Chooser
  <1>3. PICK G : G = [p \in (DOMAIN q) \X V |-> F[<<p[2], q[p[1]]>>]]
    OBVIOUS
  <1>4. \A i \in DOMAIN q, v \in V : G[<<i, v>>] = F[<<v, q[i]>>] /\ G[<<i, v>>] \in V
    BY <1>3
  <1>5. PICK g : Unfold(g, SUBSET DOMAIN q, b, ch, G) /\ \A s \in SUBSET DOMAIN q : g[s] \in V
    <2>1. PICK D : D = DOMAIN q
      OBVIOUS
    <2>2. IsFiniteSet(D) /\ Chooser(ch, D) /\ Closed(G, D, V)
      BY <1>2, <1>4, <2>1, Indices DEF Closed
    <2>3. Foldable(D, V, b, ch, G)
      BY <2>2, FoldExists
    <2>. QED BY <2>1, <2>3 DEF Foldable
  <1>6. ASSUME NEW s \in SUBSET DOMAIN q, s # {}
        PROVE  G[<<ch[s], g[s \ {ch[s]}]>>] = F[<<g[s \ {Max(s)}], q[Max(s)]>>]
    <2>1. ch[s] = Max(s) /\ Max(s) \in DOMAIN q
      BY <1>1, <1>6, LastIndex
    <2>2. g[s \ {Max(s)}] \in V
      BY <1>5
    <2>. QED BY <1>4, <2>1, <2>2
  <1>7. LeftUnfold(g, q, b, F)
    BY <1>5, <1>6 DEF Unfold, LeftUnfold
  <1>. QED BY <1>5, <1>7

-----------------------------------------------------------------------------
(* Hits: ranking, listing, selecting and joining keep to a set of values.    *)

RankedBy(g, q) ==
    g = [s \in SUBSET DOMAIN q |-> IF s = {} THEN <<>> ELSE insertRanked(g[s \ {Max(s)}], q[Max(s)])]

LEMMA InsertIn ==
    ASSUME NEW T, NEW v \in Seq(T), NEW x \in T PROVE insertRanked(v, x) \in Seq(T)
  <1>1. PICK I : I = {i \in DOMAIN v : v[i].score >= x.score}
    OBVIOUS
  <1>2. IsFiniteSet(DOMAIN v) /\ Cardinality(DOMAIN v) = Len(v) /\ I \in SUBSET DOMAIN v
    <2>1. Len(v) \in Nat /\ DOMAIN v = 1 .. Len(v)
      OBVIOUS
    <2>2. IsFiniteSet(1 .. Len(v)) /\ Cardinality(1 .. Len(v)) = Len(v)
      BY <2>1, FS_Interval
    <2>. QED BY <1>1, <2>1, <2>2
  <1>3. Cardinality(I) \in Nat /\ Cardinality(I) <= Len(v)
    BY <1>2, FS_Subset, FS_CardinalityType
  <1>4. PICK k : k = Cardinality(I)
    OBVIOUS
  <1>5. insertRanked(v, x) = SubSeq(v, 1, (1 + k) - 1) \o <<x>> \o SubSeq(v, 1 + k, Len(v))
    BY <1>1, <1>4 DEF insertRanked, InsertAt
  <1>6. SubSeq(v, 1, (1 + k) - 1) \in Seq(T) /\ SubSeq(v, 1 + k, Len(v)) \in Seq(T) /\ <<x>> \in Seq(T)
    BY <1>3, <1>4, SubSeqProperties
  <1>. QED BY <1>5, <1>6

LEMMA RankedIn == ASSUME NEW T, NEW q \in Seq(T) PROVE Ranked(q) \in Seq(T)
  <1>1. PICK F : F = [p \in Seq(T) \X T |-> insertRanked(p[1], p[2])]
    OBVIOUS
  <1>2. \A x \in T, v \in Seq(T) : F[<<v, x>>] = insertRanked(v, x) /\ F[<<v, x>>] \in Seq(T)
    BY <1>1, InsertIn
  <1>3. PICK g : LeftUnfold(g, q, <<>>, F) /\ \A s \in SUBSET DOMAIN q : g[s] \in Seq(T)
    <2>1. <<>> \in Seq(T)
      OBVIOUS
    <2>. QED BY <1>2, <2>1, LeftExists
  <1>4. RankedBy(g, q)
    <2>1. \A s \in SUBSET DOMAIN q : s # {} =>
            F[<<g[s \ {Max(s)}], q[Max(s)]>>] = insertRanked(g[s \ {Max(s)}], q[Max(s)])
      BY <1>2, <1>3, LastIndex
    <2>. QED BY <1>3, <2>1 DEF LeftUnfold, RankedBy
  <1>5. PICK h : h = CHOOSE k : RankedBy(k, q)
    OBVIOUS
  <1>6. RankedBy(h, q)
    BY <1>4, <1>5
  <1>7. ASSUME NEW s \in SUBSET DOMAIN q, s # {} /\ h[s \ {Max(s)}] \in Seq(T) PROVE h[s] \in Seq(T)
    <2>1. h[s] = insertRanked(h[s \ {Max(s)}], q[Max(s)]) /\ q[Max(s)] \in T
      BY <1>6, <1>7, LastIndex DEF RankedBy
    <2>. QED BY <1>7, <2>1, InsertIn
  <1>8. h[{}] \in Seq(T)
    BY <1>6 DEF RankedBy
  <1>9. h[DOMAIN q] \in Seq(T)
    BY <1>7, <1>8, LeftIn
  <1>10. Ranked(q) = h[DOMAIN q]
    BY <1>5 DEF Ranked, FoldLeft, MapThenFoldSet, RankedBy
  <1>. QED BY <1>9, <1>10

OnlyBy(g, q, S) ==
    g = [s \in SUBSET DOMAIN q |->
           IF s = {} THEN <<>>
           ELSE IF q[Max(s)] \in S THEN Append(g[s \ {Max(s)}], q[Max(s)]) ELSE g[s \ {Max(s)}]]

LEMMA OnlyIn == ASSUME NEW T, NEW q \in Seq(T), NEW S PROVE Only(q, S) \in Seq(S \cap T)
  <1>1. PICK V : V = Seq(S \cap T)
    OBVIOUS
  <1>2. PICK F : F = [p \in V \X T |-> IF p[2] \in S THEN Append(p[1], p[2]) ELSE p[1]]
    OBVIOUS
  <1>3. \A x \in T, v \in V : F[<<v, x>>] = (IF x \in S THEN Append(v, x) ELSE v) /\ F[<<v, x>>] \in V
    BY <1>1, <1>2
  <1>4. PICK g : LeftUnfold(g, q, <<>>, F) /\ \A s \in SUBSET DOMAIN q : g[s] \in V
    <2>1. <<>> \in V
      BY <1>1
    <2>. QED BY <1>3, <2>1, LeftExists
  <1>5. OnlyBy(g, q, S)
    <2>1. \A s \in SUBSET DOMAIN q : s # {} =>
            F[<<g[s \ {Max(s)}], q[Max(s)]>>]
              = (IF q[Max(s)] \in S THEN Append(g[s \ {Max(s)}], q[Max(s)]) ELSE g[s \ {Max(s)}])
      BY <1>3, <1>4, LastIndex
    <2>. QED BY <1>4, <2>1 DEF LeftUnfold, OnlyBy
  <1>6. PICK h : h = CHOOSE k : OnlyBy(k, q, S)
    OBVIOUS
  <1>7. OnlyBy(h, q, S)
    BY <1>5, <1>6
  <1>8. ASSUME NEW s \in SUBSET DOMAIN q, s # {} /\ h[s \ {Max(s)}] \in V PROVE h[s] \in V
    <2>1. /\ q[Max(s)] \in T
          /\ h[s] = IF q[Max(s)] \in S THEN Append(h[s \ {Max(s)}], q[Max(s)]) ELSE h[s \ {Max(s)}]
      BY <1>7, <1>8, LastIndex DEF OnlyBy
    <2>. QED BY <1>1, <1>8, <2>1
  <1>9. h[{}] \in V
    BY <1>1, <1>7 DEF OnlyBy
  <1>10. h[DOMAIN q] \in V
    BY <1>8, <1>9, LeftIn
  <1>11. Only(q, S) = h[DOMAIN q]
    BY <1>6 DEF Only, FoldLeft, MapThenFoldSet, OnlyBy
  <1>. QED BY <1>1, <1>10, <1>11

LEMMA TakeIn ==
    ASSUME NEW T, NEW q \in Seq(T), NEW k \in Nat PROVE Take(q, k) \in Seq(T) /\ Len(Take(q, k)) <= k
  <1>1. PICK m : m = Min({k, Len(q)})
    OBVIOUS
  <1>2. m \in Nat /\ m <= Len(q) /\ m <= k
    BY <1>1, MinTwo
  <1>3. SubSeq(q, 1, m) \in Seq(T) /\ Len(SubSeq(q, 1, m)) = m
    BY <1>2, SubSeqProperties
  <1>. QED BY <1>1, <1>2, <1>3 DEF Take

(* Folds over sets take an arbitrary element away.                           *)
AnyOf(S) == [s \in SUBSET S |-> CHOOSE x \in s : TRUE]

LEMMA AnyChooser == ASSUME NEW S PROVE Chooser(AnyOf(S), S)
  BY DEF Chooser, AnyOf

ListedBy(g, S) ==
    g = [s \in SUBSET S |->
           IF s = {} THEN <<>> ELSE Append(g[s \ {CHOOSE x \in s : TRUE}], CHOOSE x \in s : TRUE)]

LEMMA ListedIn == ASSUME NEW S, IsFiniteSet(S) PROVE Listed(S) \in Seq(S)
  <1>1. PICK V : V = Seq(S)
    OBVIOUS
  <1>2. PICK ch : ch = AnyOf(S)
    OBVIOUS
  <1>3. /\ Chooser(ch, S)
        /\ \A s \in SUBSET S : ch[s] = CHOOSE x \in s : TRUE
        /\ \A s \in SUBSET S : s # {} => ch[s] \in S
    BY <1>2, AnyChooser DEF AnyOf, Chooser
  <1>4. PICK F : F = [p \in S \X V |-> Append(p[2], p[1])]
    OBVIOUS
  <1>5. \A x \in S, v \in V : F[<<x, v>>] = Append(v, x) /\ F[<<x, v>>] \in V
    BY <1>1, <1>4
  <1>6. Foldable(S, V, <<>>, ch, F)
    <2>1. <<>> \in V /\ Closed(F, S, V)
      BY <1>1, <1>5 DEF Closed
    <2>. QED BY <1>3, <2>1, FoldExists
  <1>7. PICK g : Unfold(g, SUBSET S, <<>>, ch, F) /\ \A s \in SUBSET S : g[s] \in V
    BY <1>6 DEF Foldable
  <1>8. ListedBy(g, S)
    <2>1. \A s \in SUBSET S : s # {} => F[<<ch[s], g[s \ {ch[s]}]>>] = Append(g[s \ {ch[s]}], ch[s])
      BY <1>3, <1>5, <1>7
    <2>2. g = [s \in SUBSET S |-> IF s = {} THEN <<>> ELSE Append(g[s \ {ch[s]}], ch[s])]
      BY <1>7, <2>1 DEF Unfold
    <2>. QED BY <1>3, <2>2 DEF ListedBy
  <1>9. PICK h : h = CHOOSE k : ListedBy(k, S)
    OBVIOUS
  <1>10. ListedBy(h, S)
    BY <1>8, <1>9
  <1>11. ASSUME NEW s \in SUBSET S, s # {} /\ h[s \ {ch[s]}] \in V PROVE h[s] \in V
    <2>1. h[s] = Append(h[s \ {ch[s]}], ch[s]) /\ ch[s] \in S
      BY <1>3, <1>10, <1>11 DEF ListedBy
    <2>. QED BY <1>1, <1>11, <2>1
  <1>12. h[{}] \in V
    BY <1>1, <1>10 DEF ListedBy
  <1>13. h[S] \in V
    BY <1>3, <1>11, <1>12, FoldIn
  <1>14. Listed(S) = h[S]
    BY <1>9 DEF Listed, FoldSet, MapThenFoldSet, ListedBy
  <1>. QED BY <1>1, <1>13, <1>14

ConcatBy(g, f) ==
    g = [s \in SUBSET DOMAIN f |->
           IF s = {} THEN <<>> ELSE g[s \ {CHOOSE x \in s : TRUE}] \o f[CHOOSE x \in s : TRUE]]

LEMMA ConcatIn ==
    ASSUME NEW T, NEW f, IsFiniteSet(DOMAIN f), \A c \in DOMAIN f : f[c] \in Seq(T)
    PROVE  Concat(f) \in Seq(T)
  <1>1. PICK V : V = Seq(T)
    OBVIOUS
  <1>2. PICK S : S = DOMAIN f
    OBVIOUS
  <1>3. PICK ch : ch = AnyOf(S)
    OBVIOUS
  <1>4. /\ Chooser(ch, S)
        /\ \A s \in SUBSET S : ch[s] = CHOOSE x \in s : TRUE
        /\ \A s \in SUBSET S : s # {} => ch[s] \in S
    BY <1>3, AnyChooser DEF AnyOf, Chooser
  <1>5. PICK F : F = [p \in S \X V |-> p[2] \o f[p[1]]]
    OBVIOUS
  <1>6. \A x \in S, v \in V : F[<<x, v>>] = v \o f[x] /\ F[<<x, v>>] \in V
    <2>1. SUFFICES ASSUME NEW x \in S, NEW v \in V
                   PROVE  F[<<x, v>>] = v \o f[x] /\ F[<<x, v>>] \in V
      OBVIOUS
    <2>2. F[<<x, v>>] = v \o f[x]
      BY <1>5
    <2>3. f[x] \in Seq(T) /\ v \in Seq(T)
      BY <1>1, <1>2
    <2>4. v \o f[x] \in Seq(T)
      BY <2>3, ConcatProperties
    <2>. QED BY <1>1, <2>2, <2>4
  <1>7. Foldable(S, V, <<>>, ch, F)
    <2>1. Closed(F, S, V)
      BY <1>6 DEF Closed
    <2>2. <<>> \in V /\ IsFiniteSet(S)
      BY <1>1, <1>2
    <2>. QED BY <1>4, <2>1, <2>2, FoldExists
  <1>8. PICK g : Unfold(g, SUBSET S, <<>>, ch, F) /\ \A s \in SUBSET S : g[s] \in V
    BY <1>7 DEF Foldable
  <1>9. ConcatBy(g, f)
    <2>1. \A s \in SUBSET S : s # {} => F[<<ch[s], g[s \ {ch[s]}]>>] = g[s \ {ch[s]}] \o f[ch[s]]
      BY <1>4, <1>6, <1>8
    <2>2. g = [s \in SUBSET S |-> IF s = {} THEN <<>> ELSE g[s \ {ch[s]}] \o f[ch[s]]]
      BY <1>8, <2>1 DEF Unfold
    <2>. QED BY <1>2, <1>4, <2>2 DEF ConcatBy
  <1>10. PICK h : h = CHOOSE k : ConcatBy(k, f)
    OBVIOUS
  <1>11. ConcatBy(h, f)
    BY <1>9, <1>10
  <1>12. ASSUME NEW s \in SUBSET S, s # {} /\ h[s \ {ch[s]}] \in V PROVE h[s] \in V
    <2>1. h[s] = h[s \ {ch[s]}] \o f[ch[s]] /\ f[ch[s]] \in V
      BY <1>1, <1>2, <1>4, <1>11, <1>12 DEF ConcatBy
    <2>. QED BY <1>1, <1>12, <2>1
  <1>13. h[{}] \in V
    BY <1>1, <1>11 DEF ConcatBy
  <1>14. h[S] \in V
    BY <1>2, <1>4, <1>12, <1>13, FoldIn
  <1>15. Concat(f) = h[DOMAIN f]
    BY <1>10 DEF Concat, FoldSet, MapThenFoldSet, ConcatBy
  <1>. QED BY <1>1, <1>2, <1>14, <1>15

-----------------------------------------------------------------------------
(* Searching.  Hits is a sequence of hits whose chunks are documents, with   *)
(* no vector or one made by e.                                               *)

DocChunk(c, e) ==
    /\ c.subject = None
    /\ TextLen(c) \in Nat
    /\ c.vec = None \/ c.vec.by = e

Hits(s, e) == s \in Seq(ToSet(s)) /\ \A i \in DOMAIN s : DocChunk(s[i].chunk, e)

LEMMA SeqSelf == ASSUME NEW T, NEW s \in Seq(T) PROVE s \in Seq(ToSet(s)) /\ ToSet(s) \subseteq T
  <1>1. Len(s) \in Nat /\ DOMAIN s = 1 .. Len(s) /\ s = [i \in 1 .. Len(s) |-> s[i]]
    OBVIOUS
  <1>2. \A i \in 1 .. Len(s) : s[i] \in ToSet(s)
    BY <1>1 DEF ToSet
  <1>3. s \in [1 .. Len(s) -> ToSet(s)]
    BY <1>1, <1>2
  <1>4. ToSet(s) \subseteq T
    BY DEF ToSet
  <1>. QED BY <1>1, <1>3, <1>4

(* A sequence over a set of hits with good chunks is a sequence of hits.      *)
LEMMA HitsOf ==
    ASSUME NEW T, NEW s \in Seq(T), NEW e, \A x \in T : DocChunk(x.chunk, e)
    PROVE  Hits(s, e)
  <1>1. s \in Seq(ToSet(s))
    BY SeqSelf
  <1>2. \A i \in DOMAIN s : s[i] \in T
    OBVIOUS
  <1>. QED BY <1>1, <1>2 DEF Hits

LEMMA MergeHits ==
    ASSUME NEW e, NEW v, Hits(v, e), NEW x, DocChunk(x.chunk, e)
    PROVE  Hits(mergeHit(v, x), e)
  <1>1. PICK T : T = ToSet(v)
    OBVIOUS
  <1>2. v \in Seq(T) /\ Len(v) \in Nat /\ DOMAIN v = 1 .. Len(v) /\ \A j \in DOMAIN v : DocChunk(v[j].chunk, e)
    BY <1>1 DEF Hits
  <1>3. PICK i : i = SelectInSeq(v, LAMBDA y : searchResultKey(y) = searchResultKey(x))
    OBVIOUS
  <1>4. i = 0 \/ i \in DOMAIN v
    <2>1. PICK I : I = {j \in 1 .. Len(v) : searchResultKey(v[j]) = searchResultKey(x)}
      OBVIOUS
    <2>2. i = IF I # {} THEN Min(I) ELSE 0
      BY <1>3, <2>1 DEF SelectInSeq
    <2>3. I \subseteq Nat /\ I \subseteq DOMAIN v
      BY <1>2, <2>1
    <2>4. I # {} => Min(I) \in I
      BY <2>3, MinOf
    <2>. QED BY <2>2, <2>3, <2>4
  <1>5. CASE i = 0
    <2>1. PICK y : y = Hit(x.collection, x.chunk, clampUnitScore(x.score))
      OBVIOUS
    <2>2. mergeHit(v, x) = Append(v, y)
      BY <1>3, <1>5, <2>1 DEF mergeHit
    <2>3. y.chunk = x.chunk
      BY <2>1 DEF Hit
    <2>4. \A z \in T : DocChunk(z.chunk, e)
      BY <1>1, <1>2 DEF ToSet
    <2>5. PICK U : U = T \cup {y}
      OBVIOUS
    <2>6. Append(v, y) \in Seq(U) /\ \A z \in U : DocChunk(z.chunk, e)
      BY <1>2, <2>3, <2>4, <2>5
    <2>. QED BY <2>2, <2>6, HitsOf
  <1>6. CASE i # 0
    <2>1. PICK k : k = IF v[i].chunk.vec = None THEN x ELSE v[i]
      OBVIOUS
    <2>2. PICK y : y = Hit(k.collection, k.chunk, EitherScore(v[i].score, x.score))
      OBVIOUS
    <2>3. mergeHit(v, x) = [v EXCEPT ![i] = y]
      BY <1>3, <1>6, <2>1, <2>2 DEF mergeHit
    <2>4. DocChunk(y.chunk, e)
      <3>1. y.chunk = k.chunk
        BY <2>2 DEF Hit
      <3>2. DocChunk(k.chunk, e)
        BY <1>2, <1>4, <1>6, <2>1
      <3>. QED BY <3>1, <3>2
    <2>5. \A z \in T : DocChunk(z.chunk, e)
      BY <1>1, <1>2 DEF ToSet
    <2>6. PICK U : U = T \cup {y}
      OBVIOUS
    <2>7. [v EXCEPT ![i] = y] \in Seq(U) /\ \A z \in U : DocChunk(z.chunk, e)
      BY <1>2, <1>4, <1>6, <2>4, <2>5, <2>6
    <2>. QED BY <2>3, <2>7, HitsOf
  <1>. QED BY <1>5, <1>6

(* The merging fold has no set of values given beforehand: it is built up    *)
(* over longer and longer prefixes.                                          *)
Merging(g, D, q) ==
    g = [s \in D |-> IF s = {} THEN <<>> ELSE mergeHit(g[s \ {Max(s)}], q[Max(s)])]

MergedBy(g, q) == Merging(g, SUBSET DOMAIN q, q)

LEMMA MergeExists == ASSUME NEW T, NEW q \in Seq(T) PROVE \E g : MergedBy(g, q)
  <1>. DEFINE Bad == {n \in Nat : ~\E g : Merging(g, Upto(DOMAIN q, n), q)}
  <1>0. PICK ch : ch = [s \in SUBSET DOMAIN q |-> Max(s)]
    OBVIOUS
  <1>9. PICK S : S = DOMAIN q
    OBVIOUS
  <1>8. Chooser(ch, S) /\ IsFiniteSet(S) /\ \A s \in SUBSET S : ch[s] = Max(s)
    BY <1>0, <1>9, LastIndex, Indices DEF Chooser
  <1>1. ASSUME Bad # {} PROVE FALSE
    <2>1. PICK n \in Bad : \A m \in Bad : n <= m
      <3>1. Bad \subseteq Nat OBVIOUS
      <3>2. PICK B : B = Bad OBVIOUS
      <3>. HIDE DEF Bad
      <3>. QED BY <1>1, <3>1, <3>2, LeastOf
    <2>2. n \in Nat /\ ~\E g : Merging(g, Upto(S, n), q)
      BY <1>9, <2>1
    <2>3. CASE n = 0
      <3>1. PICK g : g = [s \in Upto(S, n) |-> <<>>]
        OBVIOUS
      <3>2. \A s \in Upto(S, n) : s = {}
        BY <1>8, <2>3, FS_Subset, FS_CardinalityType, FS_EmptySet DEF Upto
      <3>3. Merging(g, Upto(S, n), q)
        BY <3>1, <3>2 DEF Merging
      <3>. QED BY <2>2, <3>3
    <2>4. CASE n # 0
      <3>1. n - 1 \in Nat /\ n - 1 \notin Bad
        BY <2>1, <2>2, <2>4
      <3>2. PICK h : Merging(h, Upto(S, n - 1), q)
        BY <1>9, <3>1
      <3>3. PICK g : g = [s \in Upto(S, n) |-> IF s = {} THEN <<>> ELSE mergeHit(h[s \ {Max(s)}], q[Max(s)])]
        OBVIOUS
      <3>4. ASSUME NEW s \in Upto(S, n), s # {}
            PROVE  s \ {Max(s)} \in Upto(S, n - 1)
        <4>1. s \in SUBSET S /\ Cardinality(s) <= n
          BY DEF Upto
        <4>2. /\ s \ {ch[s]} \in SUBSET S /\ Cardinality(s) \in Nat
              /\ Cardinality(s \ {ch[s]}) = Cardinality(s) - 1
          BY <1>8, <3>4, <4>1, Rest
        <4>3. ch[s] = Max(s)
          BY <1>8, <4>1
        <4>. QED BY <2>2, <4>1, <4>2, <4>3 DEF Upto
      <3>5. ASSUME NEW t \in Upto(S, n - 1) PROVE t \in Upto(S, n) /\ g[t] = h[t]
        <4>2. Cardinality(t) \in Nat
          BY <1>8, FS_Subset, FS_CardinalityType DEF Upto
        <4>3. t \in Upto(S, n)
          BY <2>2, <4>2 DEF Upto
        <4>4. h[t] = IF t = {} THEN <<>> ELSE mergeHit(h[t \ {Max(t)}], q[Max(t)])
          BY <3>2 DEF Merging
        <4>. QED BY <3>3, <4>3, <4>4
      <3>6. \A s \in Upto(S, n) : s # {} => g[s \ {Max(s)}] = h[s \ {Max(s)}]
        BY <3>4, <3>5
      <3>7. Merging(g, Upto(S, n), q)
        BY <3>3, <3>6 DEF Merging
      <3>. QED BY <2>2, <3>7
    <2>. QED BY <2>3, <2>4
  <1>2. Cardinality(S) \in Nat
    BY <1>8, FS_CardinalityType
  <1>3. PICK g : Merging(g, Upto(S, Cardinality(S)), q)
    BY <1>1, <1>2, <1>9
  <1>4. Upto(S, Cardinality(S)) = SUBSET S
    BY <1>8, FS_Subset DEF Upto
  <1>. QED BY <1>3, <1>4, <1>9 DEF MergedBy

LEMMA FuseIn ==
    ASSUME NEW e, NEW k \in Nat, NEW dense, Hits(dense, e), NEW lexical, Hits(lexical, e)
    PROVE  Hits(fuseSearchResults(k, dense, lexical), e)
  <1>1. PICK T : T = ToSet(dense) \cup ToSet(lexical)
    OBVIOUS
  <1>2. \A x \in T : DocChunk(x.chunk, e)
    BY <1>1 DEF Hits, ToSet
  <1>3. PICK q : q = dense \o lexical
    OBVIOUS
  <1>4. q \in Seq(T)
    <2>1. dense \in Seq(T) /\ lexical \in Seq(T)
      BY <1>1 DEF Hits
    <2>. QED BY <1>3, <2>1, ConcatProperties
  <1>5. PICK h : h = CHOOSE g : MergedBy(g, q)
    OBVIOUS
  <1>6. MergedBy(h, q)
    BY <1>4, <1>5, MergeExists
  <1>7. PICK V : V = {v \in {h[s] : s \in SUBSET DOMAIN q} : Hits(v, e)}
    OBVIOUS
  <1>8. ASSUME NEW s \in SUBSET DOMAIN q, s # {} /\ h[s \ {Max(s)}] \in V PROVE h[s] \in V
    <2>1. h[s] = mergeHit(h[s \ {Max(s)}], q[Max(s)]) /\ q[Max(s)] \in T
      BY <1>4, <1>6, <1>8, LastIndex DEF MergedBy, Merging
    <2>2. Hits(h[s \ {Max(s)}], e) /\ DocChunk(q[Max(s)].chunk, e)
      BY <1>2, <1>7, <1>8, <2>1
    <2>3. Hits(h[s], e)
      BY <2>1, <2>2, MergeHits
    <2>. QED BY <1>7, <2>3
  <1>9. h[{}] \in V
    <2>1. h[{}] = <<>>
      BY <1>6 DEF MergedBy, Merging
    <2>2. <<>> \in Seq(ToSet(<<>>)) /\ \A i \in DOMAIN <<>> : FALSE
      OBVIOUS
    <2>3. Hits(<<>>, e)
      BY <2>2 DEF Hits
    <2>. QED BY <1>7, <2>1, <2>3
  <1>10. h[DOMAIN q] \in V
    BY <1>4, <1>8, <1>9, LeftIn
  <1>11. PICK m : m = FoldLeft(mergeHit, <<>>, q)
    OBVIOUS
  <1>12. m = h[DOMAIN q]
    BY <1>5, <1>11 DEF FoldLeft, MapThenFoldSet, MergedBy, Merging
  <1>13. Hits(m, e)
    BY <1>7, <1>10, <1>12
  <1>14. PICK U : U = ToSet(m)
    OBVIOUS
  <1>15. m \in Seq(U) /\ \A x \in U : DocChunk(x.chunk, e)
    BY <1>13, <1>14 DEF Hits, ToSet
  <1>16. Take(Ranked(m), k) \in Seq(U)
    BY <1>15, RankedIn, TakeIn
  <1>. QED BY <1>3, <1>11, <1>15, <1>16, HitsOf DEF fuseSearchResults

DocFile(c) ==
    /\ c.chunks \in Seq(ToSet(c.chunks))
    /\ ~isMemoryCollection(c) => \A i \in DOMAIN c.chunks : DocChunk(c.chunks[i], c.embedder)

IndexOK(index) == IsFiniteSet(index) /\ \A c \in index : DocFile(c)

LEMMA ScoredIn ==
    ASSUME NEW table, NEW q, NEW e, NEW c, c.chunks \in Seq(ToSet(c.chunks)),
           \A i \in DOMAIN c.chunks : DocChunk(c.chunks[i], e)
    PROVE  Hits(Scored(table, q, c), e)
  <1>1. PICK s : s = Scored(table, q, c)
    OBVIOUS
  <1>2. PICK n \in Nat : n = Len(c.chunks) /\ DOMAIN c.chunks = 1 .. n
    OBVIOUS
  <1>3. s = [i \in 1 .. n |-> Hit(c.name, c.chunks[i], Score(table, q, c.chunks[i]))]
    BY <1>1, <1>2 DEF Scored
  <1>4. \A i \in 1 .. n : s[i].chunk = c.chunks[i]
    BY <1>3 DEF Hit
  <1>5. PICK U : U = ToSet(s)
    OBVIOUS
  <1>6. s \in Seq(U)
    <2>1. DOMAIN s = 1 .. n /\ \A i \in 1 .. n : s[i] \in U
      BY <1>3, <1>5 DEF ToSet
    <2>2. s = [i \in 1 .. n |-> s[i]]
      BY <1>3
    <2>. QED BY <2>1, <2>2
  <1>7. DOMAIN s = 1 .. n
    BY <1>3
  <1>8. \A i \in DOMAIN s : DocChunk(s[i].chunk, e)
    BY <1>2, <1>4, <1>7
  <1>. QED BY <1>1, <1>5, <1>6, <1>8 DEF Hits

LEMMA HitSet == ASSUME NEW e, NEW s, Hits(s, e) PROVE \A x \in ToSet(s) : DocChunk(x.chunk, e)
  BY DEF Hits, ToSet

(* The best of the hits that are in a set.                                    *)
LEMMA BestIn ==
    ASSUME NEW e, NEW s, Hits(s, e), NEW S, NEW k \in Nat
    PROVE  Hits(Take(Ranked(Only(s, S)), k), e)
  <1>1. PICK T : T = ToSet(s)
    OBVIOUS
  <1>2. s \in Seq(T) /\ \A x \in T : DocChunk(x.chunk, e)
    BY <1>1, HitSet DEF Hits
  <1>3. PICK U : U = S \cap T
    OBVIOUS
  <1>4. Only(s, S) \in Seq(U) /\ \A x \in U : DocChunk(x.chunk, e)
    BY <1>2, <1>3, OnlyIn
  <1>5. Take(Ranked(Only(s, S)), k) \in Seq(U)
    BY <1>4, RankedIn, TakeIn
  <1>. QED BY <1>4, <1>5, HitsOf

LEMMA BestOf ==
    ASSUME NEW e, NEW s, Hits(s, e), NEW k \in Nat
    PROVE  Hits(Take(Ranked(s), k), e)
  <1>1. PICK T : T = ToSet(s)
    OBVIOUS
  <1>2. s \in Seq(T) /\ \A x \in T : DocChunk(x.chunk, e)
    BY <1>1, HitSet DEF Hits
  <1>3. Take(Ranked(s), k) \in Seq(T)
    BY <1>2, RankedIn, TakeIn
  <1>. QED BY <1>2, <1>3, HitsOf

LEMMA ConcatHits ==
    ASSUME NEW e, NEW f, IsFiniteSet(DOMAIN f), \A c \in DOMAIN f : Hits(f[c], e)
    PROVE  Hits(Concat(f), e)
  <1>1. PICK T : T = UNION {ToSet(f[c]) : c \in DOMAIN f}
    OBVIOUS
  <1>2. \A x \in T : DocChunk(x.chunk, e)
    BY <1>1, HitSet
  <1>3. \A c \in DOMAIN f : f[c] \in Seq(T)
    <2>1. SUFFICES ASSUME NEW c \in DOMAIN f PROVE f[c] \in Seq(T)
      OBVIOUS
    <2>2. PICK s : s = f[c]
      OBVIOUS
    <2>3. s \in Seq(ToSet(s)) /\ ToSet(s) \subseteq T
      BY <1>1, <2>2 DEF Hits
    <2>. QED BY <2>2, <2>3
  <1>4. Concat(f) \in Seq(T)
    BY <1>3, ConcatIn
  <1>. QED BY <1>2, <1>4, HitsOf

LEMMA TopKIn ==
    ASSUME NEW c, DocFile(c), ~isMemoryCollection(c), NEW q, NEW len, NEW cap \in Nat, NEW threshold
    PROVE  Hits(topKInCollection(c, q, len, cap, threshold), c.embedder)
  <1>1. PICK s : s = Scored(Sim, q, c)
    OBVIOUS
  <1>2. Hits(s, c.embedder)
    BY <1>1, ScoredIn DEF DocFile
  <1>3. PICK S : S = {h \in ToSet(s) : h.chunk.vec.len = len /\ h.score >= threshold}
    OBVIOUS
  <1>4. topKInCollection(c, q, len, cap, threshold) = Take(Ranked(Only(s, S)), cap)
    BY <1>1, <1>3 DEF topKInCollection
  <1>. QED BY <1>2, <1>4, BestIn

LEMMA IndexSearchIn ==
    ASSUME NEW index, IndexOK(index), NEW q, NEW vec, NEW filter, NEW k \in Nat, NEW cap \in Nat, NEW threshold
    PROVE  Hits(IndexSearch(index, q, vec, filter, k, cap, threshold), vec.by)
  <1>1. PICK C : C = {c \in index : /\ Selects(filter, c)
                                    /\ ~isMemoryCollection(c)
                                    /\ c.embedder = vec.by
                                    /\ c.dim = vec.len}
    OBVIOUS
  <1>2. PICK f : f = [c \in C |-> topKInCollection(c, q, vec.len, cap, threshold)]
    OBVIOUS
  <1>3. IsFiniteSet(DOMAIN f)
    BY <1>1, <1>2, FS_Subset DEF IndexOK
  <1>4. \A c \in DOMAIN f : Hits(f[c], vec.by)
    BY <1>1, <1>2, TopKIn DEF IndexOK
  <1>5. Hits(Concat(f), vec.by)
    BY <1>3, <1>4, ConcatHits
  <1>6. IndexSearch(index, q, vec, filter, k, cap, threshold) = Take(Ranked(Concat(f)), k)
    BY <1>1, <1>2 DEF IndexSearch
  <1>. QED BY <1>5, <1>6, BestOf

LEMMA LexicalIn ==
    ASSUME NEW q, NEW filter, NEW k \in Nat, NEW e
    PROVE  Hits(LexicalSearch(q, filter, k), e)
  <1>1. PICK C : C = {c \in Builtin : Selects(filter, c)}
    OBVIOUS
  <1>2. PICK f : f = [c \in C |-> Scored(Lex, q, c)]
    OBVIOUS
  <1>3. IsFiniteSet(DOMAIN f)
    BY <1>1, <1>2, FS_Subset, BuiltinAssumption
  <1>4. ASSUME NEW c \in DOMAIN f PROVE Hits(f[c], e)
    <2>1. c \in Builtin /\ f[c] = Scored(Lex, q, c)
      BY <1>1, <1>2
    <2>2. c.chunks \in Seq(ToSet(c.chunks)) /\ \A i \in DOMAIN c.chunks : DocChunk(c.chunks[i], e)
      BY <2>1, BuiltinAssumption DEF DocChunk, ToSet
    <2>. QED BY <2>1, <2>2, ScoredIn
  <1>5. PICK s : s = Concat(f)
    OBVIOUS
  <1>6. Hits(s, e)
    BY <1>3, <1>4, <1>5, ConcatHits
  <1>7. PICK S : S = {h \in ToSet(s) : h.score > 0}
    OBVIOUS
  <1>8. LexicalSearch(q, filter, k) = Take(Ranked(Only(s, S)), k)
    BY <1>1, <1>2, <1>5, <1>7 DEF LexicalSearch
  <1>. QED BY <1>6, <1>8, BestIn

(* The injection budget leaves room for the first fragment.                   *)
BudgetOK(b) == b.chunks \in Nat /\ b.chunks > 0 /\ b.bytes \in Nat /\ b.bytes > HitHeader + TruncationMark

LEMMA BudgetIs == ASSUME NEW ctx \in Int, NEW pin \in Int PROVE BudgetOK(groundingBudget(ctx, pin))
  <1>1. PICK d \in Int : d = (ctx \div 5) * 3
    OBVIOUS
  <1>2. PICK b : b = Min({49152, Max({1200, d})})
    OBVIOUS
  <1>3. Max({1200, d}) \in Int /\ Max({1200, d}) >= 1200
    BY MaxTwo
  <1>4. b \in Nat /\ b >= 1200
    BY <1>2, <1>3, MinTwo
  <1>5. CASE pin > 0
    <2>1. groundingBudget(ctx, pin) = [chunks |-> pin, bytes |-> Max({pin * 2000, 8000})]
      BY <1>5 DEF groundingBudget, DefaultMaxBytesInjected
    <2>2. Max({pin * 2000, 8000}) \in Int /\ Max({pin * 2000, 8000}) >= 8000
      BY MaxTwo
    <2>. QED BY <1>5, <2>1, <2>2 DEF BudgetOK, HitHeader, TruncationMark
  <1>6. CASE ~(pin > 0) /\ ctx <= 0
    BY <1>6 DEF groundingBudget, DefaultMaxBytesInjected, DefaultMaxChunksInjected, BudgetOK, HitHeader, TruncationMark
  <1>7. CASE ~(pin > 0) /\ ~(ctx <= 0)
    <2>1. PICK m : m = Max({1, b \div 2000})
      OBVIOUS
    <2>2. m \in Int /\ m >= 1
      BY <1>4, <2>1, MaxTwo
    <2>3. Min({24, m}) \in Nat /\ Min({24, m}) > 0
      BY <2>2, MinTwo
    <2>4. groundingBudget(ctx, pin) = [chunks |-> Min({24, m}), bytes |-> b]
      BY <1>1, <1>2, <1>7, <2>1 DEF groundingBudget
    <2>. QED BY <1>4, <2>3, <2>4 DEF BudgetOK, HitHeader, TruncationMark
  <1>. QED BY <1>5, <1>6, <1>7

LEMMA SearchKIs ==
    ASSUME NEW requested \in Int, NEW fallback \in Int
    PROVE  boundedSearchK(requested, fallback) \in Nat
  <1>1. PICK n : n = IF requested > 0 THEN requested ELSE IF fallback > 0 THEN fallback ELSE DefaultMaxChunksInjected
    OBVIOUS
  <1>2. n \in Nat
    BY <1>1 DEF DefaultMaxChunksInjected
  <1>3. boundedSearchK(requested, fallback) = Min({64, n})
    BY <1>1 DEF boundedSearchK, MaxSearchResults
  <1>4. Min({64, n}) \in Nat
    BY <1>2, MinTwo
  <1>. QED BY <1>3, <1>4

LEMMA SearchIn ==
    ASSUME IndexOK(srv.index), srv.flags.pin \in Int, NEW q, NEW requested \in Int, NEW filter, NEW len
    PROVE  \E e : Hits(Search(q, requested, filter, len), e)
  <1>1. PICK k : k = boundedSearchK(requested, groundingBudget(0, srv.flags.pin).chunks)
    OBVIOUS
  <1>2. k \in Nat
    <2>1. groundingBudget(0, srv.flags.pin).chunks \in Int
      BY BudgetIs DEF BudgetOK
    <2>. QED BY <1>1, <2>1, SearchKIs
  <1>3. PICK m : m = Min({2 * k, MaxSearchResults})
    OBVIOUS
  <1>4. m \in Nat
    BY <1>2, <1>3, MinTwo DEF MaxSearchResults
  <1>5. PICK e : e = QueryEmbedder(q, filter)
    OBVIOUS
  <1>6. PICK vec : vec = [by |-> e, len |-> len]
    OBVIOUS
  <1>7. PICK t : t = IF Routed(q, filter) = <<>> THEN DefaultStrictThreshold ELSE DefaultThreshold
    OBVIOUS
  <1>8. PICK dense : dense = IF len = 0 THEN <<>> ELSE IndexSearch(srv.index, q, vec, Routed(q, filter), m, k, t)
    OBVIOUS
  <1>9. Hits(dense, e)
    <2>1. Hits(<<>>, e)
      BY DEF Hits
    <2>2. vec.by = e
      BY <1>6
    <2>3. Hits(IndexSearch(srv.index, q, vec, Routed(q, filter), m, k, t), vec.by)
      BY <1>2, <1>4, IndexSearchIn
    <2>. QED BY <1>8, <2>1, <2>2, <2>3
  <1>10. Search(q, requested, filter, len) = fuseSearchResults(k, dense, LexicalSearch(q, filter, m))
    BY <1>1, <1>3, <1>5, <1>6, <1>7, <1>8 DEF Search
  <1>11. Hits(LexicalSearch(q, filter, m), e)
    BY <1>4, LexicalIn
  <1>. QED BY <1>2, <1>9, <1>10, <1>11, FuseIn

-----------------------------------------------------------------------------
(* Sums of sequences of numbers.                                             *)

Total(s) == FoldLeft(+, 0, s)

TotalBy(g, q) ==
    g = [s \in SUBSET DOMAIN q |->
           IF s = {} THEN 0 ELSE g[s \ {Max(s)}] + q[Max(s)]]

LEMMA TotalIs ==
    ASSUME NEW q \in Seq(Int)
    PROVE  \E h : /\ TotalBy(h, q) /\ Total(q) = h[DOMAIN q]
                 /\ \A s \in SUBSET DOMAIN q : h[s] \in Int
  <1>1. PICK V : V = Int
    OBVIOUS
  <1>2. PICK F : F = [p \in V \X Int |-> p[1] + p[2]]
    OBVIOUS
  <1>3. \A x \in Int, v \in V : v + x \in V
    BY <1>1
  <1>4. \A x \in Int, v \in V : F[<<v, x>>] = v + x /\ F[<<v, x>>] \in V
    BY <1>2, <1>3
  <1>5. 0 \in V
    BY <1>1
  <1>6. PICK g : LeftUnfold(g, q, 0, F) /\ \A s \in SUBSET DOMAIN q : g[s] \in V
    BY <1>4, <1>5, LeftExists
  <1>7. TotalBy(g, q)
    <2>1. ASSUME NEW s \in SUBSET DOMAIN q, s # {}
          PROVE  F[<<g[s \ {Max(s)}], q[Max(s)]>>] = g[s \ {Max(s)}] + q[Max(s)]
      <3>1. PICK x, v : x = q[Max(s)] /\ v = g[s \ {Max(s)}]
        OBVIOUS
      <3>2. x \in Int /\ v \in V
        BY <1>6, <2>1, <3>1, LastIndex
      <3>. QED BY <1>4, <3>1, <3>2
    <2>. QED BY <1>6, <2>1 DEF LeftUnfold, TotalBy
  <1>8. PICK h : h = CHOOSE k : TotalBy(k, q)
    OBVIOUS
  <1>9. TotalBy(h, q)
    BY <1>7, <1>8
  <1>10. ASSUME NEW s \in SUBSET DOMAIN q, s # {} /\ h[s \ {Max(s)}] \in V PROVE h[s] \in V
    <2>1. q[Max(s)] \in Int /\ h[s] = h[s \ {Max(s)}] + q[Max(s)]
      BY <1>9, <1>10, LastIndex DEF TotalBy
    <2>. QED BY <1>3, <1>10, <2>1
  <1>11. h[{}] \in V
    BY <1>5, <1>9 DEF TotalBy
  <1>12. \A s \in SUBSET DOMAIN q : h[s] \in V
    BY <1>10, <1>11, LeftIn
  <1>13. Total(q) = h[DOMAIN q]
    BY <1>8 DEF Total, FoldLeft, MapThenFoldSet, TotalBy
  <1>. QED BY <1>1, <1>9, <1>12, <1>13

LEMMA TotalEmpty == Total(<<>>) = 0
  <1>1. <<>> \in Seq(Int) /\ DOMAIN <<>> = {}
    OBVIOUS
  <1>2. PICK h : TotalBy(h, <<>>) /\ Total(<<>>) = h[DOMAIN <<>>]
    BY <1>1, TotalIs
  <1>3. {} \in SUBSET DOMAIN <<>>
    OBVIOUS
  <1>. QED BY <1>1, <1>2, <1>3 DEF TotalBy

LEMMA TotalAppend ==
    ASSUME NEW q \in Seq(Int), NEW x \in Int
    PROVE  Total(q) \in Int /\ Total(Append(q, x)) = Total(q) + x
  <1>1. PICK r : r = Append(q, x)
    OBVIOUS
  <1>2. PICK n \in Nat : n = Len(q)
    OBVIOUS
  <1>3. /\ r \in Seq(Int) /\ DOMAIN q = 1 .. n /\ DOMAIN r = 1 .. n + 1
        /\ \A i \in 1 .. n : r[i] = q[i]
        /\ r[n + 1] = x
    BY <1>1, <1>2
  <1>4. PICK h : TotalBy(h, q) /\ Total(q) = h[DOMAIN q] /\ \A s \in SUBSET DOMAIN q : h[s] \in Int
    BY TotalIs
  <1>5. PICK k : TotalBy(k, r) /\ Total(r) = k[DOMAIN r] /\ \A s \in SUBSET DOMAIN r : k[s] \in Int
    BY <1>3, TotalIs
  <1>6. PICK d : d = [s \in SUBSET DOMAIN q |-> k[s] - h[s]]
    OBVIOUS
  <1>7. \A s \in SUBSET DOMAIN q : s \in SUBSET DOMAIN r
    BY <1>3
  <1>8. d[{}] = 0
    <2>1. {} \in SUBSET DOMAIN q /\ {} \in SUBSET DOMAIN r
      OBVIOUS
    <2>2. h[{}] = 0 /\ k[{}] = 0
      BY <1>4, <1>5, <2>1 DEF TotalBy
    <2>. QED BY <1>6, <2>1, <2>2
  <1>9. ASSUME NEW s \in SUBSET DOMAIN q, s # {} /\ d[s \ {Max(s)}] \in {0} PROVE d[s] \in {0}
    <2>1. Max(s) \in DOMAIN q /\ s \ {Max(s)} \in SUBSET DOMAIN q
      BY <1>9, LastIndex
    <2>2. h[s] = h[s \ {Max(s)}] + q[Max(s)]
      BY <1>4, <1>9 DEF TotalBy
    <2>3. k[s] = k[s \ {Max(s)}] + r[Max(s)]
      BY <1>5, <1>7, <1>9 DEF TotalBy
    <2>4. r[Max(s)] = q[Max(s)] /\ q[Max(s)] \in Int
      BY <1>3, <2>1
    <2>5. h[s \ {Max(s)}] \in Int /\ k[s \ {Max(s)}] \in Int /\ k[s \ {Max(s)}] - h[s \ {Max(s)}] = 0
      BY <1>4, <1>5, <1>6, <1>7, <1>9, <2>1
    <2>6. d[s] = k[s] - h[s]
      BY <1>6
    <2>. QED BY <2>2, <2>3, <2>4, <2>5, <2>6
  <1>10. \A s \in SUBSET DOMAIN q : d[s] \in {0}
    <2>1. PICK Z : Z = {0}
      OBVIOUS
    <2>2. d[{}] \in Z /\ \A s \in SUBSET DOMAIN q : s # {} /\ d[s \ {Max(s)}] \in Z => d[s] \in Z
      BY <1>8, <1>9, <2>1
    <2>3. \A s \in SUBSET DOMAIN q : d[s] \in Z
      BY <2>2, LeftIn
    <2>. QED BY <2>1, <2>3
  <1>11. k[1 .. n] = h[1 .. n] /\ h[1 .. n] \in Int
    <2>1. 1 .. n \in SUBSET DOMAIN q /\ 1 .. n \in SUBSET DOMAIN r
      BY <1>3
    <2>2. d[1 .. n] = k[1 .. n] - h[1 .. n] /\ d[1 .. n] = 0 /\ h[1 .. n] \in Int /\ k[1 .. n] \in Int
      BY <1>4, <1>5, <1>6, <1>10, <2>1
    <2>. QED BY <2>2
  <1>12. Max(1 .. n + 1) = n + 1
    <2>1. PICK S : S = 1 .. n + 1
      OBVIOUS
    <2>2. S \subseteq Nat /\ n + 1 \in S /\ n + 1 \in Nat /\ \A c \in S : c <= n + 1
      BY <2>1
    <2>3. Max(S) \in S /\ n + 1 <= Max(S)
      BY <2>2, GreatestOf
    <2>. QED BY <2>1, <2>2, <2>3
  <1>13. k[1 .. n + 1] = k[1 .. n] + x
    <2>1. 1 .. n + 1 \in SUBSET DOMAIN r /\ 1 .. n + 1 # {} /\ (1 .. n + 1) \ {n + 1} = 1 .. n
      <3>1. n + 1 \in 1 .. n + 1 /\ DOMAIN r = 1 .. n + 1
        BY <1>3
      <3>2. \A i : i \in (1 .. n + 1) \ {n + 1} <=> i \in 1 .. n
        OBVIOUS
      <3>. QED BY <3>1, <3>2
    <2>2. k[1 .. n + 1] = k[(1 .. n + 1) \ {Max(1 .. n + 1)}] + r[Max(1 .. n + 1)]
      BY <1>5, <2>1 DEF TotalBy
    <2>. QED BY <1>3, <1>12, <2>1, <2>2
  <1>. QED BY <1>1, <1>3, <1>4, <1>5, <1>11, <1>13

-----------------------------------------------------------------------------
(* The grounding block.  The states of the documentation section: the sizes   *)
(* of the fragments add up to what left the budget, and there is none only    *)
(* before the first hit.                                                      *)

SectionInv(s, b) ==
    /\ s.left >= 0 /\ s.n = Len(s.parts) /\ s.n <= b.chunks
    /\ Total(s.parts) + s.left = b.bytes
    /\ s.n = 0 => s.left = b.bytes /\ s.seen = <<>> /\ ~s.done
    /\ s.n > 0 => s.parts[1] > HitHeader

SectionStates(X, b) ==
    {s \in [n : Nat, left : Int, seen : Seq(X), parts : Seq(Int), done : BOOLEAN] : SectionInv(s, b)}

SectionStart(b) == [n |-> 0, left |-> b.bytes, seen |-> <<>>, parts |-> <<>>, done |-> FALSE]

LEMMA SectionStarts == ASSUME NEW X, NEW b, BudgetOK(b) PROVE SectionStart(b) \in SectionStates(X, b)
  <1>1. b.bytes \in Nat /\ b.chunks \in Nat
    BY DEF BudgetOK
  <1>. QED BY <1>1, TotalEmpty DEF SectionStart, SectionStates, SectionInv

LEMMA FragmentStep ==
    ASSUME NEW X, NEW b, BudgetOK(b), NEW s \in SectionStates(X, b), NEW h, SectionOf(h) \in X, TextLen(h.chunk) \in Nat
    PROVE  addFragment(s, h, b.chunks) \in SectionStates(X, b) /\ addFragment(s, h, b.chunks).n > 0
  <1>1. /\ s \in [n : Nat, left : Int, seen : Seq(X), parts : Seq(Int), done : BOOLEAN]
        /\ s.n \in Nat /\ s.left \in Int /\ s.parts \in Seq(Int) /\ s.seen \in Seq(X) /\ SectionInv(s, b)
    BY DEF SectionStates
  <1>2. b.bytes \in Nat /\ b.chunks \in Nat /\ b.chunks > 0 /\ b.bytes > 100
    BY DEF BudgetOK, HitHeader, TruncationMark
  <1>3. PICK size : size = renderHit(h)
    OBVIOUS
  <1>4. size \in Nat /\ size > 60
    BY <1>3 DEF renderHit, HitHeader
  <1>5. PICK part : part = IF s.left >= size THEN size ELSE trimFragment(size, s.left)
    OBVIOUS
  <1>6. PICK t : t = addFragment(s, h, b.chunks)
    OBVIOUS
  <1>7. CASE s.done \/ s.n >= b.chunks
    <2>1. t = [s EXCEPT !.done = TRUE]
      BY <1>6, <1>7 DEF addFragment
    <2>2. s.n > 0
      BY <1>1, <1>2, <1>7 DEF SectionInv
    <2>3. /\ t \in [n : Nat, left : Int, seen : Seq(X), parts : Seq(Int), done : BOOLEAN]
          /\ t.n = s.n /\ t.left = s.left /\ t.seen = s.seen /\ t.parts = s.parts
      BY <1>1, <2>1
    <2>4. SectionInv(t, b)
      BY <1>1, <2>2, <2>3 DEF SectionInv
    <2>. QED BY <1>6, <2>2, <2>3, <2>4 DEF SectionStates
  <1>8. CASE ~(s.done \/ s.n >= b.chunks) /\ Cardinality({i \in DOMAIN s.seen : s.seen[i] = SectionOf(h)}) >= 2
    <2>1. t = s
      BY <1>6, <1>8 DEF addFragment
    <2>2. s.n > 0
      <3>1. ASSUME s.n = 0 PROVE FALSE
        <4>1. s.seen = <<>>
          BY <1>1, <3>1 DEF SectionInv
        <4>2. {i \in DOMAIN s.seen : s.seen[i] = SectionOf(h)} = {}
          BY <4>1
        <4>3. Cardinality({}) = 0
          BY FS_EmptySet
        <4>. QED BY <1>8, <4>2, <4>3
      <3>. QED BY <1>1, <3>1
    <2>. QED BY <1>6, <2>1, <2>2
  <1>9. CASE /\ ~(s.done \/ s.n >= b.chunks)
             /\ ~(Cardinality({i \in DOMAIN s.seen : s.seen[i] = SectionOf(h)}) >= 2)
             /\ ~(s.left >= size) /\ (s.n > 0 \/ s.left <= 0)
    <2>1. t = [s EXCEPT !.done = TRUE]
      BY <1>3, <1>6, <1>9 DEF addFragment
    <2>2. s.n > 0
      BY <1>1, <1>2, <1>9 DEF SectionInv
    <2>3. /\ t \in [n : Nat, left : Int, seen : Seq(X), parts : Seq(Int), done : BOOLEAN]
          /\ t.n = s.n /\ t.left = s.left /\ t.seen = s.seen /\ t.parts = s.parts
      BY <1>1, <2>1
    <2>4. SectionInv(t, b)
      BY <1>1, <2>2, <2>3 DEF SectionInv
    <2>. QED BY <1>6, <2>2, <2>3, <2>4 DEF SectionStates
  <1>10. CASE /\ ~(s.done \/ s.n >= b.chunks)
              /\ ~(Cardinality({i \in DOMAIN s.seen : s.seen[i] = SectionOf(h)}) >= 2)
              /\ ~(~(s.left >= size) /\ (s.n > 0 \/ s.left <= 0))
    <2>1. t = [s EXCEPT !.n = s.n + 1, !.seen = Append(s.seen, SectionOf(h)),
                        !.left = s.left - part, !.parts = Append(s.parts, part)]
      BY <1>3, <1>5, <1>6, <1>10 DEF addFragment
    <2>2. part \in Int /\ part <= s.left /\ (s.n = 0 => part > 60)
      <3>1. CASE s.left >= size
        BY <1>1, <1>4, <1>5, <3>1
      <3>2. CASE ~(s.left >= size)
        <4>1. s.n = 0 /\ s.left = b.bytes
          BY <1>1, <1>10, <3>2 DEF SectionInv
        <4>2. part = s.left
          BY <1>2, <1>5, <3>2, <4>1 DEF trimFragment, TruncationMark
        <4>. QED BY <1>2, <4>1, <4>2
      <3>. QED BY <3>1, <3>2
    <2>3. /\ t \in [n : Nat, left : Int, seen : Seq(X), parts : Seq(Int), done : BOOLEAN]
          /\ t.n = s.n + 1 /\ t.left = s.left - part /\ t.parts = Append(s.parts, part)
      <3>1. PICK m \in Nat, l \in Int : m = s.n + 1 /\ l = s.left - part
        BY <1>1, <2>2
      <3>2. PICK a, p : a = Append(s.seen, SectionOf(h)) /\ p = Append(s.parts, part)
        OBVIOUS
      <3>5. a \in Seq(X) /\ p \in Seq(Int)
        BY <1>1, <2>2, <3>2, AppendProperties
      <3>3. t = [s EXCEPT !.n = m, !.seen = a, !.left = l, !.parts = p]
        BY <2>1, <3>1, <3>2
      <3>4. /\ t \in [n : Nat, left : Int, seen : Seq(X), parts : Seq(Int), done : BOOLEAN]
            /\ t.n = m /\ t.left = l /\ t.parts = p
        BY <1>1, <3>3, <3>5
      <3>. QED BY <3>1, <3>2, <3>4
    <2>4. Total(t.parts) = Total(s.parts) + part /\ Total(s.parts) \in Int
      BY <1>1, <2>2, <2>3, TotalAppend
    <2>5. Len(t.parts) = Len(s.parts) + 1 /\ (Len(s.parts) > 0 => t.parts[1] = s.parts[1])
          /\ (Len(s.parts) = 0 => t.parts[1] = part) /\ Len(s.parts) \in Nat
      <3>1. PICK sp \in Seq(Int) : sp = s.parts /\ t.parts = Append(sp, part)
        BY <1>1, <2>3
      <3>. QED BY <2>2, <3>1
    <2>6. SectionInv(t, b)
      <3>1. /\ s.left >= 0 /\ s.n = Len(s.parts) /\ s.n <= b.chunks /\ Total(s.parts) + s.left = b.bytes
            /\ s.n > 0 => s.parts[1] > 60
        BY <1>1 DEF SectionInv, HitHeader
      <3>2. t.left >= 0 /\ t.n = Len(t.parts) /\ t.n <= b.chunks /\ t.n > 0
        <4>1. ~(s.n >= b.chunks)
          BY <1>10
        <4>2. s.n \in Nat /\ s.left \in Int /\ b.chunks \in Nat
          BY <1>1, <1>2
        <4>3. t.left = s.left - part /\ t.n = s.n + 1 /\ part \in Int /\ part <= s.left
          BY <2>2, <2>3
        <4>4. t.left >= 0 /\ t.n <= b.chunks /\ t.n > 0
          BY <4>1, <4>2, <4>3
        <4>5. t.n = Len(t.parts)
          BY <2>5, <3>1, <4>3
        <4>. QED BY <4>4, <4>5
      <3>3. Total(t.parts) + t.left = b.bytes
        BY <1>1, <1>2, <2>2, <2>3, <2>4, <3>1
      <3>4. t.parts[1] > 60
        BY <1>1, <2>2, <2>5, <3>1
      <3>. QED BY <3>2, <3>3, <3>4 DEF SectionInv, HitHeader
    <2>. QED BY <1>1, <1>6, <2>3, <2>6 DEF SectionStates
  <1>. QED BY <1>7, <1>8, <1>9, <1>10

SectionBy(g, q, b) ==
    g = [s \in SUBSET DOMAIN q |->
           IF s = {} THEN SectionStart(b) ELSE addFragment(g[s \ {Max(s)}], q[Max(s)], b.chunks)]

LEMMA SectionIs ==
    ASSUME NEW T, NEW q \in Seq(T), NEW b, BudgetOK(b), NEW X, \A x \in T : SectionOf(x) \in X /\ TextLen(x.chunk) \in Nat
    PROVE  \E h : /\ SectionBy(h, q, b) /\ docSection(q, b) = h[DOMAIN q]
                 /\ \A s \in SUBSET DOMAIN q : h[s] \in SectionStates(X, b)
  <1>1. PICK V : V = SectionStates(X, b)
    OBVIOUS
  <1>2. PICK F : F = [p \in V \X T |-> addFragment(p[1], p[2], b.chunks)]
    OBVIOUS
  <1>3. \A x \in T, v \in V : addFragment(v, x, b.chunks) \in V
    BY <1>1, FragmentStep
  <1>4. \A x \in T, v \in V : F[<<v, x>>] = addFragment(v, x, b.chunks) /\ F[<<v, x>>] \in V
    BY <1>2, <1>3
  <1>5. SectionStart(b) \in V
    BY <1>1, SectionStarts
  <1>6. PICK g : LeftUnfold(g, q, SectionStart(b), F) /\ \A s \in SUBSET DOMAIN q : g[s] \in V
    BY <1>4, <1>5, LeftExists
  <1>7. SectionBy(g, q, b)
    <2>1. ASSUME NEW s \in SUBSET DOMAIN q, s # {}
          PROVE  F[<<g[s \ {Max(s)}], q[Max(s)]>>] = addFragment(g[s \ {Max(s)}], q[Max(s)], b.chunks)
      <3>1. PICK x, v : x = q[Max(s)] /\ v = g[s \ {Max(s)}]
        OBVIOUS
      <3>2. x \in T /\ v \in V
        BY <1>6, <2>1, <3>1, LastIndex
      <3>. QED BY <1>4, <3>1, <3>2
    <2>. QED BY <1>6, <2>1 DEF LeftUnfold, SectionBy
  <1>8. PICK h : h = CHOOSE k : SectionBy(k, q, b)
    OBVIOUS
  <1>9. SectionBy(h, q, b)
    BY <1>7, <1>8
  <1>10. ASSUME NEW s \in SUBSET DOMAIN q, s # {} /\ h[s \ {Max(s)}] \in V PROVE h[s] \in V
    <2>1. q[Max(s)] \in T /\ h[s] = addFragment(h[s \ {Max(s)}], q[Max(s)], b.chunks)
      BY <1>9, <1>10, LastIndex DEF SectionBy
    <2>. QED BY <1>3, <1>10, <2>1
  <1>11. h[{}] \in V
    BY <1>5, <1>9 DEF SectionBy
  <1>12. \A s \in SUBSET DOMAIN q : h[s] \in V
    BY <1>10, <1>11, LeftIn
  <1>13. docSection(q, b) = h[DOMAIN q]
    BY <1>8 DEF docSection, SectionStart, FoldLeft, MapThenFoldSet, SectionBy
  <1>. QED BY <1>1, <1>9, <1>12, <1>13

(* The documentation section takes what is left from the budget, and the      *)
(* first hit is in it.                                                        *)
LEMMA SectionIn ==
    ASSUME NEW b, BudgetOK(b), NEW e, NEW docs, Hits(docs, e)
    PROVE  /\ docSection(docs, b).left \in Nat
           /\ docSection(docs, b).parts \in Seq(Int)
           /\ SectionInv(docSection(docs, b), b)
           /\ Len(docs) > 0 => docSection(docs, b).n > 0
  <1>1. PICK T : T = ToSet(docs)
    OBVIOUS
  <1>2. docs \in Seq(T) /\ Len(docs) \in Nat /\ DOMAIN docs = 1 .. Len(docs)
    BY <1>1 DEF Hits
  <1>3. \A x \in T : TextLen(x.chunk) \in Nat
    BY <1>1 DEF Hits, ToSet, DocChunk
  <1>4. PICK X : X = {SectionOf(x) : x \in T}
    OBVIOUS
  <1>5. \A x \in T : SectionOf(x) \in X
    BY <1>4
  <1>6. PICK h : /\ SectionBy(h, docs, b) /\ docSection(docs, b) = h[DOMAIN docs]
                 /\ \A s \in SUBSET DOMAIN docs : h[s] \in SectionStates(X, b)
    BY <1>2, <1>3, <1>5, SectionIs
  <1>7. h[DOMAIN docs] \in SectionStates(X, b)
    BY <1>6
  <1>8. ASSUME Len(docs) > 0 PROVE docSection(docs, b).n > 0
    <2>1. DOMAIN docs # {}
      BY <1>2, <1>8
    <2>2. PICK D : D = DOMAIN docs
      OBVIOUS
    <2>3. Max(D) \in D /\ docs[Max(D)] \in T
      BY <1>2, <2>1, <2>2, LastIndex
    <2>4. h[D] = addFragment(h[D \ {Max(D)}], docs[Max(D)], b.chunks)
      BY <1>6, <2>1, <2>2 DEF SectionBy
    <2>5. h[D \ {Max(D)}] \in SectionStates(X, b)
      BY <1>6, <2>2
    <2>. QED BY <1>3, <1>5, <1>6, <2>2, <2>3, <2>4, <2>5, FragmentStep
  <1>9. /\ docSection(docs, b).left \in Int /\ docSection(docs, b).parts \in Seq(Int)
        /\ SectionInv(docSection(docs, b), b)
    BY <1>6, <1>7 DEF SectionStates
  <1>10. docSection(docs, b).left >= 0
    BY <1>9 DEF SectionInv
  <1>. QED BY <1>8, <1>9, <1>10

FitStates(left) ==
    {s \in [left : Int, used : Int, done : BOOLEAN] : s.used >= 0 /\ s.left >= 0 /\ s.used + s.left = left}

LEMMA FitStep ==
    ASSUME NEW left \in Nat, NEW s \in FitStates(left), NEW n \in Nat
    PROVE  fitFragment(s, n) \in FitStates(left)
  <1>1. /\ s \in [left : Int, used : Int, done : BOOLEAN] /\ s.left \in Int /\ s.used \in Int
        /\ s.used >= 0 /\ s.left >= 0 /\ s.used + s.left = left
    BY DEF FitStates
  <1>2. PICK t : t = fitFragment(s, n)
    OBVIOUS
  <1>3. CASE s.done \/ s.left < n
    <2>1. t = [s EXCEPT !.done = TRUE]
      BY <1>2, <1>3 DEF fitFragment
    <2>2. t \in [left : Int, used : Int, done : BOOLEAN] /\ t.left = s.left /\ t.used = s.used
      BY <1>1, <2>1
    <2>. QED BY <1>1, <1>2, <2>2 DEF FitStates
  <1>4. CASE ~(s.done \/ s.left < n)
    <2>1. PICK l \in Int, u \in Int : l = s.left - n /\ u = s.used + n
      BY <1>1
    <2>2. t = [s EXCEPT !.left = l, !.used = u]
      BY <1>2, <1>4, <2>1 DEF fitFragment
    <2>3. t \in [left : Int, used : Int, done : BOOLEAN] /\ t.left = l /\ t.used = u
      BY <1>1, <2>2
    <2>4. u >= 0 /\ l >= 0 /\ u + l = left
      BY <1>1, <1>4, <2>1
    <2>. QED BY <1>2, <2>3, <2>4 DEF FitStates
  <1>. QED BY <1>3, <1>4

FitStart(left) == [left |-> left, used |-> 0, done |-> FALSE]

FitState(sizes, left) == FoldLeft(fitFragment, FitStart(left), sizes)

FitBy(g, q, left) ==
    g = [s \in SUBSET DOMAIN q |->
           IF s = {} THEN FitStart(left) ELSE fitFragment(g[s \ {Max(s)}], q[Max(s)])]

LEMMA FitIs ==
    ASSUME NEW q \in Seq(Nat), NEW left \in Nat
    PROVE  \E h : /\ FitBy(h, q, left) /\ FitState(q, left) = h[DOMAIN q]
                 /\ \A s \in SUBSET DOMAIN q : h[s] \in FitStates(left)
  <1>1. PICK V : V = FitStates(left)
    OBVIOUS
  <1>2. PICK F : F = [p \in V \X Nat |-> fitFragment(p[1], p[2])]
    OBVIOUS
  <1>3. \A x \in Nat, v \in V : fitFragment(v, x) \in V
    BY <1>1, FitStep
  <1>4. \A x \in Nat, v \in V : F[<<v, x>>] = fitFragment(v, x) /\ F[<<v, x>>] \in V
    BY <1>2, <1>3
  <1>5. FitStart(left) \in V
    BY <1>1 DEF FitStates, FitStart
  <1>6. PICK g : LeftUnfold(g, q, FitStart(left), F) /\ \A s \in SUBSET DOMAIN q : g[s] \in V
    BY <1>4, <1>5, LeftExists
  <1>7. FitBy(g, q, left)
    <2>1. ASSUME NEW s \in SUBSET DOMAIN q, s # {}
          PROVE  F[<<g[s \ {Max(s)}], q[Max(s)]>>] = fitFragment(g[s \ {Max(s)}], q[Max(s)])
      <3>1. PICK x, v : x = q[Max(s)] /\ v = g[s \ {Max(s)}]
        OBVIOUS
      <3>2. x \in Nat /\ v \in V
        BY <1>6, <2>1, <3>1, LastIndex
      <3>. QED BY <1>4, <3>1, <3>2
    <2>. QED BY <1>6, <2>1 DEF LeftUnfold, FitBy
  <1>8. PICK h : h = CHOOSE k : FitBy(k, q, left)
    OBVIOUS
  <1>9. FitBy(h, q, left)
    BY <1>7, <1>8
  <1>10. ASSUME NEW s \in SUBSET DOMAIN q, s # {} /\ h[s \ {Max(s)}] \in V PROVE h[s] \in V
    <2>1. q[Max(s)] \in Nat /\ h[s] = fitFragment(h[s \ {Max(s)}], q[Max(s)])
      BY <1>9, <1>10, LastIndex DEF FitBy
    <2>. QED BY <1>3, <1>10, <2>1
  <1>11. h[{}] \in V
    BY <1>5, <1>9 DEF FitBy
  <1>12. \A s \in SUBSET DOMAIN q : h[s] \in V
    BY <1>10, <1>11, LeftIn
  <1>13. FitState(q, left) = h[DOMAIN q]
    BY <1>8 DEF FitState, FoldLeft, MapThenFoldSet, FitBy
  <1>. QED BY <1>1, <1>9, <1>12, <1>13

LEMMA FitIn ==
    ASSUME NEW left \in Nat, NEW sizes \in Seq(Nat)
    PROVE  Fitting(sizes, left) \in Nat /\ Fitting(sizes, left) <= left
  <1>1. PICK h : /\ FitBy(h, sizes, left) /\ FitState(sizes, left) = h[DOMAIN sizes]
                 /\ \A s \in SUBSET DOMAIN sizes : h[s] \in FitStates(left)
    BY FitIs
  <1>2. FitState(sizes, left) \in FitStates(left)
    BY <1>1
  <1>3. Fitting(sizes, left) = FitState(sizes, left).used
    BY DEF Fitting, FitState, FitStart
  <1>. QED BY <1>2, <1>3 DEF FitStates

(* The fragments of a block are within its budget, and a hit is in it.        *)
BlockOK(b) ==
    /\ Len(b.parts) <= b.budget.chunks
    /\ FoldLeft(+, 0, b.parts) + b.memory + b.library + b.web <= b.budget.bytes
    /\ b.hits > 0 => b.parts # <<>> /\ b.parts[1] > HitHeader

LEMMA BlockIn ==
    ASSUME NEW b, BudgetOK(b), NEW e, NEW docs, Hits(docs, e),
           NEW R, NEW mem \in Seq(R), \A m \in R : renderMemoryHit(m) \in Nat,
           NEW c7 \in Nat, NEW web \in Seq(Nat)
    PROVE  BlockOK(Assemble(docs, mem, c7, web, b))
  <1>1. PICK doc : doc = docSection(docs, b)
    OBVIOUS
  <1>2. /\ doc.left \in Nat /\ doc.parts \in Seq(Int) /\ SectionInv(doc, b)
        /\ Len(docs) > 0 => doc.n > 0
    BY <1>1, SectionIn
  <1>3. PICK sizes : sizes = [i \in DOMAIN mem |-> renderMemoryHit(mem[i])]
    OBVIOUS
  <1>4. sizes \in Seq(Nat)
    <2>1. Len(mem) \in Nat /\ DOMAIN mem = 1 .. Len(mem) /\ \A i \in DOMAIN mem : mem[i] \in R
      OBVIOUS
    <2>2. sizes \in [1 .. Len(mem) -> Nat]
      BY <1>3, <2>1
    <2>. QED BY <2>1, <2>2
  <1>5. PICK m : m = Fitting(sizes, doc.left)
    OBVIOUS
  <1>6. m \in Nat /\ m <= doc.left
    BY <1>2, <1>4, <1>5, FitIn
  <1>7. PICK lib : lib = IF doc.left - m > 0 /\ c7 <= doc.left - m THEN c7 ELSE 0
    OBVIOUS
  <1>8. lib \in Nat /\ lib <= doc.left - m
    BY <1>2, <1>6, <1>7
  <1>9. PICK left : left = doc.left - m - lib
    OBVIOUS
  <1>10. left \in Nat
    BY <1>2, <1>6, <1>8, <1>9
  <1>11. PICK w : w = IF left > 0 THEN Fitting(web, Min({left, b.bytes, MaxWebSectionBytes})) ELSE 0
    OBVIOUS
  <1>12. w \in Nat /\ w <= left
    <2>1. b.bytes \in Nat
      BY DEF BudgetOK
    <2>2. Min({left, b.bytes, MaxWebSectionBytes}) \in Nat /\ Min({left, b.bytes, MaxWebSectionBytes}) <= left
      <3>1. PICK a \in Nat, c \in Nat : a = b.bytes /\ c = MaxWebSectionBytes
        BY <2>1 DEF MaxWebSectionBytes
      <3>2. Min({left, a, c}) \in {left, a, c} /\ Min({left, a, c}) <= left
        <4>1. left \in Int /\ a \in Int /\ c \in Int
          BY <1>10
        <4>. QED BY <4>1, MinThree
      <3>. QED BY <1>10, <3>1, <3>2
    <2>3. PICK l \in Nat : l = Min({left, b.bytes, MaxWebSectionBytes})
      BY <2>2
    <2>4. Fitting(web, l) \in Nat /\ Fitting(web, l) <= l
      BY FitIn
    <2>. QED BY <1>10, <1>11, <2>2, <2>3, <2>4
  <1>13. PICK a : a = Assemble(docs, mem, c7, web, b)
    OBVIOUS
  <1>14. /\ a.parts = doc.parts /\ a.hits = Len(docs) /\ a.memory = m /\ a.library = lib /\ a.web = w
         /\ a.budget = b
    BY <1>1, <1>3, <1>5, <1>7, <1>9, <1>11, <1>13 DEF Assemble
  <1>15. Total(doc.parts) \in Int /\ Total(doc.parts) + doc.left = b.bytes
    BY <1>2, TotalAppend DEF SectionInv
  <1>16. Total(doc.parts) + m + lib + w <= b.bytes
    BY <1>2, <1>6, <1>8, <1>9, <1>12, <1>15
  <1>17. Len(doc.parts) <= b.chunks /\ (Len(docs) > 0 => Len(doc.parts) > 0 /\ doc.parts[1] > HitHeader)
    BY <1>2 DEF SectionInv
  <1>18. Len(doc.parts) > 0 => doc.parts # <<>>
    BY <1>2
  <1>. QED BY <1>13, <1>14, <1>16, <1>17, <1>18 DEF BlockOK, Total

-----------------------------------------------------------------------------
(* Cutting Markdown.  Blocks is a set of blocks with a length; the pieces are *)
(* those of their paragraphs, none of a negative length.                      *)

Names(B) == {b.name : b \in B}

Pieces(B) == {x \in [par : Names(B), from : Int, to : Int] : x.to - x.from + 1 \in Nat}

Blocks(B) == \A b \in B : b.len \in Nat

Titles(B) == Names(B) \cup {""}

SectionsOf(B) == [heading : Titles(B), body : Seq(B)]

RawChunks(S, B) == [source : S, heading : Titles(B), ordinal : Int, body : Seq(Pieces(B)), over : Nat]

LengthBy(g, q) ==
    g = [s \in SUBSET DOMAIN q |->
           IF s = {} THEN 0 ELSE g[s \ {Max(s)}] + q[Max(s)].to - q[Max(s)].from + 1]

LEMMA LengthIs ==
    ASSUME NEW T, NEW q \in Seq(T), \A x \in T : x.to - x.from + 1 \in Nat /\ x.to \in Int /\ x.from \in Int
    PROVE  \E h : /\ LengthBy(h, q) /\ SumLen(q) = h[DOMAIN q]
                 /\ \A s \in SUBSET DOMAIN q : h[s] \in Nat
  <1>1. PICK V : V = Nat
    OBVIOUS
  <1>2. PICK F : F = [p \in V \X T |-> p[1] + p[2].to - p[2].from + 1]
    OBVIOUS
  <1>3. \A x \in T, v \in V : v + x.to - x.from + 1 \in V
    BY <1>1
  <1>4. \A x \in T, v \in V : F[<<v, x>>] = v + x.to - x.from + 1 /\ F[<<v, x>>] \in V
    BY <1>2, <1>3
  <1>5. 0 \in V
    BY <1>1
  <1>6. PICK g : LeftUnfold(g, q, 0, F) /\ \A s \in SUBSET DOMAIN q : g[s] \in V
    BY <1>4, <1>5, LeftExists
  <1>7. LengthBy(g, q)
    <2>1. ASSUME NEW s \in SUBSET DOMAIN q, s # {}
          PROVE  F[<<g[s \ {Max(s)}], q[Max(s)]>>] = g[s \ {Max(s)}] + q[Max(s)].to - q[Max(s)].from + 1
      <3>1. PICK x, v : x = q[Max(s)] /\ v = g[s \ {Max(s)}]
        OBVIOUS
      <3>2. x \in T /\ v \in V
        BY <1>6, <2>1, <3>1, LastIndex
      <3>. QED BY <1>4, <3>1, <3>2
    <2>. QED BY <1>6, <2>1 DEF LeftUnfold, LengthBy
  <1>8. PICK h : h = CHOOSE k : LengthBy(k, q)
    OBVIOUS
  <1>9. LengthBy(h, q)
    BY <1>7, <1>8
  <1>10. ASSUME NEW s \in SUBSET DOMAIN q, s # {} /\ h[s \ {Max(s)}] \in V PROVE h[s] \in V
    <2>1. q[Max(s)] \in T /\ h[s] = h[s \ {Max(s)}] + q[Max(s)].to - q[Max(s)].from + 1
      BY <1>9, <1>10, LastIndex DEF LengthBy
    <2>. QED BY <1>3, <1>10, <2>1
  <1>11. h[{}] \in V
    BY <1>5, <1>9 DEF LengthBy
  <1>12. \A s \in SUBSET DOMAIN q : h[s] \in V
    BY <1>10, <1>11, LeftIn
  <1>13. SumLen(q) = h[DOMAIN q]
    BY <1>8 DEF SumLen, FoldLeft, MapThenFoldSet, LengthBy
  <1>. QED BY <1>1, <1>9, <1>12, <1>13

LEMMA CharsIs == ASSUME NEW B, NEW q \in Seq(Pieces(B)) PROVE Chars(q) \in Nat
  <1>1. PICK P : P = Pieces(B)
    OBVIOUS
  <1>2. \A x \in P : x.to - x.from + 1 \in Nat /\ x.to \in Int /\ x.from \in Int
    BY <1>1 DEF Pieces
  <1>3. SumLen(q) \in Nat
    <2>1. PICK h : /\ LengthBy(h, q) /\ SumLen(q) = h[DOMAIN q]
                   /\ \A s \in SUBSET DOMAIN q : h[s] \in Nat
      BY <1>1, <1>2, LengthIs
    <2>. QED BY <2>1
  <1>4. CASE q = <<>>
    BY <1>3, <1>4 DEF Chars
  <1>5. CASE q # <<>>
    <2>1. Len(q) \in Nat /\ Len(q) > 0
      BY <1>5
    <2>2. 2 * (Len(q) - 1) \in Nat
      BY <2>1
    <2>. QED BY <1>3, <1>5, <2>2 DEF Chars
  <1>. QED BY <1>4, <1>5

LEMMA WholeIs == ASSUME NEW B, Blocks(B), NEW p \in B PROVE Whole(p) \in Pieces(B)
  <1>1. p.len \in Nat /\ p.name \in Names(B)
    BY DEF Blocks, Names
  <1>2. Whole(p) = [par |-> p.name, from |-> 1, to |-> p.len]
    BY DEF Whole, Piece
  <1>. QED BY <1>1, <1>2 DEF Pieces

(* Every cut of a long paragraph is within it.                                *)
LEMMA HardSplitIs == ASSUME NEW B, Blocks(B), NEW p \in B PROVE hardSplit(p) \in Seq(Seq(Pieces(B)))
  <1>1. PICK l \in Nat : l = p.len
    BY DEF Blocks
  <1>2. PICK n \in Nat : n = (l + 3000 - 1) \div 3000
    BY <1>1
  <1>3. PICK h : h = hardSplit(p)
    OBVIOUS
  <1>4. h = [i \in 1 .. n |-> <<Piece(p, (i - 1) * 3000 + 1, Min({i * 3000, l}))>>]
    BY <1>1, <1>2, <1>3 DEF hardSplit, MaxChars
  <1>5. ASSUME NEW i \in 1 .. n PROVE h[i] \in Seq(Pieces(B))
    <2>1. PICK a \in Int, z \in Int : a = (i - 1) * 3000 + 1 /\ z = Min({i * 3000, l})
      BY MinTwo
    <2>2. (i - 1) * 3000 <= l
      BY <1>2
    <2>3. z >= (i - 1) * 3000
      BY <2>1, <2>2, MinTwo
    <2>4. p.name \in Names(B)
      BY DEF Names
    <2>5. PICK x : x = Piece(p, a, z)
      OBVIOUS
    <2>6. x \in [par : Names(B), from : Int, to : Int] /\ x.from = a /\ x.to = z
      BY <2>4, <2>5 DEF Piece
    <2>7. z - a + 1 \in Nat
      BY <2>1, <2>3
    <2>8. x \in Pieces(B)
      BY <2>6, <2>7 DEF Pieces
    <2>9. h[i] = <<x>>
      BY <1>4, <2>1, <2>5
    <2>. QED BY <2>8, <2>9
  <1>6. h \in [1 .. n -> Seq(Pieces(B))]
    BY <1>4, <1>5
  <1>. QED BY <1>3, <1>6

PackStates(B) == [out : Seq(Seq(Pieces(B))), cur : Seq(Pieces(B))]

LEMMA FlushIs == ASSUME NEW B, NEW s \in PackStates(B) PROVE flushChunk(s) \in Seq(Seq(Pieces(B)))
  <1>1. s.out \in Seq(Seq(Pieces(B))) /\ s.cur \in Seq(Pieces(B))
    BY DEF PackStates
  <1>2. Append(s.out, s.cur) \in Seq(Seq(Pieces(B)))
    BY <1>1, AppendProperties
  <1>. QED BY <1>1, <1>2 DEF flushChunk

LEMMA PackStep ==
    ASSUME NEW B, Blocks(B), NEW s \in PackStates(B), NEW p \in B
    PROVE  packParagraph(s, p) \in PackStates(B)
  <1>1. s.out \in Seq(Seq(Pieces(B))) /\ s.cur \in Seq(Pieces(B)) /\ Whole(p) \in Pieces(B)
    BY WholeIs DEF PackStates
  <1>2. Append(s.cur, Whole(p)) \in Seq(Pieces(B))
    BY <1>1, AppendProperties
  <1>3. [s EXCEPT !.cur = Append(s.cur, Whole(p))] \in PackStates(B)
    BY <1>2 DEF PackStates
  <1>4. flushChunk(s) \in Seq(Seq(Pieces(B))) /\ hardSplit(p) \in Seq(Seq(Pieces(B)))
    BY FlushIs, HardSplitIs
  <1>5. flushChunk(s) \o hardSplit(p) \in Seq(Seq(Pieces(B)))
    BY <1>4, ConcatProperties
  <1>6. [out |-> flushChunk(s) \o hardSplit(p), cur |-> <<>>] \in PackStates(B)
    BY <1>5 DEF PackStates
  <1>7. <<Whole(p)>> \in Seq(Pieces(B))
    BY <1>1
  <1>8. [out |-> flushChunk(s), cur |-> <<Whole(p)>>] \in PackStates(B)
    BY <1>4, <1>7 DEF PackStates
  <1>9. packParagraph(s, p) \in {[s EXCEPT !.cur = Append(s.cur, Whole(p))],
                                 [out |-> flushChunk(s) \o hardSplit(p), cur |-> <<>>],
                                 [out |-> flushChunk(s), cur |-> <<Whole(p)>>]}
    BY DEF packParagraph
  <1>. QED BY <1>3, <1>6, <1>8, <1>9

PackStart == [out |-> <<>>, cur |-> <<>>]

LEMMA PackStarts == ASSUME NEW B PROVE PackStart \in PackStates(B)
  BY DEF PackStart, PackStates

PackBy(g, q) ==
    g = [s \in SUBSET DOMAIN q |->
           IF s = {} THEN PackStart ELSE packParagraph(g[s \ {Max(s)}], q[Max(s)])]

LEMMA PackIs ==
    ASSUME NEW T, NEW q \in Seq(T), Blocks(T)
    PROVE  \E h : /\ PackBy(h, q) /\ Packed(q) = h[DOMAIN q]
                 /\ \A s \in SUBSET DOMAIN q : h[s] \in PackStates(T)
  <1>1. PICK V : V = PackStates(T)
    OBVIOUS
  <1>2. PICK F : F = [p \in V \X T |-> packParagraph(p[1], p[2])]
    OBVIOUS
  <1>3. \A x \in T, v \in V : packParagraph(v, x) \in V
    BY <1>1, PackStep
  <1>4. \A x \in T, v \in V : F[<<v, x>>] = packParagraph(v, x) /\ F[<<v, x>>] \in V
    BY <1>2, <1>3
  <1>5. PackStart \in V
    BY <1>1, PackStarts
  <1>6. PICK g : LeftUnfold(g, q, PackStart, F) /\ \A s \in SUBSET DOMAIN q : g[s] \in V
    BY <1>4, <1>5, LeftExists
  <1>7. PackBy(g, q)
    <2>1. ASSUME NEW s \in SUBSET DOMAIN q, s # {}
          PROVE  F[<<g[s \ {Max(s)}], q[Max(s)]>>] = packParagraph(g[s \ {Max(s)}], q[Max(s)])
      <3>1. PICK x, v : x = q[Max(s)] /\ v = g[s \ {Max(s)}]
        OBVIOUS
      <3>2. x \in T /\ v \in V
        BY <1>6, <2>1, <3>1, LastIndex
      <3>. QED BY <1>4, <3>1, <3>2
    <2>. QED BY <1>6, <2>1 DEF LeftUnfold, PackBy
  <1>8. PICK h : h = CHOOSE k : PackBy(k, q)
    OBVIOUS
  <1>9. PackBy(h, q)
    BY <1>7, <1>8
  <1>10. ASSUME NEW s \in SUBSET DOMAIN q, s # {} /\ h[s \ {Max(s)}] \in V PROVE h[s] \in V
    <2>1. q[Max(s)] \in T /\ h[s] = packParagraph(h[s \ {Max(s)}], q[Max(s)])
      BY <1>9, <1>10, LastIndex DEF PackBy
    <2>. QED BY <1>3, <1>10, <2>1
  <1>11. h[{}] \in V
    BY <1>5, <1>9 DEF PackBy
  <1>12. \A s \in SUBSET DOMAIN q : h[s] \in V
    BY <1>10, <1>11, LeftIn
  <1>13. Packed(q) = h[DOMAIN q]
    BY <1>8 DEF Packed, PackStart, FoldLeft, MapThenFoldSet, PackBy
  <1>. QED BY <1>1, <1>9, <1>12, <1>13

LEMMA SplitBySizeIs ==
    ASSUME NEW B, Blocks(B), NEW q \in Seq(B) PROVE splitBySize(q) \in Seq(Seq(Pieces(B)))
  <1>1. Packed(q) \in PackStates(B)
    <2>1. PICK h : /\ PackBy(h, q) /\ Packed(q) = h[DOMAIN q]
                   /\ \A s \in SUBSET DOMAIN q : h[s] \in PackStates(B)
      BY PackIs
    <2>. QED BY <2>1
  <1>2. flushChunk(Packed(q)) \in Seq(Seq(Pieces(B)))
    BY <1>1, FlushIs
  <1>3. Unsplit(q) \in Seq(Pieces(B))
    <2>1. Len(q) \in Nat /\ DOMAIN q = 1 .. Len(q) /\ \A i \in DOMAIN q : q[i] \in B
      OBVIOUS
    <2>2. \A i \in DOMAIN q : Whole(q[i]) \in Pieces(B)
      BY <2>1, WholeIs
    <2>3. Unsplit(q) \in [1 .. Len(q) -> Pieces(B)]
      BY <2>1, <2>2 DEF Unsplit
    <2>. QED BY <2>1, <2>3
  <1>4. <<Unsplit(q)>> \in Seq(Seq(Pieces(B)))
    BY <1>3
  <1>. QED BY <1>2, <1>4 DEF splitBySize

LineStates(B) == [out : Seq(SectionsOf(B)), heading : Titles(B), body : Seq(B)]

LEMMA FlushSectionIs == ASSUME NEW B, NEW s \in LineStates(B) PROVE flushSection(s) \in Seq(SectionsOf(B))
  <1>1. s.out \in Seq(SectionsOf(B)) /\ s.heading \in Titles(B) /\ s.body \in Seq(B)
    BY DEF LineStates
  <1>2. PICK x : x = [heading |-> s.heading, body |-> s.body]
    OBVIOUS
  <1>3. x \in SectionsOf(B)
    BY <1>1, <1>2 DEF SectionsOf
  <1>4. Append(s.out, x) \in Seq(SectionsOf(B))
    BY <1>1, <1>3, AppendProperties
  <1>. QED BY <1>1, <1>2, <1>4 DEF flushSection

LEMMA LineStep == ASSUME NEW B, NEW s \in LineStates(B), NEW b \in B PROVE addLine(s, b) \in LineStates(B)
  <1>1. s.body \in Seq(B)
    BY DEF LineStates
  <1>2. flushSection(s) \in Seq(SectionsOf(B)) /\ b.name \in Titles(B)
    BY FlushSectionIs DEF Titles, Names
  <1>3. [out |-> flushSection(s), heading |-> b.name, body |-> <<>>] \in LineStates(B)
    BY <1>2 DEF LineStates
  <1>4. PICK a : a = Append(s.body, b)
    OBVIOUS
  <1>5. a \in Seq(B)
    BY <1>1, <1>4, AppendProperties
  <1>6. [s EXCEPT !.body = a] \in LineStates(B)
    BY <1>5 DEF LineStates
  <1>. QED BY <1>3, <1>4, <1>6 DEF addLine

LineStart == [out |-> <<>>, heading |-> "", body |-> <<>>]

LEMMA LineStarts == ASSUME NEW B PROVE LineStart \in LineStates(B)
  BY DEF LineStart, LineStates, Titles

LinesOf(doc) == FoldLeft(addLine, LineStart, doc)

LinesBy(g, q) ==
    g = [s \in SUBSET DOMAIN q |->
           IF s = {} THEN LineStart ELSE addLine(g[s \ {Max(s)}], q[Max(s)])]

LEMMA LinesIs ==
    ASSUME NEW T, NEW q \in Seq(T)
    PROVE  \E h : /\ LinesBy(h, q) /\ LinesOf(q) = h[DOMAIN q]
                 /\ \A s \in SUBSET DOMAIN q : h[s] \in LineStates(T)
  <1>1. PICK V : V = LineStates(T)
    OBVIOUS
  <1>2. PICK F : F = [p \in V \X T |-> addLine(p[1], p[2])]
    OBVIOUS
  <1>3. \A x \in T, v \in V : addLine(v, x) \in V
    BY <1>1, LineStep
  <1>4. \A x \in T, v \in V : F[<<v, x>>] = addLine(v, x) /\ F[<<v, x>>] \in V
    BY <1>2, <1>3
  <1>5. LineStart \in V
    BY <1>1, LineStarts
  <1>6. PICK g : LeftUnfold(g, q, LineStart, F) /\ \A s \in SUBSET DOMAIN q : g[s] \in V
    BY <1>4, <1>5, LeftExists
  <1>7. LinesBy(g, q)
    <2>1. ASSUME NEW s \in SUBSET DOMAIN q, s # {}
          PROVE  F[<<g[s \ {Max(s)}], q[Max(s)]>>] = addLine(g[s \ {Max(s)}], q[Max(s)])
      <3>1. PICK x, v : x = q[Max(s)] /\ v = g[s \ {Max(s)}]
        OBVIOUS
      <3>2. x \in T /\ v \in V
        BY <1>6, <2>1, <3>1, LastIndex
      <3>. QED BY <1>4, <3>1, <3>2
    <2>. QED BY <1>6, <2>1 DEF LeftUnfold, LinesBy
  <1>8. PICK h : h = CHOOSE k : LinesBy(k, q)
    OBVIOUS
  <1>9. LinesBy(h, q)
    BY <1>7, <1>8
  <1>10. ASSUME NEW s \in SUBSET DOMAIN q, s # {} /\ h[s \ {Max(s)}] \in V PROVE h[s] \in V
    <2>1. q[Max(s)] \in T /\ h[s] = addLine(h[s \ {Max(s)}], q[Max(s)])
      BY <1>9, <1>10, LastIndex DEF LinesBy
    <2>. QED BY <1>3, <1>10, <2>1
  <1>11. h[{}] \in V
    BY <1>5, <1>9 DEF LinesBy
  <1>12. \A s \in SUBSET DOMAIN q : h[s] \in V
    BY <1>10, <1>11, LeftIn
  <1>13. LinesOf(q) = h[DOMAIN q]
    BY <1>8 DEF LinesOf, FoldLeft, MapThenFoldSet, LinesBy
  <1>. QED BY <1>1, <1>9, <1>12, <1>13

LEMMA SplitByHeadingsIs == ASSUME NEW B, NEW q \in Seq(B) PROVE splitByHeadings(q) \in Seq(SectionsOf(B))
  <1>1. LinesOf(q) \in LineStates(B)
    <2>1. PICK h : /\ LinesBy(h, q) /\ LinesOf(q) = h[DOMAIN q]
                   /\ \A s \in SUBSET DOMAIN q : h[s] \in LineStates(B)
      BY LinesIs
    <2>. QED BY <2>1
  <1>2. splitByHeadings(q) = flushSection(LinesOf(q))
    BY DEF splitByHeadings, LinesOf, LineStart
  <1>. QED BY <1>1, <1>2, FlushSectionIs

-----------------------------------------------------------------------------
(* A sequence of sequences, one after the other.                              *)

FlatBy(g, q) == g = [i \in 1 .. Len(q) |-> IF i = 1 THEN q[i] ELSE g[i - 1] \o q[i]]

LEMMA UpToMax ==
    ASSUME NEW i \in Nat, i > 0
    PROVE  Max(1 .. i) = i /\ 1 .. i # {} /\ (1 .. i) \ {i} = 1 .. (i - 1)
  <1>1. PICK S : S = 1 .. i
    OBVIOUS
  <1>2. S \subseteq Nat /\ i \in S /\ \A c \in S : c <= i
    BY <1>1
  <1>3. Max(S) \in S /\ i <= Max(S)
    BY <1>2, GreatestOf
  <1>4. Max(S) = i
    BY <1>1, <1>3
  <1>5. \A j : j \in (1 .. i) \ {i} <=> j \in 1 .. (i - 1)
    OBVIOUS
  <1>. QED BY <1>1, <1>2, <1>4, <1>5

LEMMA FlatExists == ASSUME NEW T, NEW q \in Seq(Seq(T)) PROVE \E g : FlatBy(g, q)
  <1>1. PICK V : V = Seq(T)
    OBVIOUS
  <1>2. PICK F : F = [p \in V \X V |-> p[1] \o p[2]]
    OBVIOUS
  <1>3. \A v \in V, x \in V : v \o x \in V
    BY <1>1, ConcatProperties
  <1>4. \A x \in V, v \in V : F[<<v, x>>] = v \o x /\ F[<<v, x>>] \in V
    BY <1>2, <1>3
  <1>5. q \in Seq(V) /\ <<>> \in V
    BY <1>1
  <1>6. PICK f : LeftUnfold(f, q, <<>>, F) /\ \A s \in SUBSET DOMAIN q : f[s] \in V
    BY <1>4, <1>5, LeftExists
  <1>7. PICK n \in Nat : n = Len(q) /\ DOMAIN q = 1 .. n
    BY <1>5
  <1>8. PICK g : g = [i \in 1 .. n |-> f[1 .. i]]
    OBVIOUS
  <1>9. ASSUME NEW i \in 1 .. n PROVE g[i] = IF i = 1 THEN q[i] ELSE g[i - 1] \o q[i]
    <2>1. i \in Nat /\ i > 0 /\ 1 .. i \in SUBSET DOMAIN q /\ 1 .. (i - 1) \in SUBSET DOMAIN q
      BY <1>7
    <2>2. Max(1 .. i) = i /\ 1 .. i # {} /\ (1 .. i) \ {i} = 1 .. (i - 1)
      BY <2>1, UpToMax
    <2>3. f[1 .. i] = F[<<f[1 .. (i - 1)], q[i]>>]
      BY <1>6, <2>1, <2>2 DEF LeftUnfold
    <2>4. f[1 .. (i - 1)] \in V /\ q[i] \in V
      <3>1. f[1 .. (i - 1)] \in V
        BY <1>6, <2>1
      <3>2. q[i] \in V
        BY <1>5, <1>7
      <3>. QED BY <3>1, <3>2
    <2>5. f[1 .. i] = f[1 .. (i - 1)] \o q[i]
      BY <1>4, <2>3, <2>4
    <2>6. CASE i = 1
      <3>1. 1 .. (i - 1) = {} /\ {} \in SUBSET DOMAIN q
        BY <2>6
      <3>2. f[{}] = <<>>
        BY <1>6, <3>1 DEF LeftUnfold
      <3>3. <<>> \o q[i] = q[i]
        BY <1>1, <2>4, ConcatEmptySeq
      <3>. QED BY <1>8, <2>5, <2>6, <3>1, <3>2, <3>3
    <2>7. CASE i # 1
      <3>1. i - 1 \in 1 .. n
        BY <2>7
      <3>. QED BY <1>8, <2>5, <2>7, <3>1
    <2>. QED BY <2>6, <2>7
  <1>10. FlatBy(g, q)
    BY <1>7, <1>8, <1>9 DEF FlatBy
  <1>. QED BY <1>10

LEMMA FlattenIn == ASSUME NEW T, NEW q \in Seq(Seq(T)) PROVE FlattenSeq(q) \in Seq(T)
  <1>1. PICK n \in Nat : n = Len(q) /\ DOMAIN q = 1 .. n
    OBVIOUS
  <1>2. CASE n = 0
    <2>1. FlattenSeq(q) = q /\ q = <<>>
      BY <1>1, <1>2 DEF FlattenSeq
    <2>. QED BY <2>1
  <1>3. CASE n # 0
    <2>1. PICK h : h = CHOOSE g : FlatBy(g, q)
      OBVIOUS
    <2>2. FlatBy(h, q)
      BY <2>1, FlatExists
    <2>3. FlattenSeq(q) = h[n]
      BY <1>1, <1>3, <2>1 DEF FlattenSeq, FlatBy
    <2>. DEFINE Bad == {i \in 1 .. n : h[i] \notin Seq(T)}
    <2>4. ASSUME Bad # {} PROVE FALSE
      <3>1. PICK i \in Bad : \A m \in Bad : i <= m
        <4>1. Bad \subseteq Nat OBVIOUS
        <4>2. PICK D : D = Bad OBVIOUS
        <4>. HIDE DEF Bad
        <4>. QED BY <2>4, <4>1, <4>2, LeastOf
      <3>2. i \in 1 .. n /\ h[i] \notin Seq(T) /\ q[i] \in Seq(T)
        BY <1>1, <3>1
      <3>3. h[i] = IF i = 1 THEN q[i] ELSE h[i - 1] \o q[i]
        BY <1>1, <2>2, <3>2 DEF FlatBy
      <3>4. i # 1 /\ i - 1 \in 1 .. n
        BY <3>2, <3>3
      <3>5. i - 1 \notin Bad
        <4>1. i - 1 < i
          BY <3>2
        <4>. HIDE DEF Bad
        <4>. QED BY <3>1, <3>2, <4>1
      <3>6. h[i - 1] \in Seq(T)
        BY <3>4, <3>5
      <3>7. h[i - 1] \o q[i] \in Seq(T)
        BY <3>2, <3>6, ConcatProperties
      <3>. QED BY <3>2, <3>3, <3>4, <3>7
    <2>5. n \in 1 .. n
      BY <1>3
    <2>6. h[n] \in Seq(T)
      BY <2>4, <2>5
    <2>. QED BY <2>3, <2>6
  <1>. QED BY <1>2, <1>3

LEMMA Mapped ==
    ASSUME NEW U, NEW T, NEW s \in Seq(U), NEW f, f = [i \in DOMAIN s |-> f[i]], \A i \in DOMAIN s : f[i] \in T
    PROVE  f \in Seq(T)
  <1>1. PICK n \in Nat : n = Len(s) /\ DOMAIN s = 1 .. n
    OBVIOUS
  <1>2. f = [i \in 1 .. n |-> f[i]] /\ \A i \in 1 .. n : f[i] \in T
    BY <1>1
  <1>3. f \in [1 .. n -> T]
    BY <1>2
  <1>. QED BY <1>3

LEMMA ChunksOfIs ==
    ASSUME NEW B, Blocks(B), NEW S, NEW source \in S, NEW section \in SectionsOf(B)
    PROVE  ChunksOf(source, section) \in Seq(RawChunks(S, B))
  <1>1. section.heading \in Titles(B) /\ section.body \in Seq(B)
    BY DEF SectionsOf
  <1>2. PICK p : p = splitBySize(section.body)
    OBVIOUS
  <1>3. p \in Seq(Seq(Pieces(B)))
    BY <1>1, <1>2, SplitBySizeIs
  <1>4. PICK c : c = ChunksOf(source, section)
    OBVIOUS
  <1>5. c = [i \in DOMAIN p |-> [source |-> source, heading |-> section.heading, ordinal |-> i - 1,
                                 body |-> p[i], over |-> 0]]
    BY <1>2, <1>4 DEF ChunksOf
  <1>6. ASSUME NEW i \in DOMAIN p PROVE c[i] \in RawChunks(S, B)
    <2>1. p[i] \in Seq(Pieces(B)) /\ i - 1 \in Int
      BY <1>3
    <2>. QED BY <1>1, <1>5, <2>1 DEF RawChunks
  <1>7. c = [i \in DOMAIN p |-> c[i]]
    BY <1>5
  <1>. QED BY <1>3, <1>4, <1>6, <1>7, Mapped

LEMMA OverlapIs ==
    ASSUME NEW B, NEW S, NEW q \in Seq(RawChunks(S, B))
    PROVE  applyOverlap(q) \in Seq(RawChunks(S, B))
  <1>1. PICK n \in Nat : n = Len(q) /\ DOMAIN q = 1 .. n
    OBVIOUS
  <1>2. PICK f : f = applyOverlap(q)
    OBVIOUS
  <1>3. f = [i \in DOMAIN q |->
               IF i = Len(q) THEN q[i]
               ELSE [q[i] EXCEPT !.over = Min({OverlapChars, Chars(q[i + 1].body)})]]
    BY <1>2 DEF applyOverlap
  <1>4. ASSUME NEW i \in DOMAIN q PROVE f[i] \in RawChunks(S, B)
    <2>1. q[i] \in RawChunks(S, B)
      OBVIOUS
    <2>2. CASE i = Len(q)
      BY <1>3, <2>1, <2>2
    <2>3. CASE i # Len(q)
      <3>1. i + 1 \in DOMAIN q
        BY <1>1, <2>3
      <3>2. q[i + 1].body \in Seq(Pieces(B))
        <4>1. PICK x : x = q[i + 1]
          OBVIOUS
        <4>2. x \in RawChunks(S, B)
          BY <3>1, <4>1
        <4>. QED BY <4>1, <4>2 DEF RawChunks
      <3>3. Chars(q[i + 1].body) \in Nat
        BY <3>2, CharsIs
      <3>4. PICK m \in Nat : m = Min({OverlapChars, Chars(q[i + 1].body)})
        BY <3>3, MinTwo DEF OverlapChars
      <3>5. f[i] = [q[i] EXCEPT !.over = m]
        BY <1>3, <2>3, <3>4
      <3>. QED BY <2>1, <3>5 DEF RawChunks
    <2>. QED BY <2>2, <2>3
  <1>5. f = [i \in DOMAIN q |-> f[i]]
    BY <1>3
  <1>. QED BY <1>2, <1>4, <1>5, Mapped

LEMMA SplitMarkdownIs ==
    ASSUME NEW B, Blocks(B), NEW S, NEW source \in S, NEW doc \in Seq(B)
    PROVE  SplitMarkdown(source, doc) \in Seq(RawChunks(S, B))
  <1>1. PICK p : p = splitByHeadings(doc)
    OBVIOUS
  <1>2. p \in Seq(SectionsOf(B))
    BY <1>1, SplitByHeadingsIs
  <1>3. PICK c : c = [i \in DOMAIN p |-> ChunksOf(source, p[i])]
    OBVIOUS
  <1>4. \A i \in DOMAIN p : p[i] \in SectionsOf(B) /\ c[i] \in Seq(RawChunks(S, B))
    BY <1>2, <1>3, ChunksOfIs
  <1>5. c \in Seq(Seq(RawChunks(S, B)))
    <2>1. c = [i \in DOMAIN p |-> c[i]]
      BY <1>3
    <2>2. PICK Y : Y = Seq(RawChunks(S, B))
      OBVIOUS
    <2>. QED BY <1>2, <1>4, <2>1, <2>2, Mapped
  <1>6. FlattenSeq(c) \in Seq(RawChunks(S, B))
    BY <1>5, FlattenIn
  <1>7. SplitMarkdown(source, doc) = applyOverlap(FlattenSeq(c))
    BY <1>1, <1>3 DEF SplitMarkdown
  <1>. QED BY <1>6, <1>7, OverlapIs

(* What an ingest writes: documents, each with a vector of the embedder.      *)
LEMMA ChunkedIs ==
    ASSUME NEW tree \in Trees, NEW e, NEW len, NEW c, c = Chunked(tree, e, len)
    PROVE  /\ c \in Seq(ToSet(c))
           /\ \A i \in DOMAIN c : DocChunk(c[i], e)
  <1>1. /\ tree \in Seq(ToSet(tree))
        /\ \A f \in ToSet(tree) : f.doc \in Seq(ToSet(f.doc)) /\ \A b \in ToSet(f.doc) : b.len \in Nat
    BY TreesAssumption
  <1>2. PICK B : B = UNION {ToSet(f.doc) : f \in ToSet(tree)}
    OBVIOUS
  <1>3. Blocks(B)
    BY <1>1, <1>2 DEF Blocks
  <1>4. PICK S : S = {f.source : f \in ToSet(tree)}
    OBVIOUS
  <1>5. PICK p : p = [i \in DOMAIN tree |-> SplitMarkdown(tree[i].source, tree[i].doc)]
    OBVIOUS
  <1>6. ASSUME NEW i \in DOMAIN tree PROVE p[i] \in Seq(RawChunks(S, B))
    <2>1. tree[i] \in ToSet(tree)
      BY DEF ToSet
    <2>2. tree[i].source \in S /\ ToSet(tree[i].doc) \subseteq B
      BY <1>2, <1>4, <2>1
    <2>3. PICK d : d = tree[i].doc
      OBVIOUS
    <2>4. d \in Seq(ToSet(d)) /\ ToSet(d) \subseteq B
      BY <1>1, <2>1, <2>2, <2>3
    <2>5. d \in Seq(B)
      BY <2>4
    <2>. QED BY <1>3, <1>5, <2>2, <2>3, <2>5, SplitMarkdownIs
  <1>7. p \in Seq(Seq(RawChunks(S, B)))
    <2>1. p = [i \in DOMAIN tree |-> p[i]]
      BY <1>5
    <2>2. PICK Y : Y = Seq(RawChunks(S, B))
      OBVIOUS
    <2>. QED BY <1>1, <1>6, <2>1, <2>2, Mapped
  <1>8. PICK q : q = FlattenSeq(p)
    OBVIOUS
  <1>9. q \in Seq(RawChunks(S, B))
    BY <1>7, <1>8, FlattenIn
  <1>10. c = [i \in DOMAIN q |-> [source |-> q[i].source, heading |-> q[i].heading, ordinal |-> q[i].ordinal,
                                  body |-> q[i].body, over |-> q[i].over,
                                  vec |-> [by |-> e, len |-> len], subject |-> None]]
    BY <1>5, <1>8 DEF Chunked
  <1>11. PICK n \in Nat : n = Len(q) /\ DOMAIN q = 1 .. n
    BY <1>9
  <1>12. DOMAIN c = 1 .. n /\ c = [i \in 1 .. n |-> c[i]]
    BY <1>10, <1>11
  <1>13. c \in Seq(ToSet(c))
    <2>1. \A i \in 1 .. n : c[i] \in ToSet(c)
      BY <1>12 DEF ToSet
    <2>. QED BY <1>12, <2>1
  <1>14. ASSUME NEW i \in DOMAIN c PROVE DocChunk(c[i], e)
    <2>1. i \in DOMAIN q
      BY <1>11, <1>12
    <2>2. q[i] \in RawChunks(S, B)
      BY <1>9, <2>1
    <2>3. c[i].subject = None /\ c[i].vec.by = e /\ c[i].body = q[i].body /\ c[i].over = q[i].over
      BY <1>10, <2>1
    <2>4. q[i].body \in Seq(Pieces(B)) /\ q[i].over \in Nat
      BY <2>2 DEF RawChunks
    <2>5. Chars(c[i].body) \in Nat
      BY <2>3, <2>4, CharsIs
    <2>6. TextLen(c[i]) \in Nat
      BY <2>3, <2>4, <2>5 DEF TextLen
    <2>. QED BY <2>3, <2>6 DEF DocChunk
  <1>. QED BY <1>13, <1>14

-----------------------------------------------------------------------------
(* Induction over sequences, one element at a time.                          *)

LEMMA SeqInduction ==
    ASSUME NEW T, NEW R, <<>> \in R, \A p \in Seq(T), x \in T : p \in R => Append(p, x) \in R
    PROVE  \A q \in Seq(T) : q \in R
  <1>. DEFINE Bad == {n \in Nat : \E q \in Seq(T) : Len(q) = n /\ q \notin R}
  <1>1. ASSUME Bad # {} PROVE FALSE
    <2>1. PICK n \in Bad : \A m \in Bad : n <= m
      <3>1. Bad \subseteq Nat OBVIOUS
      <3>2. PICK D : D = Bad OBVIOUS
      <3>. HIDE DEF Bad
      <3>. QED BY <1>1, <3>1, <3>2, LeastOf
    <2>2. PICK q \in Seq(T) : Len(q) = n /\ q \notin R
      BY <2>1
    <2>3. q # <<>> /\ n \in Nat /\ n > 0 /\ n - 1 \in Nat
      BY <2>2
    <2>4. PICK p : p = SubSeq(q, 1, n - 1)
      OBVIOUS
    <2>5. p \in Seq(T) /\ Len(p) = n - 1 /\ \A i \in 1 .. (n - 1) : p[i] = q[i]
      BY <2>2, <2>3, <2>4, SubSeqProperties
    <2>6. q[n] \in T /\ q = Append(p, q[n])
      BY <2>2, <2>3, <2>5
    <2>7. n - 1 \notin Bad
      <3>. HIDE DEF Bad
      <3>. QED BY <2>1, <2>3
    <2>8. p \in R
      BY <2>3, <2>5, <2>7
    <2>. QED BY <2>2, <2>5, <2>6, <2>8
  <1>2. ASSUME NEW q \in Seq(T) PROVE q \in R
    <2>1. Len(q) \in Nat
      OBVIOUS
    <2>. QED BY <1>1, <2>1
  <1>. QED BY <1>2

LEMMA AppendIs ==
    ASSUME NEW T, NEW q \in Seq(T), NEW x \in T, NEW r, r = Append(q, x)
    PROVE  /\ r \in Seq(T) /\ Len(q) \in Nat
           /\ DOMAIN q = 1 .. Len(q) /\ DOMAIN r = 1 .. Len(q) + 1
           /\ \A i \in 1 .. Len(q) : r[i] = q[i]
           /\ r[Len(q) + 1] = x
  OBVIOUS

(* What a fold makes of a sequence and one more element.                      *)
OneMore(k, r, h, q, x, F) == k[DOMAIN r] = F[<<h[DOMAIN q], x>>]

LEMMA LeftAppend ==
    ASSUME NEW T, NEW q \in Seq(T), NEW x \in T, NEW r, r = Append(q, x), NEW b, NEW F,
           NEW h, LeftUnfold(h, q, b, F), NEW k, LeftUnfold(k, r, b, F)
    PROVE  OneMore(k, r, h, q, x, F)
  <1>1. PICK n \in Nat : n = Len(q)
    OBVIOUS
  <1>2. /\ r \in Seq(T) /\ DOMAIN q = 1 .. n /\ DOMAIN r = 1 .. n + 1
        /\ \A i \in 1 .. n : r[i] = q[i]
        /\ r[n + 1] = x
    BY <1>1, AppendIs
  <1>3. PICK d : d = [s \in SUBSET DOMAIN q |-> IF k[s] = h[s] THEN 0 ELSE 1]
    OBVIOUS
  <1>4. \A s \in SUBSET DOMAIN q : s \in SUBSET DOMAIN r
    BY <1>2
  <1>5. d[{}] = 0
    <2>1. {} \in SUBSET DOMAIN q /\ {} \in SUBSET DOMAIN r
      OBVIOUS
    <2>2. h[{}] = b /\ k[{}] = b
      BY <2>1 DEF LeftUnfold
    <2>. QED BY <1>3, <2>1, <2>2
  <1>6. ASSUME NEW s \in SUBSET DOMAIN q, s # {} /\ d[s \ {Max(s)}] \in {0} PROVE d[s] \in {0}
    <2>1. Max(s) \in DOMAIN q /\ s \ {Max(s)} \in SUBSET DOMAIN q
      BY <1>6, LastIndex
    <2>2. h[s] = F[<<h[s \ {Max(s)}], q[Max(s)]>>]
      BY <1>6 DEF LeftUnfold
    <2>3. k[s] = F[<<k[s \ {Max(s)}], r[Max(s)]>>]
      BY <1>4, <1>6 DEF LeftUnfold
    <2>4. r[Max(s)] = q[Max(s)]
      BY <1>2, <2>1
    <2>5. k[s \ {Max(s)}] = h[s \ {Max(s)}]
      BY <1>3, <1>6, <2>1
    <2>6. k[s] = h[s]
      BY <2>2, <2>3, <2>4, <2>5
    <2>. QED BY <1>3, <2>6
  <1>7. \A s \in SUBSET DOMAIN q : d[s] \in {0}
    <2>1. PICK Z : Z = {0}
      OBVIOUS
    <2>2. d[{}] \in Z /\ \A s \in SUBSET DOMAIN q : s # {} /\ d[s \ {Max(s)}] \in Z => d[s] \in Z
      BY <1>5, <1>6, <2>1
    <2>3. \A s \in SUBSET DOMAIN q : d[s] \in Z
      BY <2>2, LeftIn
    <2>. QED BY <2>1, <2>3
  <1>8. k[1 .. n] = h[1 .. n]
    <2>1. PICK s : s = 1 .. n
      OBVIOUS
    <2>2. s \in SUBSET DOMAIN q
      BY <1>2, <2>1
    <2>3. d[s] = 0 /\ d[s] = IF k[s] = h[s] THEN 0 ELSE 1
      BY <1>3, <1>7, <2>2
    <2>4. k[s] = h[s]
      BY <2>3
    <2>. QED BY <2>1, <2>4
  <1>9. PICK m \in Nat : m = n + 1 /\ m > 0 /\ m - 1 = n
    OBVIOUS
  <1>10. Max(1 .. m) = m /\ 1 .. m # {} /\ (1 .. m) \ {m} = 1 .. n
    BY <1>9, UpToMax
  <1>11. 1 .. m \in SUBSET DOMAIN r
    BY <1>2, <1>9
  <1>12. k[1 .. m] = F[<<k[1 .. n], r[m]>>]
    <2>1. PICK s : s = 1 .. m
      OBVIOUS
    <2>2. s \in SUBSET DOMAIN r /\ s # {}
      BY <1>10, <1>11, <2>1
    <2>3. k[s] = F[<<k[s \ {Max(s)}], r[Max(s)]>>]
      BY <2>2 DEF LeftUnfold
    <2>. QED BY <1>10, <2>1, <2>3
  <1>. QED BY <1>2, <1>8, <1>9, <1>12 DEF OneMore

-----------------------------------------------------------------------------
(* Sequences mapped by a function.                                            *)

Map(g, p) == [i \in DOMAIN p |-> g[p[i]]]

LEMMA MapIn == ASSUME NEW S, NEW T, NEW g, NEW p \in Seq(S), \A x \in S : g[x] \in T PROVE Map(g, p) \in Seq(T)
  <1>1. PICK n \in Nat : n = Len(p) /\ DOMAIN p = 1 .. n
    OBVIOUS
  <1>2. Map(g, p) \in [1 .. n -> T]
    BY <1>1 DEF Map
  <1>. QED BY <1>2

LEMMA MapEmpty == ASSUME NEW g PROVE Map(g, <<>>) = <<>>
  BY DEF Map

MapOne(g, p, x) == Map(g, Append(p, x)) = Append(Map(g, p), g[x])

LEMMA MapAppend ==
    ASSUME NEW S, NEW T, NEW g, NEW p \in Seq(S), NEW x \in S, \A y \in S : g[y] \in T
    PROVE  MapOne(g, p, x)
  <1>1. PICK r : r = Append(p, x)
    OBVIOUS
  <1>2. PICK n \in Nat : n = Len(p)
    OBVIOUS
  <1>3. /\ r \in Seq(S) /\ DOMAIN p = 1 .. n /\ DOMAIN r = 1 .. n + 1 /\ Len(r) = n + 1
        /\ \A i \in 1 .. n : r[i] = p[i]
        /\ r[n + 1] = x
    BY <1>1, <1>2, AppendIs
  <1>4. PICK a, z : a = Map(g, p) /\ z = Map(g, r)
    OBVIOUS
  <1>5. a \in Seq(T) /\ z \in Seq(T) /\ g[x] \in T
    BY <1>3, <1>4, MapIn
  <1>6. DOMAIN a = 1 .. n /\ DOMAIN z = 1 .. n + 1
    BY <1>3, <1>4 DEF Map
  <1>7. Len(a) = n /\ Len(z) = n + 1
    BY <1>5, <1>6
  <1>8. \A i \in 1 .. n : z[i] = a[i]
    BY <1>3, <1>4 DEF Map
  <1>9. z[n + 1] = g[x]
    BY <1>3, <1>4 DEF Map
  <1>10. z = Append(a, g[x])
    BY <1>5, <1>7, <1>8, <1>9
  <1>. QED BY <1>1, <1>4, <1>10 DEF MapOne

MapBoth(g, p, q) == Map(g, p \o q) = Map(g, p) \o Map(g, q)

LEMMA MapConcat ==
    ASSUME NEW S, NEW T, NEW g, NEW p \in Seq(S), NEW q \in Seq(S), \A y \in S : g[y] \in T
    PROVE  MapBoth(g, p, q)
  <1>1. PICK r : r = p \o q
    OBVIOUS
  <1>2. PICK n \in Nat, m \in Nat : n = Len(p) /\ m = Len(q)
    OBVIOUS
  <1>3. /\ r \in Seq(S) /\ DOMAIN p = 1 .. n /\ DOMAIN q = 1 .. m /\ DOMAIN r = 1 .. n + m
        /\ \A i \in 1 .. n + m : r[i] = IF i <= n THEN p[i] ELSE q[i - n]
    BY <1>1, <1>2, ConcatProperties
  <1>4. PICK a, b, z : a = Map(g, p) /\ b = Map(g, q) /\ z = Map(g, r)
    OBVIOUS
  <1>5. a \in Seq(T) /\ b \in Seq(T) /\ z \in Seq(T)
    BY <1>3, <1>4, MapIn
  <1>6. DOMAIN a = 1 .. n /\ DOMAIN b = 1 .. m /\ DOMAIN z = 1 .. n + m
    BY <1>3, <1>4 DEF Map
  <1>7. Len(a) = n /\ Len(b) = m /\ Len(z) = n + m
    BY <1>5, <1>6
  <1>8. PICK w : w = a \o b
    OBVIOUS
  <1>9. w \in Seq(T) /\ Len(w) = n + m /\ \A i \in 1 .. n + m : w[i] = IF i <= n THEN a[i] ELSE b[i - n]
    BY <1>5, <1>7, <1>8, ConcatProperties
  <1>10. ASSUME NEW i \in 1 .. n + m PROVE z[i] = w[i]
    <2>1. CASE i <= n
      <3>1. i \in 1 .. n
        BY <2>1
      <3>. QED BY <1>3, <1>4, <1>9, <2>1, <3>1 DEF Map
    <2>2. CASE ~(i <= n)
      <3>1. i - n \in 1 .. m
        BY <2>2
      <3>2. z[i] = g[q[i - n]]
        BY <1>3, <1>4, <2>2 DEF Map
      <3>3. w[i] = g[q[i - n]]
        BY <1>3, <1>4, <1>9, <2>2, <3>1 DEF Map
      <3>. QED BY <3>2, <3>3
    <2>. QED BY <2>1, <2>2
  <1>11. z = w
    BY <1>5, <1>7, <1>9, <1>10
  <1>. QED BY <1>1, <1>4, <1>8, <1>11 DEF MapBoth

-----------------------------------------------------------------------------
(* Flattening, one sequence at a time.                                        *)

LEMMA FlatEmpty == FlattenSeq(<<>>) = <<>>
  BY DEF FlattenSeq

LEMMA FlatIs ==
    ASSUME NEW T, NEW q \in Seq(Seq(T)), q # <<>>
    PROVE  \E h : FlatBy(h, q) /\ FlattenSeq(q) = h[Len(q)]
  <1>1. PICK h : h = CHOOSE g : FlatBy(g, q)
    OBVIOUS
  <1>2. FlatBy(h, q)
    BY <1>1, FlatExists
  <1>3. Len(q) # 0
    OBVIOUS
  <1>4. FlattenSeq(q) = h[Len(q)]
    BY <1>1, <1>3 DEF FlattenSeq, FlatBy
  <1>. QED BY <1>2, <1>4

LEMMA FlatAppend ==
    ASSUME NEW T, NEW q \in Seq(Seq(T)), NEW x \in Seq(T)
    PROVE  FlattenSeq(Append(q, x)) = FlattenSeq(q) \o x
  <1>1. PICK r, Y : r = Append(q, x) /\ Y = Seq(T)
    OBVIOUS
  <1>2. PICK n \in Nat : n = Len(q)
    OBVIOUS
  <1>3. /\ r \in Seq(Y) /\ q \in Seq(Y) /\ r # <<>> /\ Len(r) = n + 1
        /\ \A i \in 1 .. n : r[i] = q[i]
        /\ r[n + 1] = x
    BY <1>1, <1>2, AppendIs
  <1>4. PICK k : FlatBy(k, r) /\ FlattenSeq(r) = k[n + 1]
    BY <1>1, <1>2, <1>3, FlatIs
  <1>5. k[n + 1] = IF n = 0 THEN x ELSE k[n] \o x
    <2>1. n + 1 \in 1 .. Len(r) /\ (n + 1) - 1 = n /\ (n + 1 = 1 <=> n = 0)
      BY <1>3
    <2>. QED BY <1>3, <1>4, <2>1 DEF FlatBy
  <1>6. CASE n = 0
    <2>1. q = <<>>
      <3>1. q \in Seq(Y) /\ Len(q) = 0
        BY <1>2, <1>3, <1>6
      <3>. QED BY <3>1, EmptySeq
    <2>2. <<>> \o x = x
      BY ConcatEmptySeq
    <2>. QED BY <1>1, <1>4, <1>5, <1>6, <2>1, <2>2, FlatEmpty
  <1>7. CASE n # 0
    <2>1. q # <<>>
      BY <1>2, <1>7
    <2>2. PICK h : FlatBy(h, q) /\ FlattenSeq(q) = h[n]
      BY <1>2, <2>1, FlatIs
    <2>. DEFINE Bad == {i \in 1 .. n : h[i] # k[i]}
    <2>3. ASSUME Bad # {} PROVE FALSE
      <3>1. PICK i \in Bad : \A m \in Bad : i <= m
        <4>1. Bad \subseteq Nat OBVIOUS
        <4>2. PICK D : D = Bad OBVIOUS
        <4>. HIDE DEF Bad
        <4>. QED BY <2>3, <4>1, <4>2, LeastOf
      <3>2. i \in 1 .. n /\ h[i] # k[i]
        BY <3>1
      <3>3. h[i] = IF i = 1 THEN q[i] ELSE h[i - 1] \o q[i]
        BY <1>2, <2>2, <3>2 DEF FlatBy
      <3>4. k[i] = IF i = 1 THEN r[i] ELSE k[i - 1] \o r[i]
        <4>1. i \in 1 .. Len(r)
          BY <1>3, <3>2
        <4>. QED BY <1>4, <4>1 DEF FlatBy
      <3>5. i # 1 /\ h[i - 1] # k[i - 1]
        BY <1>3, <3>2, <3>3, <3>4
      <3>6. i - 1 \in Bad /\ i - 1 < i
        BY <3>2, <3>5
      <3>. HIDE DEF Bad
      <3>. QED BY <3>1, <3>2, <3>6
    <2>4. n \in 1 .. n
      BY <1>7
    <2>5. h[n] = k[n]
      BY <2>3, <2>4
    <2>. QED BY <1>1, <1>4, <1>5, <1>7, <2>2, <2>5
  <1>. QED BY <1>6, <1>7

LEMMA FlatOne == ASSUME NEW T, NEW x \in Seq(T) PROVE FlattenSeq(<<x>>) = x
  <1>1. <<x>> = Append(<<>>, x) /\ <<>> \in Seq(Seq(T)) /\ <<>> \o x = x
    BY ConcatEmptySeq
  <1>2. FlattenSeq(Append(<<>>, x)) = FlattenSeq(<<>>) \o x
    BY <1>1, FlatAppend
  <1>. QED BY <1>1, <1>2, FlatEmpty

LEMMA ConcatAppend ==
    ASSUME NEW T, NEW a \in Seq(T), NEW b \in Seq(T), NEW x \in T
    PROVE  a \o Append(b, x) = Append(a \o b, x) /\ Append(a, x) = a \o <<x>>
  OBVIOUS

Assoc(a, b, c) == (a \o b) \o c = a \o (b \o c)

LEMMA ConcatAssoc == ASSUME NEW T, NEW a \in Seq(T), NEW b \in Seq(T), NEW c \in Seq(T) PROVE Assoc(a, b, c)
  BY ConcatAssociative DEF Assoc

LEMMA FlatConcat ==
    ASSUME NEW T, NEW a \in Seq(Seq(T)), NEW b \in Seq(Seq(T))
    PROVE  FlattenSeq(a \o b) = FlattenSeq(a) \o FlattenSeq(b)
  <1>1. PICK Y : Y = Seq(T)
    OBVIOUS
  <1>2. a \in Seq(Y) /\ b \in Seq(Y)
    BY <1>1
  <1>3. PICK R : R = {q \in Seq(Y) : FlattenSeq(a \o q) = FlattenSeq(a) \o FlattenSeq(q)}
    OBVIOUS
  <1>4. <<>> \in R
    <2>1. a \o <<>> = a /\ <<>> \in Seq(Y)
      BY <1>2, ConcatEmptySeq
    <2>2. PICK f : f = FlattenSeq(a)
      OBVIOUS
    <2>3. f \in Seq(T)
      BY <2>2, FlattenIn
    <2>4. f \o <<>> = f
      BY <2>3, ConcatEmptySeq
    <2>. QED BY <1>3, <2>1, <2>2, <2>4, FlatEmpty
  <1>5. ASSUME NEW q \in Seq(Y), NEW x \in Y, q \in R PROVE Append(q, x) \in R
    <2>1. FlattenSeq(a \o q) = FlattenSeq(a) \o FlattenSeq(q)
      BY <1>3, <1>5
    <2>2. a \o Append(q, x) = Append(a \o q, x) /\ a \o q \in Seq(Y)
      BY <1>2, ConcatAppend, ConcatProperties
    <2>3. FlattenSeq(Append(a \o q, x)) = FlattenSeq(a \o q) \o x
      BY <1>1, <2>2, FlatAppend
    <2>4. FlattenSeq(Append(q, x)) = FlattenSeq(q) \o x
      BY <1>1, FlatAppend
    <2>5. PICK f, g : f = FlattenSeq(a) /\ g = FlattenSeq(q)
      OBVIOUS
    <2>6. f \in Seq(T) /\ g \in Seq(T) /\ x \in Seq(T)
      BY <1>1, <2>5, FlattenIn
    <2>7. Assoc(f, g, x)
      BY <2>6, ConcatAssoc
    <2>8. FlattenSeq(a \o Append(q, x)) = FlattenSeq(a) \o FlattenSeq(Append(q, x))
      BY <2>1, <2>2, <2>3, <2>4, <2>5, <2>7 DEF Assoc
    <2>9. Append(q, x) \in Seq(Y)
      BY AppendProperties
    <2>. QED BY <1>3, <2>8, <2>9
  <1>6. b \in R
    BY <1>2, <1>4, <1>5, SeqInduction
  <1>. QED BY <1>3, <1>6

-----------------------------------------------------------------------------
(* The folds of Corpus, one element at a time.                                *)

LEMMA LengthAppend ==
    ASSUME NEW T, NEW q \in Seq(T), NEW x \in T, \A y \in T : y.to - y.from + 1 \in Nat /\ y.to \in Int /\ y.from \in Int
    PROVE  SumLen(q) \in Nat /\ SumLen(Append(q, x)) = SumLen(q) + x.to - x.from + 1
  <1>1. PICK V, r : V = Nat /\ r = Append(q, x)
    OBVIOUS
  <1>2. r \in Seq(T)
    BY <1>1, AppendProperties
  <1>3. PICK F : F = [p \in V \X T |-> p[1] + p[2].to - p[2].from + 1]
    OBVIOUS
  <1>4. \A y \in T, v \in V : F[<<v, y>>] = v + y.to - y.from + 1
    BY <1>3
  <1>5. PICK h : LengthBy(h, q) /\ SumLen(q) = h[DOMAIN q] /\ \A s \in SUBSET DOMAIN q : h[s] \in V
    BY <1>1, LengthIs
  <1>6. PICK k : LengthBy(k, r) /\ SumLen(r) = k[DOMAIN r] /\ \A s \in SUBSET DOMAIN r : k[s] \in V
    BY <1>1, <1>2, LengthIs
  <1>7. LeftUnfold(h, q, 0, F)
    <2>1. ASSUME NEW s \in SUBSET DOMAIN q, s # {}
          PROVE  F[<<h[s \ {Max(s)}], q[Max(s)]>>] = h[s \ {Max(s)}] + q[Max(s)].to - q[Max(s)].from + 1
      <3>1. PICK y, v : y = q[Max(s)] /\ v = h[s \ {Max(s)}]
        OBVIOUS
      <3>2. y \in T /\ v \in V
        BY <1>2, <1>5, <2>1, <3>1, LastIndex
      <3>. QED BY <1>4, <3>1, <3>2
    <2>. QED BY <1>5, <2>1 DEF LeftUnfold, LengthBy
  <1>8. LeftUnfold(k, r, 0, F)
    <2>1. ASSUME NEW s \in SUBSET DOMAIN r, s # {}
          PROVE  F[<<k[s \ {Max(s)}], r[Max(s)]>>] = k[s \ {Max(s)}] + r[Max(s)].to - r[Max(s)].from + 1
      <3>1. PICK y, v : y = r[Max(s)] /\ v = k[s \ {Max(s)}]
        OBVIOUS
      <3>2. y \in T /\ v \in V
        BY <1>2, <1>6, <2>1, <3>1, LastIndex
      <3>. QED BY <1>4, <3>1, <3>2
    <2>. QED BY <1>6, <2>1 DEF LeftUnfold, LengthBy
  <1>9. PICK b : b = 0
    OBVIOUS
  <1>10. k[DOMAIN r] = F[<<h[DOMAIN q], x>>]
    <2>1. r = Append(q, x) /\ LeftUnfold(h, q, b, F) /\ LeftUnfold(k, r, b, F)
      BY <1>1, <1>7, <1>8, <1>9
    <2>2. OneMore(k, r, h, q, x, F)
      BY <2>1, LeftAppend
    <2>. QED BY <2>2 DEF OneMore
  <1>11. h[DOMAIN q] \in V
    BY <1>5
  <1>12. F[<<h[DOMAIN q], x>>] = h[DOMAIN q] + x.to - x.from + 1
    BY <1>4, <1>11
  <1>. QED BY <1>1, <1>5, <1>6, <1>10, <1>11, <1>12

LEMMA LengthEmpty == SumLen(<<>>) = 0
  <1>1. <<>> \in Seq({}) /\ DOMAIN <<>> = {} /\ {} \in SUBSET DOMAIN <<>>
    OBVIOUS
  <1>2. PICK h : LengthBy(h, <<>>) /\ SumLen(<<>>) = h[DOMAIN <<>>]
    BY <1>1, LengthIs
  <1>. QED BY <1>1, <1>2 DEF LengthBy

LEMMA PackAppend ==
    ASSUME NEW T, NEW q \in Seq(T), NEW x \in T, Blocks(T)
    PROVE  Packed(q) \in PackStates(T) /\ Packed(Append(q, x)) = packParagraph(Packed(q), x)
  <1>1. PICK V, r : V = PackStates(T) /\ r = Append(q, x)
    OBVIOUS
  <1>2. r \in Seq(T)
    BY <1>1, AppendProperties
  <1>3. PICK F : F = [p \in V \X T |-> packParagraph(p[1], p[2])]
    OBVIOUS
  <1>4. \A y \in T, v \in V : F[<<v, y>>] = packParagraph(v, y)
    BY <1>3
  <1>5. PICK h : PackBy(h, q) /\ Packed(q) = h[DOMAIN q] /\ \A s \in SUBSET DOMAIN q : h[s] \in V
    BY <1>1, PackIs
  <1>6. PICK k : PackBy(k, r) /\ Packed(r) = k[DOMAIN r] /\ \A s \in SUBSET DOMAIN r : k[s] \in V
    BY <1>1, <1>2, PackIs
  <1>7. LeftUnfold(h, q, PackStart, F)
    <2>1. ASSUME NEW s \in SUBSET DOMAIN q, s # {}
          PROVE  F[<<h[s \ {Max(s)}], q[Max(s)]>>] = packParagraph(h[s \ {Max(s)}], q[Max(s)])
      <3>1. PICK y, v : y = q[Max(s)] /\ v = h[s \ {Max(s)}]
        OBVIOUS
      <3>2. y \in T /\ v \in V
        BY <1>2, <1>5, <2>1, <3>1, LastIndex
      <3>. QED BY <1>4, <3>1, <3>2
    <2>. QED BY <1>5, <2>1 DEF LeftUnfold, PackBy
  <1>8. LeftUnfold(k, r, PackStart, F)
    <2>1. ASSUME NEW s \in SUBSET DOMAIN r, s # {}
          PROVE  F[<<k[s \ {Max(s)}], r[Max(s)]>>] = packParagraph(k[s \ {Max(s)}], r[Max(s)])
      <3>1. PICK y, v : y = r[Max(s)] /\ v = k[s \ {Max(s)}]
        OBVIOUS
      <3>2. y \in T /\ v \in V
        BY <1>2, <1>6, <2>1, <3>1, LastIndex
      <3>. QED BY <1>4, <3>1, <3>2
    <2>. QED BY <1>6, <2>1 DEF LeftUnfold, PackBy
  <1>9. PICK b : b = PackStart
    OBVIOUS
  <1>10. k[DOMAIN r] = F[<<h[DOMAIN q], x>>]
    <2>1. r = Append(q, x) /\ LeftUnfold(h, q, b, F) /\ LeftUnfold(k, r, b, F)
      BY <1>1, <1>7, <1>8, <1>9
    <2>2. OneMore(k, r, h, q, x, F)
      BY <2>1, LeftAppend
    <2>. QED BY <2>2 DEF OneMore
  <1>11. h[DOMAIN q] \in V
    BY <1>5
  <1>12. F[<<h[DOMAIN q], x>>] = packParagraph(h[DOMAIN q], x)
    BY <1>4, <1>11
  <1>. QED BY <1>1, <1>5, <1>6, <1>10, <1>11, <1>12

LEMMA PackEmpty == Packed(<<>>) = PackStart
  <1>1. <<>> \in Seq({}) /\ DOMAIN <<>> = {} /\ {} \in SUBSET DOMAIN <<>>
    OBVIOUS
  <1>2. PICK h : PackBy(h, <<>>) /\ Packed(<<>>) = h[DOMAIN <<>>]
    BY <1>1, PackIs DEF Blocks
  <1>. QED BY <1>1, <1>2 DEF PackBy

LEMMA LinesAppend ==
    ASSUME NEW T, NEW q \in Seq(T), NEW x \in T
    PROVE  LinesOf(q) \in LineStates(T) /\ LinesOf(Append(q, x)) = addLine(LinesOf(q), x)
  <1>1. PICK V, r : V = LineStates(T) /\ r = Append(q, x)
    OBVIOUS
  <1>2. r \in Seq(T)
    BY <1>1, AppendProperties
  <1>3. PICK F : F = [p \in V \X T |-> addLine(p[1], p[2])]
    OBVIOUS
  <1>4. \A y \in T, v \in V : F[<<v, y>>] = addLine(v, y)
    BY <1>3
  <1>5. PICK h : LinesBy(h, q) /\ LinesOf(q) = h[DOMAIN q] /\ \A s \in SUBSET DOMAIN q : h[s] \in V
    BY <1>1, LinesIs
  <1>6. PICK k : LinesBy(k, r) /\ LinesOf(r) = k[DOMAIN r] /\ \A s \in SUBSET DOMAIN r : k[s] \in V
    BY <1>1, <1>2, LinesIs
  <1>7. LeftUnfold(h, q, LineStart, F)
    <2>1. ASSUME NEW s \in SUBSET DOMAIN q, s # {}
          PROVE  F[<<h[s \ {Max(s)}], q[Max(s)]>>] = addLine(h[s \ {Max(s)}], q[Max(s)])
      <3>1. PICK y, v : y = q[Max(s)] /\ v = h[s \ {Max(s)}]
        OBVIOUS
      <3>2. y \in T /\ v \in V
        BY <1>2, <1>5, <2>1, <3>1, LastIndex
      <3>. QED BY <1>4, <3>1, <3>2
    <2>. QED BY <1>5, <2>1 DEF LeftUnfold, LinesBy
  <1>8. LeftUnfold(k, r, LineStart, F)
    <2>1. ASSUME NEW s \in SUBSET DOMAIN r, s # {}
          PROVE  F[<<k[s \ {Max(s)}], r[Max(s)]>>] = addLine(k[s \ {Max(s)}], r[Max(s)])
      <3>1. PICK y, v : y = r[Max(s)] /\ v = k[s \ {Max(s)}]
        OBVIOUS
      <3>2. y \in T /\ v \in V
        BY <1>2, <1>6, <2>1, <3>1, LastIndex
      <3>. QED BY <1>4, <3>1, <3>2
    <2>. QED BY <1>6, <2>1 DEF LeftUnfold, LinesBy
  <1>9. PICK b : b = LineStart
    OBVIOUS
  <1>10. k[DOMAIN r] = F[<<h[DOMAIN q], x>>]
    <2>1. r = Append(q, x) /\ LeftUnfold(h, q, b, F) /\ LeftUnfold(k, r, b, F)
      BY <1>1, <1>7, <1>8, <1>9
    <2>2. OneMore(k, r, h, q, x, F)
      BY <2>1, LeftAppend
    <2>. QED BY <2>2 DEF OneMore
  <1>11. h[DOMAIN q] \in V
    BY <1>5
  <1>12. F[<<h[DOMAIN q], x>>] = addLine(h[DOMAIN q], x)
    BY <1>4, <1>11
  <1>. QED BY <1>1, <1>5, <1>6, <1>10, <1>11, <1>12

LEMMA LinesEmpty == LinesOf(<<>>) = LineStart
  <1>1. <<>> \in Seq({}) /\ DOMAIN <<>> = {} /\ {} \in SUBSET DOMAIN <<>>
    OBVIOUS
  <1>2. PICK h : LinesBy(h, <<>>) /\ LinesOf(<<>>) = h[DOMAIN <<>>]
    BY <1>1, LinesIs
  <1>. QED BY <1>1, <1>2 DEF LinesBy

Wholes(T) == {Whole(b) : b \in T}

LEMMA TextStep ==
    ASSUME NEW T, NEW v \in Seq(Wholes(T)), NEW x \in T PROVE addText(v, x) \in Seq(Wholes(T))
  <1>1. Whole(x) \in Wholes(T)
    BY DEF Wholes
  <1>2. Append(v, Whole(x)) \in Seq(Wholes(T))
    BY <1>1, AppendProperties
  <1>. QED BY <1>2 DEF addText

TextBy(g, q) ==
    g = [s \in SUBSET DOMAIN q |->
           IF s = {} THEN <<>> ELSE addText(g[s \ {Max(s)}], q[Max(s)])]

LEMMA TextIs ==
    ASSUME NEW T, NEW q \in Seq(T)
    PROVE  \E h : /\ TextBy(h, q) /\ Text(q) = h[DOMAIN q]
                 /\ \A s \in SUBSET DOMAIN q : h[s] \in Seq(Wholes(T))
  <1>1. PICK V : V = Seq(Wholes(T))
    OBVIOUS
  <1>2. PICK F : F = [p \in V \X T |-> addText(p[1], p[2])]
    OBVIOUS
  <1>3. \A x \in T, v \in V : addText(v, x) \in V
    BY <1>1, TextStep
  <1>4. \A x \in T, v \in V : F[<<v, x>>] = addText(v, x) /\ F[<<v, x>>] \in V
    BY <1>2, <1>3
  <1>5. <<>> \in V
    BY <1>1
  <1>6. PICK g : LeftUnfold(g, q, <<>>, F) /\ \A s \in SUBSET DOMAIN q : g[s] \in V
    BY <1>4, <1>5, LeftExists
  <1>7. TextBy(g, q)
    <2>1. ASSUME NEW s \in SUBSET DOMAIN q, s # {}
          PROVE  F[<<g[s \ {Max(s)}], q[Max(s)]>>] = addText(g[s \ {Max(s)}], q[Max(s)])
      <3>1. PICK x, v : x = q[Max(s)] /\ v = g[s \ {Max(s)}]
        OBVIOUS
      <3>2. x \in T /\ v \in V
        BY <1>6, <2>1, <3>1, LastIndex
      <3>. QED BY <1>4, <3>1, <3>2
    <2>. QED BY <1>6, <2>1 DEF LeftUnfold, TextBy
  <1>8. PICK h : h = CHOOSE k : TextBy(k, q)
    OBVIOUS
  <1>9. TextBy(h, q)
    BY <1>7, <1>8
  <1>10. ASSUME NEW s \in SUBSET DOMAIN q, s # {} /\ h[s \ {Max(s)}] \in V PROVE h[s] \in V
    <2>1. q[Max(s)] \in T /\ h[s] = addText(h[s \ {Max(s)}], q[Max(s)])
      BY <1>9, <1>10, LastIndex DEF TextBy
    <2>. QED BY <1>3, <1>10, <2>1
  <1>11. h[{}] \in V
    BY <1>5, <1>9 DEF TextBy
  <1>12. \A s \in SUBSET DOMAIN q : h[s] \in V
    BY <1>10, <1>11, LeftIn
  <1>13. Text(q) = h[DOMAIN q]
    BY <1>8 DEF Text, FoldLeft, MapThenFoldSet, TextBy
  <1>. QED BY <1>1, <1>9, <1>12, <1>13

LEMMA TextAppend ==
    ASSUME NEW T, NEW q \in Seq(T), NEW x \in T
    PROVE  Text(q) \in Seq(Wholes(T)) /\ Text(Append(q, x)) = addText(Text(q), x)
  <1>1. PICK V, r : V = Seq(Wholes(T)) /\ r = Append(q, x)
    OBVIOUS
  <1>2. r \in Seq(T)
    BY <1>1, AppendProperties
  <1>3. PICK F : F = [p \in V \X T |-> addText(p[1], p[2])]
    OBVIOUS
  <1>4. \A y \in T, v \in V : F[<<v, y>>] = addText(v, y)
    BY <1>3
  <1>5. PICK h : TextBy(h, q) /\ Text(q) = h[DOMAIN q] /\ \A s \in SUBSET DOMAIN q : h[s] \in V
    BY <1>1, TextIs
  <1>6. PICK k : TextBy(k, r) /\ Text(r) = k[DOMAIN r] /\ \A s \in SUBSET DOMAIN r : k[s] \in V
    BY <1>1, <1>2, TextIs
  <1>7. LeftUnfold(h, q, <<>>, F)
    <2>1. ASSUME NEW s \in SUBSET DOMAIN q, s # {}
          PROVE  F[<<h[s \ {Max(s)}], q[Max(s)]>>] = addText(h[s \ {Max(s)}], q[Max(s)])
      <3>1. PICK y, v : y = q[Max(s)] /\ v = h[s \ {Max(s)}]
        OBVIOUS
      <3>2. y \in T /\ v \in V
        BY <1>2, <1>5, <2>1, <3>1, LastIndex
      <3>. QED BY <1>4, <3>1, <3>2
    <2>. QED BY <1>5, <2>1 DEF LeftUnfold, TextBy
  <1>8. LeftUnfold(k, r, <<>>, F)
    <2>1. ASSUME NEW s \in SUBSET DOMAIN r, s # {}
          PROVE  F[<<k[s \ {Max(s)}], r[Max(s)]>>] = addText(k[s \ {Max(s)}], r[Max(s)])
      <3>1. PICK y, v : y = r[Max(s)] /\ v = k[s \ {Max(s)}]
        OBVIOUS
      <3>2. y \in T /\ v \in V
        BY <1>2, <1>6, <2>1, <3>1, LastIndex
      <3>. QED BY <1>4, <3>1, <3>2
    <2>. QED BY <1>6, <2>1 DEF LeftUnfold, TextBy
  <1>9. PICK b : b = <<>>
    OBVIOUS
  <1>10. k[DOMAIN r] = F[<<h[DOMAIN q], x>>]
    <2>1. r = Append(q, x) /\ LeftUnfold(h, q, b, F) /\ LeftUnfold(k, r, b, F)
      BY <1>1, <1>7, <1>8, <1>9
    <2>2. OneMore(k, r, h, q, x, F)
      BY <2>1, LeftAppend
    <2>. QED BY <2>2 DEF OneMore
  <1>11. h[DOMAIN q] \in V
    BY <1>5
  <1>12. F[<<h[DOMAIN q], x>>] = addText(h[DOMAIN q], x)
    BY <1>4, <1>11
  <1>. QED BY <1>1, <1>5, <1>6, <1>10, <1>11, <1>12

LEMMA TextEmpty == Text(<<>>) = <<>>
  <1>1. <<>> \in Seq({}) /\ DOMAIN <<>> = {} /\ {} \in SUBSET DOMAIN <<>>
    OBVIOUS
  <1>2. PICK h : TextBy(h, <<>>) /\ Text(<<>>) = h[DOMAIN <<>>]
    BY <1>1, TextIs
  <1>. QED BY <1>1, <1>2 DEF TextBy

LEMMA FromStep == ASSUME NEW T, NEW src, NEW v \in Seq(T), NEW x \in T PROVE addFrom(src, v, x) \in Seq(T)
  BY AppendProperties DEF addFrom

FromBy(g, q, src) ==
    g = [s \in SUBSET DOMAIN q |->
           IF s = {} THEN <<>> ELSE addFrom(src, g[s \ {Max(s)}], q[Max(s)])]

LEMMA FromIs ==
    ASSUME NEW T, NEW q \in Seq(T), NEW src
    PROVE  \E h : /\ FromBy(h, q, src) /\ FromSource(q, src) = h[DOMAIN q]
                 /\ \A s \in SUBSET DOMAIN q : h[s] \in Seq(T)
  <1>1. PICK V : V = Seq(T)
    OBVIOUS
  <1>2. PICK F : F = [p \in V \X T |-> addFrom(src, p[1], p[2])]
    OBVIOUS
  <1>3. \A x \in T, v \in V : addFrom(src, v, x) \in V
    BY <1>1, FromStep
  <1>4. \A x \in T, v \in V : F[<<v, x>>] = addFrom(src, v, x) /\ F[<<v, x>>] \in V
    BY <1>2, <1>3
  <1>5. <<>> \in V
    BY <1>1
  <1>6. PICK g : LeftUnfold(g, q, <<>>, F) /\ \A s \in SUBSET DOMAIN q : g[s] \in V
    BY <1>4, <1>5, LeftExists
  <1>7. FromBy(g, q, src)
    <2>1. ASSUME NEW s \in SUBSET DOMAIN q, s # {}
          PROVE  F[<<g[s \ {Max(s)}], q[Max(s)]>>] = addFrom(src, g[s \ {Max(s)}], q[Max(s)])
      <3>1. PICK x, v : x = q[Max(s)] /\ v = g[s \ {Max(s)}]
        OBVIOUS
      <3>2. x \in T /\ v \in V
        BY <1>6, <2>1, <3>1, LastIndex
      <3>. QED BY <1>4, <3>1, <3>2
    <2>. QED BY <1>6, <2>1 DEF LeftUnfold, FromBy
  <1>8. PICK h : h = CHOOSE k : FromBy(k, q, src)
    OBVIOUS
  <1>9. FromBy(h, q, src)
    BY <1>7, <1>8
  <1>10. ASSUME NEW s \in SUBSET DOMAIN q, s # {} /\ h[s \ {Max(s)}] \in V PROVE h[s] \in V
    <2>1. q[Max(s)] \in T /\ h[s] = addFrom(src, h[s \ {Max(s)}], q[Max(s)])
      BY <1>9, <1>10, LastIndex DEF FromBy
    <2>. QED BY <1>3, <1>10, <2>1
  <1>11. h[{}] \in V
    BY <1>5, <1>9 DEF FromBy
  <1>12. \A s \in SUBSET DOMAIN q : h[s] \in V
    BY <1>10, <1>11, LeftIn
  <1>13. FromSource(q, src) = h[DOMAIN q]
    BY <1>8 DEF FromSource, FoldLeft, MapThenFoldSet, FromBy
  <1>. QED BY <1>1, <1>9, <1>12, <1>13

LEMMA FromAppend ==
    ASSUME NEW T, NEW q \in Seq(T), NEW x \in T, NEW src
    PROVE  FromSource(q, src) \in Seq(T) /\ FromSource(Append(q, x), src) = addFrom(src, FromSource(q, src), x)
  <1>1. PICK V, r : V = Seq(T) /\ r = Append(q, x)
    OBVIOUS
  <1>2. r \in Seq(T)
    BY <1>1, AppendProperties
  <1>3. PICK F : F = [p \in V \X T |-> addFrom(src, p[1], p[2])]
    OBVIOUS
  <1>4. \A y \in T, v \in V : F[<<v, y>>] = addFrom(src, v, y)
    BY <1>3
  <1>5. PICK h : FromBy(h, q, src) /\ FromSource(q, src) = h[DOMAIN q] /\ \A s \in SUBSET DOMAIN q : h[s] \in V
    BY <1>1, FromIs
  <1>6. PICK k : FromBy(k, r, src) /\ FromSource(r, src) = k[DOMAIN r] /\ \A s \in SUBSET DOMAIN r : k[s] \in V
    BY <1>1, <1>2, FromIs
  <1>7. LeftUnfold(h, q, <<>>, F)
    <2>1. ASSUME NEW s \in SUBSET DOMAIN q, s # {}
          PROVE  F[<<h[s \ {Max(s)}], q[Max(s)]>>] = addFrom(src, h[s \ {Max(s)}], q[Max(s)])
      <3>1. PICK y, v : y = q[Max(s)] /\ v = h[s \ {Max(s)}]
        OBVIOUS
      <3>2. y \in T /\ v \in V
        BY <1>2, <1>5, <2>1, <3>1, LastIndex
      <3>. QED BY <1>4, <3>1, <3>2
    <2>. QED BY <1>5, <2>1 DEF LeftUnfold, FromBy
  <1>8. LeftUnfold(k, r, <<>>, F)
    <2>1. ASSUME NEW s \in SUBSET DOMAIN r, s # {}
          PROVE  F[<<k[s \ {Max(s)}], r[Max(s)]>>] = addFrom(src, k[s \ {Max(s)}], r[Max(s)])
      <3>1. PICK y, v : y = r[Max(s)] /\ v = k[s \ {Max(s)}]
        OBVIOUS
      <3>2. y \in T /\ v \in V
        BY <1>2, <1>6, <2>1, <3>1, LastIndex
      <3>. QED BY <1>4, <3>1, <3>2
    <2>. QED BY <1>6, <2>1 DEF LeftUnfold, FromBy
  <1>9. PICK b : b = <<>>
    OBVIOUS
  <1>10. k[DOMAIN r] = F[<<h[DOMAIN q], x>>]
    <2>1. r = Append(q, x) /\ LeftUnfold(h, q, b, F) /\ LeftUnfold(k, r, b, F)
      BY <1>1, <1>7, <1>8, <1>9
    <2>2. OneMore(k, r, h, q, x, F)
      BY <2>1, LeftAppend
    <2>. QED BY <2>2 DEF OneMore
  <1>11. h[DOMAIN q] \in V
    BY <1>5
  <1>12. F[<<h[DOMAIN q], x>>] = addFrom(src, h[DOMAIN q], x)
    BY <1>4, <1>11
  <1>. QED BY <1>1, <1>5, <1>6, <1>10, <1>11, <1>12

LEMMA FromEmpty == ASSUME NEW src PROVE FromSource(<<>>, src) = <<>>
  <1>1. <<>> \in Seq({}) /\ DOMAIN <<>> = {} /\ {} \in SUBSET DOMAIN <<>>
    OBVIOUS
  <1>2. PICK h : FromBy(h, <<>>, src) /\ FromSource(<<>>, src) = h[DOMAIN <<>>]
    BY <1>1, FromIs
  <1>. QED BY <1>1, <1>2 DEF FromBy

(* Pieces of some text, joined to what is there.                              *)
Solid(B) == {x \in [par : Names(B), from : Int, to : Int] : 1 <= x.from /\ x.from <= x.to}

Joins(a, q) == FoldLeft(joinPiece, a, q)

LEMMA JoinStep ==
    ASSUME NEW B, NEW v \in Seq(Solid(B)), NEW x \in Solid(B) PROVE joinPiece(v, x) \in Seq(Solid(B))
  <1>1. Append(v, x) \in Seq(Solid(B))
    BY AppendProperties
  <1>2. CASE v # <<>> /\ Last(v).par = x.par /\ Last(v).to + 1 = x.from
    <2>1. PICK n \in Nat : n = Len(v) /\ n > 0
      BY <1>2
    <2>2. PICK l : l = v[n]
      OBVIOUS
    <2>3. l \in Solid(B) /\ Last(v) = l
      BY <2>1, <2>2 DEF Last
    <2>4. Front(v) = SubSeq(v, 1, n - 1) /\ n - 1 \in Nat /\ n - 1 <= Len(v)
      BY <2>1 DEF Front
    <2>5. Front(v) \in Seq(Solid(B))
      BY <2>4, SubSeqProperties
    <2>6. PICK y : y = [l EXCEPT !.to = x.to]
      OBVIOUS
    <2>7. y = [par |-> l.par, from |-> l.from, to |-> x.to]
      BY <2>3, <2>6 DEF Solid
    <2>8. l.from \in Int /\ l.to \in Int /\ l.par \in Names(B) /\ 1 <= l.from /\ l.from <= l.to
      BY <2>3 DEF Solid
    <2>9. x.from \in Int /\ x.to \in Int /\ x.from <= x.to
      BY DEF Solid
    <2>10. l.from <= x.to
      BY <1>2, <2>3, <2>8, <2>9
    <2>11. y \in Solid(B)
      BY <2>7, <2>8, <2>9, <2>10 DEF Solid
    <2>12. joinPiece(v, x) = Append(Front(v), y)
      BY <1>2, <2>3, <2>6 DEF joinPiece
    <2>. QED BY <2>5, <2>11, <2>12, AppendProperties
  <1>3. CASE ~(v # <<>> /\ Last(v).par = x.par /\ Last(v).to + 1 = x.from)
    BY <1>1, <1>3 DEF joinPiece
  <1>. QED BY <1>2, <1>3

JoinBy(g, q, a) ==
    g = [s \in SUBSET DOMAIN q |->
           IF s = {} THEN a ELSE joinPiece(g[s \ {Max(s)}], q[Max(s)])]

LEMMA JoinIs ==
    ASSUME NEW B, NEW q \in Seq(Solid(B)), NEW a \in Seq(Solid(B))
    PROVE  \E h : /\ JoinBy(h, q, a) /\ Joins(a, q) = h[DOMAIN q]
                 /\ \A s \in SUBSET DOMAIN q : h[s] \in Seq(Solid(B))
  <1>1. PICK V : V = Seq(Solid(B))
    OBVIOUS
  <1>2. PICK F : F = [p \in V \X Solid(B) |-> joinPiece(p[1], p[2])]
    OBVIOUS
  <1>3. \A x \in Solid(B), v \in V : joinPiece(v, x) \in V
    BY <1>1, JoinStep
  <1>4. \A x \in Solid(B), v \in V : F[<<v, x>>] = joinPiece(v, x) /\ F[<<v, x>>] \in V
    BY <1>2, <1>3
  <1>5. a \in V
    BY <1>1
  <1>6. PICK g : LeftUnfold(g, q, a, F) /\ \A s \in SUBSET DOMAIN q : g[s] \in V
    BY <1>4, <1>5, LeftExists
  <1>7. JoinBy(g, q, a)
    <2>1. ASSUME NEW s \in SUBSET DOMAIN q, s # {}
          PROVE  F[<<g[s \ {Max(s)}], q[Max(s)]>>] = joinPiece(g[s \ {Max(s)}], q[Max(s)])
      <3>1. PICK x, v : x = q[Max(s)] /\ v = g[s \ {Max(s)}]
        OBVIOUS
      <3>2. x \in Solid(B) /\ v \in V
        BY <1>6, <2>1, <3>1, LastIndex
      <3>. QED BY <1>4, <3>1, <3>2
    <2>. QED BY <1>6, <2>1 DEF LeftUnfold, JoinBy
  <1>8. PICK h : h = CHOOSE k : JoinBy(k, q, a)
    OBVIOUS
  <1>9. JoinBy(h, q, a)
    BY <1>7, <1>8
  <1>10. ASSUME NEW s \in SUBSET DOMAIN q, s # {} /\ h[s \ {Max(s)}] \in V PROVE h[s] \in V
    <2>1. q[Max(s)] \in Solid(B) /\ h[s] = joinPiece(h[s \ {Max(s)}], q[Max(s)])
      BY <1>9, <1>10, LastIndex DEF JoinBy
    <2>. QED BY <1>3, <1>10, <2>1
  <1>11. h[{}] \in V
    BY <1>5, <1>9 DEF JoinBy
  <1>12. \A s \in SUBSET DOMAIN q : h[s] \in V
    BY <1>10, <1>11, LeftIn
  <1>13. Joins(a, q) = h[DOMAIN q]
    BY <1>8 DEF Joins, FoldLeft, MapThenFoldSet, JoinBy
  <1>. QED BY <1>1, <1>9, <1>12, <1>13

LEMMA JoinAppend ==
    ASSUME NEW B, NEW q \in Seq(Solid(B)), NEW x \in Solid(B), NEW a \in Seq(Solid(B))
    PROVE  Joins(a, q) \in Seq(Solid(B)) /\ Joins(a, Append(q, x)) = joinPiece(Joins(a, q), x)
  <1>1. PICK V, r : V = Seq(Solid(B)) /\ r = Append(q, x)
    OBVIOUS
  <1>2. r \in Seq(Solid(B))
    BY <1>1, AppendProperties
  <1>3. PICK F : F = [p \in V \X Solid(B) |-> joinPiece(p[1], p[2])]
    OBVIOUS
  <1>4. \A y \in Solid(B), v \in V : F[<<v, y>>] = joinPiece(v, y)
    BY <1>3
  <1>5. PICK h : JoinBy(h, q, a) /\ Joins(a, q) = h[DOMAIN q] /\ \A s \in SUBSET DOMAIN q : h[s] \in V
    BY <1>1, JoinIs
  <1>6. PICK k : JoinBy(k, r, a) /\ Joins(a, r) = k[DOMAIN r] /\ \A s \in SUBSET DOMAIN r : k[s] \in V
    BY <1>1, <1>2, JoinIs
  <1>7. LeftUnfold(h, q, a, F)
    <2>1. ASSUME NEW s \in SUBSET DOMAIN q, s # {}
          PROVE  F[<<h[s \ {Max(s)}], q[Max(s)]>>] = joinPiece(h[s \ {Max(s)}], q[Max(s)])
      <3>1. PICK y, v : y = q[Max(s)] /\ v = h[s \ {Max(s)}]
        OBVIOUS
      <3>2. y \in Solid(B) /\ v \in V
        BY <1>2, <1>5, <2>1, <3>1, LastIndex
      <3>. QED BY <1>4, <3>1, <3>2
    <2>. QED BY <1>5, <2>1 DEF LeftUnfold, JoinBy
  <1>8. LeftUnfold(k, r, a, F)
    <2>1. ASSUME NEW s \in SUBSET DOMAIN r, s # {}
          PROVE  F[<<k[s \ {Max(s)}], r[Max(s)]>>] = joinPiece(k[s \ {Max(s)}], r[Max(s)])
      <3>1. PICK y, v : y = r[Max(s)] /\ v = k[s \ {Max(s)}]
        OBVIOUS
      <3>2. y \in Solid(B) /\ v \in V
        BY <1>2, <1>6, <2>1, <3>1, LastIndex
      <3>. QED BY <1>4, <3>1, <3>2
    <2>. QED BY <1>6, <2>1 DEF LeftUnfold, JoinBy
  <1>9. PICK b : b = a
    OBVIOUS
  <1>10. k[DOMAIN r] = F[<<h[DOMAIN q], x>>]
    <2>1. r = Append(q, x) /\ LeftUnfold(h, q, b, F) /\ LeftUnfold(k, r, b, F)
      BY <1>1, <1>7, <1>8, <1>9
    <2>2. OneMore(k, r, h, q, x, F)
      BY <2>1, LeftAppend
    <2>. QED BY <2>2 DEF OneMore
  <1>11. h[DOMAIN q] \in V
    BY <1>5
  <1>12. F[<<h[DOMAIN q], x>>] = joinPiece(h[DOMAIN q], x)
    BY <1>4, <1>11
  <1>. QED BY <1>1, <1>5, <1>6, <1>10, <1>11, <1>12

LEMMA JoinEmpty == ASSUME NEW B, NEW a \in Seq(Solid(B)) PROVE Joins(a, <<>>) = a
  <1>1. <<>> \in Seq(Solid(B)) /\ DOMAIN <<>> = {} /\ {} \in SUBSET DOMAIN <<>>
    OBVIOUS
  <1>2. PICK h : JoinBy(h, <<>>, a) /\ Joins(a, <<>>) = h[DOMAIN <<>>]
    BY <1>1, JoinIs
  <1>. QED BY <1>1, <1>2 DEF JoinBy

-----------------------------------------------------------------------------
(* Pieces that cover a text: joined to anything they add the text to it.      *)

LEMMA SolidIs ==
    ASSUME NEW B, NEW x \in Solid(B)
    PROVE  x.par \in Names(B) /\ x.from \in Int /\ x.to \in Int /\ 1 <= x.from /\ x.from <= x.to
  BY DEF Solid

LEMMA JoinIn == ASSUME NEW B, NEW q \in Seq(Solid(B)), NEW a \in Seq(Solid(B)) PROVE Joins(a, q) \in Seq(Solid(B))
  <1>1. PICK h : Joins(a, q) = h[DOMAIN q] /\ \A s \in SUBSET DOMAIN q : h[s] \in Seq(Solid(B))
    BY JoinIs
  <1>. QED BY <1>1

LEMMA JoinConcat ==
    ASSUME NEW B, NEW a \in Seq(Solid(B)), NEW p \in Seq(Solid(B)), NEW q \in Seq(Solid(B))
    PROVE  Joins(a, p \o q) = Joins(Joins(a, p), q)
  <1>1. PICK P : P = Solid(B)
    OBVIOUS
  <1>2. PICK c : c = Joins(a, p)
    OBVIOUS
  <1>3. c \in Seq(P)
    BY <1>1, <1>2, JoinIn
  <1>4. PICK R : R = {r \in Seq(P) : Joins(a, p \o r) = Joins(c, r)}
    OBVIOUS
  <1>5. <<>> \in R
    <2>1. p \o <<>> = p /\ <<>> \in Seq(P)
      BY <1>1, ConcatEmptySeq
    <2>2. Joins(c, <<>>) = c
      BY <1>1, <1>3, JoinEmpty
    <2>. QED BY <1>2, <1>4, <2>1, <2>2
  <1>6. ASSUME NEW r \in Seq(P), NEW x \in P, r \in R PROVE Append(r, x) \in R
    <2>1. Joins(a, p \o r) = Joins(c, r)
      BY <1>4, <1>6
    <2>2. p \o Append(r, x) = Append(p \o r, x) /\ p \o r \in Seq(P)
      BY <1>1, ConcatAppend, ConcatProperties
    <2>3. Joins(a, Append(p \o r, x)) = joinPiece(Joins(a, p \o r), x)
      BY <1>1, <2>2, JoinAppend
    <2>4. Joins(c, Append(r, x)) = joinPiece(Joins(c, r), x)
      BY <1>1, <1>3, JoinAppend
    <2>5. Append(r, x) \in Seq(P)
      BY AppendProperties
    <2>. QED BY <1>4, <2>1, <2>2, <2>3, <2>4, <2>5
  <1>7. q \in R
    BY <1>1, <1>5, <1>6, SeqInduction
  <1>. QED BY <1>2, <1>4, <1>7

Covered(B, q, t) ==
    q \in Seq(Solid(B)) /\ t \in Seq(Solid(B)) /\ \A a \in Seq(Solid(B)) : Joins(a, q) = a \o t

LEMMA CoveredEmpty == ASSUME NEW B PROVE Covered(B, <<>>, <<>>)
  <1>1. ASSUME NEW a \in Seq(Solid(B)) PROVE Joins(a, <<>>) = a \o <<>>
    BY JoinEmpty, ConcatEmptySeq
  <1>. QED BY <1>1 DEF Covered

LEMMA CoveredConcat ==
    ASSUME NEW B, NEW p, NEW q, NEW t, NEW u, Covered(B, p, t), Covered(B, q, u)
    PROVE  Covered(B, p \o q, t \o u)
  <1>1. PICK Y : Y = Seq(Solid(B))
    OBVIOUS
  <1>2. p \in Y /\ q \in Y /\ t \in Y /\ u \in Y
    BY <1>1 DEF Covered
  <1>3. \A v, w \in Y : v \o w \in Y
    BY <1>1, ConcatProperties
  <1>4. ASSUME NEW a \in Y PROVE Joins(a, p \o q) = a \o (t \o u)
    <2>1. Joins(a, p \o q) = Joins(Joins(a, p), q)
      BY <1>1, <1>2, JoinConcat
    <2>2. Joins(a, p) = a \o t /\ a \o t \in Y
      <3>1. Joins(a, p) = a \o t
        BY <1>1 DEF Covered
      <3>. QED BY <1>2, <1>3, <3>1
    <2>3. Joins(a \o t, q) = (a \o t) \o u
      BY <1>1, <2>2 DEF Covered
    <2>4. Assoc(a, t, u)
      BY <1>1, <1>2, ConcatAssoc
    <2>. QED BY <2>1, <2>2, <2>3, <2>4 DEF Assoc
  <1>. QED BY <1>1, <1>2, <1>3, <1>4 DEF Covered

LEMMA JoinOne == ASSUME NEW B, NEW a \in Seq(Solid(B)), NEW x \in Solid(B) PROVE Joins(a, <<x>>) = joinPiece(a, x)
  <1>1. <<x>> = Append(<<>>, x) /\ <<>> \in Seq(Solid(B))
    OBVIOUS
  <1>2. Joins(a, Append(<<>>, x)) = joinPiece(Joins(a, <<>>), x)
    BY <1>1, JoinAppend
  <1>. QED BY <1>1, <1>2, JoinEmpty

(* The first piece of a paragraph is joined to nothing.                       *)
LEMMA JoinFirst ==
    ASSUME NEW B, NEW a \in Seq(Solid(B)), NEW x \in Solid(B), x.from = 1
    PROVE  joinPiece(a, x) = Append(a, x)
  <1>1. ASSUME a # <<>> PROVE Last(a).to + 1 # x.from
    <2>1. Len(a) \in Nat /\ Len(a) > 0
      BY <1>1
    <2>2. PICK l : l = a[Len(a)]
      OBVIOUS
    <2>3. l \in Solid(B) /\ Last(a) = l
      BY <2>1, <2>2 DEF Last
    <2>. QED BY <2>3, SolidIs
  <1>. QED BY <1>1 DEF joinPiece

LEMMA CoveredOne == ASSUME NEW B, NEW x \in Solid(B), x.from = 1 PROVE Covered(B, <<x>>, <<x>>)
  <1>1. ASSUME NEW a \in Seq(Solid(B)) PROVE Joins(a, <<x>>) = a \o <<x>>
    <2>1. Append(a, x) = a \o <<x>>
      OBVIOUS
    <2>. QED BY <2>1, JoinOne, JoinFirst
  <1>2. <<x>> \in Seq(Solid(B))
    OBVIOUS
  <1>. QED BY <1>1, <1>2 DEF Covered

(* Blocks with some text.                                                     *)
Filled(B) == \A b \in B : b.len \in Nat /\ b.len > 0

LEMMA WholeSolid ==
    ASSUME NEW B, Filled(B), NEW p \in B
    PROVE  Whole(p) \in Solid(B) /\ Whole(p).from = 1 /\ Whole(p).to = p.len
  <1>1. p.len \in Nat /\ p.len > 0 /\ p.name \in Names(B)
    BY DEF Filled, Names
  <1>2. Whole(p) = [par |-> p.name, from |-> 1, to |-> p.len]
    BY DEF Whole, Piece
  <1>. QED BY <1>1, <1>2 DEF Solid

Wholly(B) == [b \in B |-> Whole(b)]

LEMMA UnsplitIs ==
    ASSUME NEW B, Filled(B), NEW q \in Seq(B)
    PROVE  Unsplit(q) \in Seq(Solid(B)) /\ \A p \in B : Unsplit(Append(q, p)) = Unsplit(q) \o <<Whole(p)>>
  <1>1. PICK w : w = Wholly(B)
    OBVIOUS
  <1>2. \A b \in B : w[b] = Whole(b) /\ w[b] \in Solid(B)
    BY <1>1, WholeSolid DEF Wholly
  <1>3. ASSUME NEW r \in Seq(B) PROVE Unsplit(r) = Map(w, r) /\ Map(w, r) \in Seq(Solid(B))
    <2>1. \A i \in DOMAIN r : r[i] \in B
      OBVIOUS
    <2>2. Unsplit(r) = Map(w, r)
      <3>1. \A i \in DOMAIN r : w[r[i]] = Whole(r[i])
        BY <1>2, <2>1
      <3>2. [i \in DOMAIN r |-> Whole(r[i])] = [i \in DOMAIN r |-> w[r[i]]]
        BY <3>1
      <3>. QED BY <3>2 DEF Unsplit, Map
    <2>3. Map(w, r) \in Seq(Solid(B))
      BY <1>2, MapIn
    <2>. QED BY <2>2, <2>3
  <1>4. ASSUME NEW p \in B PROVE Unsplit(Append(q, p)) = Unsplit(q) \o <<Whole(p)>>
    <2>1. Append(q, p) \in Seq(B)
      BY AppendProperties
    <2>2. MapOne(w, q, p)
      BY <1>2, MapAppend
    <2>3. PICK m : m = Map(w, q)
      OBVIOUS
    <2>4. m \in Seq(Solid(B)) /\ w[p] \in Solid(B)
      BY <1>2, <1>3, <2>3
    <2>5. Append(m, w[p]) = m \o <<w[p]>>
      BY <2>4
    <2>. QED BY <1>2, <1>3, <2>1, <2>2, <2>3, <2>5 DEF MapOne
  <1>. QED BY <1>3, <1>4

LEMMA UnsplitEmpty == Unsplit(<<>>) = <<>>
  BY DEF Unsplit

LEMMA CoveredUnsplit == ASSUME NEW B, Filled(B), NEW q \in Seq(B) PROVE Covered(B, Unsplit(q), Unsplit(q))
  <1>1. PICK R : R = {r \in Seq(B) : Covered(B, Unsplit(r), Unsplit(r))}
    OBVIOUS
  <1>2. <<>> \in R
    BY <1>1, CoveredEmpty, UnsplitEmpty
  <1>3. ASSUME NEW r \in Seq(B), NEW p \in B, r \in R PROVE Append(r, p) \in R
    <2>1. Covered(B, Unsplit(r), Unsplit(r))
      BY <1>1, <1>3
    <2>2. PICK w : w = Whole(p)
      OBVIOUS
    <2>3. Covered(B, <<w>>, <<w>>)
      BY <2>2, WholeSolid, CoveredOne
    <2>4. PICK u : u = Unsplit(r)
      OBVIOUS
    <2>5. Covered(B, u \o <<w>>, u \o <<w>>)
      BY <2>1, <2>3, <2>4, CoveredConcat
    <2>6. Unsplit(Append(r, p)) = u \o <<w>>
      BY <2>2, <2>4, UnsplitIs
    <2>7. Append(r, p) \in Seq(B)
      BY AppendProperties
    <2>. QED BY <1>1, <2>5, <2>6, <2>7
  <1>4. q \in R
    BY <1>2, <1>3, SeqInduction
  <1>. QED BY <1>1, <1>4

-----------------------------------------------------------------------------
(* Cutting and packing paragraphs.                                            *)

Fits(q) == \A i \in DOMAIN q : Chars(q[i]) <= MaxChars

LEMMA CharsEmpty == Chars(<<>>) = 0
  BY LengthEmpty DEF Chars

LEMMA CharsOne == ASSUME NEW B, NEW x \in Solid(B) PROVE Chars(<<x>>) = x.to - x.from + 1
  <1>1. PICK P : P = Solid(B)
    OBVIOUS
  <1>2. \A y \in P : y.to - y.from + 1 \in Nat /\ y.to \in Int /\ y.from \in Int
    BY <1>1, SolidIs
  <1>3. <<x>> = Append(<<>>, x) /\ <<>> \in Seq(P) /\ x \in P
    BY <1>1
  <1>4. SumLen(Append(<<>>, x)) = SumLen(<<>>) + x.to - x.from + 1
    BY <1>2, <1>3, LengthAppend
  <1>5. SumLen(<<x>>) = x.to - x.from + 1
    BY <1>2, <1>3, <1>4, LengthEmpty
  <1>6. <<x>> # <<>> /\ Len(<<x>>) = 1
    OBVIOUS
  <1>. QED BY <1>2, <1>3, <1>5, <1>6 DEF Chars

LEMMA JoinNext ==
    ASSUME NEW B, NEW a \in Seq(Solid(B)), NEW y \in Solid(B), NEW x \in Solid(B),
           y.par = x.par, y.to + 1 = x.from
    PROVE  joinPiece(Append(a, y), x) = Append(a, [par |-> y.par, from |-> y.from, to |-> x.to])
  <1>1. PICK v : v = Append(a, y)
    OBVIOUS
  <1>2. PICK n \in Nat : n = Len(a)
    OBVIOUS
  <1>3. v \in Seq(Solid(B)) /\ Len(v) = n + 1 /\ v[n + 1] = y /\ v # <<>>
    BY <1>1, <1>2, AppendProperties
  <1>4. Last(v) = y
    BY <1>3 DEF Last
  <1>5. Front(v) = a
    <2>1. Front(v) = SubSeq(v, 1, n)
      BY <1>3 DEF Front
    <2>2. SubSeq(v, 1, n) = a
      BY <1>1, <1>2
    <2>. QED BY <2>1, <2>2
  <1>6. [y EXCEPT !.to = x.to] = [par |-> y.par, from |-> y.from, to |-> x.to]
    <2>1. y = [par |-> y.par, from |-> y.from, to |-> y.to]
      BY DEF Solid
    <2>. QED BY <2>1
  <1>. QED BY <1>1, <1>3, <1>4, <1>5, <1>6 DEF joinPiece

(* The cuts of a paragraph are short enough and together the paragraph.       *)
LEMMA HardWhole ==
    ASSUME NEW B, Filled(B), NEW p \in B
    PROVE  /\ hardSplit(p) \in Seq(Seq(Solid(B)))
           /\ Fits(hardSplit(p))
           /\ Covered(B, FlattenSeq(hardSplit(p)), <<Whole(p)>>)
  <1>1. PICK l \in Nat : l = p.len /\ l > 0
    BY DEF Filled
  <1>2. PICK n \in Nat : n = (l + 3000 - 1) \div 3000
    BY <1>1
  <1>3. n >= 1 /\ n * 3000 >= l /\ (n - 1) * 3000 < l
    BY <1>1, <1>2
  <1>4. PICK h, Y : h = hardSplit(p) /\ Y = Seq(Solid(B))
    OBVIOUS
  <1>5. PICK z : z = [i \in 1 .. n |-> Min({i * 3000, l})]
    OBVIOUS
  <1>6. PICK c : c = [i \in 1 .. n |-> Piece(p, (i - 1) * 3000 + 1, z[i])]
    OBVIOUS
  <1>7. h = [i \in 1 .. n |-> <<c[i]>>]
    <2>1. h = [i \in 1 .. n |-> <<Piece(p, (i - 1) * 3000 + 1, Min({i * 3000, l}))>>]
      BY <1>1, <1>2, <1>4 DEF hardSplit, MaxChars
    <2>2. \A i \in 1 .. n : c[i] = Piece(p, (i - 1) * 3000 + 1, Min({i * 3000, l}))
      BY <1>5, <1>6
    <2>. QED BY <2>1, <2>2
  <1>8. ASSUME NEW i \in 1 .. n
        PROVE  z[i] \in Int /\ (i - 1) * 3000 + 1 <= z[i] /\ z[i] <= i * 3000 /\ (i < n => z[i] = i * 3000)
    <2>1. z[i] = IF i * 3000 <= l THEN i * 3000 ELSE l
      BY <1>5, MinTwo
    <2>2. (i - 1) * 3000 < l /\ (i < n => i * 3000 < l)
      BY <1>3
    <2>. QED BY <2>1, <2>2
  <1>9. z[n] = l
    BY <1>3, <1>5, MinTwo
  <1>10. ASSUME NEW i \in 1 .. n
         PROVE  /\ c[i] \in Solid(B) /\ c[i].par = p.name /\ c[i].from = (i - 1) * 3000 + 1 /\ c[i].to = z[i]
                /\ Piece(p, 1, z[i]) \in Solid(B)
    <2>1. p.name \in Names(B)
      BY DEF Names
    <2>2. PICK f \in Int, t \in Int : f = (i - 1) * 3000 + 1 /\ t = z[i] /\ 1 <= f /\ f <= t
      BY <1>8
    <2>3. c[i] = [par |-> p.name, from |-> f, to |-> t]
      BY <1>6, <2>2 DEF Piece
    <2>4. Piece(p, 1, z[i]) = [par |-> p.name, from |-> 1, to |-> t]
      BY <2>2 DEF Piece
    <2>5. c[i] \in Solid(B) /\ c[i].par = p.name /\ c[i].from = f /\ c[i].to = t
      BY <2>1, <2>2, <2>3 DEF Solid
    <2>6. [par |-> p.name, from |-> 1, to |-> t] \in Solid(B)
      <3>1. 1 <= t
        BY <2>2
      <3>. QED BY <2>1, <3>1 DEF Solid
    <2>. QED BY <2>2, <2>4, <2>5, <2>6
  <1>11. h \in Seq(Y) /\ Len(h) = n /\ DOMAIN h = 1 .. n
    <2>1. \A i \in 1 .. n : h[i] \in Y
      BY <1>4, <1>7, <1>10
    <2>2. h \in [1 .. n -> Y]
      BY <1>7, <2>1
    <2>. QED BY <2>2
  <1>12. Fits(h)
    <2>1. ASSUME NEW i \in 1 .. n PROVE Chars(h[i]) <= 3000
      <3>1. h[i] = <<c[i]>>
        BY <1>7
      <3>2. PICK x : x = c[i]
        OBVIOUS
      <3>3. Chars(<<x>>) = x.to - x.from + 1
        BY <1>10, <3>2, CharsOne
      <3>. QED BY <1>8, <1>10, <3>1, <3>2, <3>3
    <2>. QED BY <1>11, <2>1 DEF Fits, MaxChars
  <1>13. ASSUME NEW a \in Y PROVE Joins(a, FlattenSeq(h)) = a \o <<Whole(p)>>
    <2>1. PICK R : R = {q \in Seq(Y) : Len(q) <= n /\ (\A i \in 1 .. Len(q) : q[i] = h[i]) =>
                          Len(q) = 0 \/ Joins(a, FlattenSeq(q)) = Append(a, Piece(p, 1, z[Len(q)]))}
      OBVIOUS
    <2>2. <<>> \in R
      BY <2>1
    <2>3. ASSUME NEW q \in Seq(Y), NEW x \in Y, q \in R PROVE Append(q, x) \in R
      <3>1. PICK r : r = Append(q, x)
        OBVIOUS
      <3>2. PICK m \in Nat : m = Len(q)
        OBVIOUS
      <3>3. r \in Seq(Y) /\ Len(r) = m + 1 /\ r[m + 1] = x /\ \A i \in 1 .. m : r[i] = q[i]
        BY <3>1, <3>2, AppendProperties
      <3>4. SUFFICES ASSUME m + 1 <= n, \A i \in 1 .. m + 1 : r[i] = h[i]
                     PROVE  Joins(a, FlattenSeq(r)) = Append(a, Piece(p, 1, z[m + 1]))
        BY <2>1, <3>1, <3>3
      <3>5. m + 1 \in 1 .. n
        BY <3>4
      <3>6. PICK y : y = c[m + 1]
        OBVIOUS
      <3>7. x = <<y>> /\ y \in Solid(B) /\ y.par = p.name /\ y.from = m * 3000 + 1 /\ y.to = z[m + 1]
        <4>1. x = h[m + 1]
          BY <3>3, <3>4
        <4>2. h[m + 1] = <<y>>
          BY <1>7, <3>5, <3>6
        <4>3. PICK j : j = m + 1 /\ j - 1 = m
          OBVIOUS
        <4>4. y \in Solid(B) /\ y.par = p.name /\ y.from = (j - 1) * 3000 + 1 /\ y.to = z[j]
          BY <1>10, <3>5, <3>6, <4>3
        <4>. QED BY <4>1, <4>2, <4>3, <4>4
      <3>8. m = 0 \/ Joins(a, FlattenSeq(q)) = Append(a, Piece(p, 1, z[m]))
        <4>1. \A i \in 1 .. m : q[i] = h[i]
          BY <3>3, <3>4
        <4>2. m <= n
          BY <3>4
        <4>. QED BY <2>1, <2>3, <3>2, <4>1, <4>2
      <3>9. PICK f : f = FlattenSeq(q)
        OBVIOUS
      <3>10. f \in Seq(Solid(B)) /\ FlattenSeq(r) = f \o <<y>>
        <4>1. f \in Seq(Solid(B))
          BY <1>4, <3>9, FlattenIn
        <4>2. FlattenSeq(Append(q, x)) = f \o x
          BY <1>4, <3>9, FlatAppend
        <4>3. x = <<y>>
          BY <3>7
        <4>4. FlattenSeq(r) = f \o x
          BY <3>1, <4>2, Zenon
        <4>. QED BY <4>1, <4>3, <4>4, Zenon
      <3>11. Joins(a, FlattenSeq(r)) = joinPiece(Joins(a, f), y)
        <4>1. PICK w : w = <<y>>
          OBVIOUS
        <4>2. w \in Seq(Solid(B))
          BY <3>7, <4>1
        <4>3. Joins(a, f \o w) = Joins(Joins(a, f), w)
          BY <1>4, <3>10, <4>2, JoinConcat
        <4>4. Joins(a, f) \in Seq(Solid(B))
          BY <1>4, <3>10, JoinIn
        <4>5. Joins(Joins(a, f), <<y>>) = joinPiece(Joins(a, f), y)
          BY <3>7, <4>4, JoinOne
        <4>. QED BY <3>10, <4>1, <4>3, <4>5
      <3>12. CASE m = 0
        <4>1. q = <<>>
          BY <3>2, <3>12, EmptySeq
        <4>2. Joins(a, f) = a
          BY <1>4, <3>9, <4>1, FlatEmpty, JoinEmpty
        <4>3. y.from = 1 /\ y = Piece(p, 1, z[m + 1])
          BY <1>6, <3>5, <3>6, <3>7, <3>12
        <4>. QED BY <1>4, <3>7, <3>11, <4>2, <4>3, JoinFirst
      <3>13. CASE m # 0
        <4>1. m \in 1 .. n /\ m < n
          BY <3>5, <3>13
        <4>2. PICK u : u = Piece(p, 1, z[m])
          OBVIOUS
        <4>3. u \in Solid(B) /\ u.par = p.name /\ u.from = 1 /\ u.to = z[m]
          <5>1. u \in Solid(B)
            BY <1>10, <4>1, <4>2
          <5>. QED BY <4>2, <5>1 DEF Piece
        <4>4. u.to + 1 = y.from
          BY <1>8, <3>7, <4>1, <4>3
        <4>5. joinPiece(Append(a, u), y) = Append(a, [par |-> u.par, from |-> u.from, to |-> y.to])
          BY <1>4, <3>7, <4>3, <4>4, JoinNext
        <4>6. [par |-> u.par, from |-> u.from, to |-> y.to] = Piece(p, 1, z[m + 1])
          BY <3>7, <4>3 DEF Piece
        <4>. QED BY <3>8, <3>9, <3>11, <3>13, <4>2, <4>5, <4>6
      <3>. QED BY <3>12, <3>13
    <2>4. h \in R
      BY <1>11, <2>2, <2>3, SeqInduction
    <2>5. Joins(a, FlattenSeq(h)) = Append(a, Piece(p, 1, z[n]))
      BY <1>3, <1>11, <2>1, <2>4
    <2>6. Piece(p, 1, z[n]) = Whole(p)
      BY <1>1, <1>9 DEF Whole
    <2>7. PICK w : w = Whole(p)
      OBVIOUS
    <2>8. w \in Solid(B)
      BY <2>7, WholeSolid
    <2>9. Append(a, w) = a \o <<w>>
      BY <1>4, <2>8
    <2>. QED BY <2>5, <2>6, <2>7, <2>9
  <1>14. FlattenSeq(h) \in Seq(Solid(B)) /\ <<Whole(p)>> \in Seq(Solid(B))
    BY <1>4, <1>11, FlattenIn, WholeSolid
  <1>15. Covered(B, FlattenSeq(h), <<Whole(p)>>)
    BY <1>4, <1>13, <1>14 DEF Covered
  <1>. QED BY <1>4, <1>11, <1>12, <1>15

LEMMA FitsAppend ==
    ASSUME NEW Y, NEW q \in Seq(Y), NEW x \in Y, Fits(q), Chars(x) <= MaxChars PROVE Fits(Append(q, x))
  <1>1. PICK r : r = Append(q, x)
    OBVIOUS
  <1>2. PICK n \in Nat : n = Len(q)
    OBVIOUS
  <1>3. DOMAIN q = 1 .. n /\ DOMAIN r = 1 .. n + 1 /\ (\A i \in 1 .. n : r[i] = q[i]) /\ r[n + 1] = x
    BY <1>1, <1>2, AppendIs
  <1>4. ASSUME NEW i \in DOMAIN r PROVE Chars(r[i]) <= MaxChars
    <2>1. CASE i = n + 1
      BY <1>3, <2>1
    <2>2. CASE i # n + 1
      <3>1. i \in 1 .. n
        BY <1>3, <2>2
      <3>. QED BY <1>3, <3>1 DEF Fits
    <2>. QED BY <2>1, <2>2
  <1>. QED BY <1>1, <1>4 DEF Fits

LEMMA FitsConcat ==
    ASSUME NEW Y, NEW p \in Seq(Y), NEW q \in Seq(Y), Fits(p), Fits(q) PROVE Fits(p \o q)
  <1>1. PICK r : r = p \o q
    OBVIOUS
  <1>2. PICK n \in Nat, m \in Nat : n = Len(p) /\ m = Len(q)
    OBVIOUS
  <1>3. /\ DOMAIN p = 1 .. n /\ DOMAIN q = 1 .. m /\ DOMAIN r = 1 .. n + m
        /\ \A i \in 1 .. n + m : r[i] = IF i <= n THEN p[i] ELSE q[i - n]
    BY <1>1, <1>2, ConcatProperties
  <1>4. ASSUME NEW i \in DOMAIN r PROVE Chars(r[i]) <= MaxChars
    <2>1. CASE i <= n
      <3>1. i \in DOMAIN p /\ r[i] = p[i]
        BY <1>3, <2>1
      <3>. QED BY <3>1 DEF Fits
    <2>2. CASE ~(i <= n)
      <3>1. i - n \in DOMAIN q /\ r[i] = q[i - n]
        BY <1>3, <2>2
      <3>. QED BY <3>1 DEF Fits
    <2>. QED BY <1>3, <2>1, <2>2
  <1>. QED BY <1>1, <1>4 DEF Fits

(* The chunks so far and the one that is being packed cover the paragraphs.   *)
PackInv(B, s, q) ==
    /\ s.out \in Seq(Seq(Solid(B))) /\ s.cur \in Seq(Solid(B))
    /\ Fits(s.out) /\ Chars(s.cur) <= MaxChars
    /\ Covered(B, FlattenSeq(s.out) \o s.cur, Unsplit(q))

LEMMA FlushWhole ==
    ASSUME NEW B, NEW s, NEW q, PackInv(B, s, q), NEW f, f = flushChunk(s)
    PROVE  f \in Seq(Seq(Solid(B))) /\ Fits(f) /\ Covered(B, FlattenSeq(f), Unsplit(q))
  <1>1. PICK o, c, Y : o = s.out /\ c = s.cur /\ Y = Seq(Solid(B))
    OBVIOUS
  <1>2. o \in Seq(Y) /\ c \in Y /\ Fits(o) /\ Chars(c) <= MaxChars /\ Covered(B, FlattenSeq(o) \o c, Unsplit(q))
    BY <1>1 DEF PackInv
  <1>3. CASE c = <<>>
    <2>1. f = o
      BY <1>1, <1>3 DEF flushChunk
    <2>2. PICK g : g = FlattenSeq(o)
      OBVIOUS
    <2>3. g \in Seq(Solid(B))
      BY <1>1, <1>2, <2>2, FlattenIn
    <2>4. g \o <<>> = g
      BY <2>3, ConcatEmptySeq
    <2>. QED BY <1>1, <1>2, <1>3, <2>1, <2>2, <2>4
  <1>4. CASE c # <<>>
    <2>1. f = Append(o, c)
      BY <1>1, <1>4 DEF flushChunk
    <2>2. Append(o, c) \in Seq(Y)
      BY <1>2, AppendProperties
    <2>3. Fits(Append(o, c))
      BY <1>2, FitsAppend
    <2>4. FlattenSeq(Append(o, c)) = FlattenSeq(o) \o c
      BY <1>1, <1>2, FlatAppend
    <2>. QED BY <1>1, <1>2, <2>1, <2>2, <2>3, <2>4
  <1>. QED BY <1>3, <1>4

LEMMA PackKeeps ==
    ASSUME NEW B, Filled(B), NEW s \in PackStates(B), NEW q \in Seq(B), PackInv(B, s, q), NEW p \in B
    PROVE  PackInv(B, packParagraph(s, p), Append(q, p))
  <1>1. PICK o, c, Y, w : o = s.out /\ c = s.cur /\ Y = Seq(Solid(B)) /\ w = Whole(p)
    OBVIOUS
  <1>2. o \in Seq(Y) /\ c \in Y /\ Fits(o) /\ Covered(B, FlattenSeq(o) \o c, Unsplit(q))
    BY <1>1 DEF PackInv
  <1>3. w \in Solid(B) /\ w.from = 1 /\ w.to = p.len /\ p.len \in Nat
    BY <1>1, WholeSolid DEF Filled
  <1>4. Covered(B, <<w>>, <<w>>)
    BY <1>3, CoveredOne
  <1>5. PICK u : u = Unsplit(q)
    OBVIOUS
  <1>6. Unsplit(Append(q, p)) = u \o <<w>>
    BY <1>1, <1>5, UnsplitIs
  <1>7. PICK f : f = flushChunk(s)
    OBVIOUS
  <1>8. f \in Seq(Y) /\ Fits(f) /\ Covered(B, FlattenSeq(f), u)
    BY <1>1, <1>5, <1>7, FlushWhole
  <1>9. CASE Chars(Append(c, w)) <= MaxChars
    <2>1. PICK t : t = packParagraph(s, p)
      OBVIOUS
    <2>2. t = [out |-> o, cur |-> Append(c, w)]
      <3>1. t = [s EXCEPT !.cur = Append(s.cur, Whole(p))]
        BY <1>1, <1>9, <2>1 DEF packParagraph
      <3>2. s = [out |-> o, cur |-> c]
        BY <1>1 DEF PackStates
      <3>. QED BY <1>1, <3>1, <3>2
    <2>3. Append(c, w) \in Y
      BY <1>1, <1>2, <1>3, AppendProperties
    <2>4. PICK g : g = FlattenSeq(o)
      OBVIOUS
    <2>5. g \in Y
      BY <1>1, <1>2, <2>4, FlattenIn
    <2>6. g \o Append(c, w) = (g \o c) \o <<w>>
      <3>1. g \o c \in Seq(Solid(B))
        BY <1>1, <1>2, <2>5, ConcatProperties
      <3>2. g \o Append(c, w) = Append(g \o c, w)
        <4>1. g \in Seq(Solid(B)) /\ c \in Seq(Solid(B))
          BY <1>1, <1>2, <2>5
        <4>. QED BY <1>3, <4>1, ConcatAppend
      <3>3. PICK e : e = g \o c
        OBVIOUS
      <3>4. Append(e, w) = e \o <<w>>
        BY <1>3, <3>1, <3>3
      <3>. QED BY <3>2, <3>3, <3>4
    <2>7. Covered(B, (g \o c) \o <<w>>, u \o <<w>>)
      <3>1. PICK e : e = g \o c
        OBVIOUS
      <3>2. Covered(B, e, u)
        BY <1>2, <1>5, <2>4, <3>1
      <3>. QED BY <1>4, <3>1, <3>2, CoveredConcat
    <2>8. t.out = o /\ t.cur = Append(c, w)
      BY <2>2
    <2>. QED BY <1>1, <1>2, <1>6, <1>9, <2>1, <2>3, <2>4, <2>6, <2>7, <2>8 DEF PackInv
  <1>10. CASE ~(Chars(Append(c, w)) <= MaxChars) /\ p.len > MaxChars
    <2>1. PICK t : t = packParagraph(s, p)
      OBVIOUS
    <2>2. PICK h : h = hardSplit(p)
      OBVIOUS
    <2>3. t = [out |-> f \o h, cur |-> <<>>]
      BY <1>1, <1>7, <1>10, <2>1, <2>2 DEF packParagraph
    <2>4. t.out = f \o h /\ t.cur = <<>>
      BY <2>3
    <2>5. h \in Seq(Y) /\ Fits(h) /\ Covered(B, FlattenSeq(h), <<w>>)
      BY <1>1, <2>2, HardWhole
    <2>6. f \o h \in Seq(Y)
      BY <1>8, <2>5, ConcatProperties
    <2>7. Fits(f \o h)
      BY <1>8, <2>5, FitsConcat
    <2>8. FlattenSeq(f \o h) = FlattenSeq(f) \o FlattenSeq(h)
      BY <1>1, <1>8, <2>5, FlatConcat
    <2>9. PICK k : k = FlattenSeq(f \o h)
      OBVIOUS
    <2>10. k \in Seq(Solid(B))
      BY <1>1, <2>6, <2>9, FlattenIn
    <2>11. k \o <<>> = k
      BY <2>10, ConcatEmptySeq
    <2>12. Covered(B, FlattenSeq(f) \o FlattenSeq(h), u \o <<w>>)
      <3>1. PICK a, b, v : a = FlattenSeq(f) /\ b = FlattenSeq(h) /\ v = <<w>>
        OBVIOUS
      <3>2. Covered(B, a, u) /\ Covered(B, b, v)
        BY <1>8, <2>5, <3>1
      <3>3. Covered(B, a \o b, u \o v)
        BY <3>2, CoveredConcat
      <3>. QED BY <3>1, <3>3
    <2>13. Chars(<<>>) <= MaxChars /\ <<>> \in Seq(Solid(B))
      BY CharsEmpty DEF MaxChars
    <2>14. Covered(B, FlattenSeq(t.out) \o t.cur, Unsplit(Append(q, p)))
      BY <1>6, <2>4, <2>8, <2>9, <2>11, <2>12
    <2>. QED BY <1>1, <2>1, <2>4, <2>6, <2>7, <2>13, <2>14 DEF PackInv
  <1>11. CASE ~(Chars(Append(c, w)) <= MaxChars) /\ ~(p.len > MaxChars)
    <2>1. PICK t : t = packParagraph(s, p)
      OBVIOUS
    <2>2. t = [out |-> f, cur |-> <<w>>]
      BY <1>1, <1>7, <1>11, <2>1 DEF packParagraph
    <2>3. t.out = f /\ t.cur = <<w>>
      BY <2>2
    <2>4. Chars(<<w>>) <= MaxChars
      <3>1. Chars(<<w>>) = w.to - w.from + 1
        BY <1>3, CharsOne
      <3>. QED BY <1>3, <1>11, <3>1 DEF MaxChars
    <2>5. Covered(B, FlattenSeq(f) \o <<w>>, u \o <<w>>)
      <3>1. PICK a, v : a = FlattenSeq(f) /\ v = <<w>>
        OBVIOUS
      <3>2. Covered(B, a, u) /\ Covered(B, v, v)
        BY <1>4, <1>8, <3>1
      <3>3. Covered(B, a \o v, u \o v)
        BY <3>2, CoveredConcat
      <3>. QED BY <3>1, <3>3
    <2>6. <<w>> \in Seq(Solid(B))
      BY <1>3
    <2>. QED BY <1>1, <1>6, <1>8, <2>1, <2>3, <2>4, <2>5, <2>6 DEF PackInv
  <1>. QED BY <1>9, <1>10, <1>11

LEMMA FilledBlocks == ASSUME NEW B, Filled(B) PROVE Blocks(B)
  BY DEF Filled, Blocks

(* The chunks of a section are short enough and together its paragraphs.      *)
LEMMA SplitWhole ==
    ASSUME NEW B, Filled(B), NEW q \in Seq(B), NEW r, r = splitBySize(q)
    PROVE  r \in Seq(Seq(Solid(B))) /\ Fits(r) /\ Covered(B, FlattenSeq(r), Unsplit(q))
  <1>1. PICK R : R = {t \in Seq(B) : Packed(t) \in PackStates(B) /\ PackInv(B, Packed(t), t)}
    OBVIOUS
  <1>2. Blocks(B)
    BY FilledBlocks
  <1>3. <<>> \in R
    <2>1. Packed(<<>>) = PackStart /\ PackStart \in PackStates(B)
      BY PackEmpty, PackStarts
    <2>2. PackStart.out = <<>> /\ PackStart.cur = <<>>
      BY DEF PackStart
    <2>3. Chars(<<>>) <= MaxChars /\ Fits(<<>>)
      BY CharsEmpty DEF MaxChars, Fits
    <2>4. <<>> \o <<>> = <<>>
      OBVIOUS
    <2>5. Covered(B, FlattenSeq(<<>>) \o <<>>, Unsplit(<<>>))
      BY <2>4, CoveredEmpty, FlatEmpty, UnsplitEmpty
    <2>6. <<>> \in Seq(Seq(Solid(B))) /\ <<>> \in Seq(Solid(B)) /\ <<>> \in Seq(B)
      OBVIOUS
    <2>7. PackInv(B, PackStart, <<>>)
      BY <2>2, <2>3, <2>5, <2>6 DEF PackInv
    <2>. QED BY <1>1, <2>1, <2>6, <2>7
  <1>4. ASSUME NEW t \in Seq(B), NEW p \in B, t \in R PROVE Append(t, p) \in R
    <2>1. PICK s : s = Packed(t)
      OBVIOUS
    <2>2. s \in PackStates(B) /\ PackInv(B, s, t)
      BY <1>1, <1>4, <2>1
    <2>3. Packed(Append(t, p)) = packParagraph(s, p)
      BY <1>2, <2>1, PackAppend
    <2>4. packParagraph(s, p) \in PackStates(B)
      BY <1>2, <2>2, PackStep
    <2>5. PackInv(B, packParagraph(s, p), Append(t, p))
      BY <2>2, PackKeeps
    <2>6. Append(t, p) \in Seq(B)
      BY AppendProperties
    <2>. QED BY <1>1, <2>3, <2>4, <2>5, <2>6
  <1>5. PackInv(B, Packed(q), q)
    <2>1. q \in R
      BY <1>3, <1>4, SeqInduction
    <2>. QED BY <1>1, <2>1
  <1>6. CASE Chars(Unsplit(q)) <= MaxChars
    <2>1. PICK u : u = Unsplit(q)
      OBVIOUS
    <2>2. r = <<u>>
      BY <1>6, <2>1 DEF splitBySize
    <2>3. u \in Seq(Solid(B))
      BY <2>1, UnsplitIs
    <2>4. FlattenSeq(<<u>>) = u
      BY <2>3, FlatOne
    <2>5. Covered(B, u, u)
      BY <2>1, CoveredUnsplit
    <2>6. <<u>> \in Seq(Seq(Solid(B))) /\ DOMAIN <<u>> = {1} /\ <<u>>[1] = u
      BY <2>3
    <2>7. Fits(<<u>>)
      BY <1>6, <2>1, <2>6 DEF Fits
    <2>. QED BY <2>1, <2>2, <2>4, <2>5, <2>6, <2>7
  <1>7. CASE ~(Chars(Unsplit(q)) <= MaxChars)
    <2>1. r = flushChunk(Packed(q))
      BY <1>7 DEF splitBySize
    <2>. QED BY <1>5, <2>1, FlushWhole
  <1>. QED BY <1>6, <1>7

-----------------------------------------------------------------------------
(* Sections.  B are the blocks of a document and T those that are text.       *)

Texts(B) == {b \in B : b.level \notin 1 .. 3}

TextSections(B, T) == [heading : Titles(B), body : Seq(T)]

BodyText(B, T) == [x \in TextSections(B, T) |-> Unsplit(x.body)]

LEMMA BodyTextIs ==
    ASSUME NEW B, NEW T, Filled(T), NEW g, g = BodyText(B, T)
    PROVE  \A x \in TextSections(B, T) : g[x] = Unsplit(x.body) /\ g[x] \in Seq(Solid(T)) /\ x.body \in Seq(T)
  <1>1. \A x \in TextSections(B, T) : x.body \in Seq(T)
    BY DEF TextSections
  <1>. QED BY <1>1, UnsplitIs DEF BodyText

SectionText(B, T, p) == FlattenSeq(Map(BodyText(B, T), p))

LEMMA SectionTextIs ==
    ASSUME NEW B, NEW T, Filled(T), NEW p \in Seq(TextSections(B, T))
    PROVE  /\ SectionText(B, T, p) \in Seq(Solid(T))
           /\ \A x \in TextSections(B, T) : SectionText(B, T, Append(p, x)) = SectionText(B, T, p) \o Unsplit(x.body)
  <1>1. PICK g, Y, X : g = BodyText(B, T) /\ Y = Seq(Solid(T)) /\ X = TextSections(B, T)
    OBVIOUS
  <1>2. \A x \in X : g[x] = Unsplit(x.body) /\ g[x] \in Y
    BY <1>1, BodyTextIs
  <1>3. PICK m : m = Map(g, p)
    OBVIOUS
  <1>4. m \in Seq(Y)
    BY <1>1, <1>2, <1>3, MapIn
  <1>5. FlattenSeq(m) \in Seq(Solid(T))
    BY <1>1, <1>4, FlattenIn
  <1>6. ASSUME NEW x \in X PROVE FlattenSeq(Map(g, Append(p, x))) = FlattenSeq(m) \o g[x]
    <2>1. MapOne(g, p, x)
      BY <1>1, <1>2, MapAppend
    <2>2. PICK y : y = g[x]
      OBVIOUS
    <2>3. Map(g, Append(p, x)) = Append(m, y)
      BY <1>3, <2>1, <2>2 DEF MapOne
    <2>4. FlattenSeq(Append(m, y)) = FlattenSeq(m) \o y
      BY <1>1, <1>2, <1>4, <2>2, FlatAppend
    <2>. QED BY <2>2, <2>3, <2>4
  <1>. QED BY <1>1, <1>2, <1>3, <1>5, <1>6 DEF SectionText

MoreText(B, T, p, x) == SectionText(B, T, Append(p, x)) = SectionText(B, T, p) \o Unsplit(x.body)

LEMMA SectionTextAppend ==
    ASSUME NEW B, NEW T, Filled(T), NEW p \in Seq(TextSections(B, T)), NEW x \in TextSections(B, T)
    PROVE  MoreText(B, T, p, x)
  <1>1. \A y \in TextSections(B, T) : SectionText(B, T, Append(p, y)) = SectionText(B, T, p) \o Unsplit(y.body)
    BY SectionTextIs
  <1>. QED BY <1>1 DEF MoreText

LEMMA SectionTextEmpty == ASSUME NEW B, NEW T PROVE SectionText(B, T, <<>>) = <<>>
  <1>1. PICK g : g = BodyText(B, T)
    OBVIOUS
  <1>2. Map(g, <<>>) = <<>>
    BY MapEmpty
  <1>. QED BY <1>1, <1>2, FlatEmpty DEF SectionText

(* The sections so far and the one that is being read are the text read.      *)
LineInv(B, T, s, q) ==
    /\ s.out \in Seq(TextSections(B, T)) /\ s.heading \in Titles(B) /\ s.body \in Seq(T)
    /\ SectionText(B, T, s.out) \o Unsplit(s.body) = Text(q)

LEMMA FlushText ==
    ASSUME NEW B, NEW T, Filled(T), NEW s, NEW q, LineInv(B, T, s, q), NEW f, f = flushSection(s)
    PROVE  f \in Seq(TextSections(B, T)) /\ SectionText(B, T, f) = Text(q)
  <1>1. PICK o, y : o = s.out /\ y = s.body
    OBVIOUS
  <1>2. o \in Seq(TextSections(B, T)) /\ y \in Seq(T) /\ SectionText(B, T, o) \o Unsplit(y) = Text(q)
    BY <1>1 DEF LineInv
  <1>3. CASE y = <<>>
    <2>1. f = o
      BY <1>1, <1>3 DEF flushSection
    <2>2. PICK t : t = SectionText(B, T, o)
      OBVIOUS
    <2>3. t \in Seq(Solid(T))
      BY <1>2, <2>2, SectionTextIs
    <2>4. t \o <<>> = t
      BY <2>3, ConcatEmptySeq
    <2>. QED BY <1>2, <1>3, <2>1, <2>2, <2>4, UnsplitEmpty
  <1>4. CASE y # <<>>
    <2>1. PICK x : x = [heading |-> s.heading, body |-> y]
      OBVIOUS
    <2>2. x \in TextSections(B, T) /\ x.body = y
      BY <1>2, <2>1 DEF LineInv, TextSections
    <2>3. f = Append(o, x)
      BY <1>1, <1>4, <2>1 DEF flushSection
    <2>4. Append(o, x) \in Seq(TextSections(B, T))
      BY <1>2, <2>2, AppendProperties
    <2>5. SectionText(B, T, Append(o, x)) = SectionText(B, T, o) \o Unsplit(y)
      <3>1. MoreText(B, T, o, x)
        BY <1>2, <2>2, SectionTextAppend
      <3>. QED BY <2>2, <3>1 DEF MoreText
    <2>. QED BY <1>2, <2>3, <2>4, <2>5
  <1>. QED BY <1>3, <1>4

LEMMA LineKeeps ==
    ASSUME NEW B, NEW T, T = Texts(B), Filled(T), NEW s \in LineStates(B), NEW q \in Seq(B), LineInv(B, T, s, q), NEW b \in B
    PROVE  LineInv(B, T, addLine(s, b), Append(q, b))
  <1>1. PICK a : a = addLine(s, b)
    OBVIOUS
  <1>2. Text(Append(q, b)) = addText(Text(q), b) /\ Text(q) \in Seq(Wholes(B))
    BY TextAppend
  <1>3. CASE b.level \in 1 .. 3
    <2>1. PICK f : f = flushSection(s)
      OBVIOUS
    <2>2. f \in Seq(TextSections(B, T)) /\ SectionText(B, T, f) = Text(q)
      BY <2>1, FlushText
    <2>3. a = [out |-> f, heading |-> b.name, body |-> <<>>]
      BY <1>1, <1>3, <2>1 DEF addLine
    <2>4. a.out = f /\ a.heading = b.name /\ a.body = <<>>
      BY <2>3
    <2>5. Text(Append(q, b)) = Text(q)
      BY <1>2, <1>3 DEF addText
    <2>6. PICK t : t = SectionText(B, T, f)
      OBVIOUS
    <2>7. t \in Seq(Solid(T))
      BY <2>2, <2>6, SectionTextIs
    <2>8. t \o <<>> = t
      BY <2>7, ConcatEmptySeq
    <2>9. SectionText(B, T, a.out) \o Unsplit(a.body) = Text(Append(q, b))
      BY <2>2, <2>4, <2>5, <2>6, <2>8, UnsplitEmpty
    <2>10. a.heading \in Titles(B) /\ a.body \in Seq(T)
      <3>1. b.name \in Titles(B)
        BY DEF Titles, Names
      <3>2. <<>> \in Seq(T)
        OBVIOUS
      <3>. QED BY <2>4, <3>1, <3>2
    <2>. QED BY <1>1, <2>2, <2>4, <2>9, <2>10 DEF LineInv
  <1>4. CASE b.level \notin 1 .. 3
    <2>1. b \in T
      BY <1>4 DEF Texts
    <2>2. PICK y, w : y = s.body /\ w = Whole(b)
      OBVIOUS
    <2>3. y \in Seq(T) /\ s.out \in Seq(TextSections(B, T)) /\ s.heading \in Titles(B)
      BY <2>2 DEF LineInv
    <2>4. a.out = s.out /\ a.heading = s.heading /\ a.body = Append(y, b)
      <3>1. a = [s EXCEPT !.body = Append(s.body, b)]
        BY <1>1, <1>4 DEF addLine
      <3>2. s = [out |-> s.out, heading |-> s.heading, body |-> s.body]
        BY DEF LineStates
      <3>. QED BY <2>2, <3>1, <3>2
    <2>5. Append(y, b) \in Seq(T)
      BY <2>1, <2>3, AppendProperties
    <2>6. Unsplit(Append(y, b)) = Unsplit(y) \o <<w>>
      BY <2>1, <2>2, <2>3, UnsplitIs
    <2>7. PICK t, u, v : t = SectionText(B, T, s.out) /\ u = Unsplit(y) /\ v = <<w>>
      OBVIOUS
    <2>8. t \in Seq(Solid(T)) /\ u \in Seq(Solid(T)) /\ w \in Solid(T)
      BY <2>1, <2>2, <2>3, <2>7, SectionTextIs, UnsplitIs, WholeSolid
    <2>9. Assoc(t, u, v)
      <3>1. v \in Seq(Solid(T))
        BY <2>7, <2>8
      <3>. QED BY <2>8, <3>1, ConcatAssoc
    <2>10. t \o u = Text(q)
      BY <2>2, <2>7 DEF LineInv
    <2>11. Text(Append(q, b)) = Append(Text(q), w)
      BY <1>2, <1>4, <2>2 DEF addText
    <2>12. PICK z : z = Text(q)
      OBVIOUS
    <2>13. Append(z, w) = z \o v
      <3>1. w \in Wholes(B)
        BY <2>2 DEF Wholes
      <3>. QED BY <1>2, <2>7, <2>12, <3>1
    <2>14. t \o (u \o v) = Append(z, w)
      BY <2>9, <2>10, <2>12, <2>13 DEF Assoc
    <2>15. SectionText(B, T, a.out) \o Unsplit(a.body) = Text(Append(q, b))
      BY <2>4, <2>6, <2>7, <2>11, <2>12, <2>14
    <2>. QED BY <1>1, <2>3, <2>4, <2>5, <2>15 DEF LineInv
  <1>. QED BY <1>3, <1>4

(* The sections of a document are its text.                                   *)
LEMMA HeadingsWhole ==
    ASSUME NEW B, NEW T, T = Texts(B), Filled(T), NEW doc \in Seq(B), NEW p, p = splitByHeadings(doc)
    PROVE  p \in Seq(TextSections(B, T)) /\ SectionText(B, T, p) = Text(doc)
  <1>1. PICK R : R = {q \in Seq(B) : LinesOf(q) \in LineStates(B) /\ LineInv(B, T, LinesOf(q), q)}
    OBVIOUS
  <1>2. <<>> \in R
    <2>1. LinesOf(<<>>) = LineStart /\ LineStart \in LineStates(B)
      BY LinesEmpty, LineStarts
    <2>2. LineStart.out = <<>> /\ LineStart.heading = "" /\ LineStart.body = <<>>
      BY DEF LineStart
    <2>3. <<>> \o <<>> = <<>>
      OBVIOUS
    <2>4. SectionText(B, T, <<>>) \o Unsplit(<<>>) = Text(<<>>)
      BY <2>3, SectionTextEmpty, UnsplitEmpty, TextEmpty
    <2>5. "" \in Titles(B) /\ <<>> \in Seq(T) /\ <<>> \in Seq(TextSections(B, T)) /\ <<>> \in Seq(B)
      BY DEF Titles
    <2>6. LineInv(B, T, LineStart, <<>>)
      BY <2>2, <2>4, <2>5 DEF LineInv
    <2>. QED BY <1>1, <2>1, <2>5, <2>6
  <1>3. ASSUME NEW q \in Seq(B), NEW b \in B, q \in R PROVE Append(q, b) \in R
    <2>1. PICK s : s = LinesOf(q)
      OBVIOUS
    <2>2. s \in LineStates(B) /\ LineInv(B, T, s, q)
      BY <1>1, <1>3, <2>1
    <2>3. LinesOf(Append(q, b)) = addLine(s, b)
      BY <2>1, LinesAppend
    <2>4. addLine(s, b) \in LineStates(B)
      BY <2>2, LineStep
    <2>5. LineInv(B, T, addLine(s, b), Append(q, b))
      BY <2>2, LineKeeps
    <2>6. Append(q, b) \in Seq(B)
      BY AppendProperties
    <2>. QED BY <1>1, <2>3, <2>4, <2>5, <2>6
  <1>4. LineInv(B, T, LinesOf(doc), doc)
    <2>1. doc \in R
      BY <1>2, <1>3, SeqInduction
    <2>. QED BY <1>1, <2>1
  <1>5. p = flushSection(LinesOf(doc))
    BY DEF splitByHeadings, LinesOf, LineStart
  <1>. QED BY <1>4, <1>5, FlushText

-----------------------------------------------------------------------------
(* The chunks of a file, of a tree, and of a file within a tree.              *)

Bodies(c) == [i \in DOMAIN c |-> c[i].body]

(* Chunks that are a text: of one source, short enough and covering it.       *)
WholeChunks(T, src, c, t) ==
    /\ c \in Seq(ToSet(c)) /\ \A i \in DOMAIN c : c[i].source = src
    /\ Bodies(c) \in Seq(Seq(Solid(T)))
    /\ Fits(Bodies(c)) /\ Covered(T, FlattenSeq(Bodies(c)), t)

LEMMA ChunksWhole ==
    ASSUME NEW T, Filled(T), NEW src, NEW x, x.body \in Seq(T), NEW c, c = ChunksOf(src, x)
    PROVE  WholeChunks(T, src, c, Unsplit(x.body))
  <1>1. PICK p : p = splitBySize(x.body)
    OBVIOUS
  <1>2. p \in Seq(Seq(Solid(T))) /\ Fits(p) /\ Covered(T, FlattenSeq(p), Unsplit(x.body))
    BY <1>1, SplitWhole
  <1>3. c = [i \in DOMAIN p |-> [source |-> src, heading |-> x.heading, ordinal |-> i - 1, body |-> p[i], over |-> 0]]
    BY <1>1 DEF ChunksOf
  <1>4. PICK n \in Nat : n = Len(p) /\ DOMAIN p = 1 .. n
    BY <1>2
  <1>5. DOMAIN c = 1 .. n /\ \A i \in 1 .. n : c[i].source = src /\ c[i].body = p[i]
    BY <1>3, <1>4
  <1>6. c \in Seq(ToSet(c))
    <2>1. c = [i \in 1 .. n |-> c[i]]
      BY <1>3, <1>4
    <2>2. \A i \in 1 .. n : c[i] \in ToSet(c)
      BY <1>5 DEF ToSet
    <2>. QED BY <2>1, <2>2
  <1>7. Bodies(c) = p
    <2>1. p = [i \in 1 .. n |-> p[i]]
      BY <1>2, <1>4
    <2>2. [i \in 1 .. n |-> c[i].body] = [i \in 1 .. n |-> p[i]]
      BY <1>5
    <2>. QED BY <1>5, <2>1, <2>2 DEF Bodies
  <1>. QED BY <1>2, <1>5, <1>6, <1>7 DEF WholeChunks

LEMMA WholeConcat ==
    ASSUME NEW T, NEW src, NEW a, NEW b, NEW t, NEW u, WholeChunks(T, src, a, t), WholeChunks(T, src, b, u)
    PROVE  WholeChunks(T, src, a \o b, t \o u)
  <1>1. PICK U : U = ToSet(a) \cup ToSet(b)
    OBVIOUS
  <1>2. a \in Seq(U) /\ b \in Seq(U)
    <2>1. a \in Seq(ToSet(a)) /\ b \in Seq(ToSet(b))
      BY DEF WholeChunks
    <2>2. ToSet(a) \subseteq U /\ ToSet(b) \subseteq U
      BY <1>1
    <2>. QED BY <2>1, <2>2
  <1>3. PICK c : c = a \o b
    OBVIOUS
  <1>4. PICK n \in Nat, m \in Nat : n = Len(a) /\ m = Len(b)
    BY <1>2
  <1>5. /\ c \in Seq(U) /\ DOMAIN a = 1 .. n /\ DOMAIN b = 1 .. m /\ DOMAIN c = 1 .. n + m
        /\ \A i \in 1 .. n + m : c[i] = IF i <= n THEN a[i] ELSE b[i - n]
    BY <1>2, <1>3, <1>4, ConcatProperties
  <1>6. c \in Seq(ToSet(c))
    BY <1>5, SeqSelf
  <1>7. ASSUME NEW i \in DOMAIN c PROVE c[i].source = src
    <2>1. CASE i <= n
      <3>1. i \in DOMAIN a /\ c[i] = a[i]
        BY <1>5, <2>1
      <3>. QED BY <3>1 DEF WholeChunks
    <2>2. CASE ~(i <= n)
      <3>1. i - n \in DOMAIN b /\ c[i] = b[i - n]
        BY <1>5, <2>2
      <3>. QED BY <3>1 DEF WholeChunks
    <2>. QED BY <1>5, <2>1, <2>2
  <1>8. PICK p, q, Y : p = Bodies(a) /\ q = Bodies(b) /\ Y = Seq(Solid(T))
    OBVIOUS
  <1>9. /\ p \in Seq(Y) /\ q \in Seq(Y) /\ Fits(p) /\ Fits(q)
        /\ Covered(T, FlattenSeq(p), t) /\ Covered(T, FlattenSeq(q), u)
    BY <1>8 DEF WholeChunks
  <1>10. Bodies(c) = p \o q
    <2>1. PICK g : g = [x \in U |-> x.body]
      OBVIOUS
    <2>2. PICK V : V = {g[x] : x \in U}
      OBVIOUS
    <2>3. MapBoth(g, a, b)
      <3>1. \A x \in U : g[x] \in V
        BY <2>2
      <3>. QED BY <1>2, <3>1, MapConcat
    <2>4. ASSUME NEW d \in Seq(U) PROVE Bodies(d) = Map(g, d)
      <3>1. \A i \in DOMAIN d : d[i] \in U
        OBVIOUS
      <3>2. \A i \in DOMAIN d : g[d[i]] = d[i].body
        BY <2>1, <3>1
      <3>3. [i \in DOMAIN d |-> d[i].body] = [i \in DOMAIN d |-> g[d[i]]]
        BY <3>2
      <3>. QED BY <3>3 DEF Bodies, Map
    <2>5. Map(g, c) = Map(g, a) \o Map(g, b)
      BY <1>3, <2>3 DEF MapBoth
    <2>6. Bodies(c) = Map(g, c) /\ p = Map(g, a) /\ q = Map(g, b)
      BY <1>2, <1>5, <1>8, <2>4
    <2>. QED BY <2>5, <2>6
  <1>11. p \o q \in Seq(Y)
    BY <1>9, ConcatProperties
  <1>12. Fits(p \o q)
    BY <1>9, FitsConcat
  <1>13. FlattenSeq(p \o q) = FlattenSeq(p) \o FlattenSeq(q)
    BY <1>8, <1>9, FlatConcat
  <1>14. Covered(T, FlattenSeq(p) \o FlattenSeq(q), t \o u)
    BY <1>9, CoveredConcat
  <1>. QED BY <1>3, <1>6, <1>7, <1>8, <1>10, <1>11, <1>12, <1>13, <1>14 DEF WholeChunks

LEMMA WholeEmpty == ASSUME NEW T, NEW src PROVE WholeChunks(T, src, <<>>, <<>>)
  <1>1. Bodies(<<>>) = <<>>
    BY DEF Bodies
  <1>2. <<>> \in Seq(ToSet(<<>>)) /\ <<>> \in Seq(Seq(Solid(T))) /\ DOMAIN <<>> = {}
    OBVIOUS
  <1>3. Fits(<<>>)
    BY <1>2 DEF Fits
  <1>. QED BY <1>1, <1>2, <1>3, FlatEmpty, CoveredEmpty DEF WholeChunks

(* Chunks with the same bodies and source are the same text.                  *)
LEMMA WholeSame ==
    ASSUME NEW T, NEW src, NEW c, NEW t, WholeChunks(T, src, c, t), NEW d,
           d = [i \in DOMAIN c |-> d[i]],
           \A i \in DOMAIN c : d[i].source = c[i].source /\ d[i].body = c[i].body
    PROVE  WholeChunks(T, src, d, t)
  <1>1. PICK n \in Nat : n = Len(c) /\ DOMAIN c = 1 .. n
    BY DEF WholeChunks
  <1>2. DOMAIN d = 1 .. n /\ d = [i \in 1 .. n |-> d[i]]
    BY <1>1
  <1>3. d \in Seq(ToSet(d))
    <2>1. \A i \in 1 .. n : d[i] \in ToSet(d)
      BY <1>2 DEF ToSet
    <2>. QED BY <1>2, <2>1
  <1>4. \A i \in DOMAIN d : d[i].source = src
    BY <1>1, <1>2 DEF WholeChunks
  <1>5. Bodies(d) = Bodies(c)
    <2>1. [i \in 1 .. n |-> d[i].body] = [i \in 1 .. n |-> c[i].body]
      BY <1>1
    <2>. QED BY <1>1, <1>2, <2>1 DEF Bodies
  <1>. QED BY <1>3, <1>4, <1>5 DEF WholeChunks

(* The chunks of a file are its text.                                         *)
LEMMA MarkdownWhole ==
    ASSUME NEW B, NEW T, T = Texts(B), Filled(T), NEW doc \in Seq(B), NEW src, NEW c, c = SplitMarkdown(src, doc)
    PROVE  WholeChunks(T, src, c, Text(doc))
  <1>1. PICK p, X : p = splitByHeadings(doc) /\ X = TextSections(B, T)
    OBVIOUS
  <1>2. p \in Seq(X) /\ SectionText(B, T, p) = Text(doc)
    BY <1>1, HeadingsWhole
  <1>3. PICK k : k = [x \in X |-> ChunksOf(src, x)]
    OBVIOUS
  <1>4. \A x \in X : x.body \in Seq(T)
    BY <1>1 DEF TextSections
  <1>5. \A x \in X : WholeChunks(T, src, k[x], Unsplit(x.body))
    BY <1>3, <1>4, ChunksWhole
  <1>6. PICK U : U = UNION {ToSet(k[x]) : x \in X}
    OBVIOUS
  <1>7. ASSUME NEW x \in X PROVE k[x] \in Seq(U)
    <2>1. k[x] \in Seq(ToSet(k[x]))
      BY <1>5 DEF WholeChunks
    <2>2. ToSet(k[x]) \subseteq U
      BY <1>6
    <2>. QED BY <2>1, <2>2
  <1>8. PICK R : R = {q \in Seq(X) : WholeChunks(T, src, FlattenSeq(Map(k, q)), SectionText(B, T, q))}
    OBVIOUS
  <1>9. <<>> \in R
    <2>1. Map(k, <<>>) = <<>>
      BY MapEmpty
    <2>. QED BY <1>8, <2>1, FlatEmpty, SectionTextEmpty, WholeEmpty
  <1>10. ASSUME NEW q \in Seq(X), NEW x \in X, q \in R PROVE Append(q, x) \in R
    <2>1. PICK m, y : m = Map(k, q) /\ y = k[x]
      OBVIOUS
    <2>2. m \in Seq(Seq(U)) /\ y \in Seq(U)
      <3>1. PICK Z : Z = Seq(U)
        OBVIOUS
      <3>2. \A z \in X : k[z] \in Z
        BY <1>7, <3>1
      <3>3. m \in Seq(Z)
        BY <2>1, <3>2, MapIn
      <3>. QED BY <2>1, <3>1, <3>2, <3>3
    <2>3. Map(k, Append(q, x)) = Append(m, y)
      <3>1. PICK Z : Z = Seq(U)
        OBVIOUS
      <3>2. \A z \in X : k[z] \in Z
        BY <1>7, <3>1
      <3>3. MapOne(k, q, x)
        BY <3>2, MapAppend
      <3>. QED BY <2>1, <3>3 DEF MapOne
    <2>4. FlattenSeq(Append(m, y)) = FlattenSeq(m) \o y
      BY <2>2, FlatAppend
    <2>5. WholeChunks(T, src, FlattenSeq(m), SectionText(B, T, q)) /\ WholeChunks(T, src, y, Unsplit(x.body))
      BY <1>5, <1>8, <1>10, <2>1
    <2>6. WholeChunks(T, src, FlattenSeq(m) \o y, SectionText(B, T, q) \o Unsplit(x.body))
      <3>1. PICK f, t, u : f = FlattenSeq(m) /\ t = SectionText(B, T, q) /\ u = Unsplit(x.body)
        OBVIOUS
      <3>2. WholeChunks(T, src, f, t) /\ WholeChunks(T, src, y, u)
        BY <2>5, <3>1
      <3>3. WholeChunks(T, src, f \o y, t \o u)
        BY <3>2, WholeConcat
      <3>. QED BY <3>1, <3>3
    <2>7. SectionText(B, T, Append(q, x)) = SectionText(B, T, q) \o Unsplit(x.body)
      <3>1. q \in Seq(TextSections(B, T)) /\ x \in TextSections(B, T)
        BY <1>1
      <3>2. MoreText(B, T, q, x)
        BY <3>1, SectionTextAppend
      <3>. QED BY <3>2 DEF MoreText
    <2>8. Append(q, x) \in Seq(X)
      BY AppendProperties
    <2>9. WholeChunks(T, src, FlattenSeq(Map(k, Append(q, x))), SectionText(B, T, Append(q, x)))
      BY <2>3, <2>4, <2>6, <2>7
    <2>. QED BY <1>8, <2>8, <2>9
  <1>11. p \in R
    BY <1>2, <1>9, <1>10, SeqInduction
  <1>12. PICK d : d = FlattenSeq(Map(k, p))
    OBVIOUS
  <1>13. WholeChunks(T, src, d, Text(doc))
    BY <1>2, <1>8, <1>11, <1>12
  <1>14. c = applyOverlap(d)
    <2>1. \A i \in DOMAIN p : p[i] \in X
      BY <1>2
    <2>2. \A i \in DOMAIN p : k[p[i]] = ChunksOf(src, p[i])
      BY <1>3, <2>1
    <2>3. [i \in DOMAIN p |-> ChunksOf(src, p[i])] = [i \in DOMAIN p |-> k[p[i]]]
      BY <2>2
    <2>4. [i \in DOMAIN p |-> ChunksOf(src, p[i])] = Map(k, p)
      BY <2>3 DEF Map
    <2>. QED BY <1>1, <1>12, <2>4 DEF SplitMarkdown
  <1>15. c = [i \in DOMAIN d |->
                IF i = Len(d) THEN d[i] ELSE [d[i] EXCEPT !.over = Min({OverlapChars, Chars(d[i + 1].body)})]]
    BY <1>14 DEF applyOverlap
  <1>16. c = [i \in DOMAIN d |-> c[i]]
    BY <1>15
  <1>17. ASSUME NEW i \in DOMAIN d PROVE c[i].source = d[i].source /\ c[i].body = d[i].body
    <2>1. PICK v : c[i] = d[i] \/ c[i] = [d[i] EXCEPT !.over = v]
      BY <1>15
    <2>2. CASE c[i] = d[i]
      BY <2>2
    <2>3. CASE c[i] = [d[i] EXCEPT !.over = v]
      BY <2>3
    <2>. QED BY <2>1, <2>2, <2>3
  <1>. QED BY <1>13, <1>16, <1>17, WholeSame

LEMMA FromIn == ASSUME NEW T, NEW q \in Seq(T), NEW src PROVE FromSource(q, src) \in Seq(T)
  <1>1. PICK h : FromSource(q, src) = h[DOMAIN q] /\ \A s \in SUBSET DOMAIN q : h[s] \in Seq(T)
    BY FromIs
  <1>. QED BY <1>1

LEMMA FromConcat ==
    ASSUME NEW T, NEW p \in Seq(T), NEW q \in Seq(T), NEW src
    PROVE  FromSource(p \o q, src) = FromSource(p, src) \o FromSource(q, src)
  <1>1. PICK f : f = FromSource(p, src)
    OBVIOUS
  <1>2. f \in Seq(T)
    BY <1>1, FromIn
  <1>3. PICK R : R = {r \in Seq(T) : FromSource(p \o r, src) = f \o FromSource(r, src)}
    OBVIOUS
  <1>4. <<>> \in R
    <2>1. p \o <<>> = p /\ f \o <<>> = f /\ <<>> \in Seq(T)
      BY <1>2, ConcatEmptySeq
    <2>2. FromSource(<<>>, src) = <<>>
      BY FromEmpty
    <2>. QED BY <1>1, <1>3, <2>1, <2>2
  <1>5. ASSUME NEW r \in Seq(T), NEW x \in T, r \in R PROVE Append(r, x) \in R
    <2>1. PICK g : g = FromSource(r, src)
      OBVIOUS
    <2>2. g \in Seq(T) /\ FromSource(Append(r, x), src) = addFrom(src, g, x)
      BY <2>1, FromAppend
    <2>3. PICK y : y = p \o r
      OBVIOUS
    <2>4. y \in Seq(T) /\ p \o Append(r, x) = Append(y, x)
      BY <2>3, ConcatAppend, ConcatProperties
    <2>5. FromSource(Append(y, x), src) = addFrom(src, FromSource(y, src), x)
      BY <2>4, FromAppend
    <2>6. FromSource(y, src) = f \o g
      BY <1>3, <1>5, <2>1, <2>3
    <2>7. addFrom(src, f \o g, x) = f \o addFrom(src, g, x)
      <3>1. f \o Append(g, x) = Append(f \o g, x)
        BY <1>2, <2>2, ConcatAppend
      <3>. QED BY <3>1 DEF addFrom
    <2>8. Append(r, x) \in Seq(T)
      BY AppendProperties
    <2>. QED BY <1>3, <2>2, <2>4, <2>5, <2>6, <2>7, <2>8
  <1>6. q \in R
    BY <1>4, <1>5, SeqInduction
  <1>. QED BY <1>1, <1>3, <1>6

(* All of the chunks of a file, none of those of the others.                  *)
LEMMA FromAll ==
    ASSUME NEW T, NEW src, \A x \in T : x.source = src, NEW q \in Seq(T) PROVE FromSource(q, src) = q
  <1>1. PICK R : R = {r \in Seq(T) : FromSource(r, src) = r}
    OBVIOUS
  <1>2. <<>> \in R
    BY <1>1, FromEmpty
  <1>3. ASSUME NEW r \in Seq(T), NEW x \in T, r \in R PROVE Append(r, x) \in R
    <2>1. FromSource(Append(r, x), src) = addFrom(src, FromSource(r, src), x)
      BY FromAppend
    <2>2. Append(r, x) \in Seq(T)
      BY AppendProperties
    <2>. QED BY <1>1, <1>3, <2>1, <2>2 DEF addFrom
  <1>4. q \in R
    BY <1>2, <1>3, SeqInduction
  <1>. QED BY <1>1, <1>4

LEMMA FromNone ==
    ASSUME NEW T, NEW src, \A x \in T : x.source # src, NEW q \in Seq(T) PROVE FromSource(q, src) = <<>>
  <1>1. PICK R : R = {r \in Seq(T) : FromSource(r, src) = <<>>}
    OBVIOUS
  <1>2. <<>> \in R
    BY <1>1, FromEmpty
  <1>3. ASSUME NEW r \in Seq(T), NEW x \in T, r \in R PROVE Append(r, x) \in R
    <2>1. FromSource(Append(r, x), src) = addFrom(src, FromSource(r, src), x)
      BY FromAppend
    <2>2. Append(r, x) \in Seq(T)
      BY AppendProperties
    <2>. QED BY <1>1, <1>3, <2>1, <2>2 DEF addFrom
  <1>4. q \in R
    BY <1>2, <1>3, SeqInduction
  <1>. QED BY <1>1, <1>4

LEMMA WholeCovers ==
    ASSUME NEW T, NEW src, NEW c, NEW doc, WholeChunks(T, src, c, Text(doc)) PROVE Covers(c, doc)
  <1>1. PICK t, f : t = Text(doc) /\ f = FlattenSeq(Bodies(c))
    OBVIOUS
  <1>2. Covered(T, f, t) /\ Fits(Bodies(c))
    BY <1>1 DEF WholeChunks
  <1>3. <<>> \in Seq(Solid(T)) /\ t \in Seq(Solid(T))
    BY <1>2 DEF Covered
  <1>4. Joins(<<>>, f) = <<>> \o t
    BY <1>2, <1>3 DEF Covered
  <1>5. <<>> \o t = t
    BY <1>3, ConcatEmptySeq
  <1>6. Joined(f) = t
    BY <1>4, <1>5 DEF Joined, Joins
  <1>7. \A i \in DOMAIN c : Chars(c[i].body) <= MaxChars
    BY <1>2 DEF Fits, Bodies
  <1>8. f = FlattenSeq([i \in DOMAIN c |-> c[i].body])
    BY <1>1 DEF Bodies
  <1>. QED BY <1>1, <1>6, <1>7, <1>8 DEF Covers

(* A tree: k are the chunks of its files, v what an ingest stores of a chunk. *)
TreeOf(k, v, t) == Map(v, FlattenSeq(Map(k, t)))

Distinct(t) == \A i, j \in DOMAIN t : t[i].source = t[j].source => i = j

FilesOK(k, v, F, U, W) ==
    /\ \A f \in F : k[f] \in Seq(U)
    /\ \A x \in U : v[x] \in W
    /\ \A f \in F : \A i \in DOMAIN k[f] : v[k[f][i]].source = f.source

TreeInv(k, v, W, t) ==
    /\ TreeOf(k, v, t) \in Seq(W)
    /\ \A i \in DOMAIN TreeOf(k, v, t) : \E j \in DOMAIN t : TreeOf(k, v, t)[i].source = t[j].source
    /\ Distinct(t) => \A j \in DOMAIN t : FromSource(TreeOf(k, v, t), t[j].source) = Map(v, k[t[j]])

LEMMA TreeEmpty == ASSUME NEW k, NEW v, NEW W PROVE TreeInv(k, v, W, <<>>)
  <1>1. TreeOf(k, v, <<>>) = <<>>
    BY MapEmpty, FlatEmpty DEF TreeOf
  <1>2. <<>> \in Seq(W) /\ DOMAIN <<>> = {}
    OBVIOUS
  <1>. QED BY <1>1, <1>2 DEF TreeInv

LEMMA TreeAppend ==
    ASSUME NEW k, NEW v, NEW F, NEW U, NEW W, FilesOK(k, v, F, U, W), NEW t \in Seq(F), NEW f \in F
    PROVE  TreeOf(k, v, Append(t, f)) = TreeOf(k, v, t) \o Map(v, k[f]) /\ Map(v, k[f]) \in Seq(W)
  <1>1. PICK Z, m, y : Z = Seq(U) /\ m = Map(k, t) /\ y = k[f]
    OBVIOUS
  <1>2. (\A x \in F : k[x] \in Z) /\ \A x \in U : v[x] \in W
    BY <1>1 DEF FilesOK
  <1>3. m \in Seq(Z) /\ y \in Z
    BY <1>1, <1>2, MapIn
  <1>4. MapOne(k, t, f)
    BY <1>2, MapAppend
  <1>5. Map(k, Append(t, f)) = Append(m, y)
    BY <1>1, <1>4 DEF MapOne
  <1>6. FlattenSeq(Append(m, y)) = FlattenSeq(m) \o y
    BY <1>1, <1>3, FlatAppend
  <1>7. PICK g : g = FlattenSeq(m)
    OBVIOUS
  <1>8. g \in Seq(U)
    BY <1>1, <1>3, <1>7, FlattenIn
  <1>9. MapBoth(v, g, y)
    BY <1>1, <1>2, <1>3, <1>8, MapConcat
  <1>10. Map(v, y) \in Seq(W)
    BY <1>1, <1>2, <1>3, MapIn
  <1>11. Map(v, FlattenSeq(Map(k, Append(t, f)))) = Map(v, g) \o Map(v, y)
    BY <1>5, <1>6, <1>7, <1>9 DEF MapBoth
  <1>. QED BY <1>1, <1>7, <1>10, <1>11 DEF TreeOf

LEMMA TreeKeeps ==
    ASSUME NEW k, NEW v, NEW F, NEW U, NEW W, FilesOK(k, v, F, U, W), NEW t \in Seq(F), TreeInv(k, v, W, t), NEW f \in F
    PROVE  TreeInv(k, v, W, Append(t, f))
  <1>1. PICK a, d, r : a = TreeOf(k, v, t) /\ d = Map(v, k[f]) /\ r = Append(t, f)
    OBVIOUS
  <1>2. PICK c : c = TreeOf(k, v, r)
    OBVIOUS
  <1>3. c = a \o d /\ d \in Seq(W) /\ a \in Seq(W)
    <2>1. c = a \o d
      BY <1>1, <1>2, TreeAppend
    <2>2. d \in Seq(W)
      BY <1>1, TreeAppend
    <2>3. a \in Seq(W)
      BY <1>1 DEF TreeInv
    <2>. QED BY <2>1, <2>2, <2>3
  <1>4. PICK n \in Nat, m \in Nat, l \in Nat : n = Len(a) /\ m = Len(d) /\ l = Len(t)
    BY <1>3
  <1>5. /\ c \in Seq(W) /\ DOMAIN a = 1 .. n /\ DOMAIN d = 1 .. m /\ DOMAIN c = 1 .. n + m
        /\ \A i \in 1 .. n + m : c[i] = IF i <= n THEN a[i] ELSE d[i - n]
    BY <1>3, <1>4, ConcatProperties
  <1>6. DOMAIN t = 1 .. l /\ DOMAIN r = 1 .. l + 1 /\ (\A j \in 1 .. l : r[j] = t[j]) /\ r[l + 1] = f
    BY <1>1, <1>4, AppendIs
  <1>7. \A i \in DOMAIN d : d[i].source = f.source
    BY <1>1 DEF FilesOK, Map
  <1>8. \A i \in DOMAIN a : \E j \in DOMAIN t : a[i].source = t[j].source
    BY <1>1 DEF TreeInv
  <1>9. ASSUME NEW i \in DOMAIN c PROVE \E j \in DOMAIN r : c[i].source = r[j].source
    <2>1. CASE i <= n
      <3>1. i \in DOMAIN a /\ c[i] = a[i]
        BY <1>5, <2>1
      <3>2. PICK j \in DOMAIN t : a[i].source = t[j].source
        BY <1>8, <3>1
      <3>3. j \in DOMAIN r /\ r[j] = t[j]
        BY <1>6
      <3>. QED BY <3>1, <3>2, <3>3
    <2>2. CASE ~(i <= n)
      <3>1. i - n \in DOMAIN d /\ c[i] = d[i - n]
        BY <1>5, <2>2
      <3>2. l + 1 \in DOMAIN r
        BY <1>6
      <3>. QED BY <1>6, <1>7, <3>1, <3>2
    <2>. QED BY <1>5, <2>1, <2>2
  <1>10. ASSUME Distinct(r), NEW j \in DOMAIN r PROVE FromSource(c, r[j].source) = Map(v, k[r[j]])
    <2>1. PICK s : s = r[j].source
      OBVIOUS
    <2>2. FromSource(c, s) = FromSource(a, s) \o FromSource(d, s)
      BY <1>3, FromConcat
    <2>3. PICK A, D : A = ToSet(a) /\ D = ToSet(d)
      OBVIOUS
    <2>4. a \in Seq(A) /\ d \in Seq(D)
      BY <1>3, <2>3, SeqSelf
    <2>5. (\A x \in D : x.source = f.source) /\ \A x \in A : \E i \in DOMAIN t : x.source = t[i].source
      BY <1>7, <1>8, <2>3 DEF ToSet
    <2>6. CASE j = l + 1
      <3>1. s = f.source /\ r[j] = f
        BY <1>6, <2>1, <2>6
      <3>2. \A x \in A : x.source # s
        <4>1. ASSUME NEW i \in DOMAIN t PROVE t[i].source # s
          <5>1. i \in DOMAIN r /\ r[i] = t[i] /\ i # l + 1
            BY <1>6
          <5>. QED BY <1>10, <2>1, <2>6, <5>1 DEF Distinct
        <4>. QED BY <2>5, <4>1
      <3>3. FromSource(a, s) = <<>>
        BY <2>4, <3>2, FromNone
      <3>4. FromSource(d, s) = d
        BY <2>4, <2>5, <3>1, FromAll
      <3>5. <<>> \o d = d
        BY <1>3, ConcatEmptySeq
      <3>. QED BY <1>1, <2>1, <2>2, <3>1, <3>3, <3>4, <3>5
    <2>7. CASE j # l + 1
      <3>1. j \in DOMAIN t /\ r[j] = t[j] /\ l + 1 \in DOMAIN r
        BY <1>6, <2>7
      <3>2. s # f.source
        BY <1>6, <1>10, <2>1, <2>7, <3>1 DEF Distinct
      <3>3. \A x \in D : x.source # s
        BY <2>5, <3>2
      <3>4. FromSource(d, s) = <<>>
        BY <2>4, <3>3, FromNone
      <3>5. Distinct(t)
        <4>1. \A i \in DOMAIN t : i \in DOMAIN r /\ r[i] = t[i]
          BY <1>6
        <4>. QED BY <1>10, <4>1 DEF Distinct
      <3>6. FromSource(a, s) = Map(v, k[r[j]])
        BY <1>1, <2>1, <3>1, <3>5 DEF TreeInv
      <3>7. PICK g : g = FromSource(a, s)
        OBVIOUS
      <3>8. g \in Seq(W)
        BY <1>3, <3>7, FromIn
      <3>9. g \o <<>> = g
        BY <3>8, ConcatEmptySeq
      <3>. QED BY <2>1, <2>2, <3>4, <3>6, <3>7, <3>9
    <2>. QED BY <2>6, <2>7
  <1>. QED BY <1>1, <1>2, <1>5, <1>9, <1>10 DEF TreeInv

(* The chunks an ingest stores of a source tree are the text of each of its   *)
(* files: SplitMarkdown file after file, with a vector for every chunk.       *)
Stored(x, e, len) ==
    [source |-> x.source, heading |-> x.heading, ordinal |-> x.ordinal, body |-> x.body, over |-> x.over,
     vec |-> [by |-> e, len |-> len], subject |-> None]

StoredBy(v, U, e, len) == v = [x \in U |-> Stored(x, e, len)]

LEMMA FileWhole ==
    ASSUME NEW tree \in Trees, NEW f \in ToSet(tree), NEW c, c = SplitMarkdown(f.source, f.doc)
    PROVE  \E T : WholeChunks(T, f.source, c, Text(f.doc))
  <1>1. PICK d, B : d = f.doc /\ B = ToSet(d)
    OBVIOUS
  <1>2. d \in Seq(B) /\ \A b \in B : b.len \in Nat /\ (b.level \notin 1..3 => b.len > 0)
    BY <1>1, TreesAssumption
  <1>3. PICK T : T = Texts(B)
    OBVIOUS
  <1>4. Filled(T)
    BY <1>2, <1>3 DEF Filled, Texts
  <1>5. WholeChunks(T, f.source, c, Text(d))
    BY <1>1, <1>2, <1>3, <1>4, MarkdownWhole
  <1>. QED BY <1>1, <1>5

LEMMA StoredCovers ==
    ASSUME NEW T, NEW f, NEW c, WholeChunks(T, f.source, c, Text(f.doc)), NEW U, NEW e, NEW len, NEW v,
           StoredBy(v, U, e, len), \A i \in DOMAIN c : c[i] \in U
    PROVE  /\ \A i \in DOMAIN c : v[c[i]].source = f.source
           /\ Covers(Map(v, c), f.doc)
  <1>1. PICK d : d = Map(v, c)
    OBVIOUS
  <1>2. d = [i \in DOMAIN c |-> d[i]] /\ \A i \in DOMAIN c : d[i] = v[c[i]]
    BY <1>1 DEF Map
  <1>3. \A i \in DOMAIN c : v[c[i]] = Stored(c[i], e, len)
    BY DEF StoredBy
  <1>4. \A i \in DOMAIN c : v[c[i]].source = c[i].source /\ v[c[i]].body = c[i].body
    <2>1. ASSUME NEW i \in DOMAIN c PROVE v[c[i]].source = c[i].source /\ v[c[i]].body = c[i].body
      <3>1. PICK x : x = c[i]
        OBVIOUS
      <3>2. v[c[i]] = Stored(x, e, len)
        BY <1>3, <3>1
      <3>3. Stored(x, e, len).source = x.source /\ Stored(x, e, len).body = x.body
        BY DEF Stored
      <3>. QED BY <3>1, <3>2, <3>3
    <2>. QED BY <2>1
  <1>5. \A i \in DOMAIN c : d[i].source = c[i].source /\ d[i].body = c[i].body
    BY <1>2, <1>4
  <1>6. WholeChunks(T, f.source, d, Text(f.doc))
    BY <1>2, <1>5, WholeSame
  <1>7. Covers(d, f.doc)
    BY <1>6, WholeCovers
  <1>8. \A i \in DOMAIN c : c[i].source = f.source
    BY DEF WholeChunks
  <1>. QED BY <1>1, <1>4, <1>7, <1>8

LEMMA ChunkedMap ==
    ASSUME NEW tree, NEW F, tree \in Seq(F), NEW k, k = [f \in F |-> SplitMarkdown(f.source, f.doc)],
           NEW U, \A f \in F : k[f] \in Seq(U), NEW e, NEW len, NEW v, StoredBy(v, U, e, len)
    PROVE  Chunked(tree, e, len) = TreeOf(k, v, tree)
  <1>1. PICK p : p = [i \in DOMAIN tree |-> SplitMarkdown(tree[i].source, tree[i].doc)]
    OBVIOUS
  <1>2. PICK m : m = Map(k, tree)
    OBVIOUS
  <1>3. \A i \in DOMAIN tree : tree[i] \in F
    OBVIOUS
  <1>4. p = m
    BY <1>1, <1>2, <1>3 DEF Map
  <1>5. PICK Z : Z = Seq(U)
    OBVIOUS
  <1>6. m \in Seq(Z)
    BY <1>2, <1>5, MapIn
  <1>7. PICK q : q = FlattenSeq(p)
    OBVIOUS
  <1>8. q \in Seq(U)
    BY <1>4, <1>5, <1>6, <1>7, FlattenIn
  <1>9. Chunked(tree, e, len) = [i \in DOMAIN q |-> Stored(q[i], e, len)]
    BY <1>1, <1>7 DEF Chunked, Stored
  <1>10. \A i \in DOMAIN q : q[i] \in U
    BY <1>8
  <1>11. \A i \in DOMAIN q : v[q[i]] = Stored(q[i], e, len)
    BY <1>10 DEF StoredBy
  <1>12. [i \in DOMAIN q |-> Stored(q[i], e, len)] = [i \in DOMAIN q |-> v[q[i]]]
    BY <1>11
  <1>13. TreeOf(k, v, tree) = [i \in DOMAIN q |-> v[q[i]]]
    BY <1>2, <1>4, <1>7 DEF TreeOf, Map
  <1>. QED BY <1>9, <1>12, <1>13

LEMMA TreeWhole ==
    ASSUME NEW tree \in Trees, NEW e, NEW len, NEW c, c = Chunked(tree, e, len)
    PROVE  Snapshot(c, tree)
  <1>1. PICK F : F = ToSet(tree)
    OBVIOUS
  <1>2. PICK k : k = [f \in F |-> SplitMarkdown(f.source, f.doc)]
    OBVIOUS
  <1>3. PICK U : U = UNION {ToSet(k[f]) : f \in F}
    OBVIOUS
  <1>4. PICK v : StoredBy(v, U, e, len)
    BY DEF StoredBy
  <1>5. PICK W : W = {v[x] : x \in U}
    OBVIOUS
  <1>6. tree \in Seq(F) /\ Distinct(tree)
    BY <1>1, TreesAssumption DEF Distinct
  <1>7. ASSUME NEW f \in F
        PROVE  /\ k[f] \in Seq(U)
               /\ \A i \in DOMAIN k[f] : v[k[f][i]].source = f.source
               /\ Covers(Map(v, k[f]), f.doc)
    <2>1. PICK d : d = k[f]
      OBVIOUS
    <2>2. PICK T : WholeChunks(T, f.source, d, Text(f.doc))
      BY <1>1, <1>2, <2>1, FileWhole
    <2>3. d \in Seq(ToSet(d))
      BY <2>2 DEF WholeChunks
    <2>4. ToSet(d) \subseteq U
      BY <1>3, <2>1
    <2>5. d \in Seq(U) /\ \A i \in DOMAIN d : d[i] \in U
      BY <2>3, <2>4
    <2>6. (\A i \in DOMAIN d : v[d[i]].source = f.source) /\ Covers(Map(v, d), f.doc)
      BY <1>4, <2>2, <2>5, StoredCovers
    <2>. QED BY <2>1, <2>5, <2>6
  <1>8. FilesOK(k, v, F, U, W)
    BY <1>5, <1>7 DEF FilesOK
  <1>9. TreeInv(k, v, W, tree)
    <2>1. PICK R : R = {t \in Seq(F) : TreeInv(k, v, W, t)}
      OBVIOUS
    <2>2. <<>> \in R
      BY <2>1, TreeEmpty
    <2>3. \A t \in Seq(F), f \in F : t \in R => Append(t, f) \in R
      BY <1>8, <2>1, TreeKeeps
    <2>. QED BY <1>6, <2>1, <2>2, <2>3, SeqInduction
  <1>10. c = TreeOf(k, v, tree)
    BY <1>2, <1>4, <1>6, <1>7, ChunkedMap
  <1>11. /\ \A i \in DOMAIN c : \E j \in DOMAIN tree : c[i].source = tree[j].source
         /\ \A j \in DOMAIN tree : FromSource(c, tree[j].source) = Map(v, k[tree[j]])
    BY <1>6, <1>9, <1>10 DEF TreeInv
  <1>12. {x.source : x \in ToSet(c)} \subseteq {f.source : f \in F}
    BY <1>1, <1>11 DEF ToSet
  <1>13. ASSUME NEW f \in F PROVE Covers(FromSource(c, f.source), f.doc)
    <2>1. PICK j \in DOMAIN tree : f = tree[j]
      BY <1>1 DEF ToSet
    <2>2. FromSource(c, f.source) = Map(v, k[f])
      BY <1>11, <2>1
    <2>. QED BY <1>7, <2>2
  <1>. QED BY <1>1, <1>12, <1>13 DEF Snapshot

-----------------------------------------------------------------------------
(* The inductive invariant.                                                  *)

Pinned(e, n) == meta # None /\ meta.id = e /\ meta.dim = n

DiskInv ==
    /\ IsFiniteSet(DOMAIN disk) /\ DocNames \cup {MemoryCollectionName} \subseteq DOMAIN disk
    /\ \A n \in DOMAIN disk : disk[n] # None => WellFormed(n, disk[n])
    /\ disk[MemoryCollectionName] # None =>
          None # [id |-> disk[MemoryCollectionName].embedder, dim |-> disk[MemoryCollectionName].dim]

(* What a server's memory holds while it runs.                                *)
GraphOK(g) ==
    /\ IsFiniteSet(g)
    /\ \A c \in g : /\ c.chunks \in Seq(ToSet(c.chunks))
                    /\ c.kind # "memory" => \A ch \in ToSet(c.chunks) : ch.subject = None

FlagsOK(f) == f.embedders \subseteq Embedders /\ f.ctx \in Int /\ f.pin \in Int

ServerOK(s) ==
    /\ s = [flags |-> s.flags, index |-> s.index, graph |-> s.graph, convo |-> s.convo, dim |-> s.dim]
    /\ FlagsOK(s.flags) /\ IndexOK(s.index)
    /\ s.graph # None => GraphOK(s.graph)
    /\ s.convo # None => s.convo \in Embedders
    /\ s.dim \in Nat

ServerInv == proc[Server].pc # "off" => ServerOK(srv)

(* A row of the memory table has the pinned embedder and dimension.           *)
RowOK(x) == Pinned(x.vec.by, x.vec.len) /\ x.vec = [by |-> x.vec.by, len |-> x.vec.len] /\ x.size \in Nat

RowsInv == IsFiniteSet(rows) /\ \A x \in rows : RowOK(x)

(* A process that imports the legacy memory.                                  *)
LegacyChunk(c) ==
    /\ c.vec = [by |-> disk[MemoryCollectionName].embedder, len |-> disk[MemoryCollectionName].dim]
    /\ TextLen(c) \in Nat

ImportOK(p) ==
    /\ p = [pc |-> p.pc, mig |-> p.mig]
    /\ p.pc \in {"pin", "import"} =>
          /\ disk[MemoryCollectionName] # None
          /\ p.mig \in Seq(ToSet(p.mig)) /\ \A c \in ToSet(p.mig) : LegacyChunk(c)
    /\ p.pc = "import" => Pinned(disk[MemoryCollectionName].embedder, disk[MemoryCollectionName].dim)

ProcInv ==
    /\ proc = [p \in Procs |-> proc[p]]
    /\ \A p \in Procs : ImportOK(proc[p])
    /\ proc[Server].pc = "ready" => meta # None \/ disk[MemoryCollectionName] = None

IngestInv ==
    /\ ing = [i \in Ingesters |-> ing[i]]
    /\ \A i \in Ingesters : proc[i].pc = "embed" => ing[i].name \in DocNames /\ ing[i].tree \in Trees

(* The request in a slot: a write that holds the mutex, a prompt, a turn.     *)
Writing(r, x) ==
    /\ x.pc \in {"embed", "pin", "put"} /\ mutex = r
    /\ x = [pc |-> x.pc, to |-> x.to, w |-> x.w, vec |-> [by |-> x.vec.by, len |-> x.vec.len]]
    /\ x.vec.by \in Embedders /\ x.w.size \in Nat
    /\ x.pc = "pin" => meta = None /\ x.vec.len \in Lengths[x.vec.by]
    /\ x.pc = "put" => Pinned(x.vec.by, x.vec.len)

Prompting(x) ==
    /\ x.pc = "augment"
    /\ IsFiniteSet(x.cands) /\ \A y \in x.cands : y.subject = x.to /\ RowOK(y)

Turning(x) ==
    /\ x.pc = "turn" /\ srv.convo # None
    /\ x = [pc |-> x.pc, to |-> x.to, left |-> x.left]

SlotOK(r, x) == x = Idle \/ (Ready /\ (Writing(r, x) \/ Prompting(x) \/ Turning(x)))

RequestInv == req = [r \in Slots |-> req[r]] /\ \A r \in Slots : SlotOK(r, req[r])

TurnsInv ==
    /\ IsFiniteSet(turns)
    /\ \A t \in turns : t.len \in Nat \ {0}
    /\ \A t, u \in turns : t.len = u.len
    /\ proc[Server].pc # "off" => \A t \in turns : t.len = srv.dim



RInv == DiskInv /\ ServerInv /\ RowsInv /\ ProcInv /\ IngestInv /\ RequestInv /\ TurnsInv

(* What an answer may hold.                                                   *)
AnswerOK(a) ==
    /\ \A i \in DOMAIN a.mem : a.mem[i].row.subject = a.to
    /\ \A i \in DOMAIN a.docs : a.docs[i].chunk.subject = None
    /\ a.kind = "prompt" =>
          /\ \A i \in DOMAIN a.mem : a.mem[i].row.vec.by = a.by
          /\ BlockOK(a.block)
    /\ a.kind # "graph" =>
          Cardinality({a.docs[i].chunk.vec.by : i \in {j \in DOMAIN a.docs : a.docs[j].chunk.vec # None}}) <= 1

AnswerInv == resp # None => AnswerOK(resp)

-----------------------------------------------------------------------------
(* Loading files.                                                            *)

LEMMA LoadIs ==
    ASSUME NEW n, disk[n] # None, WellFormed(n, disk[n])
    PROVE  /\ Load(n).chunks = disk[n].chunks /\ Load(n).embedder = disk[n].embedder
           /\ Load(n).dim = disk[n].dim /\ Load(n).name = n
           /\ DocFile(Load(n))
           /\ Load(n).kind # "memory" => \A c \in ToSet(Load(n).chunks) : c.subject = None
  <1>1. PICK f : f = disk[n]
    OBVIOUS
  <1>2. f = [name |-> n, kind |-> f.kind, embedder |-> f.embedder, dim |-> f.dim, chunks |-> f.chunks]
    BY <1>1 DEF WellFormed
  <1>3. f.chunks \in Seq(ToSet(f.chunks)) /\ f.name = n
    <2>1. f.name = n
      BY <1>2
    <2>. QED BY <1>1, <2>1 DEF WellFormed
  <1>4. PICK l : l = Load(n)
    OBVIOUS
  <1>5. /\ l.chunks = f.chunks /\ l.embedder = f.embedder /\ l.dim = f.dim /\ l.name = n
        /\ l.kind = IF f.kind # "" THEN f.kind ELSE IF n = MemoryCollectionName THEN "memory" ELSE "docs"
    <2>1. CASE f.kind # ""
      <3>1. l = f
        BY <1>1, <1>4, <2>1 DEF Load
      <3>. QED BY <1>3, <2>1, <3>1
    <2>2. CASE f.kind = ""
      <3>1. PICK k : k = IF n = MemoryCollectionName THEN "memory" ELSE "docs"
        OBVIOUS
      <3>2. l = [f EXCEPT !.kind = k]
        BY <1>1, <1>4, <2>2, <3>1 DEF Load
      <3>3. l = [name |-> n, kind |-> k, embedder |-> f.embedder, dim |-> f.dim, chunks |-> f.chunks]
        BY <1>2, <3>2
      <3>. QED BY <2>2, <3>1, <3>3
    <2>. QED BY <2>1, <2>2
  <1>6. \A c \in ToSet(f.chunks) :
          /\ TextLen(c) \in Nat
          /\ c.vec = None \/ c.vec.by = f.embedder
          /\ c.subject = None \/ f.kind = "memory" \/ (f.kind = "" /\ n = MemoryCollectionName)
    BY <1>1 DEF WellFormed
  <1>7. l.kind # "memory" => \A c \in ToSet(l.chunks) : c.subject = None
    BY <1>5, <1>6
  <1>8. DocFile(l)
    <2>1. ASSUME ~isMemoryCollection(l), NEW i \in DOMAIN l.chunks PROVE DocChunk(l.chunks[i], l.embedder)
      <3>1. l.chunks[i] \in ToSet(f.chunks)
        BY <1>5 DEF ToSet
      <3>2. l.kind # "memory"
        BY <2>1 DEF isMemoryCollection
      <3>. QED BY <1>5, <1>6, <1>7, <3>1, <3>2 DEF DocChunk
    <2>2. l.chunks \in Seq(ToSet(l.chunks))
      BY <1>3, <1>5
    <2>. QED BY <2>1, <2>2 DEF DocFile
  <1>. QED BY <1>1, <1>4, <1>5, <1>7, <1>8

LEMMA FiniteImage == ASSUME NEW f, IsFiniteSet(DOMAIN f) PROVE IsFiniteSet({f[x] : x \in DOMAIN f})
  <1>1. PICK S, T, g : S = DOMAIN f /\ T = {f[x] : x \in DOMAIN f} /\ g = [x \in S |-> f[x]]
    OBVIOUS
  <1>2. g \in Surjection(S, T)
    BY <1>1 DEF Surjection
  <1>. QED BY <1>1, <1>2, FS_Surjection

LEMMA LoadAllIs == ASSUME DiskInv PROVE IndexOK(LoadAll) /\ GraphOK(LoadAll)
  <1>1. PICK D : D = {m \in DOMAIN disk : disk[m] # None}
    OBVIOUS
  <1>2. IsFiniteSet(D)
    BY <1>1, FS_Subset DEF DiskInv
  <1>3. PICK f : f = [n \in D |-> Load(n)]
    OBVIOUS
  <1>4. LoadAll = {f[n] : n \in DOMAIN f} /\ DOMAIN f = D
    BY <1>1, <1>3 DEF LoadAll
  <1>5. IsFiniteSet(LoadAll)
    BY <1>2, <1>4, FiniteImage
  <1>6. \A n \in D : disk[n] # None /\ WellFormed(n, disk[n])
    BY <1>1 DEF DiskInv
  <1>7. \A c \in LoadAll : DocFile(c) /\ (c.kind # "memory" => \A ch \in ToSet(c.chunks) : ch.subject = None)
    BY <1>3, <1>4, <1>6, LoadIs
  <1>. QED BY <1>5, <1>7 DEF IndexOK, GraphOK, DocFile

-----------------------------------------------------------------------------
(* The graph.                                                                *)

NodesOK(N) == IsFiniteSet(N) /\ \A n \in N : n.chunk.subject = None

LEMMA GraphNodes == ASSUME NEW C, GraphOK(C) PROVE NodesOK(BuildGraph(C).nodes)
  <1>1. PICK D : D = {c \in C : c.kind # "memory"}
    OBVIOUS
  <1>2. IsFiniteSet(D)
    BY <1>1, FS_Subset DEF GraphOK
  <1>3. PICK f : f = [c \in D |-> {[collection |-> c.name, chunk |-> c.chunks[i]] : i \in DOMAIN c.chunks}]
    OBVIOUS
  <1>4. PICK U : U = {f[c] : c \in DOMAIN f}
    OBVIOUS
  <1>5. BuildGraph(C).nodes = UNION U
    <2>1. U = {{[collection |-> c.name, chunk |-> c.chunks[i]] : i \in DOMAIN c.chunks} : c \in D}
      BY <1>3, <1>4
    <2>. QED BY <1>1, <2>1 DEF BuildGraph
  <1>6. IsFiniteSet(U)
    BY <1>2, <1>3, <1>4, FiniteImage
  <1>7. ASSUME NEW c \in D PROVE IsFiniteSet(f[c])
    <2>1. c.chunks \in Seq(ToSet(c.chunks))
      BY <1>1 DEF GraphOK
    <2>2. PICK T, q : T = ToSet(c.chunks) /\ q = c.chunks
      OBVIOUS
    <2>3. IsFiniteSet(DOMAIN q)
      BY <2>1, <2>2, Indices
    <2>4. PICK g : g = [i \in DOMAIN q |-> [collection |-> c.name, chunk |-> q[i]]]
      OBVIOUS
    <2>5. f[c] = {g[i] : i \in DOMAIN g} /\ DOMAIN g = DOMAIN q
      BY <1>3, <2>2, <2>4
    <2>. QED BY <2>3, <2>5, FiniteImage
  <1>8. IsFiniteSet(UNION U)
    BY <1>3, <1>4, <1>6, <1>7, FS_UNION
  <1>9. ASSUME NEW n \in UNION U PROVE n.chunk.subject = None
    <2>1. PICK c \in D : n \in f[c]
      BY <1>3, <1>4
    <2>2. PICK i \in DOMAIN c.chunks : n = [collection |-> c.name, chunk |-> c.chunks[i]]
      BY <1>3, <2>1
    <2>3. n.chunk \in ToSet(c.chunks)
      BY <2>2 DEF ToSet
    <2>. QED BY <1>1, <2>3 DEF GraphOK
  <1>. QED BY <1>5, <1>8, <1>9 DEF NodesOK

LEMMA ExpandIn ==
    ASSUME NEW g, NEW seed \in g.nodes, NEW hops \in {1, 2}, NEW found \in Expand(g, {seed}, hops)
    PROVE  found \subseteq g.nodes
  <1>. DEFINE near(s) == {n \in g.nodes : \E m \in s : <<m, n>> \in g.edges}
              one == {seed} \cup near({seed})
              two == one \cup near(one)
  <1>1. PICK layers : layers = [h \in 1..3 |-> CASE h = 1 -> one [] h = 2 -> two [] OTHER -> two \cup near(two)]
    OBVIOUS
  <1>2. Max({1, Min({hops, 3})}) \in 1 .. 3
    <2>1. Min({hops, 3}) \in {1, 2}
      BY MinTwo
    <2>. QED BY <2>1, MaxTwo
  <1>3. PICK i \in 1 .. 3 : i = Max({1, Min({hops, 3})})
    BY <1>2
  <1>4. found \in SUBSET (layers[i] \ {seed})
    BY <1>1, <1>3 DEF Expand
  <1>5. layers[i] \subseteq g.nodes
    <2>1. one \subseteq g.nodes /\ two \subseteq g.nodes /\ near(two) \subseteq g.nodes
      OBVIOUS
    <2>. HIDE DEF near, one, two
    <2>2. layers[i] \in {one, two, two \cup near(two)}
      BY <1>1
    <2>. QED BY <2>1, <2>2
  <1>. QED BY <1>4, <1>5

-----------------------------------------------------------------------------
(* Answers.                                                                  *)

(* Documents found by a search: none is a memory, one embedder at most.       *)
LEMMA OneEmbedder ==
    ASSUME NEW e, NEW docs, Hits(docs, e)
    PROVE  /\ \A i \in DOMAIN docs : docs[i].chunk.subject = None
           /\ Cardinality({docs[i].chunk.vec.by : i \in {j \in DOMAIN docs : docs[j].chunk.vec # None}}) <= 1
  <1>1. \A i \in DOMAIN docs : docs[i].chunk.subject = None /\ (docs[i].chunk.vec = None \/ docs[i].chunk.vec.by = e)
    BY DEF Hits, DocChunk
  <1>2. PICK E : E = {docs[i].chunk.vec.by : i \in {j \in DOMAIN docs : docs[j].chunk.vec # None}}
    OBVIOUS
  <1>3. E \subseteq {e}
    BY <1>1, <1>2
  <1>4. IsFiniteSet({e}) /\ Cardinality({e}) = 1
    BY FS_Singleton
  <1>5. Cardinality(E) <= 1
    BY <1>3, <1>4, FS_Subset
  <1>. QED BY <1>1, <1>2, <1>5

(* Memories: MemoryOf is a list of hits whose rows are in S.                  *)
MemoryOf(m, S) == m \in Seq(ToSet(m)) /\ \A h \in ToSet(m) : h.row \in S

LEMMA MemoryOfSeq ==
    ASSUME NEW T, NEW m \in Seq(T), NEW S, \A h \in T : h.row \in S PROVE MemoryOf(m, S)
  <1>1. m \in Seq(ToSet(m)) /\ ToSet(m) \subseteq T
    BY SeqSelf
  <1>. QED BY <1>1 DEF MemoryOf

LEMMA ListedRows ==
    ASSUME NEW S, IsFiniteSet(S) PROVE MemoryOf(Listed({MemoryHit(x, 0) : x \in S}), S)
  <1>1. PICK f : f = [x \in S |-> MemoryHit(x, 0)]
    OBVIOUS
  <1>2. PICK T : T = {f[x] : x \in DOMAIN f}
    OBVIOUS
  <1>3. T = {MemoryHit(x, 0) : x \in S} /\ IsFiniteSet(T)
    <2>1. IsFiniteSet(DOMAIN f)
      BY <1>1
    <2>. QED BY <1>1, <1>2, <2>1, FiniteImage
  <1>4. \A h \in T : h.row \in S
    BY <1>3 DEF MemoryHit
  <1>5. Listed(T) \in Seq(T)
    BY <1>3, ListedIn
  <1>. QED BY <1>3, <1>4, <1>5, MemoryOfSeq

LEMMA RelevantIn ==
    ASSUME NEW S, IsFiniteSet(S), NEW q, NEW len, NEW k \in Nat PROVE MemoryOf(Relevant(S, q, len, k), S)
  <1>1. PICK P : P = {x \in S : x.vec.len = len /\ Sim[q][x.id] >= DefaultThreshold}
    OBVIOUS
  <1>2. PICK f : f = [x \in P |-> MemoryHit(x, Sim[q][x.id] + x.importance \div 10)]
    OBVIOUS
  <1>3. PICK T : T = {f[x] : x \in DOMAIN f}
    OBVIOUS
  <1>4. T = {MemoryHit(x, Sim[q][x.id] + x.importance \div 10) : x \in P}
    BY <1>2, <1>3
  <1>5. IsFiniteSet(T)
    <2>1. IsFiniteSet(DOMAIN f)
      BY <1>1, <1>2, FS_Subset
    <2>. QED BY <1>3, <2>1, FiniteImage
  <1>6. \A h \in T : h.row \in S
    BY <1>1, <1>4 DEF MemoryHit
  <1>7. Take(Ranked(Listed(T)), k) \in Seq(T)
    BY <1>5, ListedIn, RankedIn, TakeIn
  <1>8. Relevant(S, q, len, k) = Take(Ranked(Listed(T)), k)
    BY <1>1, <1>4 DEF Relevant
  <1>. QED BY <1>6, <1>7, <1>8, MemoryOfSeq

LEMMA EmptyAnswer ==
    ASSUME NEW e PROVE /\ Hits(<<>>, e)
                       /\ \A S : MemoryOf(<<>>, S)
  <1>1. <<>> \in Seq(ToSet(<<>>)) /\ ToSet(<<>>) = {} /\ DOMAIN <<>> = {}
    BY DEF ToSet
  <1>. QED BY <1>1 DEF Hits, MemoryOf

LEMMA AnswerIs ==
    ASSUME NEW kind, NEW to, NEW docs, NEW mem, NEW by, NEW block, NEW S,
           MemoryOf(mem, S), \A x \in S : x.subject = to,
           kind = "prompt" => (\A x \in S : mem # <<>> => x.vec.by = by) /\ BlockOK(block),
           \A i \in DOMAIN docs : docs[i].chunk.subject = None,
           kind # "graph" => \E e : Hits(docs, e)
    PROVE  AnswerOK(Answer(kind, to, docs, mem, by, block))
  <1>1. PICK a : a = Answer(kind, to, docs, mem, by, block)
    OBVIOUS
  <1>2. /\ a.kind = kind /\ a.to = to /\ a.docs = docs /\ a.mem = mem /\ a.by = by /\ a.block = block
    BY <1>1 DEF Answer
  <1>3. \A i \in DOMAIN mem : mem[i] \in ToSet(mem) /\ mem[i].row \in S /\ mem # <<>>
    BY DEF MemoryOf, ToSet
  <1>4. kind # "graph" =>
          Cardinality({docs[i].chunk.vec.by : i \in {j \in DOMAIN docs : docs[j].chunk.vec # None}}) <= 1
    BY OneEmbedder
  <1>. QED BY <1>1, <1>2, <1>3, <1>4 DEF AnswerOK

-----------------------------------------------------------------------------
(* What a step leaves alone.                                                 *)

LEMMA DiskKept == ASSUME DiskInv, UNCHANGED disk PROVE DiskInv'
  BY DEF DiskInv

MetaKept == meta # None => meta' # None /\ meta'.id = meta.id /\ meta'.dim = meta.dim

LEMMA RowKept == ASSUME NEW x, RowOK(x), MetaKept PROVE RowOK(x)'
  BY DEF RowOK, Pinned, MetaKept

LEMMA RowsKept == ASSUME RowsInv, UNCHANGED rows, MetaKept PROVE RowsInv'
  BY RowKept DEF RowsInv

LEMMA SameMeta == ASSUME UNCHANGED meta PROVE MetaKept
  BY DEF MetaKept

(* A server that was not started keeps what it holds.                         *)
LEMMA ServerKept ==
    ASSUME ServerInv, TurnsInv, UNCHANGED <<srv, turns>>, proc'[Server].pc # "off" => proc[Server].pc # "off"
    PROVE  ServerInv' /\ TurnsInv'
  <1>1. ServerInv'
    BY DEF ServerInv
  <1>2. TurnsInv'
    BY DEF TurnsInv
  <1>. QED BY <1>1, <1>2

LEMMA IngestKept ==
    ASSUME IngestInv, UNCHANGED ing, \A i \in Ingesters : proc'[i].pc = "embed" => proc[i].pc = "embed"
    PROVE  IngestInv'
  BY DEF IngestInv

LEMMA SlotKept ==
    ASSUME NEW o, NEW x, SlotOK(o, x), MetaKept, Ready => Ready', srv'.convo = srv.convo,
           Writing(o, x) => mutex' = mutex /\ (x.pc = "pin" => meta' = meta)
    PROVE  SlotOK(o, x)'
  <1>1. CASE x = Idle
    BY <1>1 DEF SlotOK
  <1>2. CASE Ready /\ Writing(o, x)
    <2>1. /\ x.pc \in {"embed", "pin", "put"} /\ mutex' = o
          /\ x = [pc |-> x.pc, to |-> x.to, w |-> x.w, vec |-> [by |-> x.vec.by, len |-> x.vec.len]]
          /\ x.vec.by \in Embedders /\ x.w.size \in Nat
      BY <1>2 DEF Writing
    <2>2. x.pc = "pin" => meta' = None /\ x.vec.len \in Lengths[x.vec.by]
      BY <1>2 DEF Writing
    <2>3. x.pc = "put" => Pinned(x.vec.by, x.vec.len)'
      BY <1>2 DEF Writing, Pinned, MetaKept
    <2>4. Writing(o, x)'
      BY <2>1, <2>2, <2>3 DEF Writing
    <2>. QED BY <1>2, <2>4 DEF SlotOK
  <1>3. CASE Ready /\ Prompting(x)
    <2>1. Prompting(x)'
      BY <1>3, RowKept DEF Prompting
    <2>. QED BY <1>3, <2>1 DEF SlotOK
  <1>4. CASE Ready /\ Turning(x)
    <2>1. Turning(x)'
      BY <1>4 DEF Turning
    <2>. QED BY <1>4, <2>1 DEF SlotOK
  <1>. QED BY <1>1, <1>2, <1>3, <1>4 DEF SlotOK

LEMMA RequestKept ==
    ASSUME RequestInv, UNCHANGED <<req, mutex, meta>>, Ready => Ready', srv'.convo = srv.convo
    PROVE  RequestInv'
  <1>1. MetaKept
    BY SameMeta
  <1>2. ASSUME NEW r \in Slots PROVE SlotOK(r, req[r])'
    <2>1. PICK x : x = req[r] /\ x = req'[r]
      OBVIOUS
    <2>2. SlotOK(r, x)
      BY <2>1 DEF RequestInv
    <2>3. SlotOK(r, x)'
      BY <1>1, <2>2, SlotKept
    <2>. QED BY <2>1, <2>3
  <1>. QED BY <1>2 DEF RequestInv

LEMMA IdleKept ==
    ASSUME RequestInv, ~Ready, UNCHANGED req PROVE RequestInv'
  <1>1. \A r \in Slots : req'[r] = Idle
    BY DEF RequestInv, SlotOK
  <1>. QED BY <1>1 DEF RequestInv, SlotOK

(* One process moves.                                                         *)
LEMMA ProcSet ==
    ASSUME ProcInv, NEW p \in Procs, NEW x, proc' = [proc EXCEPT ![p] = x]
    PROVE  /\ proc'[p] = x /\ \A o \in Procs : o # p => proc'[o] = proc[o]
           /\ proc' = [o \in Procs |-> proc'[o]]
  <1>1. proc = [o \in Procs |-> proc[o]]
    BY DEF ProcInv
  <1>2. DOMAIN proc = Procs
    BY <1>1
  <1>3. proc' = [o \in Procs |-> IF o = p THEN x ELSE proc[o]]
    BY <1>2
  <1>. QED BY <1>3

LEMMA GotoIs ==
    ASSUME ProcInv, NEW p \in Procs, NEW s, Goto(p, s)
    PROVE  proc' = [proc EXCEPT ![p] = [pc |-> s, mig |-> proc[p].mig]]
  <1>1. proc[p] = [pc |-> proc[p].pc, mig |-> proc[p].mig]
    BY DEF ProcInv, ImportOK
  <1>2. [proc[p] EXCEPT !.pc = s] = [pc |-> s, mig |-> proc[p].mig]
    BY <1>1
  <1>3. proc' = [proc EXCEPT ![p] = [proc[p] EXCEPT !.pc = s]]
    BY DEF Goto
  <1>. QED BY <1>2, <1>3

LEMMA IsProc == Server \in Procs /\ \A i \in Ingesters : i \in Procs /\ i # Server
  BY NameAssumption DEF Procs, Server

LEMMA ImportKept ==
    ASSUME NEW x, ImportOK(x), MetaKept, disk'[MemoryCollectionName] = disk[MemoryCollectionName]
    PROVE  ImportOK(x)'
  BY DEF ImportOK, Pinned, MetaKept, LegacyChunk

LEMMA ProcStep ==
    ASSUME ProcInv, NEW p \in Procs, NEW x, proc' = [proc EXCEPT ![p] = x], MetaKept,
           disk'[MemoryCollectionName] = disk[MemoryCollectionName],
           ImportOK(x)', p = Server /\ x.pc = "ready" => meta' # None \/ disk[MemoryCollectionName] = None
    PROVE  ProcInv'
  <1>1. /\ proc'[p] = x /\ \A o \in Procs : o # p => proc'[o] = proc[o]
        /\ proc' = [o \in Procs |-> proc'[o]]
    BY ProcSet
  <1>2. ASSUME NEW o \in Procs, o # p PROVE ImportOK(proc[o])'
    <2>1. PICK y : y = proc[o] /\ y = proc'[o]
      BY <1>1, <1>2
    <2>2. ImportOK(y)
      BY <2>1 DEF ProcInv
    <2>3. ImportOK(y)'
      BY <2>2, ImportKept
    <2>. QED BY <2>1, <2>3
  <1>4. ImportOK(proc[p])'
    BY <1>1
  <1>3. proc'[Server].pc = "ready" => meta' # None \/ disk'[MemoryCollectionName] = None
    BY <1>1, IsProc DEF ProcInv, MetaKept
  <1>. QED BY <1>1, <1>2, <1>3, <1>4 DEF ProcInv

LEMMA ProcKept == ASSUME ProcInv, UNCHANGED <<proc, disk>>, MetaKept PROVE ProcInv'
  <1>1. ASSUME NEW o \in Procs PROVE ImportOK(proc[o])'
    <2>2. PICK y : y = proc[o] /\ y = proc'[o]
      OBVIOUS
    <2>3. ImportOK(y)'
      BY <2>2, ImportKept DEF ProcInv
    <2>. QED BY <2>2, <2>3
  <1>. QED BY <1>1 DEF ProcInv, MetaKept

(* A request that only reads.                                                 *)
LEMMA Quiet ==
    ASSUME RInv, UNCHANGED <<disk, rows, meta, turns, proc, srv, ing, req, mutex>> PROVE RInv'
  <1>1. MetaKept
    BY SameMeta
  <1>2. Ready => Ready'
    BY DEF Ready
  <1>3. DiskInv' /\ RowsInv' /\ ServerInv' /\ TurnsInv' /\ IngestInv' /\ RequestInv' /\ ProcInv'
    BY <1>1, <1>2, DiskKept, RowsKept, ServerKept, IngestKept, RequestKept, ProcKept DEF RInv
  <1>. QED BY <1>3 DEF RInv

(* One slot changes.                                                          *)
LEMMA SlotSet ==
    ASSUME RequestInv, NEW r \in Slots, NEW x, req' = [req EXCEPT ![r] = x], SlotOK(r, x)',
           MetaKept, Ready => Ready', srv'.convo = srv.convo,
           \A o \in Slots : o # r /\ Writing(o, req[o]) => mutex' = mutex /\ meta' = meta
    PROVE  RequestInv'
  <1>1. req = [o \in Slots |-> req[o]] /\ \A o \in Slots : SlotOK(o, req[o])
    BY DEF RequestInv
  <1>2. req' = [o \in Slots |-> IF o = r THEN x ELSE req[o]]
    BY <1>1
  <1>3. ASSUME NEW o \in Slots, o # r PROVE SlotOK(o, req[o])'
    <2>1. PICK y : y = req[o] /\ y = req'[o]
      BY <1>2, <1>3
    <2>2. SlotOK(o, y) /\ (Writing(o, y) => mutex' = mutex /\ (y.pc = "pin" => meta' = meta))
      BY <1>1, <1>3, <2>1
    <2>3. SlotOK(o, y)'
      BY <2>2, SlotKept
    <2>. QED BY <2>1, <2>3
  <1>4. SlotOK(r, req[r])'
    BY <1>2
  <1>. QED BY <1>2, <1>3, <1>4 DEF RequestInv

(* A request that leaves the processes, the files and what is pinned alone.   *)
LEMMA RestKept ==
    ASSUME RInv, UNCHANGED <<disk, proc, ing>>, MetaKept
    PROVE  DiskInv' /\ ProcInv' /\ IngestInv' /\ (Ready => Ready')
  <1>1. Ready => Ready'
    BY DEF Ready
  <1>. QED BY <1>1, DiskKept, ProcKept, IngestKept DEF RInv

-----------------------------------------------------------------------------
(* Starting, importing and stopping.                                         *)

LEMMA OnlyOne == ASSUME NEW S, Cardinality(S) = 1 PROVE (CHOOSE e \in S : TRUE) \in S
  <1>1. S # {}
    BY FS_EmptySet
  <1>. QED BY <1>1

LEMMA BuildIs == ASSUME NEW f \in Flags PROVE FlagsOK(buildRAG(f)) /\ (pickConvoEmbedder(f) # None => pickConvoEmbedder(f) \in Embedders)
  <1>1. /\ f = [embedders |-> f.embedders, memory |-> f.memory, ctx |-> f.ctx, pin |-> f.pin]
        /\ f.embedders \subseteq Embedders /\ f.ctx \in Int /\ f.pin \in Int
    BY FlagsAssumption
  <1>2. PICK n \in Int : n = Min({f.pin, 64})
    BY <1>1, MinTwo
  <1>3. buildRAG(f) = [f EXCEPT !.pin = n]
    BY <1>2 DEF buildRAG
  <1>4. buildRAG(f) = [embedders |-> f.embedders, memory |-> f.memory, ctx |-> f.ctx, pin |-> n]
    BY <1>1, <1>3
  <1>5. FlagsOK(buildRAG(f))
    BY <1>1, <1>4 DEF FlagsOK
  <1>6. ASSUME pickConvoEmbedder(f) # None PROVE pickConvoEmbedder(f) \in f.embedders
    BY <1>6, OnlyOne DEF pickConvoEmbedder
  <1>. QED BY <1>1, <1>5, <1>6

LEMMA ServerStartKeeps == ASSUME RInv, ServerStart PROVE RInv'
  <1>1. PICK f \in Flags, d \in OpenDim :
          srv' = [flags |-> buildRAG(f), index |-> LoadAll, graph |-> None,
                  convo |-> pickConvoEmbedder(f), dim |-> d]
    BY DEF ServerStart
  <1>2. /\ proc[Server].pc = "off" /\ Goto(Server, "count")
        /\ UNCHANGED <<disk, rows, meta, turns, ing, req, mutex>>
    BY DEF ServerStart, files, memory
  <1>3. ProcInv /\ DiskInv /\ RowsInv /\ IngestInv /\ RequestInv /\ TurnsInv /\ MetaKept
    BY <1>2, SameMeta DEF RInv
  <1>4. PICK x : x = [pc |-> "count", mig |-> proc[Server].mig]
    OBVIOUS
  <1>5. proc' = [proc EXCEPT ![Server] = x] /\ x.pc = "count" /\ x = [pc |-> x.pc, mig |-> x.mig]
    BY <1>2, <1>3, <1>4, GotoIs, IsProc
  <1>6. proc'[Server] = x /\ \A o \in Procs : o # Server => proc'[o] = proc[o]
    BY <1>3, <1>5, ProcSet, IsProc
  <1>7. DiskInv' /\ RowsInv'
    BY <1>2, <1>3, DiskKept, RowsKept
  <1>8. ProcInv'
    <2>1. ImportOK(x)'
      BY <1>5 DEF ImportOK
    <2>. QED BY <1>2, <1>3, <1>5, <2>1, ProcStep, IsProc
  <1>9. IngestInv'
    BY <1>2, <1>3, <1>6, IsProc, IngestKept
  <1>10. RequestInv'
    BY <1>2, <1>3, IdleKept DEF Ready
  <1>11. d \in Nat /\ \A t \in turns : t.len = d
    BY <1>3 DEF OpenDim, TurnsInv
  <1>12. TurnsInv'
    <2>1. srv'.dim = d
      BY <1>1
    <2>. QED BY <1>2, <1>3, <1>11, <2>1 DEF TurnsInv
  <1>13. ServerOK(srv')
    <2>1. FlagsOK(buildRAG(f)) /\ (pickConvoEmbedder(f) # None => pickConvoEmbedder(f) \in Embedders)
      BY BuildIs
    <2>2. IndexOK(LoadAll)
      BY <1>3, LoadAllIs
    <2>3. PICK s : s = srv'
      OBVIOUS
    <2>4. /\ s = [flags |-> s.flags, index |-> s.index, graph |-> s.graph, convo |-> s.convo, dim |-> s.dim]
          /\ s.flags = buildRAG(f) /\ s.index = LoadAll /\ s.graph = None /\ s.convo = pickConvoEmbedder(f) /\ s.dim = d
      BY <1>1, <2>3
    <2>5. ServerOK(s)
      BY <1>11, <2>1, <2>2, <2>4 DEF ServerOK
    <2>. QED BY <2>3, <2>5
  <1>14. ServerInv'
    BY <1>13 DEF ServerInv, ServerOK
  <1>. QED BY <1>7, <1>8, <1>9, <1>10, <1>12, <1>14 DEF RInv

(* A process p, not a ready server, moves and nothing else of the server or   *)
(* of the files does.                                                         *)
LEMMA MovesKeep ==
    ASSUME RInv, NEW p \in Procs, NEW x, proc' = [proc EXCEPT ![p] = x], MetaKept,
           UNCHANGED <<disk, srv, ing, turns, req, mutex>>, p = Server => ~Ready,
           p = Server => proc[Server].pc # "off", x.pc = "embed" => p = Server \/ proc[p].pc = "embed",
           meta = None /\ meta' # None => disk[MemoryCollectionName] # None,
           ImportOK(x)', p = Server /\ x.pc = "ready" => meta' # None \/ disk[MemoryCollectionName] = None
    PROVE  DiskInv' /\ ServerInv' /\ TurnsInv' /\ IngestInv' /\ ProcInv' /\ RequestInv'
  <1>1. ProcInv /\ DiskInv /\ ServerInv /\ IngestInv /\ RequestInv /\ TurnsInv
    BY DEF RInv
  <1>2. proc'[p] = x /\ \A o \in Procs : o # p => proc'[o] = proc[o]
    BY <1>1, ProcSet
  <1>3. DiskInv'
    BY <1>1, DiskKept
  <1>4. proc'[Server].pc # "off" => proc[Server].pc # "off"
    BY <1>2, IsProc
  <1>5. ServerInv' /\ TurnsInv'
    BY <1>1, <1>4, ServerKept
  <1>6. IngestInv'
    <2>1. \A i \in Ingesters : proc'[i].pc = "embed" => proc[i].pc = "embed"
      BY <1>2, IsProc
    <2>. QED BY <1>1, <2>1, IngestKept
  <1>7. ProcInv'
    BY <1>1, ProcStep
  <1>8. Ready => Ready'
    BY <1>2, IsProc DEF Ready
  <1>9. ASSUME NEW r \in Slots PROVE SlotOK(r, req[r])'
    <2>1. PICK y : y = req[r] /\ y = req'[r]
      OBVIOUS
    <2>2. SlotOK(r, y)
      BY <1>1, <2>1 DEF RequestInv
    <2>3. CASE y = Idle
      BY <2>1, <2>3 DEF SlotOK
    <2>4. CASE y # Idle
      <3>1. Ready
        BY <2>2, <2>4 DEF SlotOK
      <3>2. meta # None \/ disk[MemoryCollectionName] = None
        BY <1>1, <3>1 DEF ProcInv, Ready
      <3>3. Writing(r, y) => mutex' = mutex /\ (y.pc = "pin" => meta' = meta)
        BY <3>2 DEF Writing
      <3>4. SlotOK(r, y)'
        BY <1>8, <2>2, <3>3, SlotKept
      <3>. QED BY <2>1, <3>4
    <2>. QED BY <2>3, <2>4
  <1>10. RequestInv'
    BY <1>1, <1>9 DEF RequestInv
  <1>. QED BY <1>3, <1>5, <1>6, <1>7, <1>10

LEMMA MigrateCountKeeps == ASSUME RInv, NEW p \in Procs, MigrateCount(p) PROVE RInv'
  <1>1. PICK l : l = Load(MemoryCollectionName)
    OBVIOUS
  <1>2. PICK x : x = IF rows # {} \/ disk[MemoryCollectionName] = None THEN [pc |-> "ready", mig |-> <<>>]
                     ELSE [pc |-> "pin", mig |-> Only(l.chunks, {c \in ToSet(l.chunks) : c.subject # None})]
    OBVIOUS
  <1>3. /\ proc[p].pc = "count" /\ proc' = [proc EXCEPT ![p] = x]
        /\ UNCHANGED <<disk, rows, meta, turns, srv, ing, req, mutex>>
    BY <1>1, <1>2 DEF MigrateCount, files, memory
  <1>4. DiskInv /\ RowsInv /\ MetaKept
    BY <1>3, SameMeta DEF RInv
  <1>5. RowsInv'
    BY <1>3, <1>4, RowsKept
  <1>6. x = [pc |-> x.pc, mig |-> x.mig] /\ x.pc \in {"ready", "pin"}
    BY <1>2
  <1>7. x.pc = "ready" => meta' # None \/ disk[MemoryCollectionName] = None
    <2>1. x.pc = "ready" => rows # {} \/ disk[MemoryCollectionName] = None
      BY <1>2
    <2>. QED BY <1>3, <1>4, <2>1 DEF RowsInv, RowOK, Pinned
  <1>8. ASSUME x.pc = "pin"
        PROVE  /\ disk[MemoryCollectionName] # None
               /\ x.mig \in Seq(ToSet(x.mig)) /\ \A c \in ToSet(x.mig) : LegacyChunk(c)
    <2>1. PICK f : f = disk[MemoryCollectionName]
      OBVIOUS
    <2>2. f # None /\ x.mig = Only(l.chunks, {c \in ToSet(l.chunks) : c.subject # None})
      BY <1>2, <1>8, <2>1
    <2>3. WellFormed(MemoryCollectionName, f)
      BY <1>4, <2>1, <2>2 DEF DiskInv
    <2>4. l.chunks = f.chunks
      BY <1>1, <2>1, <2>2, <2>3, LoadIs
    <2>5. PICK T, S : T = ToSet(f.chunks) /\ S = {c \in T : c.subject # None}
      OBVIOUS
    <2>6. f.chunks \in Seq(T)
      BY <2>3, <2>5 DEF WellFormed
    <2>7. Only(f.chunks, S) \in Seq(S \cap T)
      BY <2>6, OnlyIn
    <2>8. x.mig \in Seq(ToSet(x.mig)) /\ ToSet(x.mig) \subseteq S \cap T
      <3>1. PICK U, z : U = S \cap T /\ z = x.mig
        OBVIOUS
      <3>2. z \in Seq(U)
        BY <2>2, <2>4, <2>5, <2>7, <3>1
      <3>3. z \in Seq(ToSet(z)) /\ ToSet(z) \subseteq U
        BY <3>2, SeqSelf
      <3>. QED BY <3>1, <3>3
    <2>9. \A c \in S : TextLen(c) \in Nat /\ c.vec = [by |-> f.embedder, len |-> f.dim]
      BY <2>3, <2>5 DEF WellFormed
    <2>10. \A c \in ToSet(x.mig) : LegacyChunk(c)
      BY <2>1, <2>8, <2>9 DEF LegacyChunk
    <2>. QED BY <2>1, <2>2, <2>8, <2>10
  <1>9. ImportOK(x)'
    BY <1>3, <1>6, <1>8 DEF ImportOK, LegacyChunk
  <1>10. p = Server => ~Ready /\ proc[Server].pc # "off"
    BY <1>3 DEF Ready
  <1>11. meta = None /\ meta' # None => disk[MemoryCollectionName] # None
    BY <1>3
  <1>12. x.pc # "embed"
    BY <1>6
  <1>13. DiskInv' /\ ServerInv' /\ TurnsInv' /\ IngestInv' /\ ProcInv' /\ RequestInv'
    BY <1>3, <1>4, <1>7, <1>9, <1>10, <1>11, <1>12, MovesKeep
  <1>. QED BY <1>5, <1>13 DEF RInv

LEMMA MigratePinKeeps == ASSUME RInv, NEW p \in Procs, MigratePin(p) PROVE RInv'
  <1>1. PICK f : f = disk[MemoryCollectionName]
    OBVIOUS
  <1>2. proc[p].pc = "pin" /\ ImportOK(proc[p]) /\ ProcInv /\ RowsInv /\ DiskInv
    BY DEF MigratePin, RInv, ProcInv
  <1>3. f # None
    BY <1>1, <1>2 DEF ImportOK
  <1>4. WellFormed(MemoryCollectionName, f) /\ None # [id |-> f.embedder, dim |-> f.dim]
    BY <1>1, <1>2, <1>3 DEF DiskInv
  <1>5. PICK l : l = Load(MemoryCollectionName)
    OBVIOUS
  <1>6. l.embedder = f.embedder /\ l.dim = f.dim
    BY <1>1, <1>3, <1>4, <1>5, LoadIs
  <1>7. UNCHANGED <<disk, rows, turns, srv, ing, req, mutex>>
    BY DEF MigratePin, files
  <1>8. p = Server => ~Ready /\ proc[Server].pc # "off"
    BY <1>2 DEF Ready
  <1>9. PICK s : s = IF ~Agrees(f.embedder, f.dim) THEN "ready" ELSE "import"
    OBVIOUS
  <1>10. PICK x : x = [pc |-> s, mig |-> proc[p].mig]
    OBVIOUS
  <1>11. proc' = [proc EXCEPT ![p] = x]
    <2>1. Goto(p, s)
      BY <1>5, <1>6, <1>9 DEF MigratePin
    <2>. QED BY <1>2, <1>10, <2>1, GotoIs
  <1>12. x.pc = s /\ x.mig = proc[p].mig /\ x = [pc |-> x.pc, mig |-> x.mig]
    BY <1>10
  <1>13. CASE ~Agrees(f.embedder, f.dim)
    <2>1. UNCHANGED meta /\ meta # None /\ s = "ready"
      BY <1>5, <1>6, <1>9, <1>13 DEF MigratePin, Agrees
    <2>2. MetaKept /\ RowsInv'
      BY <1>2, <1>7, <2>1, SameMeta, RowsKept
    <2>3. ImportOK(x)'
      BY <1>12, <2>1 DEF ImportOK
    <2>4. x.pc # "embed" /\ meta' # None
      BY <1>12, <2>1
    <2>5. DiskInv' /\ ServerInv' /\ TurnsInv' /\ IngestInv' /\ ProcInv' /\ RequestInv'
      BY <1>7, <1>8, <1>11, <2>1, <2>2, <2>3, <2>4, MovesKeep
    <2>. QED BY <2>2, <2>5 DEF RInv
  <1>14. CASE Agrees(f.embedder, f.dim)
    <2>1. meta' = [id |-> f.embedder, dim |-> f.dim] /\ s = "import"
      BY <1>5, <1>6, <1>9, <1>14 DEF MigratePin
    <2>2. meta' # None /\ meta'.id = f.embedder /\ meta'.dim = f.dim
      BY <1>4, <2>1
    <2>3. MetaKept
      BY <1>14, <2>2 DEF MetaKept, Agrees
    <2>4. RowsInv'
      BY <1>2, <1>7, <2>3, RowsKept
    <2>5. ImportOK(x)'
      <3>1. /\ x.mig \in Seq(ToSet(x.mig)) /\ \A c \in ToSet(x.mig) : LegacyChunk(c)
        BY <1>2, <1>12 DEF ImportOK
      <3>. QED BY <1>1, <1>3, <1>7, <1>12, <2>2, <3>1 DEF ImportOK, LegacyChunk, Pinned
    <2>6. x.pc # "embed" /\ x.pc # "ready" /\ disk[MemoryCollectionName] # None
      BY <1>1, <1>3, <1>12, <2>1
    <2>7. DiskInv' /\ ServerInv' /\ TurnsInv' /\ IngestInv' /\ ProcInv' /\ RequestInv'
      BY <1>7, <1>8, <1>11, <2>3, <2>5, <2>6, MovesKeep
    <2>. QED BY <2>4, <2>7 DEF RInv
  <1>. QED BY <1>13, <1>14

LEMMA MigratePutKeeps == ASSUME RInv, NEW p \in Procs, MigratePut(p) PROVE RInv'
  <1>1. proc[p].pc = "import" /\ ImportOK(proc[p]) /\ ProcInv /\ RowsInv /\ DiskInv
    BY DEF MigratePut, RInv, ProcInv
  <1>2. UNCHANGED <<disk, meta, turns, srv, ing, req, mutex>> /\ MetaKept
    BY SameMeta DEF MigratePut, files
  <1>3. p = Server => ~Ready /\ proc[Server].pc # "off"
    BY <1>1 DEF Ready
  <1>4. PICK m, f : m = proc[p].mig /\ f = disk[MemoryCollectionName]
    OBVIOUS
  <1>5. /\ m \in Seq(ToSet(m)) /\ \A c \in ToSet(m) : LegacyChunk(c)
        /\ Pinned(f.embedder, f.dim) /\ f # None
    BY <1>1, <1>4 DEF ImportOK
  <1>6. CASE m = <<>>
    <2>1. Goto(p, "ready") /\ UNCHANGED rows
      BY <1>4, <1>6 DEF MigratePut
    <2>2. PICK x : x = [pc |-> "ready", mig |-> proc[p].mig]
      OBVIOUS
    <2>3. proc' = [proc EXCEPT ![p] = x] /\ x.pc = "ready" /\ x = [pc |-> x.pc, mig |-> x.mig]
      BY <1>1, <2>1, <2>2, GotoIs
    <2>4. ImportOK(x)' /\ meta' # None
      BY <1>2, <1>5, <2>3 DEF ImportOK, Pinned
    <2>5. RowsInv'
      BY <1>1, <1>2, <2>1, RowsKept
    <2>6. x.pc # "embed"
      BY <2>3
    <2>7. meta = None /\ meta' # None => disk[MemoryCollectionName] # None
      BY <1>2
    <2>8. DiskInv' /\ ServerInv' /\ TurnsInv' /\ IngestInv' /\ ProcInv' /\ RequestInv'
      BY <1>2, <1>3, <2>3, <2>4, <2>6, <2>7, MovesKeep
    <2>. QED BY <2>5, <2>8 DEF RInv
  <1>7. CASE m # <<>>
    <2>1. PICK c : c = Head(m)
      OBVIOUS
    <2>2. PICK y : y = Row(c.body[1].par, c.subject, c.vec, TextLen(c), 0)
      OBVIOUS
    <2>3. rows' = {r \in rows : r.id # c.body[1].par} \cup {y}
      BY <1>4, <1>7, <2>1, <2>2 DEF MigratePut
    <2>4. proc' = [proc EXCEPT ![p].mig = Tail(m)]
      BY <1>4, <1>7 DEF MigratePut
    <2>5. PICK x : x = [pc |-> "import", mig |-> Tail(m)]
      OBVIOUS
    <2>6. proc' = [proc EXCEPT ![p] = x]
      <3>1. proc[p] = [pc |-> "import", mig |-> m]
        BY <1>1, <1>4 DEF ImportOK
      <3>2. [proc[p] EXCEPT !.mig = Tail(m)] = x
        <4>1. PICK t : t = Tail(m)
          OBVIOUS
        <4>2. [proc[p] EXCEPT !.mig = t] = [pc |-> "import", mig |-> t]
          BY <3>1
        <4>. QED BY <2>5, <4>1, <4>2
      <3>3. proc' = [proc EXCEPT ![p] = [proc[p] EXCEPT !.mig = Tail(m)]]
        BY <2>4
      <3>. QED BY <3>2, <3>3
    <2>7. c \in ToSet(m) /\ Tail(m) \in Seq(ToSet(m))
      BY <1>5, <1>7, <2>1, HeadTailProperties
    <2>8. LegacyChunk(c) /\ y.vec = c.vec /\ y.size = TextLen(c)
      BY <1>5, <2>2, <2>7 DEF Row
    <2>9. RowOK(y)
      BY <1>4, <1>5, <2>8 DEF LegacyChunk, RowOK, Pinned
    <2>10. RowsInv'
      <3>1. \A r \in rows' : RowOK(r)
        BY <1>1, <2>3, <2>9 DEF RowsInv
      <3>2. IsFiniteSet({r \in rows : r.id # c.body[1].par})
        BY <1>1, FS_Subset DEF RowsInv
      <3>3. IsFiniteSet(rows')
        BY <2>3, <3>2, FS_AddElement
      <3>4. \A r \in rows' : RowOK(r)'
        BY <1>2, <3>1, RowKept
      <3>. QED BY <3>3, <3>4 DEF RowsInv
    <2>11. /\ x.pc = "import" /\ x.mig = Tail(m) /\ x = [pc |-> x.pc, mig |-> x.mig]
           /\ x.mig \in Seq(ToSet(x.mig)) /\ \A d \in ToSet(x.mig) : LegacyChunk(d)
      <3>1. Tail(m) \in Seq(ToSet(Tail(m))) /\ ToSet(Tail(m)) \subseteq ToSet(m)
        BY <2>7, SeqSelf
      <3>2. x.pc = "import" /\ x.mig = Tail(m) /\ x = [pc |-> x.pc, mig |-> x.mig]
        BY <2>5
      <3>. QED BY <1>5, <3>1, <3>2
    <2>12. ImportOK(x)'
      BY <1>2, <1>4, <1>5, <2>11 DEF ImportOK, Pinned, LegacyChunk
    <2>13. x.pc # "embed" /\ x.pc # "ready" /\ (meta = None /\ meta' # None => disk[MemoryCollectionName] # None)
      BY <1>2, <2>11
    <2>14. DiskInv' /\ ServerInv' /\ TurnsInv' /\ IngestInv' /\ ProcInv' /\ RequestInv'
      BY <1>2, <1>3, <2>6, <2>12, <2>13, MovesKeep
    <2>. QED BY <2>10, <2>14 DEF RInv
  <1>. QED BY <1>6, <1>7

LEMMA CrashKeeps == ASSUME RInv, NEW p \in Procs, Crash(p) PROVE RInv'
  <1>1. PICK x : x = [pc |-> "off", mig |-> <<>>]
    OBVIOUS
  <1>2. /\ proc[p].pc # "off" /\ proc' = [proc EXCEPT ![p] = x]
        /\ UNCHANGED <<disk, rows, meta, turns>> /\ MetaKept
    BY <1>1, SameMeta DEF Crash, files, memory
  <1>3. x.pc = "off" /\ x = [pc |-> x.pc, mig |-> x.mig]
    BY <1>1
  <1>4. ImportOK(x)'
    BY <1>3 DEF ImportOK
  <1>5. DiskInv /\ ServerInv /\ RowsInv /\ ProcInv /\ IngestInv /\ RequestInv /\ TurnsInv
    BY DEF RInv
  <1>6. proc'[p] = x /\ \A o \in Procs : o # p => proc'[o] = proc[o]
    BY <1>2, <1>5, ProcSet
  <1>7. ProcInv'
    BY <1>2, <1>3, <1>4, <1>5, ProcStep
  <1>8. DiskInv' /\ RowsInv'
    BY <1>2, <1>5, DiskKept, RowsKept
  <1>9. CASE p = Server
    <2>1. req' = [r \in Slots |-> Idle] /\ UNCHANGED ing
      BY <1>9 DEF Crash
    <2>2. proc'[Server].pc = "off"
      BY <1>3, <1>6, <1>9
    <2>3. ServerInv' /\ TurnsInv'
      BY <1>2, <1>5, <2>2 DEF ServerInv, TurnsInv
    <2>4. IngestInv'
      BY <1>5, <1>6, <1>9, <2>1, IsProc, IngestKept
    <2>5. RequestInv'
      BY <2>1 DEF RequestInv, SlotOK
    <2>. QED BY <1>7, <1>8, <2>3, <2>4, <2>5 DEF RInv
  <1>10. CASE p # Server
    <2>1. ing' = [ing EXCEPT ![p] = None] /\ UNCHANGED <<srv, req, mutex>>
      BY <1>10 DEF Crash
    <2>2. proc'[Server] = proc[Server]
      BY <1>6, <1>10, IsProc
    <2>3. ServerInv' /\ TurnsInv'
      BY <1>2, <1>5, <2>1, <2>2, ServerKept
    <2>4. Ready => Ready'
      BY <2>2 DEF Ready
    <2>5. RequestInv'
      BY <1>2, <1>5, <2>1, <2>4, RequestKept
    <2>6. IngestInv'
      <3>1. ing = [i \in Ingesters |-> ing[i]]
        BY <1>5 DEF IngestInv
      <3>2. ing' = [i \in Ingesters |-> IF i = p THEN None ELSE ing[i]]
        BY <2>1, <3>1
      <3>3. ASSUME NEW i \in Ingesters, proc'[i].pc = "embed" PROVE ing'[i].name \in DocNames /\ ing'[i].tree \in Trees
        <4>1. i # p /\ proc'[i] = proc[i]
          BY <1>3, <1>6, <3>3, IsProc
        <4>. QED BY <1>5, <3>2, <3>3, <4>1 DEF IngestInv
      <3>. QED BY <3>2, <3>3 DEF IngestInv
    <2>. QED BY <1>7, <1>8, <2>3, <2>5, <2>6 DEF RInv
  <1>. QED BY <1>9, <1>10

-----------------------------------------------------------------------------
(* Ingesting.                                                                *)

LEMMA IngesterMoves ==
    ASSUME RInv, NEW i \in Ingesters, NEW s, Goto(i, s), s \notin {"pin", "import"},
           NEW y, ing' = [ing EXCEPT ![i] = y], s = "embed" => y.name \in DocNames /\ y.tree \in Trees,
           UNCHANGED <<rows, meta, turns, srv, req, mutex>>,
           disk'[MemoryCollectionName] = disk[MemoryCollectionName]
    PROVE  ServerInv' /\ RowsInv' /\ ProcInv' /\ IngestInv' /\ RequestInv' /\ TurnsInv'
  <1>1. ProcInv /\ ServerInv /\ RowsInv /\ IngestInv /\ RequestInv /\ TurnsInv /\ MetaKept
    BY SameMeta DEF RInv
  <1>2. PICK x : x = [pc |-> s, mig |-> proc[i].mig]
    OBVIOUS
  <1>3. proc' = [proc EXCEPT ![i] = x] /\ x.pc = s /\ x = [pc |-> x.pc, mig |-> x.mig]
    BY <1>1, <1>2, IsProc, GotoIs
  <1>4. proc'[i] = x /\ \A o \in Procs : o # i => proc'[o] = proc[o]
    BY <1>1, <1>3, ProcSet, IsProc
  <1>5. ImportOK(x)'
    BY <1>3 DEF ImportOK
  <1>6. ProcInv'
    BY <1>1, <1>3, <1>5, ProcStep, IsProc
  <1>7. RowsInv'
    BY <1>1, RowsKept
  <1>8. proc'[Server] = proc[Server]
    BY <1>4, IsProc
  <1>9. ServerInv' /\ TurnsInv'
    BY <1>1, <1>8, ServerKept
  <1>10. RequestInv'
    <2>1. Ready => Ready'
      BY <1>8 DEF Ready
    <2>. QED BY <1>1, <2>1, RequestKept
  <1>11. IngestInv'
    <2>1. ing = [j \in Ingesters |-> ing[j]]
      BY <1>1 DEF IngestInv
    <2>2. ing' = [j \in Ingesters |-> IF j = i THEN y ELSE ing[j]]
      BY <2>1
    <2>3. ASSUME NEW j \in Ingesters, proc'[j].pc = "embed" PROVE ing'[j].name \in DocNames /\ ing'[j].tree \in Trees
      <3>1. CASE j = i
        BY <1>3, <1>4, <2>2, <2>3, <3>1
      <3>2. CASE j # i
        BY <1>1, <1>4, <2>2, <2>3, <3>2, IsProc DEF IngestInv
      <3>. QED BY <3>1, <3>2
    <2>. QED BY <2>2, <2>3 DEF IngestInv
  <1>. QED BY <1>6, <1>7, <1>9, <1>10, <1>11

LEMMA IngestStartKeeps == ASSUME RInv, NEW i \in Ingesters, IngestStart(i) PROVE RInv'
  <1>1. PICK e \in IngestBy : ing' = [ing EXCEPT ![i] = [by |-> e]]
    BY DEF IngestStart
  <1>2. Goto(i, "count") /\ UNCHANGED <<disk, rows, meta, turns, srv, req, mutex>>
    BY DEF IngestStart, files, memory
  <1>3. PICK s, y : s = "count" /\ y = [by |-> e]
    OBVIOUS
  <1>4. ServerInv' /\ RowsInv' /\ ProcInv' /\ IngestInv' /\ RequestInv' /\ TurnsInv'
    <2>1. s \notin {"pin", "import"} /\ s # "embed" /\ Goto(i, s) /\ ing' = [ing EXCEPT ![i] = y]
      BY <1>1, <1>2, <1>3
    <2>. QED BY <1>2, <2>1, IngesterMoves
  <1>. QED BY <1>2, <1>4, DiskKept DEF RInv

LEMMA IngestReadKeeps == ASSUME RInv, NEW i \in Ingesters, IngestRead(i) PROVE RInv'
  <1>1. UNCHANGED <<disk, rows, meta, turns, srv, req, mutex>>
    BY DEF IngestRead, files, memory
  <1>2. PICK name \in DocNames, tree \in Trees :
          LET existing == Load(name)
          IN IF IngestRefuses(i, existing)
             THEN Goto(i, "off") /\ ing' = [ing EXCEPT ![i] = None]
             ELSE /\ Goto(i, "embed")
                  /\ ing' = [ing EXCEPT ![i] = [by |-> ing[i].by, name |-> name, tree |-> tree,
                                                dim |-> IF existing = None THEN 0 ELSE existing.dim]]
    BY DEF IngestRead
  <1>3. PICK e : e = Load(name)
    OBVIOUS
  <1>4. CASE IngestRefuses(i, e)
    <2>1. Goto(i, "off") /\ ing' = [ing EXCEPT ![i] = None]
      BY <1>2, <1>3, <1>4
    <2>2. ServerInv' /\ RowsInv' /\ ProcInv' /\ IngestInv' /\ RequestInv' /\ TurnsInv'
      <3>1. PICK s, y : s = "off" /\ y = None
        OBVIOUS
      <3>2. s \notin {"pin", "import"} /\ s # "embed" /\ Goto(i, s) /\ ing' = [ing EXCEPT ![i] = y]
        BY <2>1, <3>1
      <3>. QED BY <1>1, <3>2, IngesterMoves
    <2>. QED BY <1>1, <2>2, DiskKept DEF RInv
  <1>5. CASE ~IngestRefuses(i, e)
    <2>1. PICK y : y = [by |-> ing[i].by, name |-> name, tree |-> tree, dim |-> IF e = None THEN 0 ELSE e.dim]
      OBVIOUS
    <2>2. Goto(i, "embed") /\ ing' = [ing EXCEPT ![i] = y]
      BY <1>2, <1>3, <1>5, <2>1
    <2>3. y.name \in DocNames /\ y.tree \in Trees
      BY <2>1
    <2>4. ServerInv' /\ RowsInv' /\ ProcInv' /\ IngestInv' /\ RequestInv' /\ TurnsInv'
      BY <1>1, <2>2, <2>3, IngesterMoves
    <2>. QED BY <1>1, <2>4, DiskKept DEF RInv
  <1>. QED BY <1>4, <1>5

LEMMA FileWritten ==
    ASSUME NEW name, NEW e, NEW d, NEW tree \in Trees, NEW len, NEW f,
           f = [name |-> name, kind |-> "docs", embedder |-> e, dim |-> d, chunks |-> Chunked(tree, e, len)]
    PROVE  WellFormed(name, f) /\ f.name = name
  <1>1. PICK c : c = Chunked(tree, e, len)
    OBVIOUS
  <1>2. c \in Seq(ToSet(c)) /\ \A i \in DOMAIN c : DocChunk(c[i], e)
    BY <1>1, ChunkedIs
  <1>3. /\ f = [name |-> name, kind |-> f.kind, embedder |-> f.embedder, dim |-> f.dim, chunks |-> f.chunks]
        /\ f.chunks = c /\ f.embedder = e /\ f.name = name
    BY <1>1
  <1>4. \A x \in ToSet(c) : DocChunk(x, e)
    BY <1>2 DEF ToSet
  <1>. QED BY <1>2, <1>3, <1>4 DEF WellFormed, DocChunk

LEMMA IngestKeeps == ASSUME RInv, NEW i \in Ingesters, Ingest(i) PROVE RInv'
  <1>1. /\ proc[i].pc = "embed" /\ Goto(i, "off") /\ ing' = [ing EXCEPT ![i] = None]
        /\ UNCHANGED <<rows, meta, turns, srv, req, mutex>>
    BY DEF Ingest, memory
  <1>2. ing[i].name \in DocNames /\ ing[i].tree \in Trees
    BY <1>1 DEF RInv, IngestInv
  <1>3. UNCHANGED disk \/ \E len, d :
          Save([name |-> ing[i].name, kind |-> "docs", embedder |-> ing[i].by,
                dim |-> d, chunks |-> Chunked(ing[i].tree, ing[i].by, len)])
    BY DEF Ingest
  <1>4. DiskInv
    BY DEF RInv
  <1>5. DiskInv' /\ disk'[MemoryCollectionName] = disk[MemoryCollectionName]
    <2>1. CASE UNCHANGED disk
      BY <1>4, <2>1, DiskKept
    <2>2. CASE \E len, d : Save([name |-> ing[i].name, kind |-> "docs", embedder |-> ing[i].by,
                                 dim |-> d, chunks |-> Chunked(ing[i].tree, ing[i].by, len)])
      <3>1. PICK len, d : Save([name |-> ing[i].name, kind |-> "docs", embedder |-> ing[i].by,
                                dim |-> d, chunks |-> Chunked(ing[i].tree, ing[i].by, len)])
        BY <2>2
      <3>2. PICK n, t, e : n = ing[i].name /\ t = ing[i].tree /\ e = ing[i].by
        OBVIOUS
      <3>3. PICK f : f = [name |-> n, kind |-> "docs", embedder |-> e, dim |-> d, chunks |-> Chunked(t, e, len)]
        OBVIOUS
      <3>4. WellFormed(n, f) /\ f.name = n /\ n \in DocNames
        BY <1>2, <3>2, <3>3, FileWritten
      <3>5. disk' = [disk EXCEPT ![n] = f]
        BY <3>1, <3>2, <3>3, <3>4 DEF Save
      <3>6. DOMAIN disk' = DOMAIN disk /\ \A m \in DOMAIN disk : disk'[m] = IF m = n THEN f ELSE disk[m]
        BY <3>5
      <3>7. MemoryCollectionName \in DOMAIN disk /\ MemoryCollectionName # n
        BY <1>4, <3>4, NameAssumption DEF DiskInv
      <3>8. disk'[MemoryCollectionName] = disk[MemoryCollectionName]
        BY <3>6, <3>7
      <3>9. \A m \in DOMAIN disk' : disk'[m] # None => WellFormed(m, disk'[m])
        BY <1>4, <3>4, <3>6 DEF DiskInv
      <3>10. DiskInv'
        BY <1>4, <3>6, <3>8, <3>9 DEF DiskInv
      <3>. QED BY <3>8, <3>10
    <2>. QED BY <1>3, <2>1, <2>2
  <1>6. ServerInv' /\ RowsInv' /\ ProcInv' /\ IngestInv' /\ RequestInv' /\ TurnsInv'
    <2>1. PICK s, y : s = "off" /\ y = None
      OBVIOUS
    <2>2. s \notin {"pin", "import"} /\ s # "embed" /\ Goto(i, s) /\ ing' = [ing EXCEPT ![i] = y]
      BY <1>1, <2>1
    <2>. QED BY <1>1, <1>5, <2>2, IngesterMoves
  <1>. QED BY <1>5, <1>6 DEF RInv

-----------------------------------------------------------------------------
(* Profile memory.                                                           *)

LEMMA PickIs ==
    ASSUME FlagsOK(srv.flags)
    PROVE  /\ pickAnyEmbedder # None => pickAnyEmbedder \in Embedders
           /\ meta # None /\ pickAnyEmbedder # None => pickAnyEmbedder = meta.id
  <1>1. PICK f : f = srv.flags
    OBVIOUS
  <1>2. f.embedders \subseteq Embedders
    BY <1>1 DEF FlagsOK
  <1>3. CASE meta # None
    <2>1. pickAnyEmbedder # None => pickAnyEmbedder = meta.id /\ meta.id \in f.embedders
      BY <1>1, <1>3 DEF pickAnyEmbedder
    <2>. QED BY <1>2, <1>3, <2>1
  <1>4. CASE meta = None
    <2>1. pickAnyEmbedder # None => pickAnyEmbedder \in f.embedders
      BY <1>1, <1>4, OnlyOne DEF pickAnyEmbedder
    <2>. QED BY <1>2, <1>4, <2>1
  <1>. QED BY <1>3, <1>4

LEMMA ReadyServer == ASSUME RInv, Ready PROVE ServerOK(srv) /\ FlagsOK(srv.flags)
  BY DEF RInv, ServerInv, Ready, ServerOK

(* A slot that is writing is the one that holds the mutex.                    *)
LEMMA WritingIs ==
    ASSUME RInv, NEW r \in Slots, req[r].pc \in {"embed", "pin", "put"}
    PROVE  Ready /\ Writing(r, req[r]) /\ mutex = r /\ \A o \in Slots : o # r => ~Writing(o, req[o])
  <1>1. SlotOK(r, req[r])
    BY DEF RInv, RequestInv
  <1>2. Ready /\ Writing(r, req[r])
    BY <1>1 DEF SlotOK, Idle, Prompting, Turning
  <1>3. mutex = r
    BY <1>2 DEF Writing
  <1>4. \A o \in Slots : o # r => ~Writing(o, req[o])
    BY <1>3 DEF Writing
  <1>. QED BY <1>2, <1>3, <1>4

LEMMA RememberKeeps ==
    ASSUME RInv, NEW r \in Slots, NEW p, NEW w, w.size \in Nat, Remember(r, p, w) PROVE RInv'
  <1>1. /\ Ready /\ mutex = None /\ pickAnyEmbedder # None /\ mutex' = r
        /\ UNCHANGED <<disk, rows, meta, turns, proc, srv, ing>> /\ MetaKept
    BY SameMeta DEF Remember, Accept, files, memory
  <1>2. PICK e : e = pickAnyEmbedder
    OBVIOUS
  <1>3. e \in Embedders
    BY <1>1, <1>2, ReadyServer, PickIs
  <1>4. PICK x : x = [pc |-> "embed", to |-> p, w |-> w, vec |-> [by |-> e, len |-> 0]]
    OBVIOUS
  <1>5. req' = [req EXCEPT ![r] = x]
    BY <1>2, <1>4 DEF Remember
  <1>6. /\ x = [pc |-> x.pc, to |-> x.to, w |-> x.w, vec |-> [by |-> x.vec.by, len |-> x.vec.len]]
        /\ x.pc = "embed" /\ x.w = w /\ x.vec.by = e
    BY <1>4
  <1>7. SlotOK(r, x)'
    <2>1. Writing(r, x)'
      BY <1>1, <1>3, <1>6 DEF Writing
    <2>. QED BY <1>1, <2>1 DEF SlotOK, Ready
  <1>8. DiskInv' /\ ProcInv' /\ IngestInv' /\ (Ready => Ready')
    BY <1>1, RestKept
  <1>9. \A o \in Slots : ~Writing(o, req[o])
    BY <1>1, NameAssumption DEF Writing
  <1>10. RequestInv'
    BY <1>1, <1>5, <1>7, <1>8, <1>9, SlotSet DEF RInv
  <1>11. RowsInv' /\ ServerInv' /\ TurnsInv'
    BY <1>1, RowsKept, ServerKept DEF RInv
  <1>. QED BY <1>8, <1>10, <1>11 DEF RInv

LEMMA SlotFreed ==
    ASSUME RequestInv, NEW r \in Slots, req' = [req EXCEPT ![r] = Idle],
           MetaKept, Ready => Ready', srv'.convo = srv.convo,
           \A o \in Slots : o # r /\ Writing(o, req[o]) => mutex' = mutex /\ meta' = meta
    PROVE  RequestInv'
  <1>1. PICK x : x = Idle
    OBVIOUS
  <1>2. SlotOK(r, x)' /\ req' = [req EXCEPT ![r] = x]
    BY <1>1 DEF SlotOK, Idle
  <1>. QED BY <1>2, SlotSet

LEMMA ReleaseKeeps ==
    ASSUME RInv, NEW r \in Slots, req[r].pc \in {"embed", "pin", "put"}, Release(r), UNCHANGED <<disk, meta, turns, proc, srv, ing>>
    PROVE  DiskInv' /\ ServerInv' /\ ProcInv' /\ IngestInv' /\ RequestInv' /\ TurnsInv'
  <1>1. MetaKept
    BY SameMeta
  <1>2. \A o \in Slots : o # r => ~Writing(o, req[o])
    BY WritingIs
  <1>3. DiskInv' /\ ProcInv' /\ IngestInv' /\ (Ready => Ready')
    BY <1>1, RestKept
  <1>4. ServerInv' /\ TurnsInv'
    BY ServerKept DEF RInv
  <1>5. req' = [req EXCEPT ![r] = Idle] /\ RequestInv
    BY DEF Release, RInv
  <1>6. RequestInv'
    BY <1>1, <1>2, <1>3, <1>5, SlotFreed
  <1>. QED BY <1>3, <1>4, <1>6

LEMMA RememberEmbedKeeps == ASSUME RInv, NEW r \in Slots, RememberEmbed(r) PROVE RInv'
  <1>1. /\ req[r].pc = "embed" /\ UNCHANGED <<disk, rows, meta, turns, proc, srv, ing>> /\ MetaKept
    BY SameMeta DEF RememberEmbed, files, memory
  <1>2. Ready /\ Writing(r, req[r]) /\ mutex = r /\ \A o \in Slots : o # r => ~Writing(o, req[o])
    BY <1>1, WritingIs
  <1>3. PICK len \in Lengths[req[r].vec.by] :
          IF Agrees(req[r].vec.by, len)
          THEN /\ req' = [req EXCEPT ![r].pc = IF meta = None THEN "pin" ELSE "put", ![r].vec.len = len]
               /\ UNCHANGED mutex
          ELSE Release(r)
    BY DEF RememberEmbed
  <1>4. RowsInv'
    BY <1>1, RowsKept DEF RInv
  <1>5. CASE ~Agrees(req[r].vec.by, len)
    <2>1. Release(r) /\ req[r].pc \in {"embed", "pin", "put"}
      BY <1>1, <1>3, <1>5
    <2>2. DiskInv' /\ ServerInv' /\ ProcInv' /\ IngestInv' /\ RequestInv' /\ TurnsInv'
      BY <1>1, <2>1, ReleaseKeeps
    <2>. QED BY <1>4, <2>2 DEF RInv
  <1>6. CASE Agrees(req[r].vec.by, len)
    <2>1. PICK y, s : y = req[r] /\ s = IF meta = None THEN "pin" ELSE "put"
      OBVIOUS
    <2>2. PICK x : x = [pc |-> s, to |-> y.to, w |-> y.w, vec |-> [by |-> y.vec.by, len |-> len]]
      OBVIOUS
    <2>3. /\ y = [pc |-> y.pc, to |-> y.to, w |-> y.w, vec |-> [by |-> y.vec.by, len |-> y.vec.len]]
          /\ y.vec.by \in Embedders /\ y.w.size \in Nat
      BY <1>2, <2>1 DEF Writing
    <2>4. req' = [req EXCEPT ![r] = x]
      <3>1. [y EXCEPT !.pc = s, !.vec.len = len] = x
        <4>1. PICK a : a = [by |-> y.vec.by, len |-> len]
          OBVIOUS
        <4>2. [y.vec EXCEPT !.len = len] = a
          <5>1. y.vec = [by |-> y.vec.by, len |-> y.vec.len]
            BY <2>3
          <5>. QED BY <4>1, <5>1
        <4>3. PICK z : z = [y EXCEPT !.pc = s]
          OBVIOUS
        <4>4. z = [pc |-> s, to |-> y.to, w |-> y.w, vec |-> y.vec]
          BY <2>3, <4>3
        <4>5. [y EXCEPT !.pc = s, !.vec.len = len] = [z EXCEPT !.vec = [z.vec EXCEPT !.len = len]]
          BY <4>3
        <4>6. z.vec = y.vec
          BY <4>4
        <4>7. [z EXCEPT !.vec = a] = [pc |-> s, to |-> y.to, w |-> y.w, vec |-> a]
          BY <4>4
        <4>. QED BY <2>2, <4>1, <4>2, <4>5, <4>6, <4>7
      <3>2. req = [o \in Slots |-> req[o]]
        BY DEF RInv, RequestInv
      <3>3. req' = [req EXCEPT ![r] = [y EXCEPT !.pc = s, !.vec.len = len]]
        BY <1>3, <1>6, <2>1, <3>2
      <3>. QED BY <3>1, <3>3
    <2>5. /\ x = [pc |-> x.pc, to |-> x.to, w |-> x.w, vec |-> [by |-> x.vec.by, len |-> x.vec.len]]
          /\ x.pc = s /\ x.w = y.w /\ x.vec.by = y.vec.by /\ x.vec.len = len
      BY <2>2
    <2>6. s = "pin" => meta = None
      BY <2>1
    <2>7. s = "put" => Pinned(y.vec.by, len)
      BY <1>6, <2>1 DEF Agrees, Pinned
    <2>8. mutex' = mutex
      BY <1>3, <1>6
    <2>9. Writing(r, x)'
      <3>1. s \in {"pin", "put"}
        BY <2>1
      <3>2. len \in Lengths[x.vec.by]
        BY <1>3, <2>1, <2>5
      <3>. QED BY <1>1, <1>2, <2>3, <2>5, <2>6, <2>7, <2>8, <3>1, <3>2 DEF Writing, Pinned
    <2>10. DiskInv' /\ ProcInv' /\ IngestInv' /\ (Ready => Ready')
      BY <1>1, RestKept
    <2>11. SlotOK(r, x)'
      BY <1>2, <2>9, <2>10 DEF SlotOK
    <2>12. RequestInv'
      BY <1>1, <1>2, <2>4, <2>10, <2>11, SlotSet DEF RInv
    <2>13. ServerInv' /\ TurnsInv'
      BY <1>1, ServerKept DEF RInv
    <2>. QED BY <1>4, <2>10, <2>12, <2>13 DEF RInv
  <1>. QED BY <1>5, <1>6

LEMMA RememberPinKeeps == ASSUME RInv, NEW r \in Slots, RememberPin(r) PROVE RInv'
  <1>1. PICK y : y = req[r]
    OBVIOUS
  <1>2. /\ y.pc = "pin" /\ meta' = [id |-> y.vec.by, dim |-> y.vec.len]
        /\ req' = [req EXCEPT ![r].pc = "put"]
        /\ UNCHANGED <<disk, rows, turns, proc, srv, ing, mutex>>
    BY <1>1 DEF RememberPin, files
  <1>3. Ready /\ Writing(r, y) /\ mutex = r /\ \A o \in Slots : o # r => ~Writing(o, req[o])
    BY <1>1, <1>2, WritingIs
  <1>4. /\ meta = None /\ y.vec.by \in Embedders /\ y.vec.len \in Lengths[y.vec.by] /\ y.w.size \in Nat
        /\ y = [pc |-> y.pc, to |-> y.to, w |-> y.w, vec |-> [by |-> y.vec.by, len |-> y.vec.len]]
    BY <1>2, <1>3 DEF Writing
  <1>5. MetaKept /\ meta' # None /\ meta'.id = y.vec.by /\ meta'.dim = y.vec.len
    BY <1>2, <1>4, EmbedderAssumption DEF MetaKept
  <1>6. PICK x : x = [pc |-> "put", to |-> y.to, w |-> y.w, vec |-> [by |-> y.vec.by, len |-> y.vec.len]]
    OBVIOUS
  <1>7. req' = [req EXCEPT ![r] = x]
    <2>1. [y EXCEPT !.pc = "put"] = x
      BY <1>4, <1>6
    <2>2. req' = [req EXCEPT ![r] = [y EXCEPT !.pc = "put"]]
      BY <1>1, <1>2
    <2>. QED BY <2>1, <2>2
  <1>8. /\ x = [pc |-> x.pc, to |-> x.to, w |-> x.w, vec |-> [by |-> x.vec.by, len |-> x.vec.len]]
        /\ x.pc = "put" /\ x.w = y.w /\ x.vec.by = y.vec.by /\ x.vec.len = y.vec.len
    BY <1>6
  <1>9. Writing(r, x)'
    BY <1>2, <1>3, <1>4, <1>5, <1>8 DEF Writing, Pinned
  <1>10. DiskInv' /\ ProcInv' /\ IngestInv' /\ (Ready => Ready')
    BY <1>2, <1>5, RestKept
  <1>11. SlotOK(r, x)'
    BY <1>3, <1>9, <1>10 DEF SlotOK
  <1>12. RequestInv'
    BY <1>2, <1>3, <1>5, <1>7, <1>10, <1>11, SlotSet DEF RInv
  <1>13. ServerInv' /\ TurnsInv' /\ RowsInv'
    BY <1>2, <1>5, ServerKept, RowsKept DEF RInv
  <1>. QED BY <1>10, <1>12, <1>13 DEF RInv

LEMMA RememberPutKeeps == ASSUME RInv, NEW r \in Slots, RememberPut(r) PROVE RInv'
  <1>1. PICK y : y = req[r]
    OBVIOUS
  <1>2. /\ y.pc = "put" /\ Release(r) /\ UNCHANGED <<disk, meta, turns, proc, srv, ing>> /\ MetaKept
    BY <1>1, SameMeta DEF RememberPut, files
  <1>3. Writing(r, y)
    BY <1>1, <1>2, WritingIs
  <1>4. /\ Pinned(y.vec.by, y.vec.len) /\ y.w.size \in Nat
        /\ y = [pc |-> y.pc, to |-> y.to, w |-> y.w, vec |-> [by |-> y.vec.by, len |-> y.vec.len]]
    BY <1>2, <1>3 DEF Writing
  <1>5. y.vec = [by |-> y.vec.by, len |-> y.vec.len]
    BY <1>4
  <1>6. PICK id, importance : rows' = rows \cup {Row(id, y.to, y.vec, y.w.size, importance)}
    BY <1>1 DEF RememberPut
  <1>7. PICK x : x = Row(id, y.to, y.vec, y.w.size, importance)
    OBVIOUS
  <1>8. x.vec = y.vec /\ x.size = y.w.size
    BY <1>7 DEF Row
  <1>9. RowOK(x)
    BY <1>4, <1>5, <1>8 DEF RowOK
  <1>10. RowsInv'
    <2>1. RowsInv
      BY DEF RInv
    <2>2. \A z \in rows' : RowOK(z)
      BY <1>6, <1>7, <1>9, <2>1 DEF RowsInv
    <2>3. IsFiniteSet(rows')
      BY <1>6, <2>1, FS_AddElement DEF RowsInv
    <2>4. \A z \in rows' : RowOK(z)'
      BY <1>2, <2>2, RowKept
    <2>. QED BY <2>3, <2>4 DEF RowsInv
  <1>11. DiskInv' /\ ServerInv' /\ ProcInv' /\ IngestInv' /\ RequestInv' /\ TurnsInv'
    BY <1>1, <1>2, ReleaseKeeps
  <1>. QED BY <1>10, <1>11 DEF RInv

LEMMA RememberFailsKeeps == ASSUME RInv, NEW r \in Slots, RememberFails(r) PROVE RInv'
  <1>1. /\ req[r].pc \in {"embed", "pin", "put"} /\ Release(r)
        /\ UNCHANGED <<disk, rows, meta, turns, proc, srv, ing>> /\ MetaKept
    BY SameMeta DEF RememberFails, files, memory
  <1>2. DiskInv' /\ ServerInv' /\ ProcInv' /\ IngestInv' /\ RequestInv' /\ TurnsInv'
    BY <1>1, ReleaseKeeps
  <1>3. RowsInv'
    BY <1>1, RowsKept DEF RInv
  <1>. QED BY <1>2, <1>3 DEF RInv

LEMMA ForgetKeeps == ASSUME RInv, NEW p, NEW x, Forget(p, x) PROVE RInv'
  <1>1. rows' = rows \ {x} /\ UNCHANGED <<disk, meta, turns, proc, srv, ing, req, mutex>> /\ MetaKept
    BY SameMeta DEF Forget, files
  <1>2. RowsInv'
    <2>1. RowsInv
      BY DEF RInv
    <2>2. IsFiniteSet(rows')
      BY <1>1, <2>1, FS_Subset DEF RowsInv
    <2>3. \A z \in rows' : RowOK(z)'
      BY <1>1, <2>1, RowKept DEF RowsInv
    <2>. QED BY <2>2, <2>3 DEF RowsInv
  <1>3. DiskInv' /\ ProcInv' /\ IngestInv' /\ (Ready => Ready')
    BY <1>1, RestKept
  <1>4. ServerInv' /\ TurnsInv' /\ RequestInv'
    BY <1>1, <1>3, ServerKept, RequestKept DEF RInv
  <1>. QED BY <1>2, <1>3, <1>4 DEF RInv

-----------------------------------------------------------------------------
(* Prompts and conversation turns.                                           *)

LEMMA AugmentKeeps == ASSUME RInv, NEW r \in Slots, Augment(r) PROVE RInv'
  <1>1. Ready /\ UNCHANGED <<disk, rows, meta, turns, proc, srv, ing, mutex>> /\ MetaKept
    BY SameMeta DEF Augment, Accept, files, memory
  <1>2. PICK p \in Profiles, q \in Queries :
          req' = [req EXCEPT ![r] = [pc |-> "augment", to |-> p, q |-> q, cands |-> Candidates(p)]]
    BY DEF Augment
  <1>3. PICK x : x = [pc |-> "augment", to |-> p, q |-> q, cands |-> Candidates(p)]
    OBVIOUS
  <1>4. x.pc = "augment" /\ x.to = p /\ x.cands = {y \in rows : y.subject = p}
    BY <1>3 DEF Candidates
  <1>5. Prompting(x)
    <2>1. IsFiniteSet(x.cands)
      BY <1>4, FS_Subset DEF RInv, RowsInv
    <2>. QED BY <1>4, <2>1 DEF RInv, RowsInv, Prompting
  <1>6. DiskInv' /\ ProcInv' /\ IngestInv' /\ (Ready => Ready')
    BY <1>1, RestKept
  <1>7. SlotOK(r, x)'
    <2>1. Prompting(x)'
      BY <1>1, <1>5, RowKept DEF Prompting
    <2>. QED BY <1>1, <1>6, <2>1 DEF SlotOK
  <1>8. RequestInv'
    BY <1>1, <1>2, <1>3, <1>6, <1>7, SlotSet DEF RInv
  <1>9. ServerInv' /\ TurnsInv' /\ RowsInv'
    BY <1>1, ServerKept, RowsKept DEF RInv
  <1>. QED BY <1>6, <1>8, <1>9 DEF RInv

LEMMA AssembleKeeps == ASSUME RInv, NEW r \in Slots, AugmentAssemble(r) PROVE RInv'
  <1>1. /\ req' = [req EXCEPT ![r] = Idle] /\ UNCHANGED <<disk, rows, meta, turns, proc, srv, ing, mutex>> /\ MetaKept
    BY SameMeta DEF AugmentAssemble, files, memory
  <1>2. DiskInv' /\ ProcInv' /\ IngestInv' /\ (Ready => Ready')
    BY <1>1, RestKept
  <1>3. RequestInv'
    BY <1>1, <1>2, SlotFreed DEF RInv
  <1>4. ServerInv' /\ TurnsInv' /\ RowsInv'
    BY <1>1, ServerKept, RowsKept DEF RInv
  <1>. QED BY <1>2, <1>3, <1>4 DEF RInv

LEMMA RememberTurnKeeps == ASSUME RInv, NEW r \in Slots, rememberTurn(r) PROVE RInv'
  <1>1. Ready /\ srv.convo # None /\ UNCHANGED <<disk, rows, meta, turns, proc, srv, ing, mutex>> /\ MetaKept
    BY SameMeta DEF rememberTurn, Accept, files, memory
  <1>2. PICK p \in Profiles : req' = [req EXCEPT ![r] = [pc |-> "turn", to |-> p, left |-> <<"user", "assistant">>]]
    BY DEF rememberTurn
  <1>3. PICK x : x = [pc |-> "turn", to |-> p, left |-> <<"user", "assistant">>]
    OBVIOUS
  <1>4. x.pc = "turn" /\ x = [pc |-> x.pc, to |-> x.to, left |-> x.left]
    BY <1>3
  <1>5. DiskInv' /\ ProcInv' /\ IngestInv' /\ (Ready => Ready')
    BY <1>1, RestKept
  <1>6. SlotOK(r, x)'
    BY <1>1, <1>4, <1>5 DEF SlotOK, Turning
  <1>7. RequestInv'
    BY <1>1, <1>2, <1>3, <1>5, <1>6, SlotSet DEF RInv
  <1>8. ServerInv' /\ TurnsInv' /\ RowsInv'
    BY <1>1, ServerKept, RowsKept DEF RInv
  <1>. QED BY <1>5, <1>7, <1>8 DEF RInv

LEMMA TurningIs ==
    ASSUME RInv, NEW r \in Slots, req[r].pc = "turn" PROVE Ready /\ Turning(req[r])
  <1>1. SlotOK(r, req[r])
    BY DEF RInv, RequestInv
  <1>. QED BY <1>1 DEF SlotOK, Idle, Prompting, Writing

LEMMA NextRoleKeeps ==
    ASSUME RInv, NEW r \in Slots, req[r].pc = "turn", NextRole(r), srv'.convo = srv.convo,
           UNCHANGED <<disk, meta, proc, ing, mutex>>
    PROVE  DiskInv' /\ ProcInv' /\ IngestInv' /\ RequestInv'
  <1>1. MetaKept
    BY SameMeta
  <1>2. DiskInv' /\ ProcInv' /\ IngestInv' /\ (Ready => Ready')
    BY <1>1, RestKept
  <1>3. Ready /\ Turning(req[r])
    BY TurningIs
  <1>4. PICK y, t : y = req[r] /\ t = Tail(req[r].left)
    OBVIOUS
  <1>5. PICK x : x = IF Len(y.left) = 1 THEN Idle ELSE [y EXCEPT !.left = t]
    OBVIOUS
  <1>6. req' = [req EXCEPT ![r] = x]
    BY <1>4, <1>5 DEF NextRole
  <1>7. y = [pc |-> "turn", to |-> y.to, left |-> y.left]
    BY <1>3, <1>4 DEF Turning
  <1>8. [y EXCEPT !.left = t] = [pc |-> "turn", to |-> y.to, left |-> t]
    BY <1>7
  <1>9. x = Idle \/ (x.pc = "turn" /\ x = [pc |-> x.pc, to |-> x.to, left |-> x.left])
    BY <1>5, <1>8
  <1>10. SlotOK(r, x)'
    <2>1. CASE x = Idle
      BY <2>1 DEF SlotOK
    <2>2. CASE x.pc = "turn" /\ x = [pc |-> x.pc, to |-> x.to, left |-> x.left]
      <3>1. srv'.convo # None
        BY <1>3 DEF Turning
      <3>2. Turning(x)'
        BY <2>2, <3>1 DEF Turning
      <3>. QED BY <1>2, <1>3, <3>2 DEF SlotOK
    <2>. QED BY <1>9, <2>1, <2>2
  <1>11. RequestInv'
    BY <1>1, <1>2, <1>6, <1>10, SlotSet DEF RInv
  <1>. QED BY <1>2, <1>11

LEMMA AddKeeps == ASSUME RInv, NEW r \in Slots, Add(r) PROVE RInv'
  <1>1. req[r].pc = "turn" /\ NextRole(r) /\ UNCHANGED <<disk, rows, meta, proc, ing, mutex>> /\ MetaKept
    BY SameMeta DEF Add, files, memory
  <1>2. Ready /\ srv.convo # None /\ ServerOK(srv)
    BY <1>1, TurningIs, ReadyServer DEF Turning
  <1>3. PICK len \in Lengths[srv.convo], inserted \in BOOLEAN :
          /\ srv' = [srv EXCEPT !.dim = TurnDim(len)]
          /\ turns' = IF inserted /\ len = TurnDim(len)
                      THEN turns \cup {[subject |-> req[r].to, role |-> Head(req[r].left),
                                        by |-> srv.convo, len |-> len]}
                      ELSE turns
    BY <1>1 DEF Add
  <1>4. len \in Nat \ {0}
    BY <1>2, EmbedderAssumption DEF ServerOK
  <1>5. PICK d : d = TurnDim(len)
    OBVIOUS
  <1>6. srv.dim \in Nat /\ d = IF srv.dim = 0 THEN len ELSE srv.dim
    BY <1>2, <1>5 DEF TurnDim, ServerOK
  <1>7. d \in Nat
    BY <1>4, <1>6
  <1>8. PICK s : s = srv
    OBVIOUS
  <1>9. s = [flags |-> s.flags, index |-> s.index, graph |-> s.graph, convo |-> s.convo, dim |-> s.dim]
    BY <1>2, <1>8 DEF ServerOK
  <1>10. PICK z : z = [flags |-> s.flags, index |-> s.index, graph |-> s.graph, convo |-> s.convo, dim |-> d]
    OBVIOUS
  <1>11. srv' = z
    <2>1. [s EXCEPT !.dim = d] = z
      BY <1>9, <1>10
    <2>. QED BY <1>3, <1>5, <1>8, <2>1
  <1>12. /\ z = [flags |-> z.flags, index |-> z.index, graph |-> z.graph, convo |-> z.convo, dim |-> z.dim]
         /\ z.flags = s.flags /\ z.index = s.index /\ z.graph = s.graph /\ z.convo = s.convo /\ z.dim = d
    BY <1>10
  <1>13. ServerOK(z)
    BY <1>2, <1>7, <1>8, <1>12 DEF ServerOK
  <1>14. ServerInv'
    BY <1>11, <1>13 DEF ServerInv, ServerOK
  <1>15. DiskInv' /\ ProcInv' /\ IngestInv' /\ RequestInv'
    BY <1>1, <1>8, <1>11, <1>12, NextRoleKeeps
  <1>16. RowsInv'
    BY <1>1, RowsKept DEF RInv
  <1>17. TurnsInv'
    <2>1. /\ IsFiniteSet(turns) /\ \A t \in turns : t.len \in Nat \ {0} /\ t.len = srv.dim
      BY <1>2 DEF RInv, TurnsInv, Ready
    <2>2. \A t \in turns : t.len = d
      BY <1>6, <2>1
    <2>3. PICK y : y = [subject |-> req[r].to, role |-> Head(req[r].left), by |-> srv.convo, len |-> len]
      OBVIOUS
    <2>4. y.len = len /\ (turns' = turns \/ (turns' = turns \cup {y} /\ len = d))
      BY <1>3, <1>5, <2>3
    <2>5. IsFiniteSet(turns')
      BY <2>1, <2>4, FS_AddElement
    <2>6. \A t \in turns' : t.len = d /\ t.len \in Nat \ {0}
      BY <1>4, <2>1, <2>2, <2>4
    <2>7. srv'.dim = d
      BY <1>11, <1>12
    <2>. QED BY <2>5, <2>6, <2>7 DEF TurnsInv
  <1>. QED BY <1>14, <1>15, <1>16, <1>17 DEF RInv

LEMMA AddFailsKeeps == ASSUME RInv, NEW r \in Slots, AddFails(r) PROVE RInv'
  <1>1. req[r].pc = "turn" /\ NextRole(r) /\ UNCHANGED <<disk, rows, meta, turns, proc, srv, ing, mutex>> /\ MetaKept
    BY SameMeta DEF AddFails, files, memory
  <1>2. DiskInv' /\ ProcInv' /\ IngestInv' /\ RequestInv'
    BY <1>1, NextRoleKeeps
  <1>3. ServerInv' /\ TurnsInv' /\ RowsInv'
    BY <1>1, ServerKept, RowsKept DEF RInv
  <1>. QED BY <1>2, <1>3 DEF RInv

LEMMA GraphOf == ASSUME RInv, Ready PROVE GraphOK(graphIndex) /\ GraphOK(graphIndex \cup Builtin)
  <1>1. GraphOK(graphIndex)
    <2>1. GraphOK(LoadAll)
      BY LoadAllIs DEF RInv
    <2>2. srv.graph # None => GraphOK(srv.graph)
      BY ReadyServer DEF ServerOK
    <2>. QED BY <2>1, <2>2 DEF graphIndex
  <1>2. GraphOK(Builtin)
    BY BuiltinAssumption DEF GraphOK
  <1>3. PICK g, C : g = graphIndex /\ C = graphIndex \cup Builtin
    OBVIOUS
  <1>4. IsFiniteSet(C)
    BY <1>1, <1>2, <1>3, FS_Union DEF GraphOK
  <1>5. GraphOK(C)
    BY <1>1, <1>2, <1>3, <1>4 DEF GraphOK
  <1>. QED BY <1>1, <1>3, <1>5

LEMMA GraphExpandKeeps == ASSUME RInv, graphExpandExecute PROVE RInv'
  <1>1. /\ Ready /\ srv' = [srv EXCEPT !.graph = graphIndex]
        /\ UNCHANGED <<disk, rows, meta, turns, proc, ing, req, mutex>> /\ MetaKept
    BY SameMeta DEF graphExpandExecute, Accept, files, memory
  <1>2. ServerOK(srv) /\ GraphOK(graphIndex)
    BY <1>1, ReadyServer, GraphOf
  <1>3. PICK s, g : s = srv /\ g = graphIndex
    OBVIOUS
  <1>4. s = [flags |-> s.flags, index |-> s.index, graph |-> s.graph, convo |-> s.convo, dim |-> s.dim]
    BY <1>2, <1>3 DEF ServerOK
  <1>5. PICK z : z = [flags |-> s.flags, index |-> s.index, graph |-> g, convo |-> s.convo, dim |-> s.dim]
    OBVIOUS
  <1>6. srv' = z
    <2>1. [s EXCEPT !.graph = g] = z
      BY <1>4, <1>5
    <2>. QED BY <1>1, <1>3, <2>1
  <1>7. /\ z = [flags |-> z.flags, index |-> z.index, graph |-> z.graph, convo |-> z.convo, dim |-> z.dim]
        /\ z.flags = s.flags /\ z.index = s.index /\ z.graph = g /\ z.convo = s.convo /\ z.dim = s.dim
    BY <1>5
  <1>8. ServerOK(z)
    BY <1>2, <1>3, <1>7 DEF ServerOK
  <1>9. ServerInv'
    BY <1>6, <1>8 DEF ServerInv, ServerOK
  <1>10. DiskInv' /\ ProcInv' /\ IngestInv' /\ (Ready => Ready')
    BY <1>1, RestKept
  <1>11. srv'.convo = srv.convo /\ srv'.dim = srv.dim
    BY <1>3, <1>6, <1>7
  <1>12. RequestInv'
    BY <1>1, <1>10, <1>11, RequestKept DEF RInv
  <1>13. RowsInv'
    BY <1>1, RowsKept DEF RInv
  <1>14. TurnsInv'
    BY <1>1, <1>11 DEF RInv, TurnsInv
  <1>. QED BY <1>9, <1>10, <1>12, <1>13, <1>14 DEF RInv

-----------------------------------------------------------------------------
(* The steps that answer.                                                    *)

LEMMA SearchAnswers ==
    ASSUME RInv, NEW q, NEW k \in Int, NEW filter, SearchDocs(q, k, filter)
    PROVE  AnswerInv'
  <1>1. Ready
    BY DEF SearchDocs, Accept
  <1>2. IndexOK(srv.index) /\ srv.flags.pin \in Int
    BY <1>1, ReadyServer DEF ServerOK, FlagsOK
  <1>3. PICK len : resp' = Answer("search", None, Search(q, k, filter, len), <<>>, None, None)
    BY DEF SearchDocs
  <1>4. PICK docs : docs = Search(q, k, filter, len)
    OBVIOUS
  <1>5. PICK e : Hits(docs, e)
    BY <1>2, <1>4, SearchIn
  <1>6. \A i \in DOMAIN docs : docs[i].chunk.subject = None
    BY <1>5, OneEmbedder
  <1>7. MemoryOf(<<>>, {})
    BY EmptyAnswer
  <1>8. PICK a : a = Answer("search", None, docs, <<>>, None, None)
    OBVIOUS
  <1>9. AnswerOK(a)
    BY <1>5, <1>6, <1>7, <1>8, AnswerIs
  <1>10. resp' = a
    BY <1>3, <1>4, <1>8
  <1>. QED BY <1>9, <1>10 DEF AnswerInv, AnswerOK

LEMMA GraphAnswers == ASSUME RInv, graphExpandExecute PROVE AnswerInv'
  <1>1. Ready
    BY DEF graphExpandExecute, Accept
  <1>2. PICK g : g = BuildGraph(graphIndex \cup Builtin)
    OBVIOUS
  <1>3. NodesOK(g.nodes)
    BY <1>1, <1>2, GraphOf, GraphNodes
  <1>4. PICK seed \in g.nodes, hops \in {1, 2} : ExpandGraph(g, {seed}, hops)
    BY <1>2 DEF graphExpandExecute
  <1>5. PICK found \in Expand(g, {seed}, hops) :
          resp' = Answer("graph", None, Listed({Hit(n.collection, n.chunk, 0) : n \in found}), <<>>, None, None)
    BY <1>4 DEF ExpandGraph
  <1>6. found \subseteq g.nodes
    BY ExpandIn
  <1>7. IsFiniteSet(found) /\ \A n \in found : n.chunk.subject = None
    BY <1>3, <1>6, FS_Subset DEF NodesOK
  <1>8. PICK f : f = [n \in found |-> Hit(n.collection, n.chunk, 0)]
    OBVIOUS
  <1>9. PICK T : T = {f[n] : n \in DOMAIN f}
    OBVIOUS
  <1>10. IsFiniteSet(T)
    <2>1. IsFiniteSet(DOMAIN f)
      BY <1>7, <1>8
    <2>. QED BY <1>9, <2>1, FiniteImage
  <1>11. T = {Hit(n.collection, n.chunk, 0) : n \in found}
    BY <1>8, <1>9
  <1>12. \A h \in T : h.chunk.subject = None
    BY <1>7, <1>11 DEF Hit
  <1>13. PICK docs \in Seq(T) : docs = Listed(T)
    BY <1>10, ListedIn
  <1>14. \A i \in DOMAIN docs : docs[i].chunk.subject = None
    <2>1. \A i \in DOMAIN docs : docs[i] \in T
      BY <1>13
    <2>. QED BY <1>12, <2>1
  <1>15. MemoryOf(<<>>, {})
    BY EmptyAnswer
  <1>16. PICK a : a = Answer("graph", None, docs, <<>>, None, None)
    OBVIOUS
  <1>17. AnswerOK(a)
    BY <1>14, <1>15, <1>16, AnswerIs
  <1>18. resp' = a
    BY <1>5, <1>11, <1>13, <1>16
  <1>. QED BY <1>17, <1>18 DEF AnswerInv, AnswerOK

(* An answer that lists rows of one owner.                                    *)
LEMMA ListAnswers ==
    ASSUME NEW kind, kind # "prompt", NEW p, NEW S, IsFiniteSet(S), \A x \in S : x.subject = p,
           resp' = Answer(kind, p, <<>>, Listed({MemoryHit(x, 0) : x \in S}), None, None)
    PROVE  AnswerInv'
  <1>1. PICK m : m = Listed({MemoryHit(x, 0) : x \in S})
    OBVIOUS
  <1>2. MemoryOf(m, S)
    BY <1>1, ListedRows
  <1>3. Hits(<<>>, None) /\ \A i \in DOMAIN <<>> : <<>>[i].chunk.subject = None
    BY EmptyAnswer, OneEmbedder
  <1>4. PICK a : a = Answer(kind, p, <<>>, m, None, None)
    OBVIOUS
  <1>5. AnswerOK(a)
    BY <1>2, <1>3, <1>4, AnswerIs
  <1>6. resp' = a
    BY <1>1, <1>4
  <1>. QED BY <1>5, <1>6 DEF AnswerInv, AnswerOK

LEMMA MemoryAnswers == ASSUME RInv, NEW p, handleRAGMemory(p) PROVE AnswerInv'
  <1>1. PICK S : S = Candidates(p)
    OBVIOUS
  <1>2. IsFiniteSet(S) /\ \A x \in S : x.subject = p
    BY <1>1, FS_Subset DEF Candidates, RInv, RowsInv
  <1>3. resp' = Answer("list", p, <<>>, Listed({MemoryHit(x, 0) : x \in S}), None, None)
    BY <1>1 DEF handleRAGMemory, ListMemory
  <1>4. "list" # "prompt"
    OBVIOUS
  <1>. QED BY <1>2, <1>3, <1>4, ListAnswers

LEMMA RecallAnswers == ASSUME RInv, NEW p, recallConvo(p) PROVE AnswerInv'
  <1>1. PICK S : S = {u \in turns : u.subject = p /\ u.len = srv.dim}
    OBVIOUS
  <1>2. IsFiniteSet(S) /\ \A x \in S : x.subject = p
    BY <1>1, FS_Subset DEF RInv, TurnsInv
  <1>3. resp' = Answer("recall", p, <<>>, Listed({MemoryHit(x, 0) : x \in S}), None, None)
    BY <1>1 DEF recallConvo, Recall
  <1>4. "recall" # "prompt"
    OBVIOUS
  <1>. QED BY <1>2, <1>3, <1>4, ListAnswers

(* The memories of a prompt and the embedder of its query.                    *)
PromptMemory(cands, q, len) ==
    IF len = 0 THEN <<>> ELSE Relevant(cands, q, len, groundingBudget(0, srv.flags.pin).chunks)

PromptEmbedder(cands) == IF cands = {} THEN None ELSE pickAnyEmbedder

PromptWide ==
    IF srv.flags.ctx > 0 /\ srv.flags.pin = 0 THEN 24 ELSE groundingBudget(srv.flags.ctx, srv.flags.pin).chunks

LEMMA PromptingIs ==
    ASSUME RInv, NEW r \in Slots, req[r].pc = "augment" PROVE Ready /\ Prompting(req[r])
  <1>1. SlotOK(r, req[r])
    BY DEF RInv, RequestInv
  <1>. QED BY <1>1 DEF SlotOK, Idle, Turning, Writing

(* An answer to a prompt, assembled from what was found.                      *)
PromptAnswer(y, dlen, mlen, x) ==
    LET d == Search(y.q, PromptWide, <<>>, dlen)
        m == PromptMemory(y.cands, y.q, mlen)
    IN Answer("prompt", y.to, d, m, PromptEmbedder(y.cands),
              Assemble(d, m, x.library, x.web, groundingBudget(srv.flags.ctx, srv.flags.pin)))

LEMMA AssembleShape ==
    ASSUME NEW r \in Slots, AugmentAssemble(r)
    PROVE  \E dlen : \E mlen \in VectorLengths(PromptEmbedder(req[r].cands)), x \in Externals :
              resp' = PromptAnswer(req[r], dlen, mlen, x)
  <1>1. PICK y, b : y = req[r] /\ b = groundingBudget(srv.flags.ctx, srv.flags.pin)
    OBVIOUS
  <1>2. \E d \in {Search(y.q, PromptWide, <<>>, len) : len \in VectorLengths(QueryEmbedder(y.q, <<>>))},
           m \in {PromptMemory(y.cands, y.q, len) : len \in VectorLengths(PromptEmbedder(y.cands))}, x \in Externals :
          resp' = Answer("prompt", y.to, d, m, PromptEmbedder(y.cands), Assemble(d, m, x.library, x.web, b))
    BY <1>1, Zenon DEF AugmentAssemble, PromptWide, PromptEmbedder, PromptMemory
  <1>3. \E dlen : \E mlen \in VectorLengths(PromptEmbedder(y.cands)), x \in Externals :
          LET d == Search(y.q, PromptWide, <<>>, dlen)
              m == PromptMemory(y.cands, y.q, mlen)
          IN resp' = Answer("prompt", y.to, d, m, PromptEmbedder(y.cands), Assemble(d, m, x.library, x.web, b))
    BY <1>2, Zenon
  <1>. QED BY <1>1, <1>3, Zenon DEF PromptAnswer

LEMMA PromptIs ==
    ASSUME RInv, Ready, NEW y, Prompting(y), NEW dlen, NEW mlen \in VectorLengths(PromptEmbedder(y.cands)),
           NEW x \in Externals
    PROVE  AnswerOK(PromptAnswer(y, dlen, mlen, x))
  <1>1. IndexOK(srv.index) /\ srv.flags.pin \in Int /\ srv.flags.ctx \in Int /\ FlagsOK(srv.flags)
    BY ReadyServer DEF ServerOK, FlagsOK
  <1>2. PICK b : b = groundingBudget(srv.flags.ctx, srv.flags.pin)
    OBVIOUS
  <1>3. BudgetOK(b) /\ groundingBudget(0, srv.flags.pin).chunks \in Nat
    BY <1>1, <1>2, BudgetIs DEF BudgetOK
  <1>4. PromptWide \in Int
    BY <1>2, <1>3 DEF PromptWide, BudgetOK
  <1>5. PICK d, m, e : /\ d = Search(y.q, PromptWide, <<>>, dlen)
                       /\ m = PromptMemory(y.cands, y.q, mlen)
                       /\ e = PromptEmbedder(y.cands)
    OBVIOUS
  <1>6. PICK de : Hits(d, de)
    BY <1>1, <1>4, <1>5, SearchIn
  <1>7. \A i \in DOMAIN d : d[i].chunk.subject = None
    BY <1>6, OneEmbedder
  <1>8. PICK C, k : C = y.cands /\ k = groundingBudget(0, srv.flags.pin).chunks
    OBVIOUS
  <1>9. IsFiniteSet(C) /\ \A z \in C : z.subject = y.to /\ RowOK(z)
    BY <1>8 DEF Prompting
  <1>10. MemoryOf(m, C)
    <2>1. CASE mlen = 0
      BY <1>5, <2>1, EmptyAnswer DEF PromptMemory
    <2>2. CASE mlen # 0
      <3>1. m = Relevant(C, y.q, mlen, k)
        BY <1>5, <1>8, <2>2 DEF PromptMemory
      <3>2. k \in Nat
        BY <1>3, <1>8
      <3>. QED BY <1>9, <3>1, <3>2, RelevantIn
    <2>. QED BY <2>1, <2>2
  <1>11. ASSUME NEW z \in C, m # <<>> PROVE z.vec.by = e
    <2>1. mlen # 0
      BY <1>5, <1>11 DEF PromptMemory
    <2>2. e # None
      BY <1>5, <2>1 DEF VectorLengths
    <2>3. e = pickAnyEmbedder
      BY <1>5, <2>2 DEF PromptEmbedder
    <2>4. meta # None /\ meta.id = z.vec.by
      BY <1>9 DEF RowOK, Pinned
    <2>. QED BY <1>1, <2>2, <2>3, <2>4, PickIs
  <1>12. PICK blk : blk = Assemble(d, m, x.library, x.web, b)
    OBVIOUS
  <1>13. BlockOK(blk)
    <2>1. PICK R : R = ToSet(m)
      OBVIOUS
    <2>2. m \in Seq(R) /\ \A h \in R : h.row \in C
      BY <1>10, <2>1 DEF MemoryOf
    <2>3. \A h \in R : renderMemoryHit(h) \in Nat
      <3>1. \A h \in R : h.row.size \in Nat
        BY <1>9, <2>2 DEF RowOK
      <3>. QED BY <3>1 DEF renderMemoryHit, MemoryHeader
    <2>4. x.library \in Nat /\ x.web \in Seq(Nat)
      BY InputAssumption
    <2>. QED BY <1>3, <1>6, <1>12, <2>2, <2>3, <2>4, BlockIn
  <1>14. PICK a : a = Answer("prompt", y.to, d, m, e, blk)
    OBVIOUS
  <1>15. AnswerOK(a)
    BY <1>6, <1>7, <1>9, <1>10, <1>11, <1>13, <1>14, AnswerIs
  <1>16. a = PromptAnswer(y, dlen, mlen, x)
    BY <1>2, <1>5, <1>12, <1>14 DEF PromptAnswer
  <1>. QED BY <1>15, <1>16

LEMMA PromptAnswers == ASSUME RInv, NEW r \in Slots, AugmentAssemble(r) PROVE AnswerInv'
  <1>1. PICK y : y = req[r]
    OBVIOUS
  <1>2. Ready /\ Prompting(y)
    BY <1>1, PromptingIs DEF AugmentAssemble
  <1>3. PICK dlen : \E mlen \in VectorLengths(PromptEmbedder(y.cands)), x \in Externals :
                       resp' = PromptAnswer(y, dlen, mlen, x)
    BY <1>1, AssembleShape
  <1>4. PICK mlen \in VectorLengths(PromptEmbedder(y.cands)), x \in Externals :
           resp' = PromptAnswer(y, dlen, mlen, x)
    BY <1>3
  <1>5. PICK a : a = PromptAnswer(y, dlen, mlen, x)
    OBVIOUS
  <1>6. AnswerOK(a) /\ resp' = a
    BY <1>2, <1>4, <1>5, PromptIs
  <1>. QED BY <1>6 DEF AnswerInv, AnswerOK

-----------------------------------------------------------------------------
(* The invariant holds at the beginning and every step keeps it.             *)

LEMMA InitInv == Init => RInv /\ AnswerInv
  <1>. SUFFICES ASSUME Init PROVE RInv /\ AnswerInv
    OBVIOUS
  <1>1. DiskInv
    BY DisksAssumption DEF Init, DiskInv
  <1>2. \A p \in Procs : proc[p] = [pc |-> "off", mig |-> <<>>]
    BY DEF Init
  <1>3. \A p \in Procs : proc[p].pc = "off" /\ proc[p] = [pc |-> proc[p].pc, mig |-> proc[p].mig]
    BY <1>2
  <1>4. proc[Server].pc = "off" /\ \A i \in Ingesters : proc[i].pc = "off"
    BY <1>3, IsProc
  <1>5. ServerInv
    BY <1>4 DEF ServerInv
  <1>6. RowsInv
    BY FS_EmptySet DEF Init, RowsInv
  <1>7. ProcInv
    <2>1. proc = [p \in Procs |-> proc[p]]
      BY DEF Init
    <2>2. \A p \in Procs : ImportOK(proc[p])
      BY <1>3 DEF ImportOK
    <2>. QED BY <1>4, <2>1, <2>2 DEF ProcInv
  <1>8. IngestInv
    BY <1>4 DEF Init, IngestInv
  <1>9. RequestInv
    BY DEF Init, RequestInv, SlotOK
  <1>10. TurnsInv
    BY <1>4, FS_EmptySet DEF Init, TurnsInv
  <1>11. AnswerInv
    BY DEF Init, AnswerInv
  <1>. QED BY <1>1, <1>5, <1>6, <1>7, <1>8, <1>9, <1>10, <1>11 DEF RInv

LEMMA Unanswered == ASSUME resp' = None PROVE AnswerInv'
  BY DEF AnswerInv

(* A search changes nothing but the answer.                                   *)
LEMMA SearchKeeps == ASSUME RInv, NEW q, NEW k \in Int, NEW filter, SearchDocs(q, k, filter) PROVE RInv' /\ AnswerInv'
  <1>1. UNCHANGED <<disk, rows, meta, turns, proc, srv, ing, req, mutex>>
    BY DEF SearchDocs, files, memory
  <1>. QED BY <1>1, Quiet, SearchAnswers

LEMMA ProcessSteps ==
    ASSUME RInv, resp = None,
           \/ ServerStart
           \/ \E p \in Procs : MigrateCount(p) \/ MigratePin(p) \/ MigratePut(p) \/ Crash(p)
           \/ \E i \in Ingesters : IngestStart(i) \/ IngestRead(i) \/ Ingest(i)
    PROVE  RInv' /\ AnswerInv'
  <1>1. resp' = None
    <2>1. CASE ServerStart
      BY <2>1 DEF ServerStart
    <2>2. ASSUME NEW p \in Procs, MigrateCount(p) \/ MigratePin(p) \/ MigratePut(p) \/ Crash(p) PROVE resp' = None
      <3>1. CASE MigrateCount(p)
        BY <3>1 DEF MigrateCount
      <3>2. CASE MigratePin(p)
        BY <3>2 DEF MigratePin
      <3>3. CASE MigratePut(p)
        BY <3>3 DEF MigratePut
      <3>4. CASE Crash(p)
        BY <3>4 DEF Crash
      <3>. QED BY <2>2, <3>1, <3>2, <3>3, <3>4
    <2>3. ASSUME NEW i \in Ingesters, IngestStart(i) \/ IngestRead(i) \/ Ingest(i) PROVE resp' = None
      <3>1. CASE IngestStart(i)
        BY <3>1 DEF IngestStart
      <3>2. CASE IngestRead(i)
        BY <3>2 DEF IngestRead
      <3>3. CASE Ingest(i)
        BY <3>3 DEF Ingest
      <3>. QED BY <2>3, <3>1, <3>2, <3>3
    <2>. QED BY <2>1, <2>2, <2>3
  <1>2. RInv'
    BY ServerStartKeeps, MigrateCountKeeps, MigratePinKeeps, MigratePutKeeps, CrashKeeps,
       IngestStartKeeps, IngestReadKeeps, IngestKeeps
  <1>. QED BY <1>1, <1>2, Unanswered

LEMMA ReadingSteps ==
    ASSUME RInv, resp = None,
           \/ \E q \in Queries, f \in {<<>>, <<MemoryCollectionName>>} : handleRAGSearch(q, f) \/ ragSearchExecute(q, f)
           \/ graphExpandExecute
           \/ \E p \in Profiles : handleRAGForget(p) \/ handleRAGMemory(p) \/ recallConvo(p)
    PROVE  RInv' /\ AnswerInv'
  <1>1. CASE \E q \in Queries, f \in {<<>>, <<MemoryCollectionName>>} : handleRAGSearch(q, f) \/ ragSearchExecute(q, f)
    <2>1. PICK q, f, k : k \in Int /\ SearchDocs(q, k, f)
      BY <1>1 DEF handleRAGSearch, ragSearchExecute, defaultRAGSearchResults
    <2>. QED BY <2>1, SearchKeeps
  <1>2. CASE graphExpandExecute
    BY <1>2, GraphExpandKeeps, GraphAnswers
  <1>3. ASSUME NEW p \in Profiles, handleRAGForget(p) PROVE RInv' /\ AnswerInv'
    <2>1. PICK x : Forget(p, x)
      BY <1>3 DEF handleRAGForget
    <2>2. resp' = None
      BY <2>1 DEF Forget
    <2>. QED BY <2>1, <2>2, ForgetKeeps, Unanswered
  <1>4. ASSUME NEW p \in Profiles, handleRAGMemory(p) PROVE RInv' /\ AnswerInv'
    <2>1. UNCHANGED <<disk, rows, meta, turns, proc, srv, ing, req, mutex>>
      BY <1>4 DEF handleRAGMemory, files, memory
    <2>. QED BY <1>4, <2>1, Quiet, MemoryAnswers
  <1>5. ASSUME NEW p \in Profiles, recallConvo(p) PROVE RInv' /\ AnswerInv'
    <2>1. UNCHANGED <<disk, rows, meta, turns, proc, srv, ing, req, mutex>>
      BY <1>5 DEF recallConvo, files, memory
    <2>. QED BY <1>5, <2>1, Quiet, RecallAnswers
  <1>. QED BY <1>1, <1>2, <1>3, <1>4, <1>5

LEMMA WriteStarts ==
    ASSUME RInv, NEW r \in Slots, handleRAGRemember(r) \/ handleRAGCorrection(r)
    PROVE  RInv' /\ resp' = resp
  <1>1. PICK p, w : Remember(r, p, w) /\ w.size \in Nat
    <2>1. CASE handleRAGRemember(r)
      BY <2>1, InputAssumption DEF handleRAGRemember
    <2>2. CASE handleRAGCorrection(r)
      <3>1. PICK w : w = [kind |-> "correction", instruction |-> TRUE, size |-> 150, importance |-> 90]
        OBVIOUS
      <3>2. w.size \in Nat
        BY <3>1
      <3>3. \E p : Remember(r, p, w)
        BY <2>2, <3>1 DEF handleRAGCorrection
      <3>. QED BY <3>2, <3>3
    <2>. QED BY <2>1, <2>2
  <1>. QED BY <1>1, RememberKeeps DEF Remember

LEMMA RequestSteps ==
    ASSUME RInv, resp = None, NEW r \in Slots,
           \/ handleRAGRemember(r) \/ handleRAGCorrection(r) \/ RememberEmbed(r) \/ RememberPin(r)
           \/ RememberPut(r) \/ RememberFails(r) \/ Augment(r) \/ AugmentAssemble(r)
           \/ rememberTurn(r) \/ Add(r) \/ AddFails(r)
    PROVE  RInv' /\ AnswerInv'
  <1>1. CASE handleRAGRemember(r) \/ handleRAGCorrection(r)
    BY <1>1, WriteStarts, Unanswered
  <1>2. CASE RememberEmbed(r) \/ RememberPin(r) \/ RememberPut(r) \/ RememberFails(r)
    <2>1. resp' = None
      BY <1>2 DEF RememberEmbed, RememberPin, RememberPut, RememberFails
    <2>. QED BY <1>2, <2>1, RememberEmbedKeeps, RememberPinKeeps, RememberPutKeeps, RememberFailsKeeps, Unanswered
  <1>3. CASE AugmentAssemble(r)
    BY <1>3, AssembleKeeps, PromptAnswers
  <1>4. CASE Augment(r) \/ rememberTurn(r) \/ Add(r) \/ AddFails(r)
    <2>1. resp' = None
      BY <1>4 DEF Augment, rememberTurn, Add, AddFails
    <2>. QED BY <1>4, <2>1, AugmentKeeps, RememberTurnKeeps, AddKeeps, AddFailsKeeps, Unanswered
  <1>. QED BY <1>1, <1>2, <1>3, <1>4

LEMMA StepInv == RInv /\ AnswerInv /\ [Next]_vars => RInv' /\ AnswerInv'
  <1>. SUFFICES ASSUME RInv, AnswerInv, [Next]_vars PROVE RInv' /\ AnswerInv'
    OBVIOUS
  <1>1. CASE Deliver
    <2>1. resp' = None /\ UNCHANGED <<disk, rows, meta, turns, proc, srv, ing, req, mutex>>
      BY <1>1 DEF Deliver, files, memory
    <2>. QED BY <2>1, Quiet, Unanswered
  <1>2. CASE resp = None /\ Step
    BY <1>2, ProcessSteps, ReadingSteps, RequestSteps DEF Step
  <1>3. CASE UNCHANGED vars
    <2>1. resp' = resp /\ UNCHANGED <<disk, rows, meta, turns, proc, srv, ing, req, mutex>>
      BY <1>3 DEF vars
    <2>2. AnswerInv'
      BY <2>1 DEF AnswerInv, AnswerOK
    <2>. QED BY <2>1, <2>2, Quiet
  <1>. QED BY <1>1, <1>2, <1>3 DEF Next

-----------------------------------------------------------------------------
(* What a server holds, what a process is importing, every request in flight  *)
(* and every answer are as the programs of internal/rag leave them, for any   *)
(* collection files, embedders, flags, crashes and interleavings: the         *)
(* inductive invariant of the specification.                                  *)
THEOREM RetrievalKept == Spec => [](RInv /\ AnswerInv)
  <1>1. Init => RInv /\ AnswerInv
    BY InitInv
  <1>2. RInv /\ AnswerInv /\ [Next]_vars => (RInv /\ AnswerInv)'
    BY StepInv
  <1>. QED BY <1>1, <1>2, PTL DEF Spec

(* Search, graph, memory list, prompt and recall show a profile its own       *)
(* memories and no document answer shows any: Candidates filters by owner     *)
(* when the rows are read, and IndexSearch and BuildGraph leave out the       *)
(* legacy memory file that LoadAll puts into the index like any other.        *)
THEOREM PrivateMemoryKept == Spec => []PrivateMemory
  <1>1. RInv /\ AnswerInv => PrivateMemory
    BY DEF AnswerInv, AnswerOK, PrivateMemory
  <1>. QED BY <1>1, RetrievalKept, PTL

(* SetEmbedder and the mutex keep the memory table in the pinned space        *)
(* through imports by several processes, writes that fail between the pin and *)
(* the row, and restarts with other flags; Service.Augment embeds the memory  *)
(* query with the pinned embedder, and Index.Search compares a query only     *)
(* with collections of its embedder.                                          *)
THEOREM OneSpaceKept == Spec => []OneSpace
  <1>1. RInv /\ AnswerInv => OneSpace
    <2>. SUFFICES ASSUME RInv, AnswerInv PROVE OneSpace
      OBVIOUS
    <2>1. ASSUME NEW x \in rows PROVE meta # None /\ x.vec = [by |-> meta.id, len |-> meta.dim]
      BY DEF RInv, RowsInv, RowOK, Pinned
    <2>2. \A t, u \in turns : t.len = u.len
      BY DEF RInv, TurnsInv
    <2>3. resp # None =>
            /\ resp.kind = "prompt" => \A i \in DOMAIN resp.mem : resp.mem[i].row.vec.by = resp.by
            /\ resp.kind # "graph" =>
                 Cardinality({resp.docs[i].chunk.vec.by : i \in {j \in DOMAIN resp.docs : resp.docs[j].chunk.vec # None}}) <= 1
      BY DEF AnswerInv, AnswerOK
    <2>. QED BY <2>1, <2>2, <2>3 DEF OneSpace
  <1>. QED BY <1>1, RetrievalKept, PTL

(* assembleBlock never injects more than its budget, whatever the window, the *)
(* pin, the fragments, the memories and what the web answers, and a document  *)
(* that was found is in the block with some of its text: the budget is never  *)
(* too small for the first fragment's header and the truncation mark.         *)
THEOREM GroundingKept == Spec => []GroundingSurvives
  <1>1. RInv /\ AnswerInv => GroundingSurvives
    <2>. SUFFICES ASSUME AnswerInv PROVE GroundingSurvives
      OBVIOUS
    <2>1. resp # None /\ resp.kind = "prompt" => BlockOK(resp.block)
      BY DEF AnswerInv, AnswerOK
    <2>. QED BY <2>1, Zenon DEF BlockOK, GroundingSurvives
  <1>. QED BY <1>1, RetrievalKept, PTL

-----------------------------------------------------------------------------
(* The collection files.  Only Ingest replaces one, and it writes the chunks  *)
(* of the tree it read.                                                      *)

LEMMA IngestWritesTree ==
    ASSUME RInv, SnapshotWhole, NEW i \in Ingesters, Ingest(i)
    PROVE  SnapshotWhole'
  <1>1. proc[i].pc = "embed"
    BY DEF Ingest
  <1>2. ing[i].name \in DocNames /\ ing[i].tree \in Trees
    BY <1>1 DEF RInv, IngestInv
  <1>3. UNCHANGED disk \/ \E len, d :
          Save([name |-> ing[i].name, kind |-> "docs", embedder |-> ing[i].by,
                dim |-> d, chunks |-> Chunked(ing[i].tree, ing[i].by, len)])
    BY DEF Ingest
  <1>4. CASE UNCHANGED disk
    BY <1>4 DEF SnapshotWhole
  <1>5. CASE \E len, d : Save([name |-> ing[i].name, kind |-> "docs", embedder |-> ing[i].by,
                               dim |-> d, chunks |-> Chunked(ing[i].tree, ing[i].by, len)])
    <2>1. PICK len, d : Save([name |-> ing[i].name, kind |-> "docs", embedder |-> ing[i].by,
                              dim |-> d, chunks |-> Chunked(ing[i].tree, ing[i].by, len)])
      BY <1>5
    <2>2. PICK n, t, e : n = ing[i].name /\ t = ing[i].tree /\ e = ing[i].by
      OBVIOUS
    <2>3. PICK c : c = Chunked(t, e, len)
      OBVIOUS
    <2>4. PICK f : f = [name |-> n, kind |-> "docs", embedder |-> e, dim |-> d, chunks |-> c]
      OBVIOUS
    <2>5. f.name = n /\ f.chunks = c
      BY <2>4
    <2>6. disk' = [disk EXCEPT ![n] = f]
      BY <2>1, <2>2, <2>3, <2>4, <2>5 DEF Save
    <2>7. \A m \in DOMAIN disk : disk'[m] = IF m = n THEN f ELSE disk[m]
      BY <2>6
    <2>8. DocNames \subseteq DOMAIN disk
      BY DEF RInv, DiskInv
    <2>9. t \in Trees /\ Snapshot(c, t)
      BY <1>2, <2>2, <2>3, TreeWhole
    <2>10. ASSUME NEW m \in DocNames, disk'[m] # None PROVE \E tree \in Trees : Snapshot(disk'[m].chunks, tree)
      <3>1. CASE m = n
        <4>1. disk'[m].chunks = c
          BY <2>5, <2>7, <2>8, <3>1
        <4>. QED BY <2>9, <4>1
      <3>2. CASE m # n
        <4>1. disk'[m] = disk[m]
          BY <2>7, <2>8, <3>2
        <4>2. PICK tree \in Trees : Snapshot(disk[m].chunks, tree)
          BY <2>10, <4>1 DEF SnapshotWhole
        <4>. QED BY <4>1, <4>2
      <3>. QED BY <3>1, <3>2
    <2>. QED BY <2>10 DEF SnapshotWhole
  <1>. QED BY <1>3, <1>4, <1>5

LEMMA OnlyIngestWrites ==
    ASSUME [Next]_vars PROVE UNCHANGED disk \/ \E i \in Ingesters : Ingest(i)
  <1>1. CASE Deliver
    BY <1>1 DEF Deliver, files
  <1>2. CASE Step
    <2>1. CASE ServerStart
      BY <2>1 DEF ServerStart, files
    <2>2. ASSUME NEW p \in Procs, MigrateCount(p) \/ MigratePin(p) \/ MigratePut(p) \/ Crash(p) PROVE UNCHANGED disk
      <3>1. CASE MigrateCount(p)
        BY <3>1 DEF MigrateCount, files
      <3>2. CASE MigratePin(p)
        BY <3>2 DEF MigratePin, files
      <3>3. CASE MigratePut(p)
        BY <3>3 DEF MigratePut, files
      <3>4. CASE Crash(p)
        BY <3>4 DEF Crash, files
      <3>. QED BY <2>2, <3>1, <3>2, <3>3, <3>4
    <2>3. ASSUME NEW i \in Ingesters, IngestStart(i) \/ IngestRead(i) PROVE UNCHANGED disk
      <3>1. CASE IngestStart(i)
        BY <3>1 DEF IngestStart, files
      <3>2. CASE IngestRead(i)
        BY <3>2 DEF IngestRead, files
      <3>. QED BY <2>3, <3>1, <3>2
    <2>4. ASSUME NEW q \in Queries, NEW f \in {<<>>, <<MemoryCollectionName>>}, handleRAGSearch(q, f) \/ ragSearchExecute(q, f) PROVE UNCHANGED disk
      <3>1. CASE handleRAGSearch(q, f)
        BY <3>1 DEF handleRAGSearch, SearchDocs, files
      <3>2. CASE ragSearchExecute(q, f)
        BY <3>2 DEF ragSearchExecute, SearchDocs, files
      <3>. QED BY <2>4, <3>1, <3>2
    <2>5. CASE graphExpandExecute
      BY <2>5 DEF graphExpandExecute, files
    <2>6. ASSUME NEW p \in Profiles, handleRAGForget(p) \/ handleRAGMemory(p) \/ recallConvo(p) PROVE UNCHANGED disk
      <3>1. CASE handleRAGForget(p)
        BY <3>1 DEF handleRAGForget, Forget, files
      <3>2. CASE handleRAGMemory(p)
        BY <3>2 DEF handleRAGMemory, files
      <3>3. CASE recallConvo(p)
        BY <3>3 DEF recallConvo, files
      <3>. QED BY <2>6, <3>1, <3>2, <3>3
    <2>7. ASSUME NEW r \in Slots, handleRAGRemember(r) \/ handleRAGCorrection(r) \/ RememberEmbed(r) \/ RememberPin(r) \/ RememberPut(r) \/ RememberFails(r) PROVE UNCHANGED disk
      <3>1. CASE handleRAGRemember(r)
        BY <3>1 DEF handleRAGRemember, Remember, files
      <3>2. CASE handleRAGCorrection(r)
        BY <3>2 DEF handleRAGCorrection, Remember, files
      <3>3. CASE RememberEmbed(r)
        BY <3>3 DEF RememberEmbed, files
      <3>4. CASE RememberPin(r)
        BY <3>4 DEF RememberPin, files
      <3>5. CASE RememberPut(r)
        BY <3>5 DEF RememberPut, files
      <3>6. CASE RememberFails(r)
        BY <3>6 DEF RememberFails, files
      <3>. QED BY <2>7, <3>1, <3>2, <3>3, <3>4, <3>5, <3>6
    <2>8. ASSUME NEW r \in Slots, Augment(r) \/ AugmentAssemble(r) \/ rememberTurn(r) \/ Add(r) \/ AddFails(r) PROVE UNCHANGED disk
      <3>1. CASE Augment(r)
        BY <3>1 DEF Augment, files
      <3>2. CASE AugmentAssemble(r)
        BY <3>2 DEF AugmentAssemble, files
      <3>3. CASE rememberTurn(r)
        BY <3>3 DEF rememberTurn, files
      <3>4. CASE Add(r)
        BY <3>4 DEF Add, files
      <3>5. CASE AddFails(r)
        BY <3>5 DEF AddFails, files
      <3>. QED BY <2>8, <3>1, <3>2, <3>3, <3>4, <3>5
    <2>. QED BY <1>2, <2>1, <2>2, <2>3, <2>4, <2>5, <2>6, <2>7, <2>8 DEF Step
  <1>3. CASE UNCHANGED vars
    BY <1>3 DEF vars
  <1>. QED BY <1>1, <1>2, <1>3 DEF Next

(* Every collection file is the whole text of one source tree, cut by         *)
(* SplitMarkdown into chunks that are short enough, for any documents, any    *)
(* number of ingests and crashes between them: splitByHeadings keeps every    *)
(* line under its heading, splitBySize and hardSplit pack and cut a section   *)
(* without losing, repeating or reordering a character, applyOverlap changes  *)
(* no body, and Store.Save replaces a file as a whole.                        *)
THEOREM SnapshotKept == Spec => []SnapshotWhole
  <1>1. Init => SnapshotWhole
    <2>. SUFFICES ASSUME Init PROVE SnapshotWhole
      OBVIOUS
    <2>1. disk \in Disks
      BY DEF Init
    <2>. QED BY <2>1, DisksAssumption DEF SnapshotWhole
  <1>2. RInv /\ SnapshotWhole /\ [Next]_vars => SnapshotWhole'
    <2>. SUFFICES ASSUME RInv, SnapshotWhole, [Next]_vars PROVE SnapshotWhole'
      OBVIOUS
    <2>1. CASE UNCHANGED disk
      BY <2>1 DEF SnapshotWhole
    <2>2. CASE \E i \in Ingesters : Ingest(i)
      BY <2>2, IngestWritesTree
    <2>. QED BY <2>1, <2>2, OnlyIngestWrites
  <1>. QED BY <1>1, <1>2, RetrievalKept, PTL DEF Spec
=============================================================================
