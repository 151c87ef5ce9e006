--------------------------- MODULE ClusterProofs ---------------------------
(***************************************************************************)
(* The cluster provider for any configuration, network, number of requests *)
(* and of failures: what a request starts fits the nodes, a private        *)
(* cluster dials private addresses only, and a supervisor has one process. *)
(***************************************************************************)
EXTENDS Cluster, FiniteSetTheorems, WellFoundedInduction, TLAPS

-----------------------------------------------------------------------------
(* Sums over finite sets (SumFunctionOnSet).  That a set of numbers has a     *)
(* least element gives an induction over the size of a set: a sum is a fold,  *)
(* a fold is a function by recursion over subsets, and that function exists.  *)
(* SumInduction states the induction for a set R of pairs of a subset and a   *)
(* value.                                                                     *)

Less == {ss \in Nat \X Nat : ss[1] < ss[2]}

LEMMA LessIs == OpToRel(<, Nat) = Less
  BY Zenon DEF OpToRel, Less

LEMMA LessHolds == \A m, n \in Nat : m < n => <<m, n>> \in Less
  BY DEF Less

LEMMA NatMin == ASSUME NEW T, T \subseteq Nat, T # {} PROVE \E n \in T : \A m \in T : n <= m
  <1>1. IsWellFoundedOn(Less, Nat)
    BY Zenon, NatLessThanWellFounded, LessIs
  <1>2. PICK n \in T : \A m \in T : ~(<<m, n>> \in Less)
    BY <1>1, WFMin
  <1>3. \A m \in T : ~(m < n)
    BY <1>2, LessHolds
  <1>. QED BY <1>3

LEMMA MinIn == ASSUME NEW T, T \subseteq Nat, T # {} PROVE Min(T) \in T /\ \A m \in T : Min(T) <= m
  BY NatMin DEF Min

Pick(s) == CHOOSE x \in s : TRUE

Unfolds(g, f, S) ==
  g = [s \in SUBSET S |-> IF s = {} THEN 0 ELSE f[Pick(s)] + g[s \ {Pick(s)}]]

LEMMA SumIs ==
  ASSUME NEW f, NEW S
  PROVE  SumFunctionOnSet(f, S) = (CHOOSE g : Unfolds(g, f, S))[S]
  BY DEF SumFunctionOnSet, FoldFunctionOnSet, MapThenFoldSet, Unfolds, Pick

\* The subsets of at most n elements.
Upto(S, n) == {s \in SUBSET S : Cardinality(s) <= n}

UnfoldsTo(g, f, S, n) ==
  g = [s \in Upto(S, n) |-> IF s = {} THEN 0 ELSE f[Pick(s)] + g[s \ {Pick(s)}]]

LEMMA PickIn == ASSUME NEW S, IsFiniteSet(S), NEW s \in SUBSET S, s # {}
  PROVE /\ Pick(s) \in s /\ s \ {Pick(s)} \in SUBSET S
        /\ Cardinality(s) \in Nat /\ Cardinality(s \ {Pick(s)}) = Cardinality(s) - 1
  <1>1. Pick(s) \in s  BY DEF Pick
  <1>2. IsFiniteSet(s) BY FS_Subset
  <1>3. Cardinality(s) \in Nat BY <1>2, FS_CardinalityType
  <1>4. Cardinality(s \ {Pick(s)}) = Cardinality(s) - 1
    BY <1>1, <1>2, FS_RemoveElement
  <1>. QED BY <1>1, <1>3, <1>4

LEMMA SumExists ==
  ASSUME NEW f, NEW S, IsFiniteSet(S)
  PROVE  \E g : Unfolds(g, f, S)
  <1>. DEFINE Bad == {n \in Nat : ~\E g : UnfoldsTo(g, f, S, n)}
  <1>1. ASSUME Bad # {} PROVE FALSE
    <2>1. PICK n \in Bad : \A m \in Bad : n <= m
      <3>1. Bad \subseteq Nat OBVIOUS
      <3>2. PICK T : T = Bad OBVIOUS
      <3>. HIDE DEF Bad
      <3>. QED BY <1>1, <3>1, <3>2, NatMin
    <2>2. n \in Nat /\ ~\E g : UnfoldsTo(g, f, S, n)
      BY <2>1
    <2>3. CASE n = 0
      <3>1. PICK g : g = [s \in Upto(S, n) |-> 0]
        OBVIOUS
      <3>2. \A s \in Upto(S, n) : s = {}
        BY <2>3, FS_Subset, FS_CardinalityType, FS_EmptySet DEF Upto
      <3>3. UnfoldsTo(g, f, S, n)
        BY <3>1, <3>2 DEF UnfoldsTo
      <3>. QED BY <2>2, <3>3
    <2>4. CASE n # 0
      <3>1. n - 1 \in Nat /\ n - 1 \notin Bad
        BY <2>1, <2>2, <2>4
      <3>2. PICK h : UnfoldsTo(h, f, S, n - 1)
        BY <3>1
      <3>3. PICK g : g = [s \in Upto(S, n) |-> IF s = {} THEN 0 ELSE f[Pick(s)] + h[s \ {Pick(s)}]]
        OBVIOUS
      <3>4. ASSUME NEW s \in Upto(S, n), s # {}
          PROVE  s \ {Pick(s)} \in Upto(S, n - 1) /\ s \ {Pick(s)} \in Upto(S, n)
        <4>1. Cardinality(s) \in Nat /\ Cardinality(s) <= n /\ s \in SUBSET S
          BY <3>4, PickIn DEF Upto
        <4>2. Cardinality(s \ {Pick(s)}) = Cardinality(s) - 1 /\ s \ {Pick(s)} \in SUBSET S
          BY <3>4, <4>1, PickIn
        <4>. QED BY <2>2, <4>1, <4>2 DEF Upto
      <3>5. \A t \in Upto(S, n - 1) : t \in Upto(S, n) /\ g[t] = h[t]
        <4>1. SUFFICES ASSUME NEW t \in Upto(S, n - 1) PROVE t \in Upto(S, n) /\ g[t] = h[t]
          OBVIOUS
        <4>2. Cardinality(t) \in Nat
          BY FS_Subset, FS_CardinalityType DEF Upto
        <4>3. t \in Upto(S, n)
          BY <2>2, <4>2 DEF Upto
        <4>4. h[t] = IF t = {} THEN 0 ELSE f[Pick(t)] + h[t \ {Pick(t)}]
          BY <3>2 DEF UnfoldsTo
        <4>. QED BY <3>3, <4>3, <4>4
      <3>6. \A s \in Upto(S, n) : s # {} => g[s \ {Pick(s)}] = h[s \ {Pick(s)}]
        BY <3>4, <3>5
      <3>7. UnfoldsTo(g, f, S, n)
        BY <3>3, <3>6 DEF UnfoldsTo
      <3>. QED BY <2>2, <3>7
    <2>. QED BY <2>3, <2>4
  <1>2. Cardinality(S) \in Nat
    BY FS_CardinalityType
  <1>3. PICK g : UnfoldsTo(g, f, S, Cardinality(S))
    BY <1>1, <1>2
  <1>4. Upto(S, Cardinality(S)) = SUBSET S
    BY FS_Subset DEF Upto
  <1>. QED BY <1>3, <1>4 DEF Unfolds, UnfoldsTo

LEMMA SumInduction ==
  ASSUME NEW f, NEW S, IsFiniteSet(S), NEW R, <<{}, 0>> \in R,
         \A s \in SUBSET S : \A x \in s : \A v : <<s \ {x}, v>> \in R => <<s, f[x] + v>> \in R
  PROVE  <<S, SumFunctionOnSet(f, S)>> \in R
  <1>1. PICK g : Unfolds(g, f, S)
    BY SumExists
  <1>2. PICK h : h = CHOOSE k : Unfolds(k, f, S)
    OBVIOUS
  <1>3. Unfolds(h, f, S)
    BY <1>1, <1>2
  <1>. DEFINE Bad == {n \in Nat : \E s \in SUBSET S : Cardinality(s) = n /\ <<s, h[s]>> \notin R}
  <1>4. ASSUME Bad # {} PROVE FALSE
    <2>1. PICK n \in Bad : \A m \in Bad : n <= m
      <3>1. Bad \subseteq Nat OBVIOUS
      <3>2. PICK T : T = Bad OBVIOUS
      <3>. HIDE DEF Bad
      <3>. QED BY <1>4, <3>1, <3>2, NatMin
    <2>2. PICK s \in SUBSET S : Cardinality(s) = n /\ <<s, h[s]>> \notin R
      BY <2>1
    <2>3. h[s] = IF s = {} THEN 0 ELSE f[Pick(s)] + h[s \ {Pick(s)}]
      BY <1>3 DEF Unfolds
    <2>4. s # {}
      BY <2>2, <2>3
    <2>5. /\ Pick(s) \in s /\ s \ {Pick(s)} \in SUBSET S /\ n \in Nat
        /\ Cardinality(s \ {Pick(s)}) = n - 1
      BY <2>2, <2>4, PickIn
    <2>6. n - 1 \in Nat /\ n - 1 \notin Bad
      <3>1. Cardinality(s \ {Pick(s)}) \in Nat
        BY <2>5, FS_Subset, FS_CardinalityType
      <3>2. n - 1 \in Nat
        BY <2>5, <3>1
      <3>. HIDE DEF Bad
      <3>. QED BY <2>1, <2>5, <3>2
    <2>7. <<s \ {Pick(s)}, h[s \ {Pick(s)}]>> \in R
      BY <2>5, <2>6
    <2>8. <<s, f[Pick(s)] + h[s \ {Pick(s)}]>> \in R
      BY <2>5, <2>7
    <2>. QED BY <2>2, <2>3, <2>4, <2>8
  <1>5. Cardinality(S) \in Nat
    BY FS_CardinalityType
  <1>6. <<S, h[S]>> \in R
    BY <1>4, <1>5
  <1>. QED BY <1>2, <1>6, SumIs

LEMMA SumNat ==
  ASSUME NEW f, NEW S, IsFiniteSet(S), \A x \in S : f[x] \in Nat
  PROVE  SumFunctionOnSet(f, S) \in Nat
  <1>1. PICK R : R = (SUBSET S) \X Nat
    OBVIOUS
  <1>2. \A s \in SUBSET S : \A x \in s : \A v : <<s \ {x}, v>> \in R => <<s, f[x] + v>> \in R
    BY <1>1
  <1>3. <<S, SumFunctionOnSet(f, S)>> \in R
    BY <1>1, <1>2, SumInduction
  <1>. QED BY <1>1, <1>3

LEMMA SumInt ==
  ASSUME NEW f, NEW S, IsFiniteSet(S), \A x \in S : f[x] \in Int
  PROVE  SumFunctionOnSet(f, S) \in Int
  <1>1. PICK R : R = (SUBSET S) \X Int
    OBVIOUS
  <1>2. \A s \in SUBSET S : \A x \in s : \A v : <<s \ {x}, v>> \in R => <<s, f[x] + v>> \in R
    BY <1>1
  <1>3. <<S, SumFunctionOnSet(f, S)>> \in R
    BY <1>1, <1>2, SumInduction
  <1>. QED BY <1>1, <1>3

LEMMA SumZero ==
  ASSUME NEW f, NEW S, IsFiniteSet(S), \A x \in S : f[x] = 0
  PROVE  SumFunctionOnSet(f, S) = 0
  <1>1. PICK R : R = (SUBSET S) \X {0}
    OBVIOUS
  <1>2. \A s \in SUBSET S : \A x \in s : \A v : <<s \ {x}, v>> \in R => <<s, f[x] + v>> \in R
    BY <1>1
  <1>3. <<S, SumFunctionOnSet(f, S)>> \in R
    BY <1>1, <1>2, SumInduction
  <1>. QED BY <1>1, <1>3

LEMMA SumPositive ==
  ASSUME NEW f, NEW S, IsFiniteSet(S), \A x \in S : f[x] \in Nat, NEW z \in S, f[z] > 0
  PROVE  SumFunctionOnSet(f, S) > 0
  <1>1. PICK R : R = {p \in (SUBSET S) \X Nat : z \in p[1] => p[2] > 0}
    OBVIOUS
  <1>2. \A s \in SUBSET S : \A x \in s : \A v : <<s \ {x}, v>> \in R => <<s, f[x] + v>> \in R
    <2>1. SUFFICES ASSUME NEW s \in SUBSET S, NEW x \in s, NEW v, <<s \ {x}, v>> \in R
                   PROVE  <<s, f[x] + v>> \in R
      OBVIOUS
    <2>2. v \in Nat /\ (z \in s \ {x} => v > 0) /\ f[x] \in Nat
      BY <1>1, <2>1
    <2>3. f[x] + v \in Nat /\ (z \in s => f[x] + v > 0)
      BY <2>2
    <2>. QED BY <1>1, <2>3
  <1>3. <<{}, 0>> \in R
    BY <1>1
  <1>4. <<S, SumFunctionOnSet(f, S)>> \in R
    BY <1>2, <1>3, SumInduction
  <1>. QED BY <1>1, <1>4

-----------------------------------------------------------------------------
(* The inductive invariant, in parts.                                        *)

\* The processes a supervisor has launched.
Own(s) == {k \in DOMAIN kids : kids[k].sup = s}

Booting == phase \in {"boot", "refused"}

\* Before the configuration is accepted nothing has been done, and afterwards it
\* is valid.
BootInv ==
  /\ Booting => /\ sups = <<>> /\ kids = <<>> /\ dialed = {} /\ sweep = <<>> /\ stopping = {}
                /\ \A r \in Requests : req[r] = Idle
  /\ ~Booting => Validate(cfg)

\* References between supervisors and processes.
LinkInv ==
  /\ \A b \in Backends : sup[b] <= Len(sups)
  /\ \A k \in DOMAIN kids : kids[k].sup \in DOMAIN sups
  /\ \A s \in DOMAIN sups : sups[s].cmd <= Len(kids)

\* A supervisor's processes: all but the one it calls its cmd are gone, and that
\* one too before the next launch; the launches are counted by its restarts.
Supervised(s) ==
  /\ sups[s].restarts = 0 \/ sups[s].restarts <= cfg.maxRestarts
  /\ \A k \in Own(s) : k # sups[s].cmd => kids[k].st = "gone"
  /\ sups[s].watch \in {"backoff", "launch"} => \A k \in Own(s) : kids[k].st = "gone"
  /\ sups[s].watch = "wait" => sups[s].cmd # 0
  /\ sups[s].watch = "none" => Own(s) = {} /\ sups[s].restarts = 0
  /\ sups[s].watch \in {"backoff", "launch"} => Cardinality(Own(s)) <= sups[s].restarts
  /\ sups[s].watch \in {"wait", "gone"} => Cardinality(Own(s)) <= sups[s].restarts + 1

SupervisedInv == \A s \in DOMAIN sups : Supervised(s)

\* A request: the supervisor it is about to launch has launched nothing yet, and
\* what it is about to start, or serves itself, has been admitted.
RequestGood(q) ==
  /\ q.pc \in {"launch", "wait"} => q.sup \in DOMAIN sups
  /\ q.pc = "launch" => sups[q.sup].watch = "none"
  /\ q.pc \in {"start", "launch", "wait", "mark", "health"} =>
        q.order # <<>> /\ Head(q.order) \in Backends \ {Local}
  /\ q.pc = "start" => Spreads(cfg, q.m)
  /\ q.pc = "chat" /\ q.backend = Local =>
        ~cfg.strict /\ CoordinatorNode(cfg).mem - cfg.reserve >= q.m.min

RequestsInv == \A r \in Requests : RequestGood(req[r])

\* No two requests launch one supervisor.
DistinctInv ==
  \A r, q \in Requests : req[r].pc = "launch" /\ req[q].pc = "launch" /\ r # q => req[r].sup # req[q].sup

SpreadInv == \A s \in DOMAIN sups : Spreads(cfg, sups[s].model)

DialInv ==
  cfg.privateOnly =>
    /\ \A a \in dialed : Class[a] # "public"
    /\ \A s \in DOMAIN sups : sups[s].backend = Llama =>
          /\ cfg.rpcHosts = <<>> => Len(sups[s].rpc) = Len(WorkerNodes(cfg))
          /\ ToSet(sups[s].rpc) \subseteq dialed

ClusterInv ==
  /\ TypeOK /\ BootInv /\ LinkInv /\ SupervisedInv
  /\ RequestsInv /\ DistinctInv /\ SpreadInv /\ DialInv

-----------------------------------------------------------------------------
(* The nodes of a configuration that was accepted.                           *)

LEMMA HasNodes ==
  ASSUME NEW c \in Config, Validate(c)
  PROVE  c.nodes \in Seq(Node) /\ Len(c.nodes) \in Nat \ {0} /\ DOMAIN c.nodes = 1 .. Len(c.nodes)
  <1>1. c.nodes \in Seq(Node)
    BY DEF Config
  <1>2. c.nodes # <<>>
    BY DEF Validate
  <1>. QED  BY <1>1, <1>2

LEMMA CoordinatorIn ==
  ASSUME NEW c \in Config, Validate(c)
  PROVE  coordinatorIndex(c) \in DOMAIN c.nodes
  <1>1. PICK T : T = {i \in DOMAIN c.nodes : c.nodes[i].id = c.coordinator}
    OBVIOUS
  <1>2. PICK U : U = {i \in DOMAIN c.nodes : c.nodes[i].role = "coordinator"}
    OBVIOUS
  <1>3. T \subseteq Nat /\ U \subseteq Nat /\ 1 \in DOMAIN c.nodes
    BY <1>1, <1>2, HasNodes
  <1>4. (T # {} => Min(T) \in DOMAIN c.nodes) /\ (U # {} => Min(U) \in DOMAIN c.nodes)
    BY <1>1, <1>2, <1>3, MinIn
  <1>5. coordinatorIndex(c) = IF c.coordinator # Unset /\ T # {} THEN Min(T)
                              ELSE IF U # {} THEN Min(U) ELSE 1
    BY <1>1, <1>2 DEF coordinatorIndex
  <1>. QED  BY <1>3, <1>4, <1>5

LEMMA Removed ==
  ASSUME NEW T, NEW s \in Seq(T), NEW i \in 1 .. Len(s)
  PROVE  /\ RemoveAt(s, i) \in Seq(T)
         /\ Len(RemoveAt(s, i)) = Len(s) - 1
         /\ \A j \in 1 .. Len(s) - 1 : RemoveAt(s, i)[j] = IF j < i THEN s[j] ELSE s[j + 1]
  <1>1. PICK a : a = SubSeq(s, 1, i - 1)
    OBVIOUS
  <1>2. PICK b : b = SubSeq(s, i + 1, Len(s))
    OBVIOUS
  <1>3. /\ a \in Seq(T) /\ Len(a) = i - 1
        /\ \A j \in 1 .. i - 1 : a[j] = s[j]
    BY <1>1
  <1>4. /\ b \in Seq(T) /\ Len(b) = Len(s) - i
        /\ \A j \in 1 .. Len(s) - i : b[j] = s[i + j]
    BY <1>2
  <1>5. RemoveAt(s, i) = a \o b
    BY <1>1, <1>2 DEF RemoveAt
  <1>6. a \o b \in Seq(T) /\ Len(a \o b) = Len(s) - 1
    BY <1>3, <1>4
  <1>7. ASSUME NEW j \in 1 .. Len(s) - 1
        PROVE  (a \o b)[j] = IF j < i THEN s[j] ELSE s[j + 1]
    <2>1. CASE j < i
      BY <1>3, <1>4, <2>1
    <2>2. CASE ~(j < i)
      <3>1. (a \o b)[j] = b[j - (i - 1)]
        BY <1>3, <1>4, <2>2
      <3>2. j - (i - 1) \in 1 .. Len(s) - i
        BY <2>2
      <3>3. b[j - (i - 1)] = s[i + (j - (i - 1))]
        BY <1>4, <3>2
      <3>. QED  BY <2>2, <3>1, <3>3
    <2>. QED  BY <2>1, <2>2
  <1>. QED  BY <1>5, <1>6, <1>7

LEMMA Prepended ==
  ASSUME NEW T, NEW x \in T, NEW w \in Seq(T)
  PROVE  /\ <<x>> \o w \in Seq(T) /\ Len(<<x>> \o w) = Len(w) + 1
         /\ (<<x>> \o w)[1] = x
         /\ \A j \in 1 .. Len(w) : (<<x>> \o w)[j + 1] = w[j]
  OBVIOUS

LEMMA Ordered ==
  ASSUME NEW c \in Config, Validate(c)
  PROVE  /\ WorkerNodes(c) \in Seq(Node) /\ Len(WorkerNodes(c)) = Len(c.nodes) - 1
         /\ orderedNodes(c) \in Seq(Node) /\ Len(orderedNodes(c)) = Len(c.nodes)
         /\ CoordinatorNode(c) \in Node
         /\ \A i \in DOMAIN c.nodes : \E j \in DOMAIN orderedNodes(c) : orderedNodes(c)[j] = c.nodes[i]
  <1>1. PICK n : n = c.nodes
    OBVIOUS
  <1>2. PICK k : k = coordinatorIndex(c)
    OBVIOUS
  <1>3. n \in Seq(Node) /\ Len(n) \in Nat \ {0} /\ DOMAIN n = 1 .. Len(n) /\ k \in 1 .. Len(n)
    BY <1>1, <1>2, HasNodes, CoordinatorIn
  <1>4. PICK w : w = RemoveAt(n, k)
    OBVIOUS
  <1>5. /\ w \in Seq(Node) /\ Len(w) = Len(n) - 1
        /\ \A j \in 1 .. Len(n) - 1 : w[j] = IF j < k THEN n[j] ELSE n[j + 1]
    BY <1>3, <1>4, Removed
  <1>6. n[k] \in Node
    BY <1>3
  <1>7. WorkerNodes(c) = w /\ CoordinatorNode(c) = n[k] /\ orderedNodes(c) = <<n[k]>> \o w
    BY <1>1, <1>2, <1>4 DEF WorkerNodes, CoordinatorNode, orderedNodes
  <1>8. PICK o : o = <<n[k]>> \o w
    OBVIOUS
  <1>9. o \in Seq(Node) /\ Len(o) = Len(n) /\ o[1] = n[k] /\ (\A j \in 1 .. Len(n) - 1 : o[j + 1] = w[j])
    <2>1. PICK x \in Node : x = n[k]
      BY <1>6
    <2>2. /\ o \in Seq(Node) /\ Len(o) = Len(w) + 1 /\ o[1] = x
          /\ \A j \in 1 .. Len(w) : o[j + 1] = w[j]
      <3>1. w \in Seq(Node)
        BY <1>5
      <3>2. o = <<x>> \o w
        BY <1>8, <2>1
      <3>3. PICK T : T = Node
        OBVIOUS
      <3>4. x \in T /\ w \in Seq(T)
        BY <3>1, <3>3
      <3>5. /\ o \in Seq(T) /\ Len(o) = Len(w) + 1 /\ o[1] = x
            /\ \A j \in 1 .. Len(w) : o[j + 1] = w[j]
        BY <3>2, <3>4, Prepended
      <3>. QED  BY <3>3, <3>5
    <2>3. Len(w) = Len(n) - 1 /\ Len(n) \in Nat
      BY <1>3, <1>5
    <2>. QED  BY <2>1, <2>2, <2>3
  <1>10. ASSUME NEW i \in DOMAIN n PROVE \E j \in DOMAIN o : o[j] = n[i]
    <2>1. CASE i = k
      BY <1>3, <1>9, <2>1
    <2>2. CASE i < k
      BY <1>3, <1>5, <1>9, <2>2
    <2>3. CASE i > k
      <3>1. i - 1 \in 1 .. Len(n) - 1 /\ w[i - 1] = n[i]
        BY <1>3, <1>5, <2>3
      <3>2. o[(i - 1) + 1] = n[i] /\ (i - 1) + 1 \in DOMAIN o
        BY <1>3, <1>9, <3>1
      <3>. QED  BY <3>2
    <2>. QED  BY <1>3, <2>1, <2>2, <2>3
  <1>. QED  BY <1>1, <1>5, <1>6, <1>7, <1>8, <1>9, <1>10

-----------------------------------------------------------------------------
(* What the scheduler admits fits the nodes.                                 *)

LEMMA Rounded ==
  ASSUME NEW a \in Int, NEW S \in Int, S > 0, NEW B \in Int, (a + S) \div (2 * S) <= B
  PROVE  a < (2 * B + 1) * S
  <1>1. PICK q \in Int : q = (a + S) \div (2 * S)
    BY Z3
  <1>2. a + S < (2 * S) * (q + 1)
    BY <1>1, Z3
  <1>3. S * q <= S * B
    BY <1>1, Z3
  <1>4. (2 * S) * (q + 1) = 2 * (S * q) + 2 * S
    BY <1>1, Z3
  <1>5. (2 * B + 1) * S = 2 * (S * B) + S
    BY Z3
  <1>6. S * q \in Int /\ S * B \in Int
    BY <1>1
  <1>. QED  BY <1>2, <1>3, <1>4, <1>5, <1>6

LEMMA TotalNat ==
  ASSUME NEW n \in Nat, NEW w, DOMAIN w = 1 .. n, \A i \in 1 .. n : w[i] \in Nat
  PROVE  /\ Total(w) \in Nat
         /\ (\E i \in 1 .. n : w[i] > 0) => Total(w) > 0
         /\ (\A i \in 1 .. n : w[i] = 0) => Total(w) = 0
  <1>1. IsFiniteSet(1 .. n)
    BY FS_Interval
  <1>2. Total(w) = SumFunctionOnSet(w, 1 .. n)
    BY DEF Total, SumFunction
  <1>. QED  BY <1>1, <1>2, SumNat, SumPositive, SumZero

LEMMA TotalInt ==
  ASSUME NEW n \in Nat, NEW w, DOMAIN w = 1 .. n, \A i \in 1 .. n : w[i] \in Int
  PROVE  Total(w) \in Int
  <1>1. IsFiniteSet(1 .. n)
    BY FS_Interval
  <1>2. Total(w) = SumFunctionOnSet(w, 1 .. n)
    BY DEF Total, SumFunction
  <1>. QED  BY <1>1, <1>2, SumInt

LEMMA ReserveInt == ASSUME NEW x \in Int PROVE computeReserveGB(x) \in Int
  <1>1. PICK y \in Int : y = (IF x <= 0 THEN 4096 ELSE x) \div 2048
    OBVIOUS
  <1>2. \E z \in {2, y} : \A u \in {2, y} : z >= u
    BY <1>1
  <1>3. Max({2, y}) \in {2, y}
    BY <1>2 DEF Max
  <1>. QED  BY <1>1, <1>3 DEF computeReserveGB

LEMMA Fits ==
  ASSUME NEW c \in Config, Validate(c), NEW h, NEW b, b # Local, NEW m \in Model,
         memoryFits(c, h, b, m)
  PROVE  Spreads(c, m)
  <1>. PICK nodes : nodes = orderedNodes(c)
    OBVIOUS
  <1>. PICK n \in Nat \ {0} : n = Len(c.nodes)
    BY HasNodes
  <1>1. /\ nodes \in Seq(Node) /\ Len(nodes) = n /\ DOMAIN nodes = 1 .. n
        /\ c.nodes \in Seq(Node) /\ DOMAIN c.nodes = 1 .. n
        /\ CoordinatorNode(c) \in Node
        /\ \A i \in 1 .. n : \E j \in 1 .. n : nodes[j] = c.nodes[i]
    <2>1. DOMAIN c.nodes = 1 .. n /\ c.nodes \in Seq(Node)
      BY HasNodes
    <2>2. nodes \in Seq(Node) /\ Len(nodes) = n
      BY Ordered
    <2>3. DOMAIN nodes = 1 .. n
      BY <2>2
    <2>. QED  BY <2>1, <2>2, <2>3, Ordered
  <1>. PICK mem : mem = [i \in DOMAIN nodes |-> nodes[i].mem]
    OBVIOUS
  <1>2. DOMAIN mem = 1 .. n /\ \A i \in 1 .. n : mem[i] = nodes[i].mem /\ mem[i] \in Nat
    <2>1. \A i \in 1 .. n : nodes[i] \in Node
      BY <1>1
    <2>2. \A i \in 1 .. n : nodes[i].mem \in Nat
      BY <2>1 DEF Node
    <2>. QED  BY <1>1, <2>2
  <1>3. Total(mem) \in Nat
    BY <1>2, TotalNat
  <1>. DEFINE usable == Len(c.split) = Len(c.nodes) /\ (\A j \in DOMAIN c.split : c.split[j] >= 0) /\ Total(c.split) > 0
  <1>4. c.split \in Seq(Int) /\ c.reserve \in Int /\ m.min \in Int /\ m.ctx \in Int /\ m.force \in BOOLEAN
    BY DEF Config, Model
  <1>5. /\ m.min > 0 /\ (m.force \/ ~coordinatorCanHostAlone(c, m))
        /\ totalClusterMemoryGB(c, h) >= m.min /\ allNodesWithinSafeBudget(c, m)
    BY DEF memoryFits
  <1>6. Total(mem) > 0
    <2>1. PICK t : t = [i \in DOMAIN c.nodes |-> IF h[c.nodes[i].id] = FALSE THEN 0 ELSE c.nodes[i].mem]
      OBVIOUS
    <2>2. DOMAIN t = 1 .. n /\ \A i \in 1 .. n : t[i] = 0 \/ t[i] = c.nodes[i].mem
      BY <1>1, <2>1
    <2>3. \A i \in 1 .. n : c.nodes[i].mem \in Nat
      <3>1. \A i \in 1 .. n : c.nodes[i] \in Node
        BY <1>1
      <3>. QED  BY <3>1 DEF Node
    <2>4. \A i \in 1 .. n : t[i] \in Nat
      BY <2>2, <2>3
    <2>5. Total(t) >= m.min /\ Total(t) \in Nat
      BY <1>5, <2>1, <2>2, <2>4, TotalNat DEF totalClusterMemoryGB
    <2>6. PICK i \in 1 .. n : t[i] # 0
      <3>1. Total(t) # 0
        BY <1>4, <1>5, <2>5
      <3>. QED  BY <2>2, <2>4, <3>1, TotalNat
    <2>7. PICK j \in 1 .. n : nodes[j] = c.nodes[i]
      BY <1>1
    <2>8. mem[j] > 0
      BY <1>2, <2>2, <2>3, <2>6, <2>7
    <2>. QED  BY <1>2, <2>8, TotalNat
  <1>. PICK part : part = IF usable THEN c.split ELSE mem
    OBVIOUS
  <1>7. nodeShares(c) = [weights |-> part, sum |-> Total(part)]
    BY <1>1, <1>6 DEF nodeShares
  <1>8. /\ DOMAIN part = 1 .. n /\ (\A i \in 1 .. n : part[i] \in Int)
        /\ Total(part) \in Int /\ Total(part) > 0
    <2>1. CASE usable
      <3>1. part = c.split /\ Len(c.split) = n /\ Total(part) > 0
        BY <2>1
      <3>2. DOMAIN part = 1 .. n /\ \A i \in 1 .. n : part[i] \in Int
        BY <1>4, <3>1
      <3>. QED  BY <3>1, <3>2, TotalInt
    <2>2. CASE ~usable
      BY <1>2, <1>3, <1>6, <2>2
    <2>. QED  BY <2>1, <2>2
  <1>9. PICK S \in Int : S = Total(part) /\ S > 0
    BY <1>8
  <1>10. PICK R \in Int : R = computeReserveGB(m.ctx)
    BY <1>4, ReserveInt
  <1>11. PICK budget : budget = [i \in 1 .. n |-> IF i = 1 THEN coordinatorSafeMemoryGB(c) ELSE nodeSafeModelGB(nodes[i])]
    OBVIOUS
  <1>12. \A i \in 1 .. n : budget[i] \in Int
    <2>1. coordinatorSafeMemoryGB(c) \in Int
      BY <1>1, <1>4 DEF coordinatorSafeMemoryGB, Node
    <2>2. \A i \in 1 .. n : nodes[i] \in Node
      BY <1>1
    <2>3. \A i \in 1 .. n : nodeSafeModelGB(nodes[i]) \in Int
      BY <2>2 DEF nodeSafeModelGB, Node
    <2>. QED  BY <1>11, <2>1, <2>3
  <1>13. ASSUME NEW i \in 1 .. n
         PROVE  (2 * m.min * part[i] + S) \div (2 * S) + R <= budget[i]
    <2>1. i \in DOMAIN orderedNodes(c)
      BY <1>1
    <2>2. nodeShares(c).weights = part /\ nodeShares(c).sum = S
      BY <1>7, <1>9
    <2>3. budget[i] = IF i = 1 THEN coordinatorSafeMemoryGB(c) ELSE nodeSafeModelGB(orderedNodes(c)[i])
      BY <1>11
    <2>. QED  BY <1>5, <1>10, <2>1, <2>2, <2>3 DEF allNodesWithinSafeBudget
  <1>14. ASSUME NEW i \in 1 .. n
         PROVE  2 * m.min * part[i] < (2 * (budget[i] - R) + 1) * S
    <2>1. PICK a \in Int : a = 2 * m.min * part[i]
      <3>1. PICK p \in Int : p = part[i]
        BY <1>8
      <3>2. PICK x \in Int : x = m.min
        BY <1>4
      <3>3. 2 * x * p \in Int
        BY Z3
      <3>. QED  BY <3>1, <3>2, <3>3
    <2>2. PICK B \in Int : B = budget[i] - R
      BY <1>10, <1>12
    <2>3. PICK q \in Int : q = (a + S) \div (2 * S)
      BY <1>9, Z3
    <2>4. q + R <= budget[i]
      BY <1>13, <2>1, <2>3
    <2>5. q <= B
      BY <1>10, <1>12, <2>2, <2>4
    <2>6. a < (2 * B + 1) * S
      BY <1>9, <2>3, <2>5, Rounded
    <2>. QED  BY <2>1, <2>2, <2>6
  <1>15. ASSUME NEW i \in DOMAIN orderedNodes(c)
         PROVE  HoldsWithin(c, m, i, IF i = 1 THEN CoordinatorNode(c).mem - c.reserve
                                     ELSE nodeSafeModelGB(orderedNodes(c)[i]))
    <2>1. i \in 1 .. n
      BY <1>1
    <2>2. budget[i] = IF i = 1 THEN CoordinatorNode(c).mem - c.reserve ELSE nodeSafeModelGB(orderedNodes(c)[i])
      BY <1>11, <2>1 DEF coordinatorSafeMemoryGB
    <2>3. part = IF usable THEN c.split ELSE [j \in DOMAIN c.nodes |-> orderedNodes(c)[j].mem]
      BY <1>1
    <2>4. 2 * m.min * part[i] < (2 * (budget[i] - computeReserveGB(m.ctx)) + 1) * Total(part)
      BY <1>9, <1>10, <1>14, <2>1
    <2>. QED  BY <2>2, <2>3, <2>4 DEF HoldsWithin
  <1>16. m.force \/ CoordinatorNode(c).mem - c.reserve < m.min
    BY <1>1, <1>4, <1>5 DEF coordinatorCanHostAlone, coordinatorSafeMemoryGB, Node
  <1>. QED  BY <1>15, <1>16 DEF Spreads

-----------------------------------------------------------------------------
(* Which addresses are dialled.                                              *)

Ips == ToSet(Addresses)

LEMMA IpsAreHosts == Ips \subseteq Hosts
  <1>1. Addresses \in Seq(Hosts)
    BY HostAssumption
  <1>2. \A i \in DOMAIN Addresses : Addresses[i] \in Hosts
    BY <1>1
  <1>. QED  BY <1>2 DEF Ips, ToSet

LEMMA Ranks == ASSUME NEW a \in Ips PROVE orderRPCCandidates(a) \in Nat
  <1>1. \E j \in DOMAIN Addresses : Addresses[j] = a
    BY DEF Ips, ToSet
  <1>2. PICK i : i = CHOOSE j \in DOMAIN Addresses : Addresses[j] = a
    OBVIOUS
  <1>3. i \in DOMAIN Addresses
    BY <1>1, <1>2
  <1>4. DOMAIN Addresses = 1 .. Len(Addresses) /\ Len(Addresses) \in Nat
    BY HostAssumption
  <1>5. i \in Nat /\ Len(Addresses) + i \in Nat
    BY <1>3, <1>4
  <1>. QED  BY <1>2, <1>5 DEF orderRPCCandidates

\* selectReachable dials candidates only, and what accepts is one it dialled.
LEMMA Reachable ==
  ASSUME NEW w, NEW ips, ips \subseteq Ips
  PROVE  /\ DOMAIN selectReachable(w, ips) = {"dialed", "addr"}
         /\ selectReachable(w, ips).dialed \subseteq ips
         /\ \/ selectReachable(w, ips).addr = None
            \/ selectReachable(w, ips).addr \in selectReachable(w, ips).dialed
  <1>1. PICK accept : accept = ips \cap w.open
    OBVIOUS
  <1>2. PICK first : first = CHOOSE a \in accept : \A b \in accept : orderRPCCandidates(a) <= orderRPCCandidates(b)
    OBVIOUS
  <1>3. selectReachable(w, ips) =
          IF accept = {} THEN [dialed |-> ips, addr |-> None]
          ELSE [dialed |-> {a \in ips : orderRPCCandidates(a) <= orderRPCCandidates(first)}, addr |-> first]
    BY <1>1, <1>2 DEF selectReachable
  <1>4. ASSUME accept # {} PROVE first \in accept
    <2>1. PICK T : T = {orderRPCCandidates(a) : a \in accept}
      OBVIOUS
    <2>2. \A a \in accept : orderRPCCandidates(a) \in Nat
      BY <1>1, Ranks
    <2>3. T \subseteq Nat /\ T # {}
      BY <1>4, <2>1, <2>2
    <2>4. PICK t \in T : \A u \in T : t <= u
      BY <2>3, NatMin
    <2>5. PICK a \in accept : t = orderRPCCandidates(a)
      BY <2>1
    <2>6. \A b \in accept : orderRPCCandidates(a) <= orderRPCCandidates(b)
      BY <2>1, <2>4, <2>5
    <2>. QED  BY <1>2, <2>6
  <1>5. CASE accept = {}
    BY <1>3, <1>5
  <1>6. CASE accept # {}
    <2>1. first \in ips /\ orderRPCCandidates(first) \in Nat
      BY <1>1, <1>4, <1>6, Ranks
    <2>2. orderRPCCandidates(first) <= orderRPCCandidates(first)
      BY <2>1
    <2>. QED  BY <1>3, <1>6, <2>1, <2>2
  <1>. QED  BY <1>5, <1>6

\* A private cluster dials no public address, and is given one it dialled.
LEMMA Resolved ==
  ASSUME NEW w \in World, NEW host \in Hosts, NEW p \in BOOLEAN
  PROVE  /\ resolveRPCAddr(w, host, p).dialed \subseteq Ips
         /\ resolveRPCAddr(w, host, p).addr \in Hosts \cup {None}
         /\ p => /\ \A a \in resolveRPCAddr(w, host, p).dialed : Class[a] # "public"
                 /\ \/ resolveRPCAddr(w, host, p).addr = None
                    \/ resolveRPCAddr(w, host, p).addr \in resolveRPCAddr(w, host, p).dialed
  <1>1. PICK known : known = IF host \in Ips THEN {host} ELSE w.dns[host]
    OBVIOUS
  <1>2. known \subseteq Ips
    <2>1. CASE host \in Ips
      BY <1>1, <2>1
    <2>2. CASE host \notin Ips
      <3>1. host \in Names
        BY <2>2 DEF Names, Ips
      <3>2. w.dns \in [Names -> SUBSET Ips]
        BY DEF World, Ips
      <3>3. w.dns[host] \in SUBSET Ips
        BY <3>1, <3>2
      <3>. QED  BY <1>1, <2>2, <3>3
    <2>. QED  BY <2>1, <2>2
  <1>3. PICK ips : ips = filterPrivateCandidates(known, p)
    OBVIOUS
  <1>4. ips \subseteq Ips /\ (p => \A a \in ips : Class[a] # "public")
    BY <1>2, <1>3 DEF filterPrivateCandidates, isPublicIP
  <1>5. PICK found : found = selectReachable(w, ips)
    OBVIOUS
  <1>6. /\ DOMAIN found = {"dialed", "addr"} /\ found.dialed \subseteq ips
        /\ (found.addr = None \/ found.addr \in found.dialed)
    BY <1>4, <1>5, Reachable
  <1>7. resolveRPCAddr(w, host, p) =
          IF known = {} \/ found.addr # None \/ p THEN found ELSE [found EXCEPT !.addr = host]
    BY <1>1, <1>3, <1>5 DEF resolveRPCAddr, Ips
  <1>8. found.addr \in Hosts \cup {None}
    BY <1>4, <1>6, IpsAreHosts
  <1>9. CASE known = {} \/ found.addr # None \/ p
    BY <1>4, <1>6, <1>7, <1>8, <1>9
  <1>10. CASE ~(known = {} \/ found.addr # None \/ p)
    <2>1. PICK e : e = [found EXCEPT !.addr = host]
      OBVIOUS
    <2>2. e.dialed = found.dialed /\ e.addr = host
      BY <1>6, <2>1
    <2>. QED  BY <1>4, <1>6, <1>7, <1>10, <2>1, <2>2
  <1>. QED  BY <1>9, <1>10

\* The addresses a llama-server is given: one of every worker, all dialled.
LEMMA ResolvedHosts ==
  ASSUME NEW c \in Config, Validate(c), NEW w \in World
  PROVE  LET f == resolveRPCHosts(c, w) IN
         /\ f.dialed \subseteq Ips
         /\ c.privateOnly => \A a \in f.dialed : Class[a] # "public"
         /\ f.addrs # None =>
              /\ f.addrs \in Seq(Hosts)
              /\ c.rpcHosts = <<>> => Len(f.addrs) = Len(WorkerNodes(c))
              /\ c.privateOnly => ToSet(f.addrs) \subseteq f.dialed
  <1>1. PICK hosts : hosts = IF c.rpcHosts # <<>> THEN c.rpcHosts
                             ELSE [i \in DOMAIN WorkerNodes(c) |-> WorkerNodes(c)[i].host]
    OBVIOUS
  <1>2. PICK n \in Nat : n = Len(hosts) /\ DOMAIN hosts = 1 .. n /\ (\A i \in 1 .. n : hosts[i] \in Hosts)
                        /\ (c.rpcHosts = <<>> => n = Len(WorkerNodes(c)))
    <2>1. CASE c.rpcHosts # <<>>
      <3>1. hosts \in Seq(Hosts)
        BY <1>1, <2>1 DEF Config
      <3>. QED  BY <2>1, <3>1
    <2>2. CASE c.rpcHosts = <<>>
      <3>1. PICK ws : ws = WorkerNodes(c)
        OBVIOUS
      <3>2. ws \in Seq(Node)
        BY <3>1, Ordered
      <3>3. PICK k \in Nat : k = Len(ws) /\ DOMAIN ws = 1 .. k /\ \A i \in 1 .. k : ws[i] \in Node
        BY <3>2
      <3>4. hosts = [i \in 1 .. k |-> ws[i].host]
        BY <1>1, <2>2, <3>1, <3>3
      <3>5. \A i \in 1 .. k : ws[i].host \in Hosts
        BY <3>3 DEF Node
      <3>6. hosts \in Seq(Hosts)
        BY <3>4, <3>5
      <3>7. DOMAIN hosts = 1 .. k /\ Len(hosts) = k
        BY <3>4, <3>6
      <3>8. \A i \in 1 .. k : hosts[i] \in Hosts
        BY <3>4, <3>5
      <3>. QED  BY <3>1, <3>3, <3>7, <3>8
    <2>. QED  BY <2>1, <2>2
  <1>3. PICK found : found = [i \in DOMAIN hosts |-> resolveRPCAddr(w, hosts[i], c.privateOnly)]
    OBVIOUS
  <1>4. DOMAIN found = 1 .. n /\ \A i \in 1 .. n : found[i] = resolveRPCAddr(w, hosts[i], c.privateOnly)
    BY <1>2, <1>3
  <1>5. c.privateOnly \in BOOLEAN
    BY DEF Config
  <1>6. ASSUME NEW i \in 1 .. n
        PROVE  /\ found[i].dialed \subseteq Ips /\ found[i].addr \in Hosts \cup {None}
               /\ c.privateOnly => /\ \A a \in found[i].dialed : Class[a] # "public"
                                   /\ found[i].addr = None \/ found[i].addr \in found[i].dialed
    <2>1. PICK host \in Hosts : host = hosts[i]
      BY <1>2
    <2>2. found[i] = resolveRPCAddr(w, host, c.privateOnly)
      BY <1>4, <2>1
    <2>. QED  BY <1>5, <2>2, Resolved
  <1>7. PICK fails : fails = {i \in DOMAIN found : found[i].addr = None}
    OBVIOUS
  <1>8. PICK last : last = IF fails = {} THEN Len(found) ELSE Min(fails)
    OBVIOUS
  <1>9. last \in 0 .. n /\ (fails = {} => last = n)
    <2>1. CASE fails = {}
      <3>1. found \in Seq({resolveRPCAddr(w, hosts[i], c.privateOnly) : i \in 1 .. n})
        BY <1>2, <1>3
      <3>2. Len(found) = n
        BY <1>4, <3>1
      <3>. QED  BY <1>8, <2>1, <3>2
    <2>2. CASE fails # {}
      <3>1. fails \subseteq 1 .. n /\ fails \subseteq Nat
        BY <1>4, <1>7
      <3>2. Min(fails) \in fails
        BY <2>2, <3>1, MinIn
      <3>3. last \in 1 .. n
        BY <1>8, <2>2, <3>1, <3>2
      <3>. QED  BY <2>2, <3>3
    <2>. QED  BY <2>1, <2>2
  <1>10. PICK d : d = UNION {found[i].dialed : i \in 1 .. last}
    OBVIOUS
  <1>11. 1 .. last \subseteq 1 .. n
    BY <1>9
  <1>12. d \subseteq Ips /\ (c.privateOnly => \A a \in d : Class[a] # "public")
    BY <1>6, <1>10, <1>11
  <1>13. PICK as : as = [i \in DOMAIN found |-> found[i].addr]
    OBVIOUS
  <1>14. resolveRPCHosts(c, w) = [addrs |-> IF fails = {} THEN as ELSE None, dialed |-> d]
    BY <1>1, <1>3, <1>7, <1>8, <1>10, <1>13 DEF resolveRPCHosts
  <1>15. ASSUME fails = {}
         PROVE  /\ as \in Seq(Hosts) /\ Len(as) = n
                /\ c.privateOnly => ToSet(as) \subseteq d
    <2>1. DOMAIN as = 1 .. n /\ \A i \in 1 .. n : as[i] = found[i].addr
      BY <1>4, <1>13
    <2>2. \A i \in 1 .. n : as[i] # None
      BY <1>4, <1>7, <1>15, <2>1
    <2>3. \A i \in 1 .. n : as[i] \in Hosts
      BY <1>6, <2>1, <2>2
    <2>4. as = [i \in 1 .. n |-> found[i].addr] /\ \A i \in 1 .. n : found[i].addr \in Hosts
      BY <1>4, <1>13, <2>1, <2>3
    <2>5. as \in Seq(Hosts)
      BY <2>4
    <2>6. Len(as) = n
      BY <2>1, <2>5
    <2>7. ASSUME c.privateOnly, NEW i \in 1 .. n PROVE as[i] \in d
      BY <1>6, <1>9, <1>10, <1>15, <2>1, <2>2, <2>7
    <2>. QED  BY <2>1, <2>5, <2>6, <2>7 DEF ToSet
  <1>16. /\ resolveRPCHosts(c, w).dialed = d
         /\ resolveRPCHosts(c, w).addrs = IF fails = {} THEN as ELSE None
    BY <1>14
  <1>. QED  BY <1>2, <1>12, <1>15, <1>16

LEMMA Probed ==
  ASSUME NEW c \in Config, NEW w \in World, NEW x \in Node
  PROVE  /\ probeNode(c, w, x).up \in BOOLEAN
         /\ probeNode(c, w, x).dialed \subseteq Ips
         /\ c.privateOnly => \A a \in probeNode(c, w, x).dialed : Class[a] # "public"
  <1>1. c.privateOnly \in BOOLEAN /\ x.host \in Hosts
    BY DEF Config, Node
  <1>2. PICK p \in BOOLEAN : p = c.privateOnly
    BY <1>1
  <1>3. PICK host \in Hosts : host = x.host
    BY <1>1
  <1>4. PICK found : found = resolveRPCAddr(w, host, p)
    OBVIOUS
  <1>5. found.dialed \subseteq Ips /\ (p => \A a \in found.dialed : Class[a] # "public")
    BY <1>4, Resolved
  <1>6. PICK b \in BOOLEAN : b = (found.addr # None \/ (host \in ToSet(Addresses) \/ w.dns[host] # {}))
    OBVIOUS
  <1>7. \/ probeNode(c, w, x) = [up |-> TRUE, dialed |-> {}]
        \/ probeNode(c, w, x) = [up |-> FALSE, dialed |-> {}]
        \/ probeNode(c, w, x) = [up |-> b, dialed |-> found.dialed]
    BY <1>2, <1>3, <1>4, <1>6 DEF probeNode
  <1>8. PICK q : q = probeNode(c, w, x)
    OBVIOUS
  <1>9. q.up \in BOOLEAN /\ (q.dialed = {} \/ q.dialed = found.dialed)
    <2>1. CASE q = [up |-> TRUE, dialed |-> {}]
      BY <2>1
    <2>2. CASE q = [up |-> FALSE, dialed |-> {}]
      BY <2>2
    <2>3. CASE q = [up |-> b, dialed |-> found.dialed]
      <3>1. q.up = b /\ q.dialed = found.dialed
        BY <2>3
      <3>. QED  BY <3>1
    <2>. QED  BY <1>7, <1>8, <2>1, <2>2, <2>3
  <1>. QED  BY <1>2, <1>5, <1>8, <1>9

-----------------------------------------------------------------------------
(* Steps, by what they leave alone.                                          *)

LEMMA SeqSet ==
  ASSUME NEW T, NEW q \in Seq(T), NEW i \in DOMAIN q, NEW x \in T
  PROVE  /\ [q EXCEPT ![i] = x] \in Seq(T)
         /\ Len([q EXCEPT ![i] = x]) = Len(q)
         /\ DOMAIN [q EXCEPT ![i] = x] = DOMAIN q
         /\ [q EXCEPT ![i] = x][i] = x
         /\ \A j \in DOMAIN q : j # i => [q EXCEPT ![i] = x][j] = q[j]
  OBVIOUS

LEMMA SeqAdd ==
  ASSUME NEW T, NEW q \in Seq(T), NEW x \in T
  PROVE  /\ Append(q, x) \in Seq(T)
         /\ Len(q) \in Nat /\ Len(Append(q, x)) = Len(q) + 1
         /\ DOMAIN q = 1 .. Len(q) /\ DOMAIN Append(q, x) = 1 .. Len(q) + 1
         /\ Append(q, x)[Len(q) + 1] = x
         /\ \A j \in DOMAIN q : Append(q, x)[j] = q[j]
  OBVIOUS

\* The supervisors keep what they were made for, and those that have not been
\* launched are not.
SupsKept ==
  /\ DOMAIN sups \subseteq DOMAIN sups'
  /\ \A s \in DOMAIN sups : /\ sups'[s].backend = sups[s].backend
                            /\ sups'[s].model = sups[s].model
                            /\ sups'[s].rpc = sups[s].rpc

NoneKept == \A s \in DOMAIN sups : sups[s].watch = "none" => sups'[s].watch = "none"

LEMMA SpreadKept ==
  ASSUME SpreadInv, cfg' = cfg, SupsKept, DOMAIN sups' = DOMAIN sups PROVE SpreadInv'
  <1>1. SUFFICES ASSUME NEW s \in DOMAIN sups PROVE Spreads(cfg, sups'[s].model)
    BY DEF SpreadInv
  <1>. QED  BY DEF SpreadInv, SupsKept

LEMMA DialKept ==
  ASSUME DialInv, cfg' = cfg, SupsKept, DOMAIN sups' = DOMAIN sups,
         dialed \subseteq dialed', cfg.privateOnly => \A a \in dialed' : Class[a] # "public"
  PROVE  DialInv'
  <1>1. SUFFICES ASSUME cfg.privateOnly, NEW s \in DOMAIN sups, sups[s].backend = Llama
                 PROVE  /\ cfg.rpcHosts = <<>> => Len(sups[s].rpc) = Len(WorkerNodes(cfg))
                        /\ ToSet(sups[s].rpc) \subseteq dialed'
    BY DEF DialInv, SupsKept
  <1>. QED  BY <1>1 DEF DialInv

LEMMA GoodKept ==
  ASSUME NEW q, RequestGood(q), cfg' = cfg, DOMAIN sups \subseteq DOMAIN sups',
         q.pc = "launch" => sups'[q.sup].watch = "none"
  PROVE  RequestGood(q)'
  BY DEF RequestGood

LEMMA GoodKept2 ==
  ASSUME RequestsInv, DistinctInv, cfg' = cfg, SupsKept, NoneKept, UNCHANGED req
  PROVE  RequestsInv' /\ DistinctInv'
  <1>1. ASSUME NEW r \in Requests PROVE RequestGood(req[r])'
    <2>1. RequestGood(req[r])
      BY DEF RequestsInv
    <2>2. req[r].pc = "launch" => sups'[req[r].sup].watch = "none"
      BY <2>1 DEF RequestGood, NoneKept
    <2>3. DOMAIN sups \subseteq DOMAIN sups'
      BY DEF SupsKept
    <2>4. PICK q : q = req[r]
      OBVIOUS
    <2>5. RequestGood(q)'
      BY <2>1, <2>2, <2>3, <2>4, GoodKept
    <2>. QED  BY <2>4, <2>5
  <1>. QED  BY <1>1 DEF RequestsInv, DistinctInv

-----------------------------------------------------------------------------
(* Steps of a request.                                                       *)

InWork == [pc : Working, m : Model, sup : Nat, order : Seq(Words)]

Others(r) ==
  /\ req' \in [Requests -> Request]
  /\ \A q \in Requests : q # r => req'[q] = req[q]

LEMMA WorkShape == ASSUME NEW q \in Request, q.pc \in Working PROVE q \in InWork
  <1>1. q # Idle
    BY DEF Idle, Working
  <1>2. q \notin [pc : {"chat"}, m : Model, backend : Backends]
    BY DEF Working
  <1>. QED  BY <1>1, <1>2 DEF Request, InWork

LEMMA TailSeq == ASSUME NEW T, NEW q \in Seq(T), q # <<>> PROVE Tail(q) \in Seq(T)
  OBVIOUS

LEMMA WorkIsRequest == InWork \subseteq Request
  BY DEF InWork, Request

LEMMA Replaced ==
  ASSUME TypeOK, NEW r \in Requests, NEW q \in Request, req' = [req EXCEPT ![r] = q]
  PROVE  Others(r) /\ req'[r] = q
  BY DEF TypeOK, Others

LEMMA Stepped ==
  ASSUME TypeOK, NEW r \in Requests, req[r].pc \in Working, NEW pc \in Working, Step(r, pc)
  PROVE  /\ Others(r)
         /\ req'[r].pc = pc /\ req'[r].m = req[r].m /\ req'[r].sup = req[r].sup
         /\ req'[r].order = req[r].order
  <1>1. req[r] \in InWork /\ req \in [Requests -> Request]
    BY WorkShape DEF TypeOK
  <1>2. PICK q : q = [req[r] EXCEPT !.pc = pc]
    OBVIOUS
  <1>3. q \in InWork /\ q.pc = pc /\ q.m = req[r].m /\ q.sup = req[r].sup /\ q.order = req[r].order
    BY <1>1, <1>2 DEF InWork
  <1>4. req' = [req EXCEPT ![r] = q]
    BY <1>1, <1>2 DEF Step
  <1>5. Others(r) /\ req'[r] = q
    BY <1>3, <1>4, WorkIsRequest, Replaced
  <1>. QED  BY <1>3, <1>5

LEMMA Passed ==
  ASSUME TypeOK, NEW r \in Requests, req[r].pc \in Working, req[r].order # <<>>, TryNext(r)
  PROVE  Others(r) /\ req'[r].pc = "select"
  <1>1. req[r] \in InWork /\ req \in [Requests -> Request]
    BY WorkShape DEF TypeOK
  <1>2. PICK q : q = [[req[r] EXCEPT !.pc = "select"] EXCEPT !.order = Tail(@)]
    OBVIOUS
  <1>3. req[r].order \in Seq(Words)
    BY <1>1 DEF InWork
  <1>4. PICK o : o = Tail(req[r].order)
    OBVIOUS
  <1>5. o \in Seq(Words)
    BY <1>3, <1>4, TailSeq
  <1>6. q = [req[r] EXCEPT !.pc = "select", !.order = o]
    BY <1>1, <1>2, <1>4 DEF InWork
  <1>7. q \in InWork /\ q.pc = "select"
    BY <1>1, <1>5, <1>6 DEF InWork, Working
  <1>8. req' = [req EXCEPT ![r] = q]
    BY <1>1, <1>4, <1>6 DEF TryNext
  <1>. QED  BY <1>7, <1>8, WorkIsRequest, Replaced

\* A step that changes one request, and launches nothing.
LEMMA ReqOnly ==
  ASSUME ClusterInv, NEW r \in Requests, ~Booting, Others(r), RequestGood(req'[r]), req'[r].pc # "launch",
         UNCHANGED <<cfg, phase, world, health, sweep, sup, sups, kids, stopping>>,
         dialed \subseteq dialed', dialed' \subseteq Ips,
         cfg.privateOnly => \A a \in dialed' : Class[a] # "public",
         started' \in [Backends -> BOOLEAN], requests' \in Nat, events' \in Nat
  PROVE  ClusterInv'
  <1>1. TypeOK'
    BY DEF ClusterInv, TypeOK, Others, Ips
  <1>2. BootInv'
    BY DEF ClusterInv, BootInv, Booting
  <1>3. LinkInv'
    BY DEF ClusterInv, LinkInv
  <1>4. SupervisedInv'
    BY DEF ClusterInv, SupervisedInv, Supervised, Own
  <1>5. RequestsInv'
    <2>1. ASSUME NEW q \in Requests PROVE RequestGood(req'[q])
      BY DEF ClusterInv, RequestsInv, Others
    <2>2. \A q \in Requests : RequestGood(req'[q]) => RequestGood(req[q])'
      BY DEF RequestGood
    <2>. QED  BY <2>1, <2>2 DEF RequestsInv
  <1>6. DistinctInv'
    BY DEF ClusterInv, DistinctInv, Others
  <1>7. SupsKept
    BY DEF SupsKept
  <1>. QED  BY <1>1, <1>2, <1>3, <1>4, <1>5, <1>6, <1>7, SpreadKept, DialKept DEF ClusterInv

-----------------------------------------------------------------------------
(* Steps of processes and their supervisors.                                 *)

LEMMA OwnFinite ==
  ASSUME TypeOK, NEW s PROVE IsFiniteSet(Own(s)) /\ Cardinality(Own(s)) \in Nat
  <1>1. IsFiniteSet(1 .. Len(kids))
    BY FS_Interval DEF TypeOK
  <1>2. Own(s) \subseteq 1 .. Len(kids)
    BY DEF TypeOK, Own
  <1>. QED  BY <1>1, <1>2, FS_Subset, FS_CardinalityType

\* A supervisor that does not move, whose processes only end.
LEMMA SupervisedKept ==
  ASSUME NEW s, Supervised(s), cfg' = cfg, Own(s)' = Own(s),
         \A k \in Own(s) : kids[k].st = "gone" => kids'[k].st = "gone",
         sups'[s].restarts = sups[s].restarts, sups'[s].watch = sups[s].watch, sups'[s].cmd = sups[s].cmd
  PROVE  Supervised(s)'
  BY DEF Supervised

\* Nothing but the states of processes changes, and who is gone stays so.
KidsKept ==
  /\ kids' \in Seq(Process) /\ Len(kids') = Len(kids) /\ DOMAIN kids' = DOMAIN kids
  /\ \A k \in DOMAIN kids : kids'[k].sup = kids[k].sup
  /\ \A k \in DOMAIN kids : kids[k].st = "gone" => kids'[k].st = "gone"

LEMMA OwnKept == ASSUME KidsKept, NEW s PROVE Own(s)' = Own(s)
  BY DEF KidsKept, Own

LEMMA KidSet ==
  ASSUME TypeOK, NEW k \in DOMAIN kids, NEW st \in {"new", "serving", "gone"},
         kids[k].st = "gone" => st = "gone", kids' = [kids EXCEPT ![k].st = st]
  PROVE  KidsKept /\ kids'[k].st = st
  <1>1. kids \in Seq(Process) /\ kids[k] \in Process
    BY DEF TypeOK
  <1>2. PICK x : x = [kids[k] EXCEPT !.st = st]
    OBVIOUS
  <1>3. x \in Process /\ x.sup = kids[k].sup /\ x.st = st
    BY <1>1, <1>2 DEF Process
  <1>4. kids' = [kids EXCEPT ![k] = x]
    BY <1>1, <1>2
  <1>5. /\ kids' \in Seq(Process) /\ Len(kids') = Len(kids) /\ DOMAIN kids' = DOMAIN kids
        /\ kids'[k] = x /\ \A j \in DOMAIN kids : j # k => kids'[j] = kids[j]
    BY <1>1, <1>3, <1>4, SeqSet
  <1>. QED  BY <1>3, <1>5 DEF KidsKept

LEMMA ProcOnly ==
  ASSUME ClusterInv, ~Booting, ~Booting', SupsKept, DOMAIN sups' = DOMAIN sups, NoneKept,
         kids' \in Seq(Process), sups' \in Seq(Supervisor), LinkInv', SupervisedInv',
         UNCHANGED <<cfg, world, health, sweep, dialed, sup, req, requests>>,
         phase' \in {"boot", "discover", "up", "closing", "closed", "refused"},
         started' \in [Backends -> BOOLEAN], stopping' \subseteq Backends, events' \in Nat
  PROVE  ClusterInv'
  <1>1. TypeOK'
    BY DEF ClusterInv, TypeOK
  <1>2. BootInv'
    BY DEF ClusterInv, BootInv, Booting
  <1>3. RequestsInv' /\ DistinctInv'
    BY GoodKept2 DEF ClusterInv
  <1>4. dialed' = dialed /\ (cfg.privateOnly => \A a \in dialed : Class[a] # "public")
    BY DEF ClusterInv, DialInv
  <1>. QED  BY <1>1, <1>2, <1>3, <1>4, SpreadKept, DialKept DEF ClusterInv

LEMMA KidsOnly ==
  ASSUME ClusterInv, ~Booting, KidsKept, UNCHANGED <<cfg, phase, world, health, sweep, dialed, started, sup, sups, req, stopping, requests>>,
         events' \in Nat
  PROVE  ClusterInv'
  <1>1. LinkInv'
    BY DEF ClusterInv, LinkInv, KidsKept
  <1>2. SupervisedInv'
    <2>1. ASSUME NEW s \in DOMAIN sups PROVE Supervised(s)'
      <3>1. Supervised(s)
        BY DEF ClusterInv, SupervisedInv
      <3>2. \A k \in Own(s) : kids[k].st = "gone" => kids'[k].st = "gone"
        BY DEF KidsKept, Own
      <3>. QED  BY <3>1, <3>2, OwnKept, SupervisedKept
    <2>. QED  BY <2>1 DEF SupervisedInv
  <1>3. kids' \in Seq(Process) /\ sups' \in Seq(Supervisor) /\ started' \in [Backends -> BOOLEAN] /\ stopping' \subseteq Backends
    BY DEF ClusterInv, TypeOK, KidsKept
  <1>4. phase' \in {"boot", "discover", "up", "closing", "closed", "refused"} /\ ~Booting'
    BY DEF ClusterInv, TypeOK, Booting
  <1>5. SupsKept /\ NoneKept /\ DOMAIN sups' = DOMAIN sups
    BY DEF SupsKept, NoneKept
  <1>. QED  BY <1>1, <1>2, <1>3, <1>4, <1>5, ProcOnly

LEMMA HasKids == ASSUME ClusterInv, NEW k \in DOMAIN kids PROVE ~Booting
  BY DEF ClusterInv, BootInv

LEMMA HasSups == ASSUME ClusterInv, NEW s \in DOMAIN sups PROVE ~Booting
  BY DEF ClusterInv, BootInv

LEMMA KidServesKeeps == ASSUME ClusterInv, NEW k \in DOMAIN kids, KidServes(k) PROVE ClusterInv'
  <1>1. kids[k].st = "new" /\ kids' = [kids EXCEPT ![k].st = "serving"]
    BY DEF KidServes
  <1>2. KidsKept
    BY <1>1, KidSet DEF ClusterInv
  <1>3. UNCHANGED <<cfg, phase, world, health, sweep, dialed, started, sup, sups, req, stopping, requests, events>>
    BY DEF KidServes, nodeHealth, bounds
  <1>4. events' \in Nat
    BY <1>3 DEF ClusterInv, TypeOK
  <1>. QED  BY <1>2, <1>3, <1>4, HasKids, KidsOnly

LEMMA KidExitsKeeps == ASSUME ClusterInv, NEW k \in DOMAIN kids, KidExits(k) PROVE ClusterInv'
  <1>1. kids' = [kids EXCEPT ![k].st = "gone"]
    BY DEF KidExits
  <1>2. KidsKept
    BY <1>1, KidSet DEF ClusterInv
  <1>3. UNCHANGED <<cfg, phase, world, health, sweep, dialed, started, sup, sups, req, stopping, requests>>
    BY DEF KidExits, nodeHealth
  <1>4. events' \in Nat
    BY DEF KidExits, ClusterInv, TypeOK
  <1>. QED  BY <1>2, <1>3, <1>4, HasKids, KidsOnly

LEMMA SupSet ==
  ASSUME TypeOK, NEW s \in DOMAIN sups, NEW x \in Supervisor, sups' = [sups EXCEPT ![s] = x],
         x.backend = sups[s].backend, x.model = sups[s].model, x.rpc = sups[s].rpc
  PROVE  /\ sups' \in Seq(Supervisor) /\ DOMAIN sups' = DOMAIN sups /\ Len(sups') = Len(sups)
         /\ SupsKept /\ sups'[s] = x /\ \A t \in DOMAIN sups : t # s => sups'[t] = sups[t]
  <1>1. sups \in Seq(Supervisor)
    BY DEF TypeOK
  <1>2. /\ sups' \in Seq(Supervisor) /\ DOMAIN sups' = DOMAIN sups /\ Len(sups') = Len(sups)
        /\ sups'[s] = x /\ \A t \in DOMAIN sups : t # s => sups'[t] = sups[t]
    BY <1>1, SeqSet
  <1>. QED  BY <1>2 DEF SupsKept

\* A watcher that launches nothing.
LEMMA WatcherMoves ==
  ASSUME ClusterInv, NEW s \in DOMAIN sups, NEW x \in Supervisor, sups' = [sups EXCEPT ![s] = x],
         x.backend = sups[s].backend, x.model = sups[s].model, x.rpc = sups[s].rpc, x.cmd = sups[s].cmd,
         sups[s].watch # "none", Supervised(s)',
         UNCHANGED <<cfg, phase, world, health, sweep, dialed, started, sup, kids, req, stopping, requests, events>>
  PROVE  ClusterInv'
  <1>1. /\ sups' \in Seq(Supervisor) /\ DOMAIN sups' = DOMAIN sups /\ Len(sups') = Len(sups)
        /\ SupsKept /\ sups'[s] = x /\ \A t \in DOMAIN sups : t # s => sups'[t] = sups[t]
    BY SupSet DEF ClusterInv
  <1>2. NoneKept
    BY <1>1 DEF NoneKept
  <1>3. LinkInv'
    BY <1>1 DEF ClusterInv, LinkInv
  <1>4. SupervisedInv'
    <2>1. ASSUME NEW t \in DOMAIN sups, t # s PROVE Supervised(t)'
      <3>1. Supervised(t)
        BY DEF ClusterInv, SupervisedInv
      <3>2. sups'[t] = sups[t] /\ Own(t)' = Own(t)
        BY <1>1, <2>1 DEF Own
      <3>. QED  BY <3>1, <3>2, SupervisedKept
    <2>. QED  BY <1>1, <2>1 DEF SupervisedInv
  <1>5. /\ kids' \in Seq(Process) /\ started' \in [Backends -> BOOLEAN] /\ stopping' \subseteq Backends /\ events' \in Nat
        /\ phase' \in {"boot", "discover", "up", "closing", "closed", "refused"}
    BY DEF ClusterInv, TypeOK
  <1>6. ~Booting /\ ~Booting'
    BY HasSups DEF Booting
  <1>. QED  BY <1>1, <1>2, <1>3, <1>4, <1>5, <1>6, ProcOnly

LEMMA watchKeeps == ASSUME ClusterInv, NEW s \in DOMAIN sups, watch(s) PROVE ClusterInv'
  <1>1. sups[s] \in Supervisor /\ cfg \in Config /\ Supervised(s)
    BY DEF ClusterInv, TypeOK, SupervisedInv
  <1>2. sups[s].watch = "wait" /\ kids[sups[s].cmd].st = "gone"
    BY DEF watch, Live
  <1>3. UNCHANGED <<cfg, phase, world, health, sweep, dialed, started, sup, kids, req, stopping, requests, events>>
    BY DEF watch, nodeHealth, bounds
  <1>4. Own(s)' = Own(s)
    BY <1>3 DEF Own
  <1>5. sups[s].restarts \in Nat /\ cfg.maxRestarts \in Int /\ Cardinality(Own(s)) \in Nat
    BY <1>1, OwnFinite DEF Supervisor, Config, ClusterInv
  <1>6. \A k \in Own(s) : kids[k].st = "gone"
    BY <1>1, <1>2 DEF Supervised
  <1>7. Cardinality(Own(s)) <= sups[s].restarts + 1
    BY <1>1, <1>2 DEF Supervised
  <1>. PICK x : x = IF sups[s].stopping THEN [sups[s] EXCEPT !.watch = "gone"]
                    ELSE IF cfg.policy = "on_failure" /\ sups[s].restarts < cfg.maxRestarts
                    THEN [sups[s] EXCEPT !.watch = "backoff", !.restarts = sups[s].restarts + 1]
                    ELSE [sups[s] EXCEPT !.watch = "gone", !.dead = TRUE]
    OBVIOUS
  <1>8. sups' = [sups EXCEPT ![s] = x]
    <2>1. CASE sups[s].stopping
      BY <1>1, <2>1 DEF watch
    <2>2. CASE ~sups[s].stopping /\ cfg.policy = "on_failure" /\ sups[s].restarts < cfg.maxRestarts
      BY <1>1, <2>2 DEF watch
    <2>3. CASE ~sups[s].stopping /\ ~(cfg.policy = "on_failure" /\ sups[s].restarts < cfg.maxRestarts)
      BY <1>1, <2>3 DEF watch
    <2>. QED  BY <2>1, <2>2, <2>3
  <1>9. /\ x \in Supervisor /\ x.backend = sups[s].backend /\ x.model = sups[s].model /\ x.rpc = sups[s].rpc /\ x.cmd = sups[s].cmd
        /\ \/ x.watch = "gone" /\ x.restarts = sups[s].restarts
           \/ x.watch = "backoff" /\ x.restarts = sups[s].restarts + 1 /\ sups[s].restarts < cfg.maxRestarts
    <2>1. CASE sups[s].stopping
      BY <1>1, <1>8, <2>1 DEF Supervisor
    <2>2. CASE ~sups[s].stopping /\ cfg.policy = "on_failure" /\ sups[s].restarts < cfg.maxRestarts
      <3>1. x = [sups[s] EXCEPT !.watch = "backoff", !.restarts = sups[s].restarts + 1]
        BY <1>8, <2>2
      <3>2. sups[s].restarts + 1 \in Nat
        BY <1>5
      <3>. QED  BY <1>1, <2>2, <3>1, <3>2 DEF Supervisor
    <2>3. CASE ~sups[s].stopping /\ ~(cfg.policy = "on_failure" /\ sups[s].restarts < cfg.maxRestarts)
      <3>1. x = [sups[s] EXCEPT !.watch = "gone", !.dead = TRUE]
        BY <1>8, <2>3
      <3>. QED  BY <1>1, <3>1 DEF Supervisor
    <2>. QED  BY <2>1, <2>2, <2>3
  <1>10. sups'[s] = x
    BY <1>8, <1>9, SupSet DEF ClusterInv
  <1>11. Supervised(s)'
    <2>1. CASE x.watch = "gone" /\ x.restarts = sups[s].restarts
      BY <1>1, <1>3, <1>4, <1>6, <1>7, <1>9, <1>10, <2>1 DEF Supervised
    <2>2. CASE x.watch = "backoff" /\ x.restarts = sups[s].restarts + 1 /\ sups[s].restarts < cfg.maxRestarts
      <3>1. x.restarts <= cfg.maxRestarts
        BY <1>5, <2>2
      <3>. QED  BY <1>3, <1>4, <1>6, <1>7, <1>9, <1>10, <2>2, <3>1 DEF Supervised
    <2>. QED  BY <1>9, <2>1, <2>2
  <1>. QED  BY <1>2, <1>3, <1>8, <1>9, <1>11, WatcherMoves

LEMMA watchBackoffKeeps == ASSUME ClusterInv, NEW s \in DOMAIN sups, watchBackoff(s) PROVE ClusterInv'
  <1>1. sups[s] \in Supervisor /\ sups \in Seq(Supervisor) /\ Supervised(s) /\ sups[s].watch = "backoff"
    BY DEF ClusterInv, TypeOK, SupervisedInv, watchBackoff
  <1>2. UNCHANGED <<cfg, phase, world, health, sweep, dialed, started, sup, kids, req, stopping, requests, events>>
    BY DEF watchBackoff, nodeHealth, bounds
  <1>3. Own(s)' = Own(s)
    BY <1>2 DEF Own
  <1>4. PICK w \in {"gone", "launch"} : sups' = [sups EXCEPT ![s].watch = w]
    BY DEF watchBackoff
  <1>5. PICK x : x = [sups[s] EXCEPT !.watch = w]
    OBVIOUS
  <1>6. /\ x \in Supervisor /\ x.backend = sups[s].backend /\ x.model = sups[s].model /\ x.rpc = sups[s].rpc /\ x.cmd = sups[s].cmd
        /\ x.watch = w /\ x.restarts = sups[s].restarts
    BY <1>1, <1>5 DEF Supervisor
  <1>7. sups' = [sups EXCEPT ![s] = x]
    BY <1>1, <1>4, <1>5
  <1>8. sups'[s] = x
    BY <1>6, <1>7, SupSet DEF ClusterInv
  <1>9. sups[s].restarts \in Nat /\ Cardinality(Own(s)) \in Nat
    BY <1>1, OwnFinite DEF Supervisor, ClusterInv
  <1>10. Supervised(s)'
    BY <1>1, <1>2, <1>3, <1>6, <1>8, <1>9 DEF Supervised
  <1>. QED  BY <1>1, <1>2, <1>6, <1>7, <1>10, WatcherMoves

\* The launch of a process: the first one, or after the last has gone.
LEMMA Launches ==
  ASSUME ClusterInv, NEW s \in DOMAIN sups, sups[s].watch \in {"none", "launch"}, launch(s), cfg' = cfg, sup' = sup
  PROVE  /\ kids' \in Seq(Process) /\ sups' \in Seq(Supervisor) /\ DOMAIN sups' = DOMAIN sups /\ SupsKept
         /\ \A t \in DOMAIN sups : t # s => sups'[t] = sups[t]
         /\ LinkInv' /\ SupervisedInv'
  <1>1. sups[s] \in Supervisor /\ sups \in Seq(Supervisor) /\ kids \in Seq(Process) /\ Supervised(s)
    BY DEF ClusterInv, TypeOK, SupervisedInv
  <1>2. PICK k : k = [sup |-> s, backend |-> sups[s].backend, st |-> "new"]
    OBVIOUS
  <1>3. k \in Process /\ k.sup = s
    <2>1. s \in Nat /\ sups[s].backend \in Backends
      BY <1>1 DEF Supervisor
    <2>. QED  BY <1>2, <2>1 DEF Process
  <1>4. PICK n \in Nat : n = Len(kids)
    BY <1>1
  <1>5. kids' = Append(kids, k)
    BY <1>2 DEF launch
  <1>6. /\ kids' \in Seq(Process) /\ Len(kids') = n + 1 /\ DOMAIN kids = 1 .. n /\ DOMAIN kids' = 1 .. n + 1
        /\ kids'[n + 1] = k /\ \A j \in 1 .. n : kids'[j] = kids[j]
    BY <1>1, <1>3, <1>4, <1>5, SeqAdd
  <1>7. PICK x : x = [sups[s] EXCEPT !.cmd = n + 1, !.watch = "wait"]
    OBVIOUS
  <1>8. /\ x \in Supervisor /\ x.backend = sups[s].backend /\ x.model = sups[s].model /\ x.rpc = sups[s].rpc
        /\ x.cmd = n + 1 /\ x.watch = "wait" /\ x.restarts = sups[s].restarts
    <2>1. PICK z \in Nat : z = n + 1
      OBVIOUS
    <2>2. x = [sups[s] EXCEPT !.cmd = z, !.watch = "wait"]
      BY <1>7, <2>1
    <2>. QED  BY <1>1, <2>1, <2>2 DEF Supervisor
  <1>9. sups' = [sups EXCEPT ![s] = x]
    BY <1>1, <1>4, <1>7 DEF launch
  <1>10. /\ sups' \in Seq(Supervisor) /\ DOMAIN sups' = DOMAIN sups /\ Len(sups') = Len(sups)
         /\ SupsKept /\ sups'[s] = x /\ \A t \in DOMAIN sups : t # s => sups'[t] = sups[t]
    BY <1>8, <1>9, SupSet DEF ClusterInv
  <1>11. LinkInv'
    <2>1. \A b \in Backends : sup'[b] <= Len(sups')
      BY <1>10 DEF ClusterInv, LinkInv
    <2>2. \A j \in DOMAIN kids' : kids'[j].sup \in DOMAIN sups'
      BY <1>3, <1>6, <1>10 DEF ClusterInv, LinkInv
    <2>3. ASSUME NEW t \in DOMAIN sups PROVE sups'[t].cmd <= Len(kids')
      <3>1. sups[t] \in Supervisor
        BY <1>1
      <3>2. sups[t].cmd \in Nat
        BY <3>1 DEF Supervisor
      <3>3. sups[t].cmd <= n
        BY <1>4 DEF ClusterInv, LinkInv
      <3>4. sups'[t].cmd <= n + 1
        BY <1>8, <1>10, <3>2, <3>3
      <3>. QED  BY <1>6, <3>4
    <2>. QED  BY <1>10, <2>1, <2>2, <2>3 DEF LinkInv
  <1>12. ASSUME NEW t \in DOMAIN sups, t # s PROVE Supervised(t)'
    <2>1. Supervised(t) /\ sups'[t] = sups[t]
      BY <1>10, <1>12 DEF ClusterInv, SupervisedInv
    <2>2. Own(t)' = Own(t)
      BY <1>3, <1>6, <1>12 DEF Own
    <2>3. \A j \in Own(t) : kids'[j] = kids[j]
      BY <1>6 DEF Own
    <2>. QED  BY <2>1, <2>2, <2>3, SupervisedKept
  <1>13. Supervised(s)'
    <2>1. PICK O : O = Own(s)
      OBVIOUS
    <2>2. Own(s)' = O \cup {n + 1} /\ n + 1 \notin O
      BY <1>3, <1>6, <2>1 DEF Own
    <2>3. IsFiniteSet(O) /\ Cardinality(O) \in Nat /\ sups[s].restarts \in Nat
      BY <1>1, <2>1, OwnFinite DEF ClusterInv, Supervisor
    <2>4. Cardinality(O \cup {n + 1}) = Cardinality(O) + 1
      BY <2>2, <2>3, FS_AddElement
    <2>5. Cardinality(O) <= sups[s].restarts
      BY <1>1, <2>1, <2>3, FS_EmptySet DEF Supervised
    <2>6. \A j \in O : kids[j].st = "gone" /\ kids'[j] = kids[j]
      BY <1>1, <1>6, <2>1 DEF Supervised, Own
    <2>7. Cardinality(Own(s)') <= sups[s].restarts + 1
      BY <2>2, <2>3, <2>4, <2>5
    <2>8. \A j \in Own(s)' : j # x.cmd => kids'[j].st = "gone"
      BY <1>8, <2>2, <2>6
    <2>9. sups[s].restarts = 0 \/ sups[s].restarts <= cfg.maxRestarts
      BY <1>1 DEF Supervised
    <2>. QED  BY <1>4, <1>8, <1>10, <2>7, <2>8, <2>9 DEF Supervised
  <1>. QED  BY <1>6, <1>10, <1>11, <1>12, <1>13 DEF SupervisedInv

LEMMA watchLaunchKeeps == ASSUME ClusterInv, NEW s \in DOMAIN sups, watchLaunch(s) PROVE ClusterInv'
  <1>1. sups[s] \in Supervisor /\ sups \in Seq(Supervisor) /\ Supervised(s) /\ sups[s].watch = "launch"
    BY DEF ClusterInv, TypeOK, SupervisedInv, watchLaunch
  <1>2. UNCHANGED <<cfg, phase, world, health, sweep, dialed, started, sup, req, stopping, requests, events>>
    BY DEF watchLaunch, nodeHealth, bounds
  <1>3. CASE launch(s)
    <2>1. /\ kids' \in Seq(Process) /\ sups' \in Seq(Supervisor) /\ DOMAIN sups' = DOMAIN sups /\ SupsKept
          /\ \A t \in DOMAIN sups : t # s => sups'[t] = sups[t]
          /\ LinkInv' /\ SupervisedInv'
      BY <1>1, <1>2, <1>3, Launches
    <2>2. NoneKept
      BY <1>1, <2>1 DEF NoneKept
    <2>3. /\ started' \in [Backends -> BOOLEAN] /\ stopping' \subseteq Backends /\ events' \in Nat
          /\ phase' \in {"boot", "discover", "up", "closing", "closed", "refused"}
      BY <1>2 DEF ClusterInv, TypeOK
    <2>4. ~Booting /\ ~Booting'
      BY <1>2, HasSups DEF Booting
    <2>. QED  BY <1>2, <2>1, <2>2, <2>3, <2>4, ProcOnly
  <1>4. CASE sups' = [sups EXCEPT ![s].watch = "gone"] /\ UNCHANGED kids
    <2>1. PICK x : x = [sups[s] EXCEPT !.watch = "gone"]
      OBVIOUS
    <2>2. /\ x \in Supervisor /\ x.backend = sups[s].backend /\ x.model = sups[s].model /\ x.rpc = sups[s].rpc /\ x.cmd = sups[s].cmd
          /\ x.watch = "gone" /\ x.restarts = sups[s].restarts
      BY <1>1, <2>1 DEF Supervisor
    <2>3. sups' = [sups EXCEPT ![s] = x]
      BY <1>1, <1>4, <2>1
    <2>4. sups'[s] = x
      BY <2>2, <2>3, SupSet DEF ClusterInv
    <2>5. sups[s].restarts \in Nat /\ Cardinality(Own(s)) \in Nat /\ Own(s)' = Own(s)
      BY <1>1, <1>4, OwnFinite DEF Supervisor, ClusterInv, Own
    <2>6. Supervised(s)'
      BY <1>1, <1>2, <1>4, <2>2, <2>4, <2>5 DEF Supervised
    <2>. QED  BY <1>1, <1>2, <1>4, <2>2, <2>3, <2>6, WatcherMoves
  <1>. QED  BY <1>3, <1>4 DEF watchLaunch

LEMMA Stops ==
  ASSUME ClusterInv, NEW s \in DOMAIN sups, Stop(s), cfg' = cfg, sup' = sup
  PROVE  /\ kids' \in Seq(Process) /\ sups' \in Seq(Supervisor) /\ DOMAIN sups' = DOMAIN sups
         /\ SupsKept /\ NoneKept /\ LinkInv' /\ SupervisedInv'
  <1>1. sups[s] \in Supervisor /\ sups \in Seq(Supervisor) /\ kids \in Seq(Process)
    BY DEF ClusterInv, TypeOK
  <1>2. PICK x : x = [sups[s] EXCEPT !.stopping = TRUE, !.started = FALSE]
    OBVIOUS
  <1>3. /\ x \in Supervisor /\ x.backend = sups[s].backend /\ x.model = sups[s].model /\ x.rpc = sups[s].rpc
        /\ x.cmd = sups[s].cmd /\ x.watch = sups[s].watch /\ x.restarts = sups[s].restarts
    BY <1>1, <1>2 DEF Supervisor
  <1>4. sups' = [sups EXCEPT ![s] = x]
    BY <1>1, <1>2 DEF Stop
  <1>5. /\ sups' \in Seq(Supervisor) /\ DOMAIN sups' = DOMAIN sups /\ Len(sups') = Len(sups)
        /\ SupsKept /\ sups'[s] = x /\ \A t \in DOMAIN sups : t # s => sups'[t] = sups[t]
    BY <1>3, <1>4, SupSet DEF ClusterInv
  <1>6. \A t \in DOMAIN sups : /\ sups'[t].cmd = sups[t].cmd /\ sups'[t].watch = sups[t].watch
                              /\ sups'[t].restarts = sups[t].restarts
    BY <1>3, <1>5
  <1>7. KidsKept
    <2>1. CASE sups[s].cmd = 0
      BY <1>1, <2>1 DEF Stop, KidsKept
    <2>2. CASE sups[s].cmd # 0
      <3>1. sups[s].cmd \in Nat /\ sups[s].cmd <= Len(kids)
        BY <1>1 DEF ClusterInv, LinkInv, Supervisor
      <3>2. sups[s].cmd \in DOMAIN kids
        BY <1>1, <2>2, <3>1
      <3>3. kids' = [kids EXCEPT ![sups[s].cmd].st = "gone"]
        BY <2>2 DEF Stop
      <3>. QED  BY <3>2, <3>3, KidSet DEF ClusterInv
    <2>. QED  BY <2>1, <2>2
  <1>8. NoneKept
    BY <1>6 DEF NoneKept
  <1>9. LinkInv'
    BY <1>5, <1>6, <1>7 DEF ClusterInv, LinkInv, KidsKept
  <1>10. SupervisedInv'
    <2>1. ASSUME NEW t \in DOMAIN sups PROVE Supervised(t)'
      <3>1. Supervised(t)
        BY DEF ClusterInv, SupervisedInv
      <3>2. \A k \in Own(t) : kids[k].st = "gone" => kids'[k].st = "gone"
        BY <1>7 DEF KidsKept, Own
      <3>. QED  BY <1>6, <1>7, <3>1, <3>2, OwnKept, SupervisedKept
    <2>. QED  BY <1>5, <2>1 DEF SupervisedInv
  <1>. QED  BY <1>5, <1>7, <1>8, <1>9, <1>10 DEF KidsKept

LEMMA StopBackendKeeps == ASSUME ClusterInv, NEW b \in Backends, StopBackend(b) PROVE ClusterInv'
  <1>1. UNCHANGED <<cfg, phase, world, health, sweep, dialed, sup, req, requests, events>>
    BY DEF StopBackend, nodeHealth, bounds
  <1>2. /\ started' \in [Backends -> BOOLEAN] /\ stopping' \subseteq Backends /\ events' \in Nat
        /\ phase' \in {"boot", "discover", "up", "closing", "closed", "refused"}
    BY <1>1 DEF StopBackend, ClusterInv, TypeOK
  <1>3. ~Booting /\ ~Booting'
    BY <1>1 DEF StopBackend, ClusterInv, BootInv, Booting
  <1>4. /\ kids' \in Seq(Process) /\ sups' \in Seq(Supervisor) /\ DOMAIN sups' = DOMAIN sups
        /\ SupsKept /\ NoneKept /\ LinkInv' /\ SupervisedInv'
    <2>1. CASE sup[b] = 0
      <3>1. UNCHANGED <<sups, kids>>
        BY <2>1 DEF StopBackend
      <3>2. LinkInv'
        BY <1>1, <3>1 DEF ClusterInv, LinkInv
      <3>3. SupervisedInv'
        BY <1>1, <3>1 DEF ClusterInv, SupervisedInv, Supervised, Own
      <3>. QED  BY <3>1, <3>2, <3>3 DEF ClusterInv, TypeOK, SupsKept, NoneKept
    <2>2. CASE sup[b] # 0
      <3>1. Stop(sup[b])
        BY <2>2 DEF StopBackend
      <3>2. sup[b] \in Nat /\ sup[b] <= Len(sups) /\ sups \in Seq(Supervisor)
        BY DEF ClusterInv, TypeOK, LinkInv
      <3>3. PICK s \in DOMAIN sups : s = sup[b]
        BY <2>2, <3>2
      <3>. QED  BY <1>1, <3>1, <3>3, Stops
    <2>. QED  BY <2>1, <2>2
  <1>. QED  BY <1>1, <1>2, <1>3, <1>4, ProcOnly

-----------------------------------------------------------------------------
(* Requests that start and stop backends.                                    *)

LEMMA ReqSteps ==
  ASSUME ClusterInv, NEW r \in Requests, Others(r), cfg' = cfg, DOMAIN sups \subseteq DOMAIN sups',
         RequestGood(req[r])',
         \A q \in Requests : q # r /\ req[q].pc = "launch" =>
             sups'[req[q].sup].watch = "none" /\ (req'[r].pc = "launch" => req[q].sup # req'[r].sup)
  PROVE  RequestsInv' /\ DistinctInv'
  <1>1. ASSUME NEW q \in Requests, q # r PROVE RequestGood(req[q])'
    <2>1. RequestGood(req[q]) /\ req'[q] = req[q]
      BY <1>1 DEF ClusterInv, RequestsInv, Others
    <2>2. PICK x : x = req[q]
      OBVIOUS
    <2>3. RequestGood(x)'
      BY <1>1, <2>1, <2>2, GoodKept
    <2>. QED  BY <2>1, <2>2, <2>3
  <1>2. RequestGood(req[r])'
    OBVIOUS
  <1>3. DistinctInv'
    BY DEF ClusterInv, DistinctInv, Others
  <1>. QED  BY <1>1, <1>2, <1>3 DEF RequestsInv

LEMMA ReqProc ==
  ASSUME ClusterInv, NEW r \in Requests, ~Booting, Others(r),
         UNCHANGED <<cfg, phase, world, health, sweep, dialed, started, sup, stopping, requests, events>>,
         kids' \in Seq(Process), sups' \in Seq(Supervisor), DOMAIN sups' = DOMAIN sups,
         SupsKept, LinkInv', SupervisedInv', RequestsInv', DistinctInv'
  PROVE  ClusterInv'
  <1>1. TypeOK'
    BY DEF ClusterInv, TypeOK, Others
  <1>2. BootInv'
    BY DEF ClusterInv, BootInv, Booting
  <1>3. dialed' = dialed /\ (cfg.privateOnly => \A a \in dialed : Class[a] # "public")
    BY DEF ClusterInv, DialInv
  <1>. QED  BY <1>1, <1>2, <1>3, SpreadKept, DialKept DEF ClusterInv

LEMMA HasWork == ASSUME ClusterInv, NEW r \in Requests, req[r].pc # "idle" PROVE ~Booting
  BY DEF ClusterInv, BootInv, Idle

LEMMA StartKeeps == ASSUME ClusterInv, NEW r \in Requests, Start(r) PROVE ClusterInv'
  <1>1. req[r].pc = "launch" /\ RequestGood(req[r])
    BY DEF Start, ClusterInv, RequestsInv
  <1>2. UNCHANGED <<cfg, phase, world, health, sweep, dialed, started, sup, stopping, requests, events>>
    BY DEF Start, nodeHealth, bounds
  <1>3. PICK s \in DOMAIN sups : s = req[r].sup /\ sups[s].watch = "none"
    BY <1>1 DEF RequestGood
  <1>4. ~Booting
    BY <1>1, HasWork
  <1>5. req[r].pc \in Working /\ "wait" \in Working
    BY <1>1 DEF Working
  <1>6. CASE launch(s) /\ Step(r, "wait")
    <2>1. /\ kids' \in Seq(Process) /\ sups' \in Seq(Supervisor) /\ DOMAIN sups' = DOMAIN sups /\ SupsKept
          /\ \A t \in DOMAIN sups : t # s => sups'[t] = sups[t]
          /\ LinkInv' /\ SupervisedInv'
      BY <1>2, <1>3, <1>6, Launches
    <2>2. /\ Others(r) /\ req'[r].pc = "wait" /\ req'[r].m = req[r].m /\ req'[r].sup = req[r].sup
          /\ req'[r].order = req[r].order
      BY <1>5, <1>6, Stepped DEF ClusterInv
    <2>3. RequestGood(req[r])'
      BY <1>1, <1>3, <2>1, <2>2 DEF RequestGood
    <2>4. ASSUME NEW q \in Requests, q # r, req[q].pc = "launch" PROVE sups'[req[q].sup].watch = "none"
      <3>1. RequestGood(req[q]) /\ req[q].sup # s
        BY <1>1, <1>3, <2>4 DEF ClusterInv, RequestsInv, DistinctInv
      <3>. QED  BY <2>1, <2>4, <3>1 DEF RequestGood
    <2>5. RequestsInv' /\ DistinctInv'
      BY <1>2, <2>1, <2>2, <2>3, <2>4, ReqSteps
    <2>. QED  BY <1>2, <1>4, <2>1, <2>2, <2>5, ReqProc
  <1>7. CASE TryNext(r) /\ UNCHANGED <<sups, kids>>
    <2>1. req[r].order # <<>>
      BY <1>1 DEF RequestGood
    <2>2. Others(r) /\ req'[r].pc = "select"
      BY <1>5, <1>7, <2>1, Passed DEF ClusterInv
    <2>3. RequestGood(req'[r])
      BY <2>2 DEF RequestGood
    <2>. QED  BY <1>2, <1>4, <1>7, <2>2, <2>3, ReqOnly DEF ClusterInv, TypeOK, DialInv, Ips
  <1>. QED  BY <1>3, <1>6, <1>7 DEF Start

LEMMA WaitFailsKeeps == ASSUME ClusterInv, NEW r \in Requests, WaitFails(r) PROVE ClusterInv'
  <1>1. req[r].pc = "wait" /\ RequestGood(req[r])
    BY DEF WaitFails, ClusterInv, RequestsInv
  <1>2. UNCHANGED <<cfg, phase, world, health, sweep, dialed, started, sup, stopping, requests, events>>
    BY DEF WaitFails, nodeHealth, bounds
  <1>3. PICK s \in DOMAIN sups : s = req[r].sup
    BY <1>1 DEF RequestGood
  <1>4. ~Booting /\ req[r].pc \in Working /\ req[r].order # <<>>
    BY <1>1, HasWork DEF Working, RequestGood
  <1>5. /\ kids' \in Seq(Process) /\ sups' \in Seq(Supervisor) /\ DOMAIN sups' = DOMAIN sups
        /\ SupsKept /\ NoneKept /\ LinkInv' /\ SupervisedInv'
    BY <1>2, <1>3, Stops DEF WaitFails
  <1>6. Others(r) /\ req'[r].pc = "select"
    BY <1>4, Passed DEF ClusterInv, WaitFails
  <1>7. RequestGood(req[r])'
    BY <1>6 DEF RequestGood
  <1>8. ASSUME NEW q \in Requests, q # r, req[q].pc = "launch" PROVE sups'[req[q].sup].watch = "none"
    <2>1. RequestGood(req[q])
      BY DEF ClusterInv, RequestsInv
    <2>. QED  BY <1>5, <1>8, <2>1 DEF RequestGood, NoneKept
  <1>9. RequestsInv' /\ DistinctInv'
    BY <1>2, <1>5, <1>6, <1>7, <1>8, ReqSteps
  <1>. QED  BY <1>2, <1>4, <1>5, <1>6, <1>9, ReqProc

\* A start makes a supervisor that has launched nothing, for an admitted model.
LEMMA StartedWith ==
  ASSUME ClusterInv, NEW r \in Requests, req[r].pc = "start", NEW rpc \in Seq(Hosts), StartWith(r, rpc),
         UNCHANGED <<cfg, phase, world, health, sweep, started, kids, stopping, requests, events>>,
         dialed \subseteq dialed', dialed' \subseteq Ips,
         cfg.privateOnly => \A a \in dialed' : Class[a] # "public",
         cfg.privateOnly /\ Backend(r) = Llama =>
            /\ cfg.rpcHosts = <<>> => Len(rpc) = Len(WorkerNodes(cfg))
            /\ ToSet(rpc) \subseteq dialed'
  PROVE  ClusterInv'
  <1>1. /\ RequestGood(req[r]) /\ req[r] \in InWork /\ req \in [Requests -> Request]
        /\ sups \in Seq(Supervisor) /\ kids \in Seq(Process) /\ sup \in [Backends -> Nat]
    <2>1. req[r].pc \in Working
      BY DEF Working
    <2>. QED  BY <2>1, WorkShape DEF ClusterInv, TypeOK, RequestsInv
  <1>2. PICK b \in Backends \ {Local} : b = Backend(r)
    BY <1>1 DEF RequestGood, Backend
  <1>3. PICK m \in Model : m = req[r].m /\ Spreads(cfg, m)
    BY <1>1 DEF RequestGood, InWork
  <1>4. PICK n \in Nat : n = Len(sups)
    BY <1>1
  <1>5. PICK x : x = NewSupervisor(b, m, rpc)
    OBVIOUS
  <1>6. /\ x \in Supervisor /\ x.backend = b /\ x.model = m /\ x.rpc = rpc /\ x.watch = "none"
        /\ x.restarts = 0 /\ x.cmd = 0
    BY <1>5 DEF NewSupervisor, Supervisor
  <1>7. sups' = Append(sups, x)
    BY <1>2, <1>3, <1>5 DEF StartWith
  <1>8. /\ sups' \in Seq(Supervisor) /\ Len(sups') = n + 1 /\ DOMAIN sups = 1 .. n /\ DOMAIN sups' = 1 .. n + 1
        /\ sups'[n + 1] = x /\ \A s \in 1 .. n : sups'[s] = sups[s]
    BY <1>1, <1>4, <1>6, <1>7, SeqAdd
  <1>9. sup' = [sup EXCEPT ![b] = n + 1]
    BY <1>2, <1>4 DEF StartWith
  <1>10. PICK z \in Nat : z = n + 1
    OBVIOUS
  <1>11. PICK q : q = [req[r] EXCEPT !.pc = "launch", !.sup = z]
    OBVIOUS
  <1>12. q \in InWork /\ q.pc = "launch" /\ q.sup = z /\ q.m = req[r].m /\ q.order = req[r].order
    BY <1>1, <1>11 DEF InWork, Working
  <1>13. req' = [req EXCEPT ![r] = q]
    BY <1>1, <1>4, <1>10, <1>11 DEF StartWith
  <1>14. Others(r) /\ req'[r] = q
    BY <1>12, <1>13, WorkIsRequest, Replaced DEF ClusterInv
  <1>15. ~Booting
    BY HasWork
  <1>16. TypeOK'
    <2>1. sup' \in [Backends -> Nat]
      BY <1>1, <1>9, <1>10
    <2>. QED  BY <1>8, <1>14, <2>1 DEF ClusterInv, TypeOK, Others, Ips
  <1>17. BootInv'
    BY <1>15 DEF ClusterInv, BootInv, Booting
  <1>18. LinkInv'
    <2>1. ASSUME NEW d \in Backends PROVE sup'[d] <= Len(sups')
      <3>1. sup[d] \in Nat /\ sup[d] <= n
        BY <1>1, <1>4 DEF ClusterInv, LinkInv
      <3>2. sup'[d] = n + 1 \/ sup'[d] = sup[d]
        BY <1>1, <1>9
      <3>. QED  BY <1>8, <3>1, <3>2
    <2>2. \A k \in DOMAIN kids : kids[k].sup \in DOMAIN sups'
      BY <1>8 DEF ClusterInv, LinkInv
    <2>3. ASSUME NEW s \in DOMAIN sups' PROVE sups'[s].cmd <= Len(kids)
      <3>1. CASE s = n + 1
        BY <1>1, <1>6, <1>8, <3>1
      <3>2. CASE s # n + 1
        BY <1>8, <3>2 DEF ClusterInv, LinkInv
      <3>. QED  BY <3>1, <3>2
    <2>. QED  BY <2>1, <2>2, <2>3 DEF LinkInv
  <1>19. SupervisedInv'
    <2>1. ASSUME NEW s \in 1 .. n PROVE Supervised(s)'
      <3>1. Supervised(s) /\ sups'[s] = sups[s] /\ Own(s)' = Own(s)
        BY <1>8 DEF ClusterInv, SupervisedInv, Own
      <3>. QED  BY <3>1, SupervisedKept
    <2>2. Supervised(n + 1)'
      <3>1. \A k \in DOMAIN kids : kids[k].sup # n + 1
        BY <1>8 DEF ClusterInv, LinkInv
      <3>2. Own(n + 1)' = {}
        BY <3>1 DEF Own
      <3>. QED  BY <1>6, <1>8, <3>2 DEF Supervised
    <2>3. \A s \in 1 .. n + 1 : s \in 1 .. n \/ s = n + 1
      BY <1>4
    <2>. QED  BY <1>8, <2>1, <2>2, <2>3 DEF SupervisedInv
  <1>20. RequestGood(req[r])'
    <2>1. z \in DOMAIN sups' /\ sups'[z] = x
      BY <1>8, <1>10
    <2>2. q.order # <<>> /\ Head(q.order) \in Backends \ {Local}
      BY <1>1, <1>12 DEF RequestGood
    <2>. QED  BY <1>6, <1>12, <1>14, <2>1, <2>2 DEF RequestGood
  <1>21. ASSUME NEW p \in Requests, p # r, req[p].pc = "launch"
         PROVE  sups'[req[p].sup].watch = "none" /\ req[p].sup # req'[r].sup
    <2>1. RequestGood(req[p])
      BY DEF ClusterInv, RequestsInv
    <2>2. req[p].sup \in 1 .. n /\ sups[req[p].sup].watch = "none"
      BY <1>8, <1>21, <2>1 DEF RequestGood
    <2>3. req'[r].sup = n + 1
      BY <1>10, <1>12, <1>14
    <2>. QED  BY <1>8, <2>2, <2>3
  <1>22. RequestsInv' /\ DistinctInv'
    <2>1. DOMAIN sups \subseteq DOMAIN sups'
      BY <1>8
    <2>. QED  BY <1>14, <1>20, <1>21, <2>1, ReqSteps
  <1>23. SpreadInv'
    <2>1. ASSUME NEW s \in DOMAIN sups' PROVE Spreads(cfg, sups'[s].model)
      <3>1. CASE s = n + 1
        BY <1>3, <1>6, <1>8, <3>1
      <3>2. CASE s # n + 1
        BY <1>8, <3>2 DEF ClusterInv, SpreadInv
      <3>. QED  BY <3>1, <3>2
    <2>. QED  BY <2>1 DEF SpreadInv
  <1>24. DialInv'
    <2>1. SUFFICES ASSUME cfg.privateOnly
                   PROVE  \A s \in DOMAIN sups' : sups'[s].backend = Llama =>
                            /\ cfg.rpcHosts = <<>> => Len(sups'[s].rpc) = Len(WorkerNodes(cfg))
                            /\ ToSet(sups'[s].rpc) \subseteq dialed'
      BY DEF DialInv
    <2>2. SUFFICES ASSUME NEW s \in DOMAIN sups', sups'[s].backend = Llama
                   PROVE  /\ cfg.rpcHosts = <<>> => Len(sups'[s].rpc) = Len(WorkerNodes(cfg))
                          /\ ToSet(sups'[s].rpc) \subseteq dialed'
      OBVIOUS
    <2>3. CASE s = n + 1
      BY <1>2, <1>6, <1>8, <2>1, <2>2, <2>3
    <2>4. CASE s # n + 1
      <3>1. s \in DOMAIN sups /\ sups'[s] = sups[s]
        BY <1>8, <2>4
      <3>. QED  BY <2>1, <2>2, <3>1 DEF ClusterInv, DialInv
    <2>. QED  BY <2>3, <2>4
  <1>. QED  BY <1>16, <1>17, <1>18, <1>19, <1>22, <1>23, <1>24 DEF ClusterInv

\* A step of a request that leaves the rest of the provider as it is.
LEMMA Quiet ==
  ASSUME ClusterInv, NEW r \in Requests, req[r].pc # "idle", Others(r), RequestGood(req'[r]), req'[r].pc # "launch",
         UNCHANGED <<cfg, phase, world, health, sweep, dialed, sup, sups, kids, stopping, requests, events>>,
         started' \in [Backends -> BOOLEAN]
  PROVE  ClusterInv'
  <1>1. ~Booting
    BY HasWork
  <1>2. /\ dialed' = dialed /\ dialed \subseteq Ips /\ requests' \in Nat /\ events' \in Nat
        /\ cfg.privateOnly => \A a \in dialed : Class[a] # "public"
    BY DEF ClusterInv, TypeOK, DialInv, Ips
  <1>. QED  BY <1>1, <1>2, ReqOnly

LEMMA SelectBackendKeeps == ASSUME ClusterInv, NEW r \in Requests, SelectBackend(r) PROVE ClusterInv'
  <1>1. req[r].pc = "select" /\ TypeOK
    BY DEF SelectBackend, ClusterInv
  <1>2. UNCHANGED <<cfg, phase, world, health, sweep, dialed, started, sup, sups, kids, stopping, requests, events>>
    BY DEF SelectBackend, nodeHealth, procs, bounds
  <1>3. started' \in [Backends -> BOOLEAN] /\ ~Booting
    BY <1>1, <1>2, HasWork DEF TypeOK
  <1>4. req[r].pc \in Working /\ {"fallback", "health", "start"} \subseteq Working
    BY <1>1 DEF Working
  <1>5. CASE req[r].order = <<>>
    <2>1. Step(r, "fallback")
      BY <1>5 DEF SelectBackend
    <2>2. Others(r) /\ req'[r].pc = "fallback"
      BY <1>1, <1>4, <2>1, Stepped
    <2>3. RequestGood(req'[r])
      BY <2>2 DEF RequestGood
    <2>. QED  BY <1>1, <1>2, <1>3, <2>2, <2>3, Quiet
  <1>6. CASE /\ req[r].order # <<>> /\ Backend(r) # Local /\ Backend(r) \in coordinatorBackends(cfg)
             /\ memoryFits(cfg, health, Backend(r), req[r].m) /\ Backend(r) \in cfg.installed
    <2>1. PICK p \in {"health", "start"} : Step(r, p)
      BY <1>6 DEF SelectBackend
    <2>2. p \in Working
      BY <1>4
    <2>3. /\ Others(r) /\ req'[r].pc = p /\ req'[r].m = req[r].m /\ req'[r].order = req[r].order
      BY <1>1, <1>4, <2>1, <2>2, Stepped
    <2>4. cfg \in Config /\ Validate(cfg)
      BY <1>1, <1>3 DEF TypeOK, ClusterInv, BootInv
    <2>5. req[r].m \in Model
      <3>1. req[r] \in InWork
        BY <1>1, <1>4, WorkShape DEF TypeOK
      <3>. QED  BY <3>1 DEF InWork
    <2>6. PICK h : h = health
      OBVIOUS
    <2>7. PICK m \in Model : m = req[r].m
      BY <2>5
    <2>8. PICK b : b = Backend(r)
      OBVIOUS
    <2>9. Spreads(cfg, m)
      BY <1>6, <2>4, <2>6, <2>7, <2>8, Fits
    <2>10. Head(req[r].order) \in Backends \ {Local}
      <3>1. cfg.installed \subseteq Backends
        BY <2>4 DEF Config
      <3>. QED  BY <1>6, <3>1 DEF Backend
    <2>11. RequestGood(req'[r])
      BY <1>6, <2>1, <2>3, <2>7, <2>9, <2>10 DEF RequestGood
    <2>. QED  BY <1>1, <1>2, <1>3, <2>1, <2>3, <2>11, Quiet
  <1>7. CASE req[r].order # <<>> /\ TryNext(r)
    <2>1. Others(r) /\ req'[r].pc = "select"
      BY <1>1, <1>4, <1>7, Passed
    <2>2. RequestGood(req'[r])
      BY <2>1 DEF RequestGood
    <2>. QED  BY <1>1, <1>2, <1>3, <2>1, <2>2, Quiet
  <1>. QED  BY <1>5, <1>6, <1>7 DEF SelectBackend

\* The next backend is tried.
LEMMA PassedKeeps ==
  ASSUME ClusterInv, NEW r \in Requests, req[r].pc \in {"start", "wait", "mark", "health"}, TryNext(r),
         UNCHANGED <<cfg, phase, world, health, sweep, dialed, started, sup, sups, kids, stopping, requests, events>>
  PROVE  ClusterInv'
  <1>1. TypeOK /\ req[r].pc \in Working /\ started' \in [Backends -> BOOLEAN]
    BY DEF ClusterInv, TypeOK, Working
  <1>2. req[r].order # <<>>
    BY DEF ClusterInv, RequestsInv, RequestGood
  <1>3. Others(r) /\ req'[r].pc = "select"
    BY <1>1, <1>2, Passed
  <1>4. RequestGood(req'[r])
    BY <1>3 DEF RequestGood
  <1>. QED  BY <1>1, <1>3, <1>4, Quiet

\* The request goes on with the backend it has.
LEMMA SteppedKeeps ==
  ASSUME ClusterInv, NEW r \in Requests, req[r].pc \in {"start", "wait", "mark"}, NEW p \in {"mark", "health"}, Step(r, p),
         UNCHANGED <<cfg, phase, world, health, sweep, dialed, sup, sups, kids, stopping, requests, events>>,
         started' \in [Backends -> BOOLEAN]
  PROVE  ClusterInv'
  <1>1. TypeOK /\ req[r].pc \in Working /\ p \in Working
    BY DEF ClusterInv, Working
  <1>2. req[r].order # <<>> /\ Head(req[r].order) \in Backends \ {Local}
    BY DEF ClusterInv, RequestsInv, RequestGood
  <1>3. /\ Others(r) /\ req'[r].pc = p /\ req'[r].order = req[r].order
    BY <1>1, Stepped
  <1>4. RequestGood(req'[r])
    BY <1>2, <1>3 DEF RequestGood
  <1>. QED  BY <1>3, <1>4, Quiet

LEMMA StartExoKeeps == ASSUME ClusterInv, NEW r \in Requests, StartExo(r) PROVE ClusterInv'
  <1>1. req[r].pc = "start" /\ Backend(r) = Exo /\ Exo # Llama
    BY DEF StartExo, Exo, Llama
  <1>2. UNCHANGED <<cfg, phase, world, health, sweep, dialed, started, kids, stopping, requests, events>>
    BY DEF StartExo, nodeHealth, bounds
  <1>3. started' \in [Backends -> BOOLEAN]
    BY <1>2 DEF ClusterInv, TypeOK
  <1>4. CASE cfg.exoEndpoint
    <2>1. (Step(r, "mark") \/ TryNext(r)) /\ UNCHANGED <<sup, sups>>
      BY <1>4 DEF StartExo
    <2>. QED  BY <1>1, <1>2, <1>3, <2>1, PassedKeeps, SteppedKeeps
  <1>5. CASE ~cfg.exoEndpoint
    <2>1. StartWith(r, <<>>) /\ <<>> \in Seq(Hosts)
      BY <1>5 DEF StartExo
    <2>2. dialed \subseteq Ips /\ (cfg.privateOnly => \A a \in dialed : Class[a] # "public")
      BY DEF ClusterInv, TypeOK, DialInv, Ips
    <2>. QED  BY <1>1, <1>2, <2>1, <2>2, StartedWith
  <1>. QED  BY <1>4, <1>5

LEMMA StartMLXKeeps == ASSUME ClusterInv, NEW r \in Requests, StartMLX(r) PROVE ClusterInv'
  <1>1. req[r].pc = "start" /\ Backend(r) = MLX /\ MLX # Llama
    BY DEF StartMLX, MLX, Llama
  <1>2. UNCHANGED <<cfg, phase, world, health, sweep, dialed, started, kids, stopping, requests, events>>
    BY DEF StartMLX, nodeHealth, bounds
  <1>3. CASE TryNext(r) /\ UNCHANGED <<sup, sups>>
    BY <1>1, <1>2, <1>3, PassedKeeps
  <1>4. CASE StartWith(r, <<>>)
    <2>1. <<>> \in Seq(Hosts)
      OBVIOUS
    <2>2. dialed \subseteq Ips /\ (cfg.privateOnly => \A a \in dialed : Class[a] # "public")
      BY DEF ClusterInv, TypeOK, DialInv, Ips
    <2>. QED  BY <1>1, <1>2, <1>4, <2>1, <2>2, StartedWith
  <1>. QED  BY <1>3, <1>4 DEF StartMLX

LEMMA StartLlamaKeeps == ASSUME ClusterInv, NEW r \in Requests, StartLlama(r) PROVE ClusterInv'
  <1>1. req[r].pc = "start" /\ Backend(r) = Llama
    BY DEF StartLlama
  <1>2. UNCHANGED <<cfg, phase, world, health, sweep, started, kids, stopping, requests, events>>
    BY DEF StartLlama, nodeHealth, bounds
  <1>3. CASE TryNext(r) /\ UNCHANGED <<sup, sups, dialed>>
    BY <1>1, <1>2, <1>3, PassedKeeps
  <1>4. CASE \E found \in {resolveRPCHosts(cfg, world)} :
              /\ dialed' = dialed \cup found.dialed
              /\ IF found.addrs = None THEN TryNext(r) /\ UNCHANGED <<sup, sups>>
                 ELSE StartWith(r, found.addrs)
    <2>1. PICK f : /\ f = resolveRPCHosts(cfg, world)
                   /\ dialed' = dialed \cup f.dialed
                   /\ IF f.addrs = None THEN TryNext(r) /\ UNCHANGED <<sup, sups>>
                      ELSE StartWith(r, f.addrs)
      BY <1>4
    <2>2. ~Booting
      BY <1>1, HasWork
    <2>3. cfg \in Config /\ Validate(cfg) /\ world \in World
      BY <2>2 DEF ClusterInv, TypeOK, BootInv
    <2>4. /\ f.dialed \subseteq Ips
          /\ cfg.privateOnly => \A a \in f.dialed : Class[a] # "public"
          /\ f.addrs # None =>
               /\ f.addrs \in Seq(Hosts)
               /\ cfg.rpcHosts = <<>> => Len(f.addrs) = Len(WorkerNodes(cfg))
               /\ cfg.privateOnly => ToSet(f.addrs) \subseteq f.dialed
      BY <2>1, <2>3, ResolvedHosts
    <2>5. /\ dialed \subseteq dialed' /\ dialed' \subseteq Ips
          /\ cfg.privateOnly => \A a \in dialed' : Class[a] # "public"
      BY <2>1, <2>4 DEF ClusterInv, TypeOK, DialInv, Ips
    <2>6. CASE f.addrs = None
      <3>1. TryNext(r) /\ UNCHANGED <<sup, sups>>
        BY <2>1, <2>6
      <3>2. TypeOK /\ req[r].pc \in Working /\ started' \in [Backends -> BOOLEAN] /\ requests' \in Nat /\ events' \in Nat
        BY <1>1, <1>2 DEF ClusterInv, TypeOK, Working
      <3>3. req[r].order # <<>>
        BY <1>1 DEF ClusterInv, RequestsInv, RequestGood
      <3>4. Others(r) /\ req'[r].pc = "select"
        BY <3>1, <3>2, <3>3, Passed
      <3>5. RequestGood(req'[r])
        BY <3>4 DEF RequestGood
      <3>. QED  BY <1>2, <2>2, <2>5, <3>1, <3>2, <3>4, <3>5, ReqOnly
    <2>7. CASE f.addrs # None
      <3>1. PICK rpc \in Seq(Hosts) : rpc = f.addrs
        BY <2>4, <2>7
      <3>2. StartWith(r, rpc)
        BY <2>1, <2>7, <3>1
      <3>3. cfg.privateOnly => /\ cfg.rpcHosts = <<>> => Len(rpc) = Len(WorkerNodes(cfg))
                               /\ ToSet(rpc) \subseteq dialed'
        BY <2>1, <2>4, <2>7, <3>1
      <3>. QED  BY <1>1, <1>2, <2>5, <3>2, <3>3, StartedWith
    <2>. QED  BY <2>6, <2>7
  <1>. QED  BY <1>3, <1>4 DEF StartLlama

LEMMA waitForReadyKeeps == ASSUME ClusterInv, NEW r \in Requests, waitForReady(r) PROVE ClusterInv'
  <1>1. req[r].pc = "wait" /\ Step(r, "mark")
    BY DEF waitForReady
  <1>2. UNCHANGED <<cfg, phase, world, health, sweep, dialed, started, sup, sups, kids, stopping, requests, events>>
    BY DEF waitForReady, nodeHealth, procs, bounds
  <1>3. started' \in [Backends -> BOOLEAN]
    BY <1>2 DEF ClusterInv, TypeOK
  <1>. QED  BY <1>1, <1>2, <1>3, SteppedKeeps

LEMMA ensureStartedKeeps == ASSUME ClusterInv, NEW r \in Requests, ensureStarted(r) PROVE ClusterInv'
  <1>1. req[r].pc = "mark" /\ Step(r, "health")
    BY DEF ensureStarted
  <1>2. UNCHANGED <<cfg, phase, world, health, sweep, dialed, sup, sups, kids, stopping, requests, events>>
    BY DEF ensureStarted, nodeHealth, procs, bounds
  <1>3. started' \in [Backends -> BOOLEAN]
    BY DEF ClusterInv, TypeOK, ensureStarted
  <1>. QED  BY <1>1, <1>2, <1>3, SteppedKeeps

\* The request streams from a backend, or is over.
LEMMA Streams ==
  ASSUME ClusterInv, NEW r \in Requests, req[r].pc \in Working, NEW b \in Backends,
         req' = [req EXCEPT ![r] = [pc |-> "chat", m |-> req[r].m, backend |-> b]],
         b = Local => ~cfg.strict /\ CoordinatorNode(cfg).mem - cfg.reserve >= req[r].m.min,
         UNCHANGED <<cfg, phase, world, health, sweep, dialed, sup, sups, kids, stopping, requests, events>>,
         started' \in [Backends -> BOOLEAN]
  PROVE  ClusterInv'
  <1>1. PICK m \in Model : m = req[r].m
    BY WorkShape DEF ClusterInv, TypeOK, InWork
  <1>2. PICK q : q = [pc |-> "chat", m |-> m, backend |-> b]
    OBVIOUS
  <1>3. q.pc = "chat" /\ q.m = m /\ q.backend = b
    BY <1>2
  <1>4. q \in Request
    BY <1>2 DEF Request
  <1>5. Others(r) /\ req'[r] = q
    BY <1>1, <1>2, <1>4, Replaced DEF ClusterInv
  <1>6. RequestGood(req'[r])
    BY <1>1, <1>3, <1>5 DEF RequestGood
  <1>7. req[r].pc # "idle"
    BY DEF Working
  <1>. QED  BY <1>3, <1>5, <1>6, <1>7, Quiet

LEMMA Ends ==
  ASSUME ClusterInv, NEW r \in Requests, req[r].pc # "idle", req' = [req EXCEPT ![r] = Idle],
         UNCHANGED <<cfg, phase, world, health, sweep, dialed, started, sup, sups, kids, stopping, requests, events>>
  PROVE  ClusterInv'
  <1>1. Idle \in Request /\ Idle.pc = "idle"
    BY DEF Request, Idle
  <1>2. Others(r) /\ req'[r] = Idle
    BY <1>1, Replaced DEF ClusterInv
  <1>3. RequestGood(req'[r])
    BY <1>1, <1>2 DEF RequestGood
  <1>4. started' \in [Backends -> BOOLEAN]
    BY DEF ClusterInv, TypeOK
  <1>. QED  BY <1>1, <1>2, <1>3, <1>4, Quiet

LEMMA HealthKeeps == ASSUME ClusterInv, NEW r \in Requests, Health(r) PROVE ClusterInv'
  <1>1. req[r].pc = "health" /\ req[r].pc \in Working
    BY DEF Health, Working
  <1>2. UNCHANGED <<cfg, phase, world, health, sweep, dialed, started, sup, sups, kids, stopping, requests, events>>
    BY DEF Health, nodeHealth, procs, bounds
  <1>3. started' \in [Backends -> BOOLEAN]
    BY <1>2 DEF ClusterInv, TypeOK
  <1>4. PICK b \in Backends \ {Local} : b = Backend(r)
    BY <1>1 DEF ClusterInv, RequestsInv, RequestGood, Backend
  <1>5. CASE TryNext(r)
    BY <1>1, <1>2, <1>5, PassedKeeps
  <1>6. CASE ~TryNext(r)
    <2>1. req' = [req EXCEPT ![r] = [pc |-> "chat", m |-> req[r].m, backend |-> b]]
      BY <1>4, <1>6 DEF Health
    <2>. QED  BY <1>1, <1>2, <1>3, <1>4, <2>1, Streams
  <1>. QED  BY <1>5, <1>6

LEMMA FallbackKeeps == ASSUME ClusterInv, NEW r \in Requests, Fallback(r) PROVE ClusterInv'
  <1>1. req[r].pc = "fallback" /\ req[r].pc \in Working
    BY DEF Fallback, Working
  <1>2. UNCHANGED <<cfg, phase, world, health, sweep, dialed, sup, sups, kids, stopping, requests, events>>
    BY DEF Fallback, nodeHealth, procs, bounds
  <1>3. CASE FallbackAllowed(r)
    <2>1. /\ started' = [started EXCEPT ![Local] = TRUE]
          /\ req' = [req EXCEPT ![r] = [pc |-> "chat", m |-> req[r].m, backend |-> Local]]
      BY <1>3 DEF Fallback
    <2>2. started' \in [Backends -> BOOLEAN] /\ Local \in Backends
      BY <2>1 DEF ClusterInv, TypeOK, Backends
    <2>3. ~cfg.strict /\ CoordinatorNode(cfg).mem - cfg.reserve >= req[r].m.min
      BY <1>3 DEF FallbackAllowed, memoryFits, coordinatorSafeMemoryGB
    <2>. QED  BY <1>1, <1>2, <2>1, <2>2, <2>3, Streams
  <1>4. CASE ~FallbackAllowed(r)
    <2>1. req' = [req EXCEPT ![r] = Idle] /\ started' = started
      BY <1>4 DEF Fallback
    <2>. QED  BY <1>1, <1>2, <2>1, Ends
  <1>. QED  BY <1>3, <1>4

LEMMA ChatKeeps == ASSUME ClusterInv, NEW r \in Requests, Chat(r) PROVE ClusterInv'
  BY Ends DEF Chat, nodeHealth, procs, bounds

LEMMA ModelKnown == ASSUME NEW c \in Config, Validate(c), NEW id
  PROVE  (IF ModelByID(c, id) # None THEN ModelByID(c, id) ELSE c.models[1]) \in Model
  <1>1. c.models \in Seq(Model) /\ c.models # <<>>
    BY DEF Config, Validate
  <1>2. PICK ms : ms = c.models
    OBVIOUS
  <1>3. PICK T : T = {i \in DOMAIN ms : ms[i].id = id}
    OBVIOUS
  <1>4. T \subseteq Nat /\ T \subseteq DOMAIN ms /\ ms[1] \in Model /\ \A i \in DOMAIN ms : ms[i] \in Model
    BY <1>1, <1>2, <1>3
  <1>5. ModelByID(c, id) = IF T = {} THEN None ELSE ms[Min(T)]
    BY <1>2, <1>3 DEF ModelByID
  <1>6. T # {} => Min(T) \in T
    BY <1>4, MinIn
  <1>. QED  BY <1>2, <1>4, <1>5, <1>6

LEMMA FourSeq == ASSUME NEW T, NEW a \in T, NEW b \in T, NEW c \in T, NEW d \in T PROVE <<a, b, c, d>> \in Seq(T)
  OBVIOUS

LEMMA OrderKnown == ASSUME NEW c \in Config, NEW m \in Model PROVE candidateOrder(c, m) \in Seq(Words)
  <1>1. c.mode \in Words /\ m.preferred \in Seq(Words)
    BY DEF Config, Model
  <1>2. <<c.mode>> \in Seq(Words)
    BY <1>1
  <1>3. defaultBackendOrder \in Seq(Words)
    <2>1. Exo \in Words /\ MLX \in Words /\ Llama \in Words /\ Local \in Words
      BY DEF Words, Backends
    <2>. QED  BY <2>1, FourSeq DEF defaultBackendOrder
  <1>. QED  BY <1>1, <1>2, <1>3 DEF candidateOrder

LEMMA ChatStreamKeeps == ASSUME ClusterInv, NEW r \in Requests, NEW id, ChatStream(r, id) PROVE ClusterInv'
  <1>1. phase = "up" /\ req[r] = Idle /\ ~Booting
    BY DEF ChatStream, Booting
  <1>2. UNCHANGED <<cfg, phase, world, health, sweep, dialed, started, sup, sups, kids, stopping, events>>
    BY DEF ChatStream, nodeHealth, procs
  <1>3. /\ dialed \subseteq Ips /\ (cfg.privateOnly => \A a \in dialed : Class[a] # "public")
        /\ started' \in [Backends -> BOOLEAN] /\ requests' \in Nat /\ events' \in Nat
    BY <1>2 DEF ClusterInv, TypeOK, DialInv, Ips, ChatStream
  <1>4. cfg \in Config /\ Validate(cfg)
    BY <1>1 DEF ClusterInv, TypeOK, BootInv
  <1>5. PICK m : /\ m = resolveModel(id)
                 /\ req' = [req EXCEPT ![r] = [pc |-> "select", m |-> m, sup |-> 0, order |-> candidateOrder(cfg, m)]]
    BY DEF ChatStream
  <1>6. m \in Model
    BY <1>4, <1>5, ModelKnown DEF resolveModel
  <1>7. PICK o \in Seq(Words) : o = candidateOrder(cfg, m)
    BY <1>4, <1>6, OrderKnown
  <1>8. PICK q : q = [pc |-> "select", m |-> m, sup |-> 0, order |-> o]
    OBVIOUS
  <1>9. q \in InWork /\ q.pc = "select"
    BY <1>6, <1>8 DEF InWork, Working
  <1>10. req' = [req EXCEPT ![r] = q]
    BY <1>5, <1>7, <1>8
  <1>11. Others(r) /\ req'[r] = q
    BY <1>9, <1>10, WorkIsRequest, Replaced DEF ClusterInv
  <1>12. RequestGood(req'[r]) /\ req'[r].pc # "launch"
    BY <1>9, <1>11 DEF RequestGood
  <1>. QED  BY <1>1, <1>2, <1>3, <1>11, <1>12, ReqOnly

-----------------------------------------------------------------------------
(* Loading, discovery and the end.                                           *)

LEMMA Normal ==
  ASSUME NEW c \in Config
  PROVE  Normalize(c) \in Config /\ Normalize(c).nodes = c.nodes
  <1>1. c.mode \in Words /\ c.reserve \in Int /\ c.policy \in Words /\ c.maxRestarts \in Int
    BY DEF Config
  <1>2. PICK a \in Words : a = Or(c.mode, Unset, "auto")
    BY <1>1 DEF Or, Words
  <1>3. PICK b \in Int : b = Or(c.reserve, 0, 20)
    BY <1>1 DEF Or
  <1>4. PICK d \in Words : d = Or(c.policy, Unset, "on_failure")
    BY <1>1 DEF Or, Words
  <1>5. PICK e \in Int : e = Or(c.maxRestarts, 0, 3)
    BY <1>1 DEF Or
  <1>6. Normalize(c) = [c EXCEPT !.mode = a, !.reserve = b, !.policy = d, !.maxRestarts = e]
    BY <1>2, <1>3, <1>4, <1>5 DEF Normalize, Config
  <1>. QED  BY <1>6 DEF Config

LEMMA SeqSelf == ASSUME NEW T, NEW q \in Seq(T) PROVE q \in Seq(ToSet(q))
  <1>1. DOMAIN q = 1 .. Len(q) /\ Len(q) \in Nat /\ q = [i \in 1 .. Len(q) |-> q[i]]
    OBVIOUS
  <1>2. \A i \in 1 .. Len(q) : q[i] \in ToSet(q)
    BY <1>1 DEF ToSet
  <1>. QED  BY <1>1, <1>2

LEMMA LoadKeeps == ASSUME ClusterInv, LoadClusterConfig PROVE ClusterInv'
  <1>1. /\ UNCHANGED <<world, health, dialed, started, sup, sups, kids, req, stopping, requests, events>>
        /\ cfg' = Normalize(cfg) /\ Booting
    BY DEF LoadClusterConfig, procs, bounds, Booting
  <1>2. cfg \in Config /\ cfg' \in Config /\ cfg'.nodes = cfg.nodes
    BY <1>1, Normal DEF ClusterInv, TypeOK
  <1>3. /\ sups = <<>> /\ kids = <<>> /\ dialed = {} /\ sweep = <<>> /\ stopping = {}
        /\ \A r \in Requests : req[r] = Idle
    BY <1>1 DEF ClusterInv, BootInv
  <1>4. \/ Validate(cfg') /\ phase' = "discover" /\ sweep' = cfg.nodes
        \/ ~Validate(cfg') /\ phase' = "refused" /\ sweep' = sweep
    BY DEF LoadClusterConfig
  <1>5. TypeOK'
    <2>1. PICK ns : ns = cfg.nodes
      OBVIOUS
    <2>2. ns \in Seq(Node)
      BY <1>2, <2>1 DEF Config
    <2>3. cfg.nodes \in Seq(ToSet(cfg.nodes))
      BY <2>1, <2>2, SeqSelf
    <2>4. sweep' \in Seq(ToSet(cfg'.nodes))
      BY <1>2, <1>4, <2>3 DEF ClusterInv, TypeOK
    <2>5. phase' \in {"boot", "discover", "up", "closing", "closed", "refused"}
      BY <1>4
    <2>6. health' \in [{n.id : n \in ToSet(cfg'.nodes)} -> BOOLEAN \cup {None}]
      BY <1>1, <1>2 DEF ClusterInv, TypeOK
    <2>. QED  BY <1>1, <1>2, <2>4, <2>5, <2>6 DEF ClusterInv, TypeOK
  <1>6. BootInv'
    BY <1>1, <1>3, <1>4 DEF BootInv, Booting
  <1>7. LinkInv'
    BY <1>1 DEF ClusterInv, LinkInv
  <1>8. SupervisedInv' /\ SpreadInv' /\ DialInv'
    BY <1>1, <1>3 DEF SupervisedInv, SpreadInv, DialInv
  <1>9. RequestsInv' /\ DistinctInv'
    BY <1>1, <1>3 DEF RequestsInv, RequestGood, DistinctInv, Idle
  <1>. QED  BY <1>5, <1>6, <1>7, <1>8, <1>9 DEF ClusterInv

\* A step that leaves requests, supervisors and processes as they are.
LEMMA NetOnly ==
  ASSUME ClusterInv, ~Booting, ~Booting', UNCHANGED <<cfg, started, sup, sups, kids, req, requests>>,
         phase' \in {"boot", "discover", "up", "closing", "closed", "refused"}, world' \in World,
         health' \in [{n.id : n \in ToSet(cfg.nodes)} -> BOOLEAN \cup {None}],
         sweep' \in Seq(ToSet(cfg.nodes)), stopping' \subseteq Backends, events' \in Nat,
         dialed \subseteq dialed', dialed' \subseteq Ips,
         cfg.privateOnly => \A a \in dialed' : Class[a] # "public"
  PROVE  ClusterInv'
  <1>1. TypeOK'
    BY DEF ClusterInv, TypeOK, Ips
  <1>2. BootInv'
    BY DEF ClusterInv, BootInv
  <1>3. LinkInv' /\ SupervisedInv'
    BY DEF ClusterInv, LinkInv, SupervisedInv, Supervised, Own
  <1>4. SupsKept /\ NoneKept
    BY DEF SupsKept, NoneKept
  <1>5. RequestsInv' /\ DistinctInv'
    BY <1>4, GoodKept2 DEF ClusterInv
  <1>. QED  BY <1>1, <1>2, <1>3, <1>4, <1>5, SpreadKept, DialKept DEF ClusterInv

LEMMA NetTyped ==
  ASSUME ClusterInv
  PROVE  /\ phase \in {"boot", "discover", "up", "closing", "closed", "refused"} /\ world \in World
         /\ health \in [{n.id : n \in ToSet(cfg.nodes)} -> BOOLEAN \cup {None}]
         /\ sweep \in Seq(ToSet(cfg.nodes)) /\ stopping \subseteq Backends /\ events \in Nat
         /\ dialed \subseteq Ips
         /\ cfg.privateOnly => \A a \in dialed : Class[a] # "public"
  BY DEF ClusterInv, TypeOK, DialInv, Ips

LEMMA HeadIn == ASSUME NEW T, NEW q \in Seq(T), q # <<>> PROVE Head(q) \in T
  OBVIOUS

LEMMA DiscoverKeeps == ASSUME ClusterInv, Discover PROVE ClusterInv'
  <1>1. /\ sweep # <<>> /\ UNCHANGED <<cfg, world, started, sup, sups, kids, req, stopping, requests, events>>
        /\ sweep' = Tail(sweep)
    BY DEF Discover, procs, bounds
  <1>2. ~Booting
    BY <1>1 DEF ClusterInv, BootInv
  <1>3. phase' \in {phase, "up"}
    BY DEF Discover
  <1>4. ~Booting' /\ phase' \in {"boot", "discover", "up", "closing", "closed", "refused"}
    BY <1>2, <1>3, NetTyped DEF Booting
  <1>5. PICK ids : ids = {n.id : n \in ToSet(cfg.nodes)}
    OBVIOUS
  <1>6. PICK x : x = Head(sweep)
    OBVIOUS
  <1>7. x \in ToSet(cfg.nodes)
    BY <1>1, <1>6, NetTyped, HeadIn
  <1>8. x \in Node
    <2>1. cfg.nodes \in Seq(Node)
      BY DEF ClusterInv, TypeOK, Config
    <2>2. \A i \in DOMAIN cfg.nodes : cfg.nodes[i] \in Node
      BY <2>1
    <2>. QED  BY <1>7, <2>2 DEF ToSet
  <1>9. PICK p : /\ p = probeNode(cfg, world, x)
                 /\ health' = [health EXCEPT ![x.id] = p.up]
                 /\ dialed' = IF phase = "closing" THEN dialed ELSE dialed \cup p.dialed
    BY <1>6 DEF Discover
  <1>10. /\ p.up \in BOOLEAN /\ p.dialed \subseteq Ips
         /\ cfg.privateOnly => \A a \in p.dialed : Class[a] # "public"
    BY <1>8, <1>9, Probed DEF ClusterInv, TypeOK
  <1>11. /\ dialed \subseteq dialed' /\ dialed' \subseteq Ips
         /\ cfg.privateOnly => \A a \in dialed' : Class[a] # "public"
    BY <1>9, <1>10, NetTyped
  <1>12. health' \in [ids -> BOOLEAN \cup {None}]
    BY <1>5, <1>9, <1>10, NetTyped
  <1>13. sweep' \in Seq(ToSet(cfg.nodes))
    BY <1>1, NetTyped, TailSeq
  <1>. QED  BY <1>1, <1>2, <1>4, <1>5, <1>11, <1>12, <1>13, NetTyped, NetOnly

LEMMA healthRefreshLoopKeeps == ASSUME ClusterInv, healthRefreshLoop PROVE ClusterInv'
  <1>1. /\ UNCHANGED <<cfg, phase, world, health, dialed, started, sup, sups, kids, req, stopping, requests>>
        /\ phase = "up" /\ sweep' = cfg.nodes /\ events' = events + 1
    BY DEF healthRefreshLoop, procs
  <1>2. ~Booting /\ ~Booting' /\ events' \in Nat
    BY <1>1, NetTyped DEF Booting
  <1>3. PICK ns : ns = cfg.nodes
    OBVIOUS
  <1>4. ns \in Seq(Node)
    BY <1>3 DEF ClusterInv, TypeOK, Config
  <1>5. sweep' \in Seq(ToSet(cfg.nodes))
    BY <1>1, <1>3, <1>4, SeqSelf
  <1>. QED  BY <1>1, <1>2, <1>5, NetTyped, NetOnly

LEMMA WorldChangesKeeps == ASSUME ClusterInv, WorldChanges PROVE ClusterInv'
  <1>1. /\ UNCHANGED <<cfg, phase, health, sweep, dialed, started, sup, sups, kids, req, stopping, requests>>
        /\ phase \in {"discover", "up"} /\ world' \in Worlds /\ events' = events + 1
    BY DEF WorldChanges, procs, nodeHealth
  <1>2. ~Booting /\ ~Booting' /\ events' \in Nat /\ world' \in World
    BY <1>1, NetTyped, ClusterAssumption DEF Booting
  <1>. QED  BY <1>1, <1>2, NetTyped, NetOnly

LEMMA CloseKeeps == ASSUME ClusterInv, Close PROVE ClusterInv'
  <1>1. /\ UNCHANGED <<cfg, world, health, sweep, dialed, started, sup, sups, kids, req, requests, events>>
        /\ phase = "up" /\ phase' = "closing" /\ stopping' = {b \in Backends : started[b]}
    BY DEF Close, procs, nodeHealth, bounds
  <1>2. ~Booting /\ ~Booting' /\ stopping' \subseteq Backends
    BY <1>1 DEF Booting
  <1>. QED  BY <1>1, <1>2, NetTyped, NetOnly

LEMMA SeqMap ==
  ASSUME NEW T, NEW U, NEW q \in Seq(T), NEW p, DOMAIN p = DOMAIN q, p = [i \in DOMAIN q |-> p[i]],
         \A i \in DOMAIN q : p[i] \in U
  PROVE  p \in Seq(U) /\ Len(p) = Len(q)
  <1>1. DOMAIN q = 1 .. Len(q) /\ Len(q) \in Nat
    OBVIOUS
  <1>2. p \in Seq(U)
    BY <1>1
  <1>. QED  BY <1>1, <1>2

LEMMA ExitKeeps == ASSUME ClusterInv, Exit PROVE ClusterInv'
  <1>1. /\ UNCHANGED <<cfg, world, health, dialed, started, sup, kids, stopping, requests, events>>
        /\ phase = "closing" /\ phase' = "closed" /\ sweep' = <<>>
        /\ req' = [r \in Requests |-> Idle]
        /\ sups' = [s \in DOMAIN sups |-> [sups[s] EXCEPT !.watch = "gone"]]
    BY DEF Exit, bounds
  <1>2. ~Booting /\ ~Booting'
    BY <1>1 DEF Booting
  <1>3. \A r \in Requests : req'[r] = Idle
    BY <1>1
  <1>4. ASSUME NEW s \in DOMAIN sups
        PROVE  /\ sups'[s] \in Supervisor /\ sups'[s].watch = "gone"
               /\ sups'[s].backend = sups[s].backend /\ sups'[s].model = sups[s].model /\ sups'[s].rpc = sups[s].rpc
               /\ sups'[s].cmd = sups[s].cmd /\ sups'[s].restarts = sups[s].restarts
    <2>1. sups[s] \in Supervisor
      BY DEF ClusterInv, TypeOK
    <2>2. PICK x : x = [sups[s] EXCEPT !.watch = "gone"]
      OBVIOUS
    <2>3. /\ x \in Supervisor /\ x.watch = "gone" /\ x.backend = sups[s].backend /\ x.model = sups[s].model
          /\ x.rpc = sups[s].rpc /\ x.cmd = sups[s].cmd /\ x.restarts = sups[s].restarts
      BY <2>1, <2>2 DEF Supervisor
    <2>4. sups'[s] = x
      BY <1>1, <2>2
    <2>. QED  BY <2>3, <2>4
  <1>5. sups' \in Seq(Supervisor) /\ Len(sups') = Len(sups) /\ DOMAIN sups' = DOMAIN sups
    <2>1. PICK p : p = sups'
      OBVIOUS
    <2>2. /\ DOMAIN p = DOMAIN sups /\ p = [i \in DOMAIN sups |-> p[i]] /\ sups \in Seq(Supervisor)
          /\ \A i \in DOMAIN sups : p[i] \in Supervisor
      BY <1>1, <1>4, <2>1 DEF ClusterInv, TypeOK
    <2>3. p \in Seq(Supervisor) /\ Len(p) = Len(sups)
      BY <2>2, SeqMap
    <2>. QED  BY <2>1, <2>2, <2>3
  <1>6. SupsKept
    BY <1>4, <1>5 DEF SupsKept
  <1>7. TypeOK'
    <2>1. req' \in [Requests -> Request]
      BY <1>1 DEF Request
    <2>2. sweep' \in Seq(ToSet(cfg.nodes)) /\ phase' \in {"boot", "discover", "up", "closing", "closed", "refused"}
      BY <1>1
    <2>. QED  BY <1>1, <1>5, <2>1, <2>2 DEF ClusterInv, TypeOK
  <1>8. BootInv'
    BY <1>1, <1>2 DEF ClusterInv, BootInv
  <1>9. LinkInv'
    BY <1>1, <1>4, <1>5 DEF ClusterInv, LinkInv
  <1>10. SupervisedInv'
    <2>1. ASSUME NEW s \in DOMAIN sups PROVE Supervised(s)'
      <3>1. Supervised(s) /\ Own(s)' = Own(s)
        BY <1>1 DEF ClusterInv, SupervisedInv, Own
      <3>2. Cardinality(Own(s)) \in Nat /\ sups[s].restarts \in Nat
        <4>1. sups[s] \in Supervisor
          BY DEF ClusterInv, TypeOK
        <4>. QED  BY <4>1, OwnFinite DEF Supervisor, ClusterInv
      <3>3. Cardinality(Own(s)) <= sups[s].restarts + 1
        <4>1. sups[s].watch \in {"none", "wait", "backoff", "launch", "gone"}
          <5>1. sups[s] \in Supervisor
            BY DEF ClusterInv, TypeOK
          <5>. QED  BY <5>1 DEF Supervisor
        <4>. QED  BY <3>1, <3>2, <4>1, FS_EmptySet DEF Supervised
      <3>4. \A k \in Own(s) : kids'[k] = kids[k]
        BY <1>1
      <3>. QED  BY <1>1, <1>4, <3>1, <3>3, <3>4 DEF Supervised
    <2>. QED  BY <1>5, <2>1 DEF SupervisedInv
  <1>11. RequestsInv' /\ DistinctInv'
    BY <1>3 DEF RequestsInv, RequestGood, DistinctInv, Idle
  <1>12. dialed' = dialed /\ (cfg.privateOnly => \A a \in dialed : Class[a] # "public")
    BY <1>1 DEF ClusterInv, DialInv
  <1>. QED  BY <1>1, <1>5, <1>6, <1>7, <1>8, <1>9, <1>10, <1>11, <1>12, SpreadKept, DialKept DEF ClusterInv

-----------------------------------------------------------------------------
(* The specification.                                                        *)

LEMMA InitHolds == Init => ClusterInv
  <1>. SUFFICES ASSUME Init PROVE ClusterInv
    OBVIOUS
  <1>2. cfg \in Config /\ world \in World
    BY ClusterAssumption DEF Init
  <1>3. \A r \in Requests : req[r] = Idle
    BY DEF Init
  <1>4. TypeOK
    <2>1. req \in [Requests -> Request]
      BY DEF Init, Request
    <2>2. started \in [Backends -> BOOLEAN] /\ sup \in [Backends -> Nat]
      BY DEF Init
    <2>3. sups \in Seq(Supervisor) /\ kids \in Seq(Process) /\ sweep \in Seq(ToSet(cfg.nodes))
      BY DEF Init
    <2>4. health \in [{n.id : n \in ToSet(cfg.nodes)} -> BOOLEAN \cup {None}]
      BY DEF Init
    <2>. QED  BY <1>2, <2>1, <2>2, <2>3, <2>4 DEF Init, TypeOK
  <1>5. BootInv
    BY <1>3 DEF Init, BootInv, Booting
  <1>6. LinkInv
    BY DEF Init, LinkInv
  <1>7. SupervisedInv /\ SpreadInv /\ DialInv
    BY DEF Init, SupervisedInv, SpreadInv, DialInv
  <1>8. RequestsInv /\ DistinctInv
    BY <1>3 DEF RequestsInv, RequestGood, DistinctInv, Idle
  <1>. QED  BY <1>4, <1>5, <1>6, <1>7, <1>8 DEF ClusterInv

LEMMA StutterKeeps == ASSUME ClusterInv, UNCHANGED vars PROVE ClusterInv'
  <1>1. UNCHANGED <<cfg, phase, world, health, sweep, dialed, started, sup, sups, kids, req, stopping, requests, events>>
    BY DEF vars, nodeHealth, procs, bounds
  <1>. QED  BY <1>1 DEF ClusterInv, TypeOK, BootInv, Booting, LinkInv, SupervisedInv, Supervised, Own,
                       RequestsInv, RequestGood, DistinctInv, SpreadInv, DialInv

LEMMA NextKeeps == ASSUME ClusterInv, Next PROVE ClusterInv'
  <1>1. CASE LoadClusterConfig
    BY <1>1, LoadKeeps
  <1>2. CASE Discover
    BY <1>2, DiscoverKeeps
  <1>3. CASE healthRefreshLoop
    BY <1>3, healthRefreshLoopKeeps
  <1>4. CASE WorldChanges
    BY <1>4, WorldChangesKeeps
  <1>5. CASE \E k \in DOMAIN kids : KidServes(k) \/ KidExits(k)
    BY <1>5, KidServesKeeps, KidExitsKeeps
  <1>6. CASE \E s \in DOMAIN sups : watch(s) \/ watchBackoff(s) \/ watchLaunch(s)
    BY <1>6, watchKeeps, watchBackoffKeeps, watchLaunchKeeps
  <1>7. ASSUME NEW r \in Requests, RequestSteps(r) PROVE ClusterInv'
    BY <1>7, SelectBackendKeeps, StartExoKeeps, StartMLXKeeps, StartLlamaKeeps, StartKeeps, waitForReadyKeeps,
       WaitFailsKeeps, ensureStartedKeeps, HealthKeeps, FallbackKeeps, ChatKeeps DEF RequestSteps
  <1>8. ASSUME NEW r \in Requests, NEW m \in ToSet(cfg.models), ChatStream(r, m.id) PROVE ClusterInv'
    <2>1. PICK id : id = m.id
      OBVIOUS
    <2>2. ChatStream(r, id)
      BY <1>8, <2>1
    <2>. QED  BY <2>2, ChatStreamKeeps
  <1>9. CASE Close
    BY <1>9, CloseKeeps
  <1>10. CASE Exit
    BY <1>10, ExitKeeps
  <1>11. CASE \E b \in Backends : StopBackend(b)
    BY <1>11, StopBackendKeeps
  <1>. QED  BY <1>1, <1>2, <1>3, <1>4, <1>5, <1>6, <1>7, <1>8, <1>9, <1>10, <1>11 DEF Next

\* The invariant holds throughout, whatever the network and the processes do.
THEOREM ClusterKept == Spec => []ClusterInv
  <1>1. ClusterInv /\ [Next]_vars => ClusterInv'
    BY NextKeeps, StutterKeeps
  <1>. QED  BY InitHolds, <1>1, PTL DEF Spec

\* Everything the provider keeps has its type: in particular what is read from
\* the node list is there, and no index into supervisors or processes is stale.
THEOREM ClusterTyped == Spec => []TypeOK
  <1>1. ClusterInv => TypeOK
    BY DEF ClusterInv
  <1>. QED  BY ClusterKept, <1>1, PTL

\* However the restarts of process.go race with Stop, a supervisor has one live
\* process, and makes no more launches after its first than the restarts allowed.
THEOREM LaunchesBounded == Spec => []SupervisionBounded
  <1>1. ASSUME ClusterInv, NEW s \in DOMAIN sups
        PROVE  /\ Cardinality({k \in Own(s) : Live(k)}) <= 1
               /\ Cardinality(Own(s)) <= 1 \/ Cardinality(Own(s)) - 1 <= cfg.maxRestarts
    <2>1. Supervised(s) /\ sups[s] \in Supervisor /\ cfg \in Config
      BY <1>1 DEF ClusterInv, SupervisedInv, TypeOK
    <2>2. PICK n \in Nat : n = Cardinality(Own(s))
      BY <1>1, OwnFinite DEF ClusterInv
    <2>3. /\ sups[s].restarts \in Nat /\ cfg.maxRestarts \in Int
          /\ sups[s].watch \in {"none", "wait", "backoff", "launch", "gone"}
      BY <2>1 DEF Supervisor, Config
    <2>4. n <= sups[s].restarts + 1
      BY <2>1, <2>2, <2>3, FS_EmptySet DEF Supervised
    <2>5. n <= 1 \/ n - 1 <= cfg.maxRestarts
      BY <2>1, <2>3, <2>4 DEF Supervised
    <2>6. {k \in Own(s) : Live(k)} \subseteq {sups[s].cmd}
      BY <2>1 DEF Supervised, Live
    <2>7. Cardinality({k \in Own(s) : Live(k)}) <= 1
      <3>1. IsFiniteSet({sups[s].cmd}) /\ Cardinality({sups[s].cmd}) = 1
        BY FS_Singleton
      <3>. QED  BY <2>6, <3>1, FS_Subset
    <2>. QED  BY <2>2, <2>5, <2>7
  <1>2. ClusterInv => SupervisionBounded
    BY <1>1 DEF SupervisionBounded, Own
  <1>. QED  BY ClusterKept, <1>2, PTL

\* Whatever the health it was admitted with, what scheduler.go lets start fits
\* every node it is spread over, and what is served locally the coordinator.
THEOREM PlacementKept == Spec => []PlacementSafe
  <1>1. ClusterInv => PlacementSafe
    BY DEF ClusterInv, SpreadInv, RequestsInv, RequestGood, PlacementSafe
  <1>. QED  BY ClusterKept, <1>1, PTL

\* A private cluster dials private addresses, and gives a llama-server one of
\* every worker that accepted a connection, whatever names resolve to meanwhile.
THEOREM PrivateKept == Spec => []PrivateAndComplete
  <1>1. ClusterInv => PrivateAndComplete
    BY DEF ClusterInv, DialInv, PrivateAndComplete
  <1>. QED  BY ClusterKept, <1>1, PTL
=============================================================================
