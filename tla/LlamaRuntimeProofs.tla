------------------------- MODULE LlamaRuntimeProofs -------------------------
(***************************************************************************)
(* The supervision of llama-server processes and the cache of model files  *)
(* keep their promises for any number of agents, servers, repositories and *)
(* crashes, any machine and any sizes: the machine is not overcommitted,   *)
(* Close leaves no server behind, what the tuner recommends passes the     *)
(* gate, and only verified bytes are visible and none of them is lost.     *)
(***************************************************************************)
EXTENDS LlamaRuntime, FiniteSetTheorems, WellFoundedInduction, TLAPS

-----------------------------------------------------------------------------
(* Sums over finite sets (SumFunctionOnSet).  That a set of numbers has a     *)
(* least element gives an induction over the size of a set: a sum is a fold,  *)
(* a fold is a function by recursion over subsets, and that function exists.  *)
(* SumInduction states the induction for a set R of pairs of a subset and a   *)
(* value.                                                                     *)

Less == {ss \in Nat \X Nat : ss[1] < ss[2]}

LEMMA LessIs == OpToRel(<, Nat) = Less
  BY Zenon DEF OpToRel, Less

LEMMA LessHolds == \A m, n \in Nat : m < n => <<m, n>> \in Less
  BY DEF Less

LEMMA NatMin == ASSUME NEW T, T \subseteq Nat, T # {} PROVE \E n \in T : \A m \in T : n <= m
  <1>1. IsWellFoundedOn(Less, Nat)
    BY Zenon, NatLessThanWellFounded, LessIs
  <1>2. PICK n \in T : \A m \in T : ~(<<m, n>> \in Less)
    BY <1>1, WFMin
  <1>3. \A m \in T : ~(m < n)
    BY <1>2, LessHolds
  <1>. QED BY <1>3

LEMMA NatMax ==
    ASSUME NEW N \in Nat, NEW T, T \subseteq Nat, T # {}, \A c \in T : c <= N
    PROVE  \E x \in T : \A y \in T : y <= x
  <1>1. PICK D : D = {N - c : c \in T}
    OBVIOUS
  <1>2. D \subseteq Nat /\ D # {}
    <2>1. \A c \in T : N - c \in Nat
      OBVIOUS
    <2>. QED
      BY <1>1, <2>1
  <1>3. PICK d \in D : \A e \in D : d <= e
    BY <1>2, NatMin
  <1>4. PICK x \in T : d = N - x
    BY <1>1
  <1>5. ASSUME NEW y \in T PROVE y <= x
    <2>1. N - y \in D
      BY <1>1
    <2>. QED
      BY <1>3, <1>4, <2>1
  <1>. QED
    BY <1>5

Pick(s) == CHOOSE x \in s : TRUE

Unfolds(g, f, S) ==
  g = [s \in SUBSET S |-> IF s = {} THEN 0 ELSE f[Pick(s)] + g[s \ {Pick(s)}]]

LEMMA SumIs ==
  ASSUME NEW f, NEW S
  PROVE  SumFunctionOnSet(f, S) = (CHOOSE g : Unfolds(g, f, S))[S]
  BY DEF SumFunctionOnSet, FoldFunctionOnSet, MapThenFoldSet, Unfolds, Pick

\* The subsets of at most n elements.
Upto(S, n) == {s \in SUBSET S : Cardinality(s) <= n}

UnfoldsTo(g, f, S, n) ==
  g = [s \in Upto(S, n) |-> IF s = {} THEN 0 ELSE f[Pick(s)] + g[s \ {Pick(s)}]]

LEMMA PickIn == ASSUME NEW S, IsFiniteSet(S), NEW s \in SUBSET S, s # {}
  PROVE /\ Pick(s) \in s /\ s \ {Pick(s)} \in SUBSET S
        /\ Cardinality(s) \in Nat /\ Cardinality(s \ {Pick(s)}) = Cardinality(s) - 1
  <1>1. Pick(s) \in s  BY DEF Pick
  <1>2. IsFiniteSet(s) BY FS_Subset
  <1>3. Cardinality(s) \in Nat BY <1>2, FS_CardinalityType
  <1>4. Cardinality(s \ {Pick(s)}) = Cardinality(s) - 1
    BY <1>1, <1>2, FS_RemoveElement
  <1>. QED BY <1>1, <1>3, <1>4

LEMMA SumExists ==
  ASSUME NEW f, NEW S, IsFiniteSet(S)
  PROVE  \E g : Unfolds(g, f, S)
  <1>. DEFINE Bad == {n \in Nat : ~\E g : UnfoldsTo(g, f, S, n)}
  <1>1. ASSUME Bad # {} PROVE FALSE
    <2>1. PICK n \in Bad : \A m \in Bad : n <= m
      <3>1. Bad \subseteq Nat OBVIOUS
      <3>2. PICK T : T = Bad OBVIOUS
      <3>. HIDE DEF Bad
      <3>. QED BY <1>1, <3>1, <3>2, NatMin
    <2>2. n \in Nat /\ ~\E g : UnfoldsTo(g, f, S, n)
      BY <2>1
    <2>3. CASE n = 0
      <3>1. PICK g : g = [s \in Upto(S, n) |-> 0]
        OBVIOUS
      <3>2. \A s \in Upto(S, n) : s = {}
        BY <2>3, FS_Subset, FS_CardinalityType, FS_EmptySet DEF Upto
      <3>3. UnfoldsTo(g, f, S, n)
        BY <3>1, <3>2 DEF UnfoldsTo
      <3>. QED BY <2>2, <3>3
    <2>4. CASE n # 0
      <3>1. n - 1 \in Nat /\ n - 1 \notin Bad
        BY <2>1, <2>2, <2>4
      <3>2. PICK h : UnfoldsTo(h, f, S, n - 1)
        BY <3>1
      <3>3. PICK g : g = [s \in Upto(S, n) |-> IF s = {} THEN 0 ELSE f[Pick(s)] + h[s \ {Pick(s)}]]
        OBVIOUS
      <3>4. ASSUME NEW s \in Upto(S, n), s # {}
          PROVE  s \ {Pick(s)} \in Upto(S, n - 1) /\ s \ {Pick(s)} \in Upto(S, n)
        <4>1. Cardinality(s) \in Nat /\ Cardinality(s) <= n /\ s \in SUBSET S
          BY <3>4, PickIn DEF Upto
        <4>2. Cardinality(s \ {Pick(s)}) = Cardinality(s) - 1 /\ s \ {Pick(s)} \in SUBSET S
          BY <3>4, <4>1, PickIn
        <4>. QED BY <2>2, <4>1, <4>2 DEF Upto
      <3>5. \A t \in Upto(S, n - 1) : t \in Upto(S, n) /\ g[t] = h[t]
        <4>1. SUFFICES ASSUME NEW t \in Upto(S, n - 1) PROVE t \in Upto(S, n) /\ g[t] = h[t]
          OBVIOUS
        <4>2. Cardinality(t) \in Nat
          BY FS_Subset, FS_CardinalityType DEF Upto
        <4>3. t \in Upto(S, n)
          BY <2>2, <4>2 DEF Upto
        <4>4. h[t] = IF t = {} THEN 0 ELSE f[Pick(t)] + h[t \ {Pick(t)}]
          BY <3>2 DEF UnfoldsTo
        <4>. QED BY <3>3, <4>3, <4>4
      <3>6. \A s \in Upto(S, n) : s # {} => g[s \ {Pick(s)}] = h[s \ {Pick(s)}]
        BY <3>4, <3>5
      <3>7. UnfoldsTo(g, f, S, n)
        BY <3>3, <3>6 DEF UnfoldsTo
      <3>. QED BY <2>2, <3>7
    <2>. QED BY <2>3, <2>4
  <1>2. Cardinality(S) \in Nat
    BY FS_CardinalityType
  <1>3. PICK g : UnfoldsTo(g, f, S, Cardinality(S))
    BY <1>1, <1>2
  <1>4. Upto(S, Cardinality(S)) = SUBSET S
    BY FS_Subset DEF Upto
  <1>. QED BY <1>3, <1>4 DEF Unfolds, UnfoldsTo

LEMMA SumEmpty == ASSUME NEW f PROVE SumFunctionOnSet(f, {}) = 0
  <1>1. PICK g : Unfolds(g, f, {})
    BY SumExists, FS_EmptySet
  <1>2. PICK h : h = CHOOSE k : Unfolds(k, f, {})
    OBVIOUS
  <1>3. Unfolds(h, f, {})
    BY <1>1, <1>2
  <1>4. h[{}] = 0
    BY <1>3 DEF Unfolds
  <1>. QED BY <1>2, <1>4, SumIs

LEMMA SumOne == ASSUME NEW f, NEW x, f[x] \in Int PROVE SumFunctionOnSet(f, {x}) = f[x]
  <1>1. PICK g : Unfolds(g, f, {x})
    BY SumExists, FS_Singleton
  <1>2. PICK h : h = CHOOSE k : Unfolds(k, f, {x})
    OBVIOUS
  <1>3. Unfolds(h, f, {x})
    BY <1>1, <1>2
  <1>4. h[{}] = 0
    BY <1>3 DEF Unfolds
  <1>5. Pick({x}) = x
    BY DEF Pick
  <1>6. h[{x}] = f[Pick({x})] + h[{x} \ {Pick({x})}]
    BY <1>3 DEF Unfolds
  <1>7. h[{x}] = f[x] + h[{}]
    <2>1. {x} \ {x} = {}
      OBVIOUS
    <2>. QED BY <1>5, <1>6, <2>1
  <1>8. h[{x}] = f[x]
    BY <1>4, <1>7
  <1>. QED BY <1>2, <1>8, SumIs

LEMMA SumInduction ==
  ASSUME NEW f, NEW S, IsFiniteSet(S), NEW R, <<{}, 0>> \in R,
         \A s \in SUBSET S : \A x \in s : \A v : <<s \ {x}, v>> \in R => <<s, f[x] + v>> \in R
  PROVE  <<S, SumFunctionOnSet(f, S)>> \in R
  <1>1. PICK g : Unfolds(g, f, S)
    BY SumExists
  <1>2. PICK h : h = CHOOSE k : Unfolds(k, f, S)
    OBVIOUS
  <1>3. Unfolds(h, f, S)
    BY <1>1, <1>2
  <1>. DEFINE Bad == {n \in Nat : \E s \in SUBSET S : Cardinality(s) = n /\ <<s, h[s]>> \notin R}
  <1>4. ASSUME Bad # {} PROVE FALSE
    <2>1. PICK n \in Bad : \A m \in Bad : n <= m
      <3>1. Bad \subseteq Nat OBVIOUS
      <3>2. PICK T : T = Bad OBVIOUS
      <3>. HIDE DEF Bad
      <3>. QED BY <1>4, <3>1, <3>2, NatMin
    <2>2. PICK s \in SUBSET S : Cardinality(s) = n /\ <<s, h[s]>> \notin R
      BY <2>1
    <2>3. h[s] = IF s = {} THEN 0 ELSE f[Pick(s)] + h[s \ {Pick(s)}]
      BY <1>3 DEF Unfolds
    <2>4. s # {}
      BY <2>2, <2>3
    <2>5. /\ Pick(s) \in s /\ s \ {Pick(s)} \in SUBSET S /\ n \in Nat
        /\ Cardinality(s \ {Pick(s)}) = n - 1
      BY <2>2, <2>4, PickIn
    <2>6. n - 1 \in Nat /\ n - 1 \notin Bad
      <3>1. Cardinality(s \ {Pick(s)}) \in Nat
        BY <2>5, FS_Subset, FS_CardinalityType
      <3>2. n - 1 \in Nat
        BY <2>5, <3>1
      <3>. HIDE DEF Bad
      <3>. QED BY <2>1, <2>5, <3>2
    <2>7. <<s \ {Pick(s)}, h[s \ {Pick(s)}]>> \in R
      BY <2>5, <2>6
    <2>8. <<s, f[Pick(s)] + h[s \ {Pick(s)}]>> \in R
      BY <2>5, <2>7
    <2>. QED BY <2>2, <2>3, <2>4, <2>8
  <1>5. Cardinality(S) \in Nat
    BY FS_CardinalityType
  <1>6. <<S, h[S]>> \in R
    BY <1>4, <1>5
  <1>. QED BY <1>2, <1>6, SumIs

LEMMA SumNat ==
  ASSUME NEW f, NEW S, IsFiniteSet(S), \A x \in S : f[x] \in Nat
  PROVE  SumFunctionOnSet(f, S) \in Nat
  <1>1. PICK R : R = (SUBSET S) \X Nat
    OBVIOUS
  <1>2. \A s \in SUBSET S : \A x \in s : \A v : <<s \ {x}, v>> \in R => <<s, f[x] + v>> \in R
    BY <1>1
  <1>3. <<S, SumFunctionOnSet(f, S)>> \in R
    BY <1>1, <1>2, SumInduction
  <1>. QED BY <1>1, <1>3

-----------------------------------------------------------------------------
(* The inductive invariant, in parts.                                        *)

RtFields == {"pc", "state", "started", "closing", "cancel", "cmd", "reaped", "admitted", "close",
             "cfg", "tuned", "report", "visited"}
CfgFields == {"model", "ctx", "kv", "layers"}
SrvFields == {"live", "owner", "need", "killed"}
DlFields == {"pc", "repo", "ctx", "m", "todo", "file", "report"}

\* A runtime: Close closes it before it waits for Start; Start has a command only
\* after the launch; a refusal is reported only where nothing was launched.
RtGood(r) ==
    /\ DOMAIN r = RtFields /\ DOMAIN r.cfg = CfgFields
    /\ r.cfg.model \in Repos \cup {None} /\ r.cfg.ctx \in Nat
    /\ r.close \in {"idle", "barrier", "stop", "closed", "closeFailed"}
    /\ r.close # "idle" => r.closing
    /\ r.close \in {"stop", "closed", "closeFailed"} => r.pc \in {"new", "ready", "failed"}
    /\ r.cmd # None => r.cmd \in Servers /\ r.pc \in {"probe", "stop", "settle", "ready", "failed"}
    /\ r.pc = "probe" => r.cmd # None
    /\ r.report # None => r.pc = "failed" /\ r.cmd = None
    /\ r.close = "closed" => r.cmd = None \/ r.reaped

RuntimesInv == DOMAIN rt = Procs /\ \A p \in Procs : RtGood(rt[p])

\* A manifest names files of one listing.
GoodManifest(m) ==
    /\ m.repo \in Repos /\ m.commit \in Commits
    /\ m.models \subseteq Listing[m.repo][m.commit] /\ m.mmproj \subseteq Listing[m.repo][m.commit]

\* A download works on a good manifest, and fetches files of it.
DlGood(d) ==
    /\ DOMAIN d = DlFields
    /\ d.m # None => GoodManifest(d.m)
    /\ d.pc \notin {"idle", "resolve", "failed"} => d.m # None
    /\ d.pc # "idle" => d.repo \in Repos
    /\ d.pc \in {"claim", "fetch"} => d.todo \subseteq Artifacts(d.m)
    /\ d.pc = "fetch" => d.file \in d.todo

\* A process that is not in resolveArtifacts has no download under way.
CallsInv ==
    /\ DOMAIN head = Repos /\ DOMAIN pin = Repos /\ DOMAIN dl = Procs
    /\ \A r \in Repos : head[r] \in Commits /\ (pin[r] # None => GoodManifest(pin[r]))
    /\ \A p \in Procs : /\ DlGood(dl[p])
                        /\ rt[p].pc # "resolve" => dl[p].pc \in {"idle", "held"}

Fetching == {"acquireManifest", "plan", "claim", "fetch", "commit"}

\* The stages of a process: it has them only under the lock of the models directory;
\* all but the file being fetched are verified, those still to fetch are absent, and
\* what is staged has no .part beside it.
FilesOf(p) ==
    LET d == dl[p] IN
    /\ DOMAIN stage[p] = Paths
    /\ d.pc \in Fetching => acq = p
    /\ d.pc = "fetch" => part[Path(d.m, d.file)] = "none"
    /\ \A x \in Paths :
          /\ stage[p][x] # "none" => d.pc \in {"claim", "fetch", "commit"} /\ part[x] = "none"
          /\ stage[p][x] \in {"none", "good"} \/ (d.pc = "fetch" /\ x = Path(d.m, d.file))
    /\ \A f \in d.todo : d.pc = "claim" \/ (d.pc = "fetch" /\ f # d.file)
                            => stage[p][Path(d.m, f)] = "none"

FilesInv ==
    /\ DOMAIN final = Paths /\ DOMAIN part = Paths /\ DOMAIN stage = Procs
    /\ FinalsVerified
    /\ \A p \in Procs : FilesOf(p)

\* The admission lock: a running server holds it, so at most one runs; its supervisor,
\* if alive, has it as its command; a Start between lock and launch is alone with it.
LockInv ==
    /\ DOMAIN srv = Servers
    /\ \A s \in Servers : DOMAIN srv[s] = SrvFields
    /\ \A s \in Live : s \in lock
    /\ \A s, t \in Live : s = t
    /\ \A s \in Live, p \in Procs :
          /\ srv[s].owner = p => rt[p].cmd = s /\ ~rt[p].reaped
          /\ p \in lock => srv[s].owner = p
    /\ \A p \in Procs : rt[p].pc \in {"verify", "inspect", "launch"} => lock = {p}

Budget == MemoryBudget(Measured(Machine.total), 0)
Within(n) == n \in Nat /\ n <= Budget

\* What was admitted, and what a server takes, is within the budget of the machine.
FitInv ==
    /\ \A p \in Procs : rt[p].pc = "launch" => Within(RuntimeEstimate(LaunchRequest(p, Machine)))
    /\ \A s \in Live : Within(srv[s].need)

\* A tuned configuration is the recommendation for the host and sizes remembered with it.
TunedGood(r) ==
    LET t == r.tuned
        rec == RecommendRuntime(t.host, t.size.model, t.size.mmproj, 0, NativeCtx)
    IN t # None =>
         /\ r.pc \in {"new", "resolve", "lock", "verify", "inspect"}
         /\ t.host = Measured(t.host.avail) /\ t.host.avail \in 0 .. Machine.total
         /\ t.size.model \in Nat \ {0} /\ t.size.mmproj \in Nat
         /\ r.cfg.ctx = rec.ctx /\ r.cfg.kv = rec.kv /\ r.cfg.layers = rec.layers

TunedInv == \A p \in Procs : TunedGood(rt[p])

-----------------------------------------------------------------------------
(* The tuner and the gate.                                                    *)

LEMMA LadderMax ==
    ASSUME NEW T, T \subseteq ctxLadder, T # {}
    PROVE  Max(T) \in T /\ \A c \in T : c <= Max(T)
  <1>1. T \subseteq Nat /\ \A c \in T : c <= 131072
    BY DEF ctxLadder
  <1>2. PICK x \in T : \A y \in T : y <= x
    <2>1. PICK N \in Nat : N = 131072
      OBVIOUS
    <2>2. T \subseteq Nat /\ \A c \in T : c <= N
      BY <1>1, <2>1
    <2>. QED
      BY <2>2, NatMax
  <1>3. Max(T) \in T /\ \A y \in T : Max(T) >= y
    <2>1. \A y \in T : x >= y
      BY <1>1, <1>2
    <2>. QED
      BY <2>1 DEF Max
  <1>. QED
    BY <1>1, <1>3

LEMMA LargestCtx ==
    ASSUME NEW budget, NEW base, NEW ceiling, NEW perToken
    PROVE  LET c == largestCtxWithin(budget, base, ceiling, perToken)
           IN c = 0 \/ (c \in ctxLadder /\ c <= ceiling /\ base + c * perToken <= budget)
  <1>. DEFINE fitting == {c \in ctxLadder : c <= ceiling /\ base + c * perToken <= budget}
  <1>1. CASE fitting = {}
    BY <1>1 DEF largestCtxWithin
  <1>2. CASE fitting # {}
    <2>1. Max(fitting) \in fitting
      BY <1>2, LadderMax
    <2>. QED
      BY <1>2, <2>1 DEF largestCtxWithin
  <1>. QED
    BY <1>1, <1>2

LEMMA LadderNat == \A c \in ctxLadder : c \in Nat \ {0}
  BY DEF ctxLadder

(* What the tuner found to fit really fits, with the context and the cache it  *)
(* names.                                                                      *)
LEMMA FitCtxAndKV ==
    ASSUME NEW budget, NEW base, NEW ceiling
    PROVE  LET fit == fitCtxAndKV(budget, base, ceiling)
               perToken == kvBytesPerToken(DefaultFitPolicy.kvPerToken, fit.kv)
           IN /\ fit.ctx = 0 \/ (/\ fit.ctx \in ctxLadder
                                 /\ base + fit.ctx * perToken <= budget)
              /\ fit.kv \in {"f16", "q8_0", "q4_0"}
  <1>. DEFINE ctx(i) == largestCtxWithin(budget, base, ceiling,
                            kvBytesPerToken(DefaultFitPolicy.kvPerToken, kvTypeLadder[i]))
              usable == {i \in DOMAIN kvTypeLadder : ctx(i) >= minRecommendedCtx}
  <1>1. CASE usable = {}
    BY <1>1 DEF fitCtxAndKV
  <1>2. CASE usable # {}
    <2>1. usable \subseteq {1, 2, 3}
      BY DEF kvTypeLadder
    <2>2. \E i \in usable : \A j \in usable : i <= j
      <3>1. PICK T : T = usable
        OBVIOUS
      <3>2. T \subseteq Nat /\ T # {}
        BY <1>2, <2>1, <3>1
      <3>. QED
        BY <3>1, <3>2, NatMin
    <2>3. PICK i : i = Min(usable)
      OBVIOUS
    <2>4. i \in usable /\ i \in {1, 2, 3}
      <3>. HIDE DEF usable
      <3>. QED BY <2>1, <2>2, <2>3 DEF Min
    <2>5. fitCtxAndKV(budget, base, ceiling) = [ctx |-> ctx(i), kv |-> kvTypeLadder[i]]
      BY <1>2, <2>3 DEF fitCtxAndKV
    <2>6. kvTypeLadder[i] \in {"f16", "q8_0", "q4_0"}
      BY <2>4 DEF kvTypeLadder
    <2>7. ctx(i) = 0 \/ (/\ ctx(i) \in ctxLadder
                         /\ base + ctx(i) * kvBytesPerToken(DefaultFitPolicy.kvPerToken, kvTypeLadder[i]) <= budget)
      BY LargestCtx
    <2>8. PICK c, k : c = ctx(i) /\ k = kvTypeLadder[i]
      OBVIOUS
    <2>. QED
      BY <2>5, <2>6, <2>7, <2>8
  <1>. QED
    BY <1>1, <1>2

LEMMA RecommendedCtx ==
    ASSUME NEW host, NEW model, NEW mmproj
    PROVE  RecommendRuntime(host, model, mmproj, 0, NativeCtx).ctx \in Nat
  <1>1. PICK ceiling : ceiling = effectiveCtxCeiling(0, NativeCtx)
    OBVIOUS
  <1>2. Max(ctxLadder) \in ctxLadder
    BY LadderMax DEF ctxLadder
  <1>3. ceiling \in Nat
    BY <1>1, <1>2, LadderNat, RuntimeAssumption
       DEF effectiveCtxCeiling, fallbackCtxCeiling, Smaller
  <1>4. \A b, w : fitCtxAndKV(b, w, ceiling).ctx \in Nat
    BY FitCtxAndKV, LadderNat
  <1>5. \A b, w, k : largestCtxWithin(b, w, ceiling, k) \in Nat
    BY LargestCtx, LadderNat
  <1>6. \A fit, c : fit.ctx \in Nat /\ c \in Nat => OrElse(fit, c).ctx \in Nat
    BY DEF OrElse
  <1>7. Smaller(4096, ceiling) \in Nat
    BY <1>3 DEF Smaller
  <1>. QED
    BY <1>1, <1>4, <1>5, <1>6, <1>7 DEF RecommendRuntime, defaultContextTokens
-----------------------------------------------------------------------------
LEMMA NewFields ==
    /\ DOMAIN NewRuntime = RtFields /\ DOMAIN NewRuntime.cfg = CfgFields
    /\ NewRuntime.cfg.model = None /\ NewRuntime.cfg.ctx \in Nat
    /\ NewRuntime.pc = "new" /\ NewRuntime.close = "idle" /\ NewRuntime.closing = FALSE
    /\ NewRuntime.cmd = None /\ NewRuntime.report = None /\ NewRuntime.tuned = None
  BY DEF NewRuntime, RtFields, CfgFields, defaultContextTokens

LEMMA DownFields ==
    /\ RtGood(Down) /\ Down.pc = "down" /\ Down.cmd = None /\ Down.tuned = None
  <1>1. /\ DOMAIN Down = RtFields /\ Down.cfg = NewRuntime.cfg
        /\ Down.pc = "down" /\ Down.close = "idle"
        /\ Down.cmd = None /\ Down.report = None /\ Down.tuned = None
    BY NewFields DEF Down, RtFields
  <1>. QED
    BY <1>1, NewFields DEF RtGood

LEMMA FailedFields ==
    ASSUME NEW r, NEW report, DOMAIN r = RtFields
    PROVE  /\ DOMAIN Failed(r, report) = RtFields
           /\ Failed(r, report).pc = "failed" /\ Failed(r, report).tuned = None
           /\ Failed(r, report).report # None => report # None
           /\ Failed(r, report).cfg = r.cfg /\ Failed(r, report).close = r.close
           /\ Failed(r, report).closing = r.closing /\ Failed(r, report).cmd = r.cmd
           /\ Failed(r, report).reaped = r.reaped
  BY DEF Failed, RtFields

LEMMA FailedGood ==
    ASSUME NEW r, NEW report, RtGood(r), r.cmd # None => report = None
    PROVE  RtGood(Failed(r, report))
  <1>1. DOMAIN r = RtFields
    BY DEF RtGood
  <1>. QED
    BY <1>1, FailedFields DEF RtGood
-----------------------------------------------------------------------------
(* A step of a process touches its own runtime only.                          *)
RtMove(p) == DOMAIN rt' = Procs /\ \A q \in Procs : q # p => rt'[q] = rt[q]

LEMMA RuntimesMove ==
    ASSUME RuntimesInv, NEW p \in Procs, RtMove(p), RtGood(rt'[p])
    PROVE  RuntimesInv'
  BY DEF RuntimesInv, RtMove

LEMMA FailStartMove ==
    ASSUME RuntimesInv, NEW p \in Procs, NEW report, failStart(p, report),
           rt[p].cmd # None => report = None
    PROVE  RtMove(p) /\ RtGood(rt'[p])
  <1>1. rt'[p] = Failed(rt[p], report) /\ RtMove(p)
    BY DEF failStart, RuntimesInv, RtMove
  <1>. QED
    BY <1>1, FailedGood DEF RuntimesInv

LEMMA FreshGood ==
    ASSUME NEW pc \in {"reaping", "tune"}, NEW model \in Repos \cup {None}, NEW visited
    PROVE  /\ RtGood([NewRuntime EXCEPT !.pc = pc, !.cfg.model = model])
           /\ RtGood([NewRuntime EXCEPT !.pc = pc, !.cfg.model = model, !.visited = visited])
  BY NewFields DEF RtGood, RtFields, CfgFields

LEMMA RuntimesBuild ==
    ASSUME RuntimesInv, NEW p \in Procs, Build(p)
    PROVE  RtMove(p) /\ RtGood(rt'[p])
  <1>0. p \in DOMAIN rt /\ DOMAIN rt = Procs /\ RtGood(rt[p])
    BY DEF RuntimesInv
  <1>1. CASE ReapOrphanedServers(p)
    <2>1. Source[p] \in Repos \cup {None}
      BY RuntimeAssumption
    <2>2. RtMove(p) /\ rt'[p] = [NewRuntime EXCEPT !.pc = "reaping", !.cfg.model = Source[p]]
      BY <1>0, <1>1 DEF ReapOrphanedServers, RtMove
    <2>. QED
      BY <2>1, <2>2, FreshGood
  <1>2. CASE waitForExit(p)
    BY <1>0, <1>2 DEF waitForExit, RtMove, RtGood, RtFields
  <1>3. CASE applyLlamaAutoTune(p)
    <2>1. PICK h : LET rec == autoTuneLlama(p, h)
                       tuned == PinnedLayers = 0 /\ PlannedSize(p).model > 0
                   IN rt' = [rt EXCEPT ![p].pc = "new",
                             ![p].cfg = IF tuned THEN [model |-> @.model, ctx |-> rec.ctx, kv |-> rec.kv, layers |-> rec.layers] ELSE @,
                             ![p].tuned = IF tuned THEN [host |-> h, size |-> PlannedSize(p)] ELSE None]
      BY <1>3 DEF applyLlamaAutoTune
    <2>2. PICK rec : rec = autoTuneLlama(p, h)
      OBVIOUS
    <2>3. rec.ctx \in Nat
      BY <2>2, RecommendedCtx DEF autoTuneLlama
    <2>4. /\ RtMove(p) /\ DOMAIN rt'[p] = RtFields
          /\ rt'[p].pc = "new" /\ rt'[p].close = rt[p].close /\ rt'[p].closing = rt[p].closing
          /\ rt'[p].cmd = rt[p].cmd /\ rt'[p].reaped = rt[p].reaped /\ rt'[p].report = rt[p].report
          /\ \/ rt'[p].cfg = rt[p].cfg
             \/ rt'[p].cfg = [model |-> rt[p].cfg.model, ctx |-> rec.ctx, kv |-> rec.kv, layers |-> rec.layers]
      BY <1>0, <2>1, <2>2 DEF RtMove, RtFields, RtGood
    <2>5. rt[p].pc = "tune"
      BY <1>3 DEF applyLlamaAutoTune
    <2>6. DOMAIN rt'[p].cfg = CfgFields /\ rt'[p].cfg.model = rt[p].cfg.model /\ rt'[p].cfg.ctx \in Nat
      BY <1>0, <2>3, <2>4 DEF CfgFields, RtGood
    <2>. QED
      BY <1>0, <2>4, <2>5, <2>6 DEF RtGood
  <1>4. CASE startLlamaRuntime(p)
    <2>1. PICK m \in Replacement(p) :
            rt' = [rt EXCEPT ![p] = [NewRuntime EXCEPT !.pc = "tune", !.cfg.model = m.ref,
                                                       !.visited = rt[p].visited \cup {rt[p].cfg.model}]]
      BY <1>4 DEF startLlamaRuntime
    <2>2. m \in Ladder
      BY DEF Replacement, AutoPick, FittingCandidates, smallerCandidates
    <2>3. m.ref \in Repos \cup {None}
      BY <2>2, RuntimeAssumption
    <2>4. PICK v, pc, model : v = rt[p].visited \cup {rt[p].cfg.model} /\ pc = "tune" /\ model = m.ref
      OBVIOUS
    <2>5. RtMove(p) /\ rt'[p] = [NewRuntime EXCEPT !.pc = pc, !.cfg.model = model, !.visited = v]
      BY <1>0, <2>1, <2>4 DEF RtMove
    <2>6. pc \in {"reaping", "tune"} /\ model \in Repos \cup {None}
      BY <2>3, <2>4
    <2>7. RtGood([NewRuntime EXCEPT !.pc = pc, !.cfg.model = model, !.visited = v])
      BY <2>6, FreshGood
    <2>. QED
      BY <2>5, <2>7
  <1>. QED
    BY <1>1, <1>2, <1>3, <1>4 DEF Build

LEMMA RuntimesStart ==
    ASSUME RuntimesInv, NEW p \in Procs, Start(p)
    PROVE  RtMove(p) /\ RtGood(rt'[p])
  <1>0. p \in DOMAIN rt /\ DOMAIN rt = Procs /\ RtGood(rt[p])
    BY DEF RuntimesInv
  <1>1. ASSUME NEW report, failStart(p, report), rt[p].cmd # None => report = None
        PROVE  RtMove(p) /\ RtGood(rt'[p])
    BY <1>1, FailStartMove
  <1>2. ASSUME failStart(p, None) PROVE RtMove(p) /\ RtGood(rt'[p])
    BY <1>2, FailStartMove
  <1>3. CASE StartBegin(p)
    <2>1. CASE rt[p].closing
      BY <1>2, <1>3, <2>1 DEF StartBegin
    <2>2. CASE ~rt[p].closing
      BY <1>0, <1>3, <2>2 DEF StartBegin, RtMove, RtGood, RtFields
    <2>. QED BY <2>1, <2>2
  <1>4. CASE InvalidConfig(p)
    BY <1>2, <1>4 DEF InvalidConfig
  <1>5. CASE EnsureArtifacts(p)
    BY <1>0, <1>5 DEF EnsureArtifacts, rtVars, RtMove
  <1>6. CASE resolveArtifacts(p)
    <2>1. CASE dl[p].pc = "got"
      BY <1>0, <1>6, <2>1 DEF resolveArtifacts, RtMove, RtGood, RtFields
    <2>2. CASE dl[p].pc # "got"
      <3>1. PICK report : failStart(p, report)
        BY <1>6, <2>2 DEF resolveArtifacts
      <3>2. rt[p].cmd = None
        BY <1>0, <1>6 DEF resolveArtifacts, RtGood
      <3>. QED BY <1>1, <3>1, <3>2
    <2>. QED BY <2>1, <2>2
  <1>7. CASE acquireFileLock(p)
    <2>1. CASE rt' = [rt EXCEPT ![p].pc = "verify"]
      BY <1>0, <1>7, <2>1 DEF acquireFileLock, RtMove, RtGood, RtFields
    <2>. QED BY <1>2, <1>7, <2>1 DEF acquireFileLock
  <1>8. CASE verifyLocalArtifactsAgainstManifest(p)
    <2>1. CASE rt' = [rt EXCEPT ![p].pc = "inspect"]
      BY <1>0, <1>8, <2>1 DEF verifyLocalArtifactsAgainstManifest, RtMove, RtGood, RtFields
    <2>. QED BY <1>2, <1>8, <2>1 DEF verifyLocalArtifactsAgainstManifest
  <1>9. CASE Admit(p)
    <2>1. PICK h : \/ rt' = [rt EXCEPT ![p].pc = "launch", ![p].admitted = InspectLocal(p, h).runtime, ![p].tuned = None]
                   \/ failStart(p, InspectLocal(p, h))
      BY <1>9 DEF Admit
    <2>2. rt[p].pc = "inspect" /\ rt[p].cmd = None
      BY <1>0, <1>9 DEF Admit, RtGood
    <2>3. CASE rt' = [rt EXCEPT ![p].pc = "launch", ![p].admitted = InspectLocal(p, h).runtime, ![p].tuned = None]
      BY <1>0, <2>2, <2>3 DEF RtMove, RtGood, RtFields
    <2>4. CASE failStart(p, InspectLocal(p, h))
      <3>1. PICK report : report = InspectLocal(p, h)
        OBVIOUS
      <3>. QED BY <1>1, <2>2, <2>4, <3>1
    <2>. QED BY <2>1, <2>3, <2>4
  <1>10. CASE Launch(p)
    <2>1. CASE ~MayLaunch(p)
      BY <1>2, <1>10, <2>1 DEF Launch
    <2>2. CASE MayLaunch(p)
      <3>1. PICK s \in Servers :
              rt' = [rt EXCEPT ![p].pc = "probe", ![p].state = "starting", ![p].cmd = s, ![p].reaped = FALSE]
        BY <1>10, <2>2 DEF Launch
      <3>2. s # None /\ rt[p].pc = "launch"
        BY <1>10, RuntimeAssumption DEF Launch
      <3>. QED BY <1>0, <3>1, <3>2 DEF RtMove, RtGood, RtFields
    <2>. QED BY <2>1, <2>2
  <1>11. CASE ExecFails(p)
    <2>1. PICK r : r = [rt[p] EXCEPT !.state = "starting"]
      OBVIOUS
    <2>2. RtGood(r)
      BY <1>0, <2>1 DEF RtGood, RtFields
    <2>3. RtMove(p) /\ rt'[p] = Failed(r, None)
      BY <1>0, <1>11, <2>1 DEF ExecFails, RtMove
    <2>. QED BY <2>2, <2>3, FailedGood
  <1>12. CASE waitReady(p)
    BY <1>0, <1>12 DEF waitReady, RtMove, RtGood, RtFields
  <1>13. CASE StopAfterProbe(p)
    BY <1>2, <1>13 DEF StopAfterProbe
  <1>14. CASE StartReturns(p)
    <2>1. CASE rt[p].state # "starting"
      BY <1>2, <1>14, <2>1 DEF StartReturns
    <2>2. CASE rt[p].state = "starting"
      BY <1>0, <1>14, <2>2 DEF StartReturns, RtMove, RtGood, RtFields
    <2>. QED BY <2>1, <2>2
  <1>. QED
    BY <1>3, <1>4, <1>5, <1>6, <1>7, <1>8, <1>9, <1>10, <1>11, <1>12, <1>13, <1>14 DEF Start

LEMMA GoneMove ==
    ASSUME RuntimesInv, NEW p \in Procs, Gone(p)
    PROVE  RtMove(p) /\ rt'[p] = Down
  BY DEF RuntimesInv, Gone, RtMove

LEMMA RuntimesNext ==
    ASSUME RuntimesInv, [Next]_vars
    PROVE  RuntimesInv'
  <1>1. ASSUME NEW p \in Procs, Build(p) \/ Start(p) PROVE RuntimesInv'
    BY <1>1, RuntimesBuild, RuntimesStart, RuntimesMove
  <1>2. ASSUME NEW p \in Procs, reap(p) \/ CancelStart(p) \/ CloseCall(p) \/ Close(p)
        PROVE  RuntimesInv'
    <2>0. p \in DOMAIN rt /\ DOMAIN rt = Procs /\ RtGood(rt[p])
      BY DEF RuntimesInv
    <2>1. CASE reap(p)
      BY <2>0, <2>1, RuntimesMove DEF reap, RtMove, RtGood, RtFields
    <2>2. CASE CancelStart(p)
      BY <2>0, <2>2, RuntimesMove DEF CancelStart, RtMove, RtGood, RtFields
    <2>3. CASE CloseCall(p)
      BY <2>0, <2>3, RuntimesMove DEF CloseCall, RtMove, RtGood, RtFields
    <2>4. CASE CloseBarrier(p)
      BY <2>0, <2>4, RuntimesMove DEF CloseBarrier, LaunchedServer, StartMuFree, RtMove, RtGood, RtFields
    <2>5. CASE stopCommand(p)
      BY <2>0, <2>5, RuntimesMove DEF stopCommand, RtMove, RtGood, RtFields
    <2>. QED BY <1>2, <2>1, <2>2, <2>3, <2>4, <2>5 DEF Close
  <1>3. ASSUME NEW p \in Procs, Exit(p) \/ Crash(p) PROVE RuntimesInv'
    BY <1>3, GoneMove, DownFields, RuntimesMove DEF Exit, Crash
  <1>4. ASSUME NEW s \in Servers, ServerExits(s) PROVE RuntimesInv'
    BY <1>4 DEF ServerExits, RuntimesInv
  <1>5. ASSUME NEW r \in Repos, HubMoves(r) /\ UNCHANGED rtVars PROVE RuntimesInv'
    BY <1>5 DEF rtVars, RuntimesInv
  <1>6. CASE UNCHANGED vars
    BY <1>6 DEF vars, rtVars, RuntimesInv
  <1>. QED
    BY <1>1, <1>2, <1>3, <1>4, <1>5, <1>6 DEF Next

LEMMA RuntimesInit == Init => RuntimesInv
  BY DownFields DEF Init, RuntimesInv

-----------------------------------------------------------------------------
(* One server runs at a time.                                                 *)

Starting == {"verify", "inspect", "launch"}

Quiet ==
    /\ DOMAIN srv' = Servers
    /\ \A s \in Servers : /\ DOMAIN srv'[s] = SrvFields /\ (srv'[s].live <=> srv[s].live)
                          /\ srv'[s].owner = srv[s].owner /\ srv'[s].need = srv[s].need

KeepsServer(p) ==
    \A s \in Servers : srv[s].live /\ srv[s].owner = p => rt'[p].cmd = s /\ ~rt'[p].reaped

LockMoves(p) ==
    \/ lock' = lock /\ (rt'[p].pc \in Starting => rt[p].pc \in Starting)
    \/ lock' = Released(p) /\ (p \in lock => Live = {}) /\ rt'[p].pc \notin Starting
    \/ lock = {} /\ lock' = {p}

LEMMA LockMove ==
    ASSUME LockInv, NEW p \in Procs, RtMove(p), Quiet, KeepsServer(p), LockMoves(p)
    PROVE  LockInv'
  <1>1. Live' = Live
    BY DEF Live, Quiet
  <1>2. \A s \in Live : s \in lock /\ s \notin Procs /\ s \in Servers
    BY RuntimeAssumption DEF LockInv, Live
  <1>3. \A q \in Procs : q # p => rt'[q] = rt[q]
    BY DEF RtMove
  <1>4. \A s \in Live : s \in lock'
    BY <1>2 DEF LockMoves, Released
  <1>5. ASSUME NEW s \in Live, NEW q \in Procs
        PROVE  /\ srv'[s].owner = q => rt'[q].cmd = s /\ ~rt'[q].reaped
               /\ q \in lock' => srv'[s].owner = q
    <2>1. srv'[s].owner = srv[s].owner /\ s \in Servers /\ srv[s].live
      BY DEF Quiet, Live
    <2>2. srv[s].owner = q => rt'[q].cmd = s /\ ~rt'[q].reaped
      BY <1>3, <2>1 DEF LockInv, KeepsServer
    <2>3. q \in lock' => q \in lock
      BY <1>2 DEF LockMoves, Released
    <2>. QED BY <2>1, <2>2, <2>3 DEF LockInv
  <1>6. ASSUME NEW q \in Procs, rt'[q].pc \in Starting PROVE lock' = {q}
    <2>1. CASE q = p
      <3>1. \A x : x \in Starting <=> x \in {"verify", "inspect", "launch"}
        BY DEF Starting
      <3>. QED BY <1>6, <2>1, <3>1 DEF LockMoves, LockInv
    <2>2. CASE q # p
      <3>1. lock = {q}
        BY <1>3, <1>6, <2>2 DEF LockInv, Starting
      <3>. QED BY <2>2, <3>1 DEF LockMoves, Released
    <2>. QED BY <2>1, <2>2
  <1>. QED
    BY <1>1, <1>4, <1>5, <1>6 DEF LockInv, Quiet, Starting

LEMMA QuietUnchanged == ASSUME LockInv, UNCHANGED srv PROVE Quiet
  BY DEF Quiet, LockInv

LEMMA QuietKill ==
    ASSUME LockInv, NEW s, srv' = [srv EXCEPT ![s].killed = srv[s].live]
    PROVE  Quiet
  BY DEF Quiet, LockInv, SrvFields

LEMMA KeepsSame ==
    ASSUME LockInv, NEW p \in Procs, rt'[p].cmd = rt[p].cmd, rt'[p].reaped = rt[p].reaped
    PROVE  KeepsServer(p)
  BY DEF KeepsServer, LockInv, Live

LEMMA KeepsNone ==
    ASSUME LockInv, NEW p \in Procs, rt[p].cmd = None
    PROVE  KeepsServer(p)
  BY RuntimeAssumption DEF KeepsServer, LockInv, Live

LEMMA NoneLive ==
    ASSUME LockInv, NEW p \in Procs, lock = {p} \/ lock = {}
    PROVE  Live = {}
  BY RuntimeAssumption DEF LockInv, Live

LEMMA FailStartFields ==
    ASSUME RuntimesInv, NEW p \in Procs, NEW report, failStart(p, report)
    PROVE  /\ RtMove(p) /\ rt'[p].pc = "failed" /\ rt'[p].tuned = None
           /\ rt'[p].cmd = rt[p].cmd /\ rt'[p].reaped = rt[p].reaped
  <1>1. rt'[p] = Failed(rt[p], report) /\ RtMove(p) /\ DOMAIN rt[p] = RtFields
    BY DEF failStart, RuntimesInv, RtMove, RtGood
  <1>. QED
    BY <1>1, FailedFields

LEMMA LockFail ==
    ASSUME RuntimesInv, LockInv, NEW p \in Procs, NEW report, failStart(p, report), UNCHANGED srv,
           lock' = lock \/ (lock' = Released(p) /\ lock = {p})
    PROVE  LockInv'
  <1>1. RtMove(p) /\ KeepsServer(p) /\ Quiet /\ rt'[p].pc = "failed"
    BY FailStartFields, KeepsSame, QuietUnchanged
  <1>2. LockMoves(p)
    BY <1>1, NoneLive DEF LockMoves, Starting
  <1>. QED
    BY <1>1, <1>2, LockMove

LEMMA LockStay ==
    ASSUME RuntimesInv, LockInv, NEW p \in Procs, RtMove(p), UNCHANGED lock, Quiet,
           rt[p].cmd = None \/ (rt'[p].cmd = rt[p].cmd /\ rt'[p].reaped = rt[p].reaped),
           rt'[p].pc \in Starting => rt[p].pc \in Starting
    PROVE  LockInv'
  <1>1. KeepsServer(p)
    BY KeepsSame, KeepsNone
  <1>2. LockMoves(p)
    BY DEF LockMoves
  <1>. QED
    BY <1>1, <1>2, LockMove

LEMMA BuildEffect ==
    ASSUME RuntimesInv, LockInv, NEW p \in Procs, Build(p)
    PROVE  Quiet /\ rt'[p].pc \in {"reaping", "tune", "new"}
  <1>0. p \in DOMAIN rt /\ DOMAIN rt = Procs /\ DOMAIN rt[p] = RtFields
    BY DEF RuntimesInv, RtGood
  <1>1. Quiet
    <2>1. CASE ReapOrphanedServers(p)
      BY <2>1 DEF ReapOrphanedServers, Quiet, LockInv, SrvFields
    <2>. QED
      BY <2>1, QuietUnchanged DEF Build, waitForExit, applyLlamaAutoTune, startLlamaRuntime
  <1>2. rt'[p].pc \in {"reaping", "tune", "new"}
    <2>1. CASE ReapOrphanedServers(p)
      BY <1>0, <2>1, NewFields DEF ReapOrphanedServers, RtFields
    <2>2. CASE waitForExit(p)
      BY <1>0, <2>2 DEF waitForExit, RtFields
    <2>3. CASE applyLlamaAutoTune(p)
      BY <1>0, <2>3 DEF applyLlamaAutoTune, RtFields
    <2>4. CASE startLlamaRuntime(p)
      BY <1>0, <2>4, NewFields DEF startLlamaRuntime, RtFields
    <2>. QED BY <2>1, <2>2, <2>3, <2>4 DEF Build
  <1>. QED BY <1>1, <1>2

LEMMA LockBuild ==
    ASSUME RuntimesInv, LockInv, NEW p \in Procs, Build(p)
    PROVE  LockInv'
  <1>1. RtMove(p) /\ UNCHANGED lock
    BY RuntimesBuild DEF Build, ReapOrphanedServers, waitForExit, applyLlamaAutoTune, startLlamaRuntime
  <1>2. rt[p].cmd = None
    BY DEF RuntimesInv, RtGood, Build, ReapOrphanedServers, waitForExit, applyLlamaAutoTune,
           startLlamaRuntime, Replacement
  <1>. QED
    BY <1>1, <1>2, BuildEffect, LockStay DEF Starting

LEMMA LockStart ==
    ASSUME RuntimesInv, LockInv, NEW p \in Procs, Start(p)
    PROVE  LockInv'
  <1>0. p \in DOMAIN rt /\ DOMAIN rt = Procs /\ RtGood(rt[p]) /\ DOMAIN rt[p] = RtFields
    BY DEF RuntimesInv, RtGood
  <1>1. RtMove(p)
    BY RuntimesStart
  <1>2. rt[p].pc \in Starting => lock = {p}
    BY DEF LockInv, Starting
  <1>a. UNCHANGED srv => Quiet
    BY QuietUnchanged
  <1>b. ASSUME NEW report, failStart(p, report), UNCHANGED srv,
               lock' = lock \/ (lock' = Released(p) /\ rt[p].pc \in Starting)
        PROVE  LockInv'
    BY <1>2, <1>b, LockFail
  <1>3. CASE StartBegin(p)
    <2>1. CASE rt[p].closing
      BY <1>3, <1>b, <2>1 DEF StartBegin
    <2>2. CASE ~rt[p].closing
      <3>1. /\ rt'[p].cmd = rt[p].cmd /\ rt'[p].reaped = rt[p].reaped
            /\ rt'[p].pc \in {"lock", "resolve"} /\ UNCHANGED <<srv, lock>>
        BY <1>0, <1>3, <2>2 DEF StartBegin, RtFields
      <3>. QED BY <1>1, <1>a, <3>1, LockStay DEF Starting
    <2>. QED BY <2>1, <2>2
  <1>4. CASE InvalidConfig(p)
    BY <1>4, <1>b DEF InvalidConfig
  <1>5. CASE EnsureArtifacts(p)
    BY <1>1, <1>5, <1>a, LockStay DEF EnsureArtifacts, rtVars
  <1>6. CASE resolveArtifacts(p)
    <2>1. CASE dl[p].pc = "got"
      <3>1. /\ rt'[p].cmd = rt[p].cmd /\ rt'[p].reaped = rt[p].reaped
            /\ rt'[p].pc = "lock" /\ UNCHANGED <<srv, lock>>
        BY <1>0, <1>6, <2>1 DEF resolveArtifacts, RtFields
      <3>. QED BY <1>1, <1>a, <3>1, LockStay DEF Starting
    <2>2. CASE dl[p].pc # "got"
      <3>1. PICK report : failStart(p, report)
        BY <1>6, <2>2 DEF resolveArtifacts
      <3>. QED BY <1>6, <1>b, <3>1 DEF resolveArtifacts
    <2>. QED BY <2>1, <2>2
  <1>7. CASE acquireFileLock(p)
    <2>1. CASE /\ lock = {} /\ lock' = {p} /\ rt' = [rt EXCEPT ![p].pc = "verify"]
      <3>1. rt'[p].cmd = rt[p].cmd /\ rt'[p].reaped = rt[p].reaped
        BY <1>0, <2>1 DEF RtFields
      <3>2. KeepsServer(p) /\ Quiet
        BY <1>7, <1>a, <3>1, KeepsSame DEF acquireFileLock
      <3>3. LockMoves(p)
        BY <2>1 DEF LockMoves
      <3>. QED BY <1>1, <3>2, <3>3, LockMove
    <2>2. CASE failStart(p, None) /\ UNCHANGED lock
      BY <1>7, <1>b, <2>2 DEF acquireFileLock
    <2>. QED BY <1>7, <2>1, <2>2 DEF acquireFileLock
  <1>8. CASE verifyLocalArtifactsAgainstManifest(p)
    <2>1. CASE rt' = [rt EXCEPT ![p].pc = "inspect"] /\ UNCHANGED lock
      <3>1. rt'[p].cmd = rt[p].cmd /\ rt'[p].reaped = rt[p].reaped
        BY <1>0, <2>1 DEF RtFields
      <3>2. UNCHANGED srv /\ rt[p].pc \in Starting
        BY <1>8 DEF verifyLocalArtifactsAgainstManifest, Starting
      <3>. QED BY <1>1, <1>a, <2>1, <3>1, <3>2, LockStay
    <2>2. CASE failStart(p, None) /\ lock' = Released(p)
      <3>1. UNCHANGED srv /\ rt[p].pc \in Starting
        BY <1>8 DEF verifyLocalArtifactsAgainstManifest, Starting
      <3>. QED BY <1>b, <2>2, <3>1
    <2>. QED BY <1>8, <2>1, <2>2 DEF verifyLocalArtifactsAgainstManifest
  <1>9. CASE Admit(p)
    <2>1. UNCHANGED srv /\ rt[p].pc \in Starting
      BY <1>9 DEF Admit, Starting
    <2>2. PICK report : \/ rt' = [rt EXCEPT ![p].pc = "launch", ![p].admitted = report.runtime, ![p].tuned = None]
                           /\ UNCHANGED lock
                        \/ failStart(p, report) /\ lock' = Released(p)
      BY <1>9 DEF Admit
    <2>3. CASE rt' = [rt EXCEPT ![p].pc = "launch", ![p].admitted = report.runtime, ![p].tuned = None]
               /\ UNCHANGED lock
      <3>1. rt'[p].cmd = rt[p].cmd /\ rt'[p].reaped = rt[p].reaped
        BY <1>0, <2>3 DEF RtFields
      <3>. QED BY <1>1, <1>a, <2>1, <2>3, <3>1, LockStay
    <2>. QED BY <1>b, <2>1, <2>2, <2>3
  <1>10. CASE Launch(p)
    <2>0. rt[p].pc \in Starting /\ lock = {p} /\ Live = {}
      BY <1>2, <1>10, NoneLive DEF Launch, Starting
    <2>1. CASE ~MayLaunch(p)
      BY <1>10, <1>b, <2>0, <2>1 DEF Launch
    <2>2. CASE MayLaunch(p)
      <3>1. PICK s \in Servers :
              /\ srv' = [srv EXCEPT ![s] = [live |-> TRUE, owner |-> p, killed |-> FALSE,
                                            need |-> RuntimeEstimate(LaunchRequest(p, Machine))]]
              /\ lock' = lock \cup {s}
              /\ rt' = [rt EXCEPT ![p].pc = "probe", ![p].state = "starting", ![p].cmd = s, ![p].reaped = FALSE]
        BY <1>10, <2>2 DEF Launch, LockInherited
      <3>2. PICK n : n = RuntimeEstimate(LaunchRequest(p, Machine))
        OBVIOUS
      <3>3. /\ DOMAIN srv' = Servers /\ srv'[s] = [live |-> TRUE, owner |-> p, killed |-> FALSE, need |-> n]
            /\ \A t \in Servers : t # s => srv'[t] = srv[t]
        BY <3>1, <3>2 DEF LockInv
      <3>4. srv'[s].live = TRUE /\ srv'[s].owner = p /\ DOMAIN srv'[s] = SrvFields
        BY <3>3 DEF SrvFields
      <3>5. Live' = {s}
        BY <2>0, <3>3, <3>4 DEF Live
      <3>6. \A t \in Servers : DOMAIN srv'[t] = SrvFields
        BY <3>3, <3>4 DEF LockInv
      <3>7. rt'[p].pc = "probe" /\ rt'[p].cmd = s /\ rt'[p].reaped = FALSE
        BY <1>0, <3>1 DEF RtFields
      <3>8. \A q \in Procs : rt'[q].pc \notin Starting
        <4>1. \A q \in Procs : q # p => rt'[q] = rt[q] /\ rt[q].pc \notin Starting
          BY <1>1, <2>0 DEF RtMove, LockInv, Starting
        <4>. QED BY <3>7, <4>1 DEF Starting
      <3>9. s \notin Procs
        BY RuntimeAssumption
      <3>10. lock' = {p, s}
        BY <2>0, <3>1
      <3>. QED BY <3>3, <3>4, <3>5, <3>6, <3>7, <3>8, <3>9, <3>10 DEF LockInv, Starting
    <2>. QED BY <2>1, <2>2
  <1>11. CASE ExecFails(p)
    <2>1. PICK r : r = [rt[p] EXCEPT !.state = "starting"]
      OBVIOUS
    <2>2. DOMAIN r = RtFields /\ r.cmd = rt[p].cmd /\ r.reaped = rt[p].reaped
      BY <1>0, <2>1 DEF RtFields
    <2>3. rt'[p] = Failed(r, None)
      BY <1>0, <1>11, <2>1 DEF ExecFails
    <2>4. rt'[p].pc = "failed" /\ rt'[p].cmd = rt[p].cmd /\ rt'[p].reaped = rt[p].reaped
      BY <2>2, <2>3, FailedFields
    <2>5. lock = {p} /\ lock' = Released(p) /\ UNCHANGED srv /\ Live = {}
      BY <1>2, <1>11, NoneLive DEF ExecFails, Starting
    <2>6. LockMoves(p) /\ KeepsServer(p) /\ Quiet
      BY <1>a, <2>4, <2>5, KeepsSame DEF LockMoves, Starting
    <2>. QED BY <1>1, <2>6, LockMove
  <1>12. CASE waitReady(p)
    <2>1. /\ rt'[p].cmd = rt[p].cmd /\ rt'[p].reaped = rt[p].reaped
          /\ rt'[p].pc \in {"settle", "stop"} /\ UNCHANGED lock
      BY <1>0, <1>12 DEF waitReady, RtFields
    <2>2. Quiet
      BY <1>12, <1>a, QuietKill DEF waitReady
    <2>. QED BY <1>1, <2>1, <2>2, LockStay DEF Starting
  <1>13. CASE StopAfterProbe(p)
    BY <1>13, <1>b DEF StopAfterProbe
  <1>14. CASE StartReturns(p)
    <2>1. CASE rt[p].state # "starting"
      BY <1>14, <1>b, <2>1 DEF StartReturns
    <2>2. CASE rt[p].state = "starting"
      <3>1. /\ rt'[p].cmd = rt[p].cmd /\ rt'[p].reaped = rt[p].reaped
            /\ rt'[p].pc = "ready" /\ UNCHANGED <<srv, lock>>
        BY <1>0, <1>14, <2>2 DEF StartReturns, RtFields
      <3>. QED BY <1>1, <1>a, <3>1, LockStay DEF Starting
    <2>. QED BY <2>1, <2>2
  <1>. QED
    BY <1>3, <1>4, <1>5, <1>6, <1>7, <1>8, <1>9, <1>10, <1>11, <1>12, <1>13, <1>14 DEF Start

LEMMA LockGone ==
    ASSUME RuntimesInv, LockInv, NEW p \in Procs, Gone(p)
    PROVE  LockInv'
  <1>1. RtMove(p) /\ rt'[p].cmd = None /\ rt'[p].pc = "down"
    BY GoneMove, DownFields
  <1>2. /\ DOMAIN srv' = Servers /\ lock' = lock \ {p}
        /\ \A s \in Servers : /\ DOMAIN srv'[s] = SrvFields /\ (srv'[s].live <=> srv[s].live)
                              /\ srv'[s].owner = IF srv[s].owner = p THEN None ELSE srv[s].owner
    BY DEF Gone, LockInv, SrvFields
  <1>3. Live' = Live
    BY <1>2 DEF Live
  <1>4. \A s \in Live : s \in Servers /\ s \notin Procs /\ s \in lock
    BY RuntimeAssumption DEF LockInv, Live
  <1>5. ASSUME NEW s \in Live, NEW q \in Procs
        PROVE  /\ srv'[s].owner = q => rt'[q].cmd = s /\ ~rt'[q].reaped
               /\ q \in lock' => srv'[s].owner = q
    <2>1. q # None
      BY CacheAssumption
    <2>2. q # p => rt'[q] = rt[q]
      BY <1>1 DEF RtMove
    <2>. QED BY <1>2, <1>4, <2>1, <2>2 DEF LockInv
  <1>6. ASSUME NEW q \in Procs, rt'[q].pc \in Starting PROVE lock' = {q}
    BY <1>1, <1>2, <1>6 DEF RtMove, LockInv, Starting
  <1>. QED
    BY <1>2, <1>3, <1>4, <1>5, <1>6 DEF LockInv, Starting

LEMMA LockNext ==
    ASSUME RuntimesInv, LockInv, [Next]_vars
    PROVE  LockInv'
  <1>1. ASSUME NEW p \in Procs, Build(p) \/ Start(p) PROVE LockInv'
    BY <1>1, LockBuild, LockStart
  <1>2. ASSUME NEW p \in Procs, reap(p) \/ CancelStart(p) \/ CloseCall(p) \/ Close(p)
        PROVE  LockInv'
    <2>0. p \in DOMAIN rt /\ DOMAIN rt = Procs /\ RtGood(rt[p]) /\ DOMAIN rt[p] = RtFields
      BY DEF RuntimesInv, RtGood
    <2>1. CASE reap(p)
      <3>1. /\ RtMove(p) /\ rt'[p].pc = rt[p].pc /\ UNCHANGED srv /\ lock' = Released(p)
            /\ rt[p].cmd # None /\ ~srv[rt[p].cmd].live
        BY <2>0, <2>1 DEF reap, RtMove, RtFields
      <3>2. \A s \in Live : srv[s].owner # p
        BY <3>1 DEF LockInv, Live
      <3>3. p \in lock => Live = {}
        BY <3>2 DEF LockInv
      <3>4. rt[p].pc \notin Starting
        BY <2>0, <3>1 DEF RtGood, Starting
      <3>5. KeepsServer(p) /\ LockMoves(p) /\ Quiet
        BY <3>1, <3>2, <3>3, <3>4, QuietUnchanged DEF KeepsServer, LockMoves, Live
      <3>. QED BY <3>1, <3>5, LockMove
    <2>2. CASE CancelStart(p) \/ CloseCall(p) \/ Close(p)
      <3>1. /\ RtMove(p) /\ rt'[p].cmd = rt[p].cmd /\ rt'[p].reaped = rt[p].reaped
            /\ rt'[p].pc = rt[p].pc /\ UNCHANGED lock
        BY <2>0, <2>2 DEF CancelStart, CloseCall, Close, CloseBarrier, stopCommand, RtMove, RtFields
      <3>2. Quiet
        BY <2>2, QuietUnchanged, QuietKill DEF CancelStart, CloseCall, Close, CloseBarrier, stopCommand
      <3>. QED BY <3>1, <3>2, LockStay
    <2>. QED BY <1>2, <2>1, <2>2
  <1>3. ASSUME NEW p \in Procs, Exit(p) \/ Crash(p) PROVE LockInv'
    BY <1>3, LockGone DEF Exit, Crash
  <1>4. ASSUME NEW s \in Servers, ServerExits(s) PROVE LockInv'
    <2>1. /\ DOMAIN srv' = Servers /\ srv'[s] = NoServer /\ UNCHANGED rt /\ lock' = lock \ {s}
          /\ \A t \in Servers : t # s => srv'[t] = srv[t]
      BY <1>4 DEF ServerExits, LockInv
    <2>2. NoServer.live = FALSE /\ DOMAIN NoServer = SrvFields
      BY DEF NoServer, SrvFields
    <2>3. Live' = Live \ {s}
      BY <2>1, <2>2 DEF Live
    <2>4. s \notin Procs
      BY RuntimeAssumption
    <2>5. \A t \in Live' : t \in Live /\ srv'[t] = srv[t] /\ t # s
      BY <2>1, <2>3 DEF Live
    <2>6. \A t \in Servers : DOMAIN srv'[t] = SrvFields
      BY <2>1, <2>2 DEF LockInv
    <2>7. \A p \in Procs : rt'[p].pc \in {"verify", "inspect", "launch"} => lock' = {p}
      BY <2>1, <2>4 DEF LockInv
    <2>8. \A t \in Live' : t \in lock'
      BY <2>1, <2>5 DEF LockInv
    <2>9. \A t \in Live', p \in Procs : /\ srv'[t].owner = p => rt'[p].cmd = t /\ ~rt'[p].reaped
                                        /\ p \in lock' => srv'[t].owner = p
      BY <2>1, <2>5 DEF LockInv
    <2>. QED BY <2>1, <2>5, <2>6, <2>7, <2>8, <2>9 DEF LockInv
  <1>5. ASSUME NEW r \in Repos, HubMoves(r) /\ UNCHANGED rtVars PROVE LockInv'
    BY <1>5 DEF rtVars, LockInv, Live
  <1>6. CASE UNCHANGED vars
    BY <1>6 DEF vars, rtVars, LockInv, Live
  <1>. QED
    BY <1>1, <1>2, <1>3, <1>4, <1>5, <1>6 DEF Next

LEMMA LockInit == Init => LockInv
  <1>1. NoServer.live = FALSE /\ DOMAIN NoServer = SrvFields
    BY DEF NoServer, SrvFields
  <1>. QED
    BY <1>1, DownFields DEF Init, LockInv, Live

-----------------------------------------------------------------------------
(* The downloads: manifests.                                                  *)

LEMMA GroupsWithin ==
    ASSUME NEW files, NEW ref, groupModels(files) # None,
           selectModelGroup(groupModels(files), ref) # None
    PROVE  selectModelGroup(groupModels(files), ref) \subseteq files
  <1>1. PICK groups : groups = groupModels(files)
    OBVIOUS
  <1>2. groups = {Siblings(files, f) : f \in files}
    BY <1>1 DEF groupModels
  <1>3. \A g \in groups : g \subseteq files
    BY <1>2 DEF Siblings
  <1>4. PICK ok : /\ ok \subseteq groups /\ Cardinality(ok) = 1
                  /\ selectModelGroup(groups, ref) = CHOOSE g \in ok : TRUE
    BY <1>1 DEF selectModelGroup
  <1>5. ok # {}
    BY <1>4, FS_EmptySet
  <1>6. (CHOOSE g \in ok : TRUE) \in ok
    BY <1>5
  <1>. QED
    BY <1>1, <1>3, <1>4, <1>6

LEMMA ProjectorWithin ==
    ASSUME NEW files, NEW ref, selectProjector(files, ref) # None
    PROVE  selectProjector(files, ref) \subseteq files
  BY DEF selectProjector

LEMMA ChosenWithin ==
    ASSUME NEW ref, NEW listing, selectArtifacts(ref, listing) # None
    PROVE  LET chosen == selectArtifacts(ref, listing)
           IN chosen.models \subseteq listing /\ chosen.mmproj \subseteq listing
  <1>1. PICK mfiles, pfiles : /\ mfiles = {f \in listing : f.kind = "model"}
                              /\ pfiles = {f \in listing : f.kind = "mmproj"}
    OBVIOUS
  <1>2. PICK models, projector :
          /\ models = IF groupModels(mfiles) = None THEN None ELSE selectModelGroup(groupModels(mfiles), ref)
          /\ projector = selectProjector(pfiles, ref)
    OBVIOUS
  <1>3. /\ selectArtifacts(ref, listing) = [models |-> models, mmproj |-> projector]
        /\ models # None /\ projector # None
    BY <1>1, <1>2 DEF selectArtifacts
  <1>4. models \subseteq mfiles /\ projector \subseteq pfiles
    BY <1>2, <1>3, GroupsWithin, ProjectorWithin
  <1>. QED
    BY <1>1, <1>3, <1>4

LEMMA ResolveGood ==
    ASSUME NEW r \in Repos, head[r] \in Commits, ResolveManifest(r) # None
    PROVE  GoodManifest(ResolveManifest(r))
  <1>1. PICK c, listing, ref : c = head[r] /\ listing = Listing[r][c] /\ ref = Ref[r]
    OBVIOUS
  <1>2. PICK chosen : chosen = selectArtifacts(ref, listing)
    OBVIOUS
  <1>3. /\ ResolveManifest(r) = [repo |-> r, commit |-> c, models |-> chosen.models,
                                 mmproj |-> chosen.mmproj, quant |-> manifestQuant(ref)]
        /\ chosen # None
    BY <1>1, <1>2 DEF ResolveManifest
  <1>4. chosen.models \subseteq listing /\ chosen.mmproj \subseteq listing
    BY <1>2, <1>3, ChosenWithin
  <1>. QED
    BY <1>1, <1>3, <1>4 DEF GoodManifest

LEMMA LoadGood ==
    ASSUME CallsInv, NEW r \in Repos, loadCachedManifest(r) # None
    PROVE  GoodManifest(loadCachedManifest(r))
  BY DEF loadCachedManifest, CallsInv

(* Its files have names and sizes of their own.                               *)
LEMMA ManifestFiles ==
    ASSUME NEW m, GoodManifest(m)
    PROVE  /\ IsFiniteSet(m.models) /\ IsFiniteSet(m.mmproj)
           /\ \A f \in Artifacts(m) : f.size \in Nat /\ Path(m, f) \in Paths
           /\ \A f, g \in Artifacts(m) : Path(m, f) = Path(m, g) => f = g
           /\ TotalSize(m.models) \in Nat /\ TotalSize(m.mmproj) \in Nat
  <1>1. PICK L : L = Listing[m.repo][m.commit]
    OBVIOUS
  <1>2. m.repo \in Repos /\ m.commit \in Commits /\ m.models \subseteq L /\ m.mmproj \subseteq L
    BY <1>1 DEF GoodManifest
  <1>3. IsFiniteSet(L) /\ \A f, g \in L : f.size \in Nat /\ (f.name = g.name => f = g)
    BY <1>1, <1>2, CacheAssumption
  <1>4. IsFiniteSet(m.models) /\ IsFiniteSet(m.mmproj)
    BY <1>2, <1>3, FS_Subset
  <1>5. \A f \in Artifacts(m) : f \in L
    BY <1>2 DEF Artifacts
  <1>6. \A f \in L : f.name \in Names
    <2>1. <<m.repo, m.commit>> \in Dirs
      BY <1>2 DEF Dirs
    <2>. QED BY <1>1, <2>1 DEF Names
  <1>7. \A f \in Artifacts(m) : Path(m, f) \in Paths
    BY <1>2, <1>5, <1>6 DEF Path, Paths
  <1>8. \A f, g \in Artifacts(m) : Path(m, f) = Path(m, g) => f = g
    BY <1>3, <1>5 DEF Path
  <1>9. ASSUME NEW S, S \subseteq L, IsFiniteSet(S) PROVE TotalSize(S) \in Nat
    <2>1. PICK z : z = [f \in S |-> f.size]
      OBVIOUS
    <2>2. \A f \in S : z[f] \in Nat
      BY <1>3, <1>9, <2>1
    <2>. QED BY <1>9, <2>1, <2>2, SumNat DEF TotalSize
  <1>. QED
    BY <1>2, <1>3, <1>4, <1>5, <1>7, <1>8, <1>9

-----------------------------------------------------------------------------
(* The downloads: the calls.                                                  *)

DlMove(p) == DOMAIN dl' = Procs /\ \A q \in Procs : q # p => dl'[q] = dl[q]

LEMMA CallsMove ==
    ASSUME CallsInv, NEW p \in Procs, DlMove(p), DlGood(dl'[p]), RtMove(p),
           rt'[p].pc = "resolve" \/ dl'[p].pc \in {"idle", "held"},
           UNCHANGED head, UNCHANGED pin
    PROVE  CallsInv'
  BY DEF CallsInv, DlMove, RtMove

LEMMA CallsStill ==
    ASSUME CallsInv, NEW p \in Procs, RtMove(p), UNCHANGED cacheVars,
           rt[p].pc = "resolve" => rt'[p].pc = "resolve"
    PROVE  CallsInv'
  BY DEF CallsInv, RtMove, cacheVars

LEMMA IdleGood == DlGood(Idle) /\ Idle.pc = "idle" /\ Idle.todo = {} /\ DOMAIN Idle = DlFields
  BY DEF DlGood, Idle, DlFields

LEMMA CallsEnsureCall ==
    ASSUME CallsInv, NEW p \in Procs, NEW r \in Repos, NEW ctx, EnsureCall(p, r, ctx)
    PROVE  DlMove(p) /\ DlGood(dl'[p])
  <1>1. PICK m : m = loadCachedManifest(r)
    OBVIOUS
  <1>2. m # None => GoodManifest(m)
    BY <1>1, LoadGood
  <1>3. DlMove(p) /\ dl'[p] = [Idle EXCEPT !.pc = IF m = None THEN "resolve" ELSE "cached",
                                           !.repo = r, !.ctx = ctx, !.m = m]
    BY <1>1 DEF EnsureCall, DlMove, CallsInv
  <1>4. /\ DOMAIN dl'[p] = DlFields /\ dl'[p].repo = r /\ dl'[p].m = m
        /\ dl'[p].pc = IF m = None THEN "resolve" ELSE "cached"
    BY <1>3, IdleGood DEF DlFields
  <1>. QED
    BY <1>2, <1>3, <1>4 DEF DlGood

LEMMA CallsPlans ==
    ASSUME CallsInv, NEW p \in Procs, NEW h, CachedPlan(p, h) \/ Plan(p, h)
    PROVE  DlMove(p) /\ DlGood(dl'[p]) /\ UNCHANGED <<head, pin>>
  <1>0. DOMAIN dl = Procs /\ DlGood(dl[p]) /\ DOMAIN dl[p] = DlFields
    BY DEF CallsInv, DlGood
  <1>1. CASE CachedPlan(p, h)
    <2>1. /\ DlMove(p) /\ DOMAIN dl'[p] = DlFields /\ dl'[p].m = dl[p].m /\ dl'[p].repo = dl[p].repo
          /\ dl'[p].pc \in {"resolve", "got", "refused"} /\ dl[p].pc = "cached"
      BY <1>0, <1>1 DEF CachedPlan, DlMove, DlFields
    <2>. QED BY <1>0, <1>1, <2>1 DEF DlGood, CachedPlan
  <1>2. CASE Plan(p, h)
    <2>1. /\ DlMove(p) /\ DOMAIN dl'[p] = DlFields /\ dl'[p].m = dl[p].m /\ dl'[p].repo = dl[p].repo
          /\ dl'[p].pc \in {"refused", "commit", "claim"} /\ dl[p].pc = "plan"
          /\ dl'[p].todo = Artifacts(dl[p].m) \ validCached(dl[p].m)
      BY <1>0, <1>2 DEF Plan, DlMove, DlFields
    <2>. QED BY <1>0, <1>2, <2>1 DEF DlGood, Plan
  <1>. QED BY <1>1, <1>2

LEMMA CallsResolve ==
    ASSUME CallsInv, NEW p \in Procs, Resolve(p)
    PROVE  DlMove(p) /\ DlGood(dl'[p])
  <1>0. DOMAIN dl = Procs /\ DlGood(dl[p]) /\ DOMAIN dl[p] = DlFields /\ dl[p].pc = "resolve"
    BY DEF CallsInv, DlGood, Resolve
  <1>1. PICK r \in Repos : r = dl[p].repo
    BY <1>0 DEF DlGood
  <1>2. PICK m \in {ResolveManifest(r), None} :
          LET used == IF m # None THEN m ELSE loadCachedManifest(r)
          IN dl' = [dl EXCEPT ![p].pc = IF used = None THEN "failed" ELSE "acquire",
                              ![p].m = used, ![p].todo = IF m = None THEN {} ELSE {"pin"}]
    BY <1>1 DEF Resolve
  <1>a. PICK used : used = IF m # None THEN m ELSE loadCachedManifest(r)
    OBVIOUS
  <1>3. used # None => GoodManifest(used)
    BY <1>2, <1>a, ResolveGood, LoadGood DEF CallsInv
  <1>4. /\ DlMove(p) /\ DOMAIN dl'[p] = DlFields /\ dl'[p].m = used /\ dl'[p].repo = r
        /\ dl'[p].pc = IF used = None THEN "failed" ELSE "acquire"
    BY <1>0, <1>1, <1>2, <1>a DEF DlMove, DlFields
  <1>. QED BY <1>3, <1>4 DEF DlGood

LEMMA CallsSteps ==
    ASSUME CallsInv, NEW p \in Procs,
           \/ Resolve(p) \/ AcquireModelsDir(p) \/ claimPartial(p) \/ downloadArtifact(p)
           \/ commitStagedFile(p) \/ verifyManifestDirectory(p) \/ EnsureCancelled(p)
    PROVE  DlMove(p) /\ DlGood(dl'[p]) /\ UNCHANGED <<head, pin>>
  <1>0. DOMAIN dl = Procs /\ DlGood(dl[p]) /\ DOMAIN dl[p] = DlFields
    BY DEF CallsInv, DlGood
  <1>1. CASE Resolve(p)
    BY <1>1, CallsResolve DEF Resolve
  <1>2. CASE AcquireModelsDir(p)
    BY <1>0, <1>2 DEF AcquireModelsDir, DlMove, DlGood, DlFields
  <1>3. CASE claimPartial(p)
    <2>1. PICK f \in dl[p].todo : dl' = [dl EXCEPT ![p].pc = "fetch", ![p].file = f]
      BY <1>3 DEF claimPartial
    <2>2. dl[p].pc = "claim" /\ UNCHANGED <<head, pin>>
      BY <1>3 DEF claimPartial
    <2>. QED BY <1>0, <2>1, <2>2 DEF DlMove, DlGood, DlFields
  <1>4. CASE downloadArtifact(p)
    <2>1. dl[p].pc = "fetch" /\ UNCHANGED <<head, pin>>
      BY <1>4 DEF downloadArtifact
    <2>2. \/ dl' = [dl EXCEPT ![p].todo = @ \ {dl[p].file}, ![p].file = None,
                              ![p].pc = IF dl[p].todo = {dl[p].file} THEN "commit" ELSE "claim"]
          \/ dl' = [dl EXCEPT ![p].pc = "failed", ![p].file = None]
      BY <1>4 DEF downloadArtifact
    <2>. QED BY <1>0, <2>1, <2>2 DEF DlMove, DlGood, DlFields
  <1>5. CASE commitStagedFile(p)
    BY <1>0, <1>5 DEF commitStagedFile, DlMove
  <1>6. CASE verifyManifestDirectory(p)
    BY <1>0, <1>6 DEF verifyManifestDirectory, DlMove, DlGood, DlFields
  <1>7. CASE EnsureCancelled(p)
    BY <1>0, <1>7 DEF EnsureCancelled, DlMove, DlGood, DlFields
  <1>. QED BY <1>1, <1>2, <1>3, <1>4, <1>5, <1>6, <1>7

LEMMA CallsPin ==
    ASSUME RuntimesInv, CallsInv, NEW p \in Procs, acquireManifestLock(p), UNCHANGED rt, rt[p].pc = "resolve"
    PROVE  CallsInv'
  <1>0. DOMAIN dl = Procs /\ DlGood(dl[p]) /\ DOMAIN dl[p] = DlFields /\ dl[p].pc = "acquireManifest"
    BY DEF CallsInv, DlGood, acquireManifestLock
  <1>1. /\ DlMove(p) /\ DOMAIN dl'[p] = DlFields /\ dl'[p].m = dl[p].m /\ dl'[p].repo = dl[p].repo
        /\ dl'[p].pc = "plan"
    BY <1>0 DEF acquireManifestLock, DlMove, DlFields
  <1>2. DlGood(dl'[p])
    BY <1>0, <1>1 DEF DlGood
  <1>3. /\ DOMAIN pin' = Repos
        /\ \A r \in Repos : pin'[r] = pin[r] \/ pin'[r] = dl[p].m
    BY DEF CallsInv, acquireManifestLock
  <1>4. GoodManifest(dl[p].m)
    BY <1>0 DEF DlGood
  <1>5. \A r \in Repos : pin'[r] # None => GoodManifest(pin'[r])
    BY <1>3, <1>4 DEF CallsInv
  <1>6. UNCHANGED head
    BY DEF acquireManifestLock
  <1>. QED BY <1>1, <1>2, <1>3, <1>5, <1>6 DEF CallsInv, DlMove

LEMMA CallsEnsure ==
    ASSUME RuntimesInv, CallsInv, NEW p \in Procs, EnsureArtifacts(p)
    PROVE  CallsInv'
  <1>1. UNCHANGED rt /\ rt[p].pc = "resolve" /\ RtMove(p)
    BY DEF EnsureArtifacts, rtVars, RtMove, RuntimesInv
  <1>2. CASE acquireManifestLock(p)
    BY <1>1, <1>2, CallsPin
  <1>3. ASSUME DlMove(p) /\ DlGood(dl'[p]) /\ UNCHANGED <<head, pin>> PROVE CallsInv'
    BY <1>1, <1>3, CallsMove
  <1>4. ASSUME NEW h, CachedPlan(p, h) \/ Plan(p, h) PROVE CallsInv'
    BY <1>3, <1>4, CallsPlans
  <1>. QED
    BY <1>2, <1>3, <1>4, CallsSteps DEF EnsureArtifacts, CacheStep

LEMMA CallsNext ==
    ASSUME RuntimesInv, CallsInv, [Next]_vars
    PROVE  CallsInv'
  <1>1. ASSUME NEW p \in Procs, Build(p) PROVE CallsInv'
    <2>0. p \in DOMAIN rt /\ DOMAIN rt = Procs /\ DOMAIN rt[p] = RtFields
      BY DEF RuntimesInv, RtGood
    <2>1. RtMove(p)
      BY <1>1, RuntimesBuild
    <2>2. CASE startLlamaRuntime(p)
      <3>1. DlMove(p) /\ dl'[p] = Idle /\ UNCHANGED <<head, pin>>
        BY <2>2 DEF startLlamaRuntime, DlMove, CallsInv
      <3>. QED BY <2>1, <3>1, IdleGood, CallsMove
    <2>3. CASE ~startLlamaRuntime(p)
      <3>1. UNCHANGED cacheVars /\ rt[p].pc # "resolve"
        BY <1>1, <2>3 DEF Build, ReapOrphanedServers, waitForExit, applyLlamaAutoTune
      <3>. QED BY <2>1, <3>1, CallsStill
    <2>. QED BY <2>2, <2>3
  <1>2. ASSUME NEW p \in Procs, Start(p) PROVE CallsInv'
    <2>0. p \in DOMAIN rt /\ DOMAIN rt = Procs /\ RtGood(rt[p]) /\ DOMAIN rt[p] = RtFields
      BY DEF RuntimesInv, RtGood
    <2>1. RtMove(p)
      BY <1>2, RuntimesStart
    <2>2. CASE StartBegin(p)
      <3>1. CASE UNCHANGED cacheVars
        BY <2>1, <2>2, <3>1, CallsStill DEF StartBegin
      <3>2. CASE ~UNCHANGED cacheVars
        <4>1. /\ EnsureCall(p, rt[p].cfg.model, rt[p].cfg.ctx) /\ rt[p].cfg.model # None
              /\ rt'[p].pc = "resolve"
          BY <2>0, <2>2, <3>2 DEF StartBegin, RtFields
        <4>2. PICK r \in Repos : r = rt[p].cfg.model
          BY <2>0, <4>1 DEF RtGood
        <4>3. PICK ctx : ctx = rt[p].cfg.ctx
          OBVIOUS
        <4>4. EnsureCall(p, r, ctx)
          BY <4>1, <4>2, <4>3
        <4>5. DlMove(p) /\ DlGood(dl'[p]) /\ UNCHANGED <<head, pin>>
          BY <4>4, CallsEnsureCall DEF EnsureCall
        <4>. QED BY <2>1, <4>1, <4>5, CallsMove
      <3>. QED BY <3>1, <3>2
    <2>3. CASE EnsureArtifacts(p)
      BY <2>3, CallsEnsure
    <2>4. CASE resolveArtifacts(p)
      <3>0. DOMAIN dl = Procs /\ DlGood(dl[p]) /\ DOMAIN dl[p] = DlFields
        BY DEF CallsInv, DlGood
      <3>1. DlMove(p) /\ UNCHANGED <<head, pin>>
        BY <2>4, <3>0 DEF resolveArtifacts, DlMove
      <3>2. CASE dl[p].pc = "got"
        <4>1. /\ dl'[p].pc = "held" /\ DOMAIN dl'[p] = DlFields
              /\ dl'[p].m = dl[p].m /\ dl'[p].repo = dl[p].repo
          BY <2>4, <3>0, <3>2 DEF resolveArtifacts, DlFields
        <4>2. DlGood(dl'[p])
          BY <3>0, <3>2, <4>1 DEF DlGood
        <4>. QED BY <2>1, <3>1, <4>1, <4>2, CallsMove
      <3>3. CASE dl[p].pc # "got"
        <4>1. dl'[p] = Idle
          BY <2>4, <3>0, <3>3 DEF resolveArtifacts
        <4>. QED BY <2>1, <3>1, <4>1, IdleGood, CallsMove
      <3>. QED BY <3>2, <3>3
    <2>5. CASE ~(StartBegin(p) \/ EnsureArtifacts(p) \/ resolveArtifacts(p))
      <3>1. UNCHANGED cacheVars /\ rt[p].pc # "resolve"
        BY <1>2, <2>5 DEF Start, InvalidConfig, acquireFileLock, verifyLocalArtifactsAgainstManifest,
                          Admit, Launch, ExecFails, waitReady, StopAfterProbe, StartReturns
      <3>. QED BY <2>1, <3>1, CallsStill
    <2>. QED BY <2>2, <2>3, <2>4, <2>5
  <1>3. ASSUME NEW p \in Procs, reap(p) \/ CancelStart(p) \/ CloseCall(p) \/ Close(p)
        PROVE  CallsInv'
    <2>0. p \in DOMAIN rt /\ DOMAIN rt = Procs /\ DOMAIN rt[p] = RtFields
      BY DEF RuntimesInv, RtGood
    <2>1. RtMove(p) /\ rt'[p].pc = rt[p].pc
      BY <1>3, <2>0 DEF reap, CancelStart, CloseCall, Close, CloseBarrier, stopCommand, RtMove, RtFields
    <2>2. UNCHANGED cacheVars
      BY <1>3 DEF reap, CancelStart, CloseCall, Close, CloseBarrier, stopCommand
    <2>. QED BY <2>1, <2>2, CallsStill
  <1>4. ASSUME NEW p \in Procs, Exit(p) \/ Crash(p) PROVE CallsInv'
    <2>1. RtMove(p) /\ DlMove(p) /\ dl'[p] = Idle /\ UNCHANGED <<head, pin>>
      BY <1>4, GoneMove DEF Exit, Crash, Gone, CacheCrash, DlMove, CallsInv
    <2>. QED BY <2>1, IdleGood, CallsMove
  <1>5. ASSUME NEW s \in Servers, ServerExits(s) PROVE CallsInv'
    BY <1>5 DEF ServerExits, CallsInv, cacheVars
  <1>6. ASSUME NEW r \in Repos, HubMoves(r) /\ UNCHANGED rtVars PROVE CallsInv'
    BY <1>6 DEF HubMoves, rtVars, CallsInv
  <1>7. CASE UNCHANGED vars
    BY <1>7 DEF vars, rtVars, cacheVars, CallsInv
  <1>. QED
    BY <1>1, <1>2, <1>3, <1>4, <1>5, <1>6, <1>7 DEF Next

LEMMA CallsInit == Init => CallsInv
  BY CacheAssumption, IdleGood DEF Init, CacheInit, CallsInv

-----------------------------------------------------------------------------
(* The downloads: the files.                                                  *)

KeepsVerified == \A x \in Paths : Verified(x) => Verified(x)'

AcqMoves(p) == acq' = acq \/ (acq = None /\ acq' = p) \/ (acq = p /\ acq' = None)

NoStage(p) == \A x \in Paths : stage[p][x] = "none"

LEMMA AcqReleased == ASSUME NEW p, ReleaseLocks(p) PROVE AcqMoves(p)
  BY DEF ReleaseLocks, AcqMoves

LEMMA FilesStill == FilesInv /\ UNCHANGED cacheVars => FilesInv' /\ KeepsVerified
  BY DEF FilesInv, FilesOf, FinalsVerified, cacheVars, KeepsVerified, Verified

LEMMA FilesKept == UNCHANGED <<final, part, stage>> => KeepsVerified
  BY DEF KeepsVerified, Verified

LEMMA NotStaging ==
    ASSUME FilesInv, NEW p \in Procs, dl[p].pc \notin {"claim", "fetch", "commit"}
    PROVE  NoStage(p)
  BY DEF FilesInv, FilesOf, NoStage

LEMMA FilesUnstaged ==
    ASSUME FilesInv, NEW p \in Procs, DlMove(p), DlGood(dl'[p]), UNCHANGED <<final, part, stage>>,
           NoStage(p), AcqMoves(p), dl'[p].pc \in Fetching => acq' = p, dl'[p].pc # "fetch"
    PROVE  FilesInv'
  <1>1. ASSUME NEW q \in Procs, q # p PROVE FilesOf(q)'
    <2>1. dl'[q] = dl[q] /\ FilesOf(q) /\ q # None
      BY <1>1, CacheAssumption DEF DlMove, FilesInv
    <2>2. dl[q].pc \in Fetching => acq' = q
      BY <1>1, <2>1 DEF AcqMoves, FilesOf
    <2>. QED BY <2>1, <2>2 DEF FilesOf
  <1>2. FilesOf(p)'
    <2>1. ASSUME NEW f \in dl'[p].todo, dl'[p].pc \in {"claim", "fetch"}
          PROVE  Path(dl'[p].m, f) \in Paths
      <3>1. PICK m : m = dl'[p].m
        OBVIOUS
      <3>2. GoodManifest(m) /\ f \in Artifacts(m)
        BY <2>1, <3>1 DEF DlGood
      <3>. QED BY <3>1, <3>2, ManifestFiles
    <2>2. DOMAIN stage[p] = Paths
      BY DEF FilesInv, FilesOf
    <2>3. \A f \in dl'[p].todo : dl'[p].pc \in {"claim", "fetch"} => stage[p][Path(dl'[p].m, f)] = "none"
      BY <2>1 DEF NoStage
    <2>4. \A x \in Paths : stage[p][x] = "none"
      BY DEF NoStage
    <2>. QED BY <2>2, <2>3, <2>4 DEF FilesOf
  <1>. QED
    BY <1>1, <1>2 DEF FilesInv, FinalsVerified

(* Only the holder of the lock of the models directory has stages.            *)
LEMMA OthersIdle ==
    ASSUME FilesInv, NEW p \in Procs, dl[p].pc \in Fetching, NEW q \in Procs, q # p
    PROVE  dl[q].pc \notin Fetching /\ NoStage(q)
  <1>1. dl[q].pc \notin Fetching
    BY DEF FilesInv, FilesOf
  <1>. QED
    BY <1>1, NotStaging DEF Fetching

LEMMA FilesOthers ==
    ASSUME FilesInv, NEW p \in Procs, dl[p].pc \in Fetching, NEW q \in Procs, q # p,
           dl'[q] = dl[q], stage'[q] = stage[q]
    PROVE  FilesOf(q)'
  <1>1. dl[q].pc \notin Fetching /\ NoStage(q) /\ DOMAIN stage[q] = Paths
    BY OthersIdle DEF FilesInv, FilesOf
  <1>. QED
    BY <1>1 DEF FilesOf, NoStage, Fetching

LEMMA FilesClaim ==
    ASSUME CallsInv, FilesInv, NEW p \in Procs, claimPartial(p)
    PROVE  FilesInv' /\ KeepsVerified
  <1>0. /\ DOMAIN dl = Procs /\ DlGood(dl[p]) /\ DOMAIN dl[p] = DlFields /\ dl[p].pc = "claim"
        /\ FilesOf(p) /\ DOMAIN stage[p] = Paths /\ DOMAIN part = Paths /\ DOMAIN stage = Procs
    BY DEF CallsInv, DlGood, claimPartial, FilesInv, FilesOf
  <1>1. PICK f \in dl[p].todo :
          LET x == Path(dl[p].m, f) IN
          /\ stage' = [stage EXCEPT ![p][x] = IF part[x] = "none" THEN "prefix" ELSE part[x]]
          /\ part' = [part EXCEPT ![x] = "none"]
          /\ dl' = [dl EXCEPT ![p].pc = "fetch", ![p].file = f]
    BY DEF claimPartial
  <1>2. PICK m : m = dl[p].m
    OBVIOUS
  <1>3. GoodManifest(m) /\ dl[p].todo \subseteq Artifacts(m)
    BY <1>0, <1>2 DEF DlGood
  <1>4. PICK x : x = Path(m, f)
    OBVIOUS
  <1>5. x \in Paths /\ \A g \in dl[p].todo : Path(m, g) \in Paths /\ (g # f => Path(m, g) # x)
    BY <1>3, <1>4, ManifestFiles
  <1>6. /\ DOMAIN stage' = Procs /\ \A q \in Procs : q # p => stage'[q] = stage[q]
        /\ DOMAIN stage'[p] = Paths
        /\ stage'[p][x] = IF part[x] = "none" THEN "prefix" ELSE part[x]
        /\ \A y \in Paths : y # x => stage'[p][y] = stage[p][y]
    BY <1>0, <1>1, <1>2, <1>4, <1>5
  <1>7. /\ DOMAIN part' = Paths /\ part'[x] = "none"
        /\ \A y \in Paths : y # x => part'[y] = part[y]
    BY <1>0, <1>1, <1>2, <1>4, <1>5
  <1>8. /\ DlMove(p) /\ dl'[p].pc = "fetch" /\ dl'[p].file = f /\ dl'[p].m = m /\ dl'[p].todo = dl[p].todo
    BY <1>0, <1>1, <1>2 DEF DlMove, DlFields
  <1>9. UNCHANGED <<final, acq>>
    BY DEF claimPartial
  <1>10. stage[p][x] = "none"
    BY <1>0, <1>2, <1>4 DEF FilesOf
  <1>11. acq = p /\ \A y \in Paths : /\ stage[p][y] \in {"none", "good"}
                                     /\ stage[p][y] # "none" => part[y] = "none"
    BY <1>0 DEF FilesOf, Fetching
  <1>12. \A g \in dl[p].todo : stage[p][Path(m, g)] = "none"
    BY <1>0, <1>2 DEF FilesOf
  <1>13. FilesOf(p)'
    <2>1. \A y \in Paths : /\ stage'[p][y] # "none" => part'[y] = "none"
                           /\ stage'[p][y] \in {"none", "good"} \/ y = Path(m, f)
      BY <1>4, <1>6, <1>7, <1>11
    <2>2. \A g \in dl[p].todo : g # f => stage'[p][Path(m, g)] = "none"
      BY <1>5, <1>6, <1>12
    <2>. QED BY <1>4, <1>6, <1>7, <1>8, <1>9, <1>11, <2>1, <2>2 DEF FilesOf
  <1>14. \A q \in Procs : q # p => FilesOf(q)'
    BY <1>0, <1>6, <1>8, FilesOthers DEF DlMove, Fetching
  <1>15. ASSUME NEW y \in Paths, Verified(y) PROVE Verified(y)'
    <2>1. CASE y = x
      BY <1>6, <1>9, <1>10, <1>15, <2>1 DEF Verified
    <2>2. CASE y # x
      BY <1>6, <1>7, <1>9, <1>15, <2>2 DEF Verified
    <2>. QED BY <2>1, <2>2
  <1>. QED
    BY <1>6, <1>7, <1>9, <1>13, <1>14, <1>15 DEF FilesInv, FinalsVerified, KeepsVerified

LEMMA FilesDownload ==
    ASSUME CallsInv, FilesInv, NEW p \in Procs, downloadArtifact(p)
    PROVE  FilesInv' /\ KeepsVerified
  <1>0. /\ DOMAIN dl = Procs /\ DlGood(dl[p]) /\ DOMAIN dl[p] = DlFields /\ dl[p].pc = "fetch"
        /\ FilesOf(p) /\ DOMAIN stage[p] = Paths /\ DOMAIN part = Paths /\ DOMAIN stage = Procs
    BY DEF CallsInv, DlGood, downloadArtifact, FilesInv, FilesOf
  <1>1. PICK m, f : m = dl[p].m /\ f = dl[p].file
    OBVIOUS
  <1>2. GoodManifest(m) /\ dl[p].todo \subseteq Artifacts(m) /\ f \in dl[p].todo
    BY <1>0, <1>1 DEF DlGood
  <1>3. PICK x : x = Path(m, f)
    OBVIOUS
  <1>4. x \in Paths
    BY <1>2, <1>3, ManifestFiles
  <1>5. PICK got \in IF stage[p][x] = "good" THEN {"good"} ELSE {"prefix", "wrong", "good"} :
          LET staged == [stage[p] EXCEPT ![x] = IF got = "wrong" /\ ~acceptDownload(got) THEN "none" ELSE got]
          IN IF acceptDownload(got)
             THEN /\ stage' = [stage EXCEPT ![p] = staged]
                  /\ dl' = [dl EXCEPT ![p].todo = @ \ {dl[p].file}, ![p].file = None,
                                      ![p].pc = IF dl[p].todo = {dl[p].file} THEN "commit" ELSE "claim"]
                  /\ UNCHANGED <<part, acq, man>>
             ELSE /\ part' = restorePartial(staged, x)
                  /\ stage' = [stage EXCEPT ![p] = Unstaged]
                  /\ dl' = [dl EXCEPT ![p].pc = "failed", ![p].file = None]
                  /\ ReleaseLocks(p)
    BY <1>1, <1>3 DEF downloadArtifact
  <1>6. UNCHANGED final
    BY DEF downloadArtifact
  <1>7. acq = p /\ \A y \in Paths : /\ y # x => stage[p][y] \in {"none", "good"}
                                    /\ stage[p][y] # "none" => part[y] = "none"
    BY <1>0, <1>1, <1>3 DEF FilesOf, Fetching
  <1>8. \A g \in dl[p].todo : g # f => stage[p][Path(m, g)] = "none" /\ Path(m, g) # x /\ Path(m, g) \in Paths
    BY <1>0, <1>1, <1>2, <1>3, ManifestFiles DEF FilesOf
  <1>9. DlMove(p) /\ DOMAIN stage' = Procs /\ \A q \in Procs : q # p => stage'[q] = stage[q]
    BY <1>0, <1>5 DEF DlMove
  <1>10. \A q \in Procs : q # p => FilesOf(q)'
    BY <1>0, <1>9, FilesOthers DEF DlMove, Fetching
  <1>11. CASE acceptDownload(got)
    <2>1. got = "good"
      BY <1>11 DEF acceptDownload, verifyArtifact
    <2>2. /\ stage' = [stage EXCEPT ![p] = [stage[p] EXCEPT ![x] = "good"]] /\ UNCHANGED <<part, acq>>
          /\ dl' = [dl EXCEPT ![p].todo = @ \ {dl[p].file}, ![p].file = None,
                              ![p].pc = IF dl[p].todo = {dl[p].file} THEN "commit" ELSE "claim"]
      BY <1>5, <1>11, <2>1
    <2>3. /\ DOMAIN stage'[p] = Paths /\ stage'[p][x] = "good"
          /\ \A y \in Paths : y # x => stage'[p][y] = stage[p][y]
      BY <1>0, <1>4, <2>2
    <2>4. dl'[p].todo = dl[p].todo \ {f} /\ dl'[p].m = m /\ dl'[p].pc \in {"commit", "claim"}
      BY <1>0, <1>1, <2>2 DEF DlFields
    <2>5. part[x] = "none"
      BY <1>0, <1>1, <1>3 DEF FilesOf
    <2>6. FilesOf(p)'
      <3>1. \A y \in Paths : /\ stage'[p][y] \in {"none", "good"}
                             /\ stage'[p][y] # "none" => part'[y] = "none"
        BY <1>7, <2>2, <2>3, <2>5
      <3>2. \A g \in dl'[p].todo : stage'[p][Path(m, g)] = "none"
        BY <1>8, <2>3, <2>4
      <3>3. dl'[p].pc # "fetch" /\ acq' = p /\ (stage'[p][x] # "none" => dl'[p].pc \in {"claim", "fetch", "commit"})
        BY <1>7, <2>2, <2>4
      <3>. QED BY <2>3, <2>4, <3>1, <3>2, <3>3 DEF FilesOf
    <2>7. ASSUME NEW y \in Paths, Verified(y) PROVE Verified(y)'
      BY <1>6, <1>9, <2>2, <2>3, <2>7 DEF Verified
    <2>. QED
      BY <1>6, <1>9, <1>10, <2>2, <2>6, <2>7 DEF FilesInv, FinalsVerified, KeepsVerified
  <1>12. CASE ~acceptDownload(got)
    <2>1. got # "good" /\ stage[p][x] # "good"
      BY <1>5, <1>12 DEF acceptDownload, verifyArtifact
    <2>2. PICK staged : staged = [stage[p] EXCEPT ![x] = IF got = "wrong" /\ ~acceptDownload(got) THEN "none" ELSE got]
      OBVIOUS
    <2>3. /\ part' = restorePartial(staged, x) /\ stage' = [stage EXCEPT ![p] = Unstaged]
          /\ dl' = [dl EXCEPT ![p].pc = "failed", ![p].file = None]
      BY <1>5, <1>12, <2>2
    <2>4. /\ DOMAIN part' = Paths
          /\ \A y \in Paths : part'[y] = IF staged[y] # "none" /\ part[y] = "none" THEN staged[y] ELSE part[y]
      BY <2>3 DEF restorePartial
    <2>5. stage'[p] = Unstaged /\ dl'[p].pc = "failed"
      BY <1>0, <2>3 DEF DlFields
    <2>6. DOMAIN stage'[p] = Paths /\ \A y \in Paths : stage'[p][y] = "none"
      BY <2>5 DEF Unstaged
    <2>7. FilesOf(p)'
      BY <2>5, <2>6 DEF FilesOf, Fetching
    <2>8. \A y \in Paths : y # x => staged[y] = stage[p][y]
      BY <1>0, <1>4, <2>2
    <2>9. ASSUME NEW y \in Paths, Verified(y) PROVE Verified(y)'
      <3>1. CASE stage[p][y] = "good"
        <4>1. y # x /\ part[y] = "none" /\ staged[y] = "good"
          BY <1>7, <2>1, <2>8, <3>1
        <4>2. part'[y] = "good"
          BY <2>4, <4>1
        <4>. QED BY <4>2 DEF Verified
      <3>2. CASE part[y] = "good"
        <4>1. part'[y] = "good"
          BY <2>4, <3>2
        <4>. QED BY <4>1 DEF Verified
      <3>. QED BY <1>6, <1>9, <2>9, <3>1, <3>2 DEF Verified
    <2>. QED
      BY <1>6, <1>9, <1>10, <2>4, <2>7, <2>9 DEF FilesInv, FinalsVerified, KeepsVerified
  <1>. QED BY <1>11, <1>12

LEMMA FilesCommit ==
    ASSUME CallsInv, FilesInv, NEW p \in Procs, commitStagedFile(p)
    PROVE  FilesInv' /\ KeepsVerified
  <1>0. /\ dl[p].pc = "commit" /\ FilesOf(p) /\ DOMAIN stage[p] = Paths /\ DOMAIN final = Paths
        /\ DOMAIN stage = Procs /\ UNCHANGED <<part, acq, dl>>
    BY DEF commitStagedFile, FilesInv, FilesOf
  <1>1. PICK x \in Paths : /\ stage[p][x] # "none"
                           /\ final' = [final EXCEPT ![x] = stage[p][x]]
                           /\ stage' = [stage EXCEPT ![p][x] = "none"]
    BY DEF commitStagedFile
  <1>2. stage[p][x] = "good"
    BY <1>0, <1>1 DEF FilesOf
  <1>3. /\ DOMAIN stage' = Procs /\ \A q \in Procs : q # p => stage'[q] = stage[q]
        /\ DOMAIN stage'[p] = Paths /\ stage'[p][x] = "none"
        /\ \A y \in Paths : y # x => stage'[p][y] = stage[p][y]
    BY <1>0, <1>1
  <1>4. DOMAIN final' = Paths /\ final'[x] = "good" /\ \A y \in Paths : y # x => final'[y] = final[y]
    BY <1>0, <1>1, <1>2
  <1>5. FilesOf(p)'
    <2>1. \A y \in Paths : /\ stage'[p][y] \in {"none", "good"}
                           /\ stage'[p][y] # "none" => part[y] = "none"
      BY <1>0, <1>3 DEF FilesOf
    <2>2. acq = p
      BY <1>0 DEF FilesOf, Fetching
    <2>. QED BY <1>0, <1>3, <2>1, <2>2 DEF FilesOf
  <1>6. \A q \in Procs : q # p => FilesOf(q)'
    BY <1>0, <1>3, FilesOthers DEF Fetching
  <1>7. ASSUME NEW y \in Paths, Verified(y) PROVE Verified(y)'
    BY <1>0, <1>3, <1>4, <1>7 DEF Verified
  <1>. QED
    BY <1>0, <1>3, <1>4, <1>5, <1>6, <1>7 DEF FilesInv, FinalsVerified, KeepsVerified

LEMMA FilesCrash ==
    ASSUME CallsInv, FilesInv, NEW p \in Procs, CacheCrash(p)
    PROVE  FilesInv' /\ (NoStage(p) => KeepsVerified)
  <1>0. DOMAIN dl = Procs /\ DOMAIN stage = Procs
    BY DEF CallsInv, FilesInv
  <1>1. /\ DlMove(p) /\ dl'[p] = Idle /\ UNCHANGED <<final, part>> /\ AcqMoves(p)
        /\ DOMAIN stage' = Procs /\ stage'[p] = Unstaged /\ \A q \in Procs : q # p => stage'[q] = stage[q]
    BY <1>0, AcqReleased DEF CacheCrash, DlMove
  <1>2. DOMAIN stage'[p] = Paths /\ \A y \in Paths : stage'[p][y] = "none"
    BY <1>1 DEF Unstaged
  <1>3. FilesOf(p)'
    BY <1>1, <1>2, IdleGood DEF FilesOf, Fetching
  <1>4. ASSUME NEW q \in Procs, q # p PROVE FilesOf(q)'
    <2>1. dl'[q] = dl[q] /\ stage'[q] = stage[q] /\ FilesOf(q) /\ q # None
      BY <1>1, <1>4, CacheAssumption DEF DlMove, FilesInv
    <2>2. dl[q].pc \in Fetching => acq' = q
      BY <1>1, <1>4, <2>1 DEF AcqMoves, FilesOf
    <2>. QED BY <1>1, <2>1, <2>2 DEF FilesOf
  <1>5. ASSUME NoStage(p), NEW y \in Paths, Verified(y) PROVE Verified(y)'
    BY <1>1, <1>5 DEF Verified, NoStage
  <1>. QED
    BY <1>1, <1>3, <1>4, <1>5 DEF FilesInv, FinalsVerified, KeepsVerified

LEMMA FilesEnsure ==
    ASSUME CallsInv, FilesInv, NEW p \in Procs,
           \/ CacheStep(p) \/ EnsureCancelled(p) \/ \E h \in Profile : CachedPlan(p, h) \/ Plan(p, h)
    PROVE  FilesInv' /\ KeepsVerified
  <1>0. DOMAIN dl = Procs /\ DlGood(dl[p]) /\ DOMAIN dl[p] = DlFields /\ FilesOf(p) /\ p # None
    BY CacheAssumption DEF CallsInv, DlGood, FilesInv
  <1>1. ASSUME DlMove(p), DlGood(dl'[p]), UNCHANGED <<final, part, stage>>, NoStage(p), AcqMoves(p),
               dl'[p].pc \in Fetching => acq' = p, dl'[p].pc # "fetch"
        PROVE  FilesInv' /\ KeepsVerified
    BY <1>1, FilesUnstaged, FilesKept
  <1>2. ASSUME NEW h, CachedPlan(p, h) \/ Plan(p, h) PROVE FilesInv' /\ KeepsVerified
    <2>1. DlMove(p) /\ DlGood(dl'[p]) /\ UNCHANGED <<final, part, stage>>
      BY <1>2, CallsPlans DEF CachedPlan, Plan
    <2>2. NoStage(p)
      BY <1>2, NotStaging DEF CachedPlan, Plan
    <2>3. AcqMoves(p)
      BY <1>2, AcqReleased DEF CachedPlan, Plan, AcqMoves
    <2>4. CASE CachedPlan(p, h)
      <3>1. dl'[p].pc \in {"resolve", "got", "refused"}
        BY <1>0, <2>4 DEF CachedPlan, DlFields
      <3>. QED BY <1>1, <2>1, <2>2, <2>3, <3>1 DEF Fetching
    <2>5. CASE Plan(p, h)
      <3>1. dl'[p].pc \in {"refused", "claim", "commit"} /\ acq = p
        BY <1>0, <2>5 DEF Plan, DlFields, FilesOf, Fetching
      <3>2. dl'[p].pc # "refused" => acq' = acq
        BY <2>5 DEF Plan
      <3>. QED BY <1>1, <2>1, <2>2, <2>3, <3>1, <3>2 DEF Fetching
    <2>. QED BY <1>2, <2>4, <2>5
  <1>3. CASE Resolve(p) \/ EnsureCancelled(p) \/ verifyManifestDirectory(p)
    <2>1. DlMove(p) /\ DlGood(dl'[p]) /\ UNCHANGED <<final, part, stage>>
      BY <1>3, CallsSteps DEF Resolve, EnsureCancelled, verifyManifestDirectory
    <2>2. NoStage(p)
      <3>1. CASE verifyManifestDirectory(p)
        BY <3>1 DEF verifyManifestDirectory, Unstaged, NoStage
      <3>. QED BY <1>3, <3>1, NotStaging DEF Resolve, EnsureCancelled
    <2>3. AcqMoves(p)
      BY <1>3, AcqReleased DEF Resolve, EnsureCancelled, verifyManifestDirectory, AcqMoves
    <2>4. dl'[p].pc \in {"failed", "acquire", "got"}
      BY <1>0, <1>3 DEF Resolve, EnsureCancelled, verifyManifestDirectory, DlFields
    <2>. QED BY <1>1, <2>1, <2>2, <2>3, <2>4 DEF Fetching
  <1>4. CASE AcquireModelsDir(p)
    <2>1. DlMove(p) /\ DlGood(dl'[p]) /\ UNCHANGED <<final, part, stage>> /\ acq = None /\ acq' = p
      BY <1>4, CallsSteps DEF AcquireModelsDir
    <2>2. NoStage(p)
      BY <1>4, NotStaging DEF AcquireModelsDir
    <2>3. dl'[p].pc = "acquireManifest"
      BY <1>0, <1>4 DEF AcquireModelsDir, DlFields
    <2>. QED BY <1>1, <2>1, <2>2, <2>3 DEF AcqMoves
  <1>5. CASE acquireManifestLock(p)
    <2>1. /\ DlMove(p) /\ DOMAIN dl'[p] = DlFields /\ dl'[p].m = dl[p].m /\ dl'[p].repo = dl[p].repo
          /\ dl'[p].pc = "plan" /\ UNCHANGED <<final, part, stage, acq>> /\ dl[p].pc = "acquireManifest"
      BY <1>0, <1>5 DEF acquireManifestLock, DlMove, DlFields
    <2>2. DlGood(dl'[p])
      BY <1>0, <2>1 DEF DlGood
    <2>3. NoStage(p) /\ acq = p
      BY <1>0, <2>1, NotStaging DEF FilesOf, Fetching
    <2>. QED BY <1>1, <2>1, <2>2, <2>3 DEF AcqMoves
  <1>6. CASE claimPartial(p) \/ downloadArtifact(p) \/ commitStagedFile(p)
    BY <1>6, FilesClaim, FilesDownload, FilesCommit
  <1>. QED
    BY <1>2, <1>3, <1>4, <1>5, <1>6 DEF CacheStep

LEMMA FilesNext ==
    ASSUME RuntimesInv, CallsInv, CallsInv', FilesInv, crashes \in Nat, [Next]_vars
    PROVE  FilesInv' /\ (KeepsVerified \/ crashes' # crashes)
  <1>0. ASSUME NEW p \in Procs PROVE DlGood(dl'[p]) /\ DOMAIN dl = Procs /\ DOMAIN dl' = Procs
    BY DEF CallsInv
  <1>1. ASSUME NEW p \in Procs, DlMove(p), UNCHANGED <<final, part, stage, acq>>, NoStage(p),
               dl'[p].pc \notin Fetching
        PROVE  FilesInv' /\ KeepsVerified
    BY <1>0, <1>1, FilesUnstaged, FilesKept DEF Fetching, AcqMoves
  <1>2. ASSUME NEW p \in Procs, Build(p) PROVE FilesInv' /\ KeepsVerified
    <2>1. CASE startLlamaRuntime(p)
      <3>1. dl[p].pc \in {"idle", "held"}
        BY <2>1 DEF startLlamaRuntime, CallsInv
      <3>2. NoStage(p)
        BY <3>1, NotStaging
      <3>3. DlMove(p) /\ dl'[p] = Idle /\ UNCHANGED <<final, part, stage, acq>>
        BY <1>0, <2>1 DEF startLlamaRuntime, DlMove
      <3>. QED BY <1>1, <3>2, <3>3, IdleGood DEF Fetching
    <2>. QED
      BY <1>2, <2>1, FilesStill DEF Build, ReapOrphanedServers, waitForExit, applyLlamaAutoTune
  <1>3. ASSUME NEW p \in Procs, Start(p) PROVE FilesInv' /\ KeepsVerified
    <2>1. CASE StartBegin(p)
      <3>1. CASE UNCHANGED cacheVars
        BY <3>1, FilesStill
      <3>2. CASE ~UNCHANGED cacheVars
        <4>1. EnsureCall(p, rt[p].cfg.model, rt[p].cfg.ctx)
          BY <2>1, <3>2 DEF StartBegin
        <4>2. NoStage(p)
          BY <4>1, NotStaging DEF EnsureCall
        <4>3. DlMove(p) /\ UNCHANGED <<final, part, stage, acq>> /\ dl'[p].pc \in {"resolve", "cached"}
          BY <1>0, <4>1, IdleGood DEF EnsureCall, DlMove, DlFields
        <4>. QED BY <1>1, <4>2, <4>3 DEF Fetching
      <3>. QED BY <3>1, <3>2
    <2>2. CASE EnsureArtifacts(p)
      BY <2>2, FilesEnsure DEF EnsureArtifacts
    <2>3. CASE resolveArtifacts(p)
      <3>1. NoStage(p)
        BY <2>3, NotStaging DEF resolveArtifacts
      <3>2. DOMAIN dl[p] = DlFields
        BY DEF CallsInv, DlGood
      <3>3. DlMove(p) /\ UNCHANGED <<final, part, stage, acq>> /\ dl'[p].pc \in {"held", "idle"}
        BY <1>0, <2>3, <3>2, IdleGood DEF resolveArtifacts, DlMove, DlFields
      <3>. QED BY <1>1, <3>1, <3>3 DEF Fetching
    <2>. QED
      BY <1>3, <2>1, <2>2, <2>3, FilesStill
         DEF Start, InvalidConfig, acquireFileLock, verifyLocalArtifactsAgainstManifest,
             Admit, Launch, ExecFails, waitReady, StopAfterProbe, StartReturns
  <1>4. ASSUME NEW p \in Procs, reap(p) \/ CancelStart(p) \/ CloseCall(p) \/ Close(p)
        PROVE  FilesInv' /\ KeepsVerified
    BY <1>4, FilesStill DEF reap, CancelStart, CloseCall, Close, CloseBarrier, stopCommand
  <1>5. ASSUME NEW p \in Procs, Exit(p) PROVE FilesInv' /\ KeepsVerified
    <2>1. rt[p].pc # "resolve"
      BY <1>5 DEF Exit, RuntimesInv, RtGood
    <2>2. NoStage(p)
      BY <2>1, NotStaging DEF CallsInv
    <2>. QED BY <1>5, <2>2, FilesCrash DEF Exit, Gone
  <1>6. ASSUME NEW p \in Procs, Crash(p) PROVE FilesInv' /\ (KeepsVerified \/ crashes' # crashes)
    <2>1. FilesInv'
      BY <1>6, FilesCrash DEF Crash, Gone
    <2>2. crashes' # crashes
      BY <1>6 DEF Crash
    <2>. QED BY <2>1, <2>2
  <1>7. ASSUME NEW s \in Servers, ServerExits(s) PROVE FilesInv' /\ KeepsVerified
    BY <1>7, FilesStill DEF ServerExits
  <1>8. ASSUME NEW r \in Repos, HubMoves(r) PROVE FilesInv' /\ KeepsVerified
    BY <1>8 DEF HubMoves, FilesInv, FilesOf, FinalsVerified, KeepsVerified, Verified
  <1>9. CASE UNCHANGED vars
    BY <1>9, FilesStill DEF vars
  <1>. QED
    BY <1>2, <1>3, <1>4, <1>5, <1>6, <1>7, <1>8, <1>9 DEF Next

LEMMA FilesInit == Init => FilesInv
  BY IdleGood DEF Init, CacheInit, FilesInv, FilesOf, FinalsVerified, Fetching

LEMMA CrashesNext == ASSUME crashes \in Nat, [Next]_vars PROVE crashes' \in Nat
  <1>1. ASSUME NEW p \in Procs, Build(p) \/ Start(p) PROVE UNCHANGED crashes
    <2>1. CASE Build(p)
      BY <2>1 DEF Build, ReapOrphanedServers, waitForExit, applyLlamaAutoTune, startLlamaRuntime
    <2>2. CASE Start(p)
      BY <2>2 DEF Start, StartBegin, InvalidConfig, EnsureArtifacts, rtVars, resolveArtifacts, acquireFileLock,
                  verifyLocalArtifactsAgainstManifest, Admit, Launch, ExecFails, waitReady,
                  StopAfterProbe, StartReturns
    <2>. QED BY <1>1, <2>1, <2>2
  <1>2. ASSUME NEW p \in Procs, reap(p) \/ CancelStart(p) \/ CloseCall(p) \/ Close(p) \/ Exit(p)
        PROVE  UNCHANGED crashes
    BY <1>2 DEF reap, CancelStart, CloseCall, Close, CloseBarrier, stopCommand, Exit
  <1>3. ASSUME NEW p \in Procs, Crash(p) PROVE crashes' \in Nat
    BY <1>3 DEF Crash
  <1>4. ASSUME NEW s \in Servers, ServerExits(s) PROVE UNCHANGED crashes
    BY <1>4 DEF ServerExits
  <1>5. CASE UNCHANGED vars \/ UNCHANGED rtVars
    BY <1>5 DEF vars, rtVars
  <1>. QED
    BY <1>1, <1>2, <1>3, <1>4, <1>5 DEF Next

-----------------------------------------------------------------------------
(* What a step does to the configuration that Start launches with.            *)

Untouched == {"new", "resolve", "lock", "verify", "inspect"}

LEMMA StartEffect ==
    ASSUME RuntimesInv, NEW p \in Procs, Start(p)
    PROVE  /\ rt'[p].cfg = rt[p].cfg
           /\ rt'[p].pc = "launch" => Admit(p)
           /\ \/ rt'[p].tuned = None
              \/ rt'[p].tuned = rt[p].tuned /\ (rt[p].pc \in Untouched => rt'[p].pc \in Untouched)
  <1>0. p \in DOMAIN rt /\ DOMAIN rt = Procs /\ RtGood(rt[p]) /\ DOMAIN rt[p] = RtFields
    BY DEF RuntimesInv, RtGood
  <1>. DEFINE Goal == /\ rt'[p].cfg = rt[p].cfg
                      /\ rt'[p].pc = "launch" => Admit(p)
                      /\ \/ rt'[p].tuned = None
                         \/ rt'[p].tuned = rt[p].tuned /\ (rt[p].pc \in Untouched => rt'[p].pc \in Untouched)
  <1>a. ASSUME NEW r, NEW report, rt'[p] = Failed(r, report), DOMAIN r = RtFields, r.cfg = rt[p].cfg
        PROVE  Goal
    BY <1>a, FailedFields
  <1>b. ASSUME NEW report, failStart(p, report) PROVE Goal
    <2>1. PICK r : r = rt[p]
      OBVIOUS
    <2>2. rt'[p] = Failed(r, report)
      BY <1>0, <1>b, <2>1 DEF failStart
    <2>. QED BY <1>0, <1>a, <2>1, <2>2
  <1>c. ASSUME NEW pc, rt'[p].pc = pc, pc # "launch", rt'[p].cfg = rt[p].cfg, rt'[p].tuned = rt[p].tuned,
               pc \in Untouched \/ rt[p].pc \notin Untouched
        PROVE  Goal
    BY <1>c
  <1>3. CASE StartBegin(p)
    <2>1. CASE rt[p].closing
      BY <1>3, <1>b, <2>1 DEF StartBegin
    <2>2. CASE ~rt[p].closing
      <3>1. /\ rt'[p].pc \in {"lock", "resolve"} /\ rt'[p].cfg = rt[p].cfg /\ rt'[p].tuned = rt[p].tuned
        BY <1>0, <1>3, <2>2 DEF StartBegin, RtFields
      <3>. QED BY <3>1 DEF Untouched
    <2>. QED BY <2>1, <2>2
  <1>4. CASE InvalidConfig(p) \/ StopAfterProbe(p)
    BY <1>4, <1>b DEF InvalidConfig, StopAfterProbe
  <1>5. CASE EnsureArtifacts(p)
    BY <1>5 DEF EnsureArtifacts, rtVars
  <1>6. CASE resolveArtifacts(p)
    <2>1. CASE dl[p].pc = "got"
      <3>1. rt'[p].pc = "lock" /\ rt'[p].cfg = rt[p].cfg /\ rt'[p].tuned = rt[p].tuned
        BY <1>0, <1>6, <2>1 DEF resolveArtifacts, RtFields
      <3>. QED BY <3>1 DEF Untouched
    <2>2. CASE dl[p].pc # "got"
      <3>1. PICK report : failStart(p, report)
        BY <1>6, <2>2 DEF resolveArtifacts
      <3>. QED BY <1>b, <3>1
    <2>. QED BY <2>1, <2>2
  <1>7. CASE acquireFileLock(p)
    <2>1. CASE rt' = [rt EXCEPT ![p].pc = "verify"]
      BY <1>0, <2>1 DEF RtFields, Untouched
    <2>. QED BY <1>7, <1>b, <2>1 DEF acquireFileLock
  <1>8. CASE verifyLocalArtifactsAgainstManifest(p)
    <2>1. CASE rt' = [rt EXCEPT ![p].pc = "inspect"]
      BY <1>0, <2>1 DEF RtFields, Untouched
    <2>. QED BY <1>8, <1>b, <2>1 DEF verifyLocalArtifactsAgainstManifest
  <1>9. CASE Admit(p)
    <2>1. PICK report : \/ rt' = [rt EXCEPT ![p].pc = "launch", ![p].admitted = report.runtime, ![p].tuned = None]
                        \/ failStart(p, report)
      BY <1>9 DEF Admit
    <2>2. CASE rt' = [rt EXCEPT ![p].pc = "launch", ![p].admitted = report.runtime, ![p].tuned = None]
      BY <1>0, <1>9, <2>2 DEF RtFields
    <2>. QED BY <1>b, <2>1, <2>2
  <1>10. CASE Launch(p)
    <2>1. CASE ~MayLaunch(p)
      BY <1>10, <1>b, <2>1 DEF Launch
    <2>2. CASE MayLaunch(p)
      <3>1. PICK s \in Servers :
              rt' = [rt EXCEPT ![p].pc = "probe", ![p].state = "starting", ![p].cmd = s, ![p].reaped = FALSE]
        BY <1>10, <2>2 DEF Launch
      <3>2. rt[p].pc \notin Untouched
        BY <1>10 DEF Launch, Untouched
      <3>. QED BY <1>0, <3>1, <3>2 DEF RtFields
    <2>. QED BY <2>1, <2>2
  <1>11. CASE ExecFails(p)
    <2>1. PICK r : r = [rt[p] EXCEPT !.state = "starting"]
      OBVIOUS
    <2>2. DOMAIN r = RtFields /\ r.cfg = rt[p].cfg
      BY <1>0, <2>1 DEF RtFields
    <2>3. rt'[p] = Failed(r, None)
      BY <1>0, <1>11, <2>1 DEF ExecFails
    <2>. QED BY <1>a, <2>2, <2>3
  <1>12. CASE waitReady(p)
    BY <1>0, <1>12 DEF waitReady, RtFields, Untouched
  <1>14. CASE StartReturns(p)
    <2>1. CASE rt[p].state # "starting"
      BY <1>14, <1>b, <2>1 DEF StartReturns
    <2>2. CASE rt[p].state = "starting"
      BY <1>0, <1>14, <2>2 DEF StartReturns, RtFields, Untouched
    <2>. QED BY <2>1, <2>2
  <1>. QED
    BY <1>3, <1>4, <1>5, <1>6, <1>7, <1>8, <1>9, <1>10, <1>11, <1>12, <1>14 DEF Start

-----------------------------------------------------------------------------
(* The gate.                                                                  *)

LEMMA MaxNat == MaxBytes \in Nat /\ MaxBytes > 0 /\ Overflow \in Nat /\ Overflow > MaxBytes
  BY MaxBytesAssumption DEF Overflow

LEMMA Add64 ==
    ASSUME NEW a \in Nat, NEW b \in Nat
    PROVE  /\ add64(a, b) \in Nat
           /\ a + b <= MaxBytes => add64(a, b) = a + b
           /\ a + b > MaxBytes => add64(a, b) = Overflow
  BY MaxNat DEF add64

LEMMA TimesNat == \A a, b \in Nat : a * b \in Nat
  OBVIOUS

LEMMA Mul64 ==
    ASSUME NEW a \in Nat, NEW b \in Nat
    PROVE  mul64(a, b) \in Nat
  BY MaxNat, TimesNat DEF mul64

LEMMA PerToken ==
    ASSUME NEW kv
    PROVE  /\ kvBytesPerToken(DefaultFitPolicy.kvPerToken, kv) \in {512, 288, 160}
  <1>1. DefaultFitPolicy.kvPerToken = 512
    BY DEF DefaultFitPolicy
  <1>2. kvCacheSixteenths(kv) \in {9, 5, 16}
    BY DEF kvCacheSixteenths
  <1>3. (512 * 9) \div 16 = 288 /\ (512 * 5) \div 16 = 160 /\ (512 * 16) \div 16 = 512
    OBVIOUS
  <1>. QED
    BY <1>1, <1>2, <1>3 DEF kvBytesPerToken

LEMMA Overheads ==
    ASSUME NEW a \in Nat
    PROVE  WeightOverhead(a) \in Nat /\ Scratch(a) \in Nat /\ Scratch(a) > 0
  <1>1. DefaultFitPolicy.scratch = 1048576
    BY DEF DefaultFitPolicy, byteGiB
  <1>2. a \div 100 \in Nat /\ a \div 10 \in Nat
    OBVIOUS
  <1>. QED
    BY <1>1, <1>2 DEF WeightOverhead, Scratch, Larger

LEMMA KVNat ==
    ASSUME NEW req, req.ctx \in Nat, req.parallel = 1
    PROVE  KVEstimate(req) \in Nat
  <1>1. PICK k \in Nat : k = kvBytesPerToken(DefaultFitPolicy.kvPerToken, req.kv)
    BY PerToken
  <1>2. mul64(req.ctx, req.parallel) \in Nat
    BY Mul64
  <1>. QED
    BY <1>1, <1>2, Mul64 DEF KVEstimate

LEMMA EstimateNat ==
    ASSUME NEW req, req.model \in Nat, req.mmproj \in Nat, req.ctx \in Nat, req.parallel = 1
    PROVE  RuntimeEstimate(req) \in Nat
  <1>1. PICK a \in Nat : a = add64(req.model, req.mmproj)
    BY Add64
  <1>2. WeightOverhead(a) \in Nat /\ Scratch(a) \in Nat /\ KVEstimate(req) \in Nat
    BY Overheads, KVNat
  <1>3. add64(Scratch(a), KVEstimate(req)) \in Nat
    BY <1>2, Add64
  <1>4. sum64(WeightOverhead(a), Scratch(a), KVEstimate(req)) \in Nat
    BY <1>2, <1>3, Add64 DEF sum64
  <1>. QED
    BY <1>1, <1>4, Add64 DEF RuntimeEstimate

LEMMA GateHolds ==
    ASSUME NEW host, NEW req, EstimateFitWithPolicy(host, req).fits
    PROVE  /\ ~(RuntimeEstimate(req) > MemoryBudget(host, req.reclaimable))
           /\ req.model # 0 /\ host.total # 0 /\ host.avail # 0
  <1>1. FitReasons(host, req) = {}
    BY DEF EstimateFitWithPolicy
  <1>. QED
    BY <1>1 DEF FitReasons

(* More free memory is never a smaller budget.                                *)
LEMMA BudgetGrows ==
    ASSUME NEW a \in Nat, NEW b \in Nat, a <= b, b <= Machine.total
    PROVE  /\ MemoryBudget(Measured(a), 0) \in Nat
           /\ MemoryBudget(Measured(a), 0) <= MemoryBudget(Measured(b), 0)
           /\ MemoryBudget(Measured(a), 0) <= a
           /\ MemoryBudget(Measured(a), 0) <= MaxBytes
  <1>1. PICK T \in Nat : T = Machine.total /\ T <= MaxBytes
    BY RuntimeAssumption, MaxNat
  <1>2. Measured(a).total = T /\ Measured(b).total = T /\ Measured(a).avail = a /\ Measured(b).avail = b
    BY <1>1 DEF Measured
  <1>3. PICK os \in Nat : os = Larger(DefaultFitPolicy.osReserve, T \div 8)
    BY DEF Larger, DefaultFitPolicy, byteGiB
  <1>4. PICK hd \in Nat : hd = Larger(DefaultFitPolicy.headroom, T \div 32)
    BY DEF Larger, DefaultFitPolicy, byteGiB
  <1>5. add64(a, 0) = a /\ add64(b, 0) = b
    <2>1. a <= MaxBytes /\ b <= MaxBytes
      BY <1>1, MaxNat
    <2>. QED
      BY <2>1, MaxNat DEF add64
  <1>6. Smaller(MaxBytes, a) = a /\ Smaller(MaxBytes, b) = b
    BY <1>1, MaxNat DEF Smaller
  <1>7. /\ MemoryBudget(Measured(a), 0) = Smaller(saturatingSub(T, os), saturatingSub(a, hd))
        /\ MemoryBudget(Measured(b), 0) = Smaller(saturatingSub(T, os), saturatingSub(b, hd))
    BY <1>2, <1>3, <1>4, <1>5, <1>6 DEF MemoryBudget
  <1>. QED
    BY <1>1, <1>7, MaxNat DEF Smaller, saturatingSub

LEMMA TotalNat == Machine.total \in Nat /\ Machine.total <= MaxBytes /\ LocalSize \in Nat
  BY RuntimeAssumption, MaxNat

LEMMA FreeWithin == \A f \in FreeMemory : f \in Nat /\ f <= Machine.total
  BY RuntimeAssumption, TotalNat

(* At most one server runs, so together they take what one may take.          *)
LEMMA ResidentWithin ==
    ASSUME LockInv, FitInv
    PROVE  Within(Resident)
  <1>1. PICK need : need = [s \in Servers |-> srv[s].need]
    OBVIOUS
  <1>2. Resident = SumFunctionOnSet(need, Live)
    BY <1>1 DEF Resident
  <1>3. CASE Live = {}
    <2>1. Resident = 0
      BY <1>2, <1>3, SumEmpty
    <2>2. Budget \in Nat
      BY BudgetGrows, TotalNat DEF Budget
    <2>. QED BY <2>1, <2>2 DEF Within
  <1>4. CASE Live # {}
    <2>1. PICK s \in Live : TRUE
      BY <1>4
    <2>2. Live = {s} /\ s \in Servers
      BY <2>1 DEF LockInv, Live
    <2>3. need[s] = srv[s].need /\ Within(need[s])
      BY <1>1, <2>1, <2>2 DEF FitInv
    <2>4. Resident = need[s]
      BY <1>2, <2>2, <2>3, SumOne DEF Within
    <2>. QED BY <2>3, <2>4
  <1>. QED BY <1>3, <1>4

LEMMA ProfileWithin ==
    ASSUME LockInv, FitInv, NEW h \in Profile
    PROVE  \E a \in Nat : h = Measured(a) /\ a <= Machine.total
  <1>1. PICK n \in Nat : n = Resident
    BY ResidentWithin DEF Within
  <1>2. \A f \in FreeMemory : f \in Nat /\ f <= Machine.total
    BY FreeWithin
  <1>3. \A f \in FreeMemory : saturatingSub(f, Resident) \in Nat /\ saturatingSub(f, Resident) <= Machine.total
    BY <1>1, <1>2, TotalNat DEF saturatingSub
  <1>4. PICK a \in FreeMemory \cup {saturatingSub(f, Resident) : f \in FreeMemory} : h = Measured(a)
    BY DEF Profile
  <1>5. a \in Nat /\ a <= Machine.total
    BY <1>2, <1>3, <1>4
  <1>. QED
    BY <1>4, <1>5

LEMMA SameRequest ==
    ASSUME NEW p, NEW h
    PROVE  LET r == LaunchRequest(p, h)
           IN /\ RuntimeEstimate(r) = RuntimeEstimate(LaunchRequest(p, Machine))
              /\ r.ctx = rt[p].cfg.ctx /\ r.parallel = 1 /\ r.reclaimable = 0
  <1>1. PICK r, s : r = LaunchRequest(p, h) /\ s = LaunchRequest(p, Machine)
    OBVIOUS
  <1>2. /\ r.model = s.model /\ r.mmproj = s.mmproj /\ r.ctx = s.ctx
        /\ r.parallel = s.parallel /\ r.kv = s.kv
    BY <1>1 DEF LaunchRequest, LaunchRequestOf
  <1>3. RuntimeEstimate(r) = RuntimeEstimate(s)
    BY <1>2 DEF RuntimeEstimate, KVEstimate
  <1>4. r.ctx = rt[p].cfg.ctx /\ r.parallel = 1 /\ r.reclaimable = 0
    BY <1>1 DEF LaunchRequest, LaunchRequestOf
  <1>. QED
    BY <1>1, <1>3, <1>4

LEMMA RequestNat ==
    ASSUME RuntimesInv, CallsInv, NEW p \in Procs, rt[p].pc # "resolve", NEW h
    PROVE  LET r == LaunchRequest(p, h)
           IN r.model \in Nat /\ r.mmproj \in Nat /\ RuntimeEstimate(r) \in Nat
  <1>1. PICK r : r = LaunchRequest(p, h)
    OBVIOUS
  <1>2. r.ctx \in Nat /\ r.parallel = 1
    BY <1>1, SameRequest DEF RuntimesInv, RtGood
  <1>3. r.model \in Nat /\ r.mmproj \in Nat
    <2>1. CASE dl[p].pc = "idle"
      BY <1>1, <2>1, TotalNat DEF LaunchRequest, LaunchRequestOf
    <2>2. CASE dl[p].pc # "idle"
      <3>1. dl[p].pc = "held" /\ GoodManifest(dl[p].m)
        BY <2>2 DEF CallsInv, DlGood
      <3>2. TotalSize(dl[p].m.models) \in Nat /\ TotalSize(dl[p].m.mmproj) \in Nat
        BY <3>1, ManifestFiles
      <3>. QED BY <1>1, <2>2, <3>2 DEF LaunchRequest, LaunchRequestOf
    <2>. QED BY <2>1, <2>2
  <1>. QED
    BY <1>1, <1>2, <1>3, EstimateNat

LEMMA Admitted ==
    ASSUME RuntimesInv, CallsInv, LockInv, FitInv, NEW p \in Procs, rt[p].pc = "inspect",
           NEW h \in Profile, InspectLocal(p, h).fits
    PROVE  Within(RuntimeEstimate(LaunchRequest(p, Machine)))
  <1>2. PICK a \in Nat : h = Measured(a) /\ a <= Machine.total
    BY ProfileWithin
  <1>3. PICK r : r = LaunchRequest(p, h)
    OBVIOUS
  <1>4. ~(RuntimeEstimate(r) > MemoryBudget(h, 0))
    BY <1>3, GateHolds, SameRequest DEF InspectLocal
  <1>5. PICK n \in Nat : n = RuntimeEstimate(r)
    BY <1>3, RequestNat
  <1>6. PICK b \in Nat : b = MemoryBudget(h, 0) /\ Budget \in Nat /\ b <= Budget
    BY <1>2, BudgetGrows, TotalNat DEF Budget
  <1>7. n <= Budget
    BY <1>4, <1>5, <1>6
  <1>. QED
    BY <1>3, <1>5, <1>7, SameRequest DEF Within

LEMMA RequestStays ==
    ASSUME NEW p, rt'[p].cfg = rt[p].cfg, dl'[p] = dl[p]
    PROVE  RuntimeEstimate(LaunchRequest(p, Machine))' = RuntimeEstimate(LaunchRequest(p, Machine))
  <1>1. LaunchRequest(p, Machine)' = LaunchRequest(p, Machine)
    BY DEF LaunchRequest, LaunchRequestOf
  <1>. QED
    BY <1>1 DEF RuntimeEstimate, KVEstimate

LEMMA FitMove ==
    ASSUME FitInv, NEW p \in Procs, RtMove(p), \A q \in Procs : q # p => dl'[q] = dl[q],
           rt'[p].pc = "launch" => Within(RuntimeEstimate(LaunchRequest(p, Machine))'),
           \A s \in Live' : Within(srv'[s].need)
    PROVE  FitInv'
  <1>1. ASSUME NEW q \in Procs, rt'[q].pc = "launch"
        PROVE  Within(RuntimeEstimate(LaunchRequest(q, Machine))')
    <2>1. CASE q # p
      <3>1. rt'[q] = rt[q] /\ dl'[q] = dl[q]
        BY <2>1 DEF RtMove
      <3>. QED BY <1>1, <3>1, RequestStays DEF FitInv
    <2>. QED BY <1>1, <2>1
  <1>. QED
    BY <1>1 DEF FitInv, Within, Budget

LEMMA StartDl ==
    ASSUME CallsInv, NEW p \in Procs, Start(p)
    PROVE  \A q \in Procs : q # p => dl'[q] = dl[q]
  <1>0. DOMAIN dl = Procs
    BY DEF CallsInv
  <1>1. CASE StartBegin(p)
    BY <1>0, <1>1 DEF StartBegin, EnsureCall, cacheVars
  <1>2. CASE EnsureArtifacts(p)
    <2>1. CASE acquireManifestLock(p)
      BY <1>0, <2>1 DEF acquireManifestLock
    <2>2. ASSUME NEW h \in Profile, CachedPlan(p, h) \/ Plan(p, h) PROVE DlMove(p)
      BY <2>2, CallsPlans
    <2>3. CASE (CacheStep(p) /\ ~acquireManifestLock(p)) \/ EnsureCancelled(p)
      BY <2>3, CallsSteps DEF CacheStep, DlMove
    <2>. QED BY <1>2, <2>1, <2>2, <2>3 DEF EnsureArtifacts, DlMove
  <1>3. CASE resolveArtifacts(p)
    BY <1>0, <1>3 DEF resolveArtifacts
  <1>. QED
    BY <1>1, <1>2, <1>3
       DEF Start, InvalidConfig, acquireFileLock, verifyLocalArtifactsAgainstManifest,
           Admit, Launch, ExecFails, waitReady, StopAfterProbe, StartReturns, cacheVars

LEMMA StartQuiet ==
    ASSUME LockInv, NEW p \in Procs, Start(p), ~Launch(p)
    PROVE  Quiet
  <1>1. CASE waitReady(p)
    BY <1>1, QuietUnchanged, QuietKill DEF waitReady
  <1>2. CASE ~waitReady(p)
    <2>1. UNCHANGED srv
      BY <1>2 DEF Start, StartBegin, InvalidConfig, EnsureArtifacts, rtVars, resolveArtifacts, acquireFileLock,
                  verifyLocalArtifactsAgainstManifest, Admit, ExecFails, StopAfterProbe, StartReturns
    <2>. QED BY <2>1, QuietUnchanged
  <1>. QED BY <1>1, <1>2

LEMMA QuietNeeds == ASSUME FitInv, Quiet PROVE \A s \in Live' : Within(srv'[s].need)
  BY DEF FitInv, Quiet, Live

LEMMA FitStart ==
    ASSUME RuntimesInv, CallsInv, LockInv, FitInv, NEW p \in Procs, Start(p)
    PROVE  FitInv'
  <1>1. RtMove(p) /\ \A q \in Procs : q # p => dl'[q] = dl[q]
    BY RuntimesStart, StartDl
  <1>2. CASE rt'[p].pc = "launch"
    <2>1. Admit(p) /\ rt'[p].cfg = rt[p].cfg
      BY <1>2, StartEffect
    <2>2. UNCHANGED <<dl, srv>> /\ rt[p].pc = "inspect"
      BY <2>1 DEF Admit, cacheVars
    <2>3. PICK h \in Profile : InspectLocal(p, h).fits \/ failStart(p, InspectLocal(p, h))
      BY <2>1 DEF Admit
    <2>4. CASE failStart(p, InspectLocal(p, h))
      <3>1. PICK report : failStart(p, report)
        BY <2>4
      <3>. QED BY <1>2, <3>1, FailStartFields
    <2>5. CASE InspectLocal(p, h).fits
      <3>1. Within(RuntimeEstimate(LaunchRequest(p, Machine)))
        BY <2>2, <2>5, Admitted
      <3>2. Within(RuntimeEstimate(LaunchRequest(p, Machine))')
        BY <2>1, <2>2, <3>1, RequestStays
      <3>3. \A s \in Live' : Within(srv'[s].need)
        BY <2>2, QuietUnchanged, QuietNeeds
      <3>. QED BY <1>1, <3>2, <3>3, FitMove
    <2>. QED BY <2>3, <2>4, <2>5
  <1>3. CASE rt'[p].pc # "launch" /\ ~Launch(p)
    <2>1. \A s \in Live' : Within(srv'[s].need)
      BY <1>3, StartQuiet, QuietNeeds
    <2>. QED BY <1>1, <1>3, <2>1, FitMove
  <1>4. CASE rt'[p].pc # "launch" /\ Launch(p)
    <2>1. \A s \in Live' : Within(srv'[s].need)
      <3>1. CASE ~MayLaunch(p)
        BY <1>4, <3>1, QuietUnchanged, QuietNeeds DEF Launch
      <3>2. CASE MayLaunch(p)
        <4>1. PICK n : n = RuntimeEstimate(LaunchRequest(p, Machine))
          OBVIOUS
        <4>2. PICK s \in Servers :
                srv' = [srv EXCEPT ![s] = [live |-> TRUE, owner |-> p, killed |-> FALSE, need |-> n]]
          BY <1>4, <3>2, <4>1 DEF Launch
        <4>3. Within(n)
          BY <1>4, <4>1 DEF Launch, FitInv
        <4>4. \A t \in Servers : t # s => srv'[t] = srv[t]
          BY <4>2 DEF LockInv
        <4>5. srv'[s].need = n
          BY <4>2 DEF LockInv
        <4>. QED BY <4>3, <4>4, <4>5 DEF FitInv, Live
      <3>. QED BY <3>1, <3>2
    <2>. QED BY <1>1, <1>4, <2>1, FitMove
  <1>. QED BY <1>2, <1>3, <1>4

LEMMA FitNext ==
    ASSUME RuntimesInv, CallsInv, LockInv, FitInv, [Next]_vars
    PROVE  FitInv'
  <1>1. ASSUME NEW p \in Procs, Build(p) PROVE FitInv'
    <2>0. p \in DOMAIN rt /\ DOMAIN rt = Procs /\ DOMAIN rt[p] = RtFields /\ DOMAIN dl = Procs
      BY DEF RuntimesInv, RtGood, CallsInv
    <2>1. RtMove(p)
      BY <1>1, RuntimesBuild
    <2>2. \A q \in Procs : q # p => dl'[q] = dl[q]
      BY <1>1, <2>0 DEF Build, ReapOrphanedServers, waitForExit, applyLlamaAutoTune, startLlamaRuntime, cacheVars
    <2>3. rt'[p].pc # "launch" /\ Quiet
      BY <1>1, BuildEffect
    <2>. QED BY <2>1, <2>2, <2>3, QuietNeeds, FitMove
  <1>2. ASSUME NEW p \in Procs, Start(p) PROVE FitInv'
    BY <1>2, FitStart
  <1>3. ASSUME NEW p \in Procs, reap(p) \/ CancelStart(p) \/ CloseCall(p) \/ Close(p)
        PROVE  FitInv'
    <2>0. p \in DOMAIN rt /\ DOMAIN rt = Procs /\ DOMAIN rt[p] = RtFields
      BY DEF RuntimesInv, RtGood
    <2>1. RtMove(p) /\ rt'[p].pc = rt[p].pc /\ rt'[p].cfg = rt[p].cfg
      BY <1>3, <2>0 DEF reap, CancelStart, CloseCall, Close, CloseBarrier, stopCommand, RtMove, RtFields
    <2>2. UNCHANGED dl
      BY <1>3 DEF reap, CancelStart, CloseCall, Close, CloseBarrier, stopCommand, cacheVars
    <2>3. Quiet
      BY <1>3, QuietUnchanged, QuietKill DEF reap, CancelStart, CloseCall, Close, CloseBarrier, stopCommand
    <2>4. rt'[p].pc = "launch" => Within(RuntimeEstimate(LaunchRequest(p, Machine))')
      BY <2>1, <2>2, RequestStays DEF FitInv
    <2>. QED BY <2>1, <2>2, <2>3, <2>4, QuietNeeds, FitMove
  <1>4. ASSUME NEW p \in Procs, Exit(p) \/ Crash(p) PROVE FitInv'
    <2>1. Gone(p) /\ RtMove(p) /\ rt'[p].pc = "down"
      BY <1>4, GoneMove, DownFields DEF Exit, Crash
    <2>2. \A q \in Procs : q # p => dl'[q] = dl[q]
      BY <2>1 DEF Gone, CacheCrash, CallsInv
    <2>3. \A s \in Live' : s \in Live /\ srv'[s].need = srv[s].need
      BY <2>1 DEF Gone, LockInv, SrvFields, Live
    <2>4. \A s \in Live' : Within(srv'[s].need)
      BY <2>3 DEF FitInv
    <2>. QED BY <2>1, <2>2, <2>4, FitMove
  <1>5. ASSUME NEW s \in Servers, ServerExits(s) PROVE FitInv'
    <2>1. UNCHANGED <<rt, dl>>
      BY <1>5 DEF ServerExits, cacheVars
    <2>2. \A t \in Live' : t \in Live /\ srv'[t] = srv[t]
      <3>1. srv'[s].live = FALSE /\ \A t \in Servers : t # s => srv'[t] = srv[t]
        BY <1>5 DEF ServerExits, LockInv, NoServer
      <3>. QED BY <3>1 DEF Live
    <2>3. ASSUME NEW q \in Procs, rt'[q].pc = "launch"
          PROVE  Within(RuntimeEstimate(LaunchRequest(q, Machine))')
      BY <2>1, <2>3, RequestStays DEF FitInv
    <2>. QED BY <2>2, <2>3 DEF FitInv, Within, Budget
  <1>6. CASE UNCHANGED <<rt, srv, dl>>
    <2>1. ASSUME NEW q \in Procs, rt'[q].pc = "launch"
          PROVE  Within(RuntimeEstimate(LaunchRequest(q, Machine))')
      BY <1>6, <2>1, RequestStays DEF FitInv
    <2>. QED BY <1>6, <2>1 DEF FitInv, Within, Budget, Live
  <1>7. ASSUME NEW r \in Repos, HubMoves(r) /\ UNCHANGED rtVars PROVE FitInv'
    BY <1>6, <1>7 DEF HubMoves, rtVars
  <1>8. CASE UNCHANGED vars
    BY <1>6, <1>8 DEF vars, rtVars, cacheVars
  <1>. QED
    BY <1>1, <1>2, <1>3, <1>4, <1>5, <1>7, <1>8 DEF Next

LEMMA FitInit == Init => FitInv
  BY DownFields DEF Init, FitInv, Live, NoServer

-----------------------------------------------------------------------------
(* The tuner.                                                                 *)

LEMMA PlannedNat ==
    ASSUME RuntimesInv, CallsInv, NEW p \in Procs
    PROVE  PlannedSize(p).model \in Nat /\ PlannedSize(p).mmproj \in Nat
  <1>1. CASE rt[p].cfg.model = None
    BY <1>1, TotalNat DEF PlannedSize
  <1>2. CASE rt[p].cfg.model # None
    <2>1. PICK r \in Repos : r = rt[p].cfg.model
      BY <1>2 DEF RuntimesInv, RtGood
    <2>2. PICK m : m = ResolveManifest(r)
      OBVIOUS
    <2>3. m # None => TotalSize(m.models) \in Nat /\ TotalSize(m.mmproj) \in Nat
      BY <2>2, ResolveGood, ManifestFiles DEF CallsInv
    <2>4. PlannedSize(p) = IF m = None THEN [model |-> 0, mmproj |-> 0]
                           ELSE [model |-> TotalSize(m.models), mmproj |-> TotalSize(m.mmproj)]
      BY <1>2, <2>1, <2>2 DEF PlannedSize
    <2>. QED BY <2>3, <2>4
  <1>. QED BY <1>1, <1>2

LEMMA TunedStays ==
    ASSUME NEW r, NEW s, TunedGood(r), s.cfg = r.cfg,
           s.tuned = None \/ (s.tuned = r.tuned /\ (r.pc \in Untouched => s.pc \in Untouched))
    PROVE  TunedGood(s)
  BY DEF TunedGood, Untouched

LEMMA TunedNow ==
    ASSUME RuntimesInv, CallsInv, LockInv, FitInv, NEW p \in Procs, applyLlamaAutoTune(p)
    PROVE  TunedGood(rt'[p])
  <1>0. p \in DOMAIN rt /\ DOMAIN rt = Procs /\ DOMAIN rt[p] = RtFields
    BY DEF RuntimesInv, RtGood
  <1>1. PICK h \in Profile :
          LET rec == autoTuneLlama(p, h)
              tuned == PinnedLayers = 0 /\ PlannedSize(p).model > 0
          IN rt' = [rt EXCEPT ![p].pc = "new",
                    ![p].cfg = IF tuned THEN [model |-> @.model, ctx |-> rec.ctx, kv |-> rec.kv, layers |-> rec.layers] ELSE @,
                    ![p].tuned = IF tuned THEN [host |-> h, size |-> PlannedSize(p)] ELSE None]
    BY DEF applyLlamaAutoTune
  <1>2. PICK rec, size : rec = autoTuneLlama(p, h) /\ size = PlannedSize(p)
    OBVIOUS
  <1>3. CASE ~(PinnedLayers = 0 /\ size.model > 0)
    <2>1. rt'[p].tuned = None
      BY <1>0, <1>1, <1>2, <1>3 DEF RtFields
    <2>. QED BY <2>1 DEF TunedGood
  <1>4. CASE PinnedLayers = 0 /\ size.model > 0
    <2>1. /\ rt'[p].pc = "new" /\ rt'[p].tuned = [host |-> h, size |-> size]
          /\ rt'[p].cfg = [model |-> rt[p].cfg.model, ctx |-> rec.ctx, kv |-> rec.kv, layers |-> rec.layers]
      BY <1>0, <1>1, <1>2, <1>4 DEF RtFields
    <2>2. PICK t, c : t = rt'[p].tuned /\ c = rt'[p].cfg
      OBVIOUS
    <2>3. t.host = h /\ t.size = size /\ c.ctx = rec.ctx /\ c.kv = rec.kv /\ c.layers = rec.layers
      BY <2>1, <2>2
    <2>4. size.model \in Nat /\ size.mmproj \in Nat
      BY <1>2, PlannedNat
    <2>5. PICK a \in Nat : h = Measured(a) /\ a <= Machine.total
      BY ProfileWithin
    <2>6. h.avail = a
      BY <2>5 DEF Measured
    <2>7. h = Measured(h.avail) /\ h.avail \in 0 .. Machine.total
      BY <2>5, <2>6, TotalNat
    <2>8. rec = RecommendRuntime(h, size.model, size.mmproj, 0, NativeCtx)
      BY <1>2 DEF autoTuneLlama
    <2>9. size.model \in Nat \ {0}
      BY <1>4, <2>4
    <2>. QED BY <2>1, <2>2, <2>3, <2>4, <2>7, <2>8, <2>9 DEF TunedGood
  <1>. QED BY <1>3, <1>4

LEMMA TunedNext ==
    ASSUME RuntimesInv, CallsInv, LockInv, FitInv, TunedInv, [Next]_vars
    PROVE  TunedInv'
  <1>1. ASSUME NEW p \in Procs, RtMove(p), TunedGood(rt'[p]) PROVE TunedInv'
    BY <1>1 DEF TunedInv, RtMove
  <1>2. ASSUME NEW p \in Procs, RtMove(p), rt'[p].cfg = rt[p].cfg,
               \/ rt'[p].tuned = None
               \/ rt'[p].tuned = rt[p].tuned /\ (rt[p].pc \in Untouched => rt'[p].pc \in Untouched)
        PROVE  TunedInv'
    <2>1. PICK r, s : r = rt[p] /\ s = rt'[p]
      OBVIOUS
    <2>2. TunedGood(s)
      BY <1>2, <2>1, TunedStays DEF TunedInv
    <2>. QED BY <1>1, <1>2, <2>1, <2>2
  <1>3. ASSUME NEW p \in Procs, rt'[p].tuned = None, RtMove(p) PROVE TunedInv'
    BY <1>1, <1>3 DEF TunedGood
  <1>4. ASSUME NEW p \in Procs, Build(p) PROVE TunedInv'
    <2>0. p \in DOMAIN rt /\ DOMAIN rt = Procs /\ DOMAIN rt[p] = RtFields /\ RtMove(p)
      BY <1>4, RuntimesBuild DEF RuntimesInv, RtGood
    <2>1. CASE ReapOrphanedServers(p)
      <3>1. rt'[p].tuned = None
        BY <2>0, <2>1, NewFields DEF ReapOrphanedServers, RtFields
      <3>. QED BY <1>3, <2>0, <3>1
    <2>2. CASE waitForExit(p)
      <3>1. rt'[p].tuned = rt[p].tuned /\ rt'[p].cfg = rt[p].cfg /\ rt[p].pc \notin Untouched
        BY <2>0, <2>2 DEF waitForExit, RtFields, Untouched
      <3>. QED BY <1>2, <2>0, <3>1
    <2>3. CASE applyLlamaAutoTune(p)
      BY <1>1, <2>0, <2>3, TunedNow
    <2>4. CASE startLlamaRuntime(p)
      <3>1. rt'[p].tuned = None
        BY <2>0, <2>4, NewFields DEF startLlamaRuntime, RtFields
      <3>. QED BY <1>3, <2>0, <3>1
    <2>. QED BY <1>4, <2>1, <2>2, <2>3, <2>4 DEF Build
  <1>5. ASSUME NEW p \in Procs, Start(p) PROVE TunedInv'
    BY <1>2, <1>5, RuntimesStart, StartEffect
  <1>6. ASSUME NEW p \in Procs, reap(p) \/ CancelStart(p) \/ CloseCall(p) \/ Close(p) PROVE TunedInv'
    <2>0. p \in DOMAIN rt /\ DOMAIN rt = Procs /\ DOMAIN rt[p] = RtFields
      BY DEF RuntimesInv, RtGood
    <2>1. RtMove(p) /\ rt'[p].pc = rt[p].pc /\ rt'[p].cfg = rt[p].cfg /\ rt'[p].tuned = rt[p].tuned
      BY <1>6, <2>0 DEF reap, CancelStart, CloseCall, Close, CloseBarrier, stopCommand, RtMove, RtFields
    <2>. QED BY <1>2, <2>1
  <1>7. ASSUME NEW p \in Procs, Exit(p) \/ Crash(p) PROVE TunedInv'
    BY <1>3, <1>7, GoneMove, DownFields DEF Exit, Crash
  <1>8. CASE UNCHANGED rt
    BY <1>8 DEF TunedInv
  <1>. QED
    BY <1>4, <1>5, <1>6, <1>7, <1>8 DEF Next, ServerExits, rtVars, vars

LEMMA TunedInit == Init => TunedInv
  BY DownFields DEF Init, TunedInv, TunedGood

(* A context of the ladder times a cost per token, without overflow.          *)
LEMMA KVExact ==
    ASSUME NEW c \in ctxLadder, NEW k \in {512, 288, 160}, c * k <= MaxBytes
    PROVE  mul64(mul64(c, 1), k) = c * k
  <1>1. c \in Nat /\ c > 0 /\ c <= c * k
    BY DEF ctxLadder
  <1>2. c <= MaxBytes
    BY <1>1, MaxNat
  <1>3. 1 <= MaxBytes \div c
    BY <1>1, <1>2, MaxNat DEF ctxLadder
  <1>4. mul64(c, 1) = c
    BY <1>1, <1>2, <1>3, MaxNat DEF mul64
  <1>5. k <= MaxBytes \div c
    BY <1>1, MaxNat DEF ctxLadder
  <1>6. k <= MaxBytes
    BY <1>1, MaxNat DEF ctxLadder
  <1>. QED
    BY <1>1, <1>2, <1>4, <1>5, <1>6, MaxNat DEF mul64

(* When all of it stays below a bound that is no overflow, the estimate is     *)
(* the sum the tuner computes.                                                 *)
LEMMA EstimateExact ==
    ASSUME NEW req, NEW M \in Nat, NEW J \in Nat, NEW K \in Nat, req.model = M, req.mmproj = J,
           KVEstimate(req) = K,
           (M + J) + WeightOverhead(M + J) + Scratch(M + J) + K <= MaxBytes
    PROVE  /\ RuntimeEstimate(req) = (M + J) + WeightOverhead(M + J) + Scratch(M + J) + K
           /\ add64(req.model, req.mmproj) = M + J
  <1>1. PICK a \in Nat : a = M + J
    OBVIOUS
  <1>2. PICK w \in Nat, s \in Nat : w = WeightOverhead(a) /\ s = Scratch(a)
    BY Overheads
  <1>3. a + w + s + K <= MaxBytes
    BY <1>1, <1>2
  <1>4. add64(M, J) = a
    BY <1>1, <1>3, Add64, MaxNat
  <1>5. add64(s, K) = s + K
    BY <1>3, Add64, MaxNat
  <1>6. s + K \in Nat /\ w + (s + K) <= MaxBytes
    BY <1>3, MaxNat
  <1>7. add64(w, s + K) = w + (s + K)
    BY <1>6, Add64, MaxNat
  <1>8. w + (s + K) \in Nat /\ a + (w + (s + K)) <= MaxBytes
    BY <1>3, MaxNat
  <1>9. add64(a, w + (s + K)) = a + (w + (s + K))
    BY <1>8, Add64, MaxNat
  <1>10. RuntimeEstimate(req) = add64(a, add64(w, add64(s, K)))
    BY <1>2, <1>4 DEF RuntimeEstimate, sum64
  <1>11. RuntimeEstimate(req) = a + (w + (s + K))
    BY <1>5, <1>7, <1>9, <1>10
  <1>. QED
    BY <1>1, <1>2, <1>4, <1>11

(* Tuned by the memory of the host: no accelerator, or one that shares it.      *)
LEMMA RecommendedByRAM ==
    ASSUME NEW host, NEW M, NEW J, M # 0, host.total # 0, host.avail # 0,
           ~HasUsableGPU(host) \/ host.unified,
           fitCtxAndKV(ramSafeBudget(host), (M + J) + WeightOverhead(M + J) + Scratch(M + J),
                       effectiveCtxCeiling(0, NativeCtx)).ctx # 0
    PROVE  LET rec == RecommendRuntime(host, M, J, 0, NativeCtx)
               fit == fitCtxAndKV(ramSafeBudget(host), (M + J) + WeightOverhead(M + J) + Scratch(M + J),
                                  effectiveCtxCeiling(0, NativeCtx))
           IN rec.ctx = fit.ctx /\ rec.kv = fit.kv /\ (rec.layers = 0 \/ host.unified)
  <1>1. PICK fit : fit = fitCtxAndKV(ramSafeBudget(host), (M + J) + WeightOverhead(M + J) + Scratch(M + J),
                                     effectiveCtxCeiling(0, NativeCtx))
    OBVIOUS
  <1>2. OrElse(fit, 2048) = fit
    BY <1>1 DEF OrElse
  <1>3. CASE ~HasUsableGPU(host)
    <2>1. RecommendRuntime(host, M, J, 0, NativeCtx) = [layers |-> 0, ctx |-> fit.ctx, kv |-> fit.kv]
      BY <1>1, <1>2, <1>3 DEF RecommendRuntime
    <2>. QED BY <1>1, <2>1
  <1>4. CASE HasUsableGPU(host)
    <2>1. RecommendRuntime(host, M, J, 0, NativeCtx) = [layers |-> fullOffloadLayers, ctx |-> fit.ctx, kv |-> fit.kv]
      BY <1>1, <1>2, <1>4 DEF RecommendRuntime
    <2>. QED BY <1>1, <1>4, <2>1
  <1>. QED BY <1>3, <1>4

LEMMA TunedAdmitted ==
    ASSUME RuntimesInv, CallsInv, LockInv, FitInv, TunedInv, NEW p \in Procs, NEW h \in Profile,
           rt[p].pc = "inspect", rt[p].tuned # None,
           ~HasUsableGPU(Machine) \/ Machine.unified,
           FoundFit(rt[p].tuned.host, rt[p].tuned.size), h.avail >= rt[p].tuned.host.avail, h.disk > 0,
           rt[p].tuned.size.model = LaunchRequest(p, h).model,
           rt[p].tuned.size.mmproj = LaunchRequest(p, h).mmproj
    PROVE  InspectLocal(p, h).fits
  <1>1. PICK t, host : t = rt[p].tuned /\ host = t.host
    OBVIOUS
  <1>2. PICK M, J : M = t.size.model /\ J = t.size.mmproj
    OBVIOUS
  <1>3. M \in Nat /\ M # 0 /\ J \in Nat /\ M + J \in Nat
    BY <1>1, <1>2 DEF TunedInv, TunedGood
  <1>4. PICK a \in Nat : host = Measured(a) /\ a <= Machine.total /\ host.avail = a
    <2>1. host = Measured(host.avail) /\ host.avail \in 0 .. Machine.total
      BY <1>1 DEF TunedInv, TunedGood
    <2>. QED BY <2>1, TotalNat
  <1>5. PICK b \in Nat : h = Measured(b) /\ b <= Machine.total
    BY ProfileWithin
  <1>6. /\ host.total = Machine.total /\ host.unified = Machine.unified /\ host.gpu = Machine.gpu
        /\ host.vram = Machine.vram
        /\ h.avail = b /\ h.total = Machine.total /\ h.unified = Machine.unified
    BY <1>4, <1>5 DEF Measured
  <1>7. a <= b
    BY <1>1, <1>4, <1>6
  <1>8. PICK A \in Nat, w \in Nat, s \in Nat : A = M + J /\ w = WeightOverhead(A) /\ s = Scratch(A) /\ s > 0
    BY <1>3, Overheads
  <1>9. PICK B \in Nat : /\ B = MemoryBudget(host, 0) /\ B <= a /\ B <= MaxBytes
                         /\ MemoryBudget(h, 0) \in Nat /\ B <= MemoryBudget(h, 0)
    BY <1>4, <1>5, <1>7, BudgetGrows
  <1>10. PICK fit : fit = fitCtxAndKV(B, A + w + s, effectiveCtxCeiling(0, NativeCtx))
    OBVIOUS
  <1>11. fit.ctx # 0
    BY <1>1, <1>2, <1>8, <1>9, <1>10 DEF FoundFit, ramSafeBudget
  <1>12. PICK k : k = kvBytesPerToken(DefaultFitPolicy.kvPerToken, fit.kv)
    OBVIOUS
  <1>13. k \in {512, 288, 160} /\ fit.ctx \in ctxLadder /\ A + w + s + fit.ctx * k <= B
    BY <1>10, <1>11, <1>12, FitCtxAndKV, PerToken
  <1>14. PICK K \in Nat : K = fit.ctx * k
    BY <1>13, LadderNat, TimesNat
  <1>15. A + w + s + K <= B /\ K <= MaxBytes /\ B > 0
    BY <1>8, <1>9, <1>13, <1>14, MaxNat
  <1>16. host.avail # 0 /\ host.total # 0 /\ h.avail # 0
    BY <1>4, <1>6, <1>7, <1>9, <1>15, TotalNat
  <1>17. ~HasUsableGPU(host) \/ host.unified
    BY <1>6 DEF HasUsableGPU
  <1>18. PICK rec : rec = RecommendRuntime(host, M, J, 0, NativeCtx)
    OBVIOUS
  <1>19. rec.ctx = fit.ctx /\ rec.kv = fit.kv /\ (rec.layers = 0 \/ host.unified)
    <2>1. fit = fitCtxAndKV(ramSafeBudget(host), (M + J) + WeightOverhead(M + J) + Scratch(M + J),
                            effectiveCtxCeiling(0, NativeCtx))
      BY <1>8, <1>9, <1>10 DEF ramSafeBudget
    <2>. QED
      BY <1>3, <1>11, <1>16, <1>17, <1>18, <2>1, RecommendedByRAM
  <1>20. rt[p].cfg.ctx = rec.ctx /\ rt[p].cfg.kv = rec.kv /\ rt[p].cfg.layers = rec.layers
    BY <1>1, <1>2, <1>18 DEF TunedInv, TunedGood
  <1>21. PICK req : req = LaunchRequest(p, h)
    OBVIOUS
  <1>22. /\ req.ctx = fit.ctx /\ req.kv = fit.kv /\ req.parallel = 1 /\ req.layers = rec.layers
         /\ req.unified = Machine.unified /\ req.download = 0 /\ req.reclaimable = 0
         /\ req.model = M /\ req.mmproj = J
    BY <1>1, <1>2, <1>6, <1>19, <1>20, <1>21 DEF LaunchRequest, LaunchRequestOf
  <1>23. KVEstimate(req) = K
    BY <1>12, <1>13, <1>14, <1>15, <1>22, KVExact DEF KVEstimate
  <1>24. (M + J) + WeightOverhead(M + J) + Scratch(M + J) + K <= MaxBytes
    BY <1>8, <1>9, <1>15, MaxNat
  <1>25. RuntimeEstimate(req) = A + w + s + K /\ add64(req.model, req.mmproj) = A
    <2>1. /\ RuntimeEstimate(req) = (M + J) + WeightOverhead(M + J) + Scratch(M + J) + K
          /\ add64(req.model, req.mmproj) = M + J
      BY <1>3, <1>22, <1>23, <1>24, EstimateExact
    <2>. QED
      BY <1>8, <2>1
  <1>26. /\ RuntimeEstimate(req) # Overflow /\ ~(RuntimeEstimate(req) > MemoryBudget(h, 0))
         /\ add64(req.model, req.mmproj) # Overflow
    BY <1>8, <1>9, <1>15, <1>25, MaxNat
  <1>27. ~(req.layers >= fullOffloadLayers /\ ~req.unified)
    BY <1>6, <1>19, <1>22 DEF fullOffloadLayers
  <1>28. h.disk # 0 /\ ~(req.download > 0) /\ req.model # 0 /\ h.total # 0
    BY <1>3, <1>6, <1>16, <1>22
  <1>29. FitReasons(h, req) = {}
    BY <1>16, <1>22, <1>26, <1>27, <1>28 DEF FitReasons
  <1>. QED
    BY <1>21, <1>29 DEF InspectLocal, EstimateFitWithPolicy

-----------------------------------------------------------------------------
RuntimeInv ==
    /\ RuntimesInv /\ CallsInv /\ LockInv /\ FitInv /\ TunedInv
    /\ FilesInv /\ crashes \in Nat

(* The parts together are inductive: the files need to know where Start is, the *)
(* budget needs the lock, and the tuner needs both.                             *)
THEOREM RuntimeInvariant == Spec => []RuntimeInv
  <1>1. Init => RuntimeInv
    <2>1. Init => crashes \in Nat
      BY DEF Init
    <2>. QED
      BY <2>1, RuntimesInit, CallsInit, LockInit, FitInit, TunedInit, FilesInit DEF RuntimeInv
  <1>2. RuntimeInv /\ [Next]_vars => RuntimeInv'
    <2>1. SUFFICES ASSUME RuntimeInv, [Next]_vars PROVE RuntimeInv'
      OBVIOUS
    <2>2. RuntimesInv' /\ CallsInv'
      BY <2>1, RuntimesNext, CallsNext DEF RuntimeInv
    <2>3. LockInv' /\ FitInv' /\ TunedInv'
      BY <2>1, LockNext, FitNext, TunedNext DEF RuntimeInv
    <2>4. FilesInv' /\ crashes' \in Nat
      BY <2>1, <2>2, FilesNext, CrashesNext DEF RuntimeInv
    <2>. QED BY <2>2, <2>3, <2>4 DEF RuntimeInv
  <1>. QED
    BY <1>1, <1>2, PTL DEF Spec

(* For every machine, every set of agents and every pattern of crashes: the    *)
(* servers together never take more than the gate would let one take of the    *)
(* whole machine (reserveAdmission, the lock handed to the child).             *)
THEOREM MachineSpared == Spec => []MachineNotOvercommitted
  <1>1. RuntimeInv => MachineNotOvercommitted
    BY ResidentWithin DEF RuntimeInv, MachineNotOvercommitted, Within, Budget
  <1>. QED
    BY <1>1, RuntimeInvariant, PTL

(* A Close that returned without an error left no server of its runtime        *)
(* behind, whatever Start was doing when it was called.                        *)
THEOREM CloseStops == Spec => []ClosedMeansStopped
  <1>1. RuntimeInv => ClosedMeansStopped
    <2>1. SUFFICES ASSUME RuntimeInv, NEW p \in Procs, rt[p].close = "closed", NEW s \in Live
                   PROVE  srv[s].owner # p
      BY DEF ClosedMeansStopped
    <2>2. rt[p].cmd = None \/ rt[p].reaped
      BY <2>1 DEF RuntimeInv, RuntimesInv, RtGood
    <2>3. srv[s].owner = p => rt[p].cmd = s /\ ~rt[p].reaped
      BY <2>1 DEF RuntimeInv, LockInv
    <2>4. s # None
      BY RuntimeAssumption DEF Live
    <2>. QED BY <2>2, <2>3, <2>4
  <1>. QED
    BY <1>1, RuntimeInvariant, PTL

(* Tuner and gate count alike: what RecommendRuntime found to fit passes       *)
(* InspectLocal at the launch while no memory was lost and the files are the   *)
(* same, for every size, every machine and every cache type.                   *)
THEOREM TunerAgreesWithGate == Spec => []TunedIsAdmitted
  <1>1. RuntimeInv => TunedIsAdmitted
    <2>1. SUFFICES ASSUME RuntimeInv, NEW p \in Procs, NEW h \in Profile,
                          rt[p].pc = "inspect" /\ rt[p].tuned # None,
                          ~HasUsableGPU(Machine) \/ Machine.unified,
                          /\ FoundFit(rt[p].tuned.host, rt[p].tuned.size)
                          /\ h.avail >= rt[p].tuned.host.avail /\ h.disk > 0,
                          /\ rt[p].tuned.size.model = LaunchRequest(p, h).model
                          /\ rt[p].tuned.size.mmproj = LaunchRequest(p, h).mmproj
                   PROVE  InspectLocal(p, h).fits
      BY DEF TunedIsAdmitted
    <2>. QED
      BY <2>1, TunedAdmitted DEF RuntimeInv
  <1>. QED
    BY <1>1, RuntimeInvariant, PTL

(* Nothing but verified bytes is ever at a final path (EnsureArtifacts), for   *)
(* every number of processes, repositories and moves of a branch.              *)
THEOREM FinalsAreVerified == Spec => []FinalsVerified
  <1>1. RuntimeInv => FinalsVerified
    BY DEF RuntimeInv, FilesInv
  <1>. QED
    BY <1>1, RuntimeInvariant, PTL

(* Verified bytes survive every step but the death of a process                *)
(* (restorePartial, commitStagedFile).                                         *)
THEOREM VerifiedSurvives == Spec => VerifiedKept
  <1>1. RuntimeInv /\ RuntimeInv' /\ [Next]_vars =>
          [\A x \in Paths : Verified(x) => Verified(x)' \/ crashes' # crashes]_vars
    BY FilesNext DEF RuntimeInv, KeepsVerified
  <1>. QED
    BY <1>1, RuntimeInvariant, PTL DEF Spec, VerifiedKept

=============================================================================
