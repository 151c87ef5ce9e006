--------------------------- MODULE PipelineProofs ---------------------------
(***************************************************************************)
(* Theorems about the evidence pipeline of internal/research/pipeline, for *)
(* any number of runs, workers, signatures and interruptions.              *)
(***************************************************************************)
EXTENDS Pipeline, FiniteSetTheorems, SequenceTheorems, TLAPS

-----------------------------------------------------------------------------
(* What an ingestion has left to do. *)

Crashing == {"fuzz", "reproduce", "minimize"}

\* The rests of a plan that stores an observation, by operation.
CrashRest(op) ==
    CASE op = "fuzz" ->
           {<<"observed">>, <<"group", "observed">>, <<"list", "group", "observed">>,
            <<"crash", "list", "group", "observed">>,
            <<"start", "crash", "list", "group", "observed">>}
      [] op = "reproduce" ->
           {<<"reproduced">>, <<"group", "reproduced">>, <<"list", "group", "reproduced">>,
            <<"crash", "list", "group", "reproduced">>}
      [] op = "minimize" ->
           {<<"minimized">>, <<"shrink", "minimized">>, <<"group", "shrink", "minimized">>,
            <<"list", "group", "shrink", "minimized">>,
            <<"crash", "list", "group", "shrink", "minimized">>}

SymbolRest ==
    {<<"assessed">>, <<"finding", "assessed">>, <<"rootcaused", "finding", "assessed">>,
     <<"root", "rootcaused", "finding", "assessed">>,
     <<"symbols", "root", "rootcaused", "finding", "assessed">>}

\* t is a rest of the calls Ingest makes for a result res of op.
Rest(t, op, res) ==
    \/ t = <<>>
    \/ op = "build" /\ t = <<"ready">>
    \/ op = "fuzz" /\ res.sig = None /\ t = <<"start">>
    \/ op \in Crashing /\ res.sig # None /\ t \in CrashRest(op)
    \/ op = "symbolize" /\ t \in SymbolRest

\* The next call of a rest.
Stage(t) == IF t = <<>> THEN "end" ELSE Head(t)

LEMMA RestAdvances ==
    ASSUME NEW t, NEW op, NEW res, Rest(t, op, res), t # <<>>
    PROVE  /\ t \in Seq(Steps)
           /\ Rest(Tail(t), op, res)
           /\ Tail(t) \in Seq(Steps)
           /\ Stage(t) = "crash" => Stage(Tail(t)) = "list"
           /\ Stage(t) = "list" => Stage(Tail(t)) = "group"
           /\ Stage(t) = "group" => Stage(Tail(t)) \in {"observed", "reproduced", "shrink"}
           /\ Stage(t) = "shrink" => Stage(Tail(t)) = "minimized"
           /\ Stage(t) = "symbols" => Stage(Tail(t)) = "root"
           /\ Stage(t) = "root" => Stage(Tail(t)) = "rootcaused"
           /\ Stage(t) = "rootcaused" => Stage(Tail(t)) = "finding"
           /\ Stage(t) = "finding" => Stage(Tail(t)) = "assessed"
           /\ Stage(t) = "start" => Stage(Tail(t)) \in {"end", "crash"}
           /\ Stage(t) \in {"ready", "observed", "reproduced", "minimized", "assessed"} =>
                 Tail(t) = <<>>
           /\ Stage(t) \in {"crash", "list", "group", "observed", "reproduced", "shrink",
                            "minimized"} => op \in Crashing /\ res.sig # None
           /\ Stage(t) = "reproduced" => op = "reproduce"
           /\ Stage(t) = "shrink" => op = "minimize"
           /\ Stage(t) \in {"symbols", "root", "rootcaused", "finding", "assessed"} =>
                 op = "symbolize"
<1>1. CASE op = "build" /\ t = <<"ready">>
  BY <1>1 DEF Rest, Stage, Steps
<1>2. CASE op = "fuzz" /\ res.sig = None /\ t = <<"start">>
  BY <1>2 DEF Rest, Stage, Steps
<1>3. CASE op = "fuzz" /\ res.sig # None /\ t \in CrashRest(op)
  <2>1. CASE t = <<"observed">>
    BY <1>3, <2>1 DEF Rest, Stage, Steps, CrashRest, Crashing
  <2>2. CASE t = <<"group", "observed">>
    BY <1>3, <2>2 DEF Rest, Stage, Steps, CrashRest, Crashing
  <2>3. CASE t = <<"list", "group", "observed">>
    BY <1>3, <2>3 DEF Rest, Stage, Steps, CrashRest, Crashing
  <2>4. CASE t = <<"crash", "list", "group", "observed">>
    BY <1>3, <2>4 DEF Rest, Stage, Steps, CrashRest, Crashing
  <2>5. CASE t = <<"start", "crash", "list", "group", "observed">>
    BY <1>3, <2>5 DEF Rest, Stage, Steps, CrashRest, Crashing
  <2>. QED  BY <1>3, <2>1, <2>2, <2>3, <2>4, <2>5 DEF CrashRest
<1>4. CASE op = "reproduce" /\ res.sig # None /\ t \in CrashRest(op)
  <2>1. CASE t = <<"reproduced">>
    BY <1>4, <2>1 DEF Rest, Stage, Steps, CrashRest, Crashing
  <2>2. CASE t = <<"group", "reproduced">>
    BY <1>4, <2>2 DEF Rest, Stage, Steps, CrashRest, Crashing
  <2>3. CASE t = <<"list", "group", "reproduced">>
    BY <1>4, <2>3 DEF Rest, Stage, Steps, CrashRest, Crashing
  <2>4. CASE t = <<"crash", "list", "group", "reproduced">>
    BY <1>4, <2>4 DEF Rest, Stage, Steps, CrashRest, Crashing
  <2>. QED  BY <1>4, <2>1, <2>2, <2>3, <2>4 DEF CrashRest
<1>5. CASE op = "minimize" /\ res.sig # None /\ t \in CrashRest(op)
  <2>1. CASE t = <<"minimized">>
    BY <1>5, <2>1 DEF Rest, Stage, Steps, CrashRest, Crashing
  <2>2. CASE t = <<"shrink", "minimized">>
    BY <1>5, <2>2 DEF Rest, Stage, Steps, CrashRest, Crashing
  <2>3. CASE t = <<"group", "shrink", "minimized">>
    BY <1>5, <2>3 DEF Rest, Stage, Steps, CrashRest, Crashing
  <2>4. CASE t = <<"list", "group", "shrink", "minimized">>
    BY <1>5, <2>4 DEF Rest, Stage, Steps, CrashRest, Crashing
  <2>5. CASE t = <<"crash", "list", "group", "shrink", "minimized">>
    BY <1>5, <2>5 DEF Rest, Stage, Steps, CrashRest, Crashing
  <2>. QED  BY <1>5, <2>1, <2>2, <2>3, <2>4, <2>5 DEF CrashRest
<1>6. CASE op = "symbolize" /\ t \in SymbolRest
  <2>1. CASE t = <<"assessed">>
    BY <1>6, <2>1 DEF Rest, Stage, Steps, SymbolRest
  <2>2. CASE t = <<"finding", "assessed">>
    BY <1>6, <2>2 DEF Rest, Stage, Steps, SymbolRest
  <2>3. CASE t = <<"rootcaused", "finding", "assessed">>
    BY <1>6, <2>3 DEF Rest, Stage, Steps, SymbolRest
  <2>4. CASE t = <<"root", "rootcaused", "finding", "assessed">>
    BY <1>6, <2>4 DEF Rest, Stage, Steps, SymbolRest
  <2>5. CASE t = <<"symbols", "root", "rootcaused", "finding", "assessed">>
    BY <1>6, <2>5 DEF Rest, Stage, Steps, SymbolRest
  <2>. QED  BY <1>6, <2>1, <2>2, <2>3, <2>4, <2>5 DEF SymbolRest
<1>. QED  BY <1>1, <1>2, <1>3, <1>4, <1>5, <1>6 DEF Rest, Crashing

-----------------------------------------------------------------------------
(* The inductive invariant. *)

\* A run that ended has a result of its operation, and what it was given comes
\* from a run that ended before.
RunShaped(r) ==
    /\ run[r].op = None => run[r].res = Pending
    /\ Ended(r) => run[r].res \in Results(run[r].op)
    /\ run[r].op \in {"reproduce", "minimize", "symbolize"} =>
          run[r].input \in Runs /\ Ended(run[r].input)
    /\ run[r].op = "symbolize" => run[run[r].input].op \in Crashing

RunsShaped == \A r \in Runs : RunShaped(r)

\* A worker ingests a run that ended and is somewhere in its plan.
WorkerShaped(w) ==
    /\ work[w].run = None => work[w] = Idle
    /\ work[w].run # None =>
          /\ Ended(work[w].run)
          /\ Rest(work[w].todo, run[work[w].run].op, run[work[w].run].res)

WorkShaped == \A w \in Workers : WorkerShaped(w)

\* A stored observation belongs to an ended run with a signature.
CrashesShaped ==
    \A o \in crashes : Ended(o) /\ run[o].op \in Crashing /\ run[o].res.sig \in Sigs

PipeShape == TypeOK /\ RunsShaped /\ WorkShaped /\ CrashesShaped

\* The stored observations of a signature.
Stored(s) == {o \in crashes : run[o].res.sig = s}

\* Groups hold stored observations of their signature only.
GroupsBacked == \A s \in Sigs : groups[s].members \subseteq Stored(s)

\* So does the copy of a group that an ingestion goes on with, and an ingestion
\* about to mark the campaign reproduced has counted enough attempts in it.
CopyBacked(w) ==
    LET at == Stage(work[w].todo) IN
    /\ at \in {"list", "group", "observed", "reproduced", "shrink", "minimized"} =>
          work[w].run \in crashes
    /\ at \in {"root", "rootcaused", "finding", "assessed"} =>
          run[work[w].run].input \in crashes
    /\ at \in {"group", "reproduced", "shrink", "root"} =>
          work[w].copy.members \subseteq Stored(SigOf(work[w].run))
    /\ at = "reproduced" /\ work[w].swap => ~TooFew(w)

CopiesBacked == \A w \in Workers : CopyBacked(w)

PipeInv == PipeShape /\ GroupsBacked /\ CopiesBacked /\ ReproducedBacked

\* With one worker no copy misses what the stored group has.
CopyFresh(w) ==
    LET at == Stage(work[w].todo) IN
    /\ at \in {"group", "shrink", "root"} =>
          groups[SigOf(work[w].run)].members \subseteq work[w].copy.members
    /\ at = "group" => work[w].run \in work[w].copy.members

CopiesFresh == \A w \in Workers : CopyFresh(w)

\* An observation that is not in its group yet is being ingested.
Grouped ==
    faults = 0 =>
        \A o \in crashes :
            \/ o \in groups[run[o].res.sig].members
            \/ \E w \in Workers :
                  work[w].run = o /\ Stage(work[w].todo) \in {"list", "group"}

-----------------------------------------------------------------------------
(* Records. *)

Result == [sig : Sigs \cup {None},
           out : {"pending", "none", "binary", "stack", "shrunk", "grown"}]
RunRec == [op : Operations \cup {None}, input : Runs \cup {None}, res : Result]
WorkRec == [run : Runs \cup {None}, todo : Seq(Steps), copy : Group, swap : BOOLEAN]

LEMMA TypeParts ==
    TypeOK <=> /\ campaign \in States /\ run \in [Runs -> RunRec]
               /\ crashes \in SUBSET Runs /\ groups \in [Sigs -> Group]
               /\ findings \in SUBSET Sigs /\ work \in [Workers -> WorkRec]
               /\ faults \in 0 .. MaxFaults
  BY DEF TypeOK, RunRec, Result, WorkRec

LEMMA ResultTypes ==
    \A op \in Operations : \A res \in Results(op) :
        /\ res \in Result /\ res # Pending
        /\ op \in {"build", "symbolize"} => res.sig = None
        /\ res.sig # None => res.sig \in Sigs
  BY DEF Operations, Results, Result, Pending

LEMMA IdleType == /\ Idle \in WorkRec /\ Idle.run = None /\ Stage(Idle.todo) = "end"
                  /\ NoGroup \in Group
  BY DEF Idle, WorkRec, NoGroup, Group, Stage

\* Ingest's next store call, and the worker's record after it.
LEMMA ContinueFacts ==
    ASSUME PipeShape, NEW w \in Workers, work[w].run # None, work[w].todo # <<>>
    PROVE  /\ Continue(w) \in WorkRec
           /\ Continue(w).run = work[w].run /\ Continue(w).todo = Tail(work[w].todo)
           /\ Continue(w).copy = work[w].copy /\ Continue(w).swap = FALSE
           /\ Rest(Tail(work[w].todo), run[work[w].run].op, run[work[w].run].res)
<1>1. work[w] \in WorkRec
  BY TypeParts DEF PipeShape
<1>2. Rest(work[w].todo, run[work[w].run].op, run[work[w].run].res)
  BY DEF PipeShape, WorkShaped, WorkerShaped
<1>3. /\ Rest(Tail(work[w].todo), run[work[w].run].op, run[work[w].run].res)
      /\ Tail(work[w].todo) \in Seq(Steps)
  BY <1>2, RestAdvances
<1>4. /\ Continue(w) \in WorkRec
      /\ Continue(w).run = work[w].run /\ Continue(w).todo = Tail(work[w].todo)
      /\ Continue(w).copy = work[w].copy /\ Continue(w).swap = FALSE
  <2>. PICK x \in WorkRec, y \in Seq(Steps) : x = work[w] /\ y = Tail(work[w].todo)
    BY <1>1, <1>3
  <2>. DEFINE z == [x EXCEPT !.todo = y, !.swap = FALSE]
  <2>1. /\ z \in WorkRec
        /\ z.run = x.run /\ z.todo = y /\ z.copy = x.copy /\ z.swap = FALSE
    BY DEF WorkRec
  <2>2. z = Continue(w)
    BY DEF Continue
  <2>. QED  BY <2>1, <2>2
<1>. QED  BY <1>3, <1>4

-----------------------------------------------------------------------------
(* What every step keeps. *)

\* A result is never replaced.
KeepsRuns == \A o \in Runs : Ended(o) => run'[o] = run[o]

LEMMA SigKept ==
    ASSUME PipeShape, KeepsRuns, NEW r \in Runs, Ended(r)
    PROVE  SigOf(r)' = SigOf(r) /\ Ended(r)'
<1>1. run'[r] = run[r]
  BY DEF KeepsRuns
<1>2. run[r].op = "symbolize" => run'[run[r].input] = run[run[r].input]
  BY DEF KeepsRuns, PipeShape, RunsShaped, RunShaped
<1>. QED  BY <1>1, <1>2 DEF SigOf, Ended

\* Stored observations stay, with their signature and their input.
LEMMA StoredKept ==
    ASSUME PipeShape, KeepsRuns, crashes \subseteq crashes'
    PROVE  /\ \A s : Stored(s) \subseteq Stored(s)'
           /\ \A s, i : Reproductions(s, i) \subseteq Reproductions(s, i)'
<1>1. \A o \in crashes : o \in crashes' /\ run'[o] = run[o]
  BY TypeParts DEF PipeShape, CrashesShaped, KeepsRuns
<1>. QED  BY <1>1 DEF Stored, Reproductions, ObservedInput

LEMMA CopyKept ==
    ASSUME PipeShape, KeepsRuns, crashes \subseteq crashes', NEW v \in Workers,
           work'[v] = work[v], CopyBacked(v)
    PROVE  CopyBacked(v)'
<1>. DEFINE at == Stage(work[v].todo)
<1>0. work[v] \in WorkRec
  BY TypeParts DEF PipeShape
<1>1. CASE work[v].run = None
  <2>1. at = "end"
    BY <1>1, IdleType DEF PipeShape, WorkShaped, WorkerShaped
  <2>. QED  BY <2>1 DEF CopyBacked
<1>2. CASE work[v].run # None
  <2>. PICK x \in Runs : x = work[v].run
    BY <1>0, <1>2 DEF WorkRec
  <2>1. Ended(x) /\ run'[x] = run[x] /\ SigOf(x)' = SigOf(x)
    BY <1>2, SigKept DEF PipeShape, WorkShaped, WorkerShaped, KeepsRuns
  <2>2. \A s : Stored(s) \subseteq Stored(s)'
    BY StoredKept
  <2>3. at = "reproduced" => attempts(v)' = attempts(v)
    <3>. SUFFICES ASSUME at = "reproduced" PROVE attempts(v)' = attempts(v)
      OBVIOUS
    <3>1. \A o \in work[v].copy.members : run'[o] = run[o]
      BY TypeParts DEF CopyBacked, Stored, PipeShape, CrashesShaped, KeepsRuns
    <3>. QED  BY <3>1, <2>1 DEF attempts, ObservedInput
  <2>4. at \in {"group", "reproduced", "shrink", "root"} =>
            work'[v].copy.members \subseteq Stored(SigOf(x))'
    BY <2>1, <2>2 DEF CopyBacked
  <2>. QED  BY <2>1, <2>3, <2>4 DEF CopyBacked, TooFew
<1>. QED  BY <1>1, <1>2

\* The positions of the states in the chain.
LEMMA RankOf ==
    /\ Rank("acquired") = 1 /\ Rank("build_ready") = 2 /\ Rank("fuzzing") = 3
    /\ Rank("crash_observed") = 4 /\ Rank("reproduced") = 5 /\ Rank("minimized") = 6
    /\ Rank("root_caused") = 7 /\ Rank("primitive_assessed") = 8
<1>1. DOMAIN Chain = 1 .. 8
  BY DEF Chain
<1>. QED  BY <1>1 DEF Rank, Chain

ChainStates == {"acquired", "build_ready", "fuzzing", "crash_observed",
                "reproduced", "minimized", "root_caused", "primitive_assessed"}

LEMMA StatesAre == States = ChainStates \cup {"stopped"}
<1>1. DOMAIN Chain = 1 .. 8
  BY DEF Chain
<1>2. {Chain[i] : i \in 1 .. 8} = ChainStates
  BY DEF Chain, ChainStates
<1>. QED  BY <1>1, <1>2 DEF States

\* Enough reproductions stay enough.
LEMMA BackedKept ==
    ASSUME PipeShape, KeepsRuns, crashes \subseteq crashes', crashes' \in SUBSET Runs,
           ReproducedBacked, Reached("reproduced")' => Reached("reproduced")
    PROVE  ReproducedBacked'
<1>. SUFFICES ASSUME Reached("reproduced") PROVE ReproducedBacked'
  BY DEF ReproducedBacked
<1>1. PICK s \in Sigs, i \in Runs : Cardinality(Reproductions(s, i)) >= MinimumReproductions
  BY DEF ReproducedBacked
<1>2. IsFiniteSet(Runs)
  BY FS_Interval, PipelineAssumption DEF Runs
<1>3. /\ Reproductions(s, i) \in SUBSET Reproductions(s, i)'
      /\ Reproductions(s, i)' \in SUBSET Runs
  BY StoredKept DEF Reproductions
<1>4. IsFiniteSet(Reproductions(s, i)')
  BY <1>2, <1>3, FS_Subset
<1>5. /\ IsFiniteSet(Reproductions(s, i))
      /\ Cardinality(Reproductions(s, i)) <= Cardinality(Reproductions(s, i)')
  BY <1>3, <1>4, FS_Subset
<1>6. Cardinality(Reproductions(s, i)) \in Nat /\ Cardinality(Reproductions(s, i)') \in Nat
  BY <1>4, <1>5, FS_CardinalityType
<1>7. Cardinality(Reproductions(s, i)') >= MinimumReproductions
  BY <1>1, <1>5, <1>6, PipelineAssumption
<1>. QED  BY <1>7 DEF ReproducedBacked

-----------------------------------------------------------------------------
(* The steps of Ingest in general. *)

\* What one step of an ingestion may do to the worker and to the store.
IngestStep(w, z) ==
    /\ z \in WorkRec /\ work' = [work EXCEPT ![w] = z]
    /\ \/ z = Idle
       \/ z.run # None /\ z.run = work[w].run /\ Rest(z.todo, run[z.run].op, run[z.run].res)
    /\ run' = run /\ campaign' \in States
    /\ crashes' \in SUBSET Runs /\ crashes \subseteq crashes'
    /\ \A o \in crashes' \ crashes :
          Ended(o) /\ run[o].op \in Crashing /\ run[o].res.sig \in Sigs
    /\ groups' \in [Sigs -> Group] /\ findings' \in SUBSET Sigs
    /\ faults' \in 0 .. MaxFaults

LEMMA IngestShape ==
    ASSUME PipeShape, NEW w \in Workers, NEW z, IngestStep(w, z)
    PROVE  PipeShape' /\ KeepsRuns
<1>. USE DEF PipeShape, IngestStep
<1>0. work \in [Workers -> WorkRec]
  BY TypeParts
<1>1. run' \in [Runs -> RunRec] /\ work' \in [Workers -> WorkRec]
  BY <1>0, TypeParts
<1>2. TypeOK'
  BY <1>1 DEF TypeOK, RunRec, Result, WorkRec
<1>3. RunsShaped' /\ KeepsRuns
  BY DEF RunsShaped, RunShaped, Ended, KeepsRuns
<1>4. WorkShaped'
  <2>. SUFFICES ASSUME NEW v \in Workers PROVE WorkerShaped(v)'
    BY DEF WorkShaped
  <2>1. CASE v = w
    BY <2>1, <1>0, IdleType DEF WorkShaped, WorkerShaped, Ended
  <2>2. CASE v # w
    BY <2>2, <1>0 DEF WorkShaped, WorkerShaped, Ended
  <2>. QED  BY <2>1, <2>2
<1>5. CrashesShaped'
  BY DEF CrashesShaped, Ended
<1>. QED  BY <1>2, <1>3, <1>4, <1>5

LEMMA IngestInv ==
    ASSUME PipeInv, NEW w \in Workers, NEW z, IngestStep(w, z),
           GroupsBacked', CopyBacked(w)',
           (Reached("reproduced")' => Reached("reproduced")) \/ ReproducedBacked'
    PROVE  PipeInv'
<1>1. PipeShape' /\ KeepsRuns
  BY IngestShape DEF PipeInv
<1>2. crashes \subseteq crashes' /\ crashes' \in SUBSET Runs
  BY DEF IngestStep
<1>3. CopiesBacked'
  <2>. SUFFICES ASSUME NEW v \in Workers PROVE CopyBacked(v)'
    BY DEF CopiesBacked
  <2>1. CASE v = w
    BY <2>1
  <2>2. CASE v # w
    <3>1. work'[v] = work[v]
      BY <2>2, TypeParts DEF IngestStep, PipeInv, PipeShape
    <3>. QED  BY <1>1, <1>2, <3>1, CopyKept DEF PipeInv, CopiesBacked
  <2>. QED  BY <2>1, <2>2
<1>4. ReproducedBacked'
  BY <1>1, <1>2, BackedKept DEF PipeInv
<1>. QED  BY <1>1, <1>3, <1>4 DEF PipeInv

\* The record of a worker that goes on with its plan is backed when what the
\* step stored or read is.
LEMMA CopyStep ==
    ASSUME PipeInv, NEW w \in Workers, NEW z, IngestStep(w, z),
           work[w].run # None, work[w].todo # <<>>,
           z.run = work[w].run, z.todo = Tail(work[w].todo), z.swap = FALSE,
           At(w, "crash") => work[w].run \in crashes',
           At(w, "symbols") => run[work[w].run].input \in crashes',
           At(w, "list") \/ At(w, "symbols") =>
               z.copy.members \subseteq Stored(SigOf(work[w].run)),
           ~(At(w, "list") \/ At(w, "symbols")) => z.copy = work[w].copy
    PROVE  CopyBacked(w)'
<1>. PICK x \in Runs : x = work[w].run
  BY TypeParts DEF PipeInv, PipeShape, WorkRec
<1>. PICK s : s = SigOf(x)
  OBVIOUS
<1>1. work'[w] = z /\ run' = run /\ crashes \subseteq crashes'
  BY TypeParts DEF PipeInv, PipeShape, IngestStep
<1>2. Rest(work[w].todo, run[x].op, run[x].res)
  BY DEF PipeInv, PipeShape, WorkShaped, WorkerShaped
<1>3. SigOf(x)' = s
  BY <1>1 DEF SigOf
<1>4. KeepsRuns /\ Stored(s) \subseteq Stored(s)'
  BY <1>1, IngestShape, StoredKept DEF PipeInv
<1>5. CopyBacked(w)
  BY DEF PipeInv, CopiesBacked
<1>. DEFINE at == Stage(work[w].todo)
            to == Stage(Tail(work[w].todo))
<1>6. /\ at = "crash" <=> At(w, "crash")
      /\ at = "list" <=> At(w, "list")
      /\ at = "symbols" <=> At(w, "symbols")
  BY DEF Stage, At
<1>7. at \in Steps
  BY <1>2, RestAdvances, HeadTailProperties DEF Stage
<1>8. /\ at = "crash" => to = "list"
      /\ at = "list" => to = "group"
      /\ at = "group" => to \in {"observed", "reproduced", "shrink"}
      /\ at = "shrink" => to = "minimized"
      /\ at = "symbols" => to = "root"
      /\ at = "root" => to = "rootcaused"
      /\ at = "rootcaused" => to = "finding"
      /\ at = "finding" => to = "assessed"
      /\ at = "start" => to \in {"end", "crash"}
      /\ at \in {"ready", "observed", "reproduced", "minimized", "assessed"} => to = "end"
  BY <1>2, RestAdvances DEF Stage
<1>. HIDE DEF at, to
<1>9. to \in {"list", "group", "observed", "reproduced", "shrink", "minimized"} =>
          x \in crashes'
  BY <1>1, <1>5, <1>6, <1>7, <1>8 DEF CopyBacked, Steps, at
<1>10. to \in {"root", "rootcaused", "finding", "assessed"} => run[x].input \in crashes'
  BY <1>1, <1>5, <1>6, <1>7, <1>8 DEF CopyBacked, Steps, at
<1>11. to \in {"group", "reproduced", "shrink", "root"} =>
          z.copy.members \subseteq Stored(s)'
  <2>1. to \in {"group", "reproduced", "shrink", "root"} => at \in {"list", "group", "symbols"}
    BY <1>7, <1>8 DEF Steps
  <2>2. at = "group" => work[w].copy.members \subseteq Stored(s)
    BY <1>5 DEF CopyBacked, at
  <2>. QED  BY <2>1, <2>2, <1>4, <1>6
<1>. QED  BY <1>1, <1>3, <1>9, <1>10, <1>11 DEF CopyBacked, to

LEMMA TypeFacts ==
    ASSUME PipeInv
    PROVE  /\ campaign \in States /\ crashes \in SUBSET Runs
           /\ groups \in [Sigs -> Group] /\ findings \in SUBSET Sigs
           /\ work \in [Workers -> WorkRec] /\ faults \in 0 .. MaxFaults
  BY TypeParts DEF PipeInv, PipeShape

LEMMA GroupsKept ==
    ASSUME PipeInv, KeepsRuns, crashes \subseteq crashes', groups' = groups
    PROVE  GroupsBacked'
  BY StoredKept DEF PipeInv, GroupsBacked

\* A worker that ends its ingestion has nothing to answer for.
LEMMA IdleStep ==
    ASSUME PipeInv, NEW w \in Workers, work' = [work EXCEPT ![w] = Idle],
           UNCHANGED <<run, crashes, groups, findings>>,
           campaign' = campaign, faults' \in 0 .. MaxFaults
    PROVE  PipeInv'
<1>1. IngestStep(w, Idle)
  <2>1. run' = run /\ crashes' = crashes /\ groups' = groups /\ findings' = findings
    OBVIOUS
  <2>2. campaign' \in States /\ groups' \in [Sigs -> Group] /\ findings' \in SUBSET Sigs
    BY <2>1, TypeFacts
  <2>3. crashes' \in SUBSET Runs
    BY <2>1, TypeFacts
  <2>. QED  BY <2>1, <2>2, <2>3, IdleType DEF IngestStep
<1>2. work'[w] = Idle
  BY TypeParts DEF PipeInv, PipeShape
<1>3. CopyBacked(w)'
  BY <1>2, IdleType DEF CopyBacked
<1>4. GroupsBacked'
  BY <1>1, IngestShape, GroupsKept DEF PipeInv
<1>5. Reached("reproduced")' => Reached("reproduced")
  BY DEF Reached
<1>. QED  BY <1>1, <1>3, <1>4, <1>5, IngestInv

\* A store call after which the worker goes on, and that reads nothing.
LEMMA ContinueStep ==
    ASSUME PipeInv, NEW w \in Workers, work[w].run # None, work[w].todo # <<>>,
           work' = [work EXCEPT ![w] = Continue(w)],
           ~(At(w, "list") \/ At(w, "symbols")),
           At(w, "crash") => work[w].run \in crashes',
           run' = run, campaign' \in States,
           crashes' \in SUBSET Runs, crashes \subseteq crashes',
           \A o \in crashes' \ crashes :
               Ended(o) /\ run[o].op \in Crashing /\ run[o].res.sig \in Sigs,
           groups' \in [Sigs -> Group], findings' \in SUBSET Sigs, faults' = faults,
           GroupsBacked',
           (Reached("reproduced")' => Reached("reproduced")) \/ ReproducedBacked'
    PROVE  PipeInv'
<1>1. /\ Continue(w) \in WorkRec
      /\ Continue(w).run = work[w].run /\ Continue(w).todo = Tail(work[w].todo)
      /\ Continue(w).copy = work[w].copy /\ Continue(w).swap = FALSE
      /\ Rest(Tail(work[w].todo), run[work[w].run].op, run[work[w].run].res)
  BY ContinueFacts DEF PipeInv
<1>. PICK z : z = Continue(w)
  OBVIOUS
<1>2. IngestStep(w, z)
  BY <1>1, TypeParts DEF IngestStep, PipeInv, PipeShape
<1>3. CopyBacked(w)'
  BY <1>1, <1>2, CopyStep
<1>. QED  BY <1>2, <1>3, IngestInv

Advancing == {"ready", "start", "observed", "reproduced", "minimized", "rootcaused", "assessed"}

LEMMA AdvanceReadStep ==
    ASSUME PipeInv, NEW w \in Workers, NEW step \in Advancing, At(w, step), NEW from,
           AdvanceRead(w, from), step = "reproduced" => ~TooFew(w)
    PROVE  PipeInv'
<1>0. /\ work[w].run # None /\ work[w].todo # <<>> /\ Stage(work[w].todo) = step
      /\ ~(At(w, "list") \/ At(w, "symbols")) /\ ~At(w, "crash")
  BY DEF At, Stage, Advancing
<1>1. UNCHANGED <<campaign, run, crashes, groups, findings, faults>>
  BY DEF AdvanceRead
<1>2. GroupsBacked' /\ (Reached("reproduced")' => Reached("reproduced"))
  BY <1>1, GroupsKept DEF Reached, KeepsRuns
<1>3. CASE campaign # from
  <2>1. work' = [work EXCEPT ![w] = Continue(w)]
    BY <1>3 DEF AdvanceRead
  <2>. QED  BY <1>0, <1>1, <1>2, <2>1, ContinueStep, TypeFacts
<1>4. CASE campaign = from
  <2>. PICK y \in WorkRec : y = work[w]
    BY TypeParts DEF PipeInv, PipeShape
  <2>. DEFINE z == [y EXCEPT !.swap = TRUE]
  <2>1. z \in WorkRec /\ z.run = y.run /\ z.todo = y.todo /\ z.copy = y.copy
    BY DEF WorkRec
  <2>2. work' = [work EXCEPT ![w] = z]
    BY <1>4 DEF AdvanceRead
  <2>. HIDE DEF z
  <2>3. IngestStep(w, z)
    <3>1. Rest(y.todo, run[y.run].op, run[y.run].res)
      BY <1>0 DEF PipeInv, PipeShape, WorkShaped, WorkerShaped
    <3>. QED  BY <1>0, <1>1, <2>1, <2>2, <3>1, TypeFacts DEF IngestStep
  <2>4. work'[w] = z
    BY <2>2, TypeParts DEF PipeInv, PipeShape
  <2>5. TooFew(w)' <=> TooFew(w)
    BY <1>1, <2>1, <2>4 DEF TooFew, attempts, ObservedInput
  <2>6. CopyBacked(w)
    BY DEF PipeInv, CopiesBacked
  <2>7. CopyBacked(w)'
    BY <1>0, <1>1, <2>1, <2>4, <2>5, <2>6 DEF CopyBacked, Stored, SigOf
  <2>. QED  BY <1>2, <2>3, <2>7, IngestInv
<1>. QED  BY <1>3, <1>4

LEMMA AdvanceSwapStep ==
    ASSUME PipeInv, NEW w \in Workers, NEW step \in Advancing, At(w, step),
           NEW from, NEW to \in ChainStates, AdvanceSwap(w, from, to),
           (Reached("reproduced")' => Reached("reproduced")) \/ ReproducedBacked'
    PROVE  PipeInv'
<1>0. /\ work[w].run # None /\ work[w].todo # <<>> /\ Stage(work[w].todo) = step
      /\ ~(At(w, "list") \/ At(w, "symbols")) /\ ~At(w, "crash")
  BY DEF At, Stage, Advancing
<1>1. /\ UNCHANGED <<run, crashes, groups, findings, faults>>
      /\ campaign' \in States
  BY StatesAre, TypeParts DEF AdvanceSwap, PipeInv, PipeShape
<1>2. GroupsBacked'
  BY <1>1, GroupsKept DEF KeepsRuns
<1>3. CASE campaign \in {from, to}
  <2>1. work' = [work EXCEPT ![w] = Continue(w)]
    BY <1>3 DEF AdvanceSwap
  <2>. QED  BY <1>0, <1>1, <1>2, <2>1, ContinueStep, TypeFacts
<1>4. CASE campaign \notin {from, to}
  <2>1. work' = [work EXCEPT ![w] = Idle] /\ campaign' = campaign
    BY <1>4 DEF AdvanceSwap
  <2>. QED  BY <1>1, <2>1, IdleStep, TypeFacts
<1>. QED  BY <1>3, <1>4

-----------------------------------------------------------------------------
(* The steps of Ingest one by one. *)

LEMMA ReturnStep ==
    ASSUME PipeInv, NEW w \in Workers, Return(w)
    PROVE  PipeInv'
  BY IdleStep, TypeFacts DEF Return

LEMMA CutOffStep ==
    ASSUME PipeInv, NEW w \in Workers, CutOff(w)
    PROVE  PipeInv'
<1>1. faults' \in 0 .. MaxFaults
  BY TypeFacts, PipelineAssumption DEF CutOff
<1>. QED  BY <1>1, IdleStep DEF CutOff

\* A transition that does not reach Reproduced needs no more reproductions.
LEMMA PlainAdvance ==
    ASSUME PipeInv, NEW w \in Workers, NEW step \in Advancing \ {"reproduced"}, At(w, step),
           NEW from \in ChainStates, NEW to \in ChainStates,
           Rank(to) >= 5 => Rank(from) >= 5, advanceCampaign(w, from, to)
    PROVE  PipeInv'
<1>1. CASE AdvanceRead(w, from)
  BY <1>1, AdvanceReadStep
<1>2. CASE AdvanceSwap(w, from, to)
  <2>1. campaign' \in {campaign, to} /\ (campaign' # campaign => campaign = from)
    BY <1>2 DEF AdvanceSwap
  <2>2. from # "stopped" /\ to # "stopped"
    BY DEF ChainStates
  <2>3. Reached("reproduced")' => Reached("reproduced")
    BY <2>1, <2>2, RankOf DEF Reached
  <2>. QED  BY <1>2, <2>3, AdvanceSwapStep
<1>. QED  BY <1>1, <1>2 DEF advanceCampaign

LEMMA AdvanceSteps ==
    ASSUME PipeInv, NEW w \in Workers,
           \/ BuildReady(w) \/ FuzzStarted(w) \/ CrashObserved(w)
           \/ Minimized(w) \/ RootCaused(w) \/ Assessed(w)
    PROVE  PipeInv'
<1>. USE PlainAdvance, RankOf DEF Advancing, ChainStates
<1>1. CASE BuildReady(w)
  BY <1>1 DEF BuildReady
<1>2. CASE FuzzStarted(w)
  BY <1>2 DEF FuzzStarted
<1>3. CASE CrashObserved(w)
  BY <1>3 DEF CrashObserved
<1>4. CASE Minimized(w)
  BY <1>4 DEF Minimized
<1>5. CASE RootCaused(w)
  BY <1>5 DEF RootCaused
<1>6. CASE Assessed(w)
  BY <1>6 DEF Assessed
<1>. QED  BY <1>1, <1>2, <1>3, <1>4, <1>5, <1>6

\* The attempts of an ingestion are stored reproductions of its signature from
\* its input.
LEMMA AttemptsStored ==
    ASSUME PipeInv, NEW w \in Workers, At(w, "reproduced"), ~TooFew(w)
    PROVE  \E s \in Sigs, i \in Runs :
               Cardinality(Reproductions(s, i)) >= MinimumReproductions
<1>. PICK x \in Runs : x = work[w].run
  BY TypeFacts DEF At, WorkRec
<1>1. Rest(work[w].todo, run[x].op, run[x].res) /\ Ended(x) /\ run[x] \in RunRec
  BY TypeParts DEF PipeInv, PipeShape, WorkShaped, WorkerShaped, At
<1>2. run[x].op = "reproduce" /\ run[x].res.sig # None
  BY <1>1, RestAdvances DEF At, Stage
<1>3. run[x].input \in Runs /\ run[x].res.sig \in Sigs
  BY <1>1, <1>2 DEF PipeInv, PipeShape, RunsShaped, RunShaped, RunRec, Result
<1>. DEFINE s == run[x].res.sig
            i == run[x].input
<1>4. work[w].copy.members \subseteq Stored(s)
  BY <1>2 DEF PipeInv, CopiesBacked, CopyBacked, At, Stage, SigOf
<1>5. attempts(w) \in SUBSET Reproductions(s, i)
  BY <1>4 DEF attempts, Stored, Reproductions
<1>6. IsFiniteSet(Reproductions(s, i))
  <2>1. IsFiniteSet(Runs)
    BY FS_Interval, PipelineAssumption DEF Runs
  <2>2. Reproductions(s, i) \in SUBSET Runs
    BY TypeFacts DEF Reproductions
  <2>. QED  BY <2>1, <2>2, FS_Subset
<1>7. /\ Cardinality(attempts(w)) <= Cardinality(Reproductions(s, i))
      /\ Cardinality(attempts(w)) \in Nat /\ Cardinality(Reproductions(s, i)) \in Nat
  BY <1>5, <1>6, FS_Subset, FS_CardinalityType
<1>8. Cardinality(Reproductions(s, i)) >= MinimumReproductions
  BY <1>7, PipelineAssumption DEF TooFew
<1>. QED  BY <1>3, <1>8

LEMMA ReproducedStep ==
    ASSUME PipeInv, NEW w \in Workers, Reproduced(w)
    PROVE  PipeInv'
<1>0. At(w, "reproduced") /\ "reproduced" \in Advancing /\ "reproduced" \in ChainStates
  BY DEF Reproduced, Advancing, ChainStates
<1>1. CASE ~work[w].swap /\ TooFew(w)
  <2>1. /\ work' = [work EXCEPT ![w] = Continue(w)]
        /\ UNCHANGED <<campaign, run, crashes, groups, findings, faults>>
    BY <1>1 DEF Reproduced
  <2>2. GroupsBacked' /\ (Reached("reproduced")' => Reached("reproduced"))
    BY <2>1, GroupsKept DEF Reached, KeepsRuns
  <2>3. /\ work[w].run # None /\ work[w].todo # <<>>
        /\ ~(At(w, "list") \/ At(w, "symbols")) /\ ~At(w, "crash")
    BY <1>0 DEF At
  <2>. QED  BY <2>1, <2>2, <2>3, ContinueStep, TypeFacts
<1>2. CASE AdvanceRead(w, "crash_observed") /\ ~TooFew(w)
  BY <1>0, <1>2, AdvanceReadStep
<1>3. CASE AdvanceSwap(w, "crash_observed", "reproduced")
  <2>1. ~TooFew(w)
    BY <1>0, <1>3 DEF AdvanceSwap, PipeInv, CopiesBacked, CopyBacked, At, Stage
  <2>2. PICK s \in Sigs, i \in Runs :
            Cardinality(Reproductions(s, i)) >= MinimumReproductions
    BY <1>0, <2>1, AttemptsStored
  <2>3. Reproductions(s, i)' = Reproductions(s, i)
    BY <1>3 DEF AdvanceSwap, Reproductions, ObservedInput
  <2>4. ReproducedBacked'
    BY <2>2, <2>3 DEF ReproducedBacked
  <2>. QED  BY <1>0, <1>3, <2>4, AdvanceSwapStep
<1>. QED  BY <1>1, <1>2, <1>3 DEF Reproduced, advanceCampaign, AdvanceRead

\* Where an ingestion stores or reads a group it has a signature.
LEMMA StageSig ==
    ASSUME PipeInv, NEW w \in Workers, NEW step, At(w, step)
    PROVE  /\ work[w] \in WorkRec /\ work[w].run \in Runs /\ Ended(work[w].run)
           /\ work[w].todo # <<>> /\ Stage(work[w].todo) = step
           /\ step \in {"crash", "list", "group", "shrink"} =>
                 /\ SigOf(work[w].run) = run[work[w].run].res.sig
                 /\ SigOf(work[w].run) \in Sigs /\ run[work[w].run].op \in Crashing
           /\ step \in {"symbols", "root", "finding"} => run[work[w].run].op = "symbolize"
           /\ step \in {"root", "finding"} => SigOf(work[w].run) \in Sigs
<1>. PICK x \in Runs : x = work[w].run
  BY TypeFacts DEF At, WorkRec
<1>1. /\ Rest(work[w].todo, run[x].op, run[x].res) /\ Ended(x) /\ run[x] \in RunRec
      /\ Stage(work[w].todo) = step /\ work[w].todo # <<>> /\ work[w] \in WorkRec
  BY TypeParts DEF PipeInv, PipeShape, WorkShaped, WorkerShaped, At, Stage
<1>2. step \in {"crash", "list", "group", "shrink"} =>
          run[x].op \in Crashing /\ run[x].res.sig # None
  BY <1>1, RestAdvances
<1>3. step \in {"symbols", "root", "finding"} => run[x].op = "symbolize"
  BY <1>1, RestAdvances
<1>4. step \in {"root", "finding"} => SigOf(x) \in Sigs
  BY <1>1, <1>3 DEF PipeInv, CopiesBacked, CopyBacked, PipeShape, CrashesShaped, SigOf
<1>5. run[x].op \in Crashing /\ run[x].res.sig # None =>
          SigOf(x) = run[x].res.sig /\ SigOf(x) \in Sigs
  BY <1>1 DEF SigOf, Crashing, RunRec, Result
<1>. QED  BY <1>1, <1>2, <1>3, <1>4, <1>5

LEMMA SaveCrashStep ==
    ASSUME PipeInv, NEW w \in Workers, SaveCrash(w)
    PROVE  PipeInv'
<1>1. /\ At(w, "crash") /\ work' = [work EXCEPT ![w] = Continue(w)]
      /\ crashes' = crashes \cup {work[w].run}
      /\ UNCHANGED <<campaign, run, groups, findings, faults>>
  BY DEF SaveCrash
<1>2. /\ work[w].run \in Runs /\ Ended(work[w].run) /\ run[work[w].run].op \in Crashing
      /\ run[work[w].run].res.sig \in Sigs /\ work[w].todo # <<>> /\ work[w].run # None
      /\ ~(At(w, "list") \/ At(w, "symbols"))
  BY <1>1, StageSig DEF At
<1>3. crashes \subseteq crashes' /\ crashes' \in SUBSET Runs
  BY <1>1, <1>2, TypeFacts
<1>4. GroupsBacked' /\ (Reached("reproduced")' => Reached("reproduced"))
  BY <1>1, <1>3, GroupsKept DEF Reached, KeepsRuns
<1>. QED  BY <1>1, <1>2, <1>3, <1>4, ContinueStep, TypeFacts

\* A step that replaces one group by stored observations of its signature.
LEMMA GroupStep ==
    ASSUME PipeInv, NEW w \in Workers, NEW step \in {"group", "shrink", "root"}, At(w, step),
           NEW g \in Group, g.members = work[w].copy.members,
           groups' = [groups EXCEPT ![SigOf(work[w].run)] = g],
           work' = [work EXCEPT ![w] = Continue(w)],
           UNCHANGED <<campaign, run, crashes, findings, faults>>
    PROVE  PipeInv'
<1>. PICK s \in Sigs : s = SigOf(work[w].run)
  BY StageSig
<1>1. /\ work[w].run # None /\ work[w].todo # <<>>
      /\ ~(At(w, "list") \/ At(w, "symbols")) /\ ~At(w, "crash")
  BY DEF At
<1>2. g.members \subseteq Stored(s)
  BY StageSig DEF PipeInv, CopiesBacked, CopyBacked
<1>3. GroupsBacked'
  <2>1. \A q : Stored(q)' = Stored(q)
    BY DEF Stored
  <2>2. \A q \in Sigs : groups'[q] = IF q = s THEN g ELSE groups[q]
    BY TypeFacts
  <2>. QED  BY <1>2, <2>1, <2>2 DEF PipeInv, GroupsBacked
<1>4. Reached("reproduced")' => Reached("reproduced")
  BY DEF Reached
<1>5. groups' \in [Sigs -> Group]
  BY TypeFacts
<1>. QED  BY <1>1, <1>3, <1>4, <1>5, ContinueStep, TypeFacts

LEMMA SaveCrashGroupStep ==
    ASSUME PipeInv, NEW w \in Workers, SaveCrashGroup(w)
    PROVE  PipeInv'
<1>1. At(w, "group") /\ work[w].copy \in Group
  BY StageSig DEF SaveCrashGroup, WorkRec
<1>. QED  BY <1>1, GroupStep DEF SaveCrashGroup

LEMMA SaveRootCauseStep ==
    ASSUME PipeInv, NEW w \in Workers, SaveRootCause(w)
    PROVE  PipeInv'
<1>1. At(w, "root") /\ work[w].copy \in Group
  BY StageSig DEF SaveRootCause, WorkRec
<1>. DEFINE g == [work[w].copy EXCEPT !.root = TRUE]
<1>2. g \in Group /\ g.members = work[w].copy.members
  BY <1>1 DEF Group
<1>. HIDE DEF g
<1>3. groups' = [groups EXCEPT ![SigOf(work[w].run)] = g]
  BY DEF SaveRootCause, g
<1>. QED  BY <1>1, <1>2, <1>3, GroupStep DEF SaveRootCause

LEMMA SaveMinimizedStep ==
    ASSUME PipeInv, NEW w \in Workers, SaveMinimized(w)
    PROVE  PipeInv'
<1>1. /\ At(w, "shrink") /\ work[w] \in WorkRec /\ work[w].copy \in Group
      /\ work[w].run \in Runs /\ work[w].run # None
  BY StageSig DEF SaveMinimized, WorkRec, At
<1>2. CASE MinimizationFacts(w)
  <2>. DEFINE g == [work[w].copy EXCEPT !.minimized = work[w].run]
  <2>1. g \in Group /\ g.members = work[w].copy.members
    BY <1>1 DEF Group
  <2>2. /\ groups' = [groups EXCEPT ![SigOf(work[w].run)] = g]
        /\ work' = [work EXCEPT ![w] = Continue(w)]
    BY <1>2 DEF SaveMinimized
  <2>. HIDE DEF g
  <2>. QED  BY <1>1, <2>1, <2>2, GroupStep DEF SaveMinimized
<1>3. CASE ~MinimizationFacts(w)
  <2>. PICK y \in WorkRec : y = work[w]
    BY <1>1
  <2>. DEFINE z == [y EXCEPT !.todo = <<>>]
  <2>0. <<>> \in Seq(Steps)
    OBVIOUS
  <2>1. z \in WorkRec /\ z.run = y.run /\ z.todo = <<>>
    BY <2>0 DEF WorkRec
  <2>2. work' = [work EXCEPT ![w] = z] /\ groups' = groups
    BY <1>3 DEF SaveMinimized
  <2>3. UNCHANGED <<campaign, run, crashes, findings, faults>>
    BY DEF SaveMinimized
  <2>. HIDE DEF z
  <2>4. IngestStep(w, z)
    BY <1>1, <2>1, <2>2, <2>3, TypeFacts DEF IngestStep, Rest
  <2>5. CopyBacked(w)'
    BY <2>1, <2>2, TypeFacts DEF CopyBacked, Stage
  <2>6. GroupsBacked' /\ (Reached("reproduced")' => Reached("reproduced"))
    BY <2>2, <2>3, GroupsKept DEF Reached, KeepsRuns
  <2>. QED  BY <2>4, <2>5, <2>6, IngestInv
<1>. QED  BY <1>2, <1>3

LEMMA FindingStep ==
    ASSUME PipeInv, NEW w \in Workers, savePrimitiveFinding(w)
    PROVE  PipeInv'
<1>1. /\ At(w, "finding") /\ work' = [work EXCEPT ![w] = Continue(w)]
      /\ findings' = findings \cup {SigOf(work[w].run)}
      /\ UNCHANGED <<campaign, run, crashes, groups, faults>>
  BY DEF savePrimitiveFinding
<1>2. /\ work[w].run # None /\ work[w].todo # <<>>
      /\ ~(At(w, "list") \/ At(w, "symbols")) /\ ~At(w, "crash")
  BY <1>1 DEF At
<1>3. GroupsBacked' /\ (Reached("reproduced")' => Reached("reproduced"))
  BY <1>1, GroupsKept DEF Reached, KeepsRuns
<1>4. findings' \in SUBSET Sigs
  BY <1>1, StageSig, TypeFacts
<1>. QED  BY <1>1, <1>2, <1>3, <1>4, ContinueStep, TypeFacts

\* A step that takes a copy of a group and goes on.
LEMMA CopyReadStep ==
    ASSUME PipeInv, NEW w \in Workers, NEW step \in {"list", "symbols"}, At(w, step),
           NEW g \in Group, g.members \subseteq Stored(SigOf(work[w].run)),
           step = "symbols" => run[work[w].run].input \in crashes,
           work' = [work EXCEPT ![w] = [Continue(w) EXCEPT !.copy = g]],
           UNCHANGED <<campaign, run, crashes, groups, findings, faults>>
    PROVE  PipeInv'
<1>1. /\ work[w].run # None /\ work[w].todo # <<>> /\ ~At(w, "crash")
      /\ At(w, "symbols") => step = "symbols"
  BY DEF At
<1>2. /\ Continue(w) \in WorkRec
      /\ Continue(w).run = work[w].run /\ Continue(w).todo = Tail(work[w].todo)
      /\ Continue(w).swap = FALSE
      /\ Rest(Tail(work[w].todo), run[work[w].run].op, run[work[w].run].res)
  BY <1>1, ContinueFacts DEF PipeInv
<1>. DEFINE z == [Continue(w) EXCEPT !.copy = g]
<1>3. /\ z \in WorkRec /\ z.run = work[w].run /\ z.todo = Tail(work[w].todo)
      /\ z.swap = FALSE /\ z.copy = g
  BY <1>2 DEF WorkRec
<1>4. work' = [work EXCEPT ![w] = z]
  OBVIOUS
<1>. HIDE DEF z
<1>5. IngestStep(w, z)
  BY <1>1, <1>2, <1>3, <1>4, TypeFacts DEF IngestStep
<1>6. CopyBacked(w)'
  BY <1>1, <1>3, <1>5, CopyStep
<1>7. GroupsBacked' /\ (Reached("reproduced")' => Reached("reproduced"))
  BY GroupsKept DEF Reached, KeepsRuns
<1>. QED  BY <1>5, <1>6, <1>7, IngestInv

LEMMA ReadGroupStep ==
    ASSUME PipeInv, NEW w \in Workers, ReadGroup(w)
    PROVE  PipeInv'
<1>. PICK x \in Runs : x = work[w].run
  BY StageSig DEF ReadGroup
<1>1. At(w, "list") /\ SigOf(x) \in Sigs /\ SigOf(x) = run[x].res.sig /\ x \in crashes
  BY StageSig DEF ReadGroup, PipeInv, CopiesBacked, CopyBacked
<1>. DEFINE g == AddToGroup(groups[SigOf(x)], x)
<1>2. groups[SigOf(x)] \in Group
  BY <1>1, TypeFacts
<1>3. g \in Group /\ g.members = groups[SigOf(x)].members \cup {x}
  BY <1>2 DEF AddToGroup, Group
<1>4. g.members \subseteq Stored(SigOf(x))
  BY <1>1, <1>3 DEF PipeInv, GroupsBacked, Stored
<1>5. work' = [work EXCEPT ![w] = [Continue(w) EXCEPT !.copy = g]]
  BY DEF ReadGroup
<1>. HIDE DEF g
<1>. QED  BY <1>1, <1>3, <1>4, <1>5, CopyReadStep DEF ReadGroup

LEMMA ReadSymbolsStep ==
    ASSUME PipeInv, NEW w \in Workers, ReadSymbols(w)
    PROVE  PipeInv'
<1>. PICK x \in Runs : x = work[w].run
  BY StageSig DEF ReadSymbols
<1>. DEFINE g == groups[SigOf(x)]
            found == run[x].input \in crashes /\ Exists(g)
<1>1. CASE found
  <2>1. At(w, "symbols") /\ run[x].op = "symbolize"
    BY StageSig DEF ReadSymbols
  <2>2. SigOf(x) \in Sigs
    BY <1>1, <2>1 DEF SigOf, PipeInv, PipeShape, CrashesShaped
  <2>3. g \in Group /\ g.members \subseteq Stored(SigOf(x))
    BY <2>2, TypeFacts DEF PipeInv, GroupsBacked
  <2>4. work' = [work EXCEPT ![w] = [Continue(w) EXCEPT !.copy = g]]
    BY <1>1 DEF ReadSymbols
  <2>. HIDE DEF g
  <2>. QED  BY <1>1, <2>1, <2>3, <2>4, CopyReadStep DEF ReadSymbols
<1>2. CASE ~found
  <2>1. work' = [work EXCEPT ![w] = Idle]
    BY <1>2 DEF ReadSymbols
  <2>. QED  BY <2>1, IdleStep, TypeFacts DEF ReadSymbols
<1>. QED  BY <1>1, <1>2

-----------------------------------------------------------------------------
(* The other steps. *)

\* The store calls of a result start outside the part that needs a group.
FullPlan(t, op, res) ==
    \/ t = <<>>
    \/ op = "build" /\ t = <<"ready">>
    \/ op = "fuzz" /\ res.sig = None /\ t = <<"start">>
    \/ op = "fuzz" /\ res.sig # None /\ t = <<"start", "crash", "list", "group", "observed">>
    \/ op = "reproduce" /\ res.sig # None /\ t = <<"crash", "list", "group", "reproduced">>
    \/ op = "minimize" /\ res.sig # None /\ t = <<"crash", "list", "group", "shrink", "minimized">>
    \/ op = "symbolize" /\ t = <<"symbols", "root", "rootcaused", "finding", "assessed">>

LEMMA FullPlanRest ==
    ASSUME NEW t, NEW op, NEW res, FullPlan(t, op, res)
    PROVE  /\ Rest(t, op, res) /\ t \in Seq(Steps)
           /\ Stage(t) \in {"end", "ready", "start", "crash", "symbols"}
<1>0. CASE t = <<>>
  BY <1>0 DEF Rest, Stage
<1>1. CASE op = "build" /\ t = <<"ready">>
  BY <1>1 DEF Rest, Stage, Steps
<1>2. CASE op = "fuzz" /\ res.sig = None /\ t = <<"start">>
  BY <1>2 DEF Rest, Stage, Steps
<1>3. CASE op = "fuzz" /\ res.sig # None /\ t = <<"start", "crash", "list", "group", "observed">>
  BY <1>3 DEF Rest, Stage, Steps, Crashing, CrashRest
<1>4. CASE op = "reproduce" /\ res.sig # None /\ t = <<"crash", "list", "group", "reproduced">>
  BY <1>4 DEF Rest, Stage, Steps, Crashing, CrashRest
<1>5. CASE op = "minimize" /\ res.sig # None /\ t = <<"crash", "list", "group", "shrink", "minimized">>
  BY <1>5 DEF Rest, Stage, Steps, Crashing, CrashRest
<1>6. CASE op = "symbolize" /\ t = <<"symbols", "root", "rootcaused", "finding", "assessed">>
  BY <1>6 DEF Rest, Stage, Steps, SymbolRest
<1>. QED  BY <1>0, <1>1, <1>2, <1>3, <1>4, <1>5, <1>6 DEF FullPlan

LEMMA PlanRest ==
    ASSUME NEW op \in Operations, NEW res \in Results(op)
    PROVE  /\ Rest(Plan(op, res), op, res) /\ Plan(op, res) \in Seq(Steps)
           /\ Stage(Plan(op, res)) \in {"end", "ready", "start", "crash", "symbols"}
<1>1. FullPlan(Plan(op, res), op, res)
  BY DEF Operations, Plan, FullPlan
<1>. QED  BY <1>1, FullPlanRest

\* A step that adds a run or a result changes nothing that is stored.
LEMMA RunStep ==
    ASSUME PipeInv, KeepsRuns, run' \in [Runs -> RunRec], RunsShaped',
           work' \in [Workers -> WorkRec], WorkShaped',
           \A v \in Workers : work'[v] = work[v] \/
               Stage(work'[v].todo) \in {"end", "ready", "start", "crash", "symbols"},
           UNCHANGED <<campaign, crashes, groups, findings, faults>>
    PROVE  PipeInv'
<1>1. TypeOK'
  BY TypeFacts DEF TypeOK, RunRec, Result, WorkRec
<1>2. CrashesShaped'
  BY TypeFacts DEF PipeInv, PipeShape, CrashesShaped, KeepsRuns, Ended
<1>3. GroupsBacked'
  BY GroupsKept
<1>4. CopiesBacked'
  <2>. SUFFICES ASSUME NEW v \in Workers PROVE CopyBacked(v)'
    BY DEF CopiesBacked
  <2>1. CASE work'[v] = work[v]
    BY <2>1, CopyKept DEF PipeInv, CopiesBacked
  <2>2. CASE Stage(work'[v].todo) \in {"end", "ready", "start", "crash", "symbols"}
    BY <2>2 DEF CopyBacked
  <2>. QED  BY <2>1, <2>2
<1>5. ReproducedBacked'
  BY BackedKept, TypeFacts DEF PipeInv, Reached
<1>. QED  BY <1>1, <1>2, <1>3, <1>4, <1>5 DEF PipeInv, PipeShape

\* What a worker ingests stays as it is when results are never replaced.
LEMMA WorkKept ==
    ASSUME PipeInv, KeepsRuns, NEW v \in Workers, work'[v] = work[v]
    PROVE  WorkerShaped(v)'
<1>1. CASE work[v].run # None
  <2>1. work[v].run \in Runs /\ Ended(work[v].run)
    BY <1>1, TypeFacts DEF PipeInv, PipeShape, WorkShaped, WorkerShaped, WorkRec
  <2>2. run'[work[v].run] = run[work[v].run]
    BY <2>1 DEF KeepsRuns
  <2>. QED  BY <1>1, <2>1, <2>2 DEF PipeInv, PipeShape, WorkShaped, WorkerShaped, Ended
<1>. QED  BY <1>1 DEF PipeInv, PipeShape, WorkShaped, WorkerShaped

LEMMA EnqueueStep ==
    ASSUME PipeInv, NEW r \in Runs, NEW op \in Operations, NEW input \in Runs \cup {None},
           Enqueue(r, op, input)
    PROVE  PipeInv'
<1>. DEFINE new == [op |-> op, input |-> input, res |-> Pending]
<1>0. /\ run[r] = Absent /\ input \in evidenceRoleAllowed(op)
      /\ run' = [run EXCEPT ![r] = new]
      /\ UNCHANGED <<campaign, crashes, groups, findings, work, faults>>
  BY DEF Enqueue
<1>1. run \in [Runs -> RunRec]
  BY TypeParts DEF PipeInv, PipeShape
<1>2. new \in RunRec
  BY DEF RunRec, Result, Pending
<1>3. new.op = op /\ new.input = input /\ new.res = Pending
  OBVIOUS
<1>. HIDE DEF new
<1>4. run' \in [Runs -> RunRec] /\ run'[r] = new /\ \A q \in Runs : q # r => run'[q] = run[q]
  BY <1>0, <1>1, <1>2
<1>5. ~Ended(r)
  BY <1>0 DEF Ended, Absent
<1>6. KeepsRuns
  BY <1>4, <1>5 DEF KeepsRuns
<1>7. /\ op \in {"reproduce", "minimize", "symbolize"} => input \in Runs /\ Ended(input)
      /\ op = "symbolize" => run[input].op \in Crashing
  BY <1>0 DEF evidenceRoleAllowed, Crashing
<1>8. RunsShaped'
  <2>. SUFFICES ASSUME NEW q \in Runs PROVE RunShaped(q)'
    BY DEF RunsShaped
  <2>1. \A i \in Runs : Ended(i) => run'[i] = run[i] /\ Ended(i)'
    BY <1>6 DEF KeepsRuns, Ended
  <2>2. CASE q = r
    BY <2>1, <2>2, <1>3, <1>4, <1>7 DEF RunShaped, Ended
  <2>3. CASE q # r
    BY <2>1, <2>3, <1>4 DEF PipeInv, PipeShape, RunsShaped, RunShaped, Ended
  <2>. QED  BY <2>2, <2>3
<1>9. WorkShaped'
  BY <1>0, <1>6, WorkKept DEF WorkShaped, WorkerShaped
<1>. QED  BY <1>0, <1>4, <1>6, <1>8, <1>9, RunStep, TypeFacts

LEMMA ExecuteStep ==
    ASSUME PipeInv, NEW w \in Workers, NEW r \in Runs, Execute(w, r)
    PROVE  PipeInv'
<1>. PICK res \in Results(run[r].op) :
        /\ run' = [run EXCEPT ![r].res = res]
        /\ work' = [work EXCEPT ![w] = [Idle EXCEPT !.run = r, !.todo = Plan(run[r].op, res)]]
  BY DEF Execute
<1>0. /\ run[r].op # None /\ run[r].res = Pending /\ work[w] = Idle
      /\ UNCHANGED <<campaign, crashes, groups, findings, faults>>
  BY DEF Execute
<1>1. run \in [Runs -> RunRec] /\ run[r] \in RunRec /\ work \in [Workers -> WorkRec]
  BY TypeParts DEF PipeInv, PipeShape
<1>2. run[r].op \in Operations
  BY <1>0, <1>1 DEF RunRec
<1>3. res \in Result /\ res # Pending
  BY <1>2, ResultTypes
<1>. DEFINE new == [run[r] EXCEPT !.res = res]
            z == [Idle EXCEPT !.run = r, !.todo = Plan(run[r].op, res)]
<1>4. /\ new \in RunRec /\ new.op = run[r].op /\ new.input = run[r].input /\ new.res = res
  BY <1>1, <1>3 DEF RunRec
<1>5. z \in WorkRec /\ z.run = r /\ z.todo = Plan(run[r].op, res)
  BY <1>2, PlanRest, IdleType DEF WorkRec, Idle
<1>6. run' = [run EXCEPT ![r] = new] /\ work' = [work EXCEPT ![w] = z]
  OBVIOUS
<1>. HIDE DEF new, z
<1>7. /\ run' \in [Runs -> RunRec] /\ run'[r] = new
      /\ \A q \in Runs : q # r => run'[q] = run[q]
      /\ work' \in [Workers -> WorkRec] /\ work'[w] = z
      /\ \A v \in Workers : v # w => work'[v] = work[v]
  BY <1>1, <1>4, <1>5, <1>6
<1>8. KeepsRuns
  BY <1>0, <1>7 DEF KeepsRuns, Ended
<1>9. \A i \in Runs : Ended(i) => run'[i] = run[i] /\ Ended(i)'
  BY <1>8 DEF KeepsRuns, Ended
<1>10. RunsShaped'
  <2>. SUFFICES ASSUME NEW q \in Runs PROVE RunShaped(q)'
    BY DEF RunsShaped
  <2>2. CASE q = r
    BY <2>2, <1>0, <1>4, <1>7, <1>9 DEF PipeInv, PipeShape, RunsShaped, RunShaped, Ended
  <2>3. CASE q # r
    BY <2>3, <1>7, <1>9 DEF PipeInv, PipeShape, RunsShaped, RunShaped, Ended
  <2>. QED  BY <2>2, <2>3
<1>11. WorkShaped'
  <2>. SUFFICES ASSUME NEW v \in Workers PROVE WorkerShaped(v)'
    BY DEF WorkShaped
  <2>1. CASE v = w
    <3>1. r # None
      BY PipelineAssumption DEF Runs
    <3>. QED  BY <2>1, <3>1, <1>0, <1>2, <1>3, <1>4, <1>5, <1>7, PlanRest DEF WorkerShaped, Ended
  <2>2. CASE v # w
    BY <2>2, <1>7, <1>8, WorkKept
  <2>. QED  BY <2>1, <2>2
<1>12. Stage(work'[w].todo) \in {"end", "ready", "start", "crash", "symbols"}
  BY <1>2, <1>5, <1>7, PlanRest
<1>. QED  BY <1>0, <1>7, <1>8, <1>10, <1>11, <1>12, RunStep

LEMMA StopStep ==
    ASSUME PipeInv, Stop
    PROVE  PipeInv'
<1>1. campaign' \in States /\ UNCHANGED <<run, crashes, groups, findings, work, faults>>
  BY StatesAre DEF Stop
<1>2. PipeShape'
  BY <1>1 DEF PipeInv, PipeShape, TypeOK, RunsShaped, RunShaped, WorkShaped, WorkerShaped, CrashesShaped, Ended
<1>3. GroupsBacked' /\ CopiesBacked'
  <2>1. KeepsRuns
    BY <1>1 DEF KeepsRuns
  <2>. QED  BY <1>1, <2>1, GroupsKept, CopyKept DEF PipeInv, CopiesBacked
<1>4. ReproducedBacked'
  BY DEF Stop, ReproducedBacked, Reached
<1>. QED  BY <1>2, <1>3, <1>4 DEF PipeInv

LEMMA PipeUnchanged == PipeInv /\ UNCHANGED vars => PipeInv'
<1>. SUFFICES ASSUME PipeInv, UNCHANGED vars PROVE PipeInv'
  OBVIOUS
<1>1. PipeShape'
  BY DEF vars, PipeInv, PipeShape, TypeOK, RunsShaped, RunShaped, WorkShaped, WorkerShaped, CrashesShaped, Ended
<1>2. KeepsRuns /\ UNCHANGED <<campaign, crashes, groups, work>>
  BY DEF vars, KeepsRuns
<1>3. GroupsBacked' /\ CopiesBacked'
  BY <1>2, GroupsKept, CopyKept DEF PipeInv, CopiesBacked
<1>4. ReproducedBacked'
  BY <1>2, BackedKept, TypeFacts DEF PipeInv, Reached
<1>. QED  BY <1>1, <1>3, <1>4 DEF PipeInv

-----------------------------------------------------------------------------
(* The theorems. *)

LEMMA PipeInit == Init => PipeInv
<1>. SUFFICES ASSUME Init PROVE PipeInv
  OBVIOUS
<1>1. Absent \in RunRec /\ Absent.op = None /\ Absent.res = Pending
  BY DEF Absent, RunRec, Result, Pending
<1>2. /\ campaign = "acquired" /\ crashes = {} /\ findings = {} /\ faults = 0
      /\ run = [r \in Runs |-> Absent] /\ groups = [s \in Sigs |-> NoGroup]
      /\ work = [w \in Workers |-> Idle]
  BY DEF Init
<1>3. TypeOK
  <2>1. campaign \in States
    BY <1>2, StatesAre DEF ChainStates
  <2>2. faults \in 0 .. MaxFaults
    BY <1>2, PipelineAssumption
  <2>. QED  BY <1>1, <1>2, <2>1, <2>2, IdleType, TypeParts
<1>4. RunsShaped /\ WorkShaped /\ CrashesShaped
  BY <1>1, <1>2, IdleType, OperationAssumption
     DEF RunsShaped, RunShaped, WorkShaped, WorkerShaped, CrashesShaped, Ended, Operations
<1>5. GroupsBacked /\ CopiesBacked
  BY <1>2, IdleType DEF GroupsBacked, CopiesBacked, CopyBacked, NoGroup
<1>6. ReproducedBacked
  BY <1>2, RankOf DEF ReproducedBacked, Reached
<1>. QED  BY <1>3, <1>4, <1>5, <1>6 DEF PipeInv, PipeShape

LEMMA PipeNext == PipeInv /\ [Next]_vars => PipeInv'
<1>. SUFFICES ASSUME PipeInv, [Next]_vars PROVE PipeInv'
  OBVIOUS
<1>1. CASE \E r \in Runs, op \in Operations, input \in Runs \cup {None} : Enqueue(r, op, input)
  BY <1>1, EnqueueStep
<1>2. CASE \E w \in Workers, r \in Runs : Execute(w, r)
  BY <1>2, ExecuteStep
<1>3. ASSUME NEW w \in Workers, Ingest(w) PROVE PipeInv'
  BY <1>3, ReturnStep, AdvanceSteps, SaveCrashStep, ReadGroupStep, SaveCrashGroupStep,
     ReproducedStep, SaveMinimizedStep, ReadSymbolsStep, SaveRootCauseStep, FindingStep
     DEF Ingest
<1>4. ASSUME NEW w \in Workers, CutOff(w) PROVE PipeInv'
  BY <1>4, CutOffStep
<1>5. CASE Stop
  BY <1>5, StopStep
<1>6. CASE UNCHANGED vars
  BY <1>6, PipeUnchanged
<1>. QED  BY <1>1, <1>2, <1>3, <1>4, <1>5, <1>6 DEF Next

LEMMA PipeAlways == Spec => []PipeInv
<1>. QED  BY PipeInit, PipeNext, PTL DEF Spec

\* Every variable of the pipeline keeps its type, and every worker is somewhere
\* in the plan of calls of the run it ingests.
THEOREM PipelineTyped == Spec => []PipeShape
<1>1. PipeInv => PipeShape
  BY DEF PipeInv
<1>. QED  BY <1>1, PipeAlways, PTL

\* A campaign past Reproduced rests on at least MinimumReproductions stored
\* observations of one signature from one input (advanceReproduction), for any
\* number of workers, whatever was ingested late, concurrently or cut off.
THEOREM ReproductionBacked == Spec => []ReproducedBacked
<1>1. PipeInv => ReproducedBacked
  BY DEF PipeInv
<1>. QED  BY <1>1, PipeAlways, PTL

\* advanceCampaign changes the campaign by one state forward or not at all.
LEMMA AdvanceOrdered ==
    ASSUME NEW w, NEW from, NEW to, advanceCampaign(w, from, to),
           from # "stopped", Rank(to) = Rank(from) + 1, campaign' # campaign
    PROVE  campaign # "stopped" /\ Rank(campaign') = Rank(campaign) + 1
  BY DEF advanceCampaign, AdvanceRead, AdvanceSwap

LEMMA IngestOrdered ==
    ASSUME NEW w, Ingest(w), campaign' # campaign
    PROVE  campaign # "stopped" /\ Rank(campaign') = Rank(campaign) + 1
<1>. USE RankOf, AdvanceOrdered
<1>1. CASE BuildReady(w) \/ FuzzStarted(w) \/ CrashObserved(w)
  BY <1>1 DEF BuildReady, FuzzStarted, CrashObserved
<1>2. CASE Minimized(w) \/ RootCaused(w) \/ Assessed(w)
  BY <1>2 DEF Minimized, RootCaused, Assessed
<1>3. CASE Reproduced(w)
  BY <1>3 DEF Reproduced
<1>4. CASE Return(w) \/ SaveCrash(w) \/ ReadGroup(w) \/ SaveCrashGroup(w)
  BY <1>4 DEF Return, SaveCrash, ReadGroup, SaveCrashGroup
<1>5. CASE \/ SaveMinimized(w) \/ ReadSymbols(w) \/ SaveRootCause(w)
           \/ savePrimitiveFinding(w)
  BY <1>5 DEF SaveMinimized, ReadSymbols, SaveRootCause, savePrimitiveFinding
<1>. QED  BY <1>1, <1>2, <1>3, <1>4, <1>5 DEF Ingest

\* A result that is ingested late, twice or by several workers at once neither
\* undoes the operator's stop nor moves the campaign backwards or over a state
\* (advanceCampaign and the version check of UpdateCampaign).
THEOREM PipelineOrdered == Spec => EvidenceInOrder
<1>1. [Next]_vars => [campaign' # campaign =>
          /\ campaign # "stopped"
          /\ campaign' = "stopped" \/ Rank(campaign') = Rank(campaign) + 1]_vars
  <2>. SUFFICES ASSUME [Next]_vars, campaign' # campaign
                PROVE  /\ campaign # "stopped"
                       /\ campaign' = "stopped" \/ Rank(campaign') = Rank(campaign) + 1
    OBVIOUS
  <2>1. CASE \E w \in Workers : Ingest(w)
    BY <2>1, IngestOrdered
  <2>2. CASE \E w \in Workers : CutOff(w)
    BY <2>2 DEF CutOff
  <2>3. CASE \E r \in Runs, op \in Operations, input \in Runs \cup {None} : Enqueue(r, op, input)
    BY <2>3 DEF Enqueue
  <2>4. CASE \E w \in Workers, r \in Runs : Execute(w, r)
    BY <2>4 DEF Execute
  <2>5. CASE Stop
    BY <2>5 DEF Stop
  <2>6. CASE UNCHANGED vars
    BY <2>6 DEF vars
  <2>. QED  BY <2>1, <2>2, <2>3, <2>4, <2>5, <2>6 DEF Next
<1>. QED  BY <1>1, PTL DEF Spec, EvidenceInOrder

-----------------------------------------------------------------------------
(* One worker for the campaign. *)

OneWorker == \A v, w \in Workers : v = w

SoleInv == CopiesFresh /\ Grouped

\* The observations are unchanged and the worker neither leaves the part of its
\* plan that adds one to its group, nor enters a part that uses a copy.
LEMMA SoleQuiet ==
    ASSUME PipeInv, SoleInv, OneWorker, NEW w \in Workers,
           KeepsRuns, crashes' = crashes, groups' = groups, faults' = faults,
           Stage(work[w].todo) \notin {"list", "group"},
           Stage(work'[w].todo) \notin {"group", "shrink", "root"}
    PROVE  SoleInv'
<1>1. CopiesFresh'
  BY DEF OneWorker, CopiesFresh, CopyFresh
<1>2. Grouped'
  <2>. SUFFICES ASSUME faults = 0, NEW o \in crashes
                PROVE  o \in groups'[run'[o].res.sig].members
    BY DEF Grouped
  <2>1. run'[o] = run[o]
    BY TypeFacts DEF PipeInv, PipeShape, CrashesShaped, KeepsRuns
  <2>2. o \in groups[run[o].res.sig].members
    BY DEF SoleInv, Grouped, OneWorker
  <2>. QED  BY <2>1, <2>2
<1>. QED  BY <1>1, <1>2 DEF SoleInv

\* The stage after Continue(w).
LEMMA StageAfter ==
    ASSUME PipeInv, NEW w \in Workers, NEW step, At(w, step),
           work' = [work EXCEPT ![w] = Continue(w)]
    PROVE  /\ work'[w].todo = Tail(work[w].todo) /\ work'[w].run = work[w].run
           /\ work'[w].copy = work[w].copy
           /\ step \in Advancing \cup {"finding", "shrink", "root"} =>
                 Stage(work'[w].todo) \notin {"list", "group", "shrink", "root"}
           /\ step = "crash" => Stage(work'[w].todo) = "list"
           /\ step = "group" => Stage(work'[w].todo) \in {"observed", "reproduced", "shrink"}
<1>1. /\ Rest(work[w].todo, run[work[w].run].op, run[work[w].run].res)
      /\ work[w].todo # <<>> /\ work[w].run # None /\ Stage(work[w].todo) = step
  BY DEF PipeInv, PipeShape, WorkShaped, WorkerShaped, At, Stage
<1>2. /\ work'[w].todo = Tail(work[w].todo) /\ work'[w].run = work[w].run
      /\ work'[w].copy = work[w].copy
  BY <1>1, ContinueFacts, TypeFacts DEF PipeInv
<1>3. /\ step \in {"ready", "observed", "reproduced", "minimized", "assessed"} =>
            Stage(Tail(work[w].todo)) = "end"
      /\ step = "start" => Stage(Tail(work[w].todo)) \in {"end", "crash"}
      /\ step = "rootcaused" => Stage(Tail(work[w].todo)) = "finding"
      /\ step = "finding" => Stage(Tail(work[w].todo)) = "assessed"
      /\ step = "shrink" => Stage(Tail(work[w].todo)) = "minimized"
      /\ step = "root" => Stage(Tail(work[w].todo)) = "rootcaused"
      /\ step = "crash" => Stage(Tail(work[w].todo)) = "list"
      /\ step = "group" => Stage(Tail(work[w].todo)) \in {"observed", "reproduced", "shrink"}
  BY <1>1, RestAdvances DEF Stage
<1>. QED  BY <1>2, <1>3 DEF Advancing

\* Ending an ingestion that stores no observation.
LEMMA SoleIdle ==
    ASSUME PipeInv, SoleInv, OneWorker, NEW w \in Workers,
           run' = run, crashes' = crashes, groups' = groups, faults' = faults,
           Stage(work[w].todo) \notin {"list", "group"},
           work' = [work EXCEPT ![w] = Idle]
    PROVE  SoleInv'
<1>1. Stage(work'[w].todo) = "end"
  BY TypeFacts, IdleType
<1>. QED  BY <1>1, SoleQuiet DEF KeepsRuns

LEMMA SoleContinue ==
    ASSUME PipeInv, SoleInv, OneWorker, NEW w \in Workers,
           NEW step \in Advancing \cup {"finding"}, At(w, step),
           run' = run, crashes' = crashes, groups' = groups, faults' = faults,
           work' = [work EXCEPT ![w] = Continue(w)]
    PROVE  SoleInv'
<1>1. Stage(work[w].todo) \notin {"list", "group"}
  BY DEF At, Stage, Advancing
<1>2. Stage(work'[w].todo) \notin {"group", "shrink", "root"}
  BY StageAfter
<1>. QED  BY <1>1, <1>2, SoleQuiet DEF KeepsRuns

LEMMA SoleAdvance ==
    ASSUME PipeInv, SoleInv, OneWorker, NEW w \in Workers, NEW step \in Advancing, At(w, step),
           NEW from, NEW to, advanceCampaign(w, from, to)
    PROVE  SoleInv'
<1>0. Stage(work[w].todo) \notin {"list", "group", "shrink", "root"}
  BY DEF At, Stage, Advancing
<1>1. UNCHANGED <<run, crashes, groups, faults>>
  BY DEF advanceCampaign, AdvanceRead, AdvanceSwap
<1>2. CASE work' = [work EXCEPT ![w] = Continue(w)]
  BY <1>1, <1>2, SoleContinue
<1>3. CASE work' = [work EXCEPT ![w] = Idle]
  BY <1>0, <1>1, <1>3, SoleIdle
<1>4. CASE work' = [work EXCEPT ![w] = [work[w] EXCEPT !.swap = TRUE]]
  <2>1. work'[w].todo = work[w].todo
    BY <1>4, TypeFacts DEF WorkRec
  <2>. QED  BY <1>0, <1>1, <2>1, SoleQuiet DEF KeepsRuns
<1>. QED  BY <1>2, <1>3, <1>4 DEF advanceCampaign, AdvanceRead, AdvanceSwap

\* The three writes of a group keep its members, since the copy has them all.
LEMMA SoleGroup ==
    ASSUME PipeInv, SoleInv, OneWorker, NEW w \in Workers,
           NEW step \in {"group", "shrink", "root"}, At(w, step),
           NEW g, g.members = work[w].copy.members,
           groups' = [groups EXCEPT ![SigOf(work[w].run)] = g],
           work' = [work EXCEPT ![w] = Continue(w)],
           run' = run, crashes' = crashes, faults' = faults
    PROVE  SoleInv'
<1>. PICK x \in Runs : x = work[w].run
  BY StageSig
<1>. PICK s \in Sigs : s = SigOf(x)
  BY StageSig
<1>1. Stage(work[w].todo) = step /\ CopyFresh(w) /\ CopyBacked(w)
  BY StageSig DEF SoleInv, CopiesFresh, PipeInv, CopiesBacked
<1>2. groups[s].members \subseteq g.members /\ (step = "group" => x \in g.members)
  BY <1>1 DEF CopyFresh
<1>3. \A q \in Sigs : groups'[q] = IF q = s THEN g ELSE groups[q]
  BY TypeFacts
<1>4. CopiesFresh'
  <2>1. work'[w].run = x /\ work'[w].copy = work[w].copy /\ Stage(work'[w].todo) # "group"
    BY StageAfter DEF Advancing
  <2>2. SigOf(x)' = s
    BY DEF SigOf
  <2>. QED  BY <2>1, <2>2, <1>3 DEF OneWorker, CopiesFresh, CopyFresh
<1>5. Grouped'
  <2>. SUFFICES ASSUME faults = 0, NEW o \in crashes
                PROVE  o \in groups'[run[o].res.sig].members
    BY DEF Grouped
  <2>1. run[o].res.sig \in Sigs
    BY DEF PipeInv, PipeShape, CrashesShaped
  <2>2. CASE o \in groups[run[o].res.sig].members
    BY <1>2, <1>3, <2>1, <2>2
  <2>3. CASE o = x /\ step = "group"
    <3>1. run[x].res.sig = s
      BY <2>3, StageSig
    <3>. QED  BY <1>2, <1>3, <2>3, <3>1
  <2>4. o \in groups[run[o].res.sig].members \/ (o = x /\ step \in {"list", "group"})
    BY <1>1 DEF SoleInv, Grouped, OneWorker
  <2>. QED  BY <2>2, <2>3, <2>4
<1>. QED  BY <1>4, <1>5 DEF SoleInv

LEMMA SoleIngest ==
    ASSUME PipeInv, SoleInv, OneWorker, NEW w \in Workers, Ingest(w)
    PROVE  SoleInv'
<1>1. CASE Return(w)
  <2>1. Stage(work[w].todo) = "end"
    BY <1>1 DEF Return, Stage
  <2>. QED  BY <1>1, <2>1, SoleIdle DEF Return
<1>2. CASE BuildReady(w) \/ FuzzStarted(w) \/ CrashObserved(w)
  BY <1>2, SoleAdvance DEF BuildReady, FuzzStarted, CrashObserved, Advancing
<1>3. CASE Minimized(w) \/ RootCaused(w) \/ Assessed(w)
  BY <1>3, SoleAdvance DEF Minimized, RootCaused, Assessed, Advancing
<1>4. CASE Reproduced(w)
  BY <1>4, SoleAdvance, SoleContinue DEF Reproduced, Advancing
<1>5. CASE savePrimitiveFinding(w)
  BY <1>5, SoleContinue DEF savePrimitiveFinding
<1>6. CASE SaveCrashGroup(w)
  BY <1>6, SoleGroup DEF SaveCrashGroup
<1>7. CASE SaveRootCause(w)
  <2>. DEFINE g == [work[w].copy EXCEPT !.root = TRUE]
  <2>1. At(w, "root") /\ work[w].copy \in Group
    BY <1>7, StageSig DEF SaveRootCause, WorkRec
  <2>2. g.members = work[w].copy.members
    BY <2>1 DEF Group
  <2>3. groups' = [groups EXCEPT ![SigOf(work[w].run)] = g]
    BY <1>7 DEF SaveRootCause
  <2>. HIDE DEF g
  <2>. QED  BY <1>7, <2>1, <2>2, <2>3, SoleGroup DEF SaveRootCause
<1>8. CASE SaveMinimized(w) /\ MinimizationFacts(w)
  <2>. DEFINE g == [work[w].copy EXCEPT !.minimized = work[w].run]
  <2>1. At(w, "shrink") /\ work[w].copy \in Group
    BY <1>8, StageSig DEF SaveMinimized, WorkRec
  <2>2. g.members = work[w].copy.members
    BY <2>1 DEF Group
  <2>3. /\ groups' = [groups EXCEPT ![SigOf(work[w].run)] = g]
        /\ work' = [work EXCEPT ![w] = Continue(w)]
    BY <1>8 DEF SaveMinimized
  <2>. HIDE DEF g
  <2>. QED  BY <1>8, <2>1, <2>2, <2>3, SoleGroup DEF SaveMinimized
<1>9. CASE SaveMinimized(w) /\ ~MinimizationFacts(w)
  <2>1. Stage(work[w].todo) = "shrink" /\ work[w] \in WorkRec
    BY <1>9, StageSig DEF SaveMinimized
  <2>2. Stage(work'[w].todo) = "end"
    BY <1>9, <2>1, TypeFacts DEF SaveMinimized, WorkRec, Stage
  <2>. QED  BY <1>9, <2>1, <2>2, SoleQuiet DEF SaveMinimized, KeepsRuns
<1>10. CASE SaveCrash(w)
  <2>. PICK x \in Runs : x = work[w].run
    BY <1>10, StageSig DEF SaveCrash
  <2>1. Stage(work[w].todo) = "crash" /\ crashes' = crashes \cup {x}
    BY <1>10, StageSig DEF SaveCrash
  <2>2. Stage(work'[w].todo) = "list" /\ work'[w].run = x
    BY <1>10, StageAfter DEF SaveCrash
  <2>3. run' = run /\ groups' = groups /\ faults' = faults
    BY <1>10 DEF SaveCrash
  <2>4. CopiesFresh'
    BY <2>2 DEF OneWorker, CopiesFresh, CopyFresh
  <2>5. faults = 0 => \A o \in crashes : o \in groups[run[o].res.sig].members
    BY <2>1 DEF SoleInv, Grouped, OneWorker
  <2>6. Grouped'
    BY <2>1, <2>2, <2>3, <2>5 DEF Grouped
  <2>. QED  BY <2>4, <2>6 DEF SoleInv
<1>11. CASE ReadGroup(w)
  <2>. PICK x \in Runs : x = work[w].run
    BY <1>11, StageSig DEF ReadGroup
  <2>. PICK s \in Sigs : s = SigOf(x)
    BY <1>11, StageSig DEF ReadGroup
  <2>1. At(w, "list") /\ Stage(work[w].todo) = "list" /\ work[w].todo # <<>> /\ x # None
    BY <1>11, StageSig DEF ReadGroup, At
  <2>. DEFINE g == AddToGroup(groups[s], x)
  <2>2. groups[s] \in Group
    BY TypeFacts
  <2>3. g.members = groups[s].members \cup {x} /\ g \in Group
    BY <2>2 DEF AddToGroup, Group
  <2>4. work' = [work EXCEPT ![w] = [Continue(w) EXCEPT !.copy = g]]
    BY <1>11 DEF ReadGroup
  <2>. HIDE DEF g
  <2>5. /\ Continue(w) \in WorkRec /\ Continue(w).run = x
        /\ Continue(w).todo = Tail(work[w].todo)
    BY <2>1, ContinueFacts DEF PipeInv
  <2>6. work'[w].copy = g /\ work'[w].run = x /\ work'[w].todo = Tail(work[w].todo)
    BY <2>4, <2>5, TypeFacts DEF WorkRec
  <2>7. Stage(work'[w].todo) = "group"
    BY <2>1, <2>6, RestAdvances DEF PipeInv, PipeShape, WorkShaped, WorkerShaped
  <2>8. UNCHANGED <<run, crashes, groups, faults>> /\ SigOf(x)' = s
    BY <1>11 DEF ReadGroup, SigOf
  <2>9. CopiesFresh'
    BY <2>3, <2>6, <2>8 DEF OneWorker, CopiesFresh, CopyFresh
  <2>10. Grouped'
    BY <2>6, <2>7, <2>8 DEF SoleInv, Grouped, OneWorker
  <2>. QED  BY <2>9, <2>10 DEF SoleInv
<1>12. CASE ReadSymbols(w)
  <2>. PICK x \in Runs : x = work[w].run
    BY <1>12, StageSig DEF ReadSymbols
  <2>0. At(w, "symbols") /\ Stage(work[w].todo) = "symbols" /\ work[w].todo # <<>> /\ x # None
    BY <1>12, StageSig DEF ReadSymbols, At
  <2>1. UNCHANGED <<run, crashes, groups, faults>> /\ SigOf(x)' = SigOf(x)
    BY <1>12 DEF ReadSymbols, SigOf
  <2>. DEFINE g == groups[SigOf(x)]
  <2>2. CASE work' = [work EXCEPT ![w] = Idle]
    BY <2>0, <2>1, <2>2, SoleIdle
  <2>3. CASE work' = [work EXCEPT ![w] = [Continue(w) EXCEPT !.copy = g]]
    <3>1. /\ Continue(w) \in WorkRec /\ Continue(w).run = x
          /\ Continue(w).todo = Tail(work[w].todo)
      BY <2>0, ContinueFacts DEF PipeInv
    <3>2. work'[w].copy = g /\ work'[w].run = x /\ work'[w].todo = Tail(work[w].todo)
      BY <2>3, <3>1, TypeFacts DEF WorkRec
    <3>3. Stage(work'[w].todo) = "root"
      BY <2>0, <3>2, RestAdvances DEF PipeInv, PipeShape, WorkShaped, WorkerShaped
    <3>4. CopiesFresh'
      BY <2>1, <3>2, <3>3 DEF OneWorker, CopiesFresh, CopyFresh
    <3>5. Grouped'
      BY <2>0, <2>1 DEF SoleInv, Grouped, OneWorker
    <3>. QED  BY <3>4, <3>5 DEF SoleInv
  <2>. QED  BY <1>12, <2>2, <2>3 DEF ReadSymbols
<1>. QED  BY <1>1, <1>2, <1>3, <1>4, <1>5, <1>6, <1>7, <1>8, <1>9, <1>10, <1>11, <1>12 DEF Ingest

LEMMA SoleNext ==
    ASSUME OneWorker
    PROVE  PipeInv /\ SoleInv /\ [Next]_vars => SoleInv'
<1>. SUFFICES ASSUME PipeInv, SoleInv, [Next]_vars PROVE SoleInv'
  OBVIOUS
<1>1. CASE \E w \in Workers : Ingest(w)
  BY <1>1, SoleIngest
<1>2. ASSUME NEW w \in Workers, CutOff(w) PROVE SoleInv'
  <2>1. Stage(work'[w].todo) = "end"
    BY <1>2, TypeFacts, IdleType DEF CutOff
  <2>2. faults' # 0
    BY <1>2, TypeFacts DEF CutOff
  <2>. QED  BY <2>1, <2>2 DEF SoleInv, CopiesFresh, CopyFresh, Grouped, OneWorker
<1>3. ASSUME NEW r \in Runs, NEW op \in Operations, NEW input \in Runs \cup {None},
             Enqueue(r, op, input)
      PROVE  SoleInv'
  <2>1. ~Ended(r) /\ \A q \in Runs : q # r => run'[q] = run[q]
    BY <1>3, TypeParts DEF Enqueue, Ended, Absent, PipeInv, PipeShape
  <2>2. KeepsRuns /\ UNCHANGED <<crashes, groups, work, faults>>
    BY <1>3, <2>1 DEF KeepsRuns, Enqueue
  <2>3. \A o \in crashes : run'[o] = run[o]
    BY <2>2, TypeFacts DEF PipeInv, PipeShape, CrashesShaped, KeepsRuns
  <2>4. ASSUME NEW w \in Workers PROVE CopyFresh(w)'
    <3>1. CASE work[w].run = None
      BY <2>2, <3>1, IdleType DEF CopyFresh, PipeInv, PipeShape, WorkShaped, WorkerShaped
    <3>2. CASE work[w].run # None
      <4>. PICK x \in Runs : x = work[w].run
        BY <3>2, TypeFacts DEF WorkRec
      <4>1. SigOf(x)' = SigOf(x)
        BY <2>2, <3>2, SigKept DEF PipeInv, PipeShape, WorkShaped, WorkerShaped
      <4>. QED  BY <2>2, <4>1 DEF CopyFresh, SoleInv, CopiesFresh
    <3>. QED  BY <3>1, <3>2
  <2>. QED  BY <2>2, <2>3, <2>4 DEF SoleInv, CopiesFresh, Grouped
<1>4. ASSUME NEW w \in Workers, NEW r \in Runs, Execute(w, r) PROVE SoleInv'
  <2>1. ~Ended(r) /\ \A q \in Runs : q # r => run'[q] = run[q]
    BY <1>4, TypeParts DEF Execute, Ended, PipeInv, PipeShape
  <2>2. KeepsRuns /\ UNCHANGED <<crashes, groups, faults>> /\ Stage(work[w].todo) = "end"
    BY <1>4, <2>1, IdleType DEF KeepsRuns, Execute
  <2>3. PICK res \in Results(run[r].op) :
          work' = [work EXCEPT ![w] = [Idle EXCEPT !.run = r, !.todo = Plan(run[r].op, res)]]
    BY <1>4 DEF Execute
  <2>4. run[r].op \in Operations
    BY <1>4, TypeParts DEF Execute, PipeInv, PipeShape, RunRec
  <2>5. work'[w].todo = Plan(run[r].op, res)
    BY <2>3, TypeFacts DEF Idle
  <2>6. Stage(work'[w].todo) \notin {"group", "shrink", "root"}
    BY <2>4, <2>5, PlanRest
  <2>. QED  BY <2>2, <2>6, SoleQuiet
<1>5. CASE Stop \/ UNCHANGED vars
  <2>1. UNCHANGED <<run, crashes, groups, work, faults>>
    BY <1>5 DEF Stop, vars
  <2>. QED  BY <2>1 DEF SoleInv, CopiesFresh, CopyFresh, Grouped, SigOf
<1>. QED  BY <1>1, <1>2, <1>3, <1>4, <1>5 DEF Next

\* With one worker for the campaign and no interruption, each stored observation
\* is in its group once its ingestion has ended, and stays there: the copies of
\* ReadGroup and ReadSymbols are never stale when SaveCrashGroup upserts them.
THEOREM SoleWorkerGroups ==
    ASSUME OneWorker
    PROVE  Spec => []GroupsComplete
<1>1. Init => SoleInv
  <2>. SUFFICES ASSUME Init PROVE SoleInv
    OBVIOUS
  <2>1. crashes = {} /\ \A w \in Workers : work[w] = Idle
    BY DEF Init
  <2>. QED  BY <2>1, IdleType DEF SoleInv, CopiesFresh, CopyFresh, Grouped
<1>2. PipeInv /\ SoleInv /\ [Next]_vars => SoleInv'
  BY SoleNext
<1>3. SoleInv => GroupsComplete
  BY DEF SoleInv, Grouped, GroupsComplete
<1>. QED  BY <1>1, <1>2, <1>3, PipeAlways, PTL DEF Spec
=============================================================================
