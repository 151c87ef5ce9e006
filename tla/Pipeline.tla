------------------------------ MODULE Pipeline ------------------------------
(***************************************************************************)
(* The evidence pipeline of internal/research/pipeline/coordinator.go and  *)
(* internal/research/triage/group.go: worker runs of one campaign end, and *)
(* Coordinator.Ingest turns each result into observations, crash groups, a *)
(* finding and campaign transitions, while the operator may stop the       *)
(* campaign and the process may crash between any two store calls.         *)
(*                                                                         *)
(* Runs are numbered in the order Service.Enqueue creates them.  A run's   *)
(* number also names the input artifact it produced and the log it wrote.  *)
(***************************************************************************)
EXTENDS Integers, Sequences, FiniteSets

CONSTANTS
    MaxRuns,              \* bound: runs ever enqueued
    Workers,              \* workers that may serve the campaign at once
    Sigs,                 \* normalized security signatures
    MinimumReproductions, \* Coordinator.minimumReproductions
    MaxFaults,            \* bound: ingestions cut off part way
    MayStop,              \* the operator may pause, cancel or fail the campaign
    None

ASSUME PipelineAssumption ==
    /\ MaxRuns \in Nat /\ MaxFaults \in Nat
    /\ MinimumReproductions \in Nat \ {0}
    /\ MayStop \in BOOLEAN
    /\ None \notin Sigs \cup (1 .. MaxRuns)

Runs == 1 .. MaxRuns

VARIABLES
    campaign, \* state of the stored campaign
    run,      \* the runs: operation, input artifact or log, and result
    crashes,  \* stored security observations, by run (id observation_<run>)
    groups,   \* stored crash groups, by signature (id derived from it)
    findings, \* signatures with a primitive-confirmed finding
    work,     \* each worker: the run it ingests, what is left to do, its copies
    faults

vars == <<campaign, run, crashes, groups, findings, work, faults>>

-----------------------------------------------------------------------------
(* Campaign states, runs, groups. *)

Chain == <<"acquired", "build_ready", "fuzzing", "crash_observed",
           "reproduced", "minimized", "root_caused", "primitive_assessed">>
Rank(s) == CHOOSE i \in DOMAIN Chain : Chain[i] = s
Reached(s) == campaign # "stopped" /\ Rank(campaign) >= Rank(s)

Operations == {"build", "fuzz", "reproduce", "minimize", "symbolize"}

\* The absence of a run is no operation.
ASSUME OperationAssumption == None \notin Operations

\* campaignAllowsOperation: the states in which a run may be enqueued.  Later
\* ones in which only comparison and fix builds are allowed are left out.
campaignAllowsOperation(op) ==
    CASE op = "build"     -> {"acquired"}
      [] op = "fuzz"      -> {"build_ready", "fuzzing"}
      [] op = "reproduce" -> {"crash_observed", "reproduced"}
      [] op = "minimize"  -> {"reproduced"}
      [] op = "symbolize" -> {"minimized", "root_caused"}

\* A result: the signature its log parses to (None: no security observation;
\* for a build, no binary; for a symbolization, no stack) and whether it brought
\* a new input, no larger ("shrunk") or larger ("grown") than the given one.
Pending == [sig |-> None, out |-> "pending"]
Results(op) ==
    CASE op = "build"     -> [sig : {None}, out : {"none", "binary"}]
      [] op = "fuzz"      -> [sig : {None}, out : {"none"}] \cup [sig : Sigs, out : {"grown"}]
      [] op = "reproduce" -> [sig : Sigs \cup {None}, out : {"none"}]
      [] op = "minimize"  -> [sig : Sigs \cup {None}, out : {"none", "shrunk", "grown"}]
      [] op = "symbolize" -> [sig : {None}, out : {"none", "stack"}]

Absent == [op |-> None, input |-> None, res |-> Pending]
Ended(r) == run[r].op # None /\ run[r].res # Pending

\* The input artifact of a run's observation: the one it brought, else the one
\* it was given.
ObservedInput(r) == IF run[r].res.out \in {"shrunk", "grown"} THEN r ELSE run[r].input

\* evidenceRoleAllowed: symbolization takes the log of any run of the campaign,
\* reproduction and minimization a crashing or minimized input.
evidenceRoleAllowed(op) ==
    CASE op = "symbolize" -> {r \in Runs : Ended(r) /\ run[r].op \in {"fuzz", "reproduce", "minimize"}}
      [] op \in {"reproduce", "minimize"} ->
             {r \in Runs : Ended(r) /\ run[r].res.out \in {"shrunk", "grown"}}
      [] OTHER -> {None}

NoGroup == [members |-> {}, minimized |-> None, root |-> FALSE]
Exists(group) == group.members # {}

\* The signature a run's ingestion is about: a symbolization takes it from the
\* observation of the run whose log it was given.
SigOf(r) == IF run[r].op = "symbolize" THEN run[run[r].input].res.sig
                                       ELSE run[r].res.sig

Idle == [run |-> None, todo |-> <<>>, copy |-> NoGroup, swap |-> FALSE]

Init ==
    /\ campaign = "acquired"
    /\ run = [r \in Runs |-> Absent]
    /\ crashes = {}
    /\ groups = [s \in Sigs |-> NoGroup]
    /\ findings = {}
    /\ work = [w \in Workers |-> Idle]
    /\ faults = 0

-----------------------------------------------------------------------------
(* Runs. *)

Enqueue(r, op, input) ==
    /\ run[r] = Absent /\ \A q \in Runs : q < r => run[q] # Absent
    /\ campaign \in campaignAllowsOperation(op)
    /\ input \in evidenceRoleAllowed(op)
    /\ run' = [run EXCEPT ![r] = [op |-> op, input |-> input, res |-> Pending]]
    /\ UNCHANGED <<campaign, crashes, groups, findings, work, faults>>

\* The store calls of Ingest for a result, in their order.
Plan(op, res) ==
    CASE op = "build" -> IF res.out = "binary" THEN <<"ready">> ELSE <<>>
      [] op = "fuzz" ->
           IF res.sig = None THEN <<"start">>
                             ELSE <<"start", "crash", "list", "group", "observed">>
      [] op = "reproduce" /\ res.sig # None -> <<"crash", "list", "group", "reproduced">>
      [] op = "minimize" /\ res.sig # None -> <<"crash", "list", "group", "shrink", "minimized">>
      [] op = "symbolize" /\ res.out = "stack" ->
           <<"symbols", "root", "rootcaused", "finding", "assessed">>
      [] OTHER -> <<>>

\* A worker runs the oldest pending job and saves its terminal status; then
\* onResult calls Ingest.
Execute(w, r) ==
    /\ work[w] = Idle
    /\ run[r].op # None /\ run[r].res = Pending
    /\ \A q \in Runs : q < r => Ended(q)
    /\ \E res \in Results(run[r].op) :
         /\ run' = [run EXCEPT ![r].res = res]
         /\ work' = [work EXCEPT ![w] = [Idle EXCEPT !.run = r, !.todo = Plan(run[r].op, res)]]
    /\ UNCHANGED <<campaign, crashes, groups, findings, faults>>

-----------------------------------------------------------------------------
(* Ingest, one store call at a time. *)

At(w, step) == work[w].run # None /\ work[w].todo # <<>> /\ Head(work[w].todo) = step

Continue(w) == [work[w] EXCEPT !.todo = Tail(@), !.swap = FALSE]

\* Ingest returns, or its remaining calls do not happen.
Return(w) ==
    /\ work[w].run # None /\ work[w].todo = <<>>
    /\ work' = [work EXCEPT ![w] = Idle]
    /\ UNCHANGED <<campaign, run, crashes, groups, findings, faults>>

\* advanceCampaign reads the campaign and leaves it alone unless it is in the
\* state the evidence applies to.
AdvanceRead(w, from) ==
    /\ ~work[w].swap
    /\ work' = [work EXCEPT ![w] = IF campaign = from THEN [@ EXCEPT !.swap = TRUE]
                                                     ELSE Continue(w)]
    /\ UNCHANGED <<campaign, run, crashes, groups, findings, faults>>

\* Mutant: no version check.
AdvanceSwapBlind(w, from, to) ==
    /\ work[w].swap
    /\ campaign' = to
    /\ work' = [work EXCEPT ![w] = Continue(w)]
    /\ UNCHANGED <<run, crashes, groups, findings, faults>>

\* UpdateCampaign on the version read.  No state occurs twice in a campaign, so
\* the version is unchanged exactly when the state is.  On a conflict Ingest
\* goes on only if somebody else made the same transition.
AdvanceSwap(w, from, to) ==
    /\ work[w].swap
    /\ campaign' = IF campaign = from THEN to ELSE campaign
    /\ work' = [work EXCEPT ![w] = IF campaign \in {from, to} THEN Continue(w) ELSE Idle]
    /\ UNCHANGED <<run, crashes, groups, findings, faults>>

advanceCampaign(w, from, to) == AdvanceRead(w, from) \/ AdvanceSwap(w, from, to)

BuildReady(w)    == At(w, "ready") /\ advanceCampaign(w, "acquired", "build_ready")
FuzzStarted(w)   == At(w, "start") /\ advanceCampaign(w, "build_ready", "fuzzing")
CrashObserved(w) == At(w, "observed") /\ advanceCampaign(w, "fuzzing", "crash_observed")
RootCaused(w)    == At(w, "rootcaused") /\ advanceCampaign(w, "minimized", "root_caused")
Assessed(w)      == At(w, "assessed") /\ advanceCampaign(w, "root_caused", "primitive_assessed")

SaveCrash(w) ==
    /\ At(w, "crash")
    /\ crashes' = crashes \cup {work[w].run}
    /\ work' = [work EXCEPT ![w] = Continue(w)]
    /\ UNCHANGED <<campaign, run, groups, findings, faults>>

\* Mutant: a new observation starts its group anew.
AddToGroupAnew(group, r) == [NoGroup EXCEPT !.members = {r}]

\* AddToGroup, on the group that was read.
AddToGroup(group, r) == [group EXCEPT !.members = @ \cup {r}]

\* ListCrashGroups and AddToGroup.
ReadGroup(w) ==
    /\ At(w, "list")
    /\ work' = [work EXCEPT ![w] = [Continue(w) EXCEPT
                  !.copy = AddToGroup(groups[SigOf(work[w].run)], work[w].run)]]
    /\ UNCHANGED <<campaign, run, crashes, groups, findings, faults>>

\* SaveCrashGroup is an upsert of the copy.
SaveCrashGroup(w) ==
    /\ At(w, "group")
    /\ groups' = [groups EXCEPT ![SigOf(work[w].run)] = work[w].copy]
    /\ work' = [work EXCEPT ![w] = Continue(w)]
    /\ UNCHANGED <<campaign, run, crashes, findings, faults>>

\* Mutant: every observation of the group counts as an attempt.
attemptsAny(w) == {o \in work[w].copy.members : TRUE}

\* advanceReproduction's attempts: members of the saved group that are
\* reproduction runs of this input.
attempts(w) == {o \in work[w].copy.members :
    run[o].op = "reproduce" /\ ObservedInput(o) = run[work[w].run].input}

\* ReproductionFacts: too few attempts and the campaign is left alone.
TooFew(w) == Cardinality(attempts(w)) < MinimumReproductions

Reproduced(w) ==
    /\ At(w, "reproduced")
    /\ IF ~work[w].swap /\ TooFew(w)
         THEN /\ work' = [work EXCEPT ![w] = Continue(w)]
              /\ UNCHANGED <<campaign, run, crashes, groups, findings, faults>>
         ELSE advanceCampaign(w, "crash_observed", "reproduced")

\* MinimizationFacts: a new input, no larger, and an observation of the
\* original input in the group of the same signature.
MinimizationFacts(w) ==
    LET r == work[w].run IN
    /\ run[r].res.out = "shrunk"
    /\ \E o \in work[w].copy.members : ObservedInput(o) = run[r].input

SaveMinimized(w) ==
    /\ At(w, "shrink")
    /\ LET r == work[w].run
           saved == [work[w].copy EXCEPT !.minimized = r] IN
       IF MinimizationFacts(w)
         THEN /\ groups' = [groups EXCEPT ![SigOf(r)] = saved]
              /\ work' = [work EXCEPT ![w] = Continue(w)]
         ELSE /\ work' = [work EXCEPT ![w].todo = <<>>]
              /\ UNCHANGED groups
    /\ UNCHANGED <<campaign, run, crashes, findings, faults>>

Minimized(w) == At(w, "minimized") /\ advanceCampaign(w, "reproduced", "minimized")

\* ingestSymbolization looks up the observation behind the log and its group;
\* without either the ingestion fails.
ReadSymbols(w) ==
    LET input == run[work[w].run].input IN
    /\ At(w, "symbols")
    /\ work' = [work EXCEPT ![w] =
          IF input \in crashes /\ Exists(groups[SigOf(work[w].run)])
            THEN [Continue(w) EXCEPT !.copy = groups[SigOf(work[w].run)]]
            ELSE Idle]
    /\ UNCHANGED <<campaign, run, crashes, groups, findings, faults>>

SaveRootCause(w) ==
    /\ At(w, "root")
    /\ groups' = [groups EXCEPT ![SigOf(work[w].run)] = [work[w].copy EXCEPT !.root = TRUE]]
    /\ work' = [work EXCEPT ![w] = Continue(w)]
    /\ UNCHANGED <<campaign, run, crashes, findings, faults>>

\* SavePrimitive and savePrimitiveFinding, which promotes a new finding through
\* every label up to primitive-confirmed.
savePrimitiveFinding(w) ==
    /\ At(w, "finding")
    /\ findings' = findings \cup {SigOf(work[w].run)}
    /\ work' = [work EXCEPT ![w] = Continue(w)]
    /\ UNCHANGED <<campaign, run, crashes, groups, faults>>

\* A store error or a crash ends the ingestion.  The run's terminal status is
\* saved by then, and recovery only takes up queued and running jobs.
CutOff(w) ==
    /\ work[w].run # None /\ work[w].todo # <<>>
    /\ faults < MaxFaults /\ faults' = faults + 1
    /\ work' = [work EXCEPT ![w] = Idle]
    /\ UNCHANGED <<campaign, run, crashes, groups, findings>>

\* Service.Transition to paused, cancelled or failed.  Its read and its
\* compare-and-swap take effect only on an unchanged campaign: one step.
Stop ==
    /\ MayStop /\ campaign # "stopped"
    /\ campaign' = "stopped"
    /\ UNCHANGED <<run, crashes, groups, findings, work, faults>>

-----------------------------------------------------------------------------
Ingest(w) ==
    \/ Return(w) \/ BuildReady(w) \/ FuzzStarted(w) \/ SaveCrash(w) \/ ReadGroup(w)
    \/ SaveCrashGroup(w) \/ CrashObserved(w) \/ Reproduced(w) \/ SaveMinimized(w)
    \/ Minimized(w) \/ ReadSymbols(w) \/ SaveRootCause(w) \/ RootCaused(w)
    \/ savePrimitiveFinding(w) \/ Assessed(w)

Next ==
    \/ \E r \in Runs, op \in Operations, input \in Runs \cup {None} : Enqueue(r, op, input)
    \/ \E w \in Workers, r \in Runs : Execute(w, r)
    \/ \E w \in Workers : Ingest(w) \/ CutOff(w)
    \/ Stop

Spec == Init /\ [][Next]_vars

-----------------------------------------------------------------------------
(* Properties. *)

States == {Chain[i] : i \in DOMAIN Chain} \cup {"stopped"}
Group == [members : SUBSET Runs, minimized : Runs \cup {None}, root : BOOLEAN]
Steps == {"ready", "start", "crash", "list", "group", "observed", "reproduced",
          "shrink", "minimized", "symbols", "root", "rootcaused", "finding", "assessed"}

TypeOK ==
    /\ campaign \in States
    /\ run \in [Runs -> [op : Operations \cup {None}, input : Runs \cup {None},
                         res : [sig : Sigs \cup {None},
                                out : {"pending", "none", "binary", "stack", "shrunk", "grown"}]]]
    /\ crashes \in SUBSET Runs
    /\ groups \in [Sigs -> Group]
    /\ findings \in SUBSET Sigs
    /\ work \in [Workers -> [run : Runs \cup {None}, todo : Seq(Steps),
                             copy : Group, swap : BOOLEAN]]
    /\ faults \in 0 .. MaxFaults

\* The stored reproductions of signature s from input i.
Reproductions(s, i) ==
    {o \in crashes : run[o].op = "reproduce" /\ run[o].res.sig = s /\ ObservedInput(o) = i}

\* advanceReproduction: a campaign past Reproduced rests on at least
\* MinimumReproductions stored observations of one signature from one input,
\* whatever was ingested late or cut off.
ReproducedBacked ==
    Reached("reproduced") =>
        \E s \in Sigs, i \in Runs :
            Cardinality(Reproductions(s, i)) >= MinimumReproductions

\* With one worker for the campaign and no interruption, each stored
\* observation is in its group once its ingestion has ended, and stays there.
GroupsComplete ==
    faults = 0 =>
        \A o \in crashes : (\A w \in Workers : work[w].run # o) =>
            o \in groups[run[o].res.sig].members

\* A result that arrives late, or twice, neither undoes the operator's stop nor
\* moves the campaign backwards or over a state.
EvidenceInOrder ==
    [][campaign' # campaign =>
          /\ campaign # "stopped"
          /\ campaign' = "stopped" \/ Rank(campaign') = Rank(campaign) + 1]_vars

=============================================================================
