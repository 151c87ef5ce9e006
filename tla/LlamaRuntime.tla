---------------------------- MODULE LlamaRuntime ----------------------------
(***************************************************************************)
(* Supervision of local llama-server processes: runtime.go, reclaim.go,    *)
(* orphan_linux.go and filelock_unix.go of internal/llm/llamacpp, driven   *)
(* by buildLlamaCppProvider and startLlamaRuntime of cmd/agent.            *)
(*                                                                         *)
(* Several agent processes run on one machine.  Each reaps orphans, tunes  *)
(* the launch to the host, and starts one server: artifacts (ModelCache),  *)
(* the machine-wide admission lock, the fit gate, the launch, the probe.   *)
(* Close, the cancellation of the start, the exit of the server and the    *)
(* death of the supervisor may come between any two steps.                 *)
(***************************************************************************)
EXTENDS ModelCache

CONSTANTS
    Servers,     \* identities of running servers, used again (bound: alive at once)
    Source,      \* [Procs -> a repository, or None for a model path]
    LocalSize,   \* size of the file at the model path
    NativeCtx,   \* context the model was trained for, 0 if unknown
    PinnedLayers,\* GPU layers pinned by the configuration, 0 if tuned
    ServeProcs,  \* processes that run as --serve
    AutoPickModel, \* the configuration allows a replacement
    Machine,     \* the host without its free memory
    FreeMemory,  \* amounts of memory that may be free for us
    Impatient,   \* processes whose Start may be cancelled or overtaken by Close
    MaxCrashes   \* bound: deaths of supervisors

ASSUME RuntimeAssumption ==
    /\ LocalSize \in Nat /\ PinnedLayers \in Nat /\ NativeCtx \in Nat /\ MaxCrashes \in Nat
    /\ ServeProcs \subseteq Procs /\ Impatient \subseteq Procs /\ AutoPickModel \in BOOLEAN
    /\ None \notin Servers \cup Repos /\ Servers \cap Procs = {}
    /\ \A p \in Procs : Source[p] \in Repos \cup {None}
    /\ \A m \in Ladder : m.ref \in Repos
    /\ {Machine.total, Machine.disk, Machine.vram} \subseteq 0 .. MaxBytes
    /\ {Machine.gpu, Machine.unified} \subseteq BOOLEAN
    /\ FreeMemory \subseteq 0 .. Machine.total

VARIABLES
    rt,       \* the runtime of each process and its Start and Close calls
    srv,      \* the launched servers
    lock,     \* holders of the description that has the admission lock
    crashes

rtVars == <<rt, srv, lock, crashes>>
vars == <<rtVars, cacheVars>>

-----------------------------------------------------------------------------
Live == {s \in Servers : srv[s].live}

Resident == SumFunctionOnSet([s \in Servers |-> srv[s].need], Live)

(* What a measurement may find: other programs use some of the memory, and a  *)
(* server that runs has taken its share or is still about to.                 *)
Measured(avail) ==
    [total |-> Machine.total, avail |-> avail, disk |-> Machine.disk, vram |-> Machine.vram,
     unified |-> Machine.unified, gpu |-> Machine.gpu]
Profile == {Measured(a) : a \in FreeMemory \cup {saturatingSub(f, Resident) : f \in FreeMemory}}

NewRuntime == [pc |-> "new", state |-> "stopped", started |-> FALSE, closing |-> FALSE,
               cancel |-> FALSE, cmd |-> None, reaped |-> FALSE, admitted |-> 0, close |-> "idle",
               cfg |-> [model |-> None, ctx |-> defaultContextTokens, kv |-> Unset, layers |-> PinnedLayers],
               tuned |-> None, report |-> None, visited |-> {}]

NoServer == [live |-> FALSE, owner |-> None, need |-> 0, killed |-> FALSE]

Down == [NewRuntime EXCEPT !.pc = "down"]

Init ==
    /\ CacheInit
    /\ rt = [p \in Procs |-> Down]
    /\ srv = [s \in Servers |-> NoServer]
    /\ lock = {}
    /\ crashes = 0

Up(p) == rt[p].pc # "down"

-----------------------------------------------------------------------------
(* Startup of a process: leftover servers of ours without a --serve parent    *)
(* are killed before memory is measured.                                      *)

isOrphanedServer(s) == srv[s].owner \notin ServeProcs

ReapOrphanedServers(p) ==
    /\ rt[p].pc = "down"
    /\ rt' = [rt EXCEPT ![p] = [NewRuntime EXCEPT !.pc = "reaping", !.cfg.model = Source[p]]]
    /\ srv' = [s \in Servers |-> IF srv[s].live /\ isOrphanedServer(s)
                                 THEN [srv[s] EXCEPT !.killed = TRUE] ELSE srv[s]]
    /\ UNCHANGED <<lock, crashes, cacheVars>>

(* It waits for them, at most five seconds.                                   *)
waitForExit(p) ==
    /\ rt[p].pc = "reaping"
    /\ rt' = [rt EXCEPT ![p].pc = "tune"]
    /\ UNCHANGED <<srv, lock, crashes, cacheVars>>

(* Sizes of the configured model, from the file or the hub's listing.         *)
PlannedSize(p) ==
    IF rt[p].cfg.model = None THEN [model |-> LocalSize, mmproj |-> 0]
    ELSE LET m == ResolveManifest(rt[p].cfg.model)
         IN IF m = None THEN [model |-> 0, mmproj |-> 0]
            ELSE [model |-> TotalSize(m.models), mmproj |-> TotalSize(m.mmproj)]

autoTuneLlama(p, h) == RecommendRuntime(h, PlannedSize(p).model, PlannedSize(p).mmproj, 0, NativeCtx)

(* Layers that are pinned, or sizes that are unknown, leave the defaults.      *)
applyLlamaAutoTune(p) ==
    /\ rt[p].pc = "tune"
    /\ \E h \in Profile :
         LET rec == autoTuneLlama(p, h)
             tuned == PinnedLayers = 0 /\ PlannedSize(p).model > 0
         IN rt' = [rt EXCEPT ![p].pc = "new",
                             ![p].cfg = IF tuned THEN [model |-> @.model, ctx |-> rec.ctx, kv |-> rec.kv, layers |-> rec.layers] ELSE @,
                             ![p].tuned = IF tuned THEN [host |-> h, size |-> PlannedSize(p)] ELSE None]
    /\ UNCHANGED <<srv, lock, crashes, cacheVars>>

-----------------------------------------------------------------------------
(* Start.                                                                    *)

Failed(r, report) ==
    [r EXCEPT !.pc = "failed", !.started = FALSE, !.cancel = FALSE, !.tuned = None,
              !.report = IF AutoPickModel /\ r.cfg.model # None THEN report ELSE None,
              !.state = IF @ \in {"stopping", "stopped"} THEN @ ELSE "failed"]

failStart(p, report) == rt' = [rt EXCEPT ![p] = Failed(@, report)]

Released(p) == IF p \in lock THEN {} ELSE lock

(* Up to the artifacts: the flags, the checks of the configuration and of     *)
(* the binary, and the request for the files.                                 *)
StartBegin(p) ==
    /\ rt[p].pc = "new"
    /\ IF rt[p].closing
       THEN /\ failStart(p, None)
            /\ UNCHANGED cacheVars
       ELSE /\ rt' = [rt EXCEPT ![p].pc = IF rt[p].cfg.model = None THEN "lock" ELSE "resolve",
                                ![p].state = "preparing", ![p].started = FALSE]
            /\ IF rt[p].cfg.model = None THEN UNCHANGED cacheVars
               ELSE EnsureCall(p, rt[p].cfg.model, rt[p].cfg.ctx)
    /\ UNCHANGED <<srv, lock, crashes>>

InvalidConfig(p) ==
    /\ rt[p].pc = "new"
    /\ failStart(p, None)
    /\ UNCHANGED <<srv, lock, crashes, cacheVars>>

(* The steps of EnsureArtifacts, which measures the host for its plan.        *)
EnsureArtifacts(p) ==
    /\ rt[p].pc = "resolve"
    /\ \/ CacheStep(p)
       \/ \E h \in Profile : CachedPlan(p, h) \/ Plan(p, h)
       \/ rt[p].cancel /\ EnsureCancelled(p)
    /\ UNCHANGED rtVars

resolveArtifacts(p) ==
    /\ rt[p].pc = "resolve"
    /\ dl[p].pc \in {"got", "refused", "failed"}
    /\ IF dl[p].pc = "got" THEN rt' = [rt EXCEPT ![p].pc = "lock"]
       ELSE failStart(p, IF dl[p].pc = "refused" THEN dl[p].report ELSE None)
    /\ dl' = [dl EXCEPT ![p] = IF @.pc = "got" THEN [@ EXCEPT !.pc = "held", !.report = None] ELSE Idle]
    /\ UNCHANGED <<srv, lock, crashes, head, moves, pin, final, part, stage, acq, man>>

\* Mutant: the wait for the lock does not end with the context.
LockWaitEndless(p) == FALSE

LockWaitCancelled(p) == rt[p].cancel

(* flock polled until it is granted or the start is cancelled.                *)
acquireFileLock(p) ==
    /\ rt[p].pc = "lock"
    /\ \/ /\ lock = {}
          /\ lock' = {p}
          /\ rt' = [rt EXCEPT ![p].pc = "verify"]
       \/ /\ LockWaitCancelled(p)
          /\ failStart(p, None)
          /\ UNCHANGED lock
    /\ UNCHANGED <<srv, crashes, cacheVars>>

(* The committed files are hashed again against the manifest.                 *)
verifyLocalArtifactsAgainstManifest(p) ==
    /\ rt[p].pc = "verify"
    /\ IF dl[p].pc = "idle" \/ allArtifactsValid(dl[p].m)
       THEN rt' = [rt EXCEPT ![p].pc = "inspect"] /\ UNCHANGED lock
       ELSE failStart(p, None) /\ lock' = Released(p)
    /\ UNCHANGED <<srv, crashes, cacheVars>>

LaunchRequestOf(p, h, kv) ==
    [model |-> IF dl[p].pc = "idle" THEN LocalSize ELSE TotalSize(dl[p].m.models),
     mmproj |-> IF dl[p].pc = "idle" THEN 0 ELSE TotalSize(dl[p].m.mmproj),
     download |-> 0, ctx |-> rt[p].cfg.ctx, parallel |-> 1, layers |-> rt[p].cfg.layers,
     vram |-> h.vram, unified |-> h.unified, kv |-> kv, reclaimable |-> 0]

\* Mutant: the gate does not know the type of the KV cache.
LaunchRequestF16(p, h) == LaunchRequestOf(p, h, "f16")

LaunchRequest(p, h) == LaunchRequestOf(p, h, rt[p].cfg.kv)

(* The gate at the launch measures the host again.                           *)
InspectLocal(p, h) == EstimateFitWithPolicy(h, LaunchRequest(p, h))

Admit(p) ==
    /\ rt[p].pc = "inspect"
    /\ \E h \in Profile :
         LET report == InspectLocal(p, h)
         IN IF report.fits
            THEN /\ rt' = [rt EXCEPT ![p].pc = "launch", ![p].admitted = report.runtime, ![p].tuned = None]
                 /\ UNCHANGED lock
            ELSE /\ failStart(p, report)
                 /\ lock' = Released(p)
    /\ UNCHANGED <<srv, crashes, cacheVars>>

MayLaunch(p) == ~rt[p].closing /\ ~rt[p].cancel

\* Mutant: the child does not inherit the descriptor of the lock.
LockNotInherited(s) == lock

LockInherited(s) == lock \cup {s}

(* Under the mutex: the last look at closing, the exec, and the handover of   *)
(* the lock to the child; what the server takes is what was admitted.         *)
Launch(p) ==
    /\ rt[p].pc = "launch"
    /\ \/ /\ ~MayLaunch(p)
          /\ failStart(p, None)
          /\ lock' = Released(p)
          /\ UNCHANGED srv
       \/ /\ MayLaunch(p)
          /\ \E s \in Servers :
               /\ ~srv[s].live /\ \A q \in Procs : rt[q].cmd = s => rt[q].reaped
               /\ srv' = [srv EXCEPT ![s] = [live |-> TRUE, owner |-> p, killed |-> FALSE,
                                             need |-> RuntimeEstimate(LaunchRequest(p, Machine))]]
               /\ lock' = LockInherited(s)
               /\ rt' = [rt EXCEPT ![p].pc = "probe", ![p].state = "starting", ![p].cmd = s, ![p].reaped = FALSE]
    /\ UNCHANGED <<crashes, cacheVars>>

ExecFails(p) ==
    /\ rt[p].pc = "launch"
    /\ MayLaunch(p)
    /\ rt' = [rt EXCEPT ![p] = Failed([@ EXCEPT !.state = "starting"], None)]
    /\ lock' = Released(p)
    /\ UNCHANGED <<srv, crashes, cacheVars>>

(* The readiness probe: the server answers and refuses a request without      *)
(* key; or it exited, the start was cancelled, the deadline passed, or it     *)
(* answers without key, and it is told to stop.                               *)
waitReady(p) ==
    /\ rt[p].pc = "probe"
    /\ \/ /\ ~rt[p].reaped /\ srv[rt[p].cmd].live
          /\ rt' = [rt EXCEPT ![p].pc = "settle"]
          /\ UNCHANGED srv
       \/ /\ rt' = [rt EXCEPT ![p].pc = "stop"]
          /\ srv' = IF rt[p].reaped THEN srv ELSE [srv EXCEPT ![rt[p].cmd].killed = srv[rt[p].cmd].live]
    /\ UNCHANGED <<lock, crashes, cacheVars>>

(* stopCommand waits for the reaper, for a bounded time.                      *)
StopAfterProbe(p) ==
    /\ rt[p].pc = "stop"
    /\ failStart(p, None)
    /\ UNCHANGED <<srv, lock, crashes, cacheVars>>

StartReturns(p) ==
    /\ rt[p].pc = "settle"
    /\ IF rt[p].state # "starting" THEN failStart(p, None)
       ELSE rt' = [rt EXCEPT ![p].pc = "ready", ![p].state = "ready", ![p].started = TRUE]
    /\ UNCHANGED <<srv, lock, crashes, cacheVars>>

-----------------------------------------------------------------------------
(* The server and its reaper.                                                *)

ServerExits(s) ==
    /\ srv[s].live
    /\ srv' = [srv EXCEPT ![s] = NoServer]
    /\ lock' = lock \ {s}
    /\ UNCHANGED <<rt, crashes, cacheVars>>

reap(p) ==
    /\ rt[p].cmd # None /\ ~rt[p].reaped
    /\ ~srv[rt[p].cmd].live
    /\ rt' = [rt EXCEPT ![p].reaped = TRUE, ![p].started = FALSE,
                        ![p].state = IF @ = "stopping" \/ rt[p].closing THEN "stopped" ELSE "failed"]
    /\ lock' = Released(p)
    /\ UNCHANGED <<srv, crashes, cacheVars>>

-----------------------------------------------------------------------------
(* Close, and the cancellation of the context of Start.                      *)

StartMuFree(p) == rt[p].pc \in {"new", "ready", "failed"}

CancelStart(p) ==
    /\ p \in Impatient /\ Up(p)
    /\ rt[p].pc \notin {"ready", "failed", "reaping", "tune", "new"} /\ ~rt[p].cancel
    /\ rt' = [rt EXCEPT ![p].cancel = TRUE]
    /\ UNCHANGED <<srv, lock, crashes, cacheVars>>

CloseCall(p) ==
    /\ Up(p) /\ rt[p].pc \notin {"reaping", "tune"}
    /\ p \in Impatient \/ StartMuFree(p)
    /\ rt[p].close = "idle"
    /\ rt' = [rt EXCEPT ![p].closing = TRUE, ![p].state = "stopping", ![p].close = "barrier",
                        ![p].cancel = rt[p].pc \notin {"new", "ready", "failed"}]
    /\ UNCHANGED <<srv, lock, crashes, cacheVars>>

\* Mutant: only a server that became ready is stopped.
StartedServer(p) == rt[p].started

LaunchedServer(p) == rt[p].cmd # None

(* Once startMu was free, Start cannot launch any more; the server, if there   *)
(* is one, is interrupted.                                                    *)
CloseBarrier(p) ==
    /\ rt[p].close = "barrier"
    /\ StartMuFree(p)
    /\ IF ~LaunchedServer(p)
       THEN /\ rt' = [rt EXCEPT ![p].close = "closed", ![p].state = "stopped", ![p].started = FALSE]
            /\ UNCHANGED srv
       ELSE /\ rt' = [rt EXCEPT ![p].close = "stop"]
            /\ srv' = IF rt[p].reaped THEN srv ELSE [srv EXCEPT ![rt[p].cmd].killed = srv[rt[p].cmd].live]
    /\ UNCHANGED <<lock, crashes, cacheVars>>

(* stopCommand: the reaper reported, or the process outlived SIGKILL for five  *)
(* seconds and Close returns an error.                                         *)
stopCommand(p) ==
    /\ rt[p].close = "stop"
    /\ rt' = [rt EXCEPT ![p].close = IF rt[p].reaped THEN "closed" ELSE "closeFailed",
                        ![p].state = "stopped", ![p].started = FALSE, ![p].admitted = 0]
    /\ UNCHANGED <<srv, lock, crashes, cacheVars>>

-----------------------------------------------------------------------------
(* startLlamaRuntime: a refused repository is replaced by a smaller one.       *)

Replacement(p) ==
    IF AutoPickModel /\ rt[p].report # None /\ rt[p].cfg.model # None
    THEN {m \in AutoPick(rt[p].report) : m.ref \notin rt[p].visited \cup {rt[p].cfg.model}}
    ELSE {}

startLlamaRuntime(p) ==
    /\ rt[p].pc = "failed" /\ ~rt[p].closing
    /\ \E m \in Replacement(p) :
         rt' = [rt EXCEPT ![p] = [NewRuntime EXCEPT !.pc = "tune", !.cfg.model = m.ref,
                                                    !.visited = rt[p].visited \cup {rt[p].cfg.model}]]
    /\ dl' = [dl EXCEPT ![p] = Idle]
    /\ UNCHANGED <<srv, lock, crashes, head, moves, pin, final, part, stage, acq, man>>

(* The process ends after its runtime was closed or could not start, or dies.  *)
Gone(p) ==
    /\ rt' = [rt EXCEPT ![p] = Down]
    /\ lock' = lock \ {p}
    /\ srv' = [s \in Servers |-> [srv[s] EXCEPT !.owner = IF @ = p THEN None ELSE @]]
    /\ CacheCrash(p)

Exit(p) ==
    /\ \/ rt[p].close \in {"closed", "closeFailed"}
       \/ rt[p].pc = "failed" /\ rt[p].close = "idle" /\ Replacement(p) = {}
    /\ Gone(p)
    /\ UNCHANGED crashes

Crash(p) ==
    /\ Up(p) /\ crashes < MaxCrashes
    /\ crashes' = crashes + 1
    /\ Gone(p)

Build(p) == ReapOrphanedServers(p) \/ waitForExit(p) \/ applyLlamaAutoTune(p) \/ startLlamaRuntime(p)

Start(p) ==
    \/ StartBegin(p) \/ InvalidConfig(p) \/ EnsureArtifacts(p)
    \/ resolveArtifacts(p) \/ acquireFileLock(p) \/ verifyLocalArtifactsAgainstManifest(p) \/ Admit(p)
    \/ Launch(p) \/ ExecFails(p) \/ waitReady(p) \/ StopAfterProbe(p) \/ StartReturns(p)

Close(p) == CloseBarrier(p) \/ stopCommand(p)

Next ==
    \/ \E p \in Procs : \/ Build(p) \/ Start(p) \/ reap(p) \/ CancelStart(p)
                        \/ CloseCall(p) \/ Close(p) \/ Exit(p) \/ Crash(p)
    \/ \E s \in Servers : ServerExits(s)
    \/ \E r \in Repos : HubMoves(r) /\ UNCHANGED rtVars

(* Goroutines run on; a killed server exits in the end.  Nothing forces a     *)
(* client to close, a healthy server to exit or a process to start.           *)
Fairness ==
    /\ \A p \in Procs : WF_vars(Start(p)) /\ WF_vars(reap(p)) /\ WF_vars(Close(p))
    /\ \A s \in Servers : WF_vars(srv[s].killed /\ ServerExits(s))

Spec == Init /\ [][Next]_vars /\ Fairness

-----------------------------------------------------------------------------
(* The servers on the machine together never take more than the gate would    *)
(* let one take of the whole machine: the lock, which a server inherits and    *)
(* keeps beyond the death of its supervisor, lets one run at a time.           *)
MachineNotOvercommitted == Resident <= MemoryBudget(Measured(Machine.total), 0)

(* When Close has returned without an error, no server of this runtime runs,   *)
(* however the call met Start (Close, "it cannot launch after Close has        *)
(* inspected cmd").                                                            *)
ClosedMeansStopped == \A p \in Procs : rt[p].close = "closed" => \A s \in Live : srv[s].owner # p

(* A context and cache type that the tuner found to fit the memory is let     *)
(* through at the launch unless memory has shrunk or the files differ: tuner   *)
(* and gate count alike (RecommendRuntime, "the recommendation aims to already *)
(* satisfy it"), quantized caches included.                                    *)
FoundFit(h, size) ==
    LET artifacts == size.model + size.mmproj
    IN fitCtxAndKV(ramSafeBudget(h), artifacts + WeightOverhead(artifacts) + Scratch(artifacts),
                   effectiveCtxCeiling(0, NativeCtx)).ctx # 0

TunedIsAdmitted ==
    \A p \in Procs, h \in Profile :
        LET t == rt[p].tuned IN
        /\ rt[p].pc = "inspect" /\ t # None
        /\ ~HasUsableGPU(Machine) \/ Machine.unified
        /\ FoundFit(t.host, t.size) /\ h.avail >= t.host.avail /\ h.disk > 0
        /\ t.size.model = LaunchRequest(p, h).model /\ t.size.mmproj = LaunchRequest(p, h).mmproj
        => InspectLocal(p, h).fits

(* The bytes of a verified file are not lost, except when a process dies        *)
(* while it has them in its private stage (restorePartial).                     *)
VerifiedKept == [][\A x \in Paths : Verified(x) => Verified(x)' \/ crashes' # crashes]_vars

(* Close returns: a Start that waits for the hub, for a lock or for the probe    *)
(* unwinds, and nobody waits for anybody's mutex for ever.                       *)
CloseReturns == \A p \in Procs : rt[p].close = "barrier" ~> rt[p].close # "barrier"
=============================================================================
