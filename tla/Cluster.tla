------------------------------ MODULE Cluster ------------------------------
(***************************************************************************)
(* The cluster provider at run time (internal/cluster provider.go,         *)
(* scheduler.go, manager.go, process.go, the backends and the health       *)
(* refresh): requests choose a backend and start it, supervisors restart   *)
(* its process, nodes are probed, and Close stops what was started.        *)
(*                                                                         *)
(* A backend's processes bind one port; a second one finds it taken and    *)
(* exits.  A request waits for the port, for a deadline or its client.     *)
(***************************************************************************)
EXTENDS Placement

CONSTANTS Requests,     \* request slots
          Configs,      \* the files an operator may write
          Worlds,       \* states of the network
          MaxRequests,
          MaxEvents     \* processes that fail, changes of the network and refreshes

ASSUME ClusterAssumption == Configs \subseteq Config /\ Worlds \subseteq World

VARIABLES cfg,       \* the configuration
          phase,     \* "boot", "discover", "up", "closing", "closed" or "refused"
          world,     \* the network, which changes
          health,    \* node -> reachable, or None before it is probed
          sweep,     \* nodes the running discovery has left
          dialed,    \* addresses that were ever dialled
          started,   \* backend -> the manager's started flag
          sup,       \* backend -> its supervisor, 0 if none
          sups,      \* supervisors, in the order of their creation
          kids,      \* processes, in the order of their launch
          req,       \* slot -> the request in it
          stopping,  \* backends Close has left to stop
          requests, events

nodeHealth == <<health, sweep>>
procs == <<sup, sups, kids>>
bounds == <<requests, events>>
vars == <<cfg, phase, world, nodeHealth, dialed, started, procs, req, stopping, bounds>>

Idle == [pc |-> "idle"]

Init ==
    /\ cfg \in Configs
    /\ phase = "boot"
    /\ world \in Worlds
    /\ health = [n \in {x.id : x \in ToSet(cfg.nodes)} |-> None]
    /\ sweep = <<>> /\ dialed = {}
    /\ started = [b \in Backends |-> FALSE]
    /\ sup = [b \in Backends |-> 0]
    /\ sups = <<>> /\ kids = <<>>
    /\ req = [r \in Requests |-> Idle]
    /\ stopping = {}
    /\ requests = 0 /\ events = 0

-----------------------------------------------------------------------------
(* Loading, and node discovery at the start and on every tick.                *)

LoadClusterConfig ==
    /\ phase = "boot"
    /\ cfg' = Normalize(cfg)
    /\ IF Validate(cfg') THEN phase' = "discover" /\ sweep' = cfg.nodes
       ELSE phase' = "refused" /\ UNCHANGED sweep
    /\ UNCHANGED <<world, health, dialed, started, procs, req, stopping, bounds>>

(* Nodes are probed one after the other, the first time before any request;   *)
(* a sweep that Close cancels dials no more.                                  *)
Discover ==
    /\ sweep # <<>>
    /\ \E p \in {probeNode(cfg, world, Head(sweep))} :
          /\ health' = [health EXCEPT ![Head(sweep).id] = p.up]
          /\ dialed' = IF phase = "closing" THEN dialed ELSE dialed \cup p.dialed
    /\ sweep' = Tail(sweep)
    /\ phase' = IF phase = "discover" /\ Len(sweep) = 1 THEN "up" ELSE phase
    /\ UNCHANGED <<cfg, world, started, procs, req, stopping, bounds>>

healthRefreshLoop ==
    /\ phase = "up" /\ sweep = <<>> /\ events < MaxEvents
    /\ sweep' = cfg.nodes
    /\ events' = events + 1
    /\ UNCHANGED <<cfg, phase, world, health, dialed, started, procs, req, stopping, requests>>

(* Workers come and go and names resolve to other addresses.                  *)
WorldChanges ==
    /\ phase \in {"discover", "up"} /\ events < MaxEvents
    /\ world' \in Worlds \ {world}
    /\ events' = events + 1
    /\ UNCHANGED <<cfg, phase, nodeHealth, dialed, started, procs, req, stopping, requests>>

-----------------------------------------------------------------------------
(* Processes and their supervisors.                                           *)

Live(k) == kids[k].st # "gone"

Serving(b) == \E k \in DOMAIN kids : kids[k].backend = b /\ kids[k].st = "serving"

(* What answers at a backend's endpoint.                                      *)
probeEndpoint(b) == IF b = Exo /\ cfg.exoEndpoint THEN world.exoUp ELSE Serving(b)

KidServes(k) ==
    /\ phase # "closed" /\ kids[k].st = "new" /\ ~Serving(kids[k].backend)
    /\ kids' = [kids EXCEPT ![k].st = "serving"]
    /\ UNCHANGED <<cfg, phase, world, nodeHealth, dialed, started, sup, sups, req, stopping, bounds>>

(* A process finds its port taken, or fails.                                  *)
KidExits(k) ==
    /\ phase # "closed" /\ Live(k)
    /\ IF kids[k].st = "new" /\ Serving(kids[k].backend) THEN UNCHANGED events
       ELSE events < MaxEvents /\ events' = events + 1
    /\ kids' = [kids EXCEPT ![k].st = "gone"]
    /\ UNCHANGED <<cfg, phase, world, nodeHealth, dialed, started, sup, sups, req, stopping, requests>>

(* A new process of supervisor s, now its cmd; watched from here on.          *)
launch(s) ==
    /\ kids' = Append(kids, [sup |-> s, backend |-> sups[s].backend, st |-> "new"])
    /\ sups' = [sups EXCEPT ![s].cmd = Len(kids) + 1, ![s].watch = "wait"]

(* Mutant: restarts are not counted.                                          *)
watchUncounted(s) ==
    /\ sups[s].watch = "wait" /\ ~Live(sups[s].cmd)
    /\ sups' = [sups EXCEPT ![s] =
          IF @.stopping THEN [@ EXCEPT !.watch = "gone"]
          ELSE IF cfg.policy = "on_failure" /\ @.restarts < cfg.maxRestarts
          THEN [@ EXCEPT !.watch = "backoff"]
          ELSE [@ EXCEPT !.watch = "gone", !.dead = TRUE]]
    /\ UNCHANGED <<cfg, phase, world, nodeHealth, dialed, started, sup, kids, req, stopping, bounds>>

(* The process ended: nothing after a Stop, else a restart while there are    *)
(* any left, else the supervisor is dead.                                     *)
watch(s) ==
    /\ sups[s].watch = "wait" /\ ~Live(sups[s].cmd)
    /\ sups' = [sups EXCEPT ![s] =
          IF @.stopping THEN [@ EXCEPT !.watch = "gone"]
          ELSE IF cfg.policy = "on_failure" /\ @.restarts < cfg.maxRestarts
          THEN [@ EXCEPT !.watch = "backoff", !.restarts = sups[s].restarts + 1]
          ELSE [@ EXCEPT !.watch = "gone", !.dead = TRUE]]
    /\ UNCHANGED <<cfg, phase, world, nodeHealth, dialed, started, sup, kids, req, stopping, bounds>>

(* After the pause; the mutex is released between this test and the launch.   *)
watchBackoff(s) ==
    /\ sups[s].watch = "backoff"
    /\ sups' = [sups EXCEPT ![s].watch = IF sups[s].stopping THEN "gone" ELSE "launch"]
    /\ UNCHANGED <<cfg, phase, world, nodeHealth, dialed, started, sup, kids, req, stopping, bounds>>

(* A launch that fails ends the watch and leaves the supervisor not dead.     *)
watchLaunch(s) ==
    /\ sups[s].watch = "launch"
    /\ \/ launch(s)
       \/ sups' = [sups EXCEPT ![s].watch = "gone"] /\ UNCHANGED kids
    /\ UNCHANGED <<cfg, phase, world, nodeHealth, dialed, started, sup, req, stopping, bounds>>

(* Stop of a supervisor: the process it knows is interrupted, then killed.    *)
Stop(s) ==
    /\ sups' = [sups EXCEPT ![s].stopping = TRUE, ![s].started = FALSE]
    /\ kids' = IF sups[s].cmd = 0 THEN kids ELSE [kids EXCEPT ![sups[s].cmd].st = "gone"]

-----------------------------------------------------------------------------
(* A request: choose a backend, start it, use it.                             *)

resolveModel(id) == IF ModelByID(cfg, id) # None THEN ModelByID(cfg, id) ELSE cfg.models[1]

Step(r, pc) == req' = [req EXCEPT ![r].pc = pc]

TryNext(r) == req' = [req EXCEPT ![r].pc = "select", ![r].order = Tail(@)]

Backend(r) == Head(req[r].order)

ChatStream(r, id) ==
    /\ phase = "up" /\ req[r] = Idle /\ requests < MaxRequests
    /\ requests' = requests + 1
    /\ \E m \in {resolveModel(id)} :
          req' = [req EXCEPT ![r] =
              [pc |-> "select", m |-> m, sup |-> 0,
               order |-> candidateOrder(cfg, m)]]
    /\ UNCHANGED <<cfg, phase, world, nodeHealth, dialed, started, procs, stopping, events>>

(* The next backend that is enabled, has room and is installed; its started   *)
(* flag is read here and set after the start.  The local one is no candidate, *)
(* only the fallback.                                                         *)
SelectBackend(r) ==
    /\ req[r].pc = "select"
    /\ IF req[r].order = <<>> THEN Step(r, "fallback")
       ELSE IF /\ Backend(r) # Local
               /\ Backend(r) \in coordinatorBackends(cfg)
               /\ memoryFits(cfg, health, Backend(r), req[r].m)
               /\ Backend(r) \in cfg.installed
            THEN Step(r, IF started[Backend(r)] THEN "health" ELSE "start")
            ELSE TryNext(r)
    /\ UNCHANGED <<cfg, phase, world, nodeHealth, dialed, started, procs, stopping, bounds>>

NewSupervisor(b, m, rpc) ==
    [backend |-> b, model |-> m, rpc |-> rpc, stopping |-> FALSE, started |-> TRUE,
     restarts |-> 0, dead |-> FALSE, cmd |-> 0, watch |-> "none"]

(* Every start makes a new supervisor and drops the one before it.            *)
StartWith(r, rpc) ==
    /\ sups' = Append(sups, NewSupervisor(Backend(r), req[r].m, rpc))
    /\ sup' = [sup EXCEPT ![Backend(r)] = Len(sups) + 1]
    /\ req' = [req EXCEPT ![r].pc = "launch", ![r].sup = Len(sups) + 1]

StartExo(r) ==
    /\ req[r].pc = "start" /\ Backend(r) = Exo
    /\ IF cfg.exoEndpoint
       THEN /\ IF probeEndpoint(Exo) THEN Step(r, "mark") ELSE TryNext(r)
            /\ UNCHANGED <<sup, sups>>
       ELSE StartWith(r, <<>>)
    /\ UNCHANGED <<cfg, phase, world, nodeHealth, dialed, started, kids, stopping, bounds>>

(* Refused unless the operator accepts an unbounded cache.                    *)
StartMLX(r) ==
    /\ req[r].pc = "start" /\ Backend(r) = MLX
    /\ IF ~cfg.mlxUnbounded \/ ~req[r].m.path THEN TryNext(r) /\ UNCHANGED <<sup, sups>>
       ELSE StartWith(r, <<>>)
    /\ UNCHANGED <<cfg, phase, world, nodeHealth, dialed, started, kids, stopping, bounds>>

(* Refused unless every worker has an address.                                *)
StartLlama(r) ==
    /\ req[r].pc = "start" /\ Backend(r) = Llama
    /\ IF ~req[r].m.path THEN TryNext(r) /\ UNCHANGED <<sup, sups, dialed>>
       ELSE \E found \in {resolveRPCHosts(cfg, world)} :
              /\ dialed' = dialed \cup found.dialed
              /\ IF found.addrs = None THEN TryNext(r) /\ UNCHANGED <<sup, sups>>
                 ELSE StartWith(r, found.addrs)
    /\ UNCHANGED <<cfg, phase, world, nodeHealth, started, kids, stopping, bounds>>

Start(r) ==
    /\ req[r].pc = "launch"
    /\ \/ launch(req[r].sup) /\ Step(r, "wait")
       \/ TryNext(r) /\ UNCHANGED <<sups, kids>>
    /\ UNCHANGED <<cfg, phase, world, nodeHealth, dialed, started, sup, stopping, bounds>>

(* The port answers, whichever process has it.                                *)
waitForReady(r) ==
    /\ req[r].pc = "wait" /\ Serving(Backend(r))
    /\ Step(r, "mark")
    /\ UNCHANGED <<cfg, phase, world, nodeHealth, dialed, started, procs, stopping, bounds>>

(* The supervisor is dead, the deadline passes, or the client leaves.         *)
WaitFails(r) ==
    /\ req[r].pc = "wait"
    /\ Stop(req[r].sup) /\ TryNext(r)
    /\ UNCHANGED <<cfg, phase, world, nodeHealth, dialed, started, sup, stopping, bounds>>

ensureStarted(r) ==
    /\ req[r].pc = "mark"
    /\ started' = [started EXCEPT ![Backend(r)] = TRUE]
    /\ Step(r, "health")
    /\ UNCHANGED <<cfg, phase, world, nodeHealth, dialed, procs, stopping, bounds>>

(* A backend that is not healthy is left as it is, and the next is tried.     *)
Health(r) ==
    /\ req[r].pc = "health"
    /\ IF probeEndpoint(Backend(r))
       THEN req' = [req EXCEPT ![r] = [pc |-> "chat", m |-> @.m, backend |-> Backend(r)]]
       ELSE TryNext(r)
    /\ UNCHANGED <<cfg, phase, world, nodeHealth, dialed, started, procs, stopping, bounds>>

(* The local provider, if there is one, the cluster is not strict and the     *)
(* coordinator has room.                                                      *)
FallbackAllowed(r) ==
    /\ ~cfg.strict
    /\ memoryFits(cfg, health, Local, req[r].m)
    /\ cfg.localProvider

Fallback(r) ==
    /\ req[r].pc = "fallback"
    /\ IF FallbackAllowed(r)
       THEN /\ started' = [started EXCEPT ![Local] = TRUE]
            /\ req' = [req EXCEPT ![r] = [pc |-> "chat", m |-> @.m, backend |-> Local]]
       ELSE req' = [req EXCEPT ![r] = Idle] /\ UNCHANGED started
    /\ UNCHANGED <<cfg, phase, world, nodeHealth, dialed, procs, stopping, bounds>>

(* The stream ends, with an answer or an error.                               *)
Chat(r) ==
    /\ req[r].pc = "chat"
    /\ req' = [req EXCEPT ![r] = Idle]
    /\ UNCHANGED <<cfg, phase, world, nodeHealth, dialed, started, procs, stopping, bounds>>

-----------------------------------------------------------------------------
(* Close: the backends that are started now are stopped one by one.           *)
Close ==
    /\ phase = "up"
    /\ phase' = "closing"
    /\ stopping' = {b \in Backends : started[b]}
    /\ UNCHANGED <<cfg, world, nodeHealth, dialed, started, procs, req, bounds>>

StopBackend(b) ==
    /\ b \in stopping
    /\ stopping' = stopping \ {b}
    /\ started' = [started EXCEPT ![b] = FALSE]
    /\ IF sup[b] = 0 THEN UNCHANGED <<sups, kids>> ELSE Stop(sup[b])
    /\ UNCHANGED <<cfg, phase, world, nodeHealth, dialed, sup, req, bounds>>

(* The program ends, and its requests with it; a process it left goes on.     *)
Exit ==
    /\ phase = "closing" /\ stopping = {}
    /\ phase' = "closed"
    /\ req' = [r \in Requests |-> Idle]
    /\ sweep' = <<>>
    /\ sups' = [s \in DOMAIN sups |-> [sups[s] EXCEPT !.watch = "gone"]]
    /\ UNCHANGED <<cfg, world, health, dialed, started, sup, kids, stopping, bounds>>

-----------------------------------------------------------------------------
RequestSteps(r) ==
    \/ SelectBackend(r)
    \/ StartExo(r) \/ StartMLX(r) \/ StartLlama(r) \/ Start(r)
    \/ waitForReady(r) \/ WaitFails(r)
    \/ ensureStarted(r) \/ Health(r) \/ Fallback(r) \/ Chat(r)

Next ==
    \/ LoadClusterConfig \/ Discover \/ healthRefreshLoop \/ WorldChanges
    \/ \E k \in DOMAIN kids : KidServes(k) \/ KidExits(k)
    \/ \E s \in DOMAIN sups : watch(s) \/ watchBackoff(s) \/ watchLaunch(s)
    \/ \E r \in Requests : RequestSteps(r) \/ \E m \in ToSet(cfg.models) : ChatStream(r, m.id)
    \/ Close \/ Exit
    \/ \E b \in Backends : StopBackend(b)

Spec == Init /\ [][Next]_vars

-----------------------------------------------------------------------------
Supervisor == [backend : Backends \ {Local}, model : Model, rpc : Seq(Hosts),
               stopping : BOOLEAN, started : BOOLEAN, restarts : Nat, dead : BOOLEAN,
               cmd : Nat, watch : {"none", "wait", "backoff", "launch", "gone"}]

Process == [sup : Nat, backend : Backends, st : {"new", "serving", "gone"}]

Working == {"select", "start", "launch", "wait", "mark", "health", "fallback"}

Request == {Idle} \cup [pc : Working, m : Model, sup : Nat, order : Seq(Words)]
                  \cup [pc : {"chat"}, m : Model, backend : Backends]

TypeOK ==
    /\ cfg \in Config
    /\ phase \in {"boot", "discover", "up", "closing", "closed", "refused"}
    /\ world \in World
    /\ health \in [{n.id : n \in ToSet(cfg.nodes)} -> BOOLEAN \cup {None}]
    /\ sweep \in Seq(ToSet(cfg.nodes))
    /\ dialed \subseteq ToSet(Addresses)
    /\ started \in [Backends -> BOOLEAN]
    /\ sup \in [Backends -> Nat]
    /\ sups \in Seq(Supervisor)
    /\ kids \in Seq(Process)
    /\ req \in [Requests -> Request]
    /\ stopping \subseteq Backends
    /\ requests \in Nat /\ events \in Nat

(* What a node holds of a model that is spread over the nodes: its part of    *)
(* the weights, which the runtime splits in proportion, and the buffers.      *)
HoldsWithin(c, m, i, budget) ==
    LET usable == Len(c.split) = Len(c.nodes) /\ (\A j \in DOMAIN c.split : c.split[j] >= 0) /\ Total(c.split) > 0
        part == IF usable THEN c.split ELSE [j \in DOMAIN c.nodes |-> orderedNodes(c)[j].mem]
    IN 2 * m.min * part[i] < (2 * (budget - computeReserveGB(m.ctx)) + 1) * Total(part)

(* Whether a cluster may spread model m over its nodes.                       *)
Spreads(c, m) ==
    /\ m.force \/ CoordinatorNode(c).mem - c.reserve < m.min
    /\ \A i \in DOMAIN orderedNodes(c) :
          HoldsWithin(c, m, i, IF i = 1 THEN CoordinatorNode(c).mem - c.reserve
                               ELSE nodeSafeModelGB(orderedNodes(c)[i]))

(* No process is launched for a model whose slice, rounded, overflows a node, *)
(* forced or not, and none for a model the coordinator holds alone unless     *)
(* forced; a model served in the process of the agent fits the coordinator    *)
(* beside its reserve, and a strict cluster never serves one: for every       *)
(* request, whatever failed before it, with health that may be stale.         *)
PlacementSafe ==
    /\ \A s \in DOMAIN sups : Spreads(cfg, sups[s].model)
    /\ \A r \in Requests : req[r].pc = "chat" /\ req[r].backend = Local =>
          ~cfg.strict /\ CoordinatorNode(cfg).mem - cfg.reserve >= req[r].m.min

(* With private_cluster_only no public address is ever dialled, by discovery  *)
(* or at a launch, whatever a name resolves to then, and a llama-server is    *)
(* given an address of every worker, each of which had accepted a connection, *)
(* so that the model never ends up on the coordinator alone.                  *)
PrivateAndComplete ==
    phase # "boot" /\ cfg.privateOnly =>
        /\ \A a \in dialed : Class[a] # "public"
        /\ \A s \in DOMAIN sups : sups[s].backend = Llama =>
              /\ cfg.rpcHosts = <<>> => Len(sups[s].rpc) = Len(WorkerNodes(cfg))
              /\ ToSet(sups[s].rpc) \subseteq dialed

(* A supervisor has at most one live process, however its restarts race with  *)
(* its Stop, and after its first launch makes no more than                    *)
(* max_restart_attempts.                                                      *)
SupervisionBounded ==
    \A s \in DOMAIN sups :
        LET own == {k \in DOMAIN kids : kids[k].sup = s}
        IN /\ Cardinality({k \in own : Live(k)}) <= 1
           /\ Cardinality(own) <= 1 \/ Cardinality(own) - 1 <= cfg.maxRestarts
=============================================================================
