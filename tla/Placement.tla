----------------------------- MODULE Placement -----------------------------
(***************************************************************************)
(* What the cluster control plane computes from its configuration          *)
(* (internal/cluster config.go, scheduler.go, discovery.go): defaults and  *)
(* validation, which backends a model may be given to, whether it fits the *)
(* memory of the nodes, and which address of a worker is dialled.          *)
(*                                                                         *)
(* Memory is in gigabytes.  A node's host is a name or an address; Class   *)
(* gives a name's or an address's kind: "loopback", "linklocal",           *)
(* "private", "public" or "local" (a name of the local domain).            *)
(***************************************************************************)
EXTENDS Integers, Sequences, SequencesExt, FiniteSets, FiniteSetsExt, Functions

CONSTANTS None, Class,
          Addresses    \* the hosts that are addresses, in the order of strings

Hosts == DOMAIN Class

Names == Hosts \ ToSet(Addresses)

(* Every address has a kind and one place in the order.                       *)
ASSUME HostAssumption ==
    /\ Addresses \in Seq(Hosts)
    /\ \A i, j \in DOMAIN Addresses : Addresses[i] = Addresses[j] => i = j
    /\ None \notin Hosts

Exo == "exo"
MLX == "mlx_jaccl"
Llama == "llama_cpp_rpc"
Local == "local"
Backends == {Exo, MLX, Llama, Local}

defaultBackendOrder == <<Exo, MLX, Llama, Local>>

-----------------------------------------------------------------------------
(* What the file may say.  Memory sizes are not negative; the other numbers   *)
(* are any.  Zero and empty mean the default.                                 *)
Unset == ""

(* Strings, those with a meaning named.                                       *)
Words == STRING \cup Backends \cup {Unset, "auto", "on_failure"}

Node == [id : Words, host : Hosts, role : Words, mem : Nat, safe : Int, backends : SUBSET Backends]

Model == [id : Words, path : BOOLEAN, ctx : Int, min : Int, preferred : Seq(Words), force : BOOLEAN]

Config == [nodes : Seq(Node), coordinator : Words, mode : Words, reserve : Int, policy : Words,
           maxRestarts : Int, allowlist : SUBSET Hosts, models : Seq(Model), privateOnly : BOOLEAN,
           loopback : BOOLEAN, strict : BOOLEAN, split : Seq(Int), rpcHosts : Seq(Hosts),
           installed : SUBSET Backends, exoEndpoint : BOOLEAN, mlxUnbounded : BOOLEAN,
           localProvider : BOOLEAN]

(* The state of the network: what names resolve to, which addresses accept    *)
(* connections, and whether an exo of the operator's answers.                 *)
World == [dns : [Names -> SUBSET ToSet(Addresses)], open : SUBSET ToSet(Addresses), exoUp : BOOLEAN]

Or(x, absent, default) == IF x = absent THEN default ELSE x

Normalize(c) ==
    [c EXCEPT !.mode = Or(@, Unset, "auto"),
              !.reserve = Or(@, 0, 20),
              !.policy = Or(@, Unset, "on_failure"),
              !.maxRestarts = Or(@, 0, 3)]

(* The node the file names, else the first with that role, else the first.    *)
coordinatorIndex(c) ==
    LET named == {i \in DOMAIN c.nodes : c.nodes[i].id = c.coordinator}
        byRole == {i \in DOMAIN c.nodes : c.nodes[i].role = "coordinator"}
    IN IF c.coordinator # Unset /\ named # {} THEN Min(named)
       ELSE IF byRole # {} THEN Min(byRole) ELSE 1

CoordinatorNode(c) == c.nodes[coordinatorIndex(c)]

(* The nodes with another id: all others, since ids are unique (Validate).    *)
WorkerNodes(c) == RemoveAt(c.nodes, coordinatorIndex(c))

(* The first of that id.                                                      *)
ModelByID(c, id) ==
    LET found == {i \in DOMAIN c.models : c.models[i].id = id}
    IN IF found = {} THEN None ELSE c.models[Min(found)]

AllowedHosts(c) == IF c.allowlist # {} THEN c.allowlist ELSE {n.host : n \in ToSet(c.nodes)}

Validate(c) ==
    /\ c.nodes # <<>> /\ (\A n \in ToSet(c.nodes) : n.id # Unset)
    /\ \A i, j \in DOMAIN c.nodes : c.nodes[i].id = c.nodes[j].id => i = j
    /\ IF c.coordinator = Unset THEN \E n \in ToSet(c.nodes) : n.role = "coordinator"
       ELSE \E n \in ToSet(c.nodes) : n.id = c.coordinator
    /\ c.models # <<>>
    /\ \A m \in ToSet(c.models) : m.id # Unset /\ m.min > 0 /\ m.ctx > 0
    /\ c.privateOnly => c.loopback

-----------------------------------------------------------------------------
(* Which backends, and whether the model fits.                                *)

candidateOrder(c, m) ==
    IF c.mode # "auto" THEN <<c.mode>>
    ELSE IF m.preferred # <<>> THEN m.preferred ELSE defaultBackendOrder

coordinatorBackends(c) == CoordinatorNode(c).backends \cup {Local}

coordinatorSafeMemoryGB(c) == CoordinatorNode(c).mem - c.reserve

coordinatorCanHostAlone(c, m) == coordinatorSafeMemoryGB(c) >= m.min

nodeSafeModelGB(n) == IF n.safe > 0 THEN n.safe ELSE n.mem \div 2

(* Device 0 is the coordinator.                                               *)
orderedNodes(c) == <<CoordinatorNode(c)>> \o WorkerNodes(c)

Total(weights) == SumFunction(weights)

(* Mutant: the split is read as percentages.                                  *)
nodeSharesAbsolute(c) ==
    IF Len(c.split) = Len(orderedNodes(c)) THEN [weights |-> c.split, sum |-> 100]
    ELSE LET mem == [i \in DOMAIN orderedNodes(c) |-> orderedNodes(c)[i].mem]
         IN [weights |-> mem, sum |-> Total(mem)]

(* A split of as many numbers as there are nodes is taken as proportions, or  *)
(* else the nodes' memory: the weight of a node is its share of the total.    *)
nodeShares(c) ==
    LET nodes == orderedNodes(c)
        mem == [i \in DOMAIN nodes |-> nodes[i].mem]
        even == [i \in DOMAIN nodes |-> 1]
        weights == IF Len(c.split) = Len(nodes) /\ (\A i \in DOMAIN c.split : c.split[i] >= 0) /\ Total(c.split) > 0
                   THEN c.split
                   ELSE IF Total(mem) > 0 THEN mem ELSE even
    IN [weights |-> weights, sum |-> Total(weights)]

computeReserveGB(ctx) == Max({2, (IF ctx <= 0 THEN 4096 ELSE ctx) \div 2048})

(* Every node's rounded slice and the buffers of the context stay in its      *)
(* budget.                                                                    *)
allNodesWithinSafeBudget(c, m) ==
    LET nodes == orderedNodes(c)
        shares == nodeShares(c)
        projected(i) == (2 * m.min * shares.weights[i] + shares.sum) \div (2 * shares.sum)
                        + computeReserveGB(m.ctx)
    IN \A i \in DOMAIN nodes :
          projected(i) <= IF i = 1 THEN coordinatorSafeMemoryGB(c) ELSE nodeSafeModelGB(nodes[i])

(* A node that was never probed counts.                                       *)
totalClusterMemoryGB(c, health) ==
    Total([i \in DOMAIN c.nodes |-> IF health[c.nodes[i].id] = FALSE THEN 0 ELSE c.nodes[i].mem])

memoryFits(c, health, name, m) ==
    /\ m.min > 0
    /\ IF name = Local THEN coordinatorSafeMemoryGB(c) >= m.min
       ELSE /\ m.force \/ ~coordinatorCanHostAlone(c, m)
            /\ totalClusterMemoryGB(c, health) >= m.min
            /\ allNodesWithinSafeBudget(c, m)

-----------------------------------------------------------------------------
(* The address of a worker.                                                   *)

isLoopback(host) == Class[host] = "loopback"

isPrivateHost(host) == Class[host] \in {"loopback", "linklocal", "private", "local"}

isPublicIP(ip) == Class[ip] = "public"

(* Mutant: public addresses are kept.                                         *)
filterAll(ips, privateOnly) == ips

filterPrivateCandidates(ips, privateOnly) ==
    IF privateOnly THEN {a \in ips : ~isPublicIP(a)} ELSE ips

(* The place of an address among the candidates: link-local ones first.       *)
orderRPCCandidates(a) ==
    LET i == CHOOSE j \in DOMAIN Addresses : Addresses[j] = a
    IN IF Class[a] = "linklocal" THEN i ELSE Len(Addresses) + i

(* The addresses dialled: up to the first that accepts.                       *)
selectReachable(world, ips) ==
    LET accept == ips \cap world.open
        first == CHOOSE a \in accept : \A b \in accept : orderRPCCandidates(a) <= orderRPCCandidates(b)
    IN IF accept = {} THEN [dialed |-> ips, addr |-> None]
       ELSE [dialed |-> {a \in ips : orderRPCCandidates(a) <= orderRPCCandidates(first)}, addr |-> first]

(* With nothing that accepts, the configured host itself unless the cluster   *)
(* is private.                                                                *)
resolveRPCAddr(world, host, privateOnly) ==
    LET known == IF host \in ToSet(Addresses) THEN {host} ELSE world.dns[host]
        found == selectReachable(world, filterPrivateCandidates(known, privateOnly))
    IN IF known = {} \/ found.addr # None \/ privateOnly THEN found
       ELSE [found EXCEPT !.addr = host]

(* Every worker's address, or None as soon as one has none.                   *)
resolveRPCHosts(c, world) ==
    LET hosts == IF c.rpcHosts # <<>> THEN c.rpcHosts
                 ELSE [i \in DOMAIN WorkerNodes(c) |-> WorkerNodes(c)[i].host]
        found == [i \in DOMAIN hosts |-> resolveRPCAddr(world, hosts[i], c.privateOnly)]
        fails == {i \in DOMAIN found : found[i].addr = None}
        last == IF fails = {} THEN Len(found) ELSE Min(fails)
    IN [addrs |-> IF fails = {} THEN [i \in DOMAIN found |-> found[i].addr] ELSE None,
        dialed |-> UNION {found[i].dialed : i \in 1..last}]

(* Whether a node counts as reachable, and what was dialled to find out; a    *)
(* name that resolves is enough.                                              *)
probeNode(c, world, n) ==
    LET resolves == n.host \in ToSet(Addresses) \/ world.dns[n.host] # {}
        found == resolveRPCAddr(world, n.host, c.privateOnly)
    IN IF n.id = CoordinatorNode(c).id \/ isLoopback(n.host) THEN [up |-> TRUE, dialed |-> {}]
       ELSE IF n.host \notin AllowedHosts(c) \/ (c.privateOnly /\ ~isPrivateHost(n.host))
            THEN [up |-> FALSE, dialed |-> {}]
       ELSE [up |-> found.addr # None \/ resolves, dialed |-> found.dialed]
=============================================================================
