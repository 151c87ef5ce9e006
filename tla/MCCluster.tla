----------------------------- MODULE MCCluster -----------------------------
(***************************************************************************)
(* Instances of Cluster: a coordinator of 64 GB and a worker of 24 GB with *)
(* a name that resolves to a link-local, a private or a public address.    *)
(***************************************************************************)
EXTENDS Cluster

MCAddresses == <<"169.254.1.2", "192.168.1.2", "8.8.1.2">>
MCClass == [coord |-> "loopback"] @@ ("worker.local" :> "local")
           @@ ("169.254.1.2" :> "linklocal") @@ ("192.168.1.2" :> "private") @@ ("8.8.1.2" :> "public")

Coord == [id |-> "c", host |-> "coord", role |-> "coordinator", mem |-> 64, safe |-> 0,
          backends |-> {Exo, MLX, Llama}]
Worker == [id |-> "w", host |-> "worker.local", role |-> "worker", mem |-> 24, safe |-> 20, backends |-> {}]

(* 50 GB do not fit the coordinator beside 20 GB, 30 GB do.                   *)
Big == [id |-> "big", path |-> TRUE, ctx |-> 8192, min |-> 50, preferred |-> <<>>, force |-> FALSE]
Small == [Big EXCEPT !.id = "small", !.min = 30, !.force = TRUE]

Base == [nodes |-> <<Coord, Worker>>, coordinator |-> "", mode |-> "", reserve |-> 0, policy |-> "",
         maxRestarts |-> 1, allowlist |-> {}, models |-> <<Big>>, privateOnly |-> TRUE,
         loopback |-> TRUE, strict |-> FALSE, split |-> <<>>, rpcHosts |-> <<>>, installed |-> {Llama},
         exoEndpoint |-> FALSE, mlxUnbounded |-> FALSE, localProvider |-> TRUE]

(* A split that is not normalised, an open strict cluster with every backend, *)
(* backends without a worker, an open cluster, and a configuration that is    *)
(* refused.                                                                   *)
MCConfigs == {Base,
              [Base EXCEPT !.split = <<20, 20>>, !.mode = Exo, !.installed = {Exo}, !.policy = "never",
                           !.models = <<Big, Small>>],
              [Base EXCEPT !.strict = TRUE, !.privateOnly = FALSE, !.installed = {Exo, MLX, Llama},
                           !.models = <<[Big EXCEPT !.path = FALSE]>>, !.exoEndpoint = TRUE],
              [Base EXCEPT !.installed = {Exo, MLX}, !.models = <<[Big EXCEPT !.preferred = <<MLX, Exo>>]>>,
                           !.mlxUnbounded = TRUE, !.exoEndpoint = TRUE, !.allowlist = {"coord"}, !.policy = "never"],
              [Base EXCEPT !.privateOnly = FALSE, !.policy = "never"],
              [Base EXCEPT !.models = <<[Big EXCEPT !.ctx = 0]>>]}

Resolves(ips) == [coord |-> {}] @@ ("worker.local" :> ips)

MCWorlds == {[dns |-> Resolves({"169.254.1.2", "8.8.1.2"}), open |-> {"169.254.1.2"}, exoUp |-> TRUE],
             [dns |-> Resolves({"8.8.1.2", "192.168.1.2"}), open |-> {"8.8.1.2"}, exoUp |-> FALSE],
             [dns |-> Resolves({}), open |-> {}, exoUp |-> FALSE]}

SlotSymmetry == Permutations(Requests)
=============================================================================
