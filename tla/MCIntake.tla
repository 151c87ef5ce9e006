------------------------------ MODULE MCIntake ------------------------------
(* An operator who may also review, an admin and an outsider.  The bundle of  *)
(* the first revision differs from its commit.  The catalog is renewed with   *)
(* another SBOM, the source manifest with another expiry.                     *)
EXTENDS Intake

CONSTANTS op, adm, out, r1, r2, m1, m2, a1, key, repo, input

Budget(n) == [r \in Resources |-> n]
MCRoles == op :> {"operator", "reviewer"} @@ adm :> {"admin"} @@ out :> {"operator", "reviewer"}

MCManifest(id) == [id |-> id, image |-> id, harnesses |-> {"h"}, sanitizers |-> {"asan"},
                   ops |-> {"build", "smoke_test", "compare_branch"}, limits |-> Budget(9)]
MCManifests == {MCManifest(m1), MCManifest(m2)}

Entry(id, version) == [manifest |-> MCManifest(id),
                       sbom |-> [packages |-> {[version |-> version, sha |-> TRUE]}],
                       provenance |-> [subjects |-> {id}, pinned |-> TRUE]]
Catalog(version, issued, expires, signed) ==
    [key |-> key, signed |-> signed, issued |-> issued, expires |-> expires,
     entries |-> {Entry(m1, version), Entry(m2, 1)}]
MCCatalogs == {Catalog(1, 0, 2, TRUE), Catalog(2, 1, 2, TRUE), Catalog(3, 0, 2, FALSE)}

Pinned == [name |-> "pinned", repo |-> repo,
           bundles |-> {[commit |-> r1, sha |-> "tar1", host |-> <<"cdn", "example">>]}]
MCSourceManifests == {[key |-> key, signed |-> TRUE, issued |-> 0, expires |-> 1, sources |-> {Pinned}],
                      [key |-> key, signed |-> TRUE, issued |-> 1, expires |-> 2, sources |-> {Pinned}]}

File(name, bytes) == [path |-> <<"src", name>>, kind |-> "file", bytes |-> bytes, exec |-> FALSE]
MCGitTree == r1 :> {File("a", 1)} @@ r2 :> {File("a", 2)}
MCBundleOf == [tar1 |-> <<[path |-> <<"src">>, kind |-> "dir", bytes |-> 0, exec |-> FALSE], File("b", 1)>>,
               other |-> <<File("c", 1)>>]
MCFirst == [head |-> r1, dirty |-> FALSE]
MCCheckouts == {MCFirst, [head |-> r1, dirty |-> TRUE], [head |-> r2, dirty |-> FALSE]}
MCPath == <<"work", "repo">>
MCServerRoots == {<<"work">>}

MCScope == [owner |-> op, members |-> {}, repo |-> repo, revisions |-> {r1, r2}, roots |-> {<<"work">>},
            domains |-> {[wild |-> TRUE, name |-> <<"example">>]}, ops |-> KnownOperations,
            approvalOps |-> {"smoke_test"}, budget |-> Budget(9), apparatus |-> {m1, m2},
            expires |-> 2, revoked |-> None]

Local(r) == [revision |-> r, name |-> None, dir |-> MCPath, approval |-> None, corr |-> <<"target", r>>]
Remote(r) == [revision |-> r, name |-> "pinned", dir |-> <<>>, approval |-> None, corr |-> <<"target", r>>]
MCTargetRequests == op :> {Local(r1), Local(r2)} @@ adm :> {Remote(r1)} @@ out :> {Local(r1)}

Job(o, r, m, b, i, c, a) ==
    [op |-> o, kind |-> None, campaign |-> "c", target |-> None, build |-> b, input |-> i, patch |-> None,
     corr |-> c, manifest |-> m, harness |-> "h", revision |-> r, sanitizer |-> None,
     budget |-> ZeroBudget, approval |-> a]
MCJobs == {Job("build", r1, m1, None, None, "j1", None),
           [Job("build", r2, m1, None, None, "j1", None) EXCEPT !.target = r2],
           Job("compare_branch", r2, m1, <<r2, m1>>, input, "j2", None),
           Job("smoke_test", r1, m1, <<r1, m1>>, None, "j1", a1),
           Job("smoke_test", r1, m2, <<r1, m1>>, None, "j1", a1)}
MCJobRequests == op :> MCJobs @@ adm :> {} @@ out :> MCJobs
MCApprovalRequests ==
    op :> {[op |-> "smoke_test", corr |-> "j1"], [op |-> "smoke_test", corr |-> "j2"]} @@ adm :> {} @@ out :> {}
MCStops == op :> {} @@ adm :> {"cancelled"} @@ out :> {"cancelled"}
MCArtifacts == input :> "crashing_input"
=============================================================================
