------------------------------- MODULE Policy -------------------------------
(***************************************************************************)
(* The decisions of the research control plane that keep no state: scopes  *)
(* and their authorizations (research/domain/policy.go), admitted          *)
(* apparatus and the jobs built from it (research/apparatus), and source   *)
(* trees (research/acquisition, research/sourcefetch).                     *)
(* A path is the sequence of its components, a host the sequence of its    *)
(* labels, a tree the set of its files, a budget a function of resources.  *)
(***************************************************************************)
EXTENDS Integers, FiniteSets, Sequences, SequencesExt

CONSTANT None

JobOperations == {"inspect", "list_harnesses", "build", "smoke_test", "seed", "fuzz", "reproduce",
                  "minimize", "merge_corpus", "coverage", "symbolize", "compare_branch", "regression_test"}
KnownOperations == JobOperations \cup
    {"acquire", "static_analyze", "novelty_lookup", "draft_report", "disclose", "purge_artifact"}
Resources == {"wall", "memory", "cpu", "disk", "inodes", "pids", "concurrent"}

-----------------------------------------------------------------------------
(* Principals and budgets.                                                   *)

hasRole(p, role) == role \in p.roles /\ p.id # None
hasAnyRole(p, roles) == \E r \in roles : hasRole(p, r)
principalHasAnyRole(p, roles) == "admin" \in p.roles \/ p.roles \cap roles # {}

principalMay(p, op) ==
    \/ "admin" \in p.roles
    \/ "reviewer" \in p.roles /\ op \in {"novelty_lookup", "draft_report", "disclose"}
    \/ "operator" \in p.roles /\ op \notin {"disclose", "purge_artifact"}
    \/ "analyst" \in p.roles /\ op \in {"inspect", "static_analyze", "coverage", "draft_report"}
    \/ "viewer" \in p.roles /\ op = "inspect"

ValidBudget(b) == \A r \in Resources : b[r] > 0
exceeds(requested, maximum) == requested < 0 \/ (maximum > 0 /\ requested > maximum)
budgetExceeds(b, limit) ==
    \/ \E r \in Resources \ {"concurrent"} : exceeds(b[r], limit[r])
    \/ limit["concurrent"] > 0 /\ b["concurrent"] > limit["concurrent"]
ZeroBudget == [r \in Resources |-> 0]

-----------------------------------------------------------------------------
(* Scopes.                                                                   *)

insideAnyRoot(path, roots) == \E r \in roots : IsPrefix(r, path)

(* *.example allows every proper subdomain of example.                       *)
hostAllowed(host, allowed) ==
    host # <<>> /\ \E a \in allowed :
        IF a.wild THEN Len(host) > Len(a.name) /\ IsSuffix(a.name, host) ELSE a.name = host

scopeMember(scope, p) ==
    p.id # None /\ (hasRole(p, "admin") \/ scope.owner = p.id \/ p.id \in scope.members)

ValidScope(scope, now) ==
    /\ scope.owner # None /\ scope.repo # None
    /\ scope.revisions # {} /\ scope.roots # {} /\ scope.ops # {}
    /\ ValidBudget(scope.budget)
    /\ scope.ops \subseteq KnownOperations /\ scope.approvalOps \subseteq scope.ops
    /\ now < scope.expires
    /\ scope.revoked # None => now < scope.revoked

(* An action is [principal, op, repo, revision, path, host, budget,          *)
(* approval].  The decision is allowed, denied or "approval".                *)
Authorize(scope, a, now) ==
    IF /\ ValidScope(scope, now)
       /\ a.principal.id # None
       /\ a.op \in KnownOperations /\ principalMay(a.principal, a.op)
       /\ a.repo = scope.repo /\ a.revision \in scope.revisions /\ a.op \in scope.ops
       /\ a.path = <<>> \/ insideAnyRoot(a.path, scope.roots)
       /\ a.host = <<>> \/ hostAllowed(a.host, scope.domains)
       /\ \A r \in Resources \ {"concurrent"} : ~exceeds(a.budget[r], scope.budget[r])
    THEN IF a.op \in scope.approvalOps /\ a.approval = None THEN "approval" ELSE "allowed"
    ELSE "denied"

-----------------------------------------------------------------------------
(* Apparatus: manifests, the signed catalog that admits them, and jobs.      *)

ValidateManifest(m) ==
    /\ m.id # None /\ m.image # None
    /\ m.harnesses # {} /\ m.ops # {} /\ m.sanitizers # {}
    /\ m.ops \subseteq KnownOperations
    /\ ValidBudget(m.limits)

validateSPDX(sbom) == sbom.packages # {} /\ \A p \in sbom.packages : p.version # None /\ p.sha

validateSLSAProvenance(prov, image) == image \in prov.subjects /\ prov.pinned

validateAdmissionCatalog(cat, now) ==
    /\ cat.entries # {}
    /\ cat.issued < cat.expires /\ cat.issued <= now /\ now < cat.expires
    /\ \A e \in cat.entries :
           /\ ValidateManifest(e.manifest)
           /\ validateSPDX(e.sbom) /\ validateSLSAProvenance(e.provenance, e.manifest.image)
           /\ \A f \in cat.entries : f.manifest.id = e.manifest.id => f = e

VerifyAdmissionCatalog(cat, key, now) ==
    cat.key = key /\ cat.signed /\ validateAdmissionCatalog(cat, now)

(* The manifest with the evidence of its admission, or None.                 *)
Admit(cat, m, now) ==
    LET entry == {e \in cat.entries : e.manifest = m}
    IN IF cat = None THEN None
       ELSE IF now >= cat.expires \/ entry = {} THEN None
       ELSE LET e == CHOOSE e \in entry : TRUE
            IN [manifest |-> m, sbom |-> e.sbom, provenance |-> e.provenance,
                key |-> cat.key, expires |-> cat.expires]

ValidateAdmitted(cat, admitted, now) == Admit(cat, admitted.manifest, now) = admitted

requiresBuild(op) == op \in {"smoke_test", "fuzz", "reproduce", "minimize", "merge_corpus",
                             "coverage", "symbolize", "compare_branch", "regression_test"}
requiresCorpus(op) == op \in {"seed", "fuzz", "merge_corpus", "coverage", "regression_test"}
operationNeedsEvidence(op) == op \in {"reproduce", "minimize", "symbolize", "compare_branch"}

jobNeedsCorpus(job) ==
    IF job.op = "regression_test" THEN job.kind = "regression" ELSE requiresCorpus(job.op)
jobNeedsEvidence(job) ==
    IF job.op = "regression_test" THEN job.kind \in {"reproducer", "negative_control"}
    ELSE operationNeedsEvidence(job.op)
evidenceRoleAllowed(job, role) ==
    IF job.op = "symbolize"
    THEN role \in {"stderr_log", "revision_comparison_log", "regression_log"}
    ELSE IF job.op = "regression_test" /\ job.kind = "negative_control"
    THEN role \in {"corpus_seed", "corpus_entry"}
    ELSE role \in {"crashing_input", "minimized_input"}

ArtifactRules(op) ==
    CASE op = "inspect" -> {"apparatus_inspection"}
      [] op = "build" -> {"harness_binary", "build_provenance"}
      [] op \in {"fuzz", "reproduce"} -> {"crashing_input"}
      [] op = "minimize" -> {"minimized_input"}
      [] op = "coverage" -> {"coverage"}
      [] op = "symbolize" -> {"symbolized_stack"}
      [] op = "compare_branch" -> {"revision_comparison", "revision_comparison_log"}
      [] op = "regression_test" -> {"regression_result", "regression_log"}
      [] op = "seed" -> {"corpus_seed"}
      [] op = "merge_corpus" -> {"corpus_entry"}
      [] OTHER -> {}

(* The kind of a request is the validation-kind argument, None elsewhere.    *)
validApparatusArguments(job) ==
    /\ None \notin {job.manifest, job.harness, job.revision, job.sanitizer}
    /\ (job.op = "regression_test") = (job.kind \in {"reproducer", "regression", "negative_control"})

(* A mount is its name; where it is mounted and how is fixed by the name.    *)
validApparatusMounts(job) ==
    /\ "source" \in DOMAIN job.mounts
    /\ requiresBuild(job.op) => "build" \in DOMAIN job.mounts
    /\ jobNeedsCorpus(job) => "corpus" \in DOMAIN job.mounts
    /\ jobNeedsEvidence(job) => "evidence" \in DOMAIN job.mounts
    /\ ("patch" \in DOMAIN job.mounts) = (job.patch # None)
    /\ job.patch # None => job.op = "build"

(* The job of a request whose directories are dirs, or None.                 *)
NewJob(m, req, dirs) ==
    LET budget == IF req.budget = ZeroBudget THEN m.limits ELSE req.budget
        sanitizer == IF req.sanitizer = None THEN CHOOSE s \in m.sanitizers : TRUE ELSE req.sanitizer
    IN IF /\ ValidateManifest(m) /\ req.op \in m.ops /\ req.harness \in m.harnesses
          /\ ValidBudget(budget) /\ ~budgetExceeds(budget, m.limits)
          /\ jobNeedsEvidence(req) = (req.input # None)
          /\ req.patch # None => req.op = "build"
          /\ sanitizer \in m.sanitizers
          /\ (req.op = "regression_test") = (req.kind \in {"reproducer", "regression", "negative_control"})
       THEN [op |-> req.op, kind |-> req.kind, campaign |-> req.campaign, target |-> req.target,
             build |-> req.build, input |-> req.input, patch |-> req.patch, corr |-> req.corr,
             manifest |-> m.id, harness |-> req.harness, revision |-> req.revision,
             sanitizer |-> sanitizer, image |-> m.image, mounts |-> dirs,
             rules |-> ArtifactRules(req.op), budget |-> budget]
       ELSE None

campaignAllowsOperation(state, op) ==
    CASE op \in {"inspect", "list_harnesses"} ->
             state \notin {"draft", "scoped", "paused", "cancelled", "failed"}
      [] op = "build" -> state \in {"acquired", "primitive_assessed", "branch_checked", "novelty_reviewed"}
      [] op \in {"smoke_test", "seed"} -> state = "build_ready"
      [] op = "fuzz" -> state \in {"build_ready", "fuzzing"}
      [] op = "reproduce" -> state \in {"crash_observed", "reproduced"}
      [] op = "minimize" -> state = "reproduced"
      [] op \in {"merge_corpus", "coverage"} -> state \in {"fuzzing", "crash_observed", "reproduced"}
      [] op = "symbolize" -> state \in {"minimized", "root_caused"}
      [] op = "compare_branch" -> state \in {"primitive_assessed", "branch_checked"}
      [] op = "regression_test" -> state \in {"novelty_reviewed", "remediated"}
      [] OTHER -> FALSE

-----------------------------------------------------------------------------
(* Source trees.  An entry is [path, kind, bytes, exec]; a tree is the set   *)
(* of its files, which is what HashTree tells apart.                         *)

ReservedNames == {".git", ".agent-smith"}

ValidateSourcePath(path) ==
    path # <<>> /\ \A i \in DOMAIN path : path[i] \notin ReservedNames \cup {"..", "."}

Directories(paths) == UNION {{SubSeq(p, 1, n) : n \in 1..(Len(p) - 1)} : p \in paths}
PathsOf(entries) == {e.path : e \in entries}
TreeBytes(entries) == FoldSet(LAMBDA e, sum : sum + e.bytes, 0, entries)

WithinLimits(entries, limits) ==
    /\ TreeBytes(entries) <= limits.bytes
    /\ Cardinality(PathsOf(entries) \cup Directories(PathsOf(entries))) <= limits.files

(* The identity of a tree; control entries do not count.                     *)
HashTree(entries, limits) ==
    LET seen == {e \in entries : e.path[1] \notin ReservedNames}
    IN IF WithinLimits(seen, limits) /\ \A e \in seen : e.kind = "file"
       THEN [sha |-> seen] ELSE None

gitTreeEntries(entries, limits) ==
    IF /\ \A e \in entries : e.kind = "file" /\ ValidateSourcePath(e.path)
       /\ Cardinality(PathsOf(entries)) = Cardinality(entries)
       /\ WithinLimits(entries, limits)
    THEN entries ELSE None

(* A bundle is the sequence of its headers.  A path may be given twice only  *)
(* when it is a directory.                                                   *)
extractTar(headers, limits) ==
    LET at(k) == {i \in DOMAIN headers : headers[i].kind = k}
        files == {headers[i] : i \in at("file")}
        dirs == {headers[i].path : i \in at("dir")} \cup Directories(PathsOf(ToSet(headers)))
    IN IF /\ at("file") \cup at("dir") = DOMAIN headers
          /\ \A i \in DOMAIN headers : ValidateSourcePath(headers[i].path)
          /\ \A i \in at("dir") : headers[i].bytes = 0
          /\ Cardinality(PathsOf(files)) = Cardinality(at("file"))
          /\ PathsOf(files) \cap dirs = {}
          /\ TreeBytes(files) <= limits.bytes
          /\ Cardinality(PathsOf(files) \cup dirs) <= limits.files
       THEN files ELSE None

(* The signed manifest of pinned bundles: sources are [name, repo, bundles], *)
(* bundles [commit, sha, host].                                              *)
validateSources(sources) ==
    \A s \in sources :
        /\ s.repo # None /\ s.bundles # {}
        /\ \A t \in sources : t.name = s.name => t = s
        /\ \A b \in s.bundles : /\ b.host # <<>>
                                /\ \A d \in s.bundles : d.commit = b.commit => d = b

validateManifest(man, now) ==
    /\ man.sources # {}
    /\ man.issued < man.expires /\ man.issued <= now /\ now < man.expires
    /\ validateSources(man.sources)

VerifyManifest(man, key, now) == man.key = key /\ man.signed /\ validateManifest(man, now)

(* The pinned bundle of a commit, or None.                                   *)
Describe(man, name, commit) ==
    LET found == {d \in man.sources \X UNION {s.bundles : s \in man.sources} :
                     d[1].name = name /\ d[2] \in d[1].bundles /\ d[2].commit = commit}
    IN IF found = {} THEN None
       ELSE LET d == CHOOSE d \in found : TRUE
            IN [name |-> name, repo |-> d[1].repo, commit |-> commit, sha |-> d[2].sha,
                host |-> d[2].host, key |-> man.key, expires |-> man.expires]
=============================================================================
