------------------------------- MODULE Intake -------------------------------
(***************************************************************************)
(* The intake of the research control plane: internal/research/service     *)
(* (scopes, campaigns, targets, approvals, jobs) behind internal/server    *)
(* (research.go).  Every request is a call of its own and reads the store, *)
(* the source checkout and the capture directories in several steps, with  *)
(* other calls, checkout changes, renewals of the signed catalog and of    *)
(* the signed source manifest, and crashes between them.  The scope and    *)
(* the campaign are one each.  Refused requests change nothing here (their *)
(* audit records are not modelled).                                        *)
(***************************************************************************)
EXTENDS Policy

CONSTANTS
    Users, Roles,    \* principals and their roles
    ScopeRequest,    \* the scope its creator asks for
    ServerRoots,     \* workspace roots of the server's operator
    Manifests,       \* apparatus manifests an admin may register
    TrustedKey,
    Catalogs,        \* signed admission catalogs
    SourceManifests, \* signed manifests of pinned bundles
    GitTree,         \* [revision -> files of the commit]
    BundleOf,        \* [digest -> headers of the bundle]
    CheckoutPath,    \* where the operator's checkout is
    TargetRequests,  \* [Users -> requests to acquire a target]
    JobRequests,     \* [Users -> requests for a job]
    ApprovalIds,
    ApprovalRequests, \* [Users -> operations and correlations they ask approval for]
    Artifacts,       \* [id -> role of an artifact of the campaign]
    FirstCheckout, Checkouts, \* the checkout at first; bound: states it may be in
    Stops,           \* bound: [Users -> states they stop the campaign in]
    MaxTime, MaxRestarts, MaxMoves  \* bounds

(* Requests name revisions of the repository; None is no revision and no     *)
(* scope.                                                                    *)
ASSUME IntakeAssumption ==
    /\ MaxTime \in Nat /\ None \notin DOMAIN GitTree
    /\ \A u \in Users : \A req \in TargetRequests[u] : req.revision \in DOMAIN GitTree
    /\ {"owner", "revoked", "approvalOps"} \subseteq DOMAIN ScopeRequest
    /\ \A o \in Users \cup {ScopeRequest.owner}, t \in (0 .. MaxTime) \cup {ScopeRequest.revoked} :
          [ScopeRequest EXCEPT !.owner = o, !.revoked = t] # None

VARIABLES
    now,
    scope,      \* the stored scope, or None
    campaign,   \* the stored campaign: state, version and target
    apparatus,  \* admitted manifests of the store
    catalog,    \* catalog of this server process
    sources,    \* source manifest of this server process
    checkout,   \* head and dirtiness of the operator's checkout
    capture,    \* [target -> captured tree, or None]
    targets,    \* [stored target -> its record]
    builds,     \* stored builds
    approvals,  \* [stored approval -> its record]
    jobs,       \* jobs the broker accepted
    call,       \* the request each user has in progress
    restarts, moves

vars == <<now, scope, campaign, apparatus, catalog, sources, checkout, capture, targets, builds,
          approvals, jobs, call, restarts, moves>>

Revisions == DOMAIN GitTree
Idle == [kind |-> "idle"]
P(u) == [id |-> u, roles |-> Roles[u]]
MaxOfScope == [r \in Resources |-> IF r \in {"wall", "disk", "inodes"} THEN scope.budget[r] ELSE 0]
Limits == [files |-> scope.budget["inodes"], bytes |-> scope.budget["disk"]]

Set(u, c) == call' = [call EXCEPT ![u] = c]

(* A table with no rows, and one with a row more.                            *)
NoRows == [id \in {} |-> None]
Insert(table, id, row) == [i \in DOMAIN table \cup {id} |-> IF i = id THEN row ELSE table[i]]

-----------------------------------------------------------------------------
(* Server start: the signed documents are verified before they are used.     *)

buildResearchRuntime(c, s) ==
    /\ VerifyAdmissionCatalog(c, TrustedKey, now) /\ VerifyManifest(s, TrustedKey, now)
    /\ catalog' = c /\ sources' = s

Init ==
    /\ now = 0 /\ scope = None
    /\ campaign = [state |-> "none", version |-> 0, target |-> None]
    /\ apparatus = {} /\ builds = {} /\ jobs = {}
    /\ catalog \in {c \in Catalogs : VerifyAdmissionCatalog(c, TrustedKey, 0)}
    /\ sources \in {s \in SourceManifests : VerifyManifest(s, TrustedKey, 0)}
    /\ checkout = FirstCheckout
    /\ capture = [r \in Revisions |-> None]
    /\ targets = NoRows /\ approvals = NoRows
    /\ call = [u \in Users |-> Idle]
    /\ restarts = 0 /\ moves = 0

(* The process dies with its calls and starts again, perhaps with renewed    *)
(* documents; temporary directories of captures are never looked at.         *)
Restart ==
    /\ restarts < MaxRestarts
    /\ restarts' = restarts + 1
    /\ call' = [u \in Users |-> Idle]
    /\ \E c \in Catalogs, s \in SourceManifests : buildResearchRuntime(c, s)
    /\ UNCHANGED <<now, scope, campaign, apparatus, checkout, capture, targets, builds, approvals, jobs, moves>>

Tick ==
    /\ now < MaxTime
    /\ now' = now + 1
    /\ UNCHANGED <<scope, campaign, apparatus, catalog, sources, checkout, capture, targets, builds,
                   approvals, jobs, call, restarts, moves>>

(* Somebody works in the checkout.                                           *)
MoveCheckout ==
    /\ moves < MaxMoves
    /\ moves' = moves + 1
    /\ checkout' \in Checkouts \ {checkout}
    /\ UNCHANGED <<now, scope, campaign, apparatus, catalog, sources, capture, targets, builds,
                   approvals, jobs, call, restarts>>

-----------------------------------------------------------------------------
(* Scopes, apparatus, campaigns.                                             *)

CreateScope(u) ==
    /\ scope = None
    /\ hasAnyRole(P(u), {"admin", "operator"})
    /\ LET s == [ScopeRequest EXCEPT !.owner = IF @ = None THEN u ELSE @]
       IN /\ s.owner = u \/ hasRole(P(u), "admin")
          /\ \A r \in s.roots : insideAnyRoot(r, ServerRoots)
          /\ ValidScope(s, now)
          /\ \A m \in s.apparatus : \E a \in apparatus : a.manifest.id = m
          /\ scope' = s
    /\ UNCHANGED <<now, campaign, apparatus, catalog, sources, checkout, capture, targets, builds,
                   approvals, jobs, call, restarts, moves>>

RevokeScope(u) ==
    /\ scope # None
    /\ u = scope.owner \/ hasRole(P(u), "admin")
    /\ scope' = [scope EXCEPT !.revoked = IF @ = None \/ now < @ THEN now ELSE @]
    /\ UNCHANGED <<now, campaign, apparatus, catalog, sources, checkout, capture, targets, builds,
                   approvals, jobs, call, restarts, moves>>

(* The store inserts a manifest once and never replaces it.                  *)
RegisterApparatus(u, m) ==
    /\ hasRole(P(u), "admin")
    /\ LET admitted == Admit(catalog, m, now)
       IN /\ admitted # None
          /\ ValidateManifest(m)
          /\ \A a \in apparatus : a.manifest.id # m.id
          /\ apparatus' = apparatus \cup {admitted}
    /\ UNCHANGED <<now, scope, campaign, catalog, sources, checkout, capture, targets, builds,
                   approvals, jobs, call, restarts, moves>>

CreateCampaign(u) ==
    /\ campaign.state = "none"
    /\ hasAnyRole(P(u), {"operator", "admin"})
    /\ scope # None /\ ValidScope(scope, now)
    /\ u = scope.owner \/ hasRole(P(u), "admin")
    /\ campaign' = [state |-> "draft", version |-> 1, target |-> None]
    /\ UNCHANGED <<now, scope, apparatus, catalog, sources, checkout, capture, targets, builds,
                   approvals, jobs, call, restarts, moves>>

CanReadCampaign(u) == campaign.state # "none" /\ scopeMember(scope, P(u))

(* The campaign c moved to state to, or c itself when the move is refused.   *)
Advance(c, to, target) ==
    LET terminal == c.state \in {"cancelled", "failed"}
        moved == [c EXCEPT !.state = to, !.version = @ + 1]
    IN IF to \in {"paused", "cancelled", "failed"} THEN IF terminal \/ c.state = to THEN c ELSE moved
       ELSE IF <<c.state, to>> \in {<<"draft", "scoped">>, <<"acquired", "build_ready">>,
                                    <<"build_ready", "primitive_assessed">>} THEN moved
       ELSE IF c.state = "scoped" /\ to = "acquired" THEN [moved EXCEPT !.target = target]
       ELSE c

\* Mutant: the campaign is written without comparing its version.
UpdateCampaignBlind(updated, expected) == campaign' = updated

(* Compare and swap on the version.                                          *)
UpdateCampaign(updated, expected) ==
    campaign' = IF campaign.version = expected THEN updated ELSE campaign

(* A member moves the campaign to scoped, or stops it; every other state is  *)
(* refused by the handler.  The campaign is read first and written at the    *)
(* end of the call.                                                          *)
handleResearchTransition(u, to) ==
    /\ call[u] = Idle
    /\ to \in {"scoped", "paused", "cancelled", "failed"}
    /\ hasAnyRole(P(u), {"operator", "admin"})
    /\ ValidScope(scope, now)
    /\ u = scope.owner \/ hasRole(P(u), "admin")
    /\ Advance(campaign, to, None) # campaign
    /\ Set(u, [kind |-> "transition", updated |-> Advance(campaign, to, None), read |-> campaign.version])
    /\ UNCHANGED <<now, scope, campaign, apparatus, catalog, sources, checkout, capture, targets, builds,
                   approvals, jobs, restarts, moves>>

Transition(u) ==
    /\ call[u].kind = "transition"
    /\ UpdateCampaign(call[u].updated, call[u].read)
    /\ Set(u, Idle)
    /\ UNCHANGED <<now, scope, apparatus, catalog, sources, checkout, capture, targets, builds,
                   approvals, jobs, restarts, moves>>

-----------------------------------------------------------------------------
(* Approvals.                                                                *)

RequestApproval(u, id, op, corr) ==
    /\ hasAnyRole(P(u), {"operator", "admin"}) /\ scopeMember(scope, P(u))
    /\ op \in KnownOperations \ {"purge_artifact"}
    /\ id \notin DOMAIN approvals
    /\ approvals' = Insert(approvals, id,
           [op |-> op, corr |-> corr, status |-> "pending", by |-> u, decidedBy |-> None])
    /\ UNCHANGED <<now, scope, campaign, apparatus, catalog, sources, checkout, capture, targets, builds,
                   jobs, call, restarts, moves>>

mayDecide(u, a) ==
    /\ scopeMember(scope, P(u))
    /\ a.by # u \/ (a.op # "purge_artifact" /\ hasRole(P(u), "admin"))

(* The reviewer's call reads the approval, and writes it later.              *)
DecideApproval(u, id, approved) ==
    /\ call[u] = Idle
    /\ hasAnyRole(P(u), {"reviewer", "admin"})
    /\ id \in DOMAIN approvals
    /\ mayDecide(u, approvals[id]) /\ approvals[id].status = "pending"
    /\ Set(u, [kind |-> "decide", id |-> id,
               value |-> [approvals[id] EXCEPT !.status = IF approved THEN "approved" ELSE "denied",
                                               !.decidedBy = u]])
    /\ UNCHANGED <<now, scope, campaign, apparatus, catalog, sources, checkout, capture, targets, builds,
                   approvals, jobs, restarts, moves>>

SaveApproval(u) ==
    /\ call[u].kind = "decide"
    /\ approvals' = [approvals EXCEPT ![call[u].id] = call[u].value]
    /\ Set(u, Idle)
    /\ UNCHANGED <<now, scope, campaign, apparatus, catalog, sources, checkout, capture, targets, builds,
                   jobs, restarts, moves>>

\* Mutant: the approval of one request is good for every other.
approvalMatchesAnyRequest(id, op, corr) ==
    id \in DOMAIN approvals /\ approvals[id].status = "approved" /\ approvals[id].op = op

approvalMatches(id, op, corr) ==
    id \in DOMAIN approvals /\ LET a == approvals[id]
                             IN a.status = "approved" /\ a.op = op /\ a.corr = corr

AuthorizeAction(action, corr) ==
    /\ scopeMember(scope, action.principal)
    /\ Authorize(scope, action, now) = "allowed"
    /\ action.approval # None => approvalMatches(action.approval, action.op, corr)

-----------------------------------------------------------------------------
(* Targets.  A request is [revision, name, dir, approval, corr]; name is the *)
(* fixed source, or None for a local checkout.  The target of a campaign is  *)
(* identified by its revision.                                               *)

(* The host the acquisition reaches, or "refused".                           *)
targetAcquisitionPolicy(req) ==
    IF req.name = None THEN IF req.dir = <<>> THEN "refused" ELSE <<>>
    ELSE IF req.dir # <<>> \/ sources = None THEN "refused"
    ELSE LET d == Describe(sources, req.name, req.revision)
         IN IF d = None THEN "refused" ELSE IF d.repo # scope.repo THEN "refused" ELSE d.host

mayAcquire(u, req) ==
    LET host == targetAcquisitionPolicy(req)
    IN /\ hasAnyRole(P(u), {"operator", "admin"})
       /\ host # "refused"
       /\ AuthorizeAction([principal |-> P(u), op |-> "acquire", repo |-> scope.repo,
                           revision |-> req.revision, path |-> req.dir, host |-> host,
                           budget |-> MaxOfScope, approval |-> req.approval], req.corr)

BeginCapture(u, req, kind) ==
    /\ mayAcquire(u, req)
    /\ Set(u, [kind |-> kind, phase |-> IF req.name = None THEN "export" ELSE "fetch",
               req |-> req, read |-> campaign, tree |-> None, provenance |-> None])
    /\ UNCHANGED <<now, scope, campaign, apparatus, catalog, sources, checkout, capture, targets, builds,
                   approvals, jobs, restarts, moves>>

AcquireTarget(u, req) ==
    /\ call[u] = Idle
    /\ campaign.state = "scoped"
    /\ BeginCapture(u, req, "acquire")

(* A confirmed finding asks for another revision; its correlation names it.  *)
AcquireComparisonTarget(u, req) ==
    /\ call[u] = Idle
    /\ campaign.state = "primitive_assessed"
    /\ req.corr = <<"target", req.revision>>
    /\ BeginCapture(u, req, "compare")

CaptureStep(u, phase) == call[u].kind \in {"acquire", "compare"} /\ call[u].phase = phase

CaptureUnchanged ==
    UNCHANGED <<now, scope, campaign, apparatus, catalog, sources, checkout, builds, approvals, jobs,
                restarts, moves>>

VerifyGitCheckout(req) == req.dir = CheckoutPath /\ checkout.head = req.revision

(* The files come from the objects of the commit, not from the checkout.     *)
CaptureGitCheckout(u) ==
    /\ CaptureStep(u, "export")
    /\ LET req == call[u].req
           files == gitTreeEntries(GitTree[req.revision], Limits)
           tree == IF files = None THEN None ELSE HashTree(files, Limits)
       IN Set(u, IF VerifyGitCheckout(req) /\ tree # None
                 THEN [call[u] EXCEPT !.phase = "confirm", !.tree = tree,
                                      !.provenance = [method |-> "git"]]
                 ELSE Idle)
    /\ UNCHANGED <<capture, targets>> /\ CaptureUnchanged

(* The checkout must hold the same files and still be at the commit.         *)
ConfirmCheckout(u) ==
    /\ CaptureStep(u, "confirm")
    /\ Set(u, IF VerifyGitCheckout(call[u].req) /\ ~checkout.dirty
              THEN [call[u] EXCEPT !.phase = "install"] ELSE Idle)
    /\ UNCHANGED <<capture, targets>> /\ CaptureUnchanged

validateManifestTime == now < sources.expires

(* The download is whatever the origin serves; it must have the pinned       *)
(* digest.                                                                   *)
Fetch(u) ==
    /\ CaptureStep(u, "fetch")
    /\ \E served \in DOMAIN BundleOf :
         LET d == Describe(sources, call[u].req.name, call[u].req.revision)
             written == TreeBytes(ToSet(BundleOf[served]))
             files == extractTar(BundleOf[served], [Limits EXCEPT !.bytes = @ - written])
             tree == IF files = None THEN None ELSE HashTree(files, Limits)
         IN Set(u, IF validateManifestTime /\ served = d.sha /\ tree # None
                   THEN [call[u] EXCEPT !.phase = "fetched", !.tree = tree,
                                        !.provenance = [method |-> "tar", pin |-> d]]
                   ELSE Idle)
    /\ UNCHANGED <<capture, targets>> /\ CaptureUnchanged

ConfirmManifest(u) ==
    /\ CaptureStep(u, "fetched")
    /\ Set(u, IF validateManifestTime THEN [call[u] EXCEPT !.phase = "install"] ELSE Idle)
    /\ UNCHANGED <<capture, targets>> /\ CaptureUnchanged

\* Mutant: a capture directory that exists is taken for this capture.
SameCaptureAssumed(existing, tree) == TRUE

SameCapture(existing, tree) == existing = tree

(* A directory that exists must hold the same tree; one that does not is     *)
(* made by a rename, which fails when another call was faster.               *)
InstallCapture(u) ==
    /\ CaptureStep(u, "install")
    /\ LET c == call[u] existing == capture[c.req.revision]
       IN Set(u, IF existing = None THEN [c EXCEPT !.phase = "rename"]
                 ELSE IF SameCapture(existing, c.tree) THEN [c EXCEPT !.phase = "record"] ELSE Idle)
    /\ UNCHANGED <<capture, targets>> /\ CaptureUnchanged

RenameCapture(u) ==
    /\ CaptureStep(u, "rename")
    /\ LET r == call[u].req.revision
       IN IF capture[r] = None
          THEN capture' = [capture EXCEPT ![r] = call[u].tree] /\ Set(u, [call[u] EXCEPT !.phase = "record"])
          ELSE UNCHANGED capture /\ Set(u, Idle)
    /\ UNCHANGED targets /\ CaptureUnchanged

sameTargetIdentity(left, right) == left = right

captureTarget(c) ==
    [repo |-> scope.repo, commit |-> c.req.revision, tree |-> c.tree, provenance |-> c.provenance]

(* A record that exists must have the same identity, provenance and expiry   *)
(* of the source manifest included.                                          *)
RecordTarget(u) ==
    /\ CaptureStep(u, "record")
    /\ LET c == call[u] r == c.req.revision
       IN Set(u, IF r \notin DOMAIN targets THEN [c EXCEPT !.phase = "save"]
                 ELSE IF ~sameTargetIdentity(targets[r], captureTarget(c)) THEN Idle
                 ELSE IF c.kind = "acquire" THEN [c EXCEPT !.phase = "advance"] ELSE Idle)
    /\ UNCHANGED <<capture, targets>> /\ CaptureUnchanged

(* An insert, which fails when the record exists.                            *)
SaveTarget(u) ==
    /\ CaptureStep(u, "save")
    /\ LET c == call[u] r == c.req.revision
       IN IF r \notin DOMAIN targets
          THEN /\ targets' = Insert(targets, r, captureTarget(c))
               /\ Set(u, IF c.kind = "acquire" THEN [c EXCEPT !.phase = "advance"] ELSE Idle)
          ELSE UNCHANGED targets /\ Set(u, Idle)
    /\ UNCHANGED capture /\ CaptureUnchanged

AdvanceAcquired(u) ==
    /\ CaptureStep(u, "advance")
    /\ UpdateCampaign(Advance(call[u].read, "acquired", call[u].req.revision), call[u].read.version)
    /\ Set(u, Idle)
    /\ UNCHANGED <<now, scope, apparatus, catalog, sources, checkout, capture, targets, builds, approvals,
                   jobs, restarts, moves>>

VerifiedCapture(t) == t \in DOMAIN targets /\ capture[t] # None /\ capture[t] = targets[t].tree

-----------------------------------------------------------------------------
(* Jobs.                                                                     *)

admittedManifest(id) == CHOOSE a \in apparatus : a.manifest.id = id
knownManifest(id) == \E a \in apparatus : a.manifest.id = id
BuildWithId(id) == CHOOSE b \in builds : b.id = id

PreauthorizeEnqueue(u, op, revision, budget, approval, corr) ==
    /\ corr # None /\ ValidBudget(budget)
    /\ campaignAllowsOperation(campaign.state, op)
    /\ AuthorizeAction([principal |-> P(u), op |-> op, repo |-> scope.repo, revision |-> revision,
                        path |-> <<>>, host |-> <<>>, budget |-> budget, approval |-> approval], corr)

(* The target a request means: that of its build, the one it names, or the   *)
(* campaign's.                                                               *)
selectedTarget(req) ==
    IF req.build # None THEN BuildWithId(req.build).target
    ELSE IF req.target # None THEN req.target ELSE campaign.target

(* Directories the server prepares for the mounts of the job.                *)
preparedMounts(req, t) ==
    LET dirs == [source |-> <<"source", t>>, build |-> <<"build", req.build>>,
                 corpus |-> <<"corpus", req.harness>>, evidence |-> <<"evidence", req.op, req.input>>,
                 patch |-> <<"evidence", "build", req.patch>>]
        names == {"source"} \cup (IF req.build # None THEN {"build"} ELSE {})
                 \cup (IF jobNeedsCorpus(req) THEN {"corpus"} ELSE {})
                 \cup (IF req.input # None THEN {"evidence"} ELSE {})
                 \cup (IF req.patch # None THEN {"patch"} ELSE {})
    IN [n \in names |-> dirs[n]]

(* POST jobs: everything is read and checked once before directories are     *)
(* prepared.                                                                 *)
handleResearchJobs(u, req) ==
    /\ call[u] = Idle
    /\ knownManifest(req.manifest)
    /\ req.build # None => /\ \E b \in builds : b.id = req.build
                           /\ req.target \in {None, BuildWithId(req.build).target}
    /\ LET t == selectedTarget(req)
           m == admittedManifest(req.manifest).manifest
           job == NewJob(m, [req EXCEPT !.target = t], preparedMounts(req, t))
       IN /\ t \in DOMAIN targets /\ req.revision = targets[t].commit
          /\ PreauthorizeEnqueue(u, req.op, req.revision,
                                 IF req.budget = ZeroBudget THEN m.limits ELSE req.budget,
                                 req.approval, req.corr)
          /\ VerifiedCapture(t)
          /\ job # None
          /\ Set(u, [kind |-> "job", phase |-> "prepared", job |-> job, approval |-> req.approval])
    /\ UNCHANGED <<now, scope, campaign, apparatus, catalog, sources, checkout, capture, targets, builds,
                   approvals, jobs, restarts, moves>>

\* Mutant: the persisted admission is not compared with the trusted catalog.
apparatusStillNamed(job) ==
    /\ job.manifest \in scope.apparatus
    /\ Admit(catalog, admittedManifest(job.manifest).manifest, now) # None

apparatusAdmitted(job) ==
    /\ job.manifest \in scope.apparatus
    /\ ValidateAdmitted(catalog, admittedManifest(job.manifest), now)

matchesManifest(job) ==
    LET m == admittedManifest(job.manifest).manifest
    IN /\ m.image = job.image /\ job.op \in m.ops /\ job.harness \in m.harnesses
       /\ job.sanitizer \in m.sanitizers /\ job.rules = ArtifactRules(job.op)
       /\ ~budgetExceeds(job.budget, m.limits)
       /\ validApparatusArguments(job) /\ validApparatusMounts(job)

matchesTarget(job) ==
    /\ job.target \in DOMAIN targets /\ targets[job.target].repo = scope.repo
    /\ VerifiedCapture(job.target) /\ job.mounts["source"] = <<"source", job.target>>
    /\ job.revision = targets[job.target].commit

matchesEvidence(job) ==
    IF jobNeedsEvidence(job)
    THEN /\ job.input \in DOMAIN Artifacts /\ evidenceRoleAllowed(job, Artifacts[job.input])
         /\ job.mounts["evidence"] = <<"evidence", job.op, job.input>>
    ELSE job.input = None

matchesPatch(job) ==
    IF job.patch # None
    THEN /\ job.op = "build" /\ campaign.state = "novelty_reviewed" /\ job.target = campaign.target
         /\ Artifacts[job.patch] = "candidate_patch"
         /\ job.mounts["patch"] = <<"evidence", "build", job.patch>>
    ELSE ~(job.op = "build" /\ campaign.state = "novelty_reviewed")

\* Mutant: the build may come from any apparatus.
matchesBuildOfTarget(job) ==
    requiresBuild(job.op) => \E b \in builds : b.id = job.build /\ b.target = job.target

matchesBuild(job) ==
    IF requiresBuild(job.op)
    THEN \E b \in builds : /\ b.id = job.build /\ b.target = job.target
                           /\ b.manifest = job.manifest /\ b.image = job.image
                           /\ b.sanitizer = job.sanitizer /\ b.harness = job.harness
    ELSE job.build = None

(* Enqueue repeats every check on the finished job.  All mounts are internal *)
(* directories of the campaign, so no workspace path is asked for.           *)
Enqueue(u) ==
    /\ call[u].kind = "job" /\ call[u].phase = "prepared"
    /\ LET job == call[u].job
           ok == /\ PreauthorizeEnqueue(u, job.op, job.revision, job.budget, call[u].approval, job.corr)
                 /\ apparatusAdmitted(job) /\ matchesManifest(job) /\ matchesTarget(job)
                 /\ matchesEvidence(job) /\ matchesPatch(job) /\ matchesBuild(job)
       IN Set(u, IF ok THEN [call[u] EXCEPT !.phase = "authorized"] ELSE Idle)
    /\ UNCHANGED <<now, scope, campaign, apparatus, catalog, sources, checkout, capture, targets, builds,
                   approvals, jobs, restarts, moves>>

(* Broker.Submit stores the run; what becomes of it is the Broker module's.  *)
Submit(u) ==
    /\ call[u].kind = "job" /\ call[u].phase = "authorized"
    /\ jobs' = jobs \cup {[job |-> call[u].job, approval |-> call[u].approval]}
    /\ Set(u, Idle)
    /\ UNCHANGED <<now, scope, campaign, apparatus, catalog, sources, checkout, capture, targets, builds,
                   approvals, restarts, moves>>

-----------------------------------------------------------------------------
(* The evidence pipeline, as far as the intake sees it.                      *)

(* A build run completes: the build is stored, and the first one of the      *)
(* campaign's target moves the campaign.                                     *)
ingestBuild(j) ==
    /\ j.job.op = "build"
    /\ LET b == [id |-> <<j.job.target, j.job.manifest>>, target |-> j.job.target, image |-> j.job.image,
                 manifest |-> j.job.manifest, sanitizer |-> j.job.sanitizer, harness |-> j.job.harness]
       IN b \notin builds /\ builds' = builds \cup {b}
    /\ campaign' = IF campaign.state = "acquired" THEN Advance(campaign, "build_ready", None) ELSE campaign
    /\ UNCHANGED <<now, scope, apparatus, catalog, sources, checkout, capture, targets, approvals, jobs,
                   call, restarts, moves>>

(* Stands for the runs from the first fuzzing run to the assessment.         *)
AssessPrimitive ==
    /\ campaign.state = "build_ready"
    /\ campaign' = Advance(campaign, "primitive_assessed", None)
    /\ UNCHANGED <<now, scope, apparatus, catalog, sources, checkout, capture, targets, builds, approvals,
                   jobs, call, restarts, moves>>

-----------------------------------------------------------------------------
(* Requests: every one has a principal; a campaign's subresources are for    *)
(* members.                                                                  *)

withAuthentication(u) == Roles[u] # {}

handleResearchScopes(u) == CreateScope(u)
handleResearchApparatuses(u) == \E m \in Manifests : RegisterApparatus(u, m)
handleCampaignApprovals(u) ==
    \E id \in ApprovalIds, r \in ApprovalRequests[u] : RequestApproval(u, id, r.op, r.corr)
handleResearchApproval(u) == \E id \in ApprovalIds, b \in BOOLEAN : DecideApproval(u, id, b)
handleResearchTarget(u) == \E r \in TargetRequests[u] : AcquireTarget(u, r)
handleResearchTargets(u) == \E r \in TargetRequests[u] : AcquireComparisonTarget(u, r)

handleResearchCampaigns(u) ==
    \/ CreateCampaign(u)
    \/ /\ CanReadCampaign(u)
       /\ \/ \E to \in {"scoped"} \cup Stops[u] : handleResearchTransition(u, to)
          \/ handleResearchTarget(u)
          \/ handleResearchTargets(u)
          \/ handleCampaignApprovals(u)
          \/ \E r \in JobRequests[u] : handleResearchJobs(u, r)

handleResearch(u) ==
    \/ handleResearchScopes(u)
    \/ handleResearchCampaigns(u)
    \/ handleResearchApparatuses(u)
    \/ handleResearchApproval(u)

Next ==
    \/ Restart \/ Tick \/ MoveCheckout \/ AssessPrimitive
    \/ \E j \in jobs : ingestBuild(j)
    \/ \E u \in Users :
         \/ withAuthentication(u) /\ handleResearch(u)
         \/ RevokeScope(u)
         \/ Transition(u) \/ SaveApproval(u)
         \/ CaptureGitCheckout(u) \/ ConfirmCheckout(u) \/ Fetch(u) \/ ConfirmManifest(u)
         \/ InstallCapture(u) \/ RenameCapture(u) \/ RecordTarget(u) \/ SaveTarget(u)
         \/ AdvanceAcquired(u)
         \/ Enqueue(u) \/ Submit(u)

Spec == Init /\ [][Next]_vars

-----------------------------------------------------------------------------
(* Properties.                                                               *)

(* The record of a target names the tree that is in its capture directory,   *)
(* though calls for the same revision capture it at the same time, from the  *)
(* checkout and from a pinned bundle, and may die half way; and a campaign   *)
(* points to a target only after its record is stored.                       *)
RecordedTargetsCaptured ==
    /\ \A r \in DOMAIN targets : VerifiedCapture(r)
    /\ campaign.target # None => campaign.target \in DOMAIN targets

(* A job of an operation that needs approval was let in by an approval for   *)
(* that operation and correlation which a member has decided: somebody other *)
(* than its requester, or an admin.                                          *)
GatedJobsApproved ==
    \A j \in jobs : j.job.op \in scope.approvalOps =>
        /\ j.approval \in DOMAIN approvals
        /\ LET a == approvals[j.approval]
           IN /\ a.op = j.job.op /\ a.corr = j.job.corr
              /\ a.decidedBy # None
              /\ a.decidedBy # a.by \/ "admin" \in Roles[a.decidedBy]

(* An accepted job runs on the tree of its own target, and with a build only *)
(* if that was made from this target by the same apparatus: a build of the   *)
(* compared revision or of another image is never mistaken for it.           *)
JobsMatchEvidence ==
    \A j \in jobs :
        /\ VerifiedCapture(j.job.target) /\ j.job.revision = targets[j.job.target].commit
        /\ j.job.build # None =>
             \E b \in builds : /\ b.id = j.job.build /\ b.target = j.job.target
                               /\ b.manifest = j.job.manifest /\ b.image = j.job.image

(* A job is only accepted for an apparatus whose stored admission is what    *)
(* the catalog of the running server says: after a restart with another      *)
(* catalog, an apparatus with other supply-chain evidence launches nothing.  *)
JobsUseTrustedApparatus ==
    [][\A j \in jobs' \ jobs :
          \E e \in catalog.entries, a \in apparatus :
             /\ e.manifest.id = j.job.manifest /\ a.manifest = e.manifest
             /\ a.sbom = e.sbom /\ a.provenance = e.provenance]_vars

(* Acquisitions, transitions and the pipeline write the campaign from what   *)
(* they read earlier; the campaign still lives as CampaignLife says.         *)
Life == INSTANCE CampaignLife WITH state <- campaign.state, target <- campaign.target
CampaignLives == Life!LifeSpec
=============================================================================
