---------------------------- MODULE IntakeProofs ----------------------------
(***************************************************************************)
(* The intake of the research control plane keeps its promises for any     *)
(* number of principals, requests, checkout moves, renewals of the signed  *)
(* documents and restarts: the campaign lives as CampaignLife says, target *)
(* records name captured trees, and accepted jobs match their evidence,    *)
(* their approvals and the admitted apparatus.                             *)
(***************************************************************************)
EXTENDS Intake, TLAPS

-----------------------------------------------------------------------------
(* The stored records. *)

Stopping == {"paused", "cancelled", "failed"}
States == {"none", "draft", "scoped", "acquired", "build_ready", "primitive_assessed"}
          \cup Stopping
Campaign == [state : States, version : Nat, target : Revisions \cup {None}]

ScopeMade(s) ==
    \E o \in Users \cup {ScopeRequest.owner}, t \in (0 .. MaxTime) \cup {ScopeRequest.revoked} :
        s = [ScopeRequest EXCEPT !.owner = o, !.revoked = t]

ApprovalFields == {"op", "corr", "status", "by", "decidedBy"}

\* A member decided it: not its requester, or an admin.
Decided(a) ==
    /\ a.decidedBy # None
    /\ a.decidedBy # a.by \/ "admin" \in Roles[a.decidedBy]

StoreInv ==
    /\ now \in 0 .. MaxTime
    /\ scope = None \/ ScopeMade(scope)
    /\ campaign \in Campaign
    /\ campaign.state = "none" => campaign.version = 0 /\ campaign.target = None
    /\ campaign.state # "none" => scope # None
    /\ DOMAIN capture = Revisions
    /\ DOMAIN targets \subseteq Revisions
    /\ \A i \in DOMAIN approvals : /\ DOMAIN approvals[i] = ApprovalFields
                                   /\ approvals[i].status = "approved" => Decided(approvals[i])
    /\ None \notin apparatus

-----------------------------------------------------------------------------
(* The calls in progress.  What a call read of the campaign is older than    *)
(* the stored one or equal to it; what it knows of captures, targets,        *)
(* builds, approvals and apparatus stays true, since these are only added to. *)

Seen(c) ==
    /\ c \in Campaign
    /\ c.version <= campaign.version
    /\ c.version = campaign.version => c = campaign

TransitionCall(c) ==
    \E r \in Campaign, to \in {"scoped"} \cup Stopping :
        /\ Seen(r) /\ r.state # "none" /\ c.read = r.version
        /\ c.updated = Advance(r, to, None) /\ c.updated # r

DecideCall(c) ==
    /\ c.id \in DOMAIN approvals
    /\ DOMAIN c.value = ApprovalFields
    /\ c.value.op = approvals[c.id].op /\ c.value.corr = approvals[c.id].corr
    /\ Decided(c.value)

CaptureFields == {"kind", "phase", "req", "read", "tree", "provenance"}
JobFields == {"kind", "phase", "job", "approval"}

CaptureCall(c) ==
    /\ DOMAIN c = CaptureFields
    /\ c.req.revision \in Revisions
    /\ c.kind = "acquire" => Seen(c.read) /\ c.read.state = "scoped"
    /\ c.phase \in {"confirm", "fetched", "install", "rename", "record", "save", "advance"} =>
          c.tree # None
    /\ c.phase \in {"record", "save", "advance"} => capture[c.req.revision] = c.tree
    /\ c.phase = "advance" => c.kind = "acquire" /\ c.req.revision \in DOMAIN targets

\* What the properties ask of an accepted job.
JobBacked(job) ==
    /\ VerifiedCapture(job.target) /\ job.revision = targets[job.target].commit
    /\ job.build # None =>
         \E b \in builds : /\ b.id = job.build /\ b.target = job.target
                           /\ b.manifest = job.manifest /\ b.image = job.image

JobGated(job, id) ==
    job.op \in scope.approvalOps =>
        /\ id \in DOMAIN approvals
        /\ approvals[id].op = job.op /\ approvals[id].corr = job.corr
        /\ Decided(approvals[id])

JobTrusted(job) ==
    \E e \in catalog.entries, a \in apparatus :
        /\ e.manifest.id = job.manifest /\ a.manifest = e.manifest
        /\ a.sbom = e.sbom /\ a.provenance = e.provenance

JobCall(c) ==
    /\ DOMAIN c = JobFields
    /\ scope # None
    /\ knownManifest(c.job.manifest)
    /\ c.phase = "authorized" =>
          JobBacked(c.job) /\ JobGated(c.job, c.approval) /\ JobTrusted(c.job)

CallInv(c) ==
    /\ c.kind = "transition" => TransitionCall(c)
    /\ c.kind = "decide" => DecideCall(c)
    /\ c.kind \in {"acquire", "compare"} => CaptureCall(c)
    /\ c.kind = "job" => JobCall(c)

CallsInv == DOMAIN call = Users /\ \A u \in Users : CallInv(call[u])

JobsInv ==
    /\ jobs # {} => scope # None
    /\ \A j \in jobs : JobBacked(j.job) /\ JobGated(j.job, j.approval)

IntakeInv == StoreInv /\ CallsInv /\ RecordedTargetsCaptured /\ JobsInv

-----------------------------------------------------------------------------
(* How the store grows. *)

TargetsGrow ==
    /\ \A r \in Revisions : capture[r] # None => capture'[r] = capture[r]
    /\ \A t \in DOMAIN targets : t \in DOMAIN targets' /\ targets'[t] = targets[t]

ApprovalsGrow ==
    \A i \in DOMAIN approvals :
        /\ i \in DOMAIN approvals'
        /\ approvals'[i].op = approvals[i].op /\ approvals'[i].corr = approvals[i].corr
        /\ Decided(approvals[i]) => Decided(approvals'[i])

ScopeStands == scope # None => scope' # None /\ scope'.approvalOps = scope.approvalOps

Grows ==
    /\ \A c : Seen(c) => Seen(c)'
    /\ TargetsGrow /\ ApprovalsGrow /\ ScopeStands
    /\ builds \subseteq builds' /\ apparatus \subseteq apparatus'

LEMMA Still ==
  ASSUME UNCHANGED <<scope, campaign, apparatus, capture, targets, builds, approvals>>
  PROVE  Grows
  BY DEF Grows, Seen, TargetsGrow, ApprovalsGrow, ScopeStands

LEMMA BackedGrows ==
  ASSUME StoreInv, Grows, NEW job, JobBacked(job)
  PROVE  JobBacked(job)'
<1>1. job.target \in Revisions /\ job.target \in DOMAIN targets
  BY DEF StoreInv, JobBacked, VerifiedCapture
<1>2. VerifiedCapture(job.target)'
  BY <1>1 DEF Grows, TargetsGrow, JobBacked, VerifiedCapture
<1>3. targets'[job.target] = targets[job.target]
  BY <1>1 DEF Grows, TargetsGrow
<1>. QED  BY <1>2, <1>3 DEF JobBacked, Grows

LEMMA GatedGrows ==
  ASSUME Grows, scope # None, NEW job, NEW id, JobGated(job, id)
  PROVE  JobGated(job, id)'
  BY DEF Grows, ScopeStands, ApprovalsGrow, JobGated

LEMMA JobsGrow ==
  ASSUME StoreInv, Grows, JobsInv, jobs' = jobs
  PROVE  JobsInv'
  BY BackedGrows, GatedGrows DEF JobsInv, Grows, ScopeStands

LEMMA RecordedGrows ==
  ASSUME StoreInv, Grows, RecordedTargetsCaptured, targets' = targets,
         campaign'.target \in {campaign.target, None}
  PROVE  RecordedTargetsCaptured'
<1>1. \A r \in DOMAIN targets : r \in Revisions /\ capture[r] # None /\ capture[r] = targets[r].tree
  BY DEF StoreInv, RecordedTargetsCaptured, VerifiedCapture
<1>2. \A r \in DOMAIN targets' : VerifiedCapture(r)'
  BY <1>1 DEF Grows, TargetsGrow, VerifiedCapture
<1>. QED  BY <1>2 DEF RecordedTargetsCaptured

\* A call in progress stays as it was while the store grows.
LEMMA CallGrows ==
  ASSUME StoreInv, Grows, catalog' = catalog, NEW c, CallInv(c)
  PROVE  CallInv(c)'
<1>1. c.kind = "transition" => TransitionCall(c)'
  <2>1. SUFFICES ASSUME TransitionCall(c)  PROVE TransitionCall(c)'
    BY DEF CallInv
  <2>2. PICK r \in Campaign, to \in {"scoped"} \cup Stopping :
            /\ Seen(r) /\ r.state # "none" /\ c.read = r.version
            /\ c.updated = Advance(r, to, None) /\ c.updated # r
    BY <2>1 DEF TransitionCall
  <2>3. Seen(r)'
    BY <2>2 DEF Grows
  <2>. QED  BY <2>2, <2>3 DEF TransitionCall
<1>2. c.kind = "decide" => DecideCall(c)'
  BY DEF CallInv, DecideCall, Grows, ApprovalsGrow, Decided
<1>3. c.kind \in {"acquire", "compare"} => CaptureCall(c)'
  <2>1. SUFFICES ASSUME CaptureCall(c)  PROVE CaptureCall(c)'
    BY DEF CallInv
  <2>2. c.kind = "acquire" => Seen(c.read)' /\ c.read.state = "scoped"
    BY <2>1 DEF CaptureCall, Grows
  <2>3. c.phase \in {"record", "save", "advance"} => capture'[c.req.revision] = c.tree
    BY <2>1 DEF CaptureCall, Grows, TargetsGrow
  <2>4. c.phase = "advance" => c.kind = "acquire" /\ c.req.revision \in DOMAIN targets'
    BY <2>1 DEF CaptureCall, Grows, TargetsGrow
  <2>. QED  BY <2>1, <2>2, <2>3, <2>4 DEF CaptureCall
<1>4. c.kind = "job" => JobCall(c)'
  <2>1. SUFFICES ASSUME JobCall(c)  PROVE JobCall(c)'
    BY DEF CallInv
  <2>2. scope # None /\ scope' # None /\ knownManifest(c.job.manifest)'
    BY <2>1 DEF JobCall, knownManifest, Grows, ScopeStands
  <2>3. ASSUME c.phase = "authorized"
        PROVE  JobBacked(c.job)' /\ JobGated(c.job, c.approval)' /\ JobTrusted(c.job)'
    <3>1. JobBacked(c.job) /\ JobGated(c.job, c.approval) /\ JobTrusted(c.job)
      BY <2>1, <2>3 DEF JobCall
    <3>2. PICK job, id : job = c.job /\ id = c.approval
      OBVIOUS
    <3>3. JobBacked(job)' /\ JobGated(job, id)'
      BY <2>2, <3>1, <3>2, BackedGrows, GatedGrows
    <3>4. JobTrusted(job)'
      BY <3>1, <3>2 DEF JobTrusted, Grows
    <3>. QED  BY <3>2, <3>3, <3>4
  <2>. QED  BY <2>1, <2>2, <2>3 DEF JobCall
<1>. QED  BY <1>1, <1>2, <1>3, <1>4 DEF CallInv

LEMMA IdleCall == CallInv(Idle) /\ CallInv(Idle)'
  BY DEF CallInv, Idle

\* One call moves, the store grows.
LEMMA CallsStep ==
  ASSUME StoreInv, CallsInv, Grows, catalog' = catalog, NEW u \in Users, NEW c,
         call' = [call EXCEPT ![u] = c], CallInv(c)'
  PROVE  CallsInv'
<1>1. DOMAIN call' = Users /\ \A v \in Users : call'[v] = IF v = u THEN c ELSE call[v]
  BY DEF CallsInv
<1>2. ASSUME NEW v \in Users  PROVE CallInv(call[v])'
  <2>1. PICK d : d = call'[v]
    OBVIOUS
  <2>2. CallInv(d)'
    <3>1. CASE v = u
      BY <1>1, <2>1, <3>1
    <3>2. CASE v # u
      <4>1. d = call[v] /\ CallInv(d)
        BY <1>1, <2>1, <3>2 DEF CallsInv
      <4>. QED  BY <4>1, CallGrows
    <3>. QED  BY <3>1, <3>2
  <2>. QED  BY <2>1, <2>2
<1>. QED  BY <1>1, <1>2 DEF CallsInv

LEMMA CallsStay ==
  ASSUME StoreInv, CallsInv, Grows, catalog' = catalog, call' = call
  PROVE  CallsInv'
<1>1. ASSUME NEW v \in Users  PROVE CallInv(call[v])'
  <2>1. PICK d : d = call[v] /\ CallInv(d)
    BY DEF CallsInv
  <2>2. CallInv(d)'
    BY <2>1, CallGrows
  <2>. QED  BY <2>1, <2>2
<1>. QED  BY <1>1 DEF CallsInv

-----------------------------------------------------------------------------
(* Calls that read the store and change none of it. *)

Store == <<now, scope, campaign, apparatus, catalog, capture, targets, builds, approvals, jobs>>

LEMMA StillStep ==
  ASSUME IntakeInv, UNCHANGED Store, NEW u \in Users, NEW c,
         call' = [call EXCEPT ![u] = c], CallInv(c)
  PROVE  IntakeInv'
<1>1. UNCHANGED <<scope, campaign, apparatus, capture, targets, builds, approvals>>
      /\ catalog' = catalog /\ jobs' = jobs /\ now' = now
  BY DEF Store
<1>2. Grows
  BY <1>1, Still
<1>3. StoreInv'
  BY <1>1 DEF IntakeInv, StoreInv, Decided, ScopeMade
<1>4. CallInv(c)'
  BY <1>1, <1>2, CallGrows DEF IntakeInv
<1>5. CallsInv'
  BY <1>1, <1>2, <1>4, CallsStep DEF IntakeInv
<1>6. RecordedTargetsCaptured' /\ JobsInv'
  BY <1>1, <1>2, RecordedGrows, JobsGrow DEF IntakeInv
<1>. QED  BY <1>3, <1>5, <1>6 DEF IntakeInv

LEMMA EndStep ==
  ASSUME IntakeInv, UNCHANGED Store, NEW u \in Users, call' = [call EXCEPT ![u] = Idle]
  PROVE  IntakeInv'
  BY IdleCall, StillStep

LEMMA TransitionCallStep ==
  ASSUME IntakeInv, NEW u \in Users, NEW to, CanReadCampaign(u),
         handleResearchTransition(u, to)
  PROVE  IntakeInv'
<1>1. PICK c : c = [kind |-> "transition", updated |-> Advance(campaign, to, None),
                    read |-> campaign.version]
  OBVIOUS
<1>2. call' = [call EXCEPT ![u] = c] /\ UNCHANGED Store
  BY <1>1 DEF handleResearchTransition, Set, Store
<1>3. /\ c.kind = "transition" /\ c.updated = Advance(campaign, to, None)
      /\ c.read = campaign.version
  BY <1>1
<1>4. Seen(campaign) /\ campaign \in Campaign /\ campaign.state # "none"
  BY DEF IntakeInv, StoreInv, Seen, Campaign, CanReadCampaign
<1>5. to \in {"scoped"} \cup Stopping /\ c.updated # campaign
  BY <1>3 DEF handleResearchTransition, Stopping
<1>6. TransitionCall(c)
  BY <1>3, <1>4, <1>5 DEF TransitionCall
<1>7. CallInv(c)
  BY <1>3, <1>6 DEF CallInv
<1>. QED  BY <1>2, <1>7, StillStep

LEMMA DecideStep ==
  ASSUME IntakeInv, NEW u \in Users, NEW id, NEW approved, DecideApproval(u, id, approved)
  PROVE  IntakeInv'
<1>1. PICK status : status = IF approved THEN "approved" ELSE "denied"
  OBVIOUS
<1>2. PICK v : v = [approvals[id] EXCEPT !.status = status, !.decidedBy = u]
  OBVIOUS
<1>3. PICK c : c = [kind |-> "decide", id |-> id, value |-> v]
  OBVIOUS
<1>4. call' = [call EXCEPT ![u] = c] /\ UNCHANGED Store
  BY <1>1, <1>2, <1>3 DEF DecideApproval, Set, Store
<1>5. id \in DOMAIN approvals /\ DOMAIN approvals[id] = ApprovalFields
  BY DEF DecideApproval, IntakeInv, StoreInv
<1>6. /\ DOMAIN v = ApprovalFields /\ v.decidedBy = u
      /\ v.op = approvals[id].op /\ v.corr = approvals[id].corr /\ v.by = approvals[id].by
  BY <1>2, <1>5 DEF ApprovalFields
<1>7. u # None /\ (approvals[id].by # u \/ "admin" \in Roles[u])
  BY DEF DecideApproval, hasAnyRole, hasRole, P, mayDecide
<1>8. c.kind = "decide" /\ c.id = id /\ c.value = v
  BY <1>3
<1>9. DecideCall(c)
  BY <1>5, <1>6, <1>7, <1>8 DEF DecideCall, Decided
<1>10. CallInv(c)
  BY <1>8, <1>9 DEF CallInv
<1>. QED  BY <1>4, <1>10, StillStep

LEMMA BeginCaptureStep ==
  ASSUME IntakeInv, NEW u \in Users, NEW req \in TargetRequests[u],
         AcquireTarget(u, req) \/ AcquireComparisonTarget(u, req)
  PROVE  IntakeInv'
<1>1. PICK kind \in {"acquire", "compare"} :
         BeginCapture(u, req, kind) /\ (kind = "acquire" => campaign.state = "scoped")
  BY DEF AcquireTarget, AcquireComparisonTarget
<1>2. PICK p \in {"export", "fetch"} : p = IF req.name = None THEN "export" ELSE "fetch"
  OBVIOUS
<1>3. PICK c : c = [kind |-> kind, phase |-> p, req |-> req, read |-> campaign,
                    tree |-> None, provenance |-> None]
  OBVIOUS
<1>4. call' = [call EXCEPT ![u] = c] /\ UNCHANGED Store
  BY <1>1, <1>2, <1>3 DEF BeginCapture, Set, Store
<1>5. /\ c.kind = kind /\ c.phase = p /\ c.req = req /\ c.read = campaign
      /\ DOMAIN c = CaptureFields
  BY <1>3 DEF CaptureFields
<1>6. Seen(campaign) /\ req.revision \in Revisions
  <2>1. campaign \in Campaign /\ campaign.version \in Nat
    BY DEF IntakeInv, StoreInv, Campaign
  <2>2. req.revision \in DOMAIN GitTree
    BY IntakeAssumption
  <2>. QED  BY <2>1, <2>2 DEF Seen, Revisions
<1>7. CaptureCall(c)
  BY <1>1, <1>2, <1>5, <1>6 DEF CaptureCall
<1>8. CallInv(c)
  BY <1>1, <1>5, <1>7 DEF CallInv
<1>. QED  BY <1>4, <1>8, StillStep

\* The facts of a capture call that goes on to another phase.
LEMMA PhaseOf ==
  ASSUME NEW c, DOMAIN c = CaptureFields, NEW p
  PROVE  /\ DOMAIN [c EXCEPT !.phase = p] = CaptureFields
         /\ [c EXCEPT !.phase = p].phase = p
         /\ [c EXCEPT !.phase = p].kind = c.kind /\ [c EXCEPT !.phase = p].req = c.req
         /\ [c EXCEPT !.phase = p].read = c.read /\ [c EXCEPT !.phase = p].tree = c.tree
  BY DEF CaptureFields

LEMMA CapturingCall ==
  ASSUME IntakeInv, NEW u \in Users, NEW p, CaptureStep(u, p)
  PROVE  CaptureCall(call[u]) /\ call[u].kind \in {"acquire", "compare"} /\ call[u].phase = p
  BY DEF IntakeInv, CallsInv, CallInv, CaptureStep

\* CaptureGitCheckout and Fetch put a tree that exists into the call.
LEMMA TreeStep ==
  ASSUME IntakeInv, NEW u \in Users, CaptureGitCheckout(u) \/ Fetch(u)
  PROVE  IntakeInv'
<1>1. UNCHANGED Store
  BY DEF CaptureGitCheckout, Fetch, CaptureUnchanged, Store
<1>2. CaptureCall(call[u]) /\ call[u].kind \in {"acquire", "compare"}
  BY CapturingCall DEF CaptureGitCheckout, Fetch
<1>3. ASSUME NEW p \in {"confirm", "fetched"}, NEW t, NEW v, t # None,
             call' = [call EXCEPT ![u] = [call[u] EXCEPT !.phase = p, !.tree = t, !.provenance = v]]
      PROVE  IntakeInv'
  <2>1. PICK d : d = [call[u] EXCEPT !.phase = p, !.tree = t, !.provenance = v]
    OBVIOUS
  <2>2. /\ DOMAIN d = CaptureFields /\ d.phase = p /\ d.tree = t
        /\ d.kind = call[u].kind /\ d.req = call[u].req /\ d.read = call[u].read
    <3>1. PICK c : c = call[u] /\ DOMAIN c = CaptureFields
      BY <1>2 DEF CaptureCall
    <3>2. d = [c EXCEPT !.phase = p, !.tree = t, !.provenance = v]
      BY <2>1, <3>1
    <3>3. /\ DOMAIN d = CaptureFields /\ d.phase = p /\ d.tree = t
          /\ d.kind = c.kind /\ d.req = c.req /\ d.read = c.read
      BY <3>1, <3>2 DEF CaptureFields
    <3>. QED  BY <3>1, <3>3
  <2>3. CaptureCall(d)
    BY <1>2, <1>3, <2>2 DEF CaptureCall
  <2>4. CallInv(d)
    BY <1>2, <2>2, <2>3 DEF CallInv
  <2>. QED  BY <1>1, <1>3, <2>1, <2>4, StillStep
<1>4. CASE CaptureGitCheckout(u)
  <2>. DEFINE files == gitTreeEntries(GitTree[call[u].req.revision], Limits)
              tree == IF files = None THEN None ELSE HashTree(files, Limits)
  <2>1. call' = [call EXCEPT ![u] =
                   IF VerifyGitCheckout(call[u].req) /\ tree # None
                   THEN [call[u] EXCEPT !.phase = "confirm", !.tree = tree,
                                        !.provenance = [method |-> "git"]]
                   ELSE Idle]
    BY <1>4 DEF CaptureGitCheckout, Set
  <2>. HIDE DEF tree
  <2>2. CASE VerifyGitCheckout(call[u].req) /\ tree # None
    BY <1>3, <2>1, <2>2
  <2>3. CASE ~(VerifyGitCheckout(call[u].req) /\ tree # None)
    BY <1>1, <2>1, <2>3, EndStep
  <2>. QED  BY <2>2, <2>3
<1>5. CASE Fetch(u)
  <2>. DEFINE pin == Describe(sources, call[u].req.name, call[u].req.revision)
              written(served) == TreeBytes(ToSet(BundleOf[served]))
              files(served) == extractTar(BundleOf[served],
                                          [Limits EXCEPT !.bytes = @ - written(served)])
              tree(served) == IF files(served) = None THEN None
                              ELSE HashTree(files(served), Limits)
              good(served) == validateManifestTime /\ served = pin.sha /\ tree(served) # None
  <2>1. PICK served \in DOMAIN BundleOf :
          call' = [call EXCEPT ![u] =
                     IF good(served)
                     THEN [call[u] EXCEPT !.phase = "fetched", !.tree = tree(served),
                                          !.provenance = [method |-> "tar", pin |-> pin]]
                     ELSE Idle]
    BY <1>5 DEF Fetch, Set
  <2>2. good(served) => tree(served) # None
    OBVIOUS
  <2>. HIDE DEF tree, good, pin
  <2>3. CASE good(served)
    BY <1>3, <2>1, <2>2, <2>3
  <2>4. CASE ~good(served)
    BY <1>1, <2>1, <2>4, EndStep
  <2>. QED  BY <2>3, <2>4
<1>. QED  BY <1>4, <1>5

\* The checks between the capture and its record: the call ends or goes on.
LEMMA GoesOn ==
  ASSUME IntakeInv, UNCHANGED Store, NEW u \in Users, CaptureCall(call[u]),
         call[u].kind \in {"acquire", "compare"}, NEW p,
         p \in {"install", "rename", "record", "save", "advance"} => call[u].tree # None,
         p \in {"record", "save", "advance"} => capture[call[u].req.revision] = call[u].tree,
         p = "advance" => /\ call[u].kind = "acquire"
                          /\ call[u].req.revision \in DOMAIN targets,
         p \notin {"confirm", "fetched"},
         call' = [call EXCEPT ![u] = [call[u] EXCEPT !.phase = p]]
  PROVE  IntakeInv'
<1>1. PICK d : d = [call[u] EXCEPT !.phase = p]
  OBVIOUS
<1>2. /\ DOMAIN d = CaptureFields /\ d.phase = p /\ d.tree = call[u].tree
      /\ d.kind = call[u].kind /\ d.req = call[u].req /\ d.read = call[u].read
  BY <1>1, PhaseOf DEF CaptureCall
<1>3. CaptureCall(d)
  BY <1>2 DEF CaptureCall
<1>4. CallInv(d)
  BY <1>2, <1>3 DEF CallInv
<1>. QED  BY <1>1, <1>4, StillStep

LEMMA ConfirmStep ==
  ASSUME IntakeInv, NEW u \in Users, ConfirmCheckout(u) \/ ConfirmManifest(u)
  PROVE  IntakeInv'
<1>1. UNCHANGED Store
  BY DEF ConfirmCheckout, ConfirmManifest, CaptureUnchanged, Store
<1>2. CaptureCall(call[u]) /\ call[u].kind \in {"acquire", "compare"}
      /\ call[u].phase \in {"confirm", "fetched"}
  BY CapturingCall DEF ConfirmCheckout, ConfirmManifest
<1>3. call[u].tree # None
  BY <1>2 DEF CaptureCall
<1>4. \/ call' = [call EXCEPT ![u] = Idle]
      \/ call' = [call EXCEPT ![u] = [call[u] EXCEPT !.phase = "install"]]
  BY DEF ConfirmCheckout, ConfirmManifest, Set
<1>5. CASE call' = [call EXCEPT ![u] = Idle]
  BY <1>1, <1>5, EndStep
<1>6. CASE call' = [call EXCEPT ![u] = [call[u] EXCEPT !.phase = "install"]]
  <2>1. PICK p : p = "install"
    OBVIOUS
  <2>2. p \notin {"record", "save", "advance", "confirm", "fetched"} /\ p # "advance"
    BY <2>1
  <2>3. call' = [call EXCEPT ![u] = [call[u] EXCEPT !.phase = p]]
    BY <1>6, <2>1
  <2>4. CaptureCall(call[u]) /\ call[u].kind \in {"acquire", "compare"}
    BY <1>2
  <2>. HIDE <1>2, <1>6, <2>1
  <2>. QED  BY <1>1, <1>3, <2>2, <2>3, <2>4, GoesOn
<1>. QED  BY <1>4, <1>5, <1>6

LEMMA InstallStep ==
  ASSUME IntakeInv, NEW u \in Users, InstallCapture(u)
  PROVE  IntakeInv'
<1>1. UNCHANGED Store
  BY DEF InstallCapture, CaptureUnchanged, Store
<1>2. CaptureCall(call[u]) /\ call[u].kind \in {"acquire", "compare"}
      /\ call[u].phase = "install"
  BY CapturingCall DEF InstallCapture
<1>3. call[u].tree # None
  BY <1>2 DEF CaptureCall
<1>4. \/ call' = [call EXCEPT ![u] = Idle]
      \/ call' = [call EXCEPT ![u] = [call[u] EXCEPT !.phase = "rename"]]
      \/ /\ call' = [call EXCEPT ![u] = [call[u] EXCEPT !.phase = "record"]]
         /\ capture[call[u].req.revision] = call[u].tree
  BY DEF InstallCapture, Set, SameCapture
<1>. QED  BY <1>1, <1>2, <1>3, <1>4, EndStep, GoesOn

LEMMA RecordStep ==
  ASSUME IntakeInv, NEW u \in Users, RecordTarget(u)
  PROVE  IntakeInv'
<1>1. UNCHANGED Store
  BY DEF RecordTarget, CaptureUnchanged, Store
<1>2. CaptureCall(call[u]) /\ call[u].kind \in {"acquire", "compare"}
      /\ call[u].phase = "record"
  BY CapturingCall DEF RecordTarget
<1>3. call[u].tree # None /\ capture[call[u].req.revision] = call[u].tree
  BY <1>2 DEF CaptureCall
<1>4. \/ call' = [call EXCEPT ![u] = Idle]
      \/ call' = [call EXCEPT ![u] = [call[u] EXCEPT !.phase = "save"]]
      \/ /\ call' = [call EXCEPT ![u] = [call[u] EXCEPT !.phase = "advance"]]
         /\ call[u].kind = "acquire" /\ call[u].req.revision \in DOMAIN targets
  BY DEF RecordTarget, Set
<1>. QED  BY <1>1, <1>2, <1>3, <1>4, EndStep, GoesOn

-----------------------------------------------------------------------------
(* Jobs. *)

LEMMA AdmittedOf ==
  ASSUME NEW id, knownManifest(id)
  PROVE  admittedManifest(id) \in apparatus /\ admittedManifest(id).manifest.id = id
  BY DEF knownManifest, admittedManifest

LEMMA NewJobOf ==
  ASSUME NEW m, NEW req, NEW dirs, NewJob(m, req, dirs) # None
  PROVE  NewJob(m, req, dirs).manifest = m.id
<1>. DEFINE budget == IF req.budget = ZeroBudget THEN m.limits ELSE req.budget
            sanitizer == IF req.sanitizer = None THEN CHOOSE s \in m.sanitizers : TRUE
                         ELSE req.sanitizer
            made == [op |-> req.op, kind |-> req.kind, campaign |-> req.campaign,
                     target |-> req.target, build |-> req.build, input |-> req.input,
                     patch |-> req.patch, corr |-> req.corr, manifest |-> m.id,
                     harness |-> req.harness, revision |-> req.revision,
                     sanitizer |-> sanitizer, image |-> m.image, mounts |-> dirs,
                     rules |-> ArtifactRules(req.op), budget |-> budget]
<1>1. NewJob(m, req, dirs) = made
  BY DEF NewJob
<1>2. made.manifest = m.id
  OBVIOUS
<1>. QED  BY <1>1, <1>2

LEMMA JobCallStep ==
  ASSUME IntakeInv, NEW u \in Users, NEW req, CanReadCampaign(u), handleResearchJobs(u, req)
  PROVE  IntakeInv'
<1>. DEFINE t == selectedTarget(req)
            m == admittedManifest(req.manifest).manifest
            made == NewJob(m, [req EXCEPT !.target = t], preparedMounts(req, t))
<1>1. /\ knownManifest(req.manifest) /\ made # None
      /\ call' = [call EXCEPT ![u] = [kind |-> "job", phase |-> "prepared", job |-> made,
                                      approval |-> req.approval]]
      /\ UNCHANGED Store
  BY DEF handleResearchJobs, Set, Store
<1>2. made.manifest = m.id
  BY <1>1, NewJobOf
<1>3. m.id = req.manifest
  BY <1>1, AdmittedOf
<1>4. PICK c : c = [kind |-> "job", phase |-> "prepared", job |-> made, approval |-> req.approval]
  OBVIOUS
<1>. HIDE DEF made, m
<1>5. c.kind = "job" /\ c.phase = "prepared" /\ c.job = made /\ DOMAIN c = JobFields
  BY <1>4 DEF JobFields
<1>6. scope # None
  BY DEF CanReadCampaign, IntakeInv, StoreInv
<1>7. JobCall(c)
  BY <1>1, <1>2, <1>3, <1>5, <1>6 DEF JobCall
<1>8. CallInv(c)
  BY <1>5, <1>7 DEF CallInv
<1>. QED  BY <1>1, <1>4, <1>8, StillStep

\* What Enqueue checks is what the properties ask of the job.
LEMMA AuthorizedGated ==
  ASSUME StoreInv, NEW u, NEW job, NEW id,
         PreauthorizeEnqueue(u, job.op, job.revision, job.budget, id, job.corr)
  PROVE  JobGated(job, id)
<1>1. PICK a : a = [principal |-> P(u), op |-> job.op, repo |-> scope.repo,
                    revision |-> job.revision, path |-> <<>>, host |-> <<>>,
                    budget |-> job.budget, approval |-> id]
  OBVIOUS
<1>2. a.op = job.op /\ a.approval = id
  BY <1>1
<1>3. AuthorizeAction(a, job.corr)
  BY <1>1 DEF PreauthorizeEnqueue
<1>4. /\ Authorize(scope, a, now) = "allowed"
      /\ id # None => approvalMatches(id, job.op, job.corr)
  BY <1>2, <1>3 DEF AuthorizeAction
<1>5. job.op \in scope.approvalOps => id # None
  BY <1>2, <1>4 DEF Authorize
<1>6. approvalMatches(id, job.op, job.corr) =>
         /\ id \in DOMAIN approvals
         /\ approvals[id].op = job.op /\ approvals[id].corr = job.corr
         /\ Decided(approvals[id])
  BY DEF approvalMatches, StoreInv
<1>. QED  BY <1>4, <1>5, <1>6 DEF JobGated

LEMMA AdmittedTrusted ==
  ASSUME StoreInv, NEW job, knownManifest(job.manifest), apparatusAdmitted(job)
  PROVE  JobTrusted(job)
<1>1. PICK a \in apparatus : a = admittedManifest(job.manifest) /\ a.manifest.id = job.manifest
  BY AdmittedOf
<1>2. a # None /\ Admit(catalog, a.manifest, now) = a
  BY <1>1 DEF StoreInv, apparatusAdmitted, ValidateAdmitted
<1>. DEFINE entry == {e \in catalog.entries : e.manifest = a.manifest}
            e == CHOOSE x \in entry : TRUE
<1>3. entry # {} /\ a = [manifest |-> a.manifest, sbom |-> e.sbom, provenance |-> e.provenance,
                         key |-> catalog.key, expires |-> catalog.expires]
  BY <1>2 DEF Admit
<1>4. e \in entry
  BY <1>3
<1>5. a.sbom = e.sbom /\ a.provenance = e.provenance
  <2>1. PICK x : x = e
    OBVIOUS
  <2>2. a = [manifest |-> a.manifest, sbom |-> x.sbom, provenance |-> x.provenance,
             key |-> catalog.key, expires |-> catalog.expires]
    BY <1>3, <2>1
  <2>. HIDE DEF e
  <2>3. a.sbom = x.sbom /\ a.provenance = x.provenance
    BY <2>2
  <2>. QED  BY <2>1, <2>3
<1>6. e \in catalog.entries /\ e.manifest = a.manifest
  BY <1>4
<1>. HIDE DEF e
<1>. QED  BY <1>1, <1>5, <1>6 DEF JobTrusted

LEMMA EnqueueStep ==
  ASSUME IntakeInv, NEW u \in Users, Enqueue(u)
  PROVE  IntakeInv'
<1>1. PICK c : c = call[u] /\ JobCall(c) /\ c.kind = "job"
  BY DEF Enqueue, IntakeInv, CallsInv, CallInv
<1>2. UNCHANGED Store
  BY DEF Enqueue, Store
<1>. DEFINE ok == /\ PreauthorizeEnqueue(u, c.job.op, c.job.revision, c.job.budget, c.approval, c.job.corr)
                  /\ apparatusAdmitted(c.job) /\ matchesManifest(c.job) /\ matchesTarget(c.job)
                  /\ matchesEvidence(c.job) /\ matchesPatch(c.job) /\ matchesBuild(c.job)
<1>3. call' = [call EXCEPT ![u] = IF ok THEN [c EXCEPT !.phase = "authorized"] ELSE Idle]
  BY <1>1 DEF Enqueue, Set
<1>4. CASE ~ok
  <2>1. call' = [call EXCEPT ![u] = Idle]
    BY <1>3, <1>4
  <2>. QED  BY <1>2, <2>1, EndStep
<1>5. CASE ok
  <2>1. PICK d : d = [c EXCEPT !.phase = "authorized"]
    OBVIOUS
  <2>2. d.kind = "job" /\ DOMAIN d = JobFields /\ d.job = c.job /\ d.approval = c.approval
    BY <1>1, <2>1 DEF JobCall, JobFields
  <2>3. JobGated(c.job, c.approval)
    <3>1. PICK job, id : job = c.job /\ id = c.approval
      OBVIOUS
    <3>2. PreauthorizeEnqueue(u, job.op, job.revision, job.budget, id, job.corr)
      BY <1>5, <3>1
    <3>3. JobGated(job, id)
      BY <3>2, AuthorizedGated DEF IntakeInv
    <3>. QED  BY <3>1, <3>3
  <2>4. JobTrusted(c.job)
    BY <1>1, <1>5, AdmittedTrusted DEF IntakeInv, JobCall
  <2>5. JobBacked(c.job)
    BY <1>5 DEF matchesTarget, matchesBuild, JobBacked
  <2>6. JobCall(d)
    BY <1>1, <2>2, <2>3, <2>4, <2>5 DEF JobCall
  <2>7. CallInv(d)
    BY <2>2, <2>6 DEF CallInv
  <2>8. call' = [call EXCEPT ![u] = d]
    BY <1>3, <1>5, <2>1
  <2>. QED  BY <1>2, <2>7, <2>8, StillStep
<1>. QED  BY <1>4, <1>5

\* The catalog of the server is the one the stored admission was compared with.
LEMMA SubmitStep ==
  ASSUME IntakeInv, NEW u \in Users, Submit(u)
  PROVE  IntakeInv' /\ \A j \in jobs' \ jobs : JobTrusted(j.job)
<1>1. /\ JobCall(call[u]) /\ call[u].phase = "authorized"
      /\ JobBacked(call[u].job) /\ JobGated(call[u].job, call[u].approval) /\ JobTrusted(call[u].job)
      /\ scope # None
  BY DEF Submit, IntakeInv, CallsInv, CallInv, JobCall
<1>2. /\ UNCHANGED <<scope, campaign, apparatus, capture, targets, builds, approvals>>
      /\ catalog' = catalog /\ now' = now /\ call' = [call EXCEPT ![u] = Idle]
  BY DEF Submit, Set
<1>3. PICK n : n = [job |-> call[u].job, approval |-> call[u].approval]
  OBVIOUS
<1>4. n.job = call[u].job /\ n.approval = call[u].approval /\ jobs' = jobs \cup {n}
  BY <1>3 DEF Submit
<1>5. Grows
  BY <1>2, Still
<1>6. StoreInv'
  BY <1>2 DEF IntakeInv, StoreInv, Decided, ScopeMade
<1>7. CallsInv'
  BY <1>2, <1>5, IdleCall, CallsStep DEF IntakeInv
<1>8. RecordedTargetsCaptured'
  BY <1>2, <1>5, RecordedGrows DEF IntakeInv
<1>9. JobsInv'
  <2>1. ASSUME NEW j \in jobs'  PROVE JobBacked(j.job) /\ JobGated(j.job, j.approval)
    BY <1>1, <1>4, <2>1 DEF IntakeInv, JobsInv
  <2>3. ASSUME NEW j \in jobs'  PROVE JobBacked(j.job)' /\ JobGated(j.job, j.approval)'
    <3>1. PICK i, k : i = j.job /\ k = j.approval
      OBVIOUS
    <3>2. JobBacked(i)' /\ JobGated(i, k)'
      BY <1>1, <1>5, <2>1, <3>1, BackedGrows, GatedGrows DEF IntakeInv
    <3>. QED  BY <3>1, <3>2
  <2>. QED  BY <1>1, <1>2, <2>3 DEF JobsInv
<1>10. \A j \in jobs' \ jobs : JobTrusted(j.job)
  BY <1>1, <1>4
<1>. QED  BY <1>6, <1>7, <1>8, <1>9, <1>10 DEF IntakeInv

-----------------------------------------------------------------------------
(* How the campaign moves. *)

LifeMove(c, d) ==
    \/ c.state = "none" /\ d.state = "draft" /\ d.target = c.target
    \/ /\ <<c.state, d.state>> \in {<<"draft", "scoped">>, <<"acquired", "build_ready">>,
                                    <<"build_ready", "primitive_assessed">>}
       /\ d.target = c.target
    \/ c.state = "scoped" /\ d.state = "acquired" /\ d.target # None
    \/ /\ c.state \notin {"cancelled", "failed", "none"} /\ d.state \in Stopping \ {c.state}
       /\ d.target = c.target

CampaignStep ==
    campaign' = campaign \/ /\ campaign' \in Campaign /\ campaign'.version = campaign.version + 1
                            /\ LifeMove(campaign, campaign')

LEMMA AdvanceMoves ==
  ASSUME NEW c \in Campaign, c.state # "none", NEW to \in States, NEW t,
         to = "acquired" => t \in Revisions, NEW d, d = Advance(c, to, t), d # c
  PROVE  /\ d \in Campaign /\ d.version = c.version + 1 /\ LifeMove(c, d)
         /\ d.target \in {c.target, t} /\ (to # "acquired" => d.target = c.target)
<1>1. PICK moved : moved = [c EXCEPT !.state = to, !.version = c.version + 1]
  OBVIOUS
<1>2. PICK located : located = [moved EXCEPT !.target = t]
  OBVIOUS
<1>3. /\ moved \in [state : States, version : Nat, target : Revisions \cup {None}]
      /\ moved.state = to /\ moved.version = c.version + 1 /\ moved.target = c.target
  <2>1. c.version \in Nat /\ c.version + 1 \in Nat /\ c.target \in Revisions \cup {None}
    BY DEF Campaign
  <2>2. DOMAIN c = {"state", "version", "target"}
    BY DEF Campaign
  <2>3. moved.state = to /\ moved.version = c.version + 1 /\ moved.target = c.target
    BY <1>1, <2>2
  <2>4. moved = [state |-> to, version |-> c.version + 1, target |-> c.target]
    BY <1>1, <2>2
  <2>. QED  BY <2>1, <2>3, <2>4
<1>4. /\ located.state = to /\ located.version = c.version + 1 /\ located.target = t
      /\ to = "acquired" => located \in [state : States, version : Nat, target : Revisions \cup {None}]
  BY <1>2, <1>3
<1>5. \/ /\ to \in Stopping /\ d = moved /\ c.state \notin {"cancelled", "failed"} /\ c.state # to
      \/ /\ <<c.state, to>> \in {<<"draft", "scoped">>, <<"acquired", "build_ready">>,
                                 <<"build_ready", "primitive_assessed">>}
         /\ d = moved
      \/ c.state = "scoped" /\ to = "acquired" /\ d = located
  BY <1>1, <1>2 DEF Advance, Stopping
<1>6. None \notin Revisions
  BY IntakeAssumption DEF Revisions
<1>. QED  BY <1>3, <1>4, <1>5, <1>6 DEF Campaign, LifeMove, Stopping

LEMMA SeenGrows ==
  ASSUME StoreInv, CampaignStep
  PROVE  \A c : Seen(c) => Seen(c)'
<1>1. campaign.version \in Nat /\ campaign \in Campaign
  BY DEF StoreInv, Campaign
<1>2. CASE campaign' = campaign
  BY <1>2 DEF Seen
<1>3. CASE campaign' \in Campaign /\ campaign'.version = campaign.version + 1
  <2>1. ASSUME NEW c, Seen(c)  PROVE Seen(c)'
    <3>1. c \in Campaign /\ c.version \in Nat /\ c.version <= campaign.version
      BY <2>1 DEF Seen, Campaign
    <3>2. c.version <= campaign'.version /\ c.version # campaign'.version
      BY <1>1, <1>3, <3>1
    <3>. QED  BY <3>1, <3>2 DEF Seen
  <2>. QED  BY <2>1
<1>. QED  BY <1>2, <1>3 DEF CampaignStep

\* The compare and swap writes only what was made of the stored campaign.
LEMMA SwapMoves ==
  ASSUME NEW r \in Campaign, Seen(r), r.state # "none", NEW to \in States, NEW t,
         to = "acquired" => t \in Revisions, NEW d, d = Advance(r, to, t),
         UpdateCampaign(d, r.version)
  PROVE  CampaignStep /\ campaign'.target \in {campaign.target, t}
         /\ (campaign' = campaign \/ campaign.state # "none")
<1>1. CASE campaign.version = r.version
  <2>1. campaign = r /\ campaign' = d
    BY <1>1 DEF Seen, UpdateCampaign
  <2>2. CASE d = r
    BY <2>1, <2>2 DEF CampaignStep
  <2>3. CASE d # r
    BY <2>1, <2>3, AdvanceMoves DEF CampaignStep
  <2>. QED  BY <2>2, <2>3
<1>2. CASE campaign.version # r.version
  BY <1>2 DEF UpdateCampaign, CampaignStep
<1>. QED  BY <1>1, <1>2

LEMMA TransitionMoves ==
  ASSUME IntakeInv, NEW u \in Users, Transition(u)
  PROVE  CampaignStep /\ campaign'.target \in {campaign.target, None}
         /\ (campaign' = campaign \/ campaign.state # "none")
<1>1. TransitionCall(call[u]) /\ UpdateCampaign(call[u].updated, call[u].read)
  BY DEF Transition, IntakeInv, CallsInv, CallInv
<1>2. PICK r \in Campaign, to \in {"scoped"} \cup Stopping :
          /\ Seen(r) /\ r.state # "none" /\ call[u].read = r.version
          /\ call[u].updated = Advance(r, to, None)
  BY <1>1 DEF TransitionCall
<1>3. PICK d : d = Advance(r, to, None)
  OBVIOUS
<1>4. UpdateCampaign(d, r.version)
  BY <1>1, <1>2, <1>3
<1>5. to \in States /\ to # "acquired"
  BY DEF States, Stopping
<1>. QED  BY <1>2, <1>3, <1>4, <1>5, SwapMoves

LEMMA AcquiredMoves ==
  ASSUME IntakeInv, NEW u \in Users, AdvanceAcquired(u)
  PROVE  /\ CampaignStep /\ call[u].req.revision \in DOMAIN targets
         /\ campaign'.target \in {campaign.target, call[u].req.revision}
         /\ (campaign' = campaign \/ campaign.state # "none")
<1>1. CaptureCall(call[u]) /\ call[u].phase = "advance"
  BY CapturingCall DEF AdvanceAcquired
<1>2. /\ call[u].req.revision \in Revisions /\ call[u].req.revision \in DOMAIN targets
      /\ Seen(call[u].read) /\ call[u].read.state = "scoped"
  BY <1>1 DEF CaptureCall
<1>3. PICK r, t : r = call[u].read /\ t = call[u].req.revision
  OBVIOUS
<1>4. PICK d : d = Advance(r, "acquired", t)
  OBVIOUS
<1>5. UpdateCampaign(d, r.version)
  BY <1>3, <1>4 DEF AdvanceAcquired
<1>6. r \in Campaign /\ Seen(r) /\ r.state # "none" /\ t \in Revisions /\ "acquired" \in States
  BY <1>2, <1>3 DEF Seen, States
<1>7. CampaignStep /\ campaign'.target \in {campaign.target, t}
      /\ (campaign' = campaign \/ campaign.state # "none")
  BY <1>4, <1>5, <1>6, SwapMoves
<1>. QED  BY <1>2, <1>3, <1>7

LEMMA PipelineMoves ==
  ASSUME IntakeInv, AssessPrimitive \/ \E j \in jobs : ingestBuild(j)
  PROVE  CampaignStep /\ campaign'.target = campaign.target
         /\ (campaign' = campaign \/ campaign.state # "none")
<1>1. campaign \in Campaign
  BY DEF IntakeInv, StoreInv
<1>2. CASE campaign' = campaign
  BY <1>2 DEF CampaignStep
<1>3. CASE campaign' # campaign
  <2>1. PICK to \in {"build_ready", "primitive_assessed"} :
            campaign' = Advance(campaign, to, None) /\ campaign.state # "none"
    BY <1>3 DEF AssessPrimitive, ingestBuild
  <2>2. to \in States /\ to # "acquired"
    BY DEF States
  <2>3. PICK d : d = campaign'
    OBVIOUS
  <2>4. d \in Campaign /\ d.version = campaign.version + 1 /\ LifeMove(campaign, d)
        /\ d.target = campaign.target
    BY <1>1, <1>3, <2>1, <2>2, <2>3, AdvanceMoves
  <2>. QED  BY <2>1, <2>3, <2>4 DEF CampaignStep
<1>. QED  BY <1>2, <1>3

LEMMA CreateMoves ==
  ASSUME IntakeInv, NEW u, CreateCampaign(u)
  PROVE  CampaignStep /\ campaign'.target = campaign.target
<1>1. campaign.version = 0 /\ campaign.target = None /\ campaign.state = "none"
  BY DEF IntakeInv, StoreInv, CreateCampaign
<1>2. campaign' = [state |-> "draft", version |-> 1, target |-> None]
  BY DEF CreateCampaign
<1>3. campaign' \in Campaign /\ campaign'.state = "draft" /\ campaign'.version = 1
      /\ campaign'.target = None
  BY <1>2 DEF Campaign, States
<1>. QED  BY <1>1, <1>3 DEF CampaignStep, LifeMove

-----------------------------------------------------------------------------
(* Steps that change the store. *)

LEMMA MadeScope ==
  ASSUME NEW s, ScopeMade(s)
  PROVE  /\ s # None /\ s.approvalOps = ScopeRequest.approvalOps
         /\ DOMAIN s = DOMAIN ScopeRequest
         /\ s.owner \in Users \cup {ScopeRequest.owner}
         /\ s.revoked \in (0 .. MaxTime) \cup {ScopeRequest.revoked}
<1>1. PICK o \in Users \cup {ScopeRequest.owner}, t \in (0 .. MaxTime) \cup {ScopeRequest.revoked} :
          s = [ScopeRequest EXCEPT !.owner = o, !.revoked = t]
  BY DEF ScopeMade
<1>2. s # None
  BY <1>1, IntakeAssumption
<1>3. {"owner", "revoked", "approvalOps"} \subseteq DOMAIN ScopeRequest
  BY IntakeAssumption
<1>. QED  BY <1>1, <1>2, <1>3

\* What has to be shown of a step that leaves the calls or ends one of them.
LEMMA GrowStep ==
  ASSUME IntakeInv, StoreInv', CampaignStep, TargetsGrow, ApprovalsGrow, ScopeStands,
         builds \subseteq builds', apparatus \subseteq apparatus', catalog' = catalog,
         jobs' = jobs, RecordedTargetsCaptured',
         call' = call \/ \E u \in Users : call' = [call EXCEPT ![u] = Idle]
  PROVE  IntakeInv'
<1>1. Grows
  BY SeenGrows DEF Grows, IntakeInv
<1>2. CallsInv'
  <2>1. CASE call' = call
    BY <1>1, <2>1, CallsStay DEF IntakeInv
  <2>2. ASSUME NEW u \in Users, call' = [call EXCEPT ![u] = Idle]  PROVE CallsInv'
    BY <1>1, <2>2, IdleCall, CallsStep DEF IntakeInv
  <2>. QED  BY <2>1, <2>2
<1>3. JobsInv'
  BY <1>1, JobsGrow DEF IntakeInv
<1>. QED  BY <1>2, <1>3 DEF IntakeInv

\* The records of the targets when nothing of them changed.
LEMMA RecordedStay ==
  ASSUME IntakeInv, UNCHANGED <<capture, targets>>,
         campaign'.target # None => campaign'.target \in DOMAIN targets
  PROVE  RecordedTargetsCaptured'
  BY DEF IntakeInv, RecordedTargetsCaptured, VerifiedCapture

LEMMA ScopeStep ==
  ASSUME IntakeInv, NEW u \in Users, CreateScope(u) \/ RevokeScope(u)
  PROVE  IntakeInv'
<1>1. /\ UNCHANGED <<now, campaign, apparatus, catalog, capture, targets, builds, approvals, jobs>>
      /\ call' = call
  BY DEF CreateScope, RevokeScope
<1>2. ScopeMade(scope') /\ ScopeStands
  <2>0. {"owner", "revoked", "approvalOps"} \subseteq DOMAIN ScopeRequest
    BY IntakeAssumption
  <2>1. CASE CreateScope(u)
    <3>1. PICK o \in Users \cup {ScopeRequest.owner} : scope' = [ScopeRequest EXCEPT !.owner = o]
      BY <2>1 DEF CreateScope
    <3>2. [ScopeRequest EXCEPT !.owner = o] =
             [ScopeRequest EXCEPT !.owner = o, !.revoked = ScopeRequest.revoked]
      BY <2>0
    <3>3. ScopeMade(scope')
      BY <3>1, <3>2 DEF ScopeMade
    <3>. QED  BY <2>1, <3>3 DEF CreateScope, ScopeStands
  <2>2. CASE RevokeScope(u)
    <3>1. scope # None /\ ScopeMade(scope) /\ now \in 0 .. MaxTime
      BY <2>2 DEF RevokeScope, IntakeInv, StoreInv
    <3>2. PICK o \in Users \cup {ScopeRequest.owner},
               t \in (0 .. MaxTime) \cup {ScopeRequest.revoked} :
              scope = [ScopeRequest EXCEPT !.owner = o, !.revoked = t]
      BY <3>1 DEF ScopeMade
    <3>3. PICK n \in (0 .. MaxTime) \cup {ScopeRequest.revoked} :
              scope' = [scope EXCEPT !.revoked = n]
      <4>1. scope.revoked = t
        BY <2>0, <3>2
      <4>. QED  BY <2>2, <3>1, <4>1 DEF RevokeScope
    <3>4. scope' = [ScopeRequest EXCEPT !.owner = o, !.revoked = n]
      BY <2>0, <3>2, <3>3
    <3>5. ScopeMade(scope')
      BY <3>4 DEF ScopeMade
    <3>6. scope' # None /\ scope'.approvalOps = scope.approvalOps
      BY <3>1, <3>5, MadeScope
    <3>. QED  BY <3>5, <3>6 DEF ScopeStands
  <2>. QED  BY <2>1, <2>2
<1>3. scope' # None
  BY <1>2, MadeScope
<1>4. StoreInv'
  BY <1>1, <1>2, <1>3 DEF IntakeInv, StoreInv, Decided, ScopeMade
<1>5. CampaignStep /\ TargetsGrow /\ ApprovalsGrow
  BY <1>1 DEF CampaignStep, TargetsGrow, ApprovalsGrow
<1>6. RecordedTargetsCaptured'
  BY <1>1 DEF IntakeInv, RecordedTargetsCaptured, VerifiedCapture
<1>. QED  BY <1>1, <1>2, <1>4, <1>5, <1>6, GrowStep

LEMMA RegisterStep ==
  ASSUME IntakeInv, NEW u, NEW m, RegisterApparatus(u, m)
  PROVE  IntakeInv'
<1>1. /\ UNCHANGED <<now, scope, campaign, catalog, capture, targets, builds, approvals, jobs>>
      /\ call' = call
  BY DEF RegisterApparatus
<1>2. apparatus \subseteq apparatus' /\ None \notin apparatus'
  BY DEF RegisterApparatus, IntakeInv, StoreInv
<1>3. StoreInv'
  BY <1>1, <1>2 DEF IntakeInv, StoreInv, Decided, ScopeMade
<1>4. CampaignStep /\ TargetsGrow /\ ApprovalsGrow /\ ScopeStands
  BY <1>1 DEF CampaignStep, TargetsGrow, ApprovalsGrow, ScopeStands
<1>5. RecordedTargetsCaptured'
  BY <1>1 DEF IntakeInv, RecordedTargetsCaptured, VerifiedCapture
<1>. QED  BY <1>1, <1>2, <1>3, <1>4, <1>5, GrowStep

LEMMA MoveKeepsStore ==
  ASSUME IntakeInv, CampaignStep,
         campaign'.state # "none" => scope # None,
         UNCHANGED <<now, scope, apparatus, capture, targets, approvals>>
  PROVE  StoreInv' /\ TargetsGrow /\ ApprovalsGrow /\ ScopeStands
<1>1. /\ campaign' \in Campaign
      /\ campaign'.state = "none" => campaign'.version = 0 /\ campaign'.target = None
  BY DEF IntakeInv, StoreInv, CampaignStep, LifeMove, Stopping
<1>2. StoreInv'
  BY <1>1 DEF IntakeInv, StoreInv, Decided, ScopeMade
<1>. QED  BY <1>2 DEF TargetsGrow, ApprovalsGrow, ScopeStands

LEMMA CampaignWriteStep ==
  ASSUME IntakeInv, NEW u \in Users,
         \/ CreateCampaign(u) \/ Transition(u) \/ AdvanceAcquired(u)
         \/ AssessPrimitive \/ \E j \in jobs : ingestBuild(j)
  PROVE  IntakeInv'
<1>1. /\ UNCHANGED <<now, scope, apparatus, catalog, capture, targets, approvals, jobs>>
      /\ builds \subseteq builds'
      /\ call' = call \/ \E v \in Users : call' = [call EXCEPT ![v] = Idle]
  BY DEF CreateCampaign, Transition, AdvanceAcquired, AssessPrimitive, ingestBuild, Set
<1>2. CampaignStep /\ (campaign'.target # None => campaign'.target \in DOMAIN targets)
  <2>1. campaign.target # None => campaign.target \in DOMAIN targets
    BY DEF IntakeInv, RecordedTargetsCaptured
  <2>. QED  BY <2>1, CreateMoves, TransitionMoves, AcquiredMoves, PipelineMoves
<1>3. campaign'.state # "none" => scope # None
  <2>1. campaign.state # "none" => scope # None
    BY DEF IntakeInv, StoreInv
  <2>2. campaign' = campaign \/ campaign.state # "none" \/ CreateCampaign(u)
    BY TransitionMoves, AcquiredMoves, PipelineMoves
  <2>. QED  BY <2>1, <2>2 DEF CreateCampaign
<1>4. StoreInv' /\ TargetsGrow /\ ApprovalsGrow /\ ScopeStands
  BY <1>1, <1>2, <1>3, MoveKeepsStore
<1>5. RecordedTargetsCaptured'
  BY <1>1, <1>2, RecordedStay
<1>6. apparatus \subseteq apparatus'
  BY <1>1
<1>. QED  BY <1>1, <1>2, <1>4, <1>5, <1>6, GrowStep

LEMMA RequestStep ==
  ASSUME IntakeInv, NEW u, NEW id, NEW op, NEW corr, RequestApproval(u, id, op, corr)
  PROVE  IntakeInv'
<1>1. /\ UNCHANGED <<now, scope, campaign, apparatus, catalog, capture, targets, builds, jobs>>
      /\ call' = call
  BY DEF RequestApproval
<1>2. PICK a : a = [op |-> op, corr |-> corr, status |-> "pending", by |-> u, decidedBy |-> None]
  OBVIOUS
<1>3. DOMAIN a = ApprovalFields /\ a.status = "pending"
  BY <1>2 DEF ApprovalFields
<1>4. /\ id \notin DOMAIN approvals /\ DOMAIN approvals' = DOMAIN approvals \cup {id}
      /\ approvals'[id] = a /\ \A i \in DOMAIN approvals : approvals'[i] = approvals[i]
  BY <1>2 DEF RequestApproval, Insert
<1>5. \A i \in DOMAIN approvals' : /\ DOMAIN approvals'[i] = ApprovalFields
                                   /\ approvals'[i].status = "approved" => Decided(approvals'[i])
  BY <1>3, <1>4 DEF IntakeInv, StoreInv
<1>6. StoreInv'
  <2>1. /\ now' \in 0 .. MaxTime /\ (scope' = None \/ ScopeMade(scope'))
        /\ campaign' \in Campaign
        /\ campaign'.state = "none" => campaign'.version = 0 /\ campaign'.target = None
        /\ campaign'.state # "none" => scope' # None
        /\ DOMAIN capture' = Revisions /\ DOMAIN targets' \subseteq Revisions
        /\ None \notin apparatus'
    BY <1>1 DEF IntakeInv, StoreInv
  <2>. QED  BY <1>5, <2>1 DEF StoreInv, Decided, ScopeMade
<1>7. CampaignStep /\ TargetsGrow /\ ApprovalsGrow /\ ScopeStands
  BY <1>1, <1>4 DEF CampaignStep, TargetsGrow, ApprovalsGrow, ScopeStands
<1>8. RecordedTargetsCaptured'
  BY <1>1 DEF IntakeInv, RecordedTargetsCaptured, VerifiedCapture
<1>. QED  BY <1>1, <1>6, <1>7, <1>8, GrowStep

\* Two reviewers may write the same approval: whoever comes last, a decision
\* of a member stands, for the same operation and correlation.
LEMMA SaveApprovalStep ==
  ASSUME IntakeInv, NEW u \in Users, SaveApproval(u)
  PROVE  IntakeInv'
<1>1. /\ UNCHANGED <<now, scope, campaign, apparatus, catalog, capture, targets, builds, jobs>>
      /\ call' = [call EXCEPT ![u] = Idle]
  BY DEF SaveApproval, Set
<1>2. DecideCall(call[u])
  BY DEF SaveApproval, IntakeInv, CallsInv, CallInv
<1>3. PICK id, a : id = call[u].id /\ a = call[u].value
  OBVIOUS
<1>4. /\ id \in DOMAIN approvals /\ DOMAIN a = ApprovalFields /\ Decided(a)
      /\ a.op = approvals[id].op /\ a.corr = approvals[id].corr
  BY <1>2, <1>3 DEF DecideCall
<1>5. /\ DOMAIN approvals' = DOMAIN approvals /\ approvals'[id] = a
      /\ \A i \in DOMAIN approvals : i # id => approvals'[i] = approvals[i]
  BY <1>3, <1>4 DEF SaveApproval
<1>6. \A i \in DOMAIN approvals' : /\ DOMAIN approvals'[i] = ApprovalFields
                                   /\ approvals'[i].status = "approved" => Decided(approvals'[i])
  BY <1>4, <1>5 DEF IntakeInv, StoreInv
<1>7. StoreInv'
  <2>1. /\ now' \in 0 .. MaxTime /\ (scope' = None \/ ScopeMade(scope'))
        /\ campaign' \in Campaign
        /\ campaign'.state = "none" => campaign'.version = 0 /\ campaign'.target = None
        /\ campaign'.state # "none" => scope' # None
        /\ DOMAIN capture' = Revisions /\ DOMAIN targets' \subseteq Revisions
        /\ None \notin apparatus'
    BY <1>1 DEF IntakeInv, StoreInv
  <2>. QED  BY <1>6, <2>1 DEF StoreInv, Decided, ScopeMade
<1>8. ApprovalsGrow
  BY <1>4, <1>5 DEF ApprovalsGrow
<1>9. CampaignStep /\ TargetsGrow /\ ScopeStands
  BY <1>1 DEF CampaignStep, TargetsGrow, ScopeStands
<1>10. RecordedTargetsCaptured'
  BY <1>1 DEF IntakeInv, RecordedTargetsCaptured, VerifiedCapture
<1>. QED  BY <1>1, <1>7, <1>8, <1>9, <1>10, GrowStep

\* A tick and a move of the checkout.
LEMMA OutsideStep ==
  ASSUME IntakeInv, Tick \/ MoveCheckout
  PROVE  IntakeInv'
<1>1. /\ UNCHANGED <<scope, campaign, apparatus, catalog, capture, targets, builds, approvals, jobs>>
      /\ call' = call
  BY DEF Tick, MoveCheckout
<1>2. now' \in 0 .. MaxTime
  <2>1. now \in 0 .. MaxTime /\ MaxTime \in Nat
    BY IntakeAssumption DEF IntakeInv, StoreInv
  <2>2. CASE Tick
    BY <2>1, <2>2 DEF Tick
  <2>3. CASE MoveCheckout
    BY <2>1, <2>3 DEF MoveCheckout
  <2>. QED  BY <2>2, <2>3
<1>3. StoreInv'
  BY <1>1, <1>2 DEF IntakeInv, StoreInv, Decided, ScopeMade
<1>4. CampaignStep /\ TargetsGrow /\ ApprovalsGrow /\ ScopeStands
  BY <1>1 DEF CampaignStep, TargetsGrow, ApprovalsGrow, ScopeStands
<1>5. RecordedTargetsCaptured'
  BY <1>1 DEF IntakeInv, RecordedTargetsCaptured, VerifiedCapture
<1>. QED  BY <1>1, <1>3, <1>4, <1>5, GrowStep

LEMMA RestartStep ==
  ASSUME IntakeInv, Restart
  PROVE  IntakeInv'
<1>1. /\ UNCHANGED <<now, scope, campaign, apparatus, capture, targets, builds, approvals, jobs>>
      /\ call' = [u \in Users |-> Idle]
  BY DEF Restart
<1>2. StoreInv' /\ RecordedTargetsCaptured'
  BY <1>1 DEF IntakeInv, StoreInv, Decided, ScopeMade, RecordedTargetsCaptured, VerifiedCapture
<1>3. Grows
  BY <1>1, Still
<1>4. JobsInv'
  BY <1>1, <1>3, JobsGrow DEF IntakeInv
<1>5. CallsInv'
  BY <1>1, IdleCall DEF CallsInv
<1>. QED  BY <1>2, <1>4, <1>5 DEF IntakeInv

\* Captures and records are added, never replaced.
LEMMA RenameStep ==
  ASSUME IntakeInv, NEW u \in Users, RenameCapture(u)
  PROVE  IntakeInv'
<1>1. PICK c : c = call[u]
  OBVIOUS
<1>2. /\ CaptureCall(c) /\ c.kind \in {"acquire", "compare"} /\ c.phase = "rename"
      /\ DOMAIN c = CaptureFields /\ c.req.revision \in Revisions /\ c.tree # None
  BY <1>1, CapturingCall DEF RenameCapture, CaptureCall
<1>3. UNCHANGED <<now, scope, campaign, apparatus, catalog, targets, builds, approvals, jobs>>
  BY DEF RenameCapture, CaptureUnchanged
<1>4. CASE capture[c.req.revision] # None
  <2>1. UNCHANGED Store /\ call' = [call EXCEPT ![u] = Idle]
    BY <1>1, <1>3, <1>4 DEF RenameCapture, Set, Store
  <2>. QED  BY <2>1, EndStep
<1>5. CASE capture[c.req.revision] = None
  <2>1. PICK r, d : r \in Revisions /\ r = c.req.revision /\ d = [c EXCEPT !.phase = "record"]
    BY <1>2
  <2>2. capture' = [capture EXCEPT ![r] = c.tree] /\ call' = [call EXCEPT ![u] = d]
    BY <1>1, <1>5, <2>1 DEF RenameCapture, Set
  <2>3. /\ DOMAIN capture' = Revisions /\ capture'[r] = c.tree
        /\ \A q \in Revisions : q # r => capture'[q] = capture[q]
    <3>1. DOMAIN capture = Revisions
      BY DEF IntakeInv, StoreInv
    <3>. QED  BY <2>1, <2>2, <3>1
  <2>4. StoreInv'
    BY <1>3, <2>3 DEF IntakeInv, StoreInv, Decided, ScopeMade
  <2>5. Grows
    <3>1. CampaignStep
      BY <1>3 DEF CampaignStep
    <3>2. TargetsGrow /\ ApprovalsGrow /\ ScopeStands
      BY <1>3, <1>5, <2>1, <2>3 DEF TargetsGrow, ApprovalsGrow, ScopeStands
    <3>. QED  BY <1>3, <3>1, <3>2, SeenGrows DEF Grows, IntakeInv
  <2>6. /\ d.kind = c.kind /\ d.phase = "record" /\ d.req = c.req /\ d.read = c.read
        /\ d.tree = c.tree /\ DOMAIN d = CaptureFields
    BY <1>2, <2>1 DEF CaptureFields
  <2>7. CallInv(d)'
    <3>1. c.kind = "acquire" => Seen(c.read)' /\ c.read.state = "scoped"
      BY <1>2, <2>5 DEF CaptureCall, Grows
    <3>2. CaptureCall(d)'
      BY <1>2, <2>1, <2>3, <2>6, <3>1 DEF CaptureCall
    <3>. QED  BY <1>2, <2>6, <3>2 DEF CallInv
  <2>8. CallsInv'
    BY <1>3, <2>2, <2>5, <2>7, CallsStep DEF IntakeInv
  <2>9. RecordedTargetsCaptured' /\ JobsInv'
    BY <1>3, <2>5, RecordedGrows, JobsGrow DEF IntakeInv
  <2>. QED  BY <2>4, <2>8, <2>9 DEF IntakeInv
<1>. QED  BY <1>4, <1>5

LEMMA SaveTargetStep ==
  ASSUME IntakeInv, NEW u \in Users, SaveTarget(u)
  PROVE  IntakeInv'
<1>1. PICK c : c = call[u]
  OBVIOUS
<1>2. /\ CaptureCall(c) /\ c.kind \in {"acquire", "compare"} /\ c.phase = "save"
      /\ DOMAIN c = CaptureFields /\ c.req.revision \in Revisions /\ c.tree # None
      /\ capture[c.req.revision] = c.tree
  BY <1>1, CapturingCall DEF SaveTarget, CaptureCall
<1>3. UNCHANGED <<now, scope, campaign, apparatus, catalog, capture, builds, approvals, jobs>>
  BY DEF SaveTarget, CaptureUnchanged
<1>4. CASE c.req.revision \in DOMAIN targets
  <2>1. UNCHANGED Store /\ call' = [call EXCEPT ![u] = Idle]
    BY <1>1, <1>3, <1>4 DEF SaveTarget, Set, Store
  <2>. QED  BY <2>1, EndStep
<1>5. CASE c.req.revision \notin DOMAIN targets
  <2>1. PICK r, d : r \in Revisions /\ r = c.req.revision /\ d = [c EXCEPT !.phase = "advance"]
    BY <1>2
  <2>2. PICK t : t = captureTarget(c)
    OBVIOUS
  <2>tree. t.tree = c.tree
    BY <2>2 DEF captureTarget
  <2>3. /\ targets' = Insert(targets, r, t)
        /\ call' = [call EXCEPT ![u] = IF c.kind = "acquire" THEN d ELSE Idle]
    BY <1>1, <1>5, <2>1, <2>2 DEF SaveTarget, Set
  <2>4. /\ DOMAIN targets' = DOMAIN targets \cup {r} /\ targets'[r] = t
        /\ \A q \in DOMAIN targets : targets'[q] = targets[q]
    BY <1>5, <2>1, <2>3 DEF Insert
  <2>5. StoreInv'
    <3>1. DOMAIN targets' \subseteq Revisions
      BY <2>1, <2>4 DEF IntakeInv, StoreInv
    <3>. QED  BY <1>3, <3>1 DEF IntakeInv, StoreInv, Decided, ScopeMade
  <2>6. Grows
    <3>1. CampaignStep
      BY <1>3 DEF CampaignStep
    <3>2. TargetsGrow /\ ApprovalsGrow /\ ScopeStands
      BY <1>3, <2>4 DEF TargetsGrow, ApprovalsGrow, ScopeStands
    <3>. QED  BY <1>3, <3>1, <3>2, SeenGrows DEF Grows, IntakeInv
  <2>7. /\ d.kind = c.kind /\ d.phase = "advance" /\ d.req = c.req /\ d.read = c.read
        /\ d.tree = c.tree /\ DOMAIN d = CaptureFields
    BY <1>2, <2>1 DEF CaptureFields
  <2>8. c.kind = "acquire" => CallInv(d)'
    <3>1. c.kind = "acquire" => Seen(c.read)' /\ c.read.state = "scoped"
      BY <1>2, <2>6 DEF CaptureCall, Grows
    <3>2. c.kind = "acquire" => CaptureCall(d)'
      BY <1>2, <1>3, <2>1, <2>4, <2>7, <3>1 DEF CaptureCall
    <3>. QED  BY <2>7, <3>2 DEF CallInv
  <2>9. CallsInv'
    <3>1. CASE c.kind = "acquire"
      BY <1>3, <2>3, <2>6, <2>8, <3>1, CallsStep DEF IntakeInv
    <3>2. CASE c.kind # "acquire"
      <4>1. call' = [call EXCEPT ![u] = Idle]
        BY <2>3, <3>2
      <4>. QED  BY <1>3, <2>6, <4>1, IdleCall, CallsStep DEF IntakeInv
    <3>. QED  BY <3>1, <3>2
  <2>10. RecordedTargetsCaptured'
    <3>1. \A q \in DOMAIN targets' : capture'[q] # None /\ capture'[q] = targets'[q].tree
      BY <1>2, <1>3, <2>1, <2>tree, <2>4 DEF IntakeInv, RecordedTargetsCaptured, VerifiedCapture
    <3>. QED  BY <1>3, <2>4, <3>1 DEF IntakeInv, RecordedTargetsCaptured, VerifiedCapture
  <2>11. JobsInv'
    BY <1>3, <2>6, JobsGrow DEF IntakeInv
  <2>. QED  BY <2>5, <2>9, <2>10, <2>11 DEF IntakeInv
<1>. QED  BY <1>4, <1>5

-----------------------------------------------------------------------------
(* The specification. *)

LEMMA IntakeInit == Init => IntakeInv
<1>. SUFFICES ASSUME Init  PROVE IntakeInv
  OBVIOUS
<1>1. /\ DOMAIN targets = {} /\ DOMAIN approvals = {} /\ DOMAIN capture = Revisions
      /\ now = 0 /\ scope = None /\ apparatus = {} /\ jobs = {}
  BY DEF Init, NoRows
<1>2. /\ campaign \in Campaign /\ campaign.state = "none" /\ campaign.version = 0
      /\ campaign.target = None
  BY DEF Init, Campaign, States
<1>3. StoreInv
  <2>1. MaxTime \in Nat
    BY IntakeAssumption
  <2>2. 0 \in 0 .. MaxTime
    BY <2>1
  <2>. QED  BY <1>1, <1>2, <2>2 DEF StoreInv
<1>4. CallsInv
  BY IdleCall DEF Init, CallsInv
<1>5. RecordedTargetsCaptured
  BY <1>1, <1>2 DEF RecordedTargetsCaptured
<1>6. JobsInv
  BY <1>1 DEF JobsInv
<1>. QED  BY <1>3, <1>4, <1>5, <1>6 DEF IntakeInv

LEMMA HandlerStep ==
  ASSUME IntakeInv, NEW u \in Users, handleResearch(u)
  PROVE  IntakeInv'
<1>1. CASE handleResearchScopes(u)
  BY <1>1, ScopeStep DEF handleResearchScopes
<1>2. CASE handleResearchApparatuses(u)
  BY <1>2, RegisterStep DEF handleResearchApparatuses
<1>3. CASE handleResearchApproval(u)
  BY <1>3, DecideStep DEF handleResearchApproval
<1>4. CASE handleResearchCampaigns(u)
  <2>1. CASE CreateCampaign(u)
    BY <2>1, CampaignWriteStep
  <2>2. CASE CanReadCampaign(u) /\ \E to \in {"scoped"} \cup Stops[u] : handleResearchTransition(u, to)
    BY <2>2, TransitionCallStep
  <2>3. CASE handleResearchTarget(u) \/ handleResearchTargets(u)
    BY <2>3, BeginCaptureStep DEF handleResearchTarget, handleResearchTargets
  <2>4. CASE handleCampaignApprovals(u)
    BY <2>4, RequestStep DEF handleCampaignApprovals
  <2>5. CASE CanReadCampaign(u) /\ \E r \in JobRequests[u] : handleResearchJobs(u, r)
    BY <2>5, JobCallStep
  <2>. QED  BY <1>4, <2>1, <2>2, <2>3, <2>4, <2>5 DEF handleResearchCampaigns
<1>. QED  BY <1>1, <1>2, <1>3, <1>4 DEF handleResearch

LEMMA IntakeStep ==
  ASSUME IntakeInv, [Next]_vars
  PROVE  IntakeInv'
<1>1. CASE UNCHANGED vars
  <2>1. /\ UNCHANGED <<now, scope, campaign, apparatus, catalog, capture, targets, builds, approvals, jobs>>
        /\ call' = call
    BY <1>1 DEF vars
  <2>2. StoreInv' /\ RecordedTargetsCaptured'
    BY <2>1 DEF IntakeInv, StoreInv, Decided, ScopeMade, RecordedTargetsCaptured, VerifiedCapture
  <2>3. CampaignStep /\ TargetsGrow /\ ApprovalsGrow /\ ScopeStands
    BY <2>1 DEF CampaignStep, TargetsGrow, ApprovalsGrow, ScopeStands
  <2>. QED  BY <2>1, <2>2, <2>3, GrowStep
<1>2. CASE Restart
  BY <1>2, RestartStep
<1>3. CASE Tick \/ MoveCheckout
  BY <1>3, OutsideStep
<1>4. CASE AssessPrimitive \/ \E j \in jobs : ingestBuild(j)
  <2>1. /\ UNCHANGED <<now, scope, apparatus, catalog, capture, targets, approvals, jobs>>
        /\ builds \subseteq builds' /\ call' = call
    BY <1>4 DEF AssessPrimitive, ingestBuild
  <2>2. /\ CampaignStep /\ campaign'.target = campaign.target
        /\ campaign' = campaign \/ campaign.state # "none"
    BY <1>4, PipelineMoves
  <2>3. campaign'.state # "none" => scope # None
    BY <2>2 DEF IntakeInv, StoreInv
  <2>4. StoreInv' /\ TargetsGrow /\ ApprovalsGrow /\ ScopeStands
    BY <2>1, <2>2, <2>3, MoveKeepsStore
  <2>5. RecordedTargetsCaptured'
    BY <2>1, <2>2, RecordedStay DEF IntakeInv, RecordedTargetsCaptured
  <2>. QED  BY <2>1, <2>2, <2>4, <2>5, GrowStep
<1>5. ASSUME NEW u \in Users, withAuthentication(u), handleResearch(u)  PROVE IntakeInv'
  BY <1>5, HandlerStep
<1>6. ASSUME NEW u \in Users, RevokeScope(u) \/ Transition(u) \/ SaveApproval(u)
      PROVE  IntakeInv'
  BY <1>6, ScopeStep, CampaignWriteStep, SaveApprovalStep
<1>7. ASSUME NEW u \in Users,
             \/ CaptureGitCheckout(u) \/ ConfirmCheckout(u) \/ Fetch(u) \/ ConfirmManifest(u)
             \/ InstallCapture(u) \/ RenameCapture(u) \/ RecordTarget(u) \/ SaveTarget(u)
             \/ AdvanceAcquired(u)
      PROVE  IntakeInv'
  BY <1>7, TreeStep, ConfirmStep, InstallStep, RenameStep, RecordStep, SaveTargetStep,
     CampaignWriteStep
<1>8. ASSUME NEW u \in Users, Enqueue(u) \/ Submit(u)  PROVE IntakeInv'
  BY <1>8, EnqueueStep, SubmitStep
<1>. QED  BY <1>1, <1>2, <1>3, <1>4, <1>5, <1>6, <1>7, <1>8 DEF Next

LEMMA IntakeInvariant == Spec => []IntakeInv
  BY IntakeInit, IntakeStep, PTL DEF Spec

\* Only four actions and the creation of the campaign write it.
LEMMA CampaignMoves ==
  ASSUME IntakeInv, [Next]_vars
  PROVE  CampaignStep
<1>1. ASSUME NEW u \in Users, handleResearch(u)  PROVE CampaignStep
  <2>1. CASE CreateCampaign(u)
    BY <2>1, CreateMoves
  <2>2. CASE ~CreateCampaign(u)
    <3>1. campaign' = campaign
      BY <1>1, <2>2 DEF handleResearch, handleResearchScopes, handleResearchCampaigns,
         handleResearchApparatuses, handleResearchApproval, handleResearchTarget,
         handleResearchTargets, handleCampaignApprovals, CreateScope, RegisterApparatus,
         DecideApproval, handleResearchTransition, AcquireTarget, AcquireComparisonTarget,
         BeginCapture, RequestApproval, handleResearchJobs
    <3>. QED  BY <3>1 DEF CampaignStep
  <2>. QED  BY <2>1, <2>2
<1>2. ASSUME NEW u \in Users,
             \/ RevokeScope(u) \/ SaveApproval(u)
             \/ CaptureGitCheckout(u) \/ ConfirmCheckout(u) \/ Fetch(u) \/ ConfirmManifest(u)
             \/ InstallCapture(u) \/ RenameCapture(u) \/ RecordTarget(u) \/ SaveTarget(u)
             \/ Enqueue(u) \/ Submit(u)
      PROVE  CampaignStep
  <2>1. campaign' = campaign
    BY <1>2 DEF RevokeScope, SaveApproval, CaptureGitCheckout, ConfirmCheckout, Fetch,
       ConfirmManifest, InstallCapture, RenameCapture, RecordTarget, SaveTarget, Enqueue,
       Submit, CaptureUnchanged
  <2>. QED  BY <2>1 DEF CampaignStep
<1>3. ASSUME Restart \/ Tick \/ MoveCheckout \/ UNCHANGED vars  PROVE CampaignStep
  BY <1>3 DEF Restart, Tick, MoveCheckout, vars, CampaignStep
<1>. QED  BY <1>1, <1>2, <1>3, TransitionMoves, AcquiredMoves, PipelineMoves DEF Next

\* The states in the order of CampaignLife.
LEMMA LifeOrder ==
  /\ Life!InOrder("draft") /\ Life!Evidence[Life!Rank("draft") + 1] = "scoped"
  /\ Life!InOrder("scoped") /\ Life!Evidence[Life!Rank("scoped") + 1] = "acquired"
  /\ Life!InOrder("acquired") /\ Life!Evidence[Life!Rank("acquired") + 1] = "build_ready"
  /\ Life!InOrder("build_ready")
  /\ Life!Evidence[Life!Rank("build_ready") + 1] = "primitive_assessed"
<1>. DEFINE E == Life!Evidence
<1>1. /\ DOMAIN E = 1 .. 5 /\ E[1] = "draft" /\ E[2] = "scoped" /\ E[3] = "acquired"
      /\ E[4] = "build_ready" /\ E[5] = "primitive_assessed"
  BY DEF Life!Evidence
<1>. HIDE DEF E
<1>2. Life!Rank("draft") = 1 /\ Life!Rank("scoped") = 2 /\ Life!Rank("acquired") = 3
      /\ Life!Rank("build_ready") = 4
  <2>1. ASSUME NEW n \in 1 .. 5  PROVE (CHOOSE i \in DOMAIN E : E[i] = E[n]) = n
    <3>1. \A i \in 1 .. 5 : E[i] = E[n] => i = n
      BY <1>1
    <3>2. (CHOOSE i \in DOMAIN E : E[i] = E[n]) \in DOMAIN E
          /\ E[CHOOSE i \in DOMAIN E : E[i] = E[n]] = E[n]
      BY <1>1
    <3>. QED  BY <1>1, <3>1, <3>2
  <2>. QED  BY <1>1, <2>1 DEF Life!Rank, E
<1>3. /\ Life!InOrder("draft") /\ Life!InOrder("scoped") /\ Life!InOrder("acquired")
      /\ Life!InOrder("build_ready")
  BY <1>1 DEF Life!InOrder, E
<1>. QED  BY <1>1, <1>2, <1>3 DEF E

(* Whatever calls, pipeline results, restarts and renewals interleave, the   *)
(* stored campaign moves only as CampaignLife allows: the compare and swap   *)
(* on its version drops every write made from an older campaign.             *)
THEOREM CampaignRefines == Spec => CampaignLives
<1>1. Init => Life!LifeInit
  BY DEF Init, Life!LifeInit
<1>2. IntakeInv /\ [Next]_vars => [Life!LifeNext]_<<campaign.state, campaign.target>>
  <2>1. SUFFICES ASSUME IntakeInv, CampaignStep
                 PROVE  [Life!LifeNext]_<<campaign.state, campaign.target>>
    BY CampaignMoves
  <2>2. CASE campaign' = campaign
    BY <2>2
  <2>3. CASE LifeMove(campaign, campaign')
    <3>1. CASE campaign.state = "none" /\ campaign'.state = "draft" /\ campaign'.target = campaign.target
      BY <3>1 DEF Life!LifeNext, Life!Begin
    <3>2. CASE /\ <<campaign.state, campaign'.state>> \in
                     {<<"draft", "scoped">>, <<"acquired", "build_ready">>,
                      <<"build_ready", "primitive_assessed">>}
               /\ campaign'.target = campaign.target
      <4>1. Life!Step
        BY <3>2, LifeOrder DEF Life!Step
      <4>. QED  BY <4>1 DEF Life!LifeNext
    <3>3. CASE campaign.state = "scoped" /\ campaign'.state = "acquired" /\ campaign'.target # None
      <4>1. Life!Step
        BY <3>3, LifeOrder DEF Life!Step
      <4>. QED  BY <4>1 DEF Life!LifeNext
    <3>4. CASE /\ campaign.state \notin {"cancelled", "failed", "none"}
               /\ campaign'.state \in Stopping \ {campaign.state}
               /\ campaign'.target = campaign.target
      <4>1. Life!Stop
        BY <3>4 DEF Life!Stop, Life!Final, Life!Halted, Stopping
      <4>. QED  BY <4>1 DEF Life!LifeNext
    <3>. QED  BY <2>3, <3>1, <3>2, <3>3, <3>4 DEF LifeMove
  <2>. QED  BY <2>1, <2>2, <2>3 DEF CampaignStep
<1>. QED  BY <1>1, <1>2, IntakeInvariant, PTL DEF Spec, CampaignLives, Life!LifeSpec

(* Concurrent captures of one revision, from the checkout and from pinned    *)
(* bundles, never leave a record that names another tree than its directory  *)
(* holds, and a campaign points to stored records only.                      *)
THEOREM TargetsCaptured == Spec => []RecordedTargetsCaptured
<1>1. IntakeInv => RecordedTargetsCaptured
  BY DEF IntakeInv
<1>. QED  BY <1>1, IntakeInvariant, PTL

(* A job of a gated operation was let in by an approval for its operation    *)
(* and correlation that a member other than the requester, or an admin, has  *)
(* decided, though approvals may be decided again while the job is checked.  *)
THEOREM JobsApproved == Spec => []GatedJobsApproved
<1>1. IntakeInv => GatedJobsApproved
  BY DEF IntakeInv, JobsInv, JobGated, Decided, GatedJobsApproved
<1>. QED  BY <1>1, IntakeInvariant, PTL

(* An accepted job's target stays captured as recorded, and its build is one *)
(* of this target by the same apparatus: what Enqueue checked of them cannot *)
(* become false before or after Submit.                                      *)
THEOREM JobsBacked == Spec => []JobsMatchEvidence
<1>1. IntakeInv => JobsMatchEvidence
  BY DEF IntakeInv, JobsInv, JobBacked, JobsMatchEvidence
<1>. QED  BY <1>1, IntakeInvariant, PTL

(* No step accepts a job of an apparatus whose stored evidence is not the    *)
(* one of the running server's catalog, although the check is in Enqueue and *)
(* the job is stored by a later step: a restart ends the calls in between.   *)
THEOREM JobsTrusted == Spec => JobsUseTrustedApparatus
<1>. DEFINE Trusting ==
       \A j \in jobs' \ jobs :
          \E e \in catalog.entries, a \in apparatus :
             /\ e.manifest.id = j.job.manifest /\ a.manifest = e.manifest
             /\ a.sbom = e.sbom /\ a.provenance = e.provenance
<1>1. ASSUME IntakeInv, [Next]_vars  PROVE Trusting
  <2>1. ASSUME NEW u \in Users, Submit(u)  PROVE Trusting
    BY <1>1, <2>1, SubmitStep DEF JobTrusted
  <2>2. jobs' = jobs \/ \E u \in Users : Submit(u)
    <3>1. ASSUME NEW u \in Users, handleResearch(u)  PROVE jobs' = jobs
      BY <3>1 DEF handleResearch, handleResearchScopes, handleResearchCampaigns,
         handleResearchApparatuses, handleResearchApproval, handleResearchTarget,
         handleResearchTargets, handleCampaignApprovals, CreateScope, RegisterApparatus,
         DecideApproval, handleResearchTransition, AcquireTarget, AcquireComparisonTarget,
         BeginCapture, RequestApproval, handleResearchJobs, CreateCampaign
    <3>2. ASSUME NEW u \in Users,
                 \/ RevokeScope(u) \/ SaveApproval(u) \/ Transition(u) \/ AdvanceAcquired(u)
                 \/ CaptureGitCheckout(u) \/ ConfirmCheckout(u) \/ Fetch(u) \/ ConfirmManifest(u)
                 \/ InstallCapture(u) \/ RenameCapture(u) \/ RecordTarget(u) \/ SaveTarget(u)
                 \/ Enqueue(u)
          PROVE  jobs' = jobs
      BY <3>2 DEF RevokeScope, SaveApproval, Transition, AdvanceAcquired, CaptureGitCheckout,
         ConfirmCheckout, Fetch, ConfirmManifest, InstallCapture, RenameCapture, RecordTarget,
         SaveTarget, Enqueue, CaptureUnchanged
    <3>3. ASSUME \/ Restart \/ Tick \/ MoveCheckout \/ AssessPrimitive \/ UNCHANGED vars
                 \/ \E j \in jobs : ingestBuild(j)
          PROVE  jobs' = jobs
      BY <3>3 DEF Restart, Tick, MoveCheckout, AssessPrimitive, ingestBuild, vars
    <3>. QED  BY <1>1, <3>1, <3>2, <3>3 DEF Next
  <2>. QED  BY <2>1, <2>2
<1>2. IntakeInv /\ [Next]_vars => [Trusting]_vars
  BY <1>1
<1>. QED  BY <1>2, IntakeInvariant, PTL DEF Spec, JobsUseTrustedApparatus
=============================================================================
