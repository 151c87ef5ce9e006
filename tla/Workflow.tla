------------------------------- MODULE Workflow -------------------------------
(***************************************************************************)
(* The reviewed end of a research campaign: internal/research/service      *)
(* (workflow.go, Transition, DecideApproval) over the state machine of     *)
(* internal/research/domain/state.go, from PrimitiveAssessed to Disclosed. *)
(*                                                                         *)
(* Every request reads the campaign, then the finding, then saves a full   *)
(* copy of the finding (an upsert) and at last moves the campaign by       *)
(* compare-and-swap on its version.  Requests run concurrently, fail and   *)
(* are cut off by crashes between any two of these steps.                  *)
(***************************************************************************)
EXTENDS Integers, FiniteSets

CONSTANTS
    Callers,      \* clients of the workflow operations
    Stoppers,     \* operators that pause, cancel or fail the campaign
    Reviewers,    \* callers of DecideApproval
    MaxFixRuns,   \* bound: sets of fix-build runs a remediation may name
    MaxFaults,    \* bound: requests cut off part way
    ReviewStatus, \* statuses a reviewer may give: match, no_match
    MayExpire,    \* the authorization scope may expire
    None

ASSUME WorkflowAssumption ==
    /\ MaxFixRuns \in Nat \ {0} /\ MaxFaults \in Nat
    /\ ReviewStatus \subseteq {"match", "no_match"}
    /\ MayExpire \in BOOLEAN

\* None stands for a nil; it is no novelty verdict.
ASSUME NoneAssumption == None \notin {"unverified", "known"}

VARIABLES
    campaign,   \* the stored campaign: state and version
    finding,    \* the stored finding
    scopeValid, \* AuthorizationScope.Validate
    approval,   \* status of the patch, report and disclosure approval (bound:
                \* one record for each)
    checks,     \* retained evidence: branch checks complete, novelty reviews
    patch,      \* a candidate patch artifact is stored
    validated,  \* run sets for which a remediation record is stored
    req,        \* the workflow request each caller is in
    stop,       \* the Transition request each stopper is in
    decide,     \* the DecideApproval request each reviewer is in
    faults

vars == <<campaign, finding, scopeValid, approval, checks, patch, validated,
          req, stop, decide, faults>>

-----------------------------------------------------------------------------
(* The campaign state machine. *)

Chain == <<"primitive_assessed", "branch_checked", "novelty_reviewed",
           "remediated", "report_ready", "disclosed">>
Stopped == {"paused", "cancelled", "failed"}
States == {Chain[i] : i \in DOMAIN Chain} \cup Stopped

Campaign == [state : States, version : Nat]

terminalCampaignState(s) == s \in {"disclosed", "cancelled", "failed"}

Rank(s) == CHOOSE i \in DOMAIN Chain : Chain[i] = s
\* The evidence states the campaign has passed, whatever stopped it later.
Reached(s) == campaign.state \notin Stopped /\ Rank(campaign.state) >= Rank(s)

\* Advance for a stop: any state that is not terminal may be paused, cancelled
\* or failed.
MayStop(from, to) == to # from /\ ~terminalCampaignState(from)

\* Advance along the evidence chain: the next state only, and from nowhere else.
\* A campaign already in the state stays as it is.
Advance(c, to) ==
    IF c.state = to THEN c ELSE [state |-> to, version |-> c.version + 1]
MayAdvance(c, to) ==
    c.state = to \/ (c.state \notin Stopped /\ Rank(to) = Rank(c.state) + 1)

\* Mutant: the update does not compare versions.
UpdateCampaignBlind(read, next) == campaign' = next

\* UpdateCampaign: UPDATE ... WHERE version = expected.
UpdateCampaign(read, next) ==
    campaign' = IF campaign.version = read.version THEN next ELSE campaign

-----------------------------------------------------------------------------
(* Findings, approvals and requests. *)

NoFinding == [branch |-> FALSE, novelty |-> None, fix |-> FALSE,
              report |-> FALSE, candidate |-> FALSE, disclosed |-> FALSE]
Finding == [branch : BOOLEAN, novelty : {None, "unverified", "known"},
            fix : BOOLEAN, report : BOOLEAN, candidate : BOOLEAN,
            disclosed : BOOLEAN]

Operations == {"branch", "novelty", "patch", "remediation", "report", "disclosure"}
Approvals == {"patch", "report", "disclosure"}
ApprovalStatus == {"none", "pending", "approved", "denied"}

\* The campaign states in which an operation is served.
AllowedStates(o) ==
    CASE o = "branch"      -> {"primitive_assessed", "branch_checked"}
      [] o = "novelty"     -> {"branch_checked", "novelty_reviewed"}
      [] o = "patch"       -> {"novelty_reviewed"}
      [] o = "remediation" -> {"novelty_reviewed", "remediated"}
      [] o = "report"      -> {"remediated", "report_ready"}
      [] o = "disclosure"  -> {"report_ready"}

TargetState(o) ==
    CASE o = "branch"      -> "branch_checked"
      [] o = "novelty"     -> "novelty_reviewed"
      [] o = "remediation" -> "remediated"
      [] o = "report"      -> "report_ready"
      [] o = "disclosure"  -> "disclosed"
      [] OTHER             -> "novelty_reviewed"

\* matchingApproval, for the operations that ask for one.
matchingApproval(o) ==
    CASE o \in {"patch", "remediation"} -> approval["patch"] = "approved"
      [] o \in {"report", "disclosure"} -> approval[o] = "approved"
      [] OTHER -> TRUE

\* What each operation requires of the finding it read and of the retained
\* evidence; for the report this is the gate of PromoteFinding.
EvidencePermits(o, f) ==
    CASE o = "branch"      -> checks.branch
      [] o = "novelty"     -> f.branch /\ checks.novelty # None
      [] o = "patch"       -> TRUE
      [] o = "remediation" -> patch
      [] o = "report"      -> f.branch /\ f.novelty # None
      [] o = "disclosure"  -> f.report

\* novelty.Evaluate: complete reviews say known or unverified, never novel.
Evaluate(review) == IF review = "match" THEN "known" ELSE "unverified"

\* The copy of the finding an operation saves.
Updated(o, f) ==
    CASE o = "branch"      -> [f EXCEPT !.branch = TRUE]
      [] o = "novelty"     -> [f EXCEPT !.novelty = Evaluate(checks.novelty)]
      [] o = "remediation" -> [f EXCEPT !.fix = TRUE]
      [] o = "report"      -> [f EXCEPT !.report = TRUE, !.candidate = TRUE]
      [] o = "disclosure"  -> [f EXCEPT !.disclosed = TRUE]
      [] OTHER             -> f

\* A workflow request and a Transition request, with the copies they read.
Request == [pc : {"idle", "check", "put", "record", "save", "swap"},
            op : Operations \cup {None}, c : Campaign \cup {None},
            f : Finding \cup {None}]
Transition == [pc : {"idle", "swap"}, to : Stopped \cup {None}, c : Campaign \cup {None}]

NoReq  == [pc |-> "idle", op |-> None, c |-> None, f |-> None]
NoStop == [pc |-> "idle", to |-> None, c |-> None]
NoDecision == [pc |-> "idle", a |-> None]

Init ==
    /\ campaign = [state |-> "primitive_assessed", version |-> 0]
    /\ finding = NoFinding
    /\ scopeValid = TRUE
    /\ approval = [a \in Approvals |-> "none"]
    /\ checks = [branch |-> FALSE, novelty |-> None]
    /\ patch = FALSE /\ validated = {}
    /\ req = [w \in Callers |-> NoReq]
    /\ stop = [s \in Stoppers |-> NoStop]
    /\ decide = [r \in Reviewers |-> NoDecision]
    /\ faults = 0

records == <<scopeValid, approval, checks>>

-----------------------------------------------------------------------------
(* The workflow operations. *)

\* workflowFinding reads the campaign and the scope, ...
Begin(w, o) ==
    /\ req[w].pc = "idle" /\ scopeValid
    /\ campaign.state \in AllowedStates(o)
    /\ req' = [req EXCEPT ![w] = [pc |-> "check", op |-> o, c |-> campaign, f |-> None]]
    /\ UNCHANGED <<campaign, finding, records, patch, validated, stop, decide, faults>>

\* ... then the finding; approval, evidence and the state machine are checked
\* against what was read.
Checks(w) ==
    LET r == req[w] IN
    /\ matchingApproval(r.op)
    /\ EvidencePermits(r.op, finding)
    /\ MayAdvance(r.c, TargetState(r.op))
    /\ r.op = "disclosure" => scopeValid    \* AuthorizeAction, a second look

\* CreatePrivateReport returns the stored report if there is one.
AlreadyReported(w) == req[w].op = "report" /\ finding.report

FirstWrite(o) == CASE o = "patch" -> "put"
                   [] o = "remediation" -> "record"
                   [] OTHER -> "save"

\* Mutant: approvals are not looked at.
CheckUnapproved(w) ==
    /\ req[w].pc = "check" /\ ~AlreadyReported(w)
    /\ EvidencePermits(req[w].op, finding)
    /\ MayAdvance(req[w].c, TargetState(req[w].op))
    /\ req' = [req EXCEPT ![w].pc = FirstWrite(req[w].op),
                          ![w].f = Updated(req[w].op, finding)]
    /\ UNCHANGED <<campaign, finding, records, patch, validated, stop, decide, faults>>

Check(w) ==
    /\ req[w].pc = "check" /\ ~AlreadyReported(w) /\ Checks(w)
    /\ req' = [req EXCEPT ![w].pc = FirstWrite(req[w].op),
                          ![w].f = Updated(req[w].op, finding)]
    /\ UNCHANGED <<campaign, finding, records, patch, validated, stop, decide, faults>>

\* A check fails, or there is a report already: nothing is written.
Denied(w) ==
    /\ req[w].pc = "check" /\ (AlreadyReported(w) \/ ~Checks(w))
    /\ req' = [req EXCEPT ![w] = NoReq]
    /\ UNCHANGED <<campaign, finding, records, patch, validated, stop, decide, faults>>

\* CreateCandidatePatch stores the diff as an artifact and is done.
PutPatch(w) ==
    /\ req[w].pc = "put"
    /\ patch' = TRUE
    /\ req' = [req EXCEPT ![w] = NoReq]
    /\ UNCHANGED <<campaign, finding, records, validated, stop, decide, faults>>

\* SaveRemediation inserts under an id derived from the named runs: a second
\* record for the same runs is a constraint error that ends the request.
SaveRemediation(w, runs) ==
    /\ req[w].pc = "record"
    /\ validated' = validated \cup {runs}
    /\ req' = [req EXCEPT ![w] = IF runs \in validated THEN NoReq
                                                      ELSE [@ EXCEPT !.pc = "save"]]
    /\ UNCHANGED <<campaign, finding, records, patch, stop, decide, faults>>

\* Mutant: the campaign is moved first and the finding saved after it.
SaveFindingLate(w) ==
    /\ req[w].pc = "save"
    /\ UpdateCampaign(req[w].c, Advance(req[w].c, TargetState(req[w].op)))
    /\ req' = [req EXCEPT ![w].pc = "swap"]
    /\ UNCHANGED <<finding, records, patch, validated, stop, decide, faults>>

SaveFinding(w) ==
    /\ req[w].pc = "save"
    /\ finding' = req[w].f
    /\ req' = [req EXCEPT ![w].pc = "swap"]
    /\ UNCHANGED <<campaign, records, patch, validated, stop, decide, faults>>

\* UpdateCampaign, left out when Advance changed nothing.
Swap(w) ==
    LET r == req[w] IN
    /\ r.pc = "swap"
    /\ IF r.c.state = TargetState(r.op)
         THEN UNCHANGED campaign
         ELSE UpdateCampaign(r.c, Advance(r.c, TargetState(r.op)))
    /\ req' = [req EXCEPT ![w] = NoReq]
    /\ UNCHANGED <<finding, records, patch, validated, stop, decide, faults>>

\* The request ends between two steps: client gone, store error or crash.
CutOff(w) ==
    /\ req[w].pc \in {"record", "save", "swap"}
    /\ faults < MaxFaults /\ faults' = faults + 1
    /\ req' = [req EXCEPT ![w] = NoReq]
    /\ UNCHANGED <<campaign, finding, records, patch, validated, stop, decide>>

-----------------------------------------------------------------------------
(* Transition to paused, cancelled or failed. *)

TransitionRead(s, to) ==
    /\ stop[s].pc = "idle" /\ scopeValid
    /\ MayStop(campaign.state, to)
    /\ stop' = [stop EXCEPT ![s] = [pc |-> "swap", to |-> to, c |-> campaign]]
    /\ UNCHANGED <<campaign, finding, records, patch, validated, req, decide, faults>>

TransitionSwap(s) ==
    /\ stop[s].pc = "swap"
    /\ UpdateCampaign(stop[s].c, Advance(stop[s].c, stop[s].to))
    /\ stop' = [stop EXCEPT ![s] = NoStop]
    /\ UNCHANGED <<finding, records, patch, validated, req, decide, faults>>

-----------------------------------------------------------------------------
(* Approvals, evidence and the scope. *)

RequestApproval(a) ==
    /\ approval[a] = "none"
    /\ approval' = [approval EXCEPT ![a] = "pending"]
    /\ UNCHANGED <<campaign, finding, scopeValid, checks, patch, validated, req,
                   stop, decide, faults>>

DecideRead(r, a) ==
    /\ decide[r].pc = "idle"
    /\ approval[a] = "pending"
    /\ decide' = [decide EXCEPT ![r] = [pc |-> "save", a |-> a]]
    /\ UNCHANGED <<campaign, finding, records, patch, validated, req, stop, faults>>

\* SaveApproval is an upsert of the copy that was read as pending.
DecideSave(r) ==
    /\ decide[r].pc = "save"
    /\ \E status \in {"approved", "denied"} :
          approval' = [approval EXCEPT ![decide[r].a] = status]
    /\ decide' = [decide EXCEPT ![r] = NoDecision]
    /\ UNCHANGED <<campaign, finding, scopeValid, checks, patch, validated, req,
                   stop, faults>>

\* Revision checks (ingested or RecordUntestedRevision) cover every revision.
BranchFacts ==
    /\ ~checks.branch
    /\ campaign.state \in {"primitive_assessed", "branch_checked"}
    /\ checks' = [checks EXCEPT !.branch = TRUE]
    /\ UNCHANGED <<campaign, finding, scopeValid, approval, patch, validated, req,
                   stop, decide, faults>>

\* ReviewSourceEvidence: the latest review of each kind counts, in any state.
ReviewSourceEvidence(status) ==
    /\ scopeValid /\ checks.novelty # status
    /\ checks' = [checks EXCEPT !.novelty = status]
    /\ UNCHANGED <<campaign, finding, scopeValid, approval, patch, validated, req,
                   stop, decide, faults>>

ScopeExpires ==
    /\ MayExpire /\ scopeValid
    /\ scopeValid' = FALSE
    /\ UNCHANGED <<campaign, finding, approval, checks, patch, validated, req,
                   stop, decide, faults>>

-----------------------------------------------------------------------------
Serve(w) ==
    \/ Check(w) \/ Denied(w) \/ PutPatch(w) \/ SaveFinding(w) \/ Swap(w)
    \/ \E runs \in 1 .. MaxFixRuns : SaveRemediation(w, runs)

Next ==
    \/ \E w \in Callers, o \in Operations : Begin(w, o)
    \/ \E w \in Callers : Serve(w) \/ CutOff(w)
    \/ \E s \in Stoppers : TransitionSwap(s) \/ \E to \in Stopped : TransitionRead(s, to)
    \/ \E a \in Approvals : RequestApproval(a)
    \/ \E r \in Reviewers : DecideSave(r) \/ \E a \in Approvals : DecideRead(r, a)
    \/ BranchFacts \/ ScopeExpires
    \/ \E status \in ReviewStatus : ReviewSourceEvidence(status)

Spec == Init /\ [][Next]_vars

-----------------------------------------------------------------------------
(* Properties. *)

TypeOK ==
    /\ campaign \in Campaign
    /\ finding \in Finding
    /\ scopeValid \in BOOLEAN
    /\ approval \in [Approvals -> ApprovalStatus]
    /\ checks \in [branch : BOOLEAN, novelty : {None, "match", "no_match"}]
    /\ patch \in BOOLEAN
    /\ validated \in SUBSET (1 .. MaxFixRuns)
    /\ faults \in 0 .. MaxFaults
    /\ req \in [Callers -> Request]
    /\ stop \in [Stoppers -> Transition]
    /\ decide \in [Reviewers -> [pc : {"idle", "save"}, a : Approvals \cup {None}]]

\* Whatever the interleaving, an ended campaign stays ended, a stopped one does
\* not go on, and evidence states are passed one by one.
EvidenceOrder ==
    [][campaign'.state # campaign.state =>
          /\ ~terminalCampaignState(campaign.state)
          /\ \/ campaign'.state \in Stopped
             \/ /\ campaign.state \notin Stopped
                /\ Rank(campaign'.state) = Rank(campaign.state) + 1]_vars

\* The evidence a campaign state stands for is in the stored finding: no
\* partial failure leaves the campaign ahead of its evidence.
StateBacked ==
    /\ Reached("branch_checked") => finding.branch
    /\ Reached("novelty_reviewed") => finding.novelty # None
    /\ Reached("remediated") => finding.fix /\ validated # {}
    /\ Reached("report_ready") => finding.report /\ finding.candidate
    /\ Reached("disclosed") => finding.disclosed

\* Nothing is reported, fixed or disclosed without the human decision for it.
HumanApproved ==
    /\ finding.fix => approval["patch"] = "approved"
    /\ finding.report => approval["report"] = "approved"
    /\ finding.disclosed => approval["disclosure"] = "approved"

=============================================================================
