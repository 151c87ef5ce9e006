--------------------------- MODULE WorkflowProofs ---------------------------
(***************************************************************************)
(* The campaign order of internal/research/service, for any number of      *)
(* clients, operators and reviewers and any number of cut-off requests;    *)
(* the human decision, for one reviewer; the evidence behind the campaign, *)
(* for one client.                                                         *)
(***************************************************************************)
EXTENDS Workflow, TLAPS

-----------------------------------------------------------------------------
(* The chain of evidence states. *)

ChainStates == {"primitive_assessed", "branch_checked", "novelty_reviewed",
                "remediated", "report_ready", "disclosed"}

LEMMA ChainDomain == DOMAIN Chain = 1 .. 6
  BY DEF Chain

LEMMA StatesAre == States = ChainStates \cup Stopped
<1>1. {Chain[i] : i \in DOMAIN Chain} = ChainStates
  BY ChainDomain DEF Chain, ChainStates
<1>. QED  BY <1>1 DEF States

LEMMA RankOf == \A s \in ChainStates : Rank(s) \in 1 .. 6 /\ Chain[Rank(s)] = s
<1>1. \A s \in ChainStates : \E i \in DOMAIN Chain : Chain[i] = s
  BY ChainDomain DEF Chain, ChainStates
<1>. QED  BY <1>1, ChainDomain DEF Rank

\* No evidence state follows Disclosed.
LEMMA DisclosedIsLast == \A s \in ChainStates : Rank(s) # Rank("disclosed") + 1
<1>1. Rank("disclosed") = 6
  BY RankOf DEF Chain, ChainStates
<1>. QED  BY <1>1, RankOf

LEMMA TargetIsState == \A o : TargetState(o) \in ChainStates
  BY DEF TargetState, ChainStates

-----------------------------------------------------------------------------
(* The records a request works with. *)

ReqPc == {"idle", "check", "put", "record", "save", "swap"}

LEMMA NoReqType == NoReq \in Request
  BY DEF NoReq, Request

LEMMA NoStopType == NoStop \in Transition
  BY DEF NoStop, Transition

LEMMA BegunType ==
  ASSUME NEW o \in Operations, NEW c \in Campaign
  PROVE  [pc |-> "check", op |-> o, c |-> c, f |-> None] \in Request
  BY DEF Request

LEMMA PcType ==
  ASSUME NEW r \in Request, NEW p \in ReqPc
  PROVE  /\ [r EXCEPT !.pc = p] \in Request
         /\ [r EXCEPT !.pc = p].pc = p
         /\ [r EXCEPT !.pc = p].op = r.op
         /\ [r EXCEPT !.pc = p].c = r.c
         /\ [r EXCEPT !.pc = p].f = r.f
  BY DEF Request, ReqPc

LEMMA CopyType ==
  ASSUME NEW r \in Request, NEW g \in Finding
  PROVE  /\ [r EXCEPT !.f = g] \in Request
         /\ [r EXCEPT !.f = g].pc = r.pc
         /\ [r EXCEPT !.f = g].op = r.op
         /\ [r EXCEPT !.f = g].c = r.c
         /\ [r EXCEPT !.f = g].f = g
  BY DEF Request

LEMMA FirstWritePc == \A o : FirstWrite(o) \in {"put", "record", "save"}
  BY DEF FirstWrite

\* What an operation saves is a finding again.
LEMMA UpdatedType ==
  ASSUME TypeOK, NEW o
  PROVE  Updated(o, finding) \in Finding
<1>1. finding \in Finding
  BY DEF TypeOK
<1>2. Evaluate(checks.novelty) \in {None, "unverified", "known"}
  BY DEF Evaluate
<1>3. [finding EXCEPT !.branch = TRUE] \in Finding
  BY <1>1 DEF Finding
<1>4. [finding EXCEPT !.novelty = Evaluate(checks.novelty)] \in Finding
  BY <1>1, <1>2 DEF Finding
<1>5. [finding EXCEPT !.fix = TRUE] \in Finding
  BY <1>1 DEF Finding
<1>6. [finding EXCEPT !.report = TRUE, !.candidate = TRUE] \in Finding
  BY <1>1 DEF Finding
<1>7. [finding EXCEPT !.disclosed = TRUE] \in Finding
  BY <1>1 DEF Finding
<1>. QED  BY <1>1, <1>3, <1>4, <1>5, <1>6, <1>7 DEF Updated

-----------------------------------------------------------------------------
(* The inductive invariant.  A request holds a copy of the campaign that is *)
(* either older than the stored one or equal to it, and a request that has  *)
(* passed its checks may advance that copy.                                 *)

Writing == {"put", "record", "save", "swap"}

Seen(c) ==
    /\ c \in Campaign
    /\ c.version <= campaign.version
    /\ c.version = campaign.version => c = campaign

RequestsOrdered ==
    \A w \in Callers :
        /\ req[w].pc # "idle" => Seen(req[w].c)
        /\ req[w].pc \in Writing => /\ MayAdvance(req[w].c, TargetState(req[w].op))
                                    /\ req[w].f \in Finding

StopsOrdered ==
    \A s \in Stoppers : stop[s].pc = "swap" =>
        /\ Seen(stop[s].c)
        /\ stop[s].to \in Stopped /\ MayStop(stop[s].c.state, stop[s].to)

OrderInv == TypeOK /\ RequestsOrdered /\ StopsOrdered

\* A compare-and-swap from a copy that was seen replaces the campaign only if
\* the copy is still current, and then every other copy becomes an older one.
LEMMA SwapSeen ==
  ASSUME campaign \in Campaign, NEW c, Seen(c),
         NEW to \in States, UpdateCampaign(c, Advance(c, to))
  PROVE  /\ campaign' \in Campaign
         /\ campaign' # campaign => c = campaign /\ campaign'.state = to
         /\ \A d : Seen(d) => Seen(d)'
<1>1. c \in Campaign /\ c.version \in Nat /\ campaign.version \in Nat
  BY DEF Seen, Campaign
<1>2. CASE c.version # campaign.version
  <2>1. campaign' = campaign
    BY <1>2 DEF UpdateCampaign
  <2>. QED  BY <2>1 DEF Seen
<1>3. CASE c.version = campaign.version
  <2>1. c = campaign /\ campaign' = Advance(campaign, to)
    BY <1>3 DEF UpdateCampaign, Seen
  <2>2. CASE campaign.state = to
    <3>1. campaign' = campaign
      BY <2>1, <2>2 DEF Advance
    <3>. QED  BY <3>1 DEF Seen
  <2>3. CASE campaign.state # to
    <3>1. campaign' = [state |-> to, version |-> campaign.version + 1]
      BY <2>1, <2>3 DEF Advance
    <3>2. campaign' \in Campaign /\ campaign'.state = to
          /\ campaign'.version = campaign.version + 1
      BY <3>1, <1>1 DEF Campaign
    <3>3. ASSUME NEW d, Seen(d)  PROVE Seen(d)'
      <4>1. d \in Campaign /\ d.version \in Nat /\ d.version <= campaign.version
        BY <3>3 DEF Seen, Campaign
      <4>2. d.version <= campaign'.version /\ d.version # campaign'.version
        BY <4>1, <3>2, <1>1
      <4>. QED  BY <4>1, <4>2 DEF Seen
    <3>. QED  BY <2>1, <3>2, <3>3
  <2>. QED  BY <2>2, <2>3
<1>. QED  BY <1>2, <1>3

LEMMA InitOrder == Init => OrderInv
<1>. SUFFICES ASSUME Init PROVE OrderInv
  OBVIOUS
<1>1. campaign \in Campaign
  BY StatesAre DEF Init, Campaign, ChainStates
<1>2. finding \in Finding
  BY DEF Init, NoFinding, Finding
<1>3. req \in [Callers -> Request]
  BY NoReqType DEF Init
<1>4. stop \in [Stoppers -> Transition]
  BY NoStopType DEF Init
<1>5. decide \in [Reviewers -> [pc : {"idle", "save"}, a : Approvals \cup {None}]]
  BY DEF Init, NoDecision
<1>6. approval \in [Approvals -> ApprovalStatus]
  BY DEF Init, ApprovalStatus
<1>7. checks \in [branch : BOOLEAN, novelty : {None, "match", "no_match"}]
  BY DEF Init
<1>8. faults \in 0 .. MaxFaults
  BY WorkflowAssumption DEF Init
<1>9. scopeValid \in BOOLEAN /\ patch \in BOOLEAN /\ validated \in SUBSET (1 .. MaxFixRuns)
  BY DEF Init
<1>10. TypeOK
  BY <1>1, <1>2, <1>3, <1>4, <1>5, <1>6, <1>7, <1>8, <1>9 DEF TypeOK
<1>11. RequestsOrdered
  BY DEF Init, NoReq, RequestsOrdered, Writing
<1>12. StopsOrdered
  BY DEF Init, NoStop, StopsOrdered
<1>. QED  BY <1>10, <1>11, <1>12 DEF OrderInv

-----------------------------------------------------------------------------
(* Steps.  The variables of no request keep their types on their own. *)

Records ==
    /\ campaign \in Campaign /\ finding \in Finding
    /\ scopeValid \in BOOLEAN
    /\ approval \in [Approvals -> ApprovalStatus]
    /\ checks \in [branch : BOOLEAN, novelty : {None, "match", "no_match"}]
    /\ patch \in BOOLEAN /\ validated \in SUBSET (1 .. MaxFixRuns)
    /\ faults \in 0 .. MaxFaults
    /\ decide \in [Reviewers -> [pc : {"idle", "save"}, a : Approvals \cup {None}]]

Ageing == \A d : Seen(d) => Seen(d)'

LEMMA SameCampaign == UNCHANGED campaign => Ageing
  BY DEF Ageing, Seen

\* One request moves: the others keep what they have seen.
LEMMA RequestStep ==
  ASSUME OrderInv, Ageing, NEW w \in Callers, NEW r \in Request,
         req' = [req EXCEPT ![w] = r],
         r.pc # "idle" => Seen(r.c)',
         r.pc \in Writing => MayAdvance(r.c, TargetState(r.op)) /\ r.f \in Finding
  PROVE  req' \in [Callers -> Request] /\ RequestsOrdered'
<1>1. req \in [Callers -> Request]
  BY DEF OrderInv, TypeOK
<1>2. req' \in [Callers -> Request]
  BY <1>1
<1>3. ASSUME NEW v \in Callers
      PROVE  (/\ req[v].pc # "idle" => Seen(req[v].c)
              /\ req[v].pc \in Writing =>
                    /\ MayAdvance(req[v].c, TargetState(req[v].op))
                    /\ req[v].f \in Finding)'
  <2>1. CASE v = w
    <3>1. req'[v] = r
      BY <1>1, <2>1
    <3>. QED  BY <3>1 DEF Seen, MayAdvance, TargetState, Writing
  <2>2. CASE v # w
    <3>1. req'[v] = req[v]
      BY <1>1, <2>2
    <3>. QED  BY <3>1 DEF OrderInv, RequestsOrdered, Ageing
  <2>. QED  BY <2>1, <2>2
<1>4. RequestsOrdered'
  BY <1>3 DEF RequestsOrdered
<1>. QED  BY <1>2, <1>4

LEMMA RequestsStay ==
  ASSUME OrderInv, Ageing, UNCHANGED req
  PROVE  req' \in [Callers -> Request] /\ RequestsOrdered'
  BY DEF OrderInv, TypeOK, RequestsOrdered, Ageing

LEMMA StopsStay ==
  ASSUME OrderInv, Ageing, UNCHANGED stop
  PROVE  stop' \in [Stoppers -> Transition] /\ StopsOrdered'
  BY DEF OrderInv, TypeOK, StopsOrdered, Ageing

LEMMA Combine ==
  ASSUME Records', req' \in [Callers -> Request] /\ RequestsOrdered',
         stop' \in [Stoppers -> Transition] /\ StopsOrdered'
  PROVE  OrderInv'
  BY DEF OrderInv, TypeOK, Records

LEMMA RecordsNow == OrderInv => Records
  BY DEF OrderInv, TypeOK, Records

\* The one request that ends.
LEMMA RequestEnds ==
  ASSUME OrderInv, Ageing, NEW w \in Callers, req' = [req EXCEPT ![w] = NoReq]
  PROVE  req' \in [Callers -> Request] /\ RequestsOrdered'
<1>1. NoReq.pc = "idle"
  BY DEF NoReq
<1>. QED  BY <1>1, NoReqType, RequestStep DEF Writing

\* The campaign a request moves to is a state of the machine.
LEMMA TargetInStates == \A o : TargetState(o) \in States
  BY TargetIsState, StatesAre

LEMMA BeginStep ==
  ASSUME OrderInv, NEW w \in Callers, NEW o \in Operations, Begin(w, o)
  PROVE  OrderInv'
<1>1. Ageing
  BY SameCampaign DEF Begin
<1>2. PICK r \in Request : r = [pc |-> "check", op |-> o, c |-> campaign, f |-> None]
  BY BegunType DEF OrderInv, TypeOK
<1>3. Seen(campaign)
  BY DEF OrderInv, TypeOK, Seen, Campaign
<1>4. r.pc = "check" /\ r.c = campaign
  BY <1>2
<1>5. Seen(r.c)'
  BY <1>1, <1>3, <1>4 DEF Ageing
<1>6. req' \in [Callers -> Request] /\ RequestsOrdered'
  BY <1>1, <1>2, <1>4, <1>5, RequestStep DEF Begin, Writing
<1>7. stop' \in [Stoppers -> Transition] /\ StopsOrdered'
  BY <1>1, StopsStay DEF Begin
<1>8. Records'
  BY RecordsNow DEF Records, Begin, records
<1>. QED  BY <1>6, <1>7, <1>8, Combine

LEMMA CheckStep ==
  ASSUME OrderInv, NEW w \in Callers, Check(w)
  PROVE  OrderInv'
<1>1. Ageing
  BY SameCampaign DEF Check
<1>2. req \in [Callers -> Request] /\ req[w] \in Request
  BY DEF OrderInv, TypeOK
<1>3. PICK g \in Finding : g = Updated(req[w].op, finding)
  BY UpdatedType DEF OrderInv
<1>4. PICK p \in {"put", "record", "save"} : p = FirstWrite(req[w].op)
  BY FirstWritePc
<1>5. p \in ReqPc /\ p \in Writing /\ p # "idle"
  BY <1>4 DEF ReqPc, Writing
<1>6. PICK r \in Request : /\ r = [req[w] EXCEPT !.pc = p, !.f = g]
                            /\ r.pc = p /\ r.f = g /\ r.c = req[w].c /\ r.op = req[w].op
  <2>1. PICK q \in Request : /\ q = [req[w] EXCEPT !.pc = p]
                              /\ q.pc = p /\ q.c = req[w].c /\ q.op = req[w].op
    BY <1>2, <1>5, PcType
  <2>2. PICK r \in Request : /\ r = [q EXCEPT !.f = g]
                              /\ r.pc = q.pc /\ r.f = g /\ r.c = q.c /\ r.op = q.op
    BY CopyType
  <2>3. r = [req[w] EXCEPT !.pc = p, !.f = g]
    BY <2>1, <2>2, Zenon
  <2>. QED  BY <2>1, <2>2, <2>3, Zenon
<1>7. req' = [req EXCEPT ![w].pc = p, ![w].f = g]
  BY <1>3, <1>4 DEF Check
<1>8. req' = [req EXCEPT ![w] = r]
  BY <1>2, <1>6, <1>7, Zenon
<1>9. Seen(req[w].c) /\ MayAdvance(req[w].c, TargetState(req[w].op))
  BY DEF OrderInv, RequestsOrdered, Check, Checks
<1>10. Seen(r.c)'
  BY <1>1, <1>6, <1>9 DEF Ageing
<1>11. MayAdvance(r.c, TargetState(r.op)) /\ r.f \in Finding
  BY <1>6, <1>9
<1>12. req' \in [Callers -> Request] /\ RequestsOrdered'
  BY <1>1, <1>8, <1>10, <1>11, RequestStep
<1>13. stop' \in [Stoppers -> Transition] /\ StopsOrdered'
  BY <1>1, StopsStay DEF Check
<1>14. Records'
  BY RecordsNow DEF Records, Check, records
<1>. QED  BY <1>12, <1>13, <1>14, Combine

LEMMA DeniedStep ==
  ASSUME OrderInv, NEW w \in Callers, Denied(w) \/ PutPatch(w) \/ CutOff(w)
  PROVE  OrderInv'
<1>1. Ageing
  BY SameCampaign DEF Denied, PutPatch, CutOff
<1>2. req' \in [Callers -> Request] /\ RequestsOrdered'
  BY <1>1, RequestEnds DEF Denied, PutPatch, CutOff
<1>3. stop' \in [Stoppers -> Transition] /\ StopsOrdered'
  BY <1>1, StopsStay DEF Denied, PutPatch, CutOff
<1>4. Records
  BY RecordsNow
<1>5. Records'
  <2>1. CASE Denied(w)
    BY <1>4, <2>1 DEF Records, Denied, records
  <2>2. CASE PutPatch(w)
    BY <1>4, <2>2 DEF Records, PutPatch, records
  <2>3. CASE CutOff(w)
    <3>1. faults' \in 0 .. MaxFaults
      BY <1>4, <2>3, WorkflowAssumption DEF Records, CutOff
    <3>. QED  BY <1>4, <2>3, <3>1 DEF Records, CutOff, records
  <2>. QED  BY <2>1, <2>2, <2>3
<1>. QED  BY <1>2, <1>3, <1>5, Combine

\* The request goes on to its next write with the copies it holds.
LEMMA NextWrite ==
  ASSUME OrderInv, Ageing, NEW w \in Callers, req[w].pc \in Writing,
         NEW p \in Writing, req' = [req EXCEPT ![w] = [req[w] EXCEPT !.pc = p]]
  PROVE  req' \in [Callers -> Request] /\ RequestsOrdered'
<1>1. req[w] \in Request /\ p \in ReqPc
  BY DEF OrderInv, TypeOK, Writing, ReqPc
<1>2. PICK r \in Request : /\ r = [req[w] EXCEPT !.pc = p]
                            /\ r.pc = p /\ r.f = req[w].f /\ r.c = req[w].c
                            /\ r.op = req[w].op
  BY <1>1, PcType
<1>3. /\ Seen(req[w].c) /\ MayAdvance(req[w].c, TargetState(req[w].op))
      /\ req[w].f \in Finding
  BY DEF OrderInv, RequestsOrdered, Writing
<1>4. Seen(r.c)'
  BY <1>2, <1>3 DEF Ageing
<1>5. MayAdvance(r.c, TargetState(r.op)) /\ r.f \in Finding
  BY <1>2, <1>3
<1>6. req' = [req EXCEPT ![w] = r]
  BY <1>2, Zenon
<1>. QED  BY <1>4, <1>5, <1>6, RequestStep

LEMMA SaveRemediationStep ==
  ASSUME OrderInv, NEW w \in Callers, NEW runs \in 1 .. MaxFixRuns,
         SaveRemediation(w, runs)
  PROVE  OrderInv'
<1>1. Ageing
  BY SameCampaign DEF SaveRemediation
<1>2. req' \in [Callers -> Request] /\ RequestsOrdered'
  <2>1. CASE runs \in validated
    BY <1>1, <2>1, RequestEnds DEF SaveRemediation
  <2>2. CASE runs \notin validated
    <3>1. req[w].pc \in Writing /\ "save" \in Writing
      BY DEF SaveRemediation, Writing
    <3>2. req' = [req EXCEPT ![w] = [req[w] EXCEPT !.pc = "save"]]
      BY <2>2 DEF SaveRemediation
    <3>. QED  BY <1>1, <3>1, <3>2, NextWrite
  <2>. QED  BY <2>1, <2>2
<1>3. stop' \in [Stoppers -> Transition] /\ StopsOrdered'
  BY <1>1, StopsStay DEF SaveRemediation
<1>4. Records'
  BY RecordsNow DEF Records, SaveRemediation, records
<1>. QED  BY <1>2, <1>3, <1>4, Combine

LEMMA SaveFindingStep ==
  ASSUME OrderInv, NEW w \in Callers, SaveFinding(w)
  PROVE  OrderInv'
<1>1. Ageing
  BY SameCampaign DEF SaveFinding
<1>2. req[w].pc \in Writing /\ "swap" \in Writing
  BY DEF SaveFinding, Writing
<1>3. req \in [Callers -> Request]
  BY DEF OrderInv, TypeOK
<1>4. req' = [req EXCEPT ![w] = [req[w] EXCEPT !.pc = "swap"]]
  BY <1>3, Zenon DEF SaveFinding
<1>5. req' \in [Callers -> Request] /\ RequestsOrdered'
  BY <1>1, <1>2, <1>4, NextWrite
<1>6. finding' \in Finding
  BY <1>2 DEF OrderInv, RequestsOrdered, SaveFinding
<1>7. stop' \in [Stoppers -> Transition] /\ StopsOrdered'
  BY <1>1, StopsStay DEF SaveFinding
<1>8. Records'
  BY <1>6, RecordsNow DEF Records, SaveFinding, records
<1>. QED  BY <1>5, <1>7, <1>8, Combine

\* What Swap does to the campaign: nothing, or the move its request may make.
LEMMA SwapMoves ==
  ASSUME OrderInv, NEW w \in Callers, Swap(w)
  PROVE  /\ campaign' \in Campaign /\ Ageing
         /\ campaign' # campaign => \E to \in ChainStates :
                campaign'.state = to /\ MayAdvance(campaign, to)
<1>1. /\ Seen(req[w].c) /\ MayAdvance(req[w].c, TargetState(req[w].op))
      /\ campaign \in Campaign
  BY DEF OrderInv, RequestsOrdered, Swap, TypeOK, Writing
<1>2. CASE req[w].c.state = TargetState(req[w].op)
  <2>1. campaign' = campaign
    BY <1>2 DEF Swap
  <2>. QED  BY <2>1, <1>1, SameCampaign
<1>3. CASE req[w].c.state # TargetState(req[w].op)
  <2>1. PICK to \in ChainStates : to = TargetState(req[w].op) /\ to \in States
    BY TargetIsState, TargetInStates
  <2>2. PICK c : c = req[w].c
    OBVIOUS
  <2>3. UpdateCampaign(c, Advance(c, to))
    BY <1>3, <2>1, <2>2 DEF Swap
  <2>4. Seen(c) /\ MayAdvance(c, to)
    BY <1>1, <2>1, <2>2
  <2>5. /\ campaign' \in Campaign
        /\ campaign' # campaign => c = campaign /\ campaign'.state = to
        /\ Ageing
    BY <1>1, <2>1, <2>3, <2>4, SwapSeen DEF Ageing
  <2>. QED  BY <2>4, <2>5
<1>. QED  BY <1>2, <1>3

LEMMA SwapStep ==
  ASSUME OrderInv, NEW w \in Callers, Swap(w)
  PROVE  OrderInv'
<1>1. campaign' \in Campaign /\ Ageing
  BY SwapMoves
<1>2. req' \in [Callers -> Request] /\ RequestsOrdered'
  BY <1>1, RequestEnds DEF Swap
<1>3. stop' \in [Stoppers -> Transition] /\ StopsOrdered'
  BY <1>1, StopsStay DEF Swap
<1>4. Records'
  BY <1>1, RecordsNow DEF Records, Swap, records
<1>. QED  BY <1>2, <1>3, <1>4, Combine

-----------------------------------------------------------------------------
(* Transition to a stop state. *)

LEMMA ReadType ==
  ASSUME NEW to \in Stopped, NEW c \in Campaign
  PROVE  [pc |-> "swap", to |-> to, c |-> c] \in Transition
  BY DEF Transition

LEMMA StopStep ==
  ASSUME OrderInv, Ageing, NEW s \in Stoppers, NEW t \in Transition,
         stop' = [stop EXCEPT ![s] = t],
         t.pc = "swap" => Seen(t.c)' /\ t.to \in Stopped /\ MayStop(t.c.state, t.to)
  PROVE  stop' \in [Stoppers -> Transition] /\ StopsOrdered'
<1>1. stop \in [Stoppers -> Transition]
  BY DEF OrderInv, TypeOK
<1>2. stop' \in [Stoppers -> Transition]
  BY <1>1
<1>3. ASSUME NEW v \in Stoppers
      PROVE  (stop[v].pc = "swap" =>
                 /\ Seen(stop[v].c)
                 /\ stop[v].to \in Stopped /\ MayStop(stop[v].c.state, stop[v].to))'
  <2>1. CASE v = s
    <3>1. stop'[v] = t
      BY <1>1, <2>1
    <3>. QED  BY <3>1 DEF Seen, MayStop
  <2>2. CASE v # s
    <3>1. stop'[v] = stop[v]
      BY <1>1, <2>2
    <3>. QED  BY <3>1 DEF OrderInv, StopsOrdered, Ageing
  <2>. QED  BY <2>1, <2>2
<1>4. StopsOrdered'
  BY <1>3 DEF StopsOrdered
<1>. QED  BY <1>2, <1>4

LEMMA TransitionReadStep ==
  ASSUME OrderInv, NEW s \in Stoppers, NEW to \in Stopped, TransitionRead(s, to)
  PROVE  OrderInv'
<1>1. Ageing
  BY SameCampaign DEF TransitionRead
<1>2. PICK t \in Transition : t = [pc |-> "swap", to |-> to, c |-> campaign]
  BY ReadType DEF OrderInv, TypeOK
<1>3. Seen(campaign)
  BY DEF OrderInv, TypeOK, Seen, Campaign
<1>4. t.pc = "swap" /\ t.c = campaign /\ t.to = to
  BY <1>2
<1>5. Seen(t.c)' /\ t.to \in Stopped /\ MayStop(t.c.state, t.to)
  BY <1>1, <1>3, <1>4 DEF Ageing, TransitionRead
<1>6. stop' \in [Stoppers -> Transition] /\ StopsOrdered'
  BY <1>1, <1>2, <1>5, StopStep DEF TransitionRead
<1>7. req' \in [Callers -> Request] /\ RequestsOrdered'
  BY <1>1, RequestsStay DEF TransitionRead
<1>8. Records'
  BY RecordsNow DEF Records, TransitionRead, records
<1>. QED  BY <1>6, <1>7, <1>8, Combine

LEMMA TransitionMoves ==
  ASSUME OrderInv, NEW s \in Stoppers, TransitionSwap(s)
  PROVE  /\ campaign' \in Campaign /\ Ageing
         /\ campaign' # campaign => \E to \in Stopped :
                campaign'.state = to /\ MayStop(campaign.state, to)
<1>1. /\ Seen(stop[s].c) /\ stop[s].to \in Stopped
      /\ MayStop(stop[s].c.state, stop[s].to) /\ campaign \in Campaign
  BY DEF OrderInv, StopsOrdered, TransitionSwap, TypeOK
<1>2. PICK to \in Stopped : to = stop[s].to
  BY <1>1
<1>3. PICK c : c = stop[s].c
  OBVIOUS
<1>4. to \in States
  BY StatesAre
<1>5. Seen(c) /\ MayStop(c.state, to) /\ UpdateCampaign(c, Advance(c, to))
  BY <1>1, <1>2, <1>3 DEF TransitionSwap
<1>6. /\ campaign' \in Campaign
      /\ campaign' # campaign => c = campaign /\ campaign'.state = to
      /\ Ageing
  BY <1>1, <1>4, <1>5, SwapSeen DEF Ageing
<1>. QED  BY <1>5, <1>6

LEMMA TransitionSwapStep ==
  ASSUME OrderInv, NEW s \in Stoppers, TransitionSwap(s)
  PROVE  OrderInv'
<1>1. campaign' \in Campaign /\ Ageing
  BY TransitionMoves
<1>2. NoStop.pc # "swap"
  BY DEF NoStop
<1>3. stop' \in [Stoppers -> Transition] /\ StopsOrdered'
  BY <1>1, <1>2, NoStopType, StopStep DEF TransitionSwap
<1>4. req' \in [Callers -> Request] /\ RequestsOrdered'
  BY <1>1, RequestsStay DEF TransitionSwap
<1>5. Records'
  BY <1>1, RecordsNow DEF Records, TransitionSwap, records
<1>. QED  BY <1>3, <1>4, <1>5, Combine

-----------------------------------------------------------------------------
(* Approvals, evidence and the scope touch no request and no campaign. *)

Aside ==
    \/ \E a \in Approvals : RequestApproval(a)
    \/ \E r \in Reviewers : DecideSave(r) \/ \E a \in Approvals : DecideRead(r, a)
    \/ BranchFacts \/ ScopeExpires
    \/ \E status \in ReviewStatus : ReviewSourceEvidence(status)

LEMMA AsideFrame == Aside => UNCHANGED <<campaign, req, stop>>
  BY DEF Aside, RequestApproval, DecideSave, DecideRead, BranchFacts, ScopeExpires,
         ReviewSourceEvidence

LEMMA DecisionType ==
  ASSUME NEW a \in Approvals
  PROVE  /\ [pc |-> "save", a |-> a] \in [pc : {"idle", "save"}, a : Approvals \cup {None}]
         /\ NoDecision \in [pc : {"idle", "save"}, a : Approvals \cup {None}]
  BY DEF NoDecision

LEMMA AsideRecords ==
  ASSUME Records, Aside
  PROVE  Records'
<1>1. CASE \E a \in Approvals : RequestApproval(a)
  BY <1>1 DEF Records, RequestApproval, ApprovalStatus
<1>2. ASSUME NEW r \in Reviewers, DecideSave(r)  PROVE Records'
  <2>1. NoDecision \in [pc : {"idle", "save"}, a : Approvals \cup {None}]
    BY DEF NoDecision
  <2>2. decide' \in [Reviewers -> [pc : {"idle", "save"}, a : Approvals \cup {None}]]
    BY <1>2, <2>1 DEF Records, DecideSave
  <2>3. approval' \in [Approvals -> ApprovalStatus]
    BY <1>2 DEF Records, DecideSave, ApprovalStatus
  <2>. QED  BY <1>2, <2>2, <2>3 DEF Records, DecideSave
<1>3. ASSUME NEW r \in Reviewers, NEW a \in Approvals, DecideRead(r, a)  PROVE Records'
  <2>1. decide' \in [Reviewers -> [pc : {"idle", "save"}, a : Approvals \cup {None}]]
    BY <1>3, DecisionType DEF Records, DecideRead
  <2>. QED  BY <1>3, <2>1 DEF Records, DecideRead, records
<1>4. CASE BranchFacts
  <2>1. checks' \in [branch : BOOLEAN, novelty : {None, "match", "no_match"}]
    BY <1>4 DEF Records, BranchFacts
  <2>. QED  BY <1>4, <2>1 DEF Records, BranchFacts
<1>5. CASE ScopeExpires
  BY <1>5 DEF Records, ScopeExpires
<1>6. ASSUME NEW status \in ReviewStatus, ReviewSourceEvidence(status)  PROVE Records'
  <2>1. status \in {"match", "no_match"}
    BY WorkflowAssumption
  <2>2. checks' \in [branch : BOOLEAN, novelty : {None, "match", "no_match"}]
    BY <1>6, <2>1 DEF Records, ReviewSourceEvidence
  <2>. QED  BY <1>6, <2>2 DEF Records, ReviewSourceEvidence
<1>. QED  BY <1>1, <1>2, <1>3, <1>4, <1>5, <1>6 DEF Aside

LEMMA AsideStep ==
  ASSUME OrderInv, Aside
  PROVE  OrderInv'
<1>1. UNCHANGED <<campaign, req, stop>> /\ Ageing
  BY AsideFrame, SameCampaign
<1>. QED  BY <1>1, RecordsNow, AsideRecords, RequestsStay, StopsStay, Combine

-----------------------------------------------------------------------------
(* The theorems. *)

LEMMA ServeStep ==
  ASSUME OrderInv, NEW w \in Callers, Serve(w)
  PROVE  OrderInv'
  BY CheckStep, DeniedStep, SaveFindingStep, SwapStep, SaveRemediationStep DEF Serve

LEMMA NextOrder == OrderInv /\ [Next]_vars => OrderInv'
<1>. SUFFICES ASSUME OrderInv, [Next]_vars PROVE OrderInv'
  OBVIOUS
<1>1. CASE \E w \in Callers, o \in Operations : Begin(w, o)
  BY <1>1, BeginStep
<1>2. CASE \E w \in Callers : Serve(w) \/ CutOff(w)
  BY <1>2, ServeStep, DeniedStep
<1>3. CASE \E s \in Stoppers : TransitionSwap(s) \/ \E to \in Stopped : TransitionRead(s, to)
  BY <1>3, TransitionSwapStep, TransitionReadStep
<1>4. CASE Aside
  BY <1>4, AsideStep
<1>5. CASE UNCHANGED vars
  <2>1. Ageing
    BY <1>5, SameCampaign DEF vars
  <2>2. Records'
    BY <1>5, RecordsNow DEF Records, vars
  <2>3. req' \in [Callers -> Request] /\ RequestsOrdered'
    BY <1>5, <2>1, RequestsStay DEF vars
  <2>4. stop' \in [Stoppers -> Transition] /\ StopsOrdered'
    BY <1>5, <2>1, StopsStay DEF vars
  <2>. QED  BY <2>2, <2>3, <2>4, Combine
<1>. QED  BY <1>1, <1>2, <1>3, <1>4, <1>5 DEF Next, Aside

LEMMA AlwaysOrdered == Spec => []OrderInv
<1>. QED  BY InitOrder, NextOrder, PTL DEF Spec

\* The stored records and the copies every request of workflow.go and every
\* Transition works on keep their shape, whatever is interleaved or cut off.
THEOREM WorkflowTyped == Spec => []TypeOK
<1>1. OrderInv => TypeOK
  BY DEF OrderInv
<1>. QED  BY <1>1, AlwaysOrdered, PTL

\* Only Swap and TransitionSwap change the campaign.
LEMMA OnlySwaps ==
  ASSUME [Next]_vars, campaign' # campaign
  PROVE  \/ \E w \in Callers : Swap(w)
         \/ \E s \in Stoppers : TransitionSwap(s)
<1>1. ASSUME NEW w \in Callers, Serve(w)  PROVE Swap(w)
  BY <1>1 DEF Serve, Check, Denied, PutPatch, SaveFinding, SaveRemediation
<1>2. ~ \E w \in Callers, o \in Operations : Begin(w, o)
  BY DEF Begin
<1>3. ~ \E w \in Callers : CutOff(w)
  BY DEF CutOff
<1>4. ~ \E s \in Stoppers, to \in Stopped : TransitionRead(s, to)
  BY DEF TransitionRead
<1>5. ~Aside
  BY AsideFrame
<1>6. Next
  BY DEF vars
<1>. QED  BY <1>1, <1>2, <1>3, <1>4, <1>5, <1>6 DEF Next, Aside

\* The step property: the move of a request that read its campaign before other
\* requests moved it is dropped by UpdateCampaign's version test.
LEMMA StepOrdered ==
  ASSUME OrderInv, [Next]_vars, campaign'.state # campaign.state
  PROVE  /\ ~terminalCampaignState(campaign.state)
         /\ \/ campaign'.state \in Stopped
            \/ /\ campaign.state \notin Stopped
               /\ Rank(campaign'.state) = Rank(campaign.state) + 1
<1>1. campaign' # campaign
  OBVIOUS
<1>2. CASE \E w \in Callers : Swap(w)
  <2>1. PICK to \in ChainStates : campaign'.state = to /\ MayAdvance(campaign, to)
    BY <1>1, <1>2, SwapMoves
  <2>2. campaign.state \notin Stopped /\ Rank(to) = Rank(campaign.state) + 1
    BY <2>1 DEF MayAdvance
  <2>3. campaign.state # "disclosed"
    BY <2>2, DisclosedIsLast
  <2>. QED  BY <2>1, <2>2, <2>3 DEF terminalCampaignState, Stopped
<1>3. CASE \E s \in Stoppers : TransitionSwap(s)
  BY <1>1, <1>3, TransitionMoves DEF MayStop
<1>. QED  BY <1>1, <1>2, <1>3, OnlySwaps

\* For any number of concurrent clients and operators: an ended campaign stays
\* ended, a stopped one takes no evidence state, and evidence states are passed
\* one by one, because UpdateCampaign compares the version a request read.
THEOREM CampaignOrdered == Spec => EvidenceOrder
<1>. DEFINE InOrder ==
        campaign'.state # campaign.state =>
          /\ ~terminalCampaignState(campaign.state)
          /\ \/ campaign'.state \in Stopped
             \/ /\ campaign.state \notin Stopped
                /\ Rank(campaign'.state) = Rank(campaign.state) + 1
<1>1. OrderInv /\ [Next]_vars => [InOrder]_vars
  BY StepOrdered
<1>2. EvidenceOrder <=> [][InOrder]_vars
  BY DEF EvidenceOrder
<1>. HIDE DEF InOrder
<1>. QED  BY <1>1, <1>2, AlwaysOrdered, PTL DEF Spec

-----------------------------------------------------------------------------
(* The human decision.  DecideApproval saves a copy of the approval it read *)
(* as pending without comparing anything, so an approval that was granted   *)
(* can be taken back by a second reviewer whose read came before: what      *)
(* follows is for a single reviewer, and for any number of clients.         *)

OneReviewer == \A r, s \in Reviewers : r = s

Approved(f) ==
    /\ f.fix => approval["patch"] = "approved"
    /\ f.report => approval["report"] = "approved"
    /\ f.disclosed => approval["disclosure"] = "approved"

DecisionsPending ==
    \A r \in Reviewers : decide[r].pc = "save" =>
        decide[r].a \in Approvals /\ approval[decide[r].a] = "pending"

CopiesApproved ==
    \A w \in Callers : req[w].pc \in Writing => Approved(req[w].f)

ApprovalInv == OrderInv /\ DecisionsPending /\ CopiesApproved /\ Approved(finding)

\* An approval that was granted stands.
Standing == \A a \in Approvals : approval[a] = "approved" => approval'[a] = "approved"

LEMMA ApprovedStands ==
  ASSUME Standing, NEW f, Approved(f)
  PROVE  Approved(f)'
<1>1. {"patch", "report", "disclosure"} = Approvals
  BY DEF Approvals
<1>. QED  BY <1>1 DEF Standing, Approved

\* The only saves of an approval are RequestApproval and DecideSave.
LEMMA ApprovalsStand ==
  ASSUME OneReviewer, ApprovalInv, [Next]_vars
  PROVE  Standing /\ DecisionsPending'
<1>. DEFINE Decisions == [pc : {"idle", "save"}, a : Approvals \cup {None}]
<1>1. /\ approval \in [Approvals -> ApprovalStatus]
      /\ decide \in [Reviewers -> Decisions]
      /\ DecisionsPending
  BY DEF ApprovalInv, OrderInv, TypeOK
<1>2. CASE UNCHANGED <<approval, decide>>
  BY <1>1, <1>2 DEF Standing, DecisionsPending
<1>3. ASSUME NEW a \in Approvals, RequestApproval(a)
      PROVE  Standing /\ DecisionsPending'
  <2>1. /\ approval[a] = "none" /\ decide' = decide
        /\ \A b \in Approvals : approval'[b] = IF b = a THEN "pending" ELSE approval[b]
    BY <1>1, <1>3 DEF RequestApproval
  <2>. QED  BY <1>1, <2>1 DEF Standing, DecisionsPending
<1>4. ASSUME NEW r \in Reviewers, NEW a \in Approvals, DecideRead(r, a)
      PROVE  Standing /\ DecisionsPending'
  <2>1. approval' = approval /\ approval[a] = "pending"
    BY <1>4 DEF DecideRead, records
  <2>2. PICK d \in Decisions : d = [pc |-> "save", a |-> a] /\ d.a = a
    BY DecisionType
  <2>3. decide' = [decide EXCEPT ![r] = d]
    BY <1>4, <2>2 DEF DecideRead
  <2>4. \A s \in Reviewers : decide'[s] = IF s = r THEN d ELSE decide[s]
    BY <1>1, <2>3
  <2>. QED  BY <1>1, <2>1, <2>2, <2>4 DEF Standing, DecisionsPending
<1>5. ASSUME NEW r \in Reviewers, DecideSave(r)
      PROVE  Standing /\ DecisionsPending'
  <2>1. PICK a \in Approvals : a = decide[r].a /\ approval[a] = "pending"
    BY <1>1, <1>5 DEF DecisionsPending, DecideSave
  <2>2. PICK status \in {"approved", "denied"} : approval' = [approval EXCEPT ![a] = status]
    BY <1>5, <2>1 DEF DecideSave
  <2>3. \A b \in Approvals : approval'[b] = IF b = a THEN status ELSE approval[b]
    BY <1>1, <2>2
  <2>4. NoDecision.pc = "idle" /\ NoDecision \in Decisions
    BY DecisionType DEF NoDecision
  <2>5. decide' = [decide EXCEPT ![r] = NoDecision]
    BY <1>5 DEF DecideSave
  <2>6. \A s \in Reviewers : s = r /\ decide'[s] = NoDecision
    BY <1>1, <2>5 DEF OneReviewer
  <2>. QED  BY <2>1, <2>3, <2>4, <2>6 DEF Standing, DecisionsPending
<1>6. UNCHANGED <<approval, decide>>
      \/ (\E a \in Approvals : RequestApproval(a))
      \/ (\E r \in Reviewers, a \in Approvals : DecideRead(r, a))
      \/ (\E r \in Reviewers : DecideSave(r))
  <2>1. ASSUME NEW w \in Callers, NEW o \in Operations, Begin(w, o)
        PROVE  UNCHANGED <<approval, decide>>
    BY <2>1 DEF Begin, records
  <2>2. ASSUME NEW w \in Callers, Serve(w) \/ CutOff(w)
        PROVE  UNCHANGED <<approval, decide>>
    BY <2>2 DEF Serve, Check, Denied, PutPatch, SaveFinding, SaveRemediation, Swap,
                CutOff, records
  <2>3. ASSUME NEW s \in Stoppers, NEW to \in Stopped,
               TransitionSwap(s) \/ TransitionRead(s, to)
        PROVE  UNCHANGED <<approval, decide>>
    BY <2>3 DEF TransitionSwap, TransitionRead, records
  <2>4. ASSUME BranchFacts \/ ScopeExpires
               \/ \E status \in ReviewStatus : ReviewSourceEvidence(status)
        PROVE  UNCHANGED <<approval, decide>>
    BY <2>4 DEF BranchFacts, ScopeExpires, ReviewSourceEvidence
  <2>5. "paused" \in Stopped
    BY DEF Stopped
  <2>. QED  BY <2>1, <2>2, <2>3, <2>4, <2>5 DEF Next, vars
<1>. QED  BY <1>2, <1>3, <1>4, <1>5, <1>6

\* Check lets a request write only under the approval its operation asks for.
LEMMA CheckApproved ==
  ASSUME OrderInv, Approved(finding), NEW w \in Callers, Check(w)
  PROVE  Approved(Updated(req[w].op, finding))
<1>1. matchingApproval(req[w].op) /\ finding \in Finding
  BY DEF Check, Checks, OrderInv, TypeOK
<1>2. PICK o : o = req[w].op
  OBVIOUS
<1>3. o = "remediation" => approval["patch"] = "approved"
  BY <1>1, <1>2 DEF matchingApproval
<1>4. o = "report" => approval["report"] = "approved"
  BY <1>1, <1>2 DEF matchingApproval
<1>5. o = "disclosure" => approval["disclosure"] = "approved"
  BY <1>1, <1>2 DEF matchingApproval
<1>6. Approved(Updated(o, finding))
  <2>1. CASE o = "branch"
    BY <1>1, <2>1 DEF Updated, Approved, Finding
  <2>2. CASE o = "novelty"
    BY <1>1, <2>2 DEF Updated, Approved, Finding
  <2>3. CASE o = "remediation"
    BY <1>1, <1>3, <2>3 DEF Updated, Approved, Finding
  <2>4. CASE o = "report"
    BY <1>1, <1>4, <2>4 DEF Updated, Approved, Finding
  <2>5. CASE o = "disclosure"
    BY <1>1, <1>5, <2>5 DEF Updated, Approved, Finding
  <2>6. CASE o \notin {"branch", "novelty", "remediation", "report", "disclosure"}
    BY <2>6 DEF Updated
  <2>. QED  BY <2>1, <2>2, <2>3, <2>4, <2>5, <2>6
<1>. QED  BY <1>2, <1>6

\* What the requests hold, and what is stored, after any step.
WrittenBy(w, r) ==
    \/ r.pc \notin Writing
    \/ req[w].pc \in Writing /\ r.f = req[w].f /\ r.op = req[w].op
    \/ Check(w) /\ r.f = Updated(req[w].op, finding) /\ r.op = req[w].op

\* A step changes at most one request: it ends, begins, passes Check, or goes on
\* with the copy of the finding it holds.
LEMMA RequestsMove ==
  ASSUME OrderInv, [Next]_vars
  PROVE  \A w \in Callers : WrittenBy(w, req'[w])
<1>1. req \in [Callers -> Request]
  BY DEF OrderInv, TypeOK
<1>2. CASE UNCHANGED req
  BY <1>2 DEF WrittenBy
<1>3. ASSUME NEW w \in Callers, NEW r, req' = [req EXCEPT ![w] = r], WrittenBy(w, r),
             NEW v \in Callers
      PROVE  WrittenBy(v, req'[v])
  <2>1. req'[v] = IF v = w THEN r ELSE req[v]
    BY <1>1, <1>3
  <2>2. CASE v = w
    BY <1>3, <2>1, <2>2
  <2>3. CASE v # w
    BY <2>1, <2>3 DEF WrittenBy
  <2>. QED  BY <2>2, <2>3
<1>4. NoReq.pc = "idle" /\ "idle" \notin Writing /\ "check" \notin Writing
  BY DEF NoReq, Writing
<1>5. ASSUME NEW w \in Callers, req' = [req EXCEPT ![w] = NoReq]
      PROVE  \A v \in Callers : WrittenBy(v, req'[v])
  <2>1. WrittenBy(w, NoReq)
    BY <1>4 DEF WrittenBy
  <2>. QED  BY <1>3, <1>5, <2>1
<1>6. ASSUME NEW w \in Callers, NEW p \in Writing, req[w].pc \in Writing,
             req' = [req EXCEPT ![w] = [req[w] EXCEPT !.pc = p]]
      PROVE  \A v \in Callers : WrittenBy(v, req'[v])
  <2>1. req[w] \in Request /\ p \in ReqPc
    BY <1>1, <1>6 DEF ReqPc, Writing
  <2>2. PICK r \in Request : /\ r = [req[w] EXCEPT !.pc = p]
                              /\ r.f = req[w].f /\ r.op = req[w].op
    BY <2>1, PcType
  <2>3. WrittenBy(w, r)
    BY <1>6, <2>2 DEF WrittenBy
  <2>4. req' = [req EXCEPT ![w] = r]
    BY <1>6, <2>2, Zenon
  <2>. QED  BY <1>3, <2>3, <2>4
<1>7. ASSUME NEW w \in Callers, NEW o \in Operations, Begin(w, o)
      PROVE  \A v \in Callers : WrittenBy(v, req'[v])
  <2>1. PICK r : r = [pc |-> "check", op |-> o, c |-> campaign, f |-> None]
    OBVIOUS
  <2>2. r.pc = "check" /\ req' = [req EXCEPT ![w] = r]
    BY <1>7, <2>1 DEF Begin
  <2>3. WrittenBy(w, r)
    BY <1>4, <2>2 DEF WrittenBy
  <2>. QED  BY <1>3, <2>2, <2>3
<1>8. ASSUME NEW w \in Callers, Check(w)
      PROVE  \A v \in Callers : WrittenBy(v, req'[v])
  <2>1. req[w] \in Request
    BY <1>1
  <2>2. PICK g \in Finding : g = Updated(req[w].op, finding)
    BY UpdatedType DEF OrderInv
  <2>3. PICK p \in {"put", "record", "save"} : p = FirstWrite(req[w].op)
    BY FirstWritePc
  <2>4. PICK q \in Request : q = [req[w] EXCEPT !.pc = p] /\ q.op = req[w].op
    BY <2>1, <2>3, PcType DEF ReqPc
  <2>5. PICK r \in Request : r = [q EXCEPT !.f = g] /\ r.f = g /\ r.op = q.op
    BY CopyType
  <2>6. r = [req[w] EXCEPT !.pc = p, !.f = g]
    BY <2>4, <2>5, Zenon
  <2>7. req' = [req EXCEPT ![w].pc = p, ![w].f = g]
    BY <1>8, <2>2, <2>3 DEF Check
  <2>8. req' = [req EXCEPT ![w] = r]
    BY <1>1, <2>6, <2>7, Zenon
  <2>9. WrittenBy(w, r)
    BY <1>8, <2>2, <2>4, <2>5 DEF WrittenBy
  <2>. QED  BY <1>3, <2>8, <2>9
<1>9. ASSUME NEW w \in Callers, SaveFinding(w)
      PROVE  \A v \in Callers : WrittenBy(v, req'[v])
  <2>1. req[w].pc \in Writing /\ "swap" \in Writing
    BY <1>9 DEF SaveFinding, Writing
  <2>2. req' = [req EXCEPT ![w] = [req[w] EXCEPT !.pc = "swap"]]
    BY <1>1, <1>9, Zenon DEF SaveFinding
  <2>. QED  BY <1>6, <2>1, <2>2
<1>10. ASSUME NEW w \in Callers, NEW runs \in 1 .. MaxFixRuns, SaveRemediation(w, runs)
       PROVE  \A v \in Callers : WrittenBy(v, req'[v])
  <2>1. CASE runs \in validated
    BY <1>5, <1>10, <2>1 DEF SaveRemediation
  <2>2. CASE runs \notin validated
    <3>1. req[w].pc \in Writing /\ "save" \in Writing
      BY <1>10 DEF SaveRemediation, Writing
    <3>2. req' = [req EXCEPT ![w] = [req[w] EXCEPT !.pc = "save"]]
      BY <1>10, <2>2 DEF SaveRemediation
    <3>. QED  BY <1>6, <3>1, <3>2
  <2>. QED  BY <2>1, <2>2
<1>11. ASSUME NEW w \in Callers, Denied(w) \/ PutPatch(w) \/ Swap(w) \/ CutOff(w)
       PROVE  \A v \in Callers : WrittenBy(v, req'[v])
  BY <1>5, <1>11 DEF Denied, PutPatch, Swap, CutOff
<1>12. ASSUME NEW s \in Stoppers, NEW to \in Stopped,
              TransitionSwap(s) \/ TransitionRead(s, to)
       PROVE  UNCHANGED req
  BY <1>12 DEF TransitionSwap, TransitionRead
<1>13. "paused" \in Stopped
  BY DEF Stopped
<1>14. Aside => UNCHANGED req
  BY AsideFrame
<1>. QED  BY <1>2, <1>7, <1>8, <1>9, <1>10, <1>11, <1>12, <1>13, <1>14
          DEF Next, Serve, Aside, vars

\* Only SaveFinding writes the finding, and it writes the copy its request holds.
LEMMA FindingMoves ==
  ASSUME [Next]_vars
  PROVE  finding' = finding \/ \E w \in Callers : SaveFinding(w)
<1>1. ASSUME NEW w \in Callers, Serve(w)  PROVE SaveFinding(w) \/ finding' = finding
  BY <1>1 DEF Serve, Check, Denied, PutPatch, Swap, SaveRemediation
<1>2. ASSUME NEW w \in Callers, NEW o \in Operations, Begin(w, o) \/ CutOff(w)
      PROVE  finding' = finding
  BY <1>2 DEF Begin, CutOff
<1>3. ASSUME NEW s \in Stoppers, NEW to \in Stopped,
             TransitionSwap(s) \/ TransitionRead(s, to)
      PROVE  finding' = finding
  BY <1>3 DEF TransitionSwap, TransitionRead
<1>4. Aside => finding' = finding
  BY DEF Aside, RequestApproval, DecideSave, DecideRead, BranchFacts, ScopeExpires,
         ReviewSourceEvidence
<1>5. "paused" \in Stopped /\ "branch" \in Operations
  BY DEF Stopped, Operations
<1>. QED  BY <1>1, <1>2, <1>3, <1>4, <1>5 DEF Next, Aside, vars

LEMMA NextApproved == OneReviewer /\ ApprovalInv /\ [Next]_vars => ApprovalInv'
<1>. SUFFICES ASSUME OneReviewer, ApprovalInv, [Next]_vars PROVE ApprovalInv'
  OBVIOUS
<1>1. OrderInv /\ CopiesApproved /\ Approved(finding)
  BY DEF ApprovalInv
<1>2. OrderInv'
  BY <1>1, NextOrder
<1>3. Standing /\ DecisionsPending'
  BY ApprovalsStand
<1>4. ASSUME NEW w \in Callers, req'[w].pc \in Writing
      PROVE  Approved(req[w].f)'
  <2>1. PICK f : f = req'[w].f
    OBVIOUS
  <2>2. WrittenBy(w, req'[w])
    BY <1>1, RequestsMove
  <2>3. Approved(f)
    <3>1. CASE req[w].pc \in Writing /\ f = req[w].f
      BY <1>1, <3>1 DEF CopiesApproved
    <3>2. CASE Check(w) /\ f = Updated(req[w].op, finding)
      BY <1>1, <3>2, CheckApproved
    <3>. QED  BY <1>4, <2>1, <2>2, <3>1, <3>2 DEF WrittenBy
  <2>4. Approved(f)'
    BY <1>3, <2>3, ApprovedStands
  <2>. QED  BY <2>1, <2>4 DEF Approved
<1>5. CopiesApproved'
  BY <1>4 DEF CopiesApproved
<1>6. Approved(finding)'
  <2>1. PICK f : f = finding'
    OBVIOUS
  <2>2. Approved(f)
    BY <1>1, <2>1, FindingMoves DEF SaveFinding, CopiesApproved, Writing
  <2>3. Approved(f)'
    BY <1>3, <2>2, ApprovedStands
  <2>. QED  BY <2>1, <2>3 DEF Approved
<1>. QED  BY <1>2, <1>3, <1>5, <1>6 DEF ApprovalInv

\* With one reviewer, and for any number of clients whose requests interleave
\* and are cut off: no finding is stored as fixed, reported or disclosed that the
\* human did not approve (matchingApproval, checked before the finding is saved).
THEOREM ReleaseApproved ==
  ASSUME OneReviewer
  PROVE  Spec => []HumanApproved
<1>1. Init => ApprovalInv
  <2>1. Init => OrderInv
    BY InitOrder
  <2>2. Init => DecisionsPending
    BY DEF Init, DecisionsPending, NoDecision
  <2>3. Init => CopiesApproved
    BY DEF Init, CopiesApproved, NoReq, Writing
  <2>4. Init => Approved(finding)
    BY DEF Init, NoFinding, Approved
  <2>. QED  BY <2>1, <2>2, <2>3, <2>4 DEF ApprovalInv
<1>2. ApprovalInv => HumanApproved
  BY DEF ApprovalInv, Approved, HumanApproved
<1>3. ApprovalInv /\ [Next]_vars => ApprovalInv'
  BY NextApproved
<1>. QED  BY <1>1, <1>2, <1>3, PTL DEF Spec

-----------------------------------------------------------------------------
(* The campaign and its evidence.  A request saves the whole finding it     *)
(* read, so two requests at once can take each other's evidence away: what  *)
(* follows is for one client at a time, any number of operators that stop   *)
(* the campaign and any number of requests cut off between two writes.      *)

OneCaller == \A v, w \in Callers : v = w

\* The evidence that a campaign state stands for.
Backs(s, f) ==
    /\ s = "branch_checked" => f.branch
    /\ s = "novelty_reviewed" => f.novelty # None
    /\ s = "remediated" => f.fix
    /\ s = "report_ready" => f.report /\ f.candidate
    /\ s = "disclosed" => f.disclosed

\* The copy g of the finding f has lost none of its evidence.
Keeps(f, g) ==
    /\ f.branch => g.branch
    /\ f.novelty # None => g.novelty # None
    /\ f.fix => g.fix
    /\ f.report => g.report
    /\ f.candidate => g.candidate
    /\ f.disclosed => g.disclosed

\* What a request that is writing carries, and that it is stored before Swap.
CopyBacked(r) ==
    /\ r.op # "patch"
    /\ Keeps(finding, r.f)
    /\ Backs(TargetState(r.op), r.f)

WriteBacked(r) ==
    /\ r.pc # "idle" => r.op \in Operations
    /\ r.pc \in {"record", "save", "swap"} => CopyBacked(r)
    /\ r.pc \in {"save", "swap"} /\ r.op = "remediation" => validated # {}
    /\ r.pc = "swap" => r.f = finding

ReachedBacked ==
    /\ \A s \in ChainStates : Reached(s) => Backs(s, finding)
    /\ Reached("remediated") => validated # {}

BackedInv == OrderInv /\ ReachedBacked /\ \A w \in Callers : WriteBacked(req[w])

\* The operation's own evidence is in the copy it makes, and the old one too.
LEMMA UpdateBacks ==
  ASSUME TypeOK, NEW o \in Operations, o # "patch"
  PROVE  Keeps(finding, Updated(o, finding)) /\ Backs(TargetState(o), Updated(o, finding))
<1>1. finding \in Finding
  BY DEF TypeOK
<1>2. Evaluate(checks.novelty) # None
  BY NoneAssumption DEF Evaluate
<1>3. PICK e : e = Evaluate(checks.novelty) /\ e # None
  BY <1>2
<1>4. CASE o = "branch"
  BY <1>1, <1>4 DEF Updated, Keeps, Backs, TargetState, Finding
<1>5. CASE o = "novelty"
  <2>1. Updated(o, finding) = [finding EXCEPT !.novelty = e]
    BY <1>3, <1>5 DEF Updated
  <2>2. PICK g : g = [finding EXCEPT !.novelty = e]
    OBVIOUS
  <2>3. /\ g.novelty = e /\ g.branch = finding.branch /\ g.fix = finding.fix
        /\ g.report = finding.report /\ g.candidate = finding.candidate
        /\ g.disclosed = finding.disclosed
    BY <1>1, <2>2 DEF Finding
  <2>4. TargetState(o) = "novelty_reviewed"
    BY <1>5 DEF TargetState
  <2>. QED  BY <1>3, <2>1, <2>2, <2>3, <2>4 DEF Keeps, Backs
<1>6. CASE o = "remediation"
  BY <1>1, <1>6 DEF Updated, Keeps, Backs, TargetState, Finding
<1>7. CASE o = "report"
  BY <1>1, <1>7 DEF Updated, Keeps, Backs, TargetState, Finding
<1>8. CASE o = "disclosure"
  BY <1>1, <1>8 DEF Updated, Keeps, Backs, TargetState, Finding
<1>. QED  BY <1>4, <1>5, <1>6, <1>7, <1>8 DEF Operations

LEMMA BacksKept ==
  ASSUME NEW s, NEW f, NEW g, Keeps(f, g), Backs(s, f)
  PROVE  Backs(s, g)
  BY DEF Keeps, Backs

\* A campaign that moves to the next evidence state has reached one state more.
LEMMA ReachedNext ==
  ASSUME campaign \in Campaign, NEW to \in ChainStates, MayAdvance(campaign, to),
         campaign'.state = to, NEW s \in ChainStates, Reached(s)'
  PROVE  Reached(s) \/ s = to
<1>1. Rank(to) >= Rank(s) /\ Rank(to) \in 1 .. 6 /\ Rank(s) \in 1 .. 6
  BY RankOf DEF Reached
<1>2. campaign.state \notin Stopped
  <2>1. to \notin Stopped
    BY DEF ChainStates, Stopped
  <2>. QED  BY <2>1 DEF MayAdvance
<1>3. CASE campaign.state = to
  BY <1>1, <1>2, <1>3 DEF Reached
<1>4. CASE campaign.state # to
  <2>1. campaign.state \in ChainStates /\ Rank(campaign.state) \in 1 .. 6
    BY <1>2, StatesAre, RankOf DEF Campaign
  <2>2. Rank(to) = Rank(campaign.state) + 1
    BY <1>4 DEF MayAdvance
  <2>3. Rank(campaign.state) >= Rank(s) \/ Rank(s) = Rank(to)
    BY <1>1, <2>1, <2>2
  <2>4. Rank(s) = Rank(to) => s = to
    BY RankOf, Zenon
  <2>. QED  BY <1>2, <2>3, <2>4 DEF Reached
<1>. QED  BY <1>3, <1>4

\* Steps that write neither the finding nor the campaign, and forget no run.
LEMMA ReachedStays ==
  ASSUME ReachedBacked, UNCHANGED <<campaign, finding>>, validated \subseteq validated'
  PROVE  ReachedBacked'
  BY DEF ReachedBacked, Reached, Backs

LEMMA WritesStay ==
  ASSUME NEW w \in Callers, WriteBacked(req[w]), UNCHANGED finding,
         validated \subseteq validated', req'[w] = req[w]
  PROVE  WriteBacked(req[w])'
  BY DEF WriteBacked, CopyBacked, Keeps, Backs, TargetState

LEMMA IdleBacked ==
  ASSUME NEW w \in Callers, req'[w] = NoReq
  PROVE  WriteBacked(req[w])'
  BY DEF WriteBacked, NoReq

\* A step of the only request, given what it leaves in the request.
LEMMA SoleRequest ==
  ASSUME OneCaller, NEW w \in Callers, WriteBacked(req[w])'
  PROVE  \A v \in Callers : WriteBacked(req[v])'
  BY DEF OneCaller

LEMMA BeginBacked ==
  ASSUME OneCaller, BackedInv, NEW w \in Callers, NEW o \in Operations, Begin(w, o)
  PROVE  ReachedBacked' /\ \A v \in Callers : WriteBacked(req[v])'
<1>1. req \in [Callers -> Request]
  BY DEF BackedInv, OrderInv, TypeOK
<1>2. req'[w].pc = "check" /\ req'[w].op = o
  BY <1>1 DEF Begin
<1>3. WriteBacked(req[w])'
  BY <1>2 DEF WriteBacked
<1>4. ReachedBacked'
  BY ReachedStays DEF BackedInv, Begin
<1>. QED  BY <1>3, <1>4, SoleRequest

LEMMA CheckBacked ==
  ASSUME OneCaller, BackedInv, NEW w \in Callers, Check(w)
  PROVE  ReachedBacked' /\ \A v \in Callers : WriteBacked(req[v])'
<1>1. req \in [Callers -> Request] /\ TypeOK /\ WriteBacked(req[w])
  BY DEF BackedInv, OrderInv, TypeOK
<1>2. PICK o \in Operations : o = req[w].op
  BY <1>1 DEF WriteBacked, Check
<1>3. PICK g : g = Updated(o, finding)
  OBVIOUS
<1>4. PICK p : p = FirstWrite(o)
  OBVIOUS
<1>5. req' = [req EXCEPT ![w].pc = p, ![w].f = g]
  BY <1>2, <1>3, <1>4 DEF Check
<1>6. req'[w].pc = p /\ req'[w].f = g /\ req'[w].op = o
  BY <1>1, <1>2, <1>5 DEF Request
<1>7. /\ o = "patch" => p = "put"
      /\ o = "remediation" => p = "record"
      /\ p \in {"put", "record", "save"}
  BY <1>4 DEF FirstWrite
<1>8. o # "patch" => Keeps(finding, g) /\ Backs(TargetState(o), g)
  BY <1>1, <1>2, <1>3, UpdateBacks
<1>9. finding' = finding
  BY DEF Check
<1>10. p \in {"record", "save", "swap"} => CopyBacked(req[w])'
  <2>1. SUFFICES ASSUME p \in {"record", "save", "swap"}  PROVE CopyBacked(req[w])'
    OBVIOUS
  <2>2. o # "patch" /\ Keeps(finding, g) /\ Backs(TargetState(o), g)
    BY <2>1, <1>7, <1>8
  <2>. QED  BY <2>2, <1>6, <1>9 DEF CopyBacked, Keeps, Backs, TargetState
<1>11. WriteBacked(req[w])'
  BY <1>6, <1>7, <1>10 DEF WriteBacked
<1>12. ReachedBacked'
  BY ReachedStays DEF BackedInv, Check
<1>. QED  BY <1>11, <1>12, SoleRequest

LEMMA EndBacked ==
  ASSUME OneCaller, BackedInv, NEW w \in Callers, Denied(w) \/ PutPatch(w) \/ CutOff(w)
  PROVE  ReachedBacked' /\ \A v \in Callers : WriteBacked(req[v])'
<1>1. req \in [Callers -> Request]
  BY DEF BackedInv, OrderInv, TypeOK
<1>2. req'[w] = NoReq
  BY <1>1 DEF Denied, PutPatch, CutOff
<1>3. UNCHANGED <<campaign, finding, validated>>
  BY DEF Denied, PutPatch, CutOff
<1>4. ReachedBacked'
  BY <1>3, ReachedStays DEF BackedInv
<1>. QED  BY <1>2, <1>4, IdleBacked, SoleRequest

LEMMA SaveRemediationBacked ==
  ASSUME OneCaller, BackedInv, NEW w \in Callers, NEW runs \in 1 .. MaxFixRuns,
         SaveRemediation(w, runs)
  PROVE  ReachedBacked' /\ \A v \in Callers : WriteBacked(req[v])'
<1>1. req \in [Callers -> Request] /\ WriteBacked(req[w]) /\ req[w].pc = "record"
  BY DEF BackedInv, OrderInv, TypeOK, SaveRemediation
<1>2. /\ finding' = finding /\ campaign' = campaign
      /\ validated \subseteq validated' /\ validated' # {}
  BY DEF SaveRemediation
<1>3. ReachedBacked'
  BY <1>2, ReachedStays DEF BackedInv
<1>4. CASE runs \in validated
  <2>1. req'[w] = NoReq
    BY <1>1, <1>4 DEF SaveRemediation
  <2>. QED  BY <1>3, <2>1, IdleBacked, SoleRequest
<1>5. CASE runs \notin validated
  <2>1. req' = [req EXCEPT ![w] = [req[w] EXCEPT !.pc = "save"]]
    BY <1>5 DEF SaveRemediation
  <2>2. /\ req'[w].pc = "save" /\ req'[w].f = req[w].f /\ req'[w].op = req[w].op
    BY <1>1, <2>1 DEF Request
  <2>3. CopyBacked(req[w]) /\ req[w].op \in Operations
    BY <1>1 DEF WriteBacked
  <2>4. CopyBacked(req[w])'
    BY <1>2, <2>2, <2>3 DEF CopyBacked, Keeps, Backs, TargetState
  <2>5. WriteBacked(req[w])'
    BY <1>2, <2>2, <2>3, <2>4 DEF WriteBacked
  <2>. QED  BY <1>3, <2>5, SoleRequest
<1>. QED  BY <1>4, <1>5

\* The finding is replaced by a copy that keeps its evidence.
LEMMA SaveFindingBacked ==
  ASSUME OneCaller, BackedInv, NEW w \in Callers, SaveFinding(w)
  PROVE  ReachedBacked' /\ \A v \in Callers : WriteBacked(req[v])'
<1>1. req \in [Callers -> Request] /\ WriteBacked(req[w]) /\ req[w].pc = "save"
  BY DEF BackedInv, OrderInv, TypeOK, SaveFinding
<1>2. CopyBacked(req[w]) /\ req[w].op \in Operations
  BY <1>1 DEF WriteBacked
<1>3. finding' = req[w].f /\ campaign' = campaign /\ validated' = validated
  BY DEF SaveFinding
<1>4. req'[w].pc = "swap" /\ req'[w].f = req[w].f /\ req'[w].op = req[w].op
  BY <1>1 DEF SaveFinding, Request
<1>5. CopyBacked(req[w])'
  BY <1>2, <1>3, <1>4 DEF CopyBacked, Keeps, Backs, TargetState
<1>6. WriteBacked(req[w])'
  BY <1>1, <1>2, <1>3, <1>4, <1>5 DEF WriteBacked
<1>7. ASSUME NEW s \in ChainStates, Reached(s)'  PROVE Backs(s, finding)'
  <2>1. Reached(s)
    BY <1>3, <1>7 DEF Reached
  <2>2. Backs(s, finding)
    BY <2>1 DEF BackedInv, ReachedBacked
  <2>3. Backs(s, req[w].f)
    BY <1>2, <2>2, BacksKept DEF CopyBacked
  <2>. QED  BY <1>3, <2>3 DEF Backs
<1>8. Reached("remediated")' => validated' # {}
  BY <1>3 DEF Reached, BackedInv, ReachedBacked
<1>9. ReachedBacked'
  BY <1>7, <1>8 DEF ReachedBacked
<1>. QED  BY <1>6, <1>9, SoleRequest

\* The campaign moves to a state whose evidence the request has stored.
LEMMA SwapBacked ==
  ASSUME OneCaller, BackedInv, NEW w \in Callers, Swap(w)
  PROVE  ReachedBacked' /\ \A v \in Callers : WriteBacked(req[v])'
<1>1. /\ req \in [Callers -> Request] /\ campaign \in Campaign
      /\ OrderInv /\ WriteBacked(req[w]) /\ ReachedBacked /\ req[w].pc = "swap"
  BY DEF BackedInv, OrderInv, TypeOK, Swap
<1>2. finding' = finding /\ validated' = validated /\ req'[w] = NoReq
  BY <1>1 DEF Swap
<1>3. CASE campaign' = campaign
  BY <1>1, <1>2, <1>3, IdleBacked, SoleRequest, ReachedStays
<1>4. CASE campaign' # campaign
  <2>1. /\ Seen(req[w].c) /\ MayAdvance(req[w].c, TargetState(req[w].op))
    BY <1>1 DEF OrderInv, RequestsOrdered, Writing
  <2>2. PICK to \in ChainStates : to = TargetState(req[w].op) /\ to \in States
    BY TargetIsState, TargetInStates
  <2>3. PICK c : c = req[w].c
    OBVIOUS
  <2>4. UpdateCampaign(c, Advance(c, to)) /\ Seen(c) /\ MayAdvance(c, to)
    BY <1>4, <2>1, <2>2, <2>3 DEF Swap
  <2>5. campaign'.state = to /\ MayAdvance(campaign, to)
    BY <1>1, <1>4, <2>2, <2>4, SwapSeen
  <2>6. Backs(to, finding)
    BY <1>1, <2>2 DEF WriteBacked, CopyBacked
  <2>7. to = "remediated" => validated # {}
    <3>1. TargetState(req[w].op) = "remediated" => req[w].op = "remediation"
      BY DEF TargetState
    <3>. QED  BY <1>1, <2>2, <3>1 DEF WriteBacked
  <2>8. ASSUME NEW s \in ChainStates, Reached(s)'
        PROVE  Backs(s, finding)' /\ (s = "remediated" => validated' # {})
    <3>1. Reached(s) \/ s = to
      BY <1>1, <2>5, <2>8, ReachedNext
    <3>2. Backs(s, finding) /\ (s = "remediated" => validated # {})
      BY <1>1, <2>6, <2>7, <3>1 DEF ReachedBacked
    <3>. QED  BY <1>2, <3>2 DEF Backs
  <2>9. ReachedBacked'
    BY <2>8 DEF ReachedBacked, ChainStates
  <2>. QED  BY <1>2, <2>9, IdleBacked, SoleRequest
<1>. QED  BY <1>3, <1>4

\* A stop leaves no evidence state behind, and takes nothing from a request.
LEMMA StopBacked ==
  ASSUME BackedInv, NEW s \in Stoppers, NEW to \in Stopped,
         TransitionSwap(s) \/ TransitionRead(s, to)
  PROVE  ReachedBacked' /\ \A v \in Callers : WriteBacked(req[v])'
<1>1. UNCHANGED <<finding, validated, req>>
  BY DEF TransitionSwap, TransitionRead
<1>2. \A v \in Callers : WriteBacked(req[v])'
  BY <1>1, WritesStay DEF BackedInv
<1>3. CASE campaign' = campaign
  BY <1>1, <1>2, <1>3, ReachedStays DEF BackedInv
<1>4. CASE campaign' # campaign
  <2>1. campaign'.state \in Stopped
    BY <1>4, TransitionMoves DEF BackedInv, TransitionRead
  <2>. QED  BY <1>2, <2>1 DEF ReachedBacked, Reached
<1>. QED  BY <1>3, <1>4

LEMMA AsideBacked ==
  ASSUME BackedInv, Aside \/ UNCHANGED vars
  PROVE  ReachedBacked' /\ \A v \in Callers : WriteBacked(req[v])'
<1>1. UNCHANGED <<campaign, req>>
  BY AsideFrame DEF vars
<1>2. UNCHANGED <<finding, validated>>
  BY DEF vars, Aside, RequestApproval, DecideSave, DecideRead, BranchFacts,
         ScopeExpires, ReviewSourceEvidence
<1>. QED  BY <1>1, <1>2, ReachedStays, WritesStay DEF BackedInv

LEMMA NextBacked == OneCaller /\ BackedInv /\ [Next]_vars => BackedInv'
<1>. SUFFICES ASSUME OneCaller, BackedInv, [Next]_vars PROVE BackedInv'
  OBVIOUS
<1>1. OrderInv'
  BY NextOrder DEF BackedInv
<1>2. ASSUME NEW w \in Callers, Serve(w)
      PROVE  ReachedBacked' /\ \A v \in Callers : WriteBacked(req[v])'
  BY <1>2, CheckBacked, EndBacked, SaveFindingBacked, SwapBacked,
     SaveRemediationBacked DEF Serve
<1>3. "paused" \in Stopped
  BY DEF Stopped
<1>4. ReachedBacked' /\ \A v \in Callers : WriteBacked(req[v])'
  BY <1>2, <1>3, BeginBacked, EndBacked, StopBacked, AsideBacked DEF Next, Aside
<1>. QED  BY <1>1, <1>4 DEF BackedInv

\* For one client at a time, however its requests are cut off and whoever stops
\* the campaign meanwhile: a campaign never stands in an evidence state whose
\* evidence is not in the stored finding, because every operation of workflow.go
\* saves the finding before it moves the campaign, and moves it from what it read.
THEOREM CampaignBacked ==
  ASSUME OneCaller
  PROVE  Spec => []StateBacked
<1>1. Init => BackedInv
  <2>. SUFFICES ASSUME Init PROVE BackedInv
    OBVIOUS
  <2>1. OrderInv
    BY InitOrder
  <2>2. \A w \in Callers : WriteBacked(req[w])
    BY DEF Init, WriteBacked, NoReq
  <2>3. ASSUME NEW s \in ChainStates, s # "primitive_assessed"  PROVE ~Reached(s)
    <3>1. Rank("primitive_assessed") = 1
      BY RankOf DEF Chain, ChainStates
    <3>2. Rank(s) \in 1 .. 6 /\ Rank(s) # 1
      BY <2>3, RankOf DEF Chain
    <3>3. campaign.state = "primitive_assessed"
      BY DEF Init
    <3>. QED  BY <3>1, <3>2, <3>3 DEF Reached
  <2>4. Backs("primitive_assessed", finding)
    BY DEF Backs
  <2>5. ReachedBacked
    BY <2>3, <2>4 DEF ReachedBacked, ChainStates
  <2>. QED  BY <2>1, <2>2, <2>5 DEF BackedInv
<1>2. BackedInv => StateBacked
  BY DEF BackedInv, ReachedBacked, StateBacked, Backs, ChainStates
<1>3. BackedInv /\ [Next]_vars => BackedInv'
  BY NextBacked
<1>. QED  BY <1>1, <1>2, <1>3, PTL DEF Spec
=============================================================================
