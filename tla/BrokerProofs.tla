---------------------------- MODULE BrokerProofs ----------------------------
(***************************************************************************)
(* Theorems about the job broker of internal/research/runner/runner.go,    *)
(* for any number of workers, callers, jobs and restarts, with failing     *)
(* journal calls and leaving clients unless a theorem assumes otherwise.   *)
(***************************************************************************)
EXTENDS Broker, FiniteSetTheorems, TLAPS

-----------------------------------------------------------------------------
(* Type correctness. *)

\* A worker past its dequeue names a job, and one about to record a result has
\* one to record.
WorkerState ==
    \A w \in Workers :
        /\ HoldsJob(w) => job[w] \in Jobs
        /\ pc[w] \in {"save", "failsave"} => res[w] \in TerminalStatus

\* A call of Wait or Cancel in progress names a job.
CallState ==
    /\ \A o \in Observers : obs[o].pc # "idle" => obs[o].job \in Jobs
    /\ \A x \in Cancellers : can[x].pc # "idle" => can[x].job \in Jobs

TypeInv == TypeOK /\ WorkerState /\ CallState

\* The memory of a process that is down is empty and well typed.
LEMMA TypeInit == Init => TypeInv
<1>. SUFFICES ASSUME Init PROVE TypeInv
  OBVIOUS
<1>0. restarts \in 0 .. MaxRestarts
  BY BrokerAssumption DEF Init
<1>1. ctxDone \in BOOLEAN
  BY DEF Init
<1>2. obs \in [Observers -> WaitCall] /\ can \in [Cancellers -> CancelCall]
  BY DEF Init, IdleObs, IdleCan, WaitCall, CancelCall
<1>3. queue \in Seq(Jobs) /\ pc \in [Workers -> WorkerPCs]
  BY DEF Init, WorkerPCs
<1>4. TypeOK
  BY <1>0, <1>1, <1>2, <1>3 DEF Init, TypeOK, Status
<1>5. WorkerState /\ CallState
  BY DEF Init, WorkerState, CallState, HoldsJob, SlotPCs, IdleObs, IdleCan
<1>. QED  BY <1>4, <1>5 DEF TypeInv

\* The same, when a process ends.
LEMMA TypeLoseMemory ==
    ASSUME TypeInv, LoseMemory, journal' = journal, restarts' \in 0 .. MaxRestarts
    PROVE  TypeInv'
<1>1. ctxDone' \in BOOLEAN
  BY DEF LoseMemory
<1>2. obs' \in [Observers -> WaitCall] /\ can' \in [Cancellers -> CancelCall]
  BY DEF LoseMemory, IdleObs, IdleCan, WaitCall, CancelCall
<1>3. queue' \in Seq(Jobs) /\ pc' \in [Workers -> WorkerPCs]
  BY DEF LoseMemory, WorkerPCs
<1>4. TypeOK'
  BY <1>1, <1>2, <1>3 DEF TypeInv, TypeOK, LoseMemory
<1>5. WorkerState' /\ CallState'
  BY DEF WorkerState, CallState, LoseMemory, HoldsJob, SlotPCs, IdleObs, IdleCan
<1>. QED  BY <1>4, <1>5 DEF TypeInv

LEMMA TypeProcess ==
    ASSUME TypeInv, Start \/ StartFails \/ Shutdown \/ Crash \/ ProcStep
    PROVE  TypeInv'
<1>. USE BrokerAssumption DEF TypeInv, TypeOK, WorkerState, CallState, HoldsJob, WorkerPCs, SlotPCs, Status,
         procVars, schedVars, workerVars, waitVars
<1>1. CASE Start
  BY <1>1 DEF Start, Requeued, Unfinished, ListWorkerJobsByStatus
<1>2. CASE StartFails
  BY <1>2 DEF StartFails, Requeued, Unfinished, ListWorkerJobsByStatus
<1>3. CASE Shutdown
  BY <1>3 DEF Shutdown
<1>4. CASE Crash
  <2>1. restarts' \in 0 .. MaxRestarts
    BY <1>4 DEF Crash
  <2>. QED  BY <1>4, <2>1, TypeLoseMemory DEF Crash
<1>5. CASE StartReturns
  BY <1>5 DEF StartReturns
<1>6. CASE Close
  BY <1>6 DEF Close
<1>7. CASE Exit
  <2>1. restarts' \in 0 .. MaxRestarts
    BY <1>7 DEF Exit
  <2>. QED  BY <1>7, <2>1, TypeLoseMemory DEF Exit
<1>8. ASSUME NEW j \in Jobs, StartEnqueue(j) PROVE TypeInv'
  BY <1>8 DEF StartEnqueue
<1>. QED  BY <1>1, <1>2, <1>3, <1>4, <1>5, <1>6, <1>7, <1>8 DEF ProcStep

LEMMA TypeSubmit ==
    ASSUME TypeInv, NEW j \in Jobs, SubmitCreate(j) \/ SubmitStep(j)
    PROVE  TypeInv'
<1>. USE BrokerAssumption DEF TypeInv, TypeOK, WorkerState, CallState, HoldsJob, WorkerPCs, SlotPCs, Status,
         TerminalStatus, procVars, schedVars, workerVars, waitVars, Goto
<1>1. CASE SubmitCreate(j)
  BY <1>1 DEF SubmitCreate, CreateJobAndRun
<1>2. CASE SubmitEnqueue(j)
  BY <1>2 DEF SubmitEnqueue
<1>3. CASE SubmitGivesUp(j)
  BY <1>3 DEF SubmitGivesUp
<1>. QED  BY <1>1, <1>2, <1>3 DEF SubmitStep

LEMMA TypeWorker ==
    ASSUME TypeInv, NEW w \in Workers, WorkerStep(w), ~ReleaseCampaign(w)
    PROVE  TypeInv'
<1>. USE BrokerAssumption DEF TypeInv, TypeOK, WorkerState, CallState, HoldsJob, WorkerPCs, SlotPCs, Status,
         TerminalStatus, procVars, schedVars, workerVars, waitVars, Goto
<1>1. CASE WorkerExits(w)
  BY <1>1 DEF WorkerExits
<1>2. CASE Dequeue(w)
  BY <1>2 DEF Dequeue
<1>3. CASE DequeueSkip(w)
  BY <1>3 DEF DequeueSkip
<1>4. CASE AcquireCampaign(w)
  BY <1>4 DEF AcquireCampaign
<1>5. CASE AcquireAborted(w)
  BY <1>5 DEF AcquireAborted
<1>6. CASE SaveRunning(w)
  BY <1>6 DEF SaveRunning, SaveJobAndRun
<1>7. CASE SaveRunningFails(w)
  BY <1>7 DEF SaveRunningFails
<1>8. CASE Register(w)
  BY <1>8 DEF Register
<1>9. CASE Deadline(w)
  BY <1>9 DEF Deadline
<1>10. CASE RunFails(w)
  BY <1>10 DEF RunFails
<1>11. CASE Finish(w)
  BY <1>11 DEF Finish, Outcomes
<1>12. CASE SaveResult(w)
  BY <1>12 DEF SaveResult, SaveUnchecked, SaveJobAndRun
<1>13. CASE SaveFailed(w)
  BY <1>13 DEF SaveFailed, SaveUnchecked, SaveJobAndRun
<1>14. CASE IngestSucceeds(w)
  BY <1>14 DEF IngestSucceeds
<1>15. CASE IngestFails(w)
  BY <1>15 DEF IngestFails
<1>16. CASE PublishResult(w)
  BY <1>16 DEF PublishResult, Publish
<1>17. CASE Cleanup(w)
  BY <1>17 DEF Cleanup
<1>. QED  BY <1>1, <1>2, <1>3, <1>4, <1>5, <1>6, <1>7, <1>8, <1>9, <1>10, <1>11, <1>12, <1>13, <1>14, <1>15, <1>16, <1>17 DEF WorkerStep

\* Steps of Wait and Cancel leave the workers, the queue and the slots alone.
Quiet == UNCHANGED <<procVars, schedVars, pc, job, res, active, cancels>>

LEMMA TypeQuiet ==
    ASSUME TypeInv, Quiet, journal' \in [Jobs -> Status],
           jobCtx' \in [Workers -> {"live", "canceled", "deadline"}],
           waiters' \in SUBSET Observers, box' \in [Observers -> TerminalStatus \cup {None}],
           obs' \in [Observers -> WaitCall], can' \in [Cancellers -> CancelCall], CallState'
    PROVE  TypeInv'
  BY DEF TypeInv, TypeOK, WorkerState, HoldsJob, Quiet, procVars, schedVars

\* A Wait call that moves on, or is answered, keeps its job.
LEMMA WaitMoves ==
    ASSUME obs \in [Observers -> WaitCall], NEW o \in Observers,
           NEW p \in {"reread", "wait", "left"}, obs' = [obs EXCEPT ![o].pc = p]
    PROVE  obs' \in [Observers -> WaitCall] /\ \A q \in Observers : obs'[q].job = obs[q].job
<1>1. obs[o] \in WaitCall
  OBVIOUS
<1>2. [obs[o] EXCEPT !.pc = p] \in WaitCall
  BY <1>1 DEF WaitCall
<1>3. obs'[o].job = obs[o].job
  BY <1>1 DEF WaitCall
<1>. QED  BY <1>2, <1>3

LEMMA WaitAnswers ==
    ASSUME obs \in [Observers -> WaitCall], NEW o \in Observers,
           NEW status \in TerminalStatus \cup {None},
           obs' = [obs EXCEPT ![o] = Answered(@, status)]
    PROVE  obs' \in [Observers -> WaitCall] /\ \A q \in Observers : obs'[q].job = obs[q].job
  BY DEF WaitCall, Answered

LEMMA TypeWait ==
    ASSUME TypeInv, NEW o \in Observers, WaitStep(o) \/ WaitGivesUp(o)
    PROVE  TypeInv'
<1>1. Quiet /\ journal' = journal /\ jobCtx' = jobCtx /\ can' = can /\ box' = box
  BY DEF Quiet, WaitStep, WaitRegister, WaitReread, WaitReceive, WaitGivesUp,
         procVars, schedVars, workerVars
<1>2. waiters' \in SUBSET Observers
  BY DEF TypeInv, TypeOK, WaitStep, WaitRegister, WaitReread, WaitReceive, WaitGivesUp
<1>3. obs[o].pc # "idle" /\ \A q \in Observers \ {o} : obs'[q] = obs[q]
  BY DEF TypeInv, TypeOK, WaitStep, WaitRegister, WaitReread, WaitReceive, WaitGivesUp
<1>4. obs' \in [Observers -> WaitCall] /\ \A q \in Observers : obs'[q].job = obs[q].job
  <2>. USE DEF TypeInv, TypeOK
  <2>1. CASE WaitRegister(o)
    BY <2>1, WaitMoves DEF WaitRegister
  <2>2. CASE WaitReread(o) /\ terminalRun(journal[obs[o].job])
    BY <2>2, WaitAnswers DEF WaitReread, terminalRun
  <2>3. CASE WaitReread(o) /\ ~terminalRun(journal[obs[o].job])
    BY <2>3, WaitMoves DEF WaitReread
  <2>4. CASE WaitReceive(o)
    BY <2>4, WaitAnswers DEF WaitReceive
  <2>5. CASE WaitGivesUp(o)
    BY <2>5, WaitMoves DEF WaitGivesUp
  <2>. QED  BY <2>1, <2>2, <2>3, <2>4, <2>5 DEF WaitStep
<1>5. CallState'
  BY <1>1, <1>3, <1>4 DEF TypeInv, CallState
<1>. QED  BY <1>1, <1>2, <1>4, <1>5, TypeQuiet DEF TypeInv, TypeOK

\* A Cancel call ends or moves on with its job.
LEMMA CancelMoves ==
    ASSUME can \in [Cancellers -> CancelCall], NEW x \in Cancellers,
           NEW p \in {"save", "publish"}, can' = [can EXCEPT ![x].pc = p]
    PROVE  /\ can' \in [Cancellers -> CancelCall]
           /\ \A y \in Cancellers : can'[y].pc = "idle" \/ can'[y].job = can[y].job
<1>1. can[x] \in CancelCall
  OBVIOUS
<1>2. [can[x] EXCEPT !.pc = p] \in CancelCall
  BY <1>1 DEF CancelCall
<1>3. can'[x].job = can[x].job
  BY <1>1 DEF CancelCall
<1>. QED  BY <1>2, <1>3

LEMMA CancelEnds ==
    ASSUME can \in [Cancellers -> CancelCall], NEW x \in Cancellers,
           can' = [can EXCEPT ![x] = IdleCan]
    PROVE  /\ can' \in [Cancellers -> CancelCall]
           /\ \A y \in Cancellers : can'[y].pc = "idle" \/ can'[y].job = can[y].job
  BY DEF CancelCall, IdleCan

LEMMA TypeCancel ==
    ASSUME TypeInv, NEW x \in Cancellers, CancelStep(x)
    PROVE  TypeInv'
<1>. USE DEF TypeInv, TypeOK, procVars, schedVars, workerVars, waitVars
<1>1. Quiet /\ obs' = obs
  BY DEF Quiet, CancelStep, CancelLookup, CancelSave, CancelSaveFails, CancelPublish, Publish
<1>2. can[x].pc # "idle" /\ \A y \in Cancellers \ {x} : can'[y] = can[y]
  BY DEF CancelStep, CancelLookup, CancelSave, CancelSaveFails, CancelPublish
<1>3. /\ can' \in [Cancellers -> CancelCall]
      /\ \A y \in Cancellers : can'[y].pc = "idle" \/ can'[y].job = can[y].job
  <2>1. CASE CancelLookup(x)
    <3>1. can' = [can EXCEPT ![x] = IdleCan] \/ can' = [can EXCEPT ![x].pc = "save"]
      BY <2>1 DEF CancelLookup
    <3>. QED  BY <3>1, CancelMoves, CancelEnds
  <2>2. CASE CancelSave(x)
    BY <2>2, CancelMoves DEF CancelSave
  <2>3. CASE CancelSaveFails(x) \/ CancelPublish(x)
    BY <2>3, CancelEnds DEF CancelSaveFails, CancelPublish
  <2>. QED  BY <2>1, <2>2, <2>3 DEF CancelStep
<1>4. CallState'
  BY <1>1, <1>2, <1>3 DEF CallState
<1>5. journal' \in [Jobs -> Status]
  BY DEF CancelStep, CancelLookup, CancelSave, CancelSaveFails, CancelPublish, SaveJobAndRun,
         CallState, Status, TerminalStatus
<1>6. jobCtx' \in [Workers -> {"live", "canceled", "deadline"}]
  BY DEF CancelStep, CancelLookup, CancelSave, CancelSaveFails, CancelPublish
<1>7. waiters' \in SUBSET Observers /\ box' \in [Observers -> TerminalStatus \cup {None}]
  BY DEF CancelStep, CancelLookup, CancelSave, CancelSaveFails, CancelPublish, Publish,
         TerminalStatus
<1>. QED  BY <1>1, <1>3, <1>4, <1>5, <1>6, <1>7, TypeQuiet

LEMMA TypeCalls ==
    ASSUME TypeInv,
           \/ \E o \in Observers, j \in Jobs : WaitRead(o, j)
           \/ \E x \in Cancellers, j \in Jobs : CancelRead(x, j)
    PROVE  TypeInv'
<1>. USE DEF TypeInv, TypeOK, procVars, schedVars, workerVars, waitVars
<1>1. ASSUME NEW o \in Observers, NEW j \in Jobs, WaitRead(o, j) PROVE TypeInv'
  <2>1. Quiet /\ UNCHANGED <<journal, jobCtx, waiters, box, can>>
    BY <1>1 DEF WaitRead, Quiet
  <2>2. PICK p \in {"done", "register"}, g \in TerminalStatus \cup {None} :
          obs' = [obs EXCEPT ![o] = [pc |-> p, job |-> j, got |-> g]]
    BY <1>1 DEF WaitRead, terminalRun
  <2>3. obs' \in [Observers -> WaitCall]
    BY <2>2 DEF WaitCall
  <2>4. CallState'
    BY <2>1, <2>2 DEF CallState
  <2>. QED  BY <2>1, <2>3, <2>4, TypeQuiet
<1>2. ASSUME NEW x \in Cancellers, NEW j \in Jobs, CancelRead(x, j) PROVE TypeInv'
  <2>1. Quiet /\ UNCHANGED <<journal, jobCtx, waiters, box, obs>>
    BY <1>2 DEF CancelRead, Quiet
  <2>2. can' = [can EXCEPT ![x] = [pc |-> "lookup", job |-> j, seen |-> journal[j]]]
    BY <1>2 DEF CancelRead
  <2>3. can' \in [Cancellers -> CancelCall]
    BY <2>2 DEF CancelCall
  <2>4. CallState'
    BY <2>1, <2>2 DEF CallState
  <2>. QED  BY <2>1, <2>3, <2>4, TypeQuiet
<1>. QED  BY <1>1, <1>2

-----------------------------------------------------------------------------
(* Campaign slots. *)

\* A process that is down has no worker.
DownIsEmpty ==
    proc = "down" => /\ booting = {} /\ submits = {} /\ queue = <<>>
                     /\ \A w \in Workers : pc[w] = "off"

SlotInv ==
    /\ SlotAccounting
    /\ \A c \in Campaigns : active[c] <= CampaignConcurrency

LEMMA SlotsFinite == \A c \in Campaigns : IsFiniteSet(SlotHolders(c))
<1>1. \A c \in Campaigns : SlotHolders(c) \subseteq Workers
  BY DEF SlotHolders
<1>. QED  BY <1>1, BrokerAssumption, FS_Subset

\* The end of a process ends all workers and their count with them.
LEMMA SlotsLost ==
    ASSUME LoseMemory PROVE SlotInv' /\ DownIsEmpty'
<1>1. \A c \in Campaigns : SlotHolders(c)' = {}
  BY DEF LoseMemory, SlotHolders, Executing, SlotPCs
<1>2. \A c \in Campaigns : active'[c] = 0
  BY DEF LoseMemory
<1>3. DownIsEmpty'
  BY DEF LoseMemory, DownIsEmpty
<1>. QED  BY <1>1, <1>2, <1>3, FS_EmptySet, BrokerAssumption DEF SlotInv, SlotAccounting

\* A step that leaves active alone and moves no worker into or out of execute.
LEMMA SlotsKept ==
    ASSUME SlotInv, active' = active,
           \A w \in Workers : Executing(w)' <=> Executing(w),
           \A w \in Workers : Executing(w) => job'[w] = job[w]
    PROVE  SlotInv'
<1>1. \A c \in Campaigns : SlotHolders(c)' = SlotHolders(c)
  BY DEF SlotHolders
<1>. QED  BY <1>1 DEF SlotInv, SlotAccounting

\* acquireCampaign takes a free slot for a worker that has none.
LEMMA SlotsAcquire ==
    ASSUME TypeInv, SlotInv, NEW w \in Workers, AcquireCampaign(w)
    PROVE  SlotInv'
<1>. DEFINE c == CampaignOf[job[w]]
<1>1. c \in Campaigns /\ ~Executing(w) /\ Executing(w)' /\ job' = job
  BY BrokerAssumption DEF TypeInv, TypeOK, WorkerState, HoldsJob, AcquireCampaign, Goto,
     Executing, SlotPCs
<1>2. \A v \in Workers \ {w} : Executing(v)' <=> Executing(v)
  BY DEF TypeInv, TypeOK, AcquireCampaign, Goto, Executing
<1>3. SlotHolders(c)' = SlotHolders(c) \cup {w} /\ w \notin SlotHolders(c)
  BY <1>1, <1>2 DEF SlotHolders
<1>4. \A d \in Campaigns \ {c} : SlotHolders(d)' = SlotHolders(d)
  BY <1>1, <1>2 DEF SlotHolders
<1>5. Cardinality(SlotHolders(c)') = Cardinality(SlotHolders(c)) + 1
  BY <1>1, <1>3, SlotsFinite, FS_AddElement
<1>6. active' = [active EXCEPT ![c] = active[c] + 1] /\ active[c] < CampaignConcurrency
  BY DEF AcquireCampaign
<1>7. SlotAccounting'
  BY <1>1, <1>4, <1>5, <1>6 DEF SlotInv, SlotAccounting, TypeInv, TypeOK
<1>8. \A d \in Campaigns : active'[d] <= CampaignConcurrency
  BY <1>1, <1>6, BrokerAssumption DEF SlotInv, TypeInv, TypeOK
<1>. QED  BY <1>7, <1>8 DEF SlotInv

\* releaseCampaign gives back the slot its worker holds: the count cannot go
\* below zero.
LEMMA SlotsRelease ==
    ASSUME TypeInv, SlotInv, NEW w \in Workers, ReleaseCampaign(w)
    PROVE  SlotInv' /\ active' \in [Campaigns -> Nat]
<1>0. PICK c \in Campaigns : c = CampaignOf[job[w]]
  BY BrokerAssumption DEF TypeInv, TypeOK, WorkerState, HoldsJob, ReleaseCampaign, SlotPCs
<1>1. Executing(w) /\ ~Executing(w)'
  BY DEF TypeInv, TypeOK, WorkerState, HoldsJob, ReleaseCampaign, Goto,
     Executing, SlotPCs
<1>2. \A v \in Workers \ {w} : (Executing(v)' <=> Executing(v)) /\ job'[v] = job[v]
  BY DEF TypeInv, TypeOK, ReleaseCampaign, Goto, Executing
<1>3. SlotHolders(c)' = SlotHolders(c) \ {w} /\ w \in SlotHolders(c)
  BY <1>0, <1>1, <1>2 DEF SlotHolders
<1>4. \A d \in Campaigns \ {c} : SlotHolders(d)' = SlotHolders(d)
  BY <1>0, <1>1, <1>2 DEF SlotHolders
<1>5. Cardinality(SlotHolders(c)') = Cardinality(SlotHolders(c)) - 1
  BY <1>1, <1>3, SlotsFinite, FS_RemoveElement
<1>6. active' = [active EXCEPT ![c] = active[c] - 1]
  BY <1>0 DEF ReleaseCampaign
<1>7. SlotAccounting'
  BY <1>1, <1>4, <1>5, <1>6 DEF SlotInv, SlotAccounting, TypeInv, TypeOK
<1>8. Cardinality(SlotHolders(c)') \in Nat
  BY <1>1, <1>3, SlotsFinite, FS_RemoveElement, FS_CardinalityType
<1>9. active[c] - 1 \in Nat
  BY <1>1, <1>5, <1>8 DEF SlotInv, SlotAccounting, TypeInv, TypeOK
<1>10. active' \in [Campaigns -> Nat]
  BY <1>1, <1>6, <1>9 DEF TypeInv, TypeOK
<1>11. \A d \in Campaigns : active'[d] <= CampaignConcurrency
  BY <1>1, <1>6, BrokerAssumption DEF SlotInv, TypeInv, TypeOK
<1>. QED  BY <1>7, <1>10, <1>11 DEF SlotInv

LEMMA TypeRelease ==
    ASSUME TypeInv, SlotInv, NEW w \in Workers, ReleaseCampaign(w)
    PROVE  TypeInv'
  BY SlotsRelease DEF ReleaseCampaign, TypeInv, TypeOK, WorkerState, CallState, HoldsJob,
     WorkerPCs, SlotPCs, Goto, procVars, schedVars, waitVars

LEMMA SlotsStep ==
    ASSUME TypeInv, SlotInv, DownIsEmpty, Next
    PROVE  SlotInv' /\ DownIsEmpty'
<1>1. CASE Crash \/ Exit
  BY <1>1, SlotsLost DEF Crash, Exit
<1>2. CASE Start
  <2>1. active' = active /\ job' = job /\ \A w \in Workers : ~Executing(w) /\ ~Executing(w)'
    BY <1>2 DEF Start, DownIsEmpty, Executing, SlotPCs
  <2>. QED  BY <1>2, <2>1, SlotsKept DEF Start, DownIsEmpty
<1>3. ASSUME NEW w \in Workers, WorkerStep(w) PROVE SlotInv' /\ DownIsEmpty'
  <2>1. proc # "down" /\ proc' = proc
    BY <1>3 DEF WorkerStep, DownIsEmpty, WorkerExits, Dequeue, DequeueSkip, AcquireCampaign,
       AcquireAborted, SaveRunning, SaveRunningFails, Register, Deadline, RunFails, Finish,
       SaveResult, SaveFailed, SaveUnchecked, IngestSucceeds, IngestFails, PublishResult,
       Cleanup, ReleaseCampaign, procVars
  <2>2. CASE AcquireCampaign(w)
    BY <2>1, <2>2, SlotsAcquire DEF DownIsEmpty
  <2>3. CASE ReleaseCampaign(w)
    BY <2>1, <2>3, SlotsRelease DEF DownIsEmpty
  <2>4. CASE ~AcquireCampaign(w) /\ ~ReleaseCampaign(w)
    <3>1. active' = active
      BY <1>3, <2>4 DEF WorkerStep, WorkerExits, Dequeue, DequeueSkip,
       AcquireAborted, SaveRunning, SaveRunningFails, Register, Deadline, RunFails, Finish,
       SaveResult, SaveFailed, SaveUnchecked, IngestSucceeds, IngestFails, PublishResult, Cleanup
    <3>2. \A v \in Workers : Executing(v)' <=> Executing(v)
      BY <1>3, <2>4 DEF TypeInv, TypeOK, WorkerStep, WorkerExits, Dequeue, DequeueSkip,
       AcquireAborted, SaveRunning, SaveRunningFails, Register, Deadline, RunFails, Finish,
       SaveResult, SaveFailed, SaveUnchecked, IngestSucceeds, IngestFails, PublishResult, Cleanup,
       Goto, Executing, SlotPCs, workerVars
    <3>3. \A v \in Workers : Executing(v) => job'[v] = job[v]
      BY <1>3, <2>4 DEF TypeInv, TypeOK, WorkerStep, WorkerExits, Dequeue, DequeueSkip,
       AcquireAborted, SaveRunning, SaveRunningFails, Register, Deadline, RunFails, Finish,
       SaveResult, SaveFailed, SaveUnchecked, IngestSucceeds, IngestFails, PublishResult, Cleanup,
       Executing, SlotPCs, workerVars
    <3>. QED  BY <2>1, <3>1, <3>2, <3>3, SlotsKept DEF DownIsEmpty
  <2>. QED  BY <2>2, <2>3, <2>4
<1>4. CASE StartFails
  BY <1>4, SlotsKept DEF StartFails, DownIsEmpty, Executing, schedVars, workerVars
<1>5. CASE Shutdown \/ StartReturns \/ Close \/ \E j \in Jobs : StartEnqueue(j)
  <2>1. proc' # "down" /\ UNCHANGED <<active, pc, job>>
    BY <1>5 DEF Shutdown, StartReturns, Close, StartEnqueue, procVars, workerVars
  <2>. QED  BY <2>1, SlotsKept DEF DownIsEmpty, Executing
<1>6. ASSUME NEW j \in Jobs, SubmitCreate(j) \/ SubmitStep(j) PROVE SlotInv' /\ DownIsEmpty'
  <2>1. proc # "down" /\ proc' = proc /\ UNCHANGED <<active, pc, job>>
    BY <1>6 DEF SubmitCreate, SubmitStep, SubmitEnqueue, SubmitGivesUp, DownIsEmpty,
       procVars, workerVars
  <2>. QED  BY <2>1, SlotsKept DEF DownIsEmpty, Executing
<1>7. CASE \/ \E o \in Observers : WaitStep(o) \/ WaitGivesUp(o)
           \/ \E o \in Observers, j \in Jobs : WaitRead(o, j)
           \/ \E x \in Cancellers : CancelStep(x)
           \/ \E x \in Cancellers, j \in Jobs : CancelRead(x, j)
  <2>1. UNCHANGED <<proc, booting, submits, queue, active, pc, job>>
    BY <1>7 DEF WaitStep, WaitRegister, WaitReread, WaitReceive, WaitGivesUp, WaitRead,
       CancelStep, CancelLookup, CancelSave, CancelSaveFails, CancelPublish, CancelRead,
       procVars, schedVars, workerVars
  <2>. QED  BY <2>1, SlotsKept DEF DownIsEmpty, Executing
<1>. QED  BY <1>1, <1>2, <1>3, <1>4, <1>5, <1>6, <1>7 DEF Next, ProcStep

-----------------------------------------------------------------------------
(* The inductive invariant of types and slots. *)

SafetyInv == TypeInv /\ SlotInv /\ DownIsEmpty

LEMMA SafetyInit == Init => SafetyInv
<1>. SUFFICES ASSUME Init PROVE SafetyInv
  OBVIOUS
<1>1. \A c \in Campaigns : SlotHolders(c) = {} /\ active[c] = 0
  BY DEF Init, SlotHolders, Executing, SlotPCs
<1>2. SlotInv
  BY <1>1, FS_EmptySet, BrokerAssumption DEF SlotInv, SlotAccounting
<1>3. DownIsEmpty
  BY DEF Init, DownIsEmpty
<1>. QED  BY <1>2, <1>3, TypeInit DEF SafetyInv

LEMMA SafetyStep == SafetyInv /\ [Next]_vars => SafetyInv'
<1>. SUFFICES ASSUME SafetyInv, [Next]_vars PROVE SafetyInv'
  OBVIOUS
<1>1. CASE Next
  <2>1. SlotInv' /\ DownIsEmpty'
    BY <1>1, SlotsStep DEF SafetyInv
  <2>2. TypeInv'
    BY <1>1, TypeProcess, TypeSubmit, TypeWorker, TypeRelease, TypeWait, TypeCancel, TypeCalls
       DEF SafetyInv, Next
  <2>. QED  BY <2>1, <2>2 DEF SafetyInv
<1>2. CASE UNCHANGED vars
  <2>. USE <1>2 DEF vars, procVars, schedVars, workerVars, waitVars
  <2>1. TypeOK'
    BY DEF SafetyInv, TypeInv, TypeOK
  <2>2. WorkerState' /\ CallState'
    BY DEF SafetyInv, TypeInv, WorkerState, CallState, HoldsJob
  <2>3. SlotInv'
    BY SlotsKept DEF SafetyInv, Executing
  <2>4. DownIsEmpty'
    BY DEF SafetyInv, DownIsEmpty
  <2>. QED  BY <2>1, <2>2, <2>3, <2>4 DEF SafetyInv, TypeInv
<1>. QED  BY <1>1, <1>2

LEMMA SafetyInvariant == Spec => []SafetyInv
  BY SafetyInit, SafetyStep, PTL DEF Spec

\* The broker's state is well typed; in particular b.campaignActive never goes
\* below zero.
THEOREM TypeCorrect == Spec => []TypeOK
  BY SafetyInvariant, PTL DEF SafetyInv, TypeInv

\* b.campaignActive counts exactly the workers inside execute: no path through
\* execute, no crash and no restart leaks or doubles a campaign slot.
THEOREM SlotsAccounted == Spec => []SlotAccounting
  BY SafetyInvariant, PTL DEF SafetyInv, SlotInv

\* acquireCampaign: no campaign ever has more jobs in execution than
\* CampaignConcurrency allows.
THEOREM CampaignLimited == Spec => []CampaignLimit
<1>1. SafetyInv => CampaignLimit
  BY DEF SafetyInv, SlotInv, SlotAccounting, CampaignLimit
<1>. QED  BY <1>1, SafetyInvariant, PTL

-----------------------------------------------------------------------------
(* One place for each job. *)

InQueue(j) == \E i \in DOMAIN queue : queue[i] = j
Held(j) == \E w \in Workers : HoldsJob(w) /\ job[w] = j

\* What SingleExecution rests on: a job is in the recovery list, a Submit call,
\* the queue or with a worker, never in two of these, and jobs not yet created
\* are in none.
Placement ==
    /\ \A j \in booting : j \notin submits /\ ~InQueue(j) /\ ~Held(j)
    /\ \A j \in submits : ~InQueue(j) /\ ~Held(j)
    /\ \A j \in Jobs : j \in booting \/ j \in submits \/ InQueue(j) \/ Held(j) =>
          journal[j] # "absent"
    /\ SingleExecution

\* A step after which each job is where it was, or nowhere.
LEMMA PlacementShrinks ==
    ASSUME TypeInv, Placement, booting' \subseteq booting, submits' \subseteq submits,
           queue' = queue,
           \A w \in Workers : HoldsJob(w)' => HoldsJob(w) /\ job'[w] = job[w],
           \A j \in Jobs : journal[j] # "absent" => journal'[j] # "absent"
    PROVE  Placement'
<1>1. \A j : InQueue(j)' <=> InQueue(j)
  BY DEF InQueue
<1>2. \A j : Held(j)' => Held(j)
  BY DEF Held
<1>3. SingleExecution'
  BY DEF Placement, SingleExecution
<1>4. booting' \subseteq Jobs /\ submits' \subseteq Jobs
  BY DEF TypeInv, TypeOK
<1>. QED  BY <1>1, <1>2, <1>3, <1>4 DEF Placement

\* Enqueueing moves a job from the recovery list or a Submit call to the queue.
LEMMA PlacementEnqueue ==
    ASSUME TypeInv, Placement, NEW j \in Jobs, queue' = Append(queue, j),
           UNCHANGED <<journal, pc, job>>,
           \/ j \in booting /\ booting' = booting \ {j} /\ submits' = submits
           \/ j \in submits /\ submits' = submits \ {j} /\ booting' = booting
    PROVE  Placement'
<1>1. ~InQueue(j) /\ ~Held(j)
  BY DEF Placement
<1>2. /\ queue \in Seq(Jobs) /\ DOMAIN queue' = 1 .. Len(queue) + 1
      /\ \A i \in 1 .. Len(queue) : queue'[i] = queue[i]
      /\ queue'[Len(queue) + 1] = j
  BY DEF TypeInv, TypeOK
<1>3. \A k : InQueue(k)' <=> InQueue(k) \/ k = j
  BY <1>2 DEF InQueue
<1>4. \A k : Held(k)' <=> Held(k)
  BY DEF Held, HoldsJob
<1>5. \A i \in 1 .. Len(queue) : queue[i] # j
  BY <1>1, <1>2 DEF InQueue
<1>6. \A i, k \in DOMAIN queue' : i # k => queue'[i] # queue'[k]
  BY <1>2, <1>5 DEF Placement, SingleExecution
<1>7. \A w \in Workers, i \in DOMAIN queue' : HoldsJob(w)' => queue'[i] # job'[w]
  BY <1>1, <1>2 DEF Placement, SingleExecution, HoldsJob, Held
<1>8. SingleExecution'
  BY <1>6, <1>7 DEF Placement, SingleExecution, HoldsJob
<1>. QED  BY <1>1, <1>3, <1>4, <1>8 DEF Placement

\* Taking the head of the queue, with or without keeping it.
LEMMA PlacementDequeue ==
    ASSUME TypeInv, Placement, NEW w \in Workers, Dequeue(w) \/ DequeueSkip(w)
    PROVE  Placement'
<1>. DEFINE h == Head(queue)
<1>1. /\ queue \in Seq(Jobs) /\ queue # <<>> /\ queue' = Tail(queue) /\ h \in Jobs
      /\ UNCHANGED <<journal, booting, submits>>
  BY DEF TypeInv, TypeOK, Dequeue, DequeueSkip
<1>2. /\ DOMAIN queue' = 1 .. Len(queue) - 1 /\ DOMAIN queue = 1 .. Len(queue)
      /\ \A i \in DOMAIN queue' : i + 1 \in DOMAIN queue /\ queue'[i] = queue[i + 1]
      /\ h = queue[1] /\ 1 \in DOMAIN queue
  BY <1>1
<1>3. \A i \in DOMAIN queue' : queue'[i] # h
  BY <1>2 DEF Placement, SingleExecution
<1>4. \A v \in Workers : HoldsJob(v) => job[v] # h
  BY <1>2 DEF Placement, SingleExecution
<1>5. \A v \in Workers : HoldsJob(v)' =>
          (HoldsJob(v) /\ job'[v] = job[v]) \/ (v = w /\ job'[v] = h)
  BY DEF TypeInv, TypeOK, Dequeue, DequeueSkip, Goto, HoldsJob, workerVars
<1>6. \A j : InQueue(j)' => InQueue(j)
  BY <1>2 DEF InQueue
<1>7. \A j : Held(j)' => Held(j) \/ j = h
  BY <1>5 DEF Held
<1>8. InQueue(h)
  BY <1>2 DEF InQueue
<1>9. \A i, k \in DOMAIN queue' : i # k => queue'[i] # queue'[k]
  BY <1>2 DEF Placement, SingleExecution
<1>10. \A v \in Workers, i \in DOMAIN queue' : HoldsJob(v)' => queue'[i] # job'[v]
  BY <1>2, <1>3, <1>5 DEF Placement, SingleExecution
<1>11. \A u, v \in Workers : HoldsJob(u)' /\ HoldsJob(v)' /\ u # v => job'[u] # job'[v]
  BY <1>4, <1>5 DEF Placement, SingleExecution
<1>12. SingleExecution'
  BY <1>9, <1>10, <1>11 DEF SingleExecution
<1>. HIDE DEF h
<1>. QED  BY <1>1, <1>6, <1>7, <1>8, <1>12 DEF Placement

\* Start takes up unfinished jobs when nothing else knows of any job.
LEMMA PlacementStart ==
    ASSUME TypeInv, DownIsEmpty, Start PROVE Placement'
<1>1. submits' = {} /\ queue' = <<>> /\ \A w \in Workers : ~HoldsJob(w)'
  BY DEF DownIsEmpty, Start, HoldsJob, SlotPCs
<1>2. \A j \in booting' : j \in Jobs /\ journal'[j] # "absent"
  BY DEF TypeInv, TypeOK, Start, Requeued, Unfinished, ListWorkerJobsByStatus
<1>3. \A j : ~InQueue(j)' /\ ~Held(j)'
  BY <1>1 DEF InQueue, Held
<1>4. SingleExecution'
  BY <1>1 DEF SingleExecution
<1>. QED  BY <1>1, <1>2, <1>3, <1>4 DEF Placement

LEMMA PlacementLost == ASSUME LoseMemory PROVE Placement'
<1>1. booting' = {} /\ submits' = {} /\ queue' = <<>> /\ \A w \in Workers : ~HoldsJob(w)'
  BY DEF LoseMemory, HoldsJob, SlotPCs
<1>2. \A j : ~InQueue(j)' /\ ~Held(j)'
  BY <1>1 DEF InQueue, Held
<1>3. SingleExecution'
  BY <1>1 DEF SingleExecution
<1>. QED  BY <1>1, <1>2, <1>3 DEF Placement

\* CreateJobAndRun refuses an id that exists, so a new job is nowhere yet.
LEMMA PlacementCreate ==
    ASSUME TypeInv, Placement, NEW j \in Jobs, SubmitCreate(j) PROVE Placement'
<1>1. journal[j] = "absent" /\ journal' = [journal EXCEPT ![j] = "queued"]
  BY DEF SubmitCreate, CreateJobAndRun
<1>2. j \notin booting /\ ~InQueue(j) /\ ~Held(j)
  BY <1>1 DEF Placement
<1>3. submits' = submits \cup {j} /\ UNCHANGED <<booting, queue, pc, job>>
  BY DEF SubmitCreate, workerVars
<1>4. \A k : (InQueue(k)' <=> InQueue(k)) /\ (Held(k)' <=> Held(k))
  BY <1>3 DEF InQueue, Held, HoldsJob
<1>5. SingleExecution'
  BY <1>3 DEF Placement, SingleExecution, HoldsJob
<1>6. \A k \in Jobs : journal'[k] = "absent" => k # j /\ journal[k] = "absent"
  BY <1>1 DEF TypeInv, TypeOK
<1>. QED  BY <1>2, <1>3, <1>4, <1>5, <1>6 DEF Placement

\* Apart from Dequeue, a worker's step leaves it with its job or without any.
LEMMA PlacementWorker ==
    ASSUME TypeInv, Placement, NEW w \in Workers, WorkerStep(w),
           ~Dequeue(w), ~DequeueSkip(w)
    PROVE  Placement'
<1>1. UNCHANGED <<booting, submits, queue>>
  BY DEF WorkerStep, WorkerExits, AcquireCampaign, AcquireAborted, SaveRunning,
     SaveRunningFails, Register, Deadline, RunFails, Finish, SaveResult, SaveFailed,
     SaveUnchecked, IngestSucceeds, IngestFails, PublishResult, Cleanup, ReleaseCampaign,
     schedVars
<1>2. \A v \in Workers : HoldsJob(v)' => HoldsJob(v) /\ job'[v] = job[v]
  BY DEF TypeInv, TypeOK, HoldsJob, SlotPCs, Goto, WorkerStep, WorkerExits, AcquireCampaign,
     AcquireAborted, SaveRunning, SaveRunningFails, Register, Deadline, RunFails, Finish,
     SaveResult, SaveFailed, SaveUnchecked, IngestSucceeds, IngestFails, PublishResult,
     Cleanup, ReleaseCampaign
<1>3. HoldsJob(w) => job[w] \in Jobs
  BY DEF TypeInv, WorkerState
<1>4. \A j \in Jobs : journal[j] # "absent" => journal'[j] # "absent"
  BY <1>3 DEF TypeInv, TypeOK, WorkerState, HoldsJob, SlotPCs, TerminalStatus, WorkerStep,
     WorkerExits, AcquireCampaign, AcquireAborted, SaveRunning, SaveRunningFails, Register,
     Deadline, RunFails, Finish, SaveResult, SaveFailed, SaveUnchecked, SaveJobAndRun,
     IngestSucceeds, IngestFails, PublishResult, Cleanup, ReleaseCampaign
<1>. QED  BY <1>1, <1>2, <1>4, PlacementShrinks

LEMMA PlacementStep ==
    ASSUME SafetyInv, Placement, Next PROVE Placement'
<1>. USE DEF SafetyInv
<1>1. CASE Start
  BY <1>1, PlacementStart
<1>2. CASE Crash \/ Exit
  BY <1>2, PlacementLost DEF Crash, Exit
<1>3. CASE StartFails
  <2>1. \A j \in Jobs : journal[j] # "absent" => journal'[j] # "absent"
    BY <1>3 DEF StartFails, Requeued, TypeInv, TypeOK
  <2>. QED  BY <1>3, <2>1, PlacementShrinks DEF StartFails, HoldsJob, schedVars, workerVars
<1>4. CASE Shutdown \/ StartReturns \/ Close
  <2>1. booting' \subseteq booting /\ UNCHANGED <<submits, queue, pc, job, journal>>
    BY <1>4 DEF Shutdown, StartReturns, Close, schedVars, workerVars
  <2>. QED  BY <2>1, PlacementShrinks DEF HoldsJob
<1>5. ASSUME NEW j \in Jobs, StartEnqueue(j) \/ SubmitEnqueue(j) PROVE Placement'
  BY <1>5, PlacementEnqueue DEF StartEnqueue, SubmitEnqueue, workerVars
<1>6. ASSUME NEW j \in Jobs, SubmitCreate(j) PROVE Placement'
  BY <1>6, PlacementCreate
<1>7. ASSUME NEW j \in Jobs, SubmitGivesUp(j) PROVE Placement'
  <2>1. submits' \subseteq submits /\ UNCHANGED <<booting, queue, pc, job, journal>>
    BY <1>7 DEF SubmitGivesUp, workerVars
  <2>. QED  BY <2>1, PlacementShrinks DEF HoldsJob
<1>8. ASSUME NEW w \in Workers, WorkerStep(w) PROVE Placement'
  BY <1>8, PlacementDequeue, PlacementWorker
<1>9. CASE \/ \E o \in Observers : WaitStep(o) \/ WaitGivesUp(o)
           \/ \E o \in Observers, j \in Jobs : WaitRead(o, j)
           \/ \E x \in Cancellers : CancelStep(x)
           \/ \E x \in Cancellers, j \in Jobs : CancelRead(x, j)
  <2>1. UNCHANGED <<booting, submits, queue, pc, job>>
    BY <1>9 DEF WaitStep, WaitRegister, WaitReread, WaitReceive, WaitGivesUp, WaitRead,
       CancelStep, CancelLookup, CancelSave, CancelSaveFails, CancelPublish, CancelRead,
       schedVars, workerVars
  <2>2. journal' = journal \/ \E j : journal' = [journal EXCEPT ![j] = "cancelled"]
    BY <1>9 DEF WaitStep, WaitRegister, WaitReread, WaitReceive, WaitGivesUp, WaitRead,
       CancelStep, CancelLookup, CancelSave, CancelSaveFails, CancelPublish, CancelRead,
       SaveJobAndRun
  <2>3. \A j \in Jobs : journal[j] # "absent" => journal'[j] # "absent"
    BY <2>2 DEF TypeInv, TypeOK
  <2>. QED  BY <2>1, <2>3, PlacementShrinks DEF HoldsJob
<1>. QED  BY <1>1, <1>2, <1>3, <1>4, <1>5, <1>6, <1>7, <1>8, <1>9 DEF Next, ProcStep, SubmitStep

LEMMA PlacementInvariant == Spec => []Placement
<1>1. Init => Placement
  <2>. SUFFICES ASSUME Init PROVE Placement
    OBVIOUS
  <2>1. booting = {} /\ submits = {} /\ queue = <<>> /\ \A w \in Workers : ~HoldsJob(w)
    BY DEF Init, HoldsJob, SlotPCs
  <2>2. \A j : ~InQueue(j) /\ ~Held(j)
    BY <2>1 DEF InQueue, Held
  <2>3. SingleExecution
    BY <2>1 DEF SingleExecution
  <2>. QED  BY <2>1, <2>2, <2>3 DEF Placement
<1>2. SafetyInv /\ Placement /\ [Next]_vars => Placement'
  <2>1. SafetyInv /\ Placement /\ Next => Placement'
    BY PlacementStep
  <2>2. SafetyInv /\ Placement /\ UNCHANGED vars => Placement'
    BY PlacementShrinks DEF SafetyInv, HoldsJob, vars, schedVars, workerVars
  <2>. QED  BY <2>1, <2>2
<1>. QED  BY <1>1, <1>2, SafetyInvariant, PTL DEF Spec

\* However submissions, recoveries, crashes and shutdowns interleave, a job id is
\* in one place at a time: no two workers of a process execute the same job.
THEOREM ExecutedOnce == Spec => []SingleExecution
<1>1. Placement => SingleExecution
  BY DEF Placement
<1>. QED  BY <1>1, PlacementInvariant, PTL

-----------------------------------------------------------------------------
(* Nothing queued is forgotten.  When journal calls succeed and the callers *)
(* of Submit stay, for any number of workers, cancellers and restarts.      *)

Calm == StoreFaults = FALSE /\ ClientsMayLeave = FALSE

\* A worker that has the job and has not yet written Running.
Taken(j) == \E w \in Workers : pc[w] \in {"acquire", "start"} /\ job[w] = j

Scheduled(j) == j \in booting \/ j \in submits \/ InQueue(j) \/ Taken(j)

\* From the listing in Start until the context ends; only Start itself has a
\* recovery list.
ScheduleInv ==
    /\ proc \in {"boot", "up"} /\ ~ctxDone =>
          \A j \in Jobs : journal[j] = "queued" => Scheduled(j)
    /\ proc # "boot" => booting = {}

\* A step that makes no job Queued and leaves each where it is, or further on.
LEMMA ScheduleKept ==
    ASSUME ScheduleInv, proc' = proc, ctxDone' = ctxDone, booting' \subseteq booting,
           \A j \in Jobs : journal'[j] = "queued" => journal[j] = "queued",
           \A j \in Jobs : journal'[j] = "queued" /\ Scheduled(j) => Scheduled(j)'
    PROVE  ScheduleInv'
  BY DEF ScheduleInv

\* The context is done, or the process is gone: nothing is promised.
LEMMA ScheduleEnds ==
    ASSUME ctxDone' \/ proc' \notin {"boot", "up"}, proc' # "boot" => booting' = {}
    PROVE  ScheduleInv'
  BY DEF ScheduleInv

LEMMA ScheduleQueue ==
    ASSUME TypeInv, ScheduleInv, NEW j \in Jobs, queue' = Append(queue, j),
           UNCHANGED <<proc, ctxDone, journal, pc, job>>,
           booting' \subseteq booting /\ booting \subseteq booting' \cup {j},
           submits \subseteq submits' \cup {j}
    PROVE  ScheduleInv'
<1>1. /\ queue \in Seq(Jobs) /\ DOMAIN queue' = 1 .. Len(queue) + 1
      /\ DOMAIN queue = 1 .. Len(queue)
      /\ \A i \in 1 .. Len(queue) : queue'[i] = queue[i]
      /\ queue'[Len(queue) + 1] = j /\ Len(queue) \in Nat
  BY DEF TypeInv, TypeOK
<1>2. \A k : InQueue(k) \/ k = j => InQueue(k)'
  BY <1>1 DEF InQueue
<1>3. \A k : Taken(k) => Taken(k)'
  BY DEF Taken
<1>4. \A k : Scheduled(k) => Scheduled(k)'
  BY <1>2, <1>3 DEF Scheduled
<1>. QED  BY <1>4, ScheduleKept

\* A worker takes the head of the queue, and drops it only if it is not Queued.
LEMMA ScheduleDequeue ==
    ASSUME Calm, TypeInv, ScheduleInv, ~ctxDone, NEW w \in Workers,
           Dequeue(w) \/ DequeueSkip(w)
    PROVE  ScheduleInv'
<1>1. /\ queue \in Seq(Jobs) /\ queue # <<>> /\ queue' = Tail(queue)
      /\ UNCHANGED <<proc, ctxDone, journal, booting, submits>> /\ pc[w] = "idle"
  BY DEF TypeInv, TypeOK, Dequeue, DequeueSkip, procVars
<1>2. PICK h : h = Head(queue)
  OBVIOUS
<1>3. /\ DOMAIN queue' = 1 .. Len(queue) - 1 /\ DOMAIN queue = 1 .. Len(queue)
      /\ Len(queue) \in Nat \ {0}
      /\ \A i \in DOMAIN queue' : queue'[i] = queue[i + 1]
      /\ h = queue[1]
  BY <1>1, <1>2
<1>4. ASSUME NEW k, InQueue(k), k # h  PROVE InQueue(k)'
  <2>1. PICK i \in 1 .. Len(queue) : queue[i] = k
    BY <1>3, <1>4 DEF InQueue
  <2>2. i # 1 /\ i - 1 \in DOMAIN queue' /\ (i - 1) + 1 = i
    BY <1>3, <1>4, <2>1
  <2>3. queue'[i - 1] = k
    BY <1>3, <2>1, <2>2
  <2>. QED  BY <2>2, <2>3 DEF InQueue
<1>5. \A v \in Workers \ {w} : pc'[v] = pc[v] /\ job'[v] = job[v]
  BY DEF TypeInv, TypeOK, Dequeue, DequeueSkip, Goto, workerVars
<1>6. \A k : Taken(k) => Taken(k)'
  BY <1>1, <1>5 DEF Taken
<1>7. journal[h] = "queued" => Taken(h)'
  <2>1. SUFFICES ASSUME journal[h] = "queued"  PROVE Taken(h)'
    OBVIOUS
  <2>2. Dequeue(w)
    BY <1>2, <2>1 DEF DequeueSkip, Calm
  <2>3. pc'[w] = "acquire" /\ job'[w] = h
    BY <1>2, <2>2 DEF Dequeue, Goto, TypeInv, TypeOK
  <2>. QED  BY <2>3 DEF Taken
<1>8. \A k \in Jobs : journal'[k] = "queued" /\ Scheduled(k) => Scheduled(k)'
  BY <1>1, <1>4, <1>6, <1>7 DEF Scheduled
<1>. QED  BY <1>1, <1>8, ScheduleKept

\* The other steps of a worker: Running is recorded for the job it took, or the
\* context has ended.
LEMMA ScheduleWorker ==
    ASSUME Calm, TypeInv, ScheduleInv, ~ctxDone, NEW w \in Workers, WorkerStep(w),
           ~Dequeue(w), ~DequeueSkip(w)
    PROVE  ScheduleInv'
<1>1. UNCHANGED <<proc, ctxDone, booting, submits, queue>>
  BY DEF WorkerStep, WorkerExits, AcquireCampaign, AcquireAborted, SaveRunning,
     SaveRunningFails, Register, Deadline, RunFails, Finish, SaveResult, SaveFailed,
     SaveUnchecked, IngestSucceeds, IngestFails, PublishResult, Cleanup, ReleaseCampaign,
     schedVars, procVars
<1>2. \A v \in Workers \ {w} : pc'[v] = pc[v] /\ job'[v] = job[v]
  BY DEF TypeInv, TypeOK, Goto, WorkerStep, WorkerExits, AcquireCampaign,
     AcquireAborted, SaveRunning, SaveRunningFails, Register, Deadline, RunFails, Finish,
     SaveResult, SaveFailed, SaveUnchecked, IngestSucceeds, IngestFails, PublishResult,
     Cleanup, ReleaseCampaign
<1>3. CASE SaveRunning(w)
  <2>1. job[w] \in Jobs /\ journal' = [journal EXCEPT ![job[w]] = "running"]
    BY <1>3 DEF TypeInv, WorkerState, HoldsJob, SlotPCs, SaveRunning, SaveJobAndRun
  <2>2. \A j \in Jobs : journal'[j] = "queued" => journal[j] = "queued" /\ j # job[w]
    BY <2>1 DEF TypeInv, TypeOK
  <2>3. \A j : Taken(j) /\ j # job[w] => Taken(j)'
    BY <1>2 DEF Taken
  <2>4. \A j \in Jobs : journal'[j] = "queued" /\ Scheduled(j) => Scheduled(j)'
    BY <1>1, <2>2, <2>3 DEF Scheduled, InQueue
  <2>. QED  BY <1>1, <2>2, <2>4, ScheduleKept
<1>4. CASE AcquireCampaign(w)
  <2>1. pc'[w] = "start" /\ job' = job /\ journal' = journal
    BY <1>4 DEF AcquireCampaign, Goto, TypeInv, TypeOK
  <2>2. \A j : Taken(j) => Taken(j)'
    BY <1>2, <2>1 DEF Taken
  <2>. QED  BY <1>1, <2>1, <2>2, ScheduleKept DEF Scheduled, InQueue
<1>5. CASE pc[w] \notin {"acquire", "start"}
  <2>1. \A j : Taken(j) => Taken(j)'
    BY <1>2, <1>5 DEF Taken
  <2>2. \A j \in Jobs : journal'[j] = "queued" => journal[j] = "queued"
    BY <1>5 DEF TypeInv, TypeOK, WorkerState, TerminalStatus, WorkerStep,
     WorkerExits, AcquireCampaign, AcquireAborted, SaveRunning, SaveRunningFails, Register,
     Deadline, RunFails, Finish, SaveResult, SaveFailed, SaveUnchecked, SaveJobAndRun,
     IngestSucceeds, IngestFails, PublishResult, Cleanup, ReleaseCampaign
  <2>. QED  BY <1>1, <2>1, <2>2, ScheduleKept DEF Scheduled, InQueue
<1>6. SaveRunning(w) \/ AcquireCampaign(w) \/ pc[w] \notin {"acquire", "start"}
  BY DEF Calm, WorkerStep, WorkerExits, AcquireAborted,
     SaveRunningFails, Register, Deadline, RunFails, Finish, SaveResult, SaveFailed,
     IngestSucceeds, IngestFails, PublishResult, Cleanup, ReleaseCampaign
<1>. QED  BY <1>3, <1>4, <1>5, <1>6

LEMMA ScheduleStep ==
    ASSUME Calm, SafetyInv, ScheduleInv, Next PROVE ScheduleInv'
<1>. USE DEF SafetyInv
<1>1. CASE Start
  <2>1. booting' = {j \in Jobs : journal[j] \in {"queued", "running"}} /\ proc' = "boot"
    BY <1>1 DEF Start, Unfinished, ListWorkerJobsByStatus
  <2>2. \A j \in Jobs : journal'[j] = "queued" => j \in booting'
    BY <1>1, <2>1 DEF Start, Requeued, Unfinished, ListWorkerJobsByStatus
  <2>. QED  BY <2>1, <2>2 DEF ScheduleInv, Scheduled
<1>2. CASE Crash \/ Exit
  BY <1>2, ScheduleEnds DEF Crash, Exit, LoseMemory
<1>3. CASE StartFails
  <2>1. proc' = "down" /\ booting' = {}
    BY <1>3 DEF StartFails, DownIsEmpty, schedVars
  <2>. QED  BY <2>1, ScheduleEnds
<1>4. CASE Shutdown \/ Close
  <2>1. ctxDone' /\ (proc' # "boot" => booting' = {})
    BY <1>4 DEF Shutdown, Close, schedVars, ScheduleInv
  <2>. QED  BY <2>1, ScheduleEnds
<1>5. CASE StartReturns
  <2>1. /\ proc = "boot" /\ booting = {} /\ proc' = "up"
        /\ UNCHANGED <<ctxDone, journal, booting, submits, queue, pc, job>>
    BY <1>5 DEF StartReturns, schedVars, workerVars
  <2>2. \A j : Scheduled(j) => Scheduled(j)'
    BY <2>1 DEF Scheduled, InQueue, Taken
  <2>. QED  BY <2>1, <2>2 DEF ScheduleInv
<1>6. ASSUME NEW j \in Jobs, StartEnqueue(j) \/ SubmitEnqueue(j) PROVE ScheduleInv'
  <2>1. /\ queue' = Append(queue, j) /\ UNCHANGED <<proc, ctxDone, journal, pc, job>>
        /\ booting' \subseteq booting /\ booting \subseteq booting' \cup {j}
        /\ submits \subseteq submits' \cup {j}
    BY <1>6 DEF StartEnqueue, SubmitEnqueue, procVars, workerVars
  <2>. QED  BY <2>1, ScheduleQueue
<1>7. ASSUME NEW j \in Jobs, SubmitCreate(j) PROVE ScheduleInv'
  <2>1. /\ journal' = [journal EXCEPT ![j] = "queued"] /\ submits' = submits \cup {j}
        /\ UNCHANGED <<proc, ctxDone, booting, queue, pc, job>>
    BY <1>7 DEF SubmitCreate, CreateJobAndRun, procVars, workerVars
  <2>2. \A k : Scheduled(k) \/ k = j => Scheduled(k)'
    BY <2>1 DEF Scheduled, InQueue, Taken
  <2>3. \A k \in Jobs : journal'[k] = "queued" => k = j \/ journal[k] = "queued"
    BY <2>1 DEF TypeInv, TypeOK
  <2>. QED  BY <2>1, <2>2, <2>3 DEF ScheduleInv
<1>8. ASSUME NEW j \in Jobs, SubmitGivesUp(j) PROVE ScheduleInv'
  <2>1. ctxDone /\ UNCHANGED <<proc, ctxDone, booting>>
    BY <1>8 DEF SubmitGivesUp, Calm, procVars
  <2>. QED  BY <2>1, ScheduleEnds DEF ScheduleInv
<1>9. ASSUME NEW w \in Workers, WorkerStep(w) PROVE ScheduleInv'
  <2>1. UNCHANGED <<proc, ctxDone, booting>>
    BY <1>9 DEF WorkerStep, WorkerExits, Dequeue, DequeueSkip, AcquireCampaign,
     AcquireAborted, SaveRunning, SaveRunningFails, Register, Deadline, RunFails, Finish,
     SaveResult, SaveFailed, SaveUnchecked, IngestSucceeds, IngestFails, PublishResult,
     Cleanup, ReleaseCampaign, schedVars, procVars
  <2>2. CASE ctxDone
    BY <2>1, <2>2, ScheduleEnds DEF ScheduleInv
  <2>3. CASE ~ctxDone
    BY <1>9, <2>3, ScheduleDequeue, ScheduleWorker
  <2>. QED  BY <2>2, <2>3 DEF TypeInv, TypeOK
<1>10. CASE \/ \E o \in Observers : WaitStep(o) \/ WaitGivesUp(o)
            \/ \E o \in Observers, j \in Jobs : WaitRead(o, j)
            \/ \E x \in Cancellers : CancelStep(x)
            \/ \E x \in Cancellers, j \in Jobs : CancelRead(x, j)
  <2>1. UNCHANGED <<proc, ctxDone, booting, submits, queue, pc, job>>
    BY <1>10 DEF WaitStep, WaitRegister, WaitReread, WaitReceive, WaitGivesUp, WaitRead,
       CancelStep, CancelLookup, CancelSave, CancelSaveFails, CancelPublish, CancelRead,
       schedVars, workerVars, procVars
  <2>2. journal' = journal \/ \E j : journal' = [journal EXCEPT ![j] = "cancelled"]
    BY <1>10 DEF WaitStep, WaitRegister, WaitReread, WaitReceive, WaitGivesUp, WaitRead,
       CancelStep, CancelLookup, CancelSave, CancelSaveFails, CancelPublish, CancelRead,
       SaveJobAndRun
  <2>3. \A j \in Jobs : journal'[j] = "queued" => journal[j] = "queued"
    BY <2>2 DEF TypeInv, TypeOK
  <2>4. \A j : Scheduled(j) => Scheduled(j)'
    BY <2>1 DEF Scheduled, InQueue, Taken
  <2>. QED  BY <2>1, <2>3, <2>4, ScheduleKept
<1>. QED  BY <1>1, <1>2, <1>3, <1>4, <1>5, <1>6, <1>7, <1>8, <1>9, <1>10
          DEF Next, ProcStep, SubmitStep

\* While the process serves, every job the journal shows as Queued is with a
\* Submit call, in the queue or with a worker about to run it: no interleaving of
\* Submit, the recovery in Start, crashes and Cancel strands one.  (A client that
\* leaves Submit, or a failing journal call, does: hence the hypothesis.)
THEOREM QueuedNotForgotten ==
  ASSUME Calm
  PROVE  Spec => []QueuedIsScheduled
<1>1. Init => ScheduleInv
  BY DEF Init, ScheduleInv
<1>2. SafetyInv /\ ScheduleInv /\ [Next]_vars => ScheduleInv'
  <2>1. SafetyInv /\ ScheduleInv /\ Next => ScheduleInv'
    BY ScheduleStep
  <2>2. ScheduleInv /\ UNCHANGED vars => ScheduleInv'
    BY ScheduleKept DEF vars, procVars, schedVars, workerVars, Scheduled, InQueue, Taken
  <2>. QED  BY <2>1, <2>2
<1>3. ScheduleInv => QueuedIsScheduled
  BY DEF ScheduleInv, QueuedIsScheduled, Scheduled, InQueue, Taken
<1>. QED  BY <1>1, <1>2, <1>3, SafetyInvariant, PTL DEF Spec

-----------------------------------------------------------------------------
(* What Wait returned stands.  Cancel judges a job by a status it read      *)
(* earlier and replaces a recorded result, and an unchecked save may have   *)
(* failed: what follows is for a broker that nobody cancels on and whose    *)
(* journal calls succeed, with clients that leave as they please.           *)

Undisturbed == StoreFaults = FALSE /\ Cancellers = {}

\* What the journal says of the job a worker is at work on.
HolderAt(w) ==
    /\ pc[w] \in {"acquire", "start"} => journal[job[w]] = "queued"
    /\ pc[w] \in {"register", "run", "save"} => journal[job[w]] = "running"
    /\ pc[w] = "failsave" => res[w] = "failed"
    /\ pc[w] \in {"callback", "publish"} => journal[job[w]] = res[w]

\* A call of Wait that has not begun has no channel; a channel holds, and a
\* finished call returned, the recorded status or one replaced by Failed since.
CallAt(o) ==
    /\ obs[o].pc = "idle" => box[o] = None /\ o \notin waiters
    /\ box[o] # None => journal[obs[o].job] \in {box[o], "failed"}
    /\ obs[o].pc = "done" => /\ obs[o].got \in TerminalStatus
                             /\ journal[obs[o].job] \in {obs[o].got, "failed"}

ResultInv ==
    /\ \A w \in Workers : HolderAt(w)
    /\ \A o \in Observers : CallAt(o)

\* A recorded result is replaced by Failed only.
Settled ==
    \A j \in Jobs : terminalRun(journal[j]) => journal'[j] \in {journal[j], "failed"}

\* The others hold other jobs, so a worker's save disturbs none of them.
LEMMA HoldersKept ==
    ASSUME TypeInv, SingleExecution, NEW w \in Workers, \A v \in Workers : HolderAt(v),
           \A v \in Workers \ {w} : pc'[v] = pc[v] /\ job'[v] = job[v] /\ res'[v] = res[v],
           journal' = journal \/ (HoldsJob(w) /\ \A j \in Jobs \ {job[w]} : journal'[j] = journal[j]),
           HolderAt(w)'
    PROVE  \A v \in Workers : HolderAt(v)'
<1>1. ASSUME NEW v \in Workers \ {w}  PROVE HolderAt(v)'
  <2>1. pc'[v] = pc[v] /\ job'[v] = job[v] /\ res'[v] = res[v] /\ HolderAt(v)
    OBVIOUS
  <2>2. CASE HoldsJob(v)
    <3>1. job[v] \in Jobs
      BY <2>2 DEF TypeInv, WorkerState
    <3>2. HoldsJob(w) => job[v] # job[w]
      BY <2>2 DEF SingleExecution
    <3>3. journal'[job[v]] = journal[job[v]]
      BY <3>1, <3>2
    <3>. QED  BY <2>1, <3>3 DEF HolderAt
  <2>3. CASE ~HoldsJob(v)
    BY <2>1, <2>3 DEF HolderAt, HoldsJob, SlotPCs
  <2>. QED  BY <2>2, <2>3
<1>. QED  BY <1>1

\* A step of one worker, action by action.
LEMMA HolderMoves ==
    ASSUME Undisturbed, TypeInv, NEW w \in Workers, HolderAt(w), WorkerStep(w)
    PROVE  HolderAt(w)'
<1>. USE DEF TypeInv, TypeOK, HolderAt, Goto
<1>0. HoldsJob(w) => job[w] \in Jobs
  BY DEF WorkerState
<1>1. CASE WorkerExits(w) \/ AcquireAborted(w) \/ Cleanup(w) \/ ReleaseCampaign(w)
           \/ PublishResult(w) \/ SaveRunningFails(w)
  <2>1. pc'[w] \in {"off", "release", "idle", "cleanup"}
    BY <1>1 DEF WorkerExits, AcquireAborted, Cleanup, ReleaseCampaign, PublishResult,
           SaveRunningFails
  <2>. QED  BY <2>1
<1>2. CASE Dequeue(w)
  <2>1. pc'[w] = "acquire" /\ job'[w] = Head(queue) /\ journal' = journal
        /\ journal[Head(queue)] = "queued"
    BY <1>2 DEF Dequeue
  <2>. QED  BY <2>1
<1>3. CASE DequeueSkip(w)
  BY <1>3 DEF DequeueSkip, workerVars
<1>4. CASE AcquireCampaign(w)
  <2>1. pc'[w] = "start" /\ pc[w] = "acquire" /\ journal' = journal /\ job' = job
    BY <1>4 DEF AcquireCampaign
  <2>. QED  BY <2>1
<1>5. CASE SaveRunning(w)
  <2>1. pc'[w] = "register" /\ job' = job /\ journal'[job[w]] = "running"
    BY <1>0, <1>5 DEF SaveRunning, SaveJobAndRun, HoldsJob, SlotPCs
  <2>. QED  BY <2>1
<1>6. CASE Register(w) \/ Deadline(w)
  <2>1. pc'[w] = "run" /\ pc[w] \in {"register", "run"} /\ job' = job /\ journal' = journal
    BY <1>6 DEF Register, Deadline
  <2>. QED  BY <2>1
<1>7. CASE RunFails(w) \/ IngestFails(w)
  <2>1. pc'[w] = "failsave" /\ res'[w] = "failed"
    BY <1>7 DEF RunFails, IngestFails
  <2>. QED  BY <2>1
<1>8. CASE Finish(w)
  <2>1. pc'[w] = "save" /\ pc[w] = "run" /\ job' = job /\ journal' = journal
    BY <1>8 DEF Finish
  <2>. QED  BY <2>1
<1>9. CASE SaveResult(w) \/ SaveFailed(w)
  <2>1. /\ pc'[w] \in {"callback", "publish"} /\ job' = job /\ res' = res
        /\ journal'[job[w]] = res[w]
    BY <1>0, <1>9 DEF Undisturbed, SaveResult, SaveFailed, SaveUnchecked, SaveJobAndRun,
       HoldsJob, SlotPCs
  <2>. QED  BY <2>1
<1>10. CASE IngestSucceeds(w)
  <2>1. /\ pc'[w] = "publish" /\ pc[w] = "callback" /\ job' = job /\ res' = res
        /\ journal' = journal
    BY <1>10 DEF IngestSucceeds
  <2>. QED  BY <2>1
<1>. QED  BY <1>1, <1>2, <1>3, <1>4, <1>5, <1>6, <1>7, <1>8, <1>9, <1>10 DEF WorkerStep

\* Which jobs a worker's step writes, and over what.
LEMMA WorkerWrites ==
    ASSUME Undisturbed, TypeInv, NEW w \in Workers, HolderAt(w), WorkerStep(w)
    PROVE  /\ \A v \in Workers \ {w} : pc'[v] = pc[v] /\ job'[v] = job[v] /\ res'[v] = res[v]
           /\ \/ journal' = journal
              \/ HoldsJob(w) /\ \A j \in Jobs \ {job[w]} : journal'[j] = journal[j]
           /\ Settled
<1>1. \A v \in Workers \ {w} : pc'[v] = pc[v] /\ job'[v] = job[v] /\ res'[v] = res[v]
  BY DEF TypeInv, TypeOK, Goto, WorkerStep, WorkerExits, Dequeue, DequeueSkip,
     AcquireCampaign, AcquireAborted, SaveRunning, SaveRunningFails, Register, Deadline,
     RunFails, Finish, SaveResult, SaveFailed, SaveUnchecked, IngestSucceeds, IngestFails,
     PublishResult, Cleanup, ReleaseCampaign, workerVars
<1>2. CASE SaveRunning(w) \/ SaveResult(w) \/ SaveFailed(w)
  <2>1. HoldsJob(w) /\ job[w] \in Jobs
    BY <1>2 DEF TypeInv, WorkerState, HoldsJob, SlotPCs, SaveRunning, SaveResult, SaveFailed
  <2>2. PICK s : journal' = [journal EXCEPT ![job[w]] = s]
                 /\ (terminalRun(journal[job[w]]) => s = "failed")
    BY <1>2 DEF Undisturbed, HolderAt, SaveRunning, SaveResult, SaveFailed, SaveUnchecked,
       SaveJobAndRun, terminalRun, TerminalStatus
  <2>3. \A j \in Jobs : journal'[j] = IF j = job[w] THEN s ELSE journal[j]
    BY <2>1, <2>2 DEF TypeInv, TypeOK
  <2>. QED  BY <1>1, <2>1, <2>2, <2>3 DEF Settled
<1>3. CASE ~(SaveRunning(w) \/ SaveResult(w) \/ SaveFailed(w))
  <2>1. journal' = journal
    BY <1>3 DEF WorkerStep, WorkerExits, Dequeue, DequeueSkip, AcquireCampaign,
       AcquireAborted, SaveRunningFails, Register, Deadline, RunFails, Finish,
       IngestSucceeds, IngestFails, PublishResult, Cleanup, ReleaseCampaign
  <2>. QED  BY <1>1, <2>1 DEF Settled
<1>. QED  BY <1>2, <1>3

\* A status that is terminal and was true stays true.
LEMMA StatusStands ==
    ASSUME Settled, NEW j \in Jobs, NEW s \in TerminalStatus, journal[j] \in {s, "failed"}
    PROVE  journal'[j] \in {s, "failed"}
  BY DEF Settled, terminalRun, TerminalStatus

LEMMA CallsStand ==
    ASSUME TypeInv, Settled, NEW o \in Observers, CallAt(o), obs'[o] = obs[o],
           box'[o] = box[o], o \in waiters' => o \in waiters
    PROVE  CallAt(o)'
<1>1. obs[o].pc # "idle" => obs[o].job \in Jobs
  BY DEF TypeInv, CallState
<1>2. box[o] # None => obs[o].pc # "idle" /\ box[o] \in TerminalStatus
  BY DEF TypeInv, TypeOK, CallAt
<1>3. box[o] # None => journal'[obs[o].job] \in {box[o], "failed"}
  BY <1>1, <1>2, StatusStands DEF CallAt
<1>4. obs[o].pc = "done" => journal'[obs[o].job] \in {obs[o].got, "failed"}
  BY <1>1, StatusStands DEF CallAt
<1>. QED  BY <1>3, <1>4 DEF CallAt

\* publish tells each waiting call the status that was recorded before it.
LEMMA PublishTrue ==
    ASSUME TypeInv, NEW w \in Workers, HolderAt(w), PublishResult(w),
           NEW o \in Observers, CallAt(o)
    PROVE  CallAt(o)'
<1>1. journal' = journal /\ obs' = obs /\ journal[job[w]] = res[w]
  BY DEF PublishResult, Publish, HolderAt
<1>2. Settled
  BY <1>1 DEF Settled
<1>3. CASE o \in waiters /\ obs[o].job = job[w]
  <2>1. box'[o] = res[w] /\ obs[o].pc # "idle"
    BY <1>3 DEF PublishResult, Publish, CallAt
  <2>. QED  BY <1>1, <1>3, <2>1 DEF CallAt
<1>4. CASE ~(o \in waiters /\ obs[o].job = job[w])
  <2>1. box'[o] = box[o] /\ (o \in waiters' => o \in waiters)
    BY <1>4 DEF PublishResult, Publish
  <2>. QED  BY <1>1, <1>2, <2>1, CallsStand
<1>. QED  BY <1>3, <1>4

\* A step of Wait: the first read, the second and the channel all give what the
\* journal holds, or held before Failed replaced it.
LEMMA WaitTrue ==
    ASSUME TypeInv, NEW o \in Observers, CallAt(o), NEW j \in Jobs,
           WaitStep(o) \/ WaitGivesUp(o) \/ WaitRead(o, j)
    PROVE  CallAt(o)'
<1>1. journal' = journal /\ box' = box /\ obs[o] \in WaitCall
  BY DEF WaitStep, WaitGivesUp, WaitRead, WaitRegister, WaitReread, WaitReceive,
     TypeInv, TypeOK
<1>2. CASE WaitRegister(o) \/ WaitGivesUp(o)
           \/ (WaitReread(o) /\ ~terminalRun(journal[obs[o].job]))
  <2>1. PICK p \in {"reread", "wait", "left"} :
           obs[o].pc # "idle" /\ obs' = [obs EXCEPT ![o].pc = p]
    BY <1>2 DEF WaitRegister, WaitGivesUp, WaitReread
  <2>2. obs'[o].pc = p /\ obs'[o].job = obs[o].job
    BY <1>1, <2>1 DEF TypeInv, TypeOK, WaitCall
  <2>. QED  BY <1>1, <2>1, <2>2 DEF CallAt
<1>3. CASE WaitReread(o) /\ terminalRun(journal[obs[o].job])
  <2>1. /\ obs'[o].pc = "done" /\ obs'[o].job = obs[o].job
        /\ obs'[o].got = journal[obs[o].job] /\ journal[obs[o].job] \in TerminalStatus
    BY <1>3 DEF WaitReread, Answered, TypeInv, TypeOK, terminalRun
  <2>. QED  BY <1>1, <2>1 DEF CallAt
<1>4. CASE WaitReceive(o)
  <2>1. /\ obs'[o].pc = "done" /\ obs'[o].job = obs[o].job /\ obs'[o].got = box[o]
        /\ box[o] # None /\ box[o] \in TerminalStatus
    BY <1>4 DEF WaitReceive, Answered, TypeInv, TypeOK
  <2>. QED  BY <1>1, <2>1 DEF CallAt
<1>5. CASE WaitRead(o, j)
  <2>1. obs[o].pc = "idle" /\ waiters' = waiters
    BY <1>5 DEF WaitRead
  <2>2. CASE terminalRun(journal[j])
    <3>1. obs'[o].pc = "done" /\ obs'[o].job = j /\ obs'[o].got = journal[j]
      BY <1>5, <2>2 DEF WaitRead, TypeInv, TypeOK
    <3>. QED  BY <1>1, <2>1, <2>2, <3>1 DEF CallAt, terminalRun
  <2>3. CASE ~terminalRun(journal[j])
    <3>1. obs'[o].pc = "register"
      BY <1>5, <2>3 DEF WaitRead, TypeInv, TypeOK
    <3>. QED  BY <1>1, <2>1, <3>1 DEF CallAt
  <2>. QED  BY <2>2, <2>3
<1>. QED  BY <1>2, <1>3, <1>4, <1>5 DEF WaitStep

\* A step of the process or of Submit that leaves the workers and calls alone.
LEMMA ResultKept ==
    ASSUME TypeInv, ResultInv, Settled, UNCHANGED waitVars,
           \A w \in Workers : pc'[w] \in {"off", "idle"} \/
               (/\ pc'[w] = pc[w] /\ job'[w] = job[w] /\ res'[w] = res[w]
                /\ HoldsJob(w) => journal'[job[w]] = journal[job[w]])
    PROVE  ResultInv'
<1>1. \A o \in Observers : CallAt(o)'
  BY CallsStand DEF ResultInv, waitVars
<1>2. ASSUME NEW w \in Workers  PROVE HolderAt(w)'
  <2>1. CASE pc'[w] \in {"off", "idle"}
    BY <2>1 DEF HolderAt
  <2>2. CASE /\ pc'[w] = pc[w] /\ job'[w] = job[w] /\ res'[w] = res[w]
             /\ HoldsJob(w) => journal'[job[w]] = journal[job[w]]
    BY <2>2 DEF ResultInv, HolderAt, HoldsJob, SlotPCs
  <2>. QED  BY <2>1, <2>2
<1>. QED  BY <1>1, <1>2 DEF ResultInv

LEMMA ResultStep ==
    ASSUME Undisturbed, SafetyInv, Placement, ResultInv, Next PROVE ResultInv'
<1>. USE DEF SafetyInv
<1>1. CASE Start \/ StartFails
  <2>1. PICK R : journal' = Requeued(R)
    BY <1>1 DEF Start, StartFails
  <2>2. Settled
    BY <2>1 DEF Requeued, Settled, terminalRun, TerminalStatus
  <2>3. UNCHANGED waitVars /\ \A w \in Workers : pc'[w] \in {"off", "idle"}
    BY <1>1 DEF Start, StartFails, DownIsEmpty, workerVars
  <2>. QED  BY <2>2, <2>3, ResultKept
<1>2. CASE Crash \/ Exit
  <2>1. LoseMemory
    BY <1>2 DEF Crash, Exit
  <2>2. \A w \in Workers : HolderAt(w)'
    BY <2>1 DEF LoseMemory, HolderAt
  <2>3. \A o \in Observers : CallAt(o)'
    BY <2>1 DEF LoseMemory, CallAt, IdleObs
  <2>. QED  BY <2>2, <2>3 DEF ResultInv
<1>3. CASE \/ Shutdown \/ StartReturns \/ Close
           \/ \E j \in Jobs : StartEnqueue(j) \/ SubmitStep(j)
  <2>1. UNCHANGED <<journal, pc, job, res>> /\ UNCHANGED waitVars
    BY <1>3 DEF Shutdown, StartReturns, Close, StartEnqueue, SubmitStep, SubmitEnqueue,
       SubmitGivesUp, workerVars
  <2>2. Settled
    BY <2>1 DEF Settled
  <2>. QED  BY <2>1, <2>2, ResultKept
<1>4. ASSUME NEW j \in Jobs, SubmitCreate(j)  PROVE ResultInv'
  <2>1. /\ journal[j] = "absent" /\ journal' = [journal EXCEPT ![j] = "queued"]
        /\ UNCHANGED <<pc, job, res>> /\ UNCHANGED waitVars
    BY <1>4 DEF SubmitCreate, CreateJobAndRun, workerVars
  <2>2. ~Held(j)
    BY <2>1 DEF Placement
  <2>3. \A w \in Workers : HoldsJob(w) => journal'[job[w]] = journal[job[w]]
    BY <2>1, <2>2 DEF Held, TypeInv, TypeOK, WorkerState
  <2>4. Settled
    BY <2>1 DEF Settled, terminalRun, TerminalStatus, TypeInv, TypeOK
  <2>. QED  BY <2>1, <2>3, <2>4, ResultKept
<1>5. ASSUME NEW w \in Workers, WorkerStep(w)  PROVE ResultInv'
  <2>1. HolderAt(w) /\ SingleExecution /\ \A v \in Workers : HolderAt(v)
    BY DEF ResultInv, Placement
  <2>2. /\ HolderAt(w)' /\ Settled
        /\ \A v \in Workers \ {w} : pc'[v] = pc[v] /\ job'[v] = job[v] /\ res'[v] = res[v]
        /\ \/ journal' = journal
           \/ HoldsJob(w) /\ \A j \in Jobs \ {job[w]} : journal'[j] = journal[j]
    BY <1>5, <2>1, HolderMoves, WorkerWrites
  <2>3. \A v \in Workers : HolderAt(v)'
    BY <2>1, <2>2, HoldersKept
  <2>4. CASE PublishResult(w)
    BY <2>1, <2>3, <2>4, PublishTrue DEF ResultInv
  <2>5. CASE ~PublishResult(w)
    <3>1. UNCHANGED waitVars
      BY <1>5, <2>5 DEF WorkerStep, WorkerExits, Dequeue, DequeueSkip, AcquireCampaign,
         AcquireAborted, SaveRunning, SaveRunningFails, Register, Deadline, RunFails, Finish,
         SaveResult, SaveFailed, SaveUnchecked, IngestSucceeds, IngestFails, Cleanup,
         ReleaseCampaign
    <3>2. \A o \in Observers : CallAt(o)'
      BY <2>2, <3>1, CallsStand DEF ResultInv, waitVars
    <3>. QED  BY <2>3, <3>2 DEF ResultInv
  <2>. QED  BY <2>4, <2>5
<1>6. ASSUME NEW o \in Observers, NEW j \in Jobs,
             WaitStep(o) \/ WaitGivesUp(o) \/ WaitRead(o, j)
      PROVE  ResultInv'
  <2>1. /\ UNCHANGED <<journal, pc, job, res, box>>
        /\ \A p \in Observers \ {o} : obs'[p] = obs[p] /\ (p \in waiters' => p \in waiters)
    BY <1>6 DEF WaitStep, WaitGivesUp, WaitRead, WaitRegister, WaitReread, WaitReceive,
       TypeInv, TypeOK, workerVars
  <2>2. Settled
    BY <2>1 DEF Settled
  <2>3. CallAt(o)'
    BY <1>6, WaitTrue DEF ResultInv
  <2>4. \A p \in Observers : CallAt(p)'
    BY <2>1, <2>2, <2>3, CallsStand DEF ResultInv
  <2>5. \A w \in Workers : HolderAt(w)'
    BY <2>1 DEF ResultInv, HolderAt
  <2>. QED  BY <2>4, <2>5 DEF ResultInv
<1>7. ASSUME NEW o \in Observers, WaitStep(o) \/ WaitGivesUp(o)  PROVE ResultInv'
  <2>1. obs[o].job \in Jobs
    BY <1>7 DEF TypeInv, CallState, WaitStep, WaitGivesUp, WaitRegister, WaitReread,
       WaitReceive
  <2>. QED  BY <1>6, <1>7, <2>1
<1>. QED  BY <1>1, <1>2, <1>3, <1>4, <1>5, <1>6, <1>7 DEF Next, ProcStep, Undisturbed

\* When nobody cancels and journal calls succeed, the status Wait returned is the
\* recorded one for good, through crashes, restarts and leaving clients; only the
\* second checkpoint of a failed ingestion may turn it into Failed.
THEOREM WaitTruthful ==
  ASSUME Undisturbed
  PROVE  Spec => []WaitResultStands
<1>1. Init => ResultInv
  BY DEF Init, ResultInv, HolderAt, CallAt, IdleObs
<1>2. SafetyInv /\ Placement /\ ResultInv /\ [Next]_vars => ResultInv'
  <2>1. SafetyInv /\ Placement /\ ResultInv /\ Next => ResultInv'
    BY ResultStep
  <2>2. ResultInv /\ UNCHANGED vars => ResultInv'
    BY DEF vars, workerVars, waitVars, ResultInv, HolderAt, CallAt
  <2>. QED  BY <2>1, <2>2
<1>3. ResultInv => WaitResultStands
  BY DEF ResultInv, CallAt, WaitResultStands
<1>. QED  BY <1>1, <1>2, <1>3, SafetyInvariant, PlacementInvariant, PTL DEF Spec
=============================================================================
