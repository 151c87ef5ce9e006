------------------------------- MODULE Broker -------------------------------
(***************************************************************************)
(* The research job broker of internal/research/runner/runner.go: durable  *)
(* jobs, a bounded in-memory queue, a pool of worker goroutines with a     *)
(* per-campaign concurrency limit, Wait observers, Cancel callers, clean   *)
(* shutdown, crash and restart recovery.                                   *)
(*                                                                         *)
(* A worker job and its public run record are written by one transaction   *)
(* everywhere (CreateJobAndRun, SaveJobAndRun), so one status per job      *)
(* stands for both.  Jobs are numbered in the order they are created.      *)
(***************************************************************************)
EXTENDS Integers, Sequences, FiniteSets

CONSTANTS
    MaxJobs,              \* bound: jobs ever submitted
    Workers,              \* worker goroutines (Options.GlobalConcurrency)
    Observers,            \* callers of Wait
    Cancellers,           \* callers of Cancel
    Campaigns,
    CampaignOf,           \* the campaign each job belongs to
    CampaignConcurrency,  \* Options.CampaignConcurrency
    QueueCap,             \* capacity of the queue channel (1024 in the code)
    MaxRestarts,          \* bound: crashes and shutdowns
    ClientsMayLeave,      \* request contexts may be cancelled
    StoreFaults,          \* journal calls may fail
    None                  \* the nil job, worker, or result

Jobs == 1 .. MaxJobs

ASSUME BrokerAssumption ==
    /\ MaxJobs \in Nat
    /\ IsFiniteSet(Workers)
    /\ CampaignOf \in [Jobs -> Campaigns]
    /\ CampaignConcurrency \in Nat \ {0}
    /\ QueueCap \in Nat \ {0}
    /\ MaxRestarts \in Nat
    /\ ClientsMayLeave \in BOOLEAN
    /\ StoreFaults \in BOOLEAN
    /\ None \notin Jobs \cup Workers

VARIABLES
    proc,      \* the process: down, boot (inside Start), up, closing
    ctxDone,   \* the broker context b.ctx is cancelled
    restarts,  \* crashes and shutdowns so far
    journal,   \* durable status of each job
    booting,   \* queuedIDs that Start has still to enqueue
    submits,   \* Submit calls between CreateJobAndRun and their select
    queue,     \* b.queue
    pc,        \* where each worker goroutine is
    job,       \* the job a worker fetched, as it was when fetched
    jobCtx,    \* jobCtx.Err() apart from the broker's own cancellation
    res,       \* the status a worker is about to record and publish
    active,    \* b.campaignActive
    cancels,   \* b.cancels: the worker whose context a job's entry cancels
    waiters,   \* b.waiters: the observers whose channel is registered
    box,       \* the buffered result channel of each observer
    obs,       \* each Wait call: program counter, job, returned status
    can        \* each Cancel call: program counter, job, status it read

procVars   == <<proc, ctxDone, restarts>>
schedVars  == <<booting, submits, queue>>
workerVars == <<pc, job, jobCtx, res>>
waitVars   == <<waiters, box, obs>>
vars == <<procVars, journal, schedVars, workerVars, active, cancels, waitVars, can>>

-----------------------------------------------------------------------------
(* Status values and program counters. *)

TerminalStatus == {"completed", "failed", "cancelled", "timed_out"}
Status == {"absent", "queued", "running"} \cup TerminalStatus

terminalRun(status) == status \in TerminalStatus

\* Program counters of a worker that has taken a campaign slot.
SlotPCs == {"start", "register", "run", "save", "failsave", "callback",
            "publish", "cleanup", "release"}
WorkerPCs == {"off", "idle", "acquire"} \cup SlotPCs

\* A call of Wait, and one of Cancel.
WaitCall == [pc : {"idle", "register", "reread", "wait", "left", "done"},
             job : Jobs \cup {None}, got : TerminalStatus \cup {None}]
CancelCall == [pc : {"idle", "lookup", "save", "publish"},
               job : Jobs \cup {None}, seen : Status \cup {None}]

IdleObs == [pc |-> "idle", job |-> None, got |-> None]
IdleCan == [pc |-> "idle", job |-> None, seen |-> None]

HoldsJob(w)  == pc[w] \in SlotPCs \cup {"acquire"}
Executing(w) == pc[w] \in SlotPCs

\* The workers that hold a slot of campaign c.
SlotHolders(c) == {w \in Workers : Executing(w) /\ CampaignOf[job[w]] = c}

\* jobCtx is derived from b.ctx: whichever is cancelled first decides Err().
jobErr(w) == IF jobCtx[w] = "live" /\ ctxDone THEN "canceled" ELSE jobCtx[w]

-----------------------------------------------------------------------------
Init ==
    /\ proc = "down" /\ ctxDone = FALSE /\ restarts = 0
    /\ journal = [j \in Jobs |-> "absent"]
    /\ booting = {} /\ submits = {} /\ queue = <<>>
    /\ pc = [w \in Workers |-> "off"]
    /\ job = [w \in Workers |-> None]
    /\ jobCtx = [w \in Workers |-> "live"]
    /\ res = [w \in Workers |-> None]
    /\ active = [c \in Campaigns |-> 0]
    /\ cancels = [j \in Jobs |-> None]
    /\ waiters = {} /\ box = [o \in Observers |-> None]
    /\ obs = [o \in Observers |-> IdleObs]
    /\ can = [x \in Cancellers |-> IdleCan]

-----------------------------------------------------------------------------
(* The journal calls of internal/research/store: each is one transaction. *)

CreateJobAndRun(j) ==
    /\ journal[j] = "absent"
    /\ journal' = [journal EXCEPT ![j] = "queued"]

\* An upsert: it never looks at the status it replaces.
SaveJobAndRun(j, status) == journal' = [journal EXCEPT ![j] = status]

ListWorkerJobsByStatus(statuses) == {j \in Jobs : journal[j] \in statuses}

-----------------------------------------------------------------------------
(* Process lifecycle. *)

\* Everything but the journal lives in the process.
LoseMemory ==
    /\ proc' = "down" /\ ctxDone' = FALSE
    /\ booting' = {} /\ submits' = {} /\ queue' = <<>>
    /\ pc' = [w \in Workers |-> "off"]
    /\ job' = [w \in Workers |-> None]
    /\ jobCtx' = [w \in Workers |-> "live"]
    /\ res' = [w \in Workers |-> None]
    /\ active' = [c \in Campaigns |-> 0]
    /\ cancels' = [j \in Jobs |-> None]
    /\ waiters' = {} /\ box' = [o \in Observers |-> None]
    /\ obs' = [o \in Observers |-> IdleObs]
    /\ can' = [x \in Cancellers |-> IdleCan]

Unfinished == ListWorkerJobsByStatus({"queued", "running"})

\* The recovery loop over ListWorkerJobsByStatus(Queued, Running), which puts
\* interrupted jobs back to Queued.
Requeued(jobs) == [j \in Jobs |->
    IF j \in jobs /\ journal[j] = "running" THEN "queued" ELSE journal[j]]

\* Mutant: recovery lists only the jobs left Queued.
StartForgetsInterrupted ==
    /\ proc = "down"
    /\ proc' = "boot"
    /\ journal' = journal
    /\ booting' = ListWorkerJobsByStatus({"queued"})
    /\ pc' = [w \in Workers |-> "idle"]
    /\ UNCHANGED <<ctxDone, restarts, submits, queue, job, jobCtx, res, active,
                   cancels, waitVars, can>>

\* Start up to the launch of the workers.  Nothing else runs in the process
\* until Start returns, so the loop is one step; a crash inside it is
\* StartFails.
Start ==
    /\ proc = "down"
    /\ proc' = "boot"
    /\ journal' = Requeued(Unfinished)
    /\ booting' = Unfinished
    /\ pc' = [w \in Workers |-> "idle"]
    /\ UNCHANGED <<ctxDone, restarts, submits, queue, job, jobCtx, res, active,
                   cancels, waitVars, can>>

\* The recovery loop stops at a journal error or a crash part way through, in
\* the ORDER BY created_at of the listing.
StartFails ==
    /\ proc = "down"
    /\ restarts < MaxRestarts
    /\ restarts' = restarts + 1
    /\ \E last \in Jobs : journal' = Requeued({j \in Unfinished : j <= last})
    /\ UNCHANGED <<proc, ctxDone, schedVars, workerVars, active, cancels,
                   waitVars, can>>

\* Start feeds the recovered jobs to the running workers, oldest first, and
\* blocks while the channel is full.
StartEnqueue(j) ==
    /\ proc = "boot"
    /\ j \in booting /\ \A k \in booting : j <= k
    /\ Len(queue) < QueueCap
    /\ queue' = Append(queue, j)
    /\ booting' = booting \ {j}
    /\ UNCHANGED <<procVars, journal, submits, workerVars, active, cancels,
                   waitVars, can>>

\* Mutant: Start reports success before it has enqueued what it recovered.
StartReturnsEarly ==
    /\ proc = "boot"
    /\ proc' = "up"
    /\ UNCHANGED <<ctxDone, restarts, journal, schedVars, workerVars, active,
                   cancels, waitVars, can>>

StartReturns ==
    /\ proc = "boot" /\ booting = {}
    /\ proc' = "up"
    /\ UNCHANGED <<ctxDone, restarts, journal, schedVars, workerVars, active,
                   cancels, waitVars, can>>

\* The signal that cancels the server context cancels b.ctx with it.
Shutdown ==
    /\ proc \in {"boot", "up"} /\ ~ctxDone
    /\ restarts < MaxRestarts
    /\ restarts' = restarts + 1
    /\ ctxDone' = TRUE
    /\ UNCHANGED <<proc, journal, schedVars, workerVars, active, cancels,
                   waitVars, can>>

\* Close, from Server.Close after the listener stopped, or from Start when the
\* context ends while it enqueues.
Close ==
    /\ proc \in {"boot", "up"} /\ ctxDone
    /\ proc' = "closing"
    /\ booting' = {}
    /\ UNCHANGED <<ctxDone, restarts, journal, submits, queue, workerVars,
                   active, cancels, waitVars, can>>

\* Close returns when wg.Wait does; the process ends.
Exit ==
    /\ proc = "closing"
    /\ \A w \in Workers : pc[w] = "off"
    /\ LoseMemory
    /\ UNCHANGED <<restarts, journal>>

Crash ==
    /\ proc # "down"
    /\ restarts < MaxRestarts
    /\ restarts' = restarts + 1
    /\ LoseMemory
    /\ UNCHANGED journal

-----------------------------------------------------------------------------
(* Submit. *)

SubmitCreate(j) ==
    /\ proc = "up"
    /\ \A k \in Jobs : k < j => journal[k] # "absent"
    /\ CreateJobAndRun(j)
    /\ submits' = submits \cup {j}
    /\ UNCHANGED <<procVars, booting, queue, workerVars, active, cancels,
                   waitVars, can>>

\* Mutant: the enqueue is retried although the first attempt succeeded.
SubmitEnqueueTwice(j) ==
    /\ j \in submits
    /\ Len(queue) < QueueCap
    /\ queue' = Append(queue, j)
    /\ submits' \in {submits, submits \ {j}}
    /\ UNCHANGED <<procVars, journal, booting, workerVars, active, cancels,
                   waitVars, can>>

SubmitEnqueue(j) ==
    /\ j \in submits
    /\ Len(queue) < QueueCap
    /\ queue' = Append(queue, j)
    /\ submits' = submits \ {j}
    /\ UNCHANGED <<procVars, journal, booting, workerVars, active, cancels,
                   waitVars, can>>

\* The caller's context or the broker's ends while the queue is full (or the
\* select simply picks that case): the job stays durable and unqueued.
SubmitGivesUp(j) ==
    /\ j \in submits
    /\ ctxDone \/ ClientsMayLeave
    /\ submits' = submits \ {j}
    /\ UNCHANGED <<procVars, journal, booting, queue, workerVars, active,
                   cancels, waitVars, can>>

-----------------------------------------------------------------------------
(* Workers. *)

Goto(w, next) == pc' = [pc EXCEPT ![w] = next]

WorkerExits(w) ==
    /\ pc[w] = "idle" /\ ctxDone
    /\ Goto(w, "off")
    /\ UNCHANGED <<procVars, journal, schedVars, job, jobCtx, res, active,
                   cancels, waitVars, can>>

Dequeue(w) ==
    /\ pc[w] = "idle" /\ queue # <<>>
    /\ ~ctxDone /\ journal[Head(queue)] = "queued"
    /\ queue' = Tail(queue)
    /\ job' = [job EXCEPT ![w] = Head(queue)]
    /\ Goto(w, "acquire")
    /\ UNCHANGED <<procVars, journal, booting, submits, jobCtx, res, active,
                   cancels, waitVars, can>>

\* GetWorkerJob failed, or the job is no longer Queued: it is dropped.
DequeueSkip(w) ==
    /\ pc[w] = "idle" /\ queue # <<>>
    /\ ctxDone \/ StoreFaults \/ journal[Head(queue)] # "queued"
    /\ queue' = Tail(queue)
    /\ UNCHANGED <<procVars, journal, booting, submits, workerVars, active,
                   cancels, waitVars, can>>

\* Mutant: the limit test lets one more worker in.
AcquireCampaignOffByOne(w) ==
    LET c == CampaignOf[job[w]] IN
    /\ pc[w] = "acquire"
    /\ active[c] <= CampaignConcurrency
    /\ active' = [active EXCEPT ![c] = @ + 1]
    /\ Goto(w, "start")
    /\ UNCHANGED <<procVars, journal, schedVars, job, jobCtx, res, cancels,
                   waitVars, can>>

AcquireCampaign(w) ==
    LET c == CampaignOf[job[w]] IN
    /\ pc[w] = "acquire"
    /\ active[c] < CampaignConcurrency
    /\ active' = [active EXCEPT ![c] = @ + 1]
    /\ Goto(w, "start")
    /\ UNCHANGED <<procVars, journal, schedVars, job, jobCtx, res, cancels,
                   waitVars, can>>

\* acquireCampaign returns false and the worker goroutine ends.
AcquireAborted(w) ==
    /\ pc[w] = "acquire" /\ ctxDone
    /\ Goto(w, "off")
    /\ job' = [job EXCEPT ![w] = None]
    /\ UNCHANGED <<procVars, journal, schedVars, jobCtx, res, active, cancels,
                   waitVars, can>>

\* execute: the checkpoint to Running, whatever the journal holds by now.
SaveRunning(w) ==
    /\ pc[w] = "start" /\ ~ctxDone
    /\ SaveJobAndRun(job[w], "running")
    /\ Goto(w, "register")
    /\ UNCHANGED <<procVars, schedVars, job, jobCtx, res, active, cancels,
                   waitVars, can>>

\* Mutant: the early return skips the release of the campaign slot.
SaveRunningFailsLeaksSlot(w) ==
    /\ pc[w] = "start" /\ (ctxDone \/ StoreFaults)
    /\ Goto(w, "idle")
    /\ job' = [job EXCEPT ![w] = None]
    /\ UNCHANGED <<procVars, journal, schedVars, jobCtx, res, active, cancels,
                   waitVars, can>>

\* GetRun or SaveJobAndRun failed: execute returns with the job untouched.
SaveRunningFails(w) ==
    /\ pc[w] = "start" /\ (ctxDone \/ StoreFaults)
    /\ Goto(w, "release")
    /\ UNCHANGED <<procVars, journal, schedVars, job, jobCtx, res, active,
                   cancels, waitVars, can>>

Register(w) ==
    /\ pc[w] = "register"
    /\ cancels' = [cancels EXCEPT ![job[w]] = w]
    /\ jobCtx' = [jobCtx EXCEPT ![w] = "live"]
    /\ Goto(w, "run")
    /\ UNCHANGED <<procVars, journal, schedVars, job, res, active, waitVars, can>>

\* The wall-clock budget runs out.
Deadline(w) ==
    /\ pc[w] = "run" /\ jobErr(w) = "live"
    /\ jobCtx' = [jobCtx EXCEPT ![w] = "deadline"]
    /\ UNCHANGED <<procVars, journal, schedVars, pc, job, res, active, cancels,
                   waitVars, can>>

\* Staging, the writable-budget monitor or the collector failed: finishFailed.
RunFails(w) ==
    /\ pc[w] = "run"
    /\ res' = [res EXCEPT ![w] = "failed"]
    /\ Goto(w, "failsave")
    /\ UNCHANGED <<procVars, journal, schedVars, job, jobCtx, active, cancels,
                   waitVars, can>>

Outcomes(err) == CASE err = "deadline" -> {"timed_out"}
                   [] err = "canceled" -> {"cancelled"}
                   [] OTHER -> {"completed", "failed"}

\* The backend returned, its output is collected, and the status is decided by
\* jobCtx.Err() at this moment.
Finish(w) ==
    /\ pc[w] = "run"
    /\ \E status \in Outcomes(jobErr(w)) : res' = [res EXCEPT ![w] = status]
    /\ Goto(w, "save")
    /\ UNCHANGED <<procVars, journal, schedVars, job, jobCtx, active, cancels,
                   waitVars, can>>

\* SaveJobAndRun whose error the code drops.
SaveUnchecked(w, next) ==
    /\ \/ SaveJobAndRun(job[w], res[w])
       \/ StoreFaults /\ UNCHANGED journal
    /\ Goto(w, next)
    /\ UNCHANGED <<procVars, schedVars, job, jobCtx, res, active, cancels,
                   waitVars, can>>

SaveResult(w) == pc[w] = "save" /\ SaveUnchecked(w, "callback")
SaveFailed(w) == pc[w] = "failsave" /\ SaveUnchecked(w, "publish")

\* onResult is Coordinator.Ingest.
IngestSucceeds(w) ==
    /\ pc[w] = "callback"
    /\ Goto(w, "publish")
    /\ UNCHANGED <<procVars, journal, schedVars, job, jobCtx, res, active,
                   cancels, waitVars, can>>

\* Mutant: the failure is published without its second checkpoint.
IngestFailsUnsaved(w) ==
    /\ pc[w] = "callback"
    /\ res' = [res EXCEPT ![w] = "failed"]
    /\ Goto(w, "publish")
    /\ UNCHANGED <<procVars, journal, schedVars, job, jobCtx, active, cancels,
                   waitVars, can>>

IngestFails(w) ==
    /\ pc[w] = "callback"
    /\ res' = [res EXCEPT ![w] = "failed"]
    /\ Goto(w, "failsave")
    /\ UNCHANGED <<procVars, journal, schedVars, job, jobCtx, active, cancels,
                   waitVars, can>>

\* publish: take the waiters of the run out of the map, answer each channel.
Publish(j, status) ==
    LET told == {o \in waiters : obs[o].job = j} IN
    /\ waiters' = waiters \ told
    /\ box' = [o \in Observers |-> IF o \in told THEN status ELSE box[o]]
    /\ UNCHANGED obs

PublishResult(w) ==
    /\ pc[w] = "publish"
    /\ Publish(job[w], res[w])
    /\ Goto(w, "cleanup")
    /\ UNCHANGED <<procVars, journal, schedVars, job, jobCtx, res, active,
                   cancels, can>>

\* The deferred delete(b.cancels, job.ID).
Cleanup(w) ==
    /\ pc[w] = "cleanup"
    /\ cancels' = [cancels EXCEPT ![job[w]] = None]
    /\ Goto(w, "release")
    /\ UNCHANGED <<procVars, journal, schedVars, job, jobCtx, res, active,
                   waitVars, can>>

ReleaseCampaign(w) ==
    /\ pc[w] = "release"
    /\ active' = [active EXCEPT ![CampaignOf[job[w]]] = @ - 1]
    /\ job' = [job EXCEPT ![w] = None]
    /\ res' = [res EXCEPT ![w] = None]
    /\ Goto(w, "idle")
    /\ UNCHANGED <<procVars, journal, schedVars, jobCtx, cancels, waitVars, can>>

-----------------------------------------------------------------------------
(* Wait. *)

Answered(call, status) == [pc |-> "done", job |-> call.job, got |-> status]

WaitRead(o, j) ==
    /\ proc \in {"up", "closing"}
    /\ obs[o].pc = "idle" /\ journal[j] # "absent"
    /\ obs' = [obs EXCEPT ![o] =
          IF terminalRun(journal[j])
            THEN [pc |-> "done", job |-> j, got |-> journal[j]]
            ELSE [pc |-> "register", job |-> j, got |-> None]]
    /\ UNCHANGED <<procVars, journal, schedVars, workerVars, active, cancels,
                   waiters, box, can>>

WaitRegister(o) ==
    /\ obs[o].pc = "register"
    /\ waiters' = waiters \cup {o}
    /\ obs' = [obs EXCEPT ![o].pc = "reread"]
    /\ UNCHANGED <<procVars, journal, schedVars, workerVars, active, cancels,
                   box, can>>

\* Mutant: Wait without its second read.
WaitRereadSkipped(o) ==
    /\ obs[o].pc = "reread"
    /\ obs' = [obs EXCEPT ![o].pc = "wait"]
    /\ UNCHANGED <<procVars, journal, schedVars, workerVars, active, cancels,
                   waiters, box, can>>

\* The second read that closes the race with a completion in between.
WaitReread(o) ==
    LET status == journal[obs[o].job] IN
    /\ obs[o].pc = "reread"
    /\ IF terminalRun(status)
         THEN /\ waiters' = waiters \ {o}
              /\ obs' = [obs EXCEPT ![o] = Answered(@, status)]
         ELSE /\ obs' = [obs EXCEPT ![o].pc = "wait"]
              /\ UNCHANGED waiters
    /\ UNCHANGED <<procVars, journal, schedVars, workerVars, active, cancels,
                   box, can>>

WaitReceive(o) ==
    /\ obs[o].pc = "wait" /\ box[o] # None
    /\ obs' = [obs EXCEPT ![o] = Answered(@, box[o])]
    /\ UNCHANGED <<procVars, journal, schedVars, workerVars, active, cancels,
                   waiters, box, can>>

\* The observer's context ends; its channel stays registered.
WaitGivesUp(o) ==
    /\ obs[o].pc = "wait" /\ ClientsMayLeave
    /\ obs' = [obs EXCEPT ![o].pc = "left"]
    /\ UNCHANGED <<procVars, journal, schedVars, workerVars, active, cancels,
                   waiters, box, can>>

-----------------------------------------------------------------------------
(* Cancel and CancelRun. *)

CancelRead(x, j) ==
    /\ proc \in {"up", "closing"}
    /\ can[x].pc = "idle" /\ journal[j] # "absent"
    /\ can' = [can EXCEPT ![x] = [pc |-> "lookup", job |-> j, seen |-> journal[j]]]
    /\ UNCHANGED <<procVars, journal, schedVars, workerVars, active, cancels,
                   waitVars>>

\* The lookup in b.cancels, and the early returns that follow it.
CancelLookup(x) ==
    LET w == cancels[can[x].job] IN
    /\ can[x].pc = "lookup"
    /\ IF w # None
         THEN /\ jobCtx' = [jobCtx EXCEPT ![w] =
                              IF jobErr(w) = "live" THEN "canceled" ELSE @]
              /\ can' = [can EXCEPT ![x] = IdleCan]
         ELSE /\ can' = [can EXCEPT ![x] =
                           IF terminalRun(@.seen) THEN IdleCan
                                                  ELSE [@ EXCEPT !.pc = "save"]]
              /\ UNCHANGED jobCtx
    /\ UNCHANGED <<procVars, journal, schedVars, pc, job, res, active, cancels,
                   waitVars>>

CancelSave(x) ==
    /\ can[x].pc = "save"
    /\ SaveJobAndRun(can[x].job, "cancelled")
    /\ can' = [can EXCEPT ![x].pc = "publish"]
    /\ UNCHANGED <<procVars, schedVars, workerVars, active, cancels, waitVars>>

CancelSaveFails(x) ==
    /\ can[x].pc = "save" /\ (StoreFaults \/ ClientsMayLeave)
    /\ can' = [can EXCEPT ![x] = IdleCan]
    /\ UNCHANGED <<procVars, journal, schedVars, workerVars, active, cancels,
                   waitVars>>

CancelPublish(x) ==
    /\ can[x].pc = "publish"
    /\ Publish(can[x].job, "cancelled")
    /\ can' = [can EXCEPT ![x] = IdleCan]
    /\ UNCHANGED <<procVars, journal, schedVars, workerVars, active, cancels>>

-----------------------------------------------------------------------------
WorkerStep(w) ==
    \/ WorkerExits(w) \/ Dequeue(w) \/ DequeueSkip(w)
    \/ AcquireCampaign(w) \/ AcquireAborted(w)
    \/ SaveRunning(w) \/ SaveRunningFails(w) \/ Register(w)
    \/ Deadline(w) \/ RunFails(w) \/ Finish(w)
    \/ SaveResult(w) \/ SaveFailed(w)
    \/ IngestSucceeds(w) \/ IngestFails(w)
    \/ PublishResult(w) \/ Cleanup(w) \/ ReleaseCampaign(w)

SubmitStep(j) == SubmitEnqueue(j) \/ SubmitGivesUp(j)

WaitStep(o) == WaitRegister(o) \/ WaitReread(o) \/ WaitReceive(o)

CancelStep(x) ==
    CancelLookup(x) \/ CancelSave(x) \/ CancelSaveFails(x) \/ CancelPublish(x)

ProcStep ==
    \/ StartReturns \/ Close \/ Exit
    \/ \E j \in Jobs : StartEnqueue(j)

Next ==
    \/ Start \/ StartFails \/ Shutdown \/ Crash \/ ProcStep
    \/ \E j \in Jobs : SubmitCreate(j) \/ SubmitStep(j)
    \/ \E w \in Workers : WorkerStep(w)
    \/ \E o \in Observers : WaitStep(o) \/ WaitGivesUp(o)
    \/ \E o \in Observers, j \in Jobs : WaitRead(o, j)
    \/ \E x \in Cancellers : CancelStep(x)
    \/ \E x \in Cancellers, j \in Jobs : CancelRead(x, j)

\* Goroutines are scheduled, started calls run on, and the operator restarts
\* a process that went down.  Nothing obliges a client to submit, wait or
\* cancel, or the process to crash.
Fairness ==
    /\ WF_vars(Start) /\ WF_vars(ProcStep)
    /\ \A j \in Jobs : WF_vars(SubmitStep(j))
    /\ \A w \in Workers : WF_vars(WorkerStep(w))
    /\ \A o \in Observers : WF_vars(WaitStep(o))
    /\ \A x \in Cancellers : WF_vars(CancelStep(x))

Spec == Init /\ [][Next]_vars /\ Fairness

-----------------------------------------------------------------------------
(* Properties. *)

TypeOK ==
    /\ proc \in {"down", "boot", "up", "closing"}
    /\ ctxDone \in BOOLEAN
    /\ restarts \in 0 .. MaxRestarts
    /\ journal \in [Jobs -> Status]
    /\ booting \in SUBSET Jobs
    /\ submits \in SUBSET Jobs
    /\ queue \in Seq(Jobs)
    /\ pc \in [Workers -> WorkerPCs]
    /\ job \in [Workers -> Jobs \cup {None}]
    /\ jobCtx \in [Workers -> {"live", "canceled", "deadline"}]
    /\ res \in [Workers -> TerminalStatus \cup {None}]
    /\ active \in [Campaigns -> Nat]
    /\ cancels \in [Jobs -> Workers \cup {None}]
    /\ waiters \in SUBSET Observers
    /\ box \in [Observers -> TerminalStatus \cup {None}]
    /\ obs \in [Observers -> WaitCall]
    /\ can \in [Cancellers -> CancelCall]

\* acquireCampaign and releaseCampaign: at no time do more workers execute
\* jobs of one campaign than CampaignConcurrency allows.
CampaignLimit ==
    \A c \in Campaigns : Cardinality(SlotHolders(c)) <= CampaignConcurrency

\* b.campaignActive counts exactly the workers between acquireCampaign and
\* releaseCampaign, whichever of execute's returns they take: no slot leaks.
SlotAccounting ==
    \A c \in Campaigns : active[c] = Cardinality(SlotHolders(c))

\* A job id is in one place at a time (recovery list, Submit call, queue or
\* worker), so no job is executed by two workers of one process.
SingleExecution ==
    /\ \A v, w \in Workers : HoldsJob(v) /\ HoldsJob(w) /\ v # w => job[v] # job[w]
    /\ \A w \in Workers, i \in DOMAIN queue : HoldsJob(w) => queue[i] # job[w]
    /\ \A i, k \in DOMAIN queue : i # k => queue[i] # queue[k]

\* While the process serves requests, every job the journal shows as Queued is
\* on its way to a worker: nothing durable is forgotten between Submit, the
\* recovery in Start, and the pool (when journal calls succeed and callers of
\* Submit stay).
QueuedIsScheduled ==
    proc = "up" /\ ~ctxDone =>
        \A j \in Jobs : journal[j] = "queued" =>
            \/ j \in submits
            \/ \E i \in DOMAIN queue : queue[i] = j
            \/ \E w \in Workers : pc[w] \in {"acquire", "start"} /\ job[w] = j

\* A result returned by Wait is the recorded one, except that a failed
\* evidence ingestion may later turn the run into Failed (without Cancel).
WaitResultStands ==
    \A o \in Observers : obs[o].pc = "done" =>
        journal[obs[o].job] \in {obs[o].got, "failed"}

\* Every submitted job reaches a terminal status and keeps to one, through any
\* finite number of crashes and shutdowns (when journal calls succeed and
\* callers of Submit stay).
EveryJobSettles ==
    \A j \in Jobs : journal[j] # "absent" ~> [](terminalRun(journal[j]))

\* A Wait blocked on a run whose result is recorded is answered, unless its
\* client or the process goes first: publish and the second read in Wait leave
\* no window in which a result is missed, whichever journal call failed before
\* and whoever cancels.
RecordedResultAnswers ==
    \A o \in Observers :
        obs[o].pc = "wait" /\ terminalRun(journal[obs[o].job]) ~> obs[o].pc # "wait"

\* Cancel, as its comment has it, "marks queued work cancelled before
\* execution": a job marked cancelled is not executed afterwards.
CancelledIsNotExecuted ==
    [][\A j \in Jobs : journal[j] = "cancelled" => journal'[j] # "running"]_vars

=============================================================================
