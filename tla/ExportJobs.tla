----------------------------- MODULE ExportJobs -----------------------------
(***************************************************************************)
(* Export jobs of one workspace from the POST to the verdict: the handler  *)
(* create_export (backend/src/exports/handlers.rs), the limiter            *)
(* (ExportSlots), the stream and the consumer loop (WorkerQueue), the      *)
(* pipeline of a job (worker/src/export_pipeline.rs) and the export_jobs   *)
(* row all of them are about.  A step is one awaited call, so requests,    *)
(* tasks, upload tickers and crashes interleave between any two of them.   *)
(***************************************************************************)
EXTENDS Integers, FiniteSets

CONSTANTS
    Requests, Limit,                      \* see ExportSlots
    Workers, NoWorker, Batch, MaxRetries, MaxCrashes,  \* see WorkerQueue
    FaultSets                             \* the sets of faults that may come together

\* The assumptions of ExportSlots and WorkerQueue.
ASSUME JobConstants ==
    /\ IsFiniteSet(Requests) /\ Limit \in Nat \ {0}
    /\ NoWorker \notin Workers /\ Batch \in Nat \ {0} /\ MaxRetries \in Nat /\ MaxCrashes \in Nat

(***************************************************************************)
(* "redis", "cancel" and "expiry" are those of ExportSlots.                *)
(* "db"  a Postgres statement fails, before or after it was executed       *)
(* "s3"  a download or an upload fails, or the worker's temporary directory *)
(* Crashes of workers are bounded by MaxCrashes.                           *)
(***************************************************************************)
ASSUME JobFaultsKnown == FaultSets \subseteq SUBSET {"redis", "cancel", "expiry", "db", "s3"}

VARIABLES
    count, ttl, slot,                                     \* ExportSlots
    entry, tail, group, cursor, owner, deliveries, dlq, handle, up, crashes,
                                                          \* WorkerQueue
    api,        \* how far the POST of each job is
    row,        \* export_jobs.status, "absent" before the INSERT
    progress,   \* export_jobs.progress_pct
    stage,      \* the await the job's task is at
    outcome,    \* what dispatch will return: "succeeded" (Ok) or "failed" (Err)
    wsKnown,    \* did lookup_workspace answer
    ticking,    \* is the upload ticker running
    sent,       \* the percentage of a ticker UPDATE that Postgres has not executed, or 0
    faults      \* what may go wrong in this behaviour; it never changes

\* Failed handlers and dead workers abandon slots.
SlotFaults(F) == (F \cap {"redis", "cancel", "expiry"}) \cup {"abandon"}

Slots == INSTANCE ExportSlots
            WITH faults <- SlotFaults(faults),
                 FaultSets <- {SlotFaults(F) : F \in FaultSets}
Queue == INSTANCE WorkerQueue
            WITH Msgs <- Requests,
                 outages <- faults \cap {"redis"},
                 OutageSets <- {F \cap {"redis"} : F \in FaultSets}

slotVars == <<count, ttl, slot>>
qVars    == <<entry, tail, group, cursor, owner, deliveries, dlq, handle, up, crashes>>
taskVars == <<stage, outcome, wsKnown, ticking, sent>>
jobVars  == <<slotVars, qVars, api, row, progress, taskVars>>
allVars  == <<jobVars, faults>>

ApiStates == {"idle", "limiter", "enqueue", "accepted", "failed"}
RowStates == {"absent", "queued", "processing", "done", "error"}
\* The awaits of run and run_inner, in order.
RunStages == {"lookup", "mark", "load", "download", "encode", "upload", "finish",
              "fail", "release", "reset", "return"}
\* 0 | downloads | encoding | encoded | two ticks of the upload | done.
Percents == {0, 10, 50, 95, 97, 99, 100}

JobsTypeOK ==
    /\ api \in [Requests -> ApiStates]
    /\ row \in [Requests -> RowStates]
    /\ progress \in [Requests -> Percents]
    /\ stage \in [Requests -> RunStages \cup {"none", "over"}]
    /\ outcome \in [Requests -> {"succeeded", "failed"}]
    /\ wsKnown \in [Requests -> BOOLEAN]
    /\ ticking \in [Requests -> BOOLEAN]
    /\ sent \in [Requests -> {0, 97, 99}]
    /\ faults \in FaultSets

JobsInit ==
    /\ faults \in FaultSets
    /\ Slots!SlotInit
    /\ Queue!QueueInit
    /\ api = [r \in Requests |-> "idle"]
    /\ row = [r \in Requests |-> "absent"]
    /\ progress = [r \in Requests |-> 0]
    /\ stage = [r \in Requests |-> "none"]
    /\ outcome = [r \in Requests |-> "failed"]
    /\ wsKnown = [r \in Requests |-> FALSE]
    /\ ticking = [r \in Requests |-> FALSE]
    /\ sent = [r \in Requests |-> 0]

-----------------------------------------------------------------------------
(* How a request and a task move on.                                        *)

ApiMoves(r, s) == api' = [api EXCEPT ![r] = s]

Goes(r, from, to) == stage[r] = from /\ stage' = [stage EXCEPT ![r] = to]

pipelineRest == <<slotVars, qVars, api>>

-----------------------------------------------------------------------------
(* Mutations, for the sensitivity checks of the properties.                 *)

\* The handler gives the slot back when XADD answers with an error.
EnqueueJobGivesBack(r) ==
    /\ api[r] = "enqueue"
    /\ \/ Queue!Publish(r) /\ ApiMoves(r, "accepted") /\ UNCHANGED slotVars
       \/ /\ "redis" \in faults
          /\ Queue!Publish(r) \/ UNCHANGED qVars
          /\ ApiMoves(r, "failed") /\ Slots!Release(r)
    /\ UNCHANGED <<row, progress, taskVars>>

\* A ? leaves run as well, past the release.
ErrsPastRelease(r, from) == Goes(r, from, "return") /\ outcome' = [outcome EXCEPT ![r] = "failed"]

\* No clips: the task succeeds, and nobody marks the job.
LoadTimelineSilently(r) ==
    /\ Goes(r, "load", "download") \/ Goes(r, "load", "release")
    /\ outcome' = [outcome EXCEPT ![r] = "succeeded"]
    /\ UNCHANGED <<pipelineRest, row, progress, wsKnown, ticking, sent>>

\* The ticker does not start from what the column shows.
TickFromBelow(r) ==
    /\ ticking[r] /\ sent[r] = 0
    /\ \E pct \in {97, 99} : sent' = [sent EXCEPT ![r] = pct]
    /\ UNCHANGED <<pipelineRest, row, progress, stage, outcome, wsKnown, ticking>>

\* Only successful tasks release.
ReleaseSlotOnSuccess(r) ==
    /\ Goes(r, "release", "return")
    /\ IF wsKnown[r] /\ outcome[r] = "succeeded" THEN Slots!Release(r) ELSE UNCHANGED slotVars
    /\ UNCHANGED <<qVars, api, row, progress, outcome, wsKnown, ticking, sent>>

-----------------------------------------------------------------------------
(* backend: create_export.  Validation and the role check change nothing.   *)

\* A held slot whose request goes no further.
GiveUp(r) == ApiMoves(r, "failed") /\ Slots!Abandon({r})

TakeSlot(r) ==
    /\ api[r] = "idle"
    /\ \/ Slots!Take(r) /\ ApiMoves(r, "limiter")
       \/ Slots!TakeError(r) /\ ApiMoves(r, "failed")
    /\ UNCHANGED <<qVars, row, progress, taskVars>>

ArmSlot(r) ==
    /\ api[r] = "limiter"
    /\ Slots!Arm(r)
    /\ UNCHANGED <<qVars, api, row, progress, taskVars>>

RefuseSlot(r) ==
    /\ api[r] = "limiter"
    /\ Slots!Refuse(r)
    /\ ApiMoves(r, "failed")
    /\ UNCHANGED <<qVars, row, progress, taskVars>>

\* INSERT INTO export_jobs.  When it fails the slot stays taken, and the row
\* is there if only the answer was lost.
InsertJob(r) ==
    /\ api[r] = "limiter" /\ slot[r] = "held"
    /\ \/ row' = [row EXCEPT ![r] = "queued"] /\ ApiMoves(r, "enqueue") /\ UNCHANGED slotVars
       \/ "db" \in faults /\ GiveUp(r) /\ row' \in {row, [row EXCEPT ![r] = "queued"]}
    /\ UNCHANGED <<qVars, progress, taskVars>>

\* enqueue_export: XADD.  When it fails slot and row stay as they are; the
\* message may be in the stream all the same.
EnqueueJob(r) ==
    /\ api[r] = "enqueue"
    /\ \/ Queue!Publish(r) /\ ApiMoves(r, "accepted") /\ UNCHANGED slotVars
       \/ "redis" \in faults /\ Queue!Publish(r) /\ ApiMoves(r, "failed") /\ UNCHANGED slotVars
       \/ "redis" \in faults /\ GiveUp(r) /\ UNCHANGED qVars
    /\ UNCHANGED <<row, progress, taskVars>>

\* The client disconnects or the backend stops between two awaits.
CancelRequest(r) ==
    /\ "cancel" \in faults
    /\ api[r] \in {"limiter", "enqueue"}
    /\ IF slot[r] = "held" THEN GiveUp(r) ELSE Slots!Cancel(r) /\ ApiMoves(r, "failed")
    /\ UNCHANGED <<qVars, row, progress, taskVars>>

-----------------------------------------------------------------------------
(* worker: the process and its loop                                         *)

StartWorker(w) ==
    /\ Queue!Boot(w) \/ Queue!EnsureGroups(w)
    /\ UNCHANGED <<slotVars, api, row, progress, taskVars>>

ReadJobs(w) ==
    /\ Queue!ReadGroup(w)
    /\ UNCHANGED <<slotVars, api, row, progress, taskVars>>

\* Every message read starts a task.
StartJobs(w) ==
    /\ Queue!SpawnTasks(w)
    /\ stage' = [r \in Requests |-> IF handle[r] = "delivered" /\ handle'[r] = "running"
                                    THEN "lookup" ELSE stage[r]]
    /\ UNCHANGED <<slotVars, api, row, progress, outcome, wsKnown, ticking, sent>>

\* The jobs J will be worked on no more; what slots they have nobody gives back.
Drop(J) ==
    /\ Slots!Abandon({r \in J : slot[r] \in {"held", "resetting"}})
    /\ stage' = [r \in Requests |-> IF r \in J THEN "over" ELSE stage[r]]
    /\ UNCHANGED <<api, row, progress, outcome, wsKnown, sent>>

LoseJobs(w) ==
    /\ Queue!LoseAnswer(w)
    /\ Drop({r \in Requests : owner[r] = w /\ handle[r] = "delivered"})
    /\ UNCHANGED ticking

-----------------------------------------------------------------------------
(* worker: export_pipeline::run and run_inner                               *)

\* A ? returns Err from run_inner; run goes on to release the slot.
Errs(r, from) == Goes(r, from, "release") /\ outcome' = [outcome EXCEPT ![r] = "failed"]

\* A swallowed UPDATE of progress_pct.
Shows(r, pct) ==
    progress' \in {[progress EXCEPT ![r] = pct]}
                  \cup (IF "db" \in faults THEN {progress} ELSE {})

\* lookup_workspace: None when the query fails.
LookupWorkspace(r) ==
    /\ Goes(r, "lookup", "mark")
    /\ \/ wsKnown' = [wsKnown EXCEPT ![r] = TRUE]
       \/ "db" \in faults /\ UNCHANGED wsKnown
    /\ UNCHANGED <<pipelineRest, row, progress, outcome, ticking, sent>>

\* An UPDATE of the status with ?: executed, failed, or executed without an
\* answer.
SetsRow(r, from, to, status, pct, result) ==
    LET written == /\ row' = [row EXCEPT ![r] = status]
                   /\ progress' = [progress EXCEPT ![r] = pct]
    IN  \/ Goes(r, from, to) /\ written /\ outcome' = [outcome EXCEPT ![r] = result]
        \/ "db" \in faults /\ Errs(r, from) /\ (written \/ UNCHANGED <<row, progress>>)

MarkProcessing(r) ==
    /\ SetsRow(r, "mark", "load", "processing", progress[r], outcome[r])
    /\ UNCHANGED <<pipelineRest, wsKnown, ticking, sent>>

\* Project, clips of the main video track, audio clips.  Without clips the
\* job fails and the task succeeds.  (A missing project leaves by a ? as well,
\* but no handler deletes one.)
LoadTimeline(r) ==
    /\ \/ Goes(r, "load", "download") /\ UNCHANGED outcome
       \/ Goes(r, "load", "fail") /\ outcome' = [outcome EXCEPT ![r] = "succeeded"]
       \/ "db" \in faults /\ Errs(r, "load")
    /\ UNCHANGED <<pipelineRest, row, progress, wsKnown, ticking, sent>>

\* The temporary directory and the sources in it.  The job fails when no clip
\* has any.
Download(r) ==
    /\ \/ Goes(r, "download", "encode") /\ Shows(r, 10) /\ UNCHANGED outcome
       \/ /\ Goes(r, "download", "fail")
          /\ outcome' = [outcome EXCEPT ![r] = "succeeded"]
          /\ UNCHANGED progress
       \/ "s3" \in faults /\ Errs(r, "download") /\ (UNCHANGED progress \/ Shows(r, 10))
    /\ UNCHANGED <<pipelineRest, row, wsKnown, ticking, sent>>

\* A block of ffmpeg's progress stream.
EncodeProgress(r) ==
    /\ stage[r] = "encode" /\ progress[r] < 50
    /\ Shows(r, 50)
    /\ UNCHANGED <<pipelineRest, row, taskVars>>

\* ffmpeg ends: 95 % and the upload begins with its ticker, or the job fails
\* and so does the task.
Encode(r) ==
    /\ \/ /\ Goes(r, "encode", "upload") /\ Shows(r, 95)
          /\ ticking' = [ticking EXCEPT ![r] = TRUE]
          /\ UNCHANGED outcome
       \/ /\ Goes(r, "encode", "fail")
          /\ outcome' = [outcome EXCEPT ![r] = "failed"]
          /\ UNCHANGED <<progress, ticking>>
    /\ UNCHANGED <<pipelineRest, row, wsKnown, sent>>

\* fail_job.
FailJob(r) ==
    /\ SetsRow(r, "fail", "release", "error", progress[r], outcome[r])
    /\ UNCHANGED <<pipelineRest, wsKnown, ticking, sent>>

\* The ticker sends an UPDATE and waits for it.
Tick(r) ==
    /\ ticking[r] /\ sent[r] = 0
    /\ \E pct \in {97, 99} : pct > progress[r] /\ sent' = [sent EXCEPT ![r] = pct]
    /\ UNCHANGED <<pipelineRest, row, progress, stage, outcome, wsKnown, ticking>>

\* Postgres executes it, on a connection of its own.
TickLands(r) ==
    /\ sent[r] # 0
    /\ Shows(r, sent[r])
    /\ sent' = [sent EXCEPT ![r] = 0]
    /\ UNCHANGED <<pipelineRest, row, stage, outcome, wsKnown, ticking>>

\* put_object returns and the ticker is aborted.  Aborting drops the future:
\* a statement Postgres has received is executed nevertheless.
UploadEnds(r) ==
    /\ \/ Goes(r, "upload", "finish") /\ UNCHANGED outcome
       \/ "s3" \in faults /\ Errs(r, "upload")
    /\ ticking' = [ticking EXCEPT ![r] = FALSE]
    /\ sent' \in {sent, [sent EXCEPT ![r] = 0]}
    /\ UNCHANGED <<pipelineRest, row, progress, wsKnown>>

FinishJob(r) ==
    /\ SetsRow(r, "finish", "release", "done", 100, "succeeded")
    /\ UNCHANGED <<pipelineRest, wsKnown, ticking, sent>>

\* release_export_slot, skipped when the workspace is not known.
ReleaseSlot(r) ==
    /\ \/ /\ wsKnown[r] /\ Slots!Release(r)
          /\ Goes(r, "release", IF slot'[r] = "resetting" THEN "reset" ELSE "return")
       \/ ~wsKnown[r] /\ Slots!Abandon({r}) /\ Goes(r, "release", "return")
    /\ UNCHANGED <<qVars, api, row, progress, outcome, wsKnown, ticking, sent>>

ResetSlot(r) ==
    /\ Goes(r, "reset", "return")
    /\ Slots!Reset(r)
    /\ UNCHANGED <<qVars, api, row, progress, outcome, wsKnown, ticking, sent>>

\* dispatch returns to the task of the consumer loop.
TaskReturns(r) ==
    /\ Goes(r, "return", "over")
    /\ Queue!Dispatched(r, outcome[r])
    /\ UNCHANGED <<slotVars, api, row, progress, outcome, wsKnown, ticking, sent>>

SettleMessage(r) ==
    /\ Queue!Ack(r) \/ Queue!MaybeDeadLetter(r)
    /\ UNCHANGED <<slotVars, api, row, progress, taskVars>>

\* The worker dies: its tasks and tickers are gone, their slots are not
\* given back, and a sent UPDATE may still be executed.
CrashWorker(w) ==
    /\ Queue!Crash(w)
    /\ Drop({r \in Requests : owner[r] = w /\ handle[r] \in {"delivered", "running"}})
    /\ ticking' = [r \in Requests |-> ticking[r] /\ ~(owner[r] = w /\ handle[r] = "running")]

\* The key's TTL runs out.
ExpireKey ==
    /\ Slots!Expire
    /\ UNCHANGED <<qVars, api, row, progress, taskVars>>

-----------------------------------------------------------------------------

RequestStep(r) ==
    TakeSlot(r) \/ ArmSlot(r) \/ RefuseSlot(r) \/ InsertJob(r) \/ EnqueueJob(r) \/ CancelRequest(r)

TaskStep(r) ==
    \/ LookupWorkspace(r) \/ MarkProcessing(r) \/ LoadTimeline(r) \/ Download(r)
    \/ Encode(r) \/ FailJob(r) \/ UploadEnds(r) \/ FinishJob(r)
    \/ ReleaseSlot(r) \/ ResetSlot(r) \/ TaskReturns(r) \/ SettleMessage(r)

ProgressStep(r) == EncodeProgress(r) \/ Tick(r) \/ TickLands(r)

WorkerStep(w) == StartWorker(w) \/ ReadJobs(w) \/ StartJobs(w) \/ LoseJobs(w) \/ CrashWorker(w)

JobsNext ==
    /\ \/ \E r \in Requests : RequestStep(r) \/ TaskStep(r) \/ ProgressStep(r)
       \/ \E w \in Workers : WorkerStep(w)
       \/ ExpireKey
    /\ UNCHANGED faults

JobsSpec == JobsInit /\ [][JobsNext]_allVars

(***************************************************************************)
(* Fairness.  Workers run and read; a task is polled until it returns,     *)
(* with ffmpeg, S3 and Postgres answering one way or the other.  Requests  *)
(* are only made if somebody makes them.                                   *)
(***************************************************************************)
JobsFairSpec ==
    /\ JobsSpec
    /\ \A w \in Workers : /\ WF_jobVars(StartWorker(w))
                          /\ WF_jobVars(ReadJobs(w)) /\ WF_jobVars(StartJobs(w))
    /\ \A r \in Requests : WF_jobVars(TaskStep(r))

-----------------------------------------------------------------------------
(* Properties that hold                                                     *)

\* The limit of the plan reaches the workers: as long as the counter's key
\* does not expire, no more than Limit jobs of the workspace are being run,
\* although the counter and the stream are written by different processes.
RunningWithinLimit ==
    "expiry" \notin faults =>
        Cardinality({r \in Requests : stage[r] \in RunStages \ {"reset", "return"}}) <= Limit

\* export_pipeline.rs:43-47: the slot is released on every exit path of the
\* pipeline.  (The workspace has to be known and Redis has to answer.)
ReleasedOnEveryExit ==
    "redis" \notin faults =>
        \A r \in Requests :
            handle[r] \in {"succeeded", "failed", "dead", "settled", "left"} /\ wsKnown[r]
                => slot[r] = "released"

\* The invariants of the composition: types, the limit, the release.
JobsOK == JobsTypeOK /\ RunningWithinLimit /\ ReleasedOnEveryExit

\* A verdict is final: no crash, late answer or second message turns a job
\* that is done or failed into anything else.
VerdictIsFinal ==
    [][\A r \in Requests : row[r] \in {"done", "error"} => row'[r] = row[r]]_jobVars

\* The percentage a client polls never goes back while the job is processing,
\* although downloads, ffmpeg's callback and the upload ticker all write it.
ProgressNeverBack ==
    [][\A r \in Requests : row[r] = "processing" /\ row'[r] = "processing"
                             => progress'[r] >= progress[r]]_jobVars

\* Seen from outside this is the export service of ExportLifecycle.
Work ==
    [r \in Requests |->
        IF slot[r] = "idle" THEN "none"
        ELSE IF slot[r] \notin {"arming", "held"} THEN "ended"
        ELSE IF stage[r] \in RunStages THEN "running" ELSE "admitted"]
Lifecycle ==
    INSTANCE ExportLifecycle
        WITH Jobs <- Requests, work <- Work, lasting <- "expiry" \notin faults
ImplementsLifecycle == Lifecycle!LifeSpec

\* What waits in the stream gets its verdict, when databases and stores answer
\* and no worker crashes.
AcceptedGetsVerdict ==
    \A r \in Requests :
        (faults = {} /\ group /\ entry[r] > cursor) ~> (row[r] \in {"done", "error"} \/ crashes > 0)

\* A started task gives its slot back, unless its worker crashes: although S3 may fail, or
\* the key may expire, so that the release meets an absent counter and its repair races
\* with other requests.
SlotsReturn ==
    \A r \in Requests :
        (faults \subseteq {"s3", "expiry"} /\ stage[r] \in RunStages)
            ~> (slot[r] = "released" \/ crashes > 0)
=============================================================================
