-------------------------- MODULE ExportJobsProofs --------------------------
(***************************************************************************)
(* What ExportJobs guarantees for any number of requests, workers and      *)
(* crashes, any limit and all faults.  The limiter and the queue are used  *)
(* as their modules describe them, so what is proved of them in            *)
(* ExportPartsProofs holds here.                                           *)
(***************************************************************************)
EXTENDS ExportJobs, FiniteSetTheorems, TLAPS

Parts == INSTANCE ExportPartsProofs
            WITH faults <- SlotFaults(faults),
                 FaultSets <- {SlotFaults(F) : F \in FaultSets},
                 Msgs <- Requests,
                 outages <- faults \cap {"redis"},
                 OutageSets <- {F \cap {"redis"} : F \in FaultSets}

-----------------------------------------------------------------------------
(* The assumptions of the two modules.                                      *)

\* What the two modules assume of their constants holds of these.
LEMMA PartAssumptions ==
    /\ Parts!IsFiniteSet(Requests)
    /\ {SlotFaults(F) : F \in FaultSets} \subseteq SUBSET Parts!FaultKinds
    /\ {F \cap {"redis"} : F \in FaultSets} \subseteq SUBSET {"redis"}
<1>1. Parts!IsFiniteSet(Requests)
  BY JobConstants DEF Parts!IsFiniteSet, IsFiniteSet
<1>2. {SlotFaults(F) : F \in FaultSets} \subseteq SUBSET Parts!FaultKinds
  BY DEF SlotFaults, Parts!FaultKinds
<1>3. {F \cap {"redis"} : F \in FaultSets} \subseteq SUBSET {"redis"}
  OBVIOUS
<1> QED
  BY <1>1, <1>2, <1>3

\* Cardinality is the same operator in every instance.
LEMMA SameCardinality ==
    ASSUME NEW S
    PROVE  Parts!Cardinality(S) = Cardinality(S) /\ Lifecycle!Cardinality(S) = Cardinality(S)
<1>1. Parts!Cardinality(S) = Cardinality(S)
  BY DEF Parts!Cardinality, Cardinality
<1>2. Lifecycle!Cardinality(S) = Cardinality(S)
  BY DEF Lifecycle!Cardinality, Cardinality
<1> QED
  BY <1>1, <1>2

-----------------------------------------------------------------------------
(* The limiter in the composition.                                          *)

\* A step of the limiter is the same step in either instance.
LEMMA SameSlotSteps ==
    /\ Slots!SlotInit => Parts!SlotInit
    /\ \A r \in Requests : Slots!SlotStep(r) => Parts!SlotStep(r)
    /\ \A S \in SUBSET Requests : Slots!Abandon(S) => Parts!Abandon(S)
    /\ Slots!Expire => Parts!Expire
<1>1. Slots!SlotInit => Parts!SlotInit
  BY DEF Slots!SlotInit, Parts!SlotInit
<1>2. ASSUME NEW r \in Requests, Slots!SlotStep(r) PROVE Parts!SlotStep(r)
  BY <1>2 DEF Slots!SlotStep, Parts!SlotStep, Slots!Take, Parts!Take, Slots!TakeError, Parts!TakeError,
     Slots!Arm, Parts!Arm, Slots!Refuse, Parts!Refuse, Slots!Cancel, Parts!Cancel, Slots!Release,
     Parts!Release, Slots!Reset, Parts!Reset, Slots!AddToKey, Parts!AddToKey, Slots!Advance, Parts!Advance
<1>3. ASSUME NEW S \in SUBSET Requests, Slots!Abandon(S) PROVE Parts!Abandon(S)
  BY <1>3 DEF Slots!Abandon, Parts!Abandon
<1>4. Slots!Expire => Parts!Expire
  BY DEF Slots!Expire, Parts!Expire
<1> QED
  BY <1>1, <1>2, <1>3, <1>4

\* Whatever a step of the system does with the slots is a step of the limiter.
LEMMA SlotPart ==
    ASSUME JobsNext
    PROVE  \/ \E r \in Requests : Slots!SlotStep(r)
           \/ \E S \in SUBSET Requests : Slots!Abandon(S)
           \/ Slots!Expire
           \/ UNCHANGED slotVars
<1> DEFINE Goal == \/ \E r \in Requests : Slots!SlotStep(r)
                   \/ \E S \in SUBSET Requests : Slots!Abandon(S)
                   \/ Slots!Expire
                   \/ UNCHANGED slotVars
<1>1. ASSUME NEW r \in Requests, RequestStep(r) PROVE Goal
  BY <1>1 DEF RequestStep, TakeSlot, ArmSlot, RefuseSlot, InsertJob, EnqueueJob, CancelRequest,
     GiveUp, Slots!SlotStep
<1>2. ASSUME NEW r \in Requests, TaskStep(r) PROVE Goal
  BY <1>2 DEF TaskStep, LookupWorkspace, MarkProcessing, LoadTimeline, Download, Encode, FailJob,
     UploadEnds, FinishJob, ReleaseSlot, ResetSlot, TaskReturns, SettleMessage, Slots!SlotStep,
     pipelineRest
<1>3. ASSUME NEW r \in Requests, ProgressStep(r) PROVE Goal
  BY <1>3 DEF ProgressStep, EncodeProgress, Tick, TickLands, pipelineRest
<1>4. ASSUME NEW w \in Workers, StartWorker(w) \/ ReadJobs(w) \/ StartJobs(w) PROVE Goal
  BY <1>4 DEF StartWorker, ReadJobs, StartJobs
<1>5. ASSUME NEW w \in Workers, LoseJobs(w) \/ CrashWorker(w) PROVE Goal
  <2>1. PICK J \in SUBSET Requests : Drop(J)
    BY <1>5 DEF LoseJobs, CrashWorker
  <2>2. Slots!Abandon({r \in J : slot[r] \in {"held", "resetting"}})
    BY <2>1 DEF Drop
  <2> QED
    BY <2>2
<1>6. CASE ExpireKey
  BY <1>6 DEF ExpireKey
<1> QED
  BY <1>1, <1>2, <1>3, <1>4, <1>5, <1>6 DEF JobsNext, WorkerStep

\* The composition runs the limiter of ExportSlots, with every promise that is proved of it.
THEOREM JobsKeepSlots == JobsSpec => []Parts!SlotOK
<1>1. JobsInit => Parts!SlotInit
  BY SameSlotSteps DEF JobsInit
<1>2. [JobsNext]_allVars => [Parts!SlotNext]_(Parts!allVars)
  <2> SUFFICES ASSUME [JobsNext]_allVars PROVE [Parts!SlotNext]_(Parts!allVars)
    OBVIOUS
  <2>1. CASE JobsNext
    <3>1. UNCHANGED SlotFaults(faults)
      BY <2>1 DEF JobsNext, SlotFaults
    <3>2. UNCHANGED slotVars => UNCHANGED Parts!allVars
      BY <3>1 DEF slotVars, Parts!allVars, Parts!slotVars
    <3> QED
      BY <2>1, <3>1, <3>2, SlotPart, SameSlotSteps DEF Parts!SlotNext
  <2>2. CASE UNCHANGED allVars
    BY <2>2 DEF allVars, jobVars, slotVars, Parts!allVars, Parts!slotVars, SlotFaults
  <2> QED
    BY <2>1, <2>2
<1>3. Parts!SlotSpec => []Parts!SlotOK
  BY Parts!SlotCorrect, PartAssumptions, JobConstants
<1> QED
  BY <1>1, <1>2, <1>3, PTL DEF JobsSpec, Parts!SlotSpec

-----------------------------------------------------------------------------
(* The queue in the composition.                                            *)

\* A step of the queue is the same step in either instance.
LEMMA SameQueueSteps ==
    /\ Queue!QueueInit => Parts!QueueInit
    /\ \A r \in Requests : Queue!MessageStep(r) => Parts!MessageStep(r)
    /\ \A w \in Workers : Queue!WorkerStep(w) => Parts!WorkerStep(w)
<1>1. Queue!QueueInit => Parts!QueueInit
  BY DEF Queue!QueueInit, Parts!QueueInit
<1>2. ASSUME NEW r \in Requests, Queue!MessageStep(r) PROVE Parts!MessageStep(r)
  BY <1>2 DEF Queue!MessageStep, Parts!MessageStep, Queue!Publish, Parts!Publish, Queue!Dispatched,
     Parts!Dispatched, Queue!Ack, Parts!Ack, Queue!MaybeDeadLetter, Parts!MaybeDeadLetter,
     Queue!groupVars, Parts!groupVars, Queue!procVars, Parts!procVars, Queue!streamVars, Parts!streamVars
<1>3. ASSUME NEW w \in Workers, Queue!WorkerStep(w) PROVE Parts!WorkerStep(w)
  BY <1>3 DEF Queue!WorkerStep, Parts!WorkerStep, Queue!Boot, Parts!Boot, Queue!EnsureGroups,
     Parts!EnsureGroups, Queue!ReadGroup, Parts!ReadGroup, Queue!SpawnTasks, Parts!SpawnTasks,
     Queue!LoseAnswer, Parts!LoseAnswer, Queue!HandedBecome, Parts!HandedBecome, Queue!Reading,
     Parts!Reading, Queue!Crash, Parts!Crash,
     Queue!Undelivered, Parts!Undelivered, Queue!NextBatch, Parts!NextBatch, Queue!AfterBatch,
     Parts!AfterBatch, Queue!InTask, Parts!InTask,
     Queue!groupVars, Parts!groupVars, Queue!procVars, Parts!procVars, Queue!streamVars, Parts!streamVars
<1> QED
  BY <1>1, <1>2, <1>3

\* Whatever a step of the system does with the stream is a step of the queue.
LEMMA QueuePart ==
    ASSUME JobsNext
    PROVE  \/ \E r \in Requests : Queue!MessageStep(r)
           \/ \E w \in Workers : Queue!WorkerStep(w)
           \/ UNCHANGED qVars
<1> DEFINE Goal == \/ \E r \in Requests : Queue!MessageStep(r)
                   \/ \E w \in Workers : Queue!WorkerStep(w)
                   \/ UNCHANGED qVars
<1>1. ASSUME NEW r \in Requests, RequestStep(r) PROVE Goal
  BY <1>1 DEF RequestStep, TakeSlot, ArmSlot, RefuseSlot, InsertJob, EnqueueJob, CancelRequest,
     Queue!MessageStep
<1>2. ASSUME NEW r \in Requests, TaskReturns(r) PROVE Goal
  <2>1. Queue!Dispatched(r, outcome[r])
    BY <1>2 DEF TaskReturns
  <2>2. outcome[r] \in {"succeeded", "failed"}
    BY <2>1 DEF Queue!Dispatched
  <2> QED
    BY <2>1, <2>2 DEF Queue!MessageStep
<1>3. ASSUME NEW r \in Requests, TaskStep(r) PROVE Goal
  BY <1>2, <1>3 DEF TaskStep, LookupWorkspace, MarkProcessing, LoadTimeline, Download, Encode,
     FailJob, UploadEnds, FinishJob, ReleaseSlot, ResetSlot, SettleMessage, Queue!MessageStep,
     pipelineRest
<1>4. ASSUME NEW r \in Requests, ProgressStep(r) PROVE Goal
  BY <1>4 DEF ProgressStep, EncodeProgress, Tick, TickLands, pipelineRest
<1>5. ASSUME NEW w \in Workers, WorkerStep(w) PROVE Goal
  BY <1>5 DEF WorkerStep, StartWorker, ReadJobs, StartJobs, LoseJobs, CrashWorker, Queue!WorkerStep
<1>6. CASE ExpireKey
  BY <1>6 DEF ExpireKey
<1> QED
  BY <1>1, <1>3, <1>4, <1>5, <1>6 DEF JobsNext

\* The composition runs the consumer loop of WorkerQueue: no job is delivered twice.
THEOREM JobsKeepQueue == JobsSpec => []Parts!DeliveryInv
<1>1. JobsInit => Parts!QueueInit
  BY SameQueueSteps DEF JobsInit
<1>2. [JobsNext]_allVars => [Parts!QueueNext]_(Parts!queueAllVars)
  <2> SUFFICES ASSUME [JobsNext]_allVars PROVE [Parts!QueueNext]_(Parts!queueAllVars)
    OBVIOUS
  <2>1. CASE JobsNext
    <3>1. UNCHANGED (faults \cap {"redis"})
      BY <2>1 DEF JobsNext
    <3>2. UNCHANGED qVars => UNCHANGED Parts!queueAllVars
      BY <3>1 DEF qVars, Parts!queueAllVars, Parts!queueVars
    <3> QED
      BY <2>1, <3>1, <3>2, QueuePart, SameQueueSteps DEF Parts!QueueNext
  <2>2. CASE UNCHANGED allVars
    BY <2>2 DEF allVars, jobVars, qVars, Parts!queueAllVars, Parts!queueVars
  <2> QED
    BY <2>1, <2>2
<1>3. Parts!QueueSpec => []Parts!DeliveryInv
  BY Parts!DeliveryInvariant, PartAssumptions, JobConstants
<1> QED
  BY <1>1, <1>2, <1>3, PTL DEF JobsSpec, Parts!QueueSpec
-----------------------------------------------------------------------------
(* The rows, tasks and slots of the jobs.                                   *)

(***************************************************************************)
(* None of the promises is inductive alone: they need to know how the      *)
(* places that tell of one job go together.  A task is at an await exactly *)
(* when its message is being worked on; up to the release it has the slot; *)
(* where it is says what its row may be and how far the percentage is; and *)
(* a message that no task has yet keeps the slot that its request took.    *)
(***************************************************************************)
WithSlot == RunStages \ {"reset", "return"}
Working  == {"load", "download", "encode", "upload", "finish", "fail"}

RequestOK(r) ==
    /\ slot[r] = "idle" <=> api[r] = "idle"
    /\ slot[r] \in {"arming", "over"} => api[r] = "limiter"
    /\ api[r] = "limiter" => slot[r] \in {"arming", "over", "held"}
    /\ api[r] \in {"idle", "limiter"} => row[r] = "absent" /\ entry[r] = 0
    /\ api[r] = "enqueue" => slot[r] = "held" /\ row[r] = "queued" /\ entry[r] = 0
    /\ entry[r] = 0 => stage[r] = "none" /\ handle[r] = "none"
    /\ stage[r] = "none" => row[r] \in {"absent", "queued"}
    /\ stage[r] = "none" /\ entry[r] # 0 => slot[r] = "held" /\ row[r] = "queued"

TaskOK(r) ==
    /\ stage[r] = "none" <=> handle[r] \in {"none", "delivered"}
    /\ stage[r] \in RunStages <=> handle[r] = "running"
    /\ handle[r] # "none" => entry[r] <= cursor
    /\ stage[r] \in WithSlot => slot[r] = "held"
    /\ stage[r] = "reset" => slot[r] = "resetting"
    /\ stage[r] \in {"return", "over"} => slot[r] \in {"released", "lost"}
    /\ stage[r] \in {"lookup", "mark"} => row[r] = "queued"
    /\ stage[r] \in Working => row[r] = "processing"
    /\ ("redis" \notin faults /\ wsKnown[r]
        /\ (stage[r] = "return" \/ handle[r] \in {"succeeded", "failed", "dead", "settled", "left"}))
         => slot[r] = "released"

PercentOK(r) ==
    /\ stage[r] \in {"none", "lookup", "mark", "load", "download"} => progress[r] = 0
    /\ stage[r] = "encode" => progress[r] <= 50
    /\ ticking[r] => stage[r] = "upload"
    /\ sent[r] # 0 => stage[r] \in {"upload", "finish", "release", "reset", "return", "over"}
    /\ sent[r] # 0 /\ row[r] = "processing" => sent[r] > progress[r]

JobInv == JobsTypeOK /\ \A r \in Requests : RequestOK(r) /\ TaskOK(r) /\ PercentOK(r)

\* What is known of the limiter's and the queue's state.
Around ==
    /\ slot \in [Requests -> Parts!SlotStates]
    /\ entry \in [Requests -> Nat] /\ cursor \in Nat /\ tail \in Nat /\ cursor <= tail
    /\ \A r \in Requests : entry[r] <= tail
    /\ handle \in [Requests -> Parts!HandleStates]
    /\ owner \in [Requests -> Workers \cup {NoWorker}]

\* It follows from what is proved of the two.
LEMMA AroundHolds == Parts!SlotOK /\ Parts!DeliveryInv => Around
BY DEF Parts!SlotOK, Parts!SlotTypeOK, Parts!DeliveryInv, Parts!QueueTypeOK, Around

\* The limiter's faults are those of the system.
LEMMA FaultNames ==
    /\ "redis" \in SlotFaults(faults) <=> "redis" \in faults
    /\ "expiry" \in SlotFaults(faults) <=> "expiry" \in faults
BY DEF SlotFaults

JobOK(r) == RequestOK(r) /\ TaskOK(r) /\ PercentOK(r)

\* Nothing of job r changes.
Same(r) ==
    /\ api'[r] = api[r] /\ row'[r] = row[r] /\ progress'[r] = progress[r]
    /\ stage'[r] = stage[r] /\ wsKnown'[r] = wsKnown[r] /\ ticking'[r] = ticking[r]
    /\ sent'[r] = sent[r] /\ slot'[r] = slot[r] /\ entry'[r] = entry[r] /\ handle'[r] = handle[r]

\* A job of which nothing changes stays as good as it was, while the group moves on.
LEMMA Apart ==
    ASSUME Around, Around', NEW r \in Requests, JobOK(r), Same(r), faults' = faults,
           cursor <= cursor'
    PROVE  JobOK(r)'
<1>1. RequestOK(r)'
  BY DEF JobOK, RequestOK, Same
<1>2. TaskOK(r)'
  BY DEF JobOK, TaskOK, Same, Around
<1>3. PercentOK(r)'
  BY DEF JobOK, PercentOK, Same
<1> QED
  BY <1>1, <1>2, <1>3 DEF JobOK

\* A step that is about one job has to be looked at for that job only.
LEMMA OneJob ==
    ASSUME JobInv, Around, Around', faults' = faults, cursor <= cursor', JobsTypeOK',
           NEW r \in Requests, JobOK(r)', \A s \in Requests \ {r} : Same(s)
    PROVE  JobInv'
<1>1. \A s \in Requests \ {r} : JobOK(s)'
  BY Apart DEF JobInv, JobOK
<1> QED
  BY <1>1 DEF JobInv, JobOK

-----------------------------------------------------------------------------
(* The steps of a request.                                                  *)

\* Every await of create_export keeps the invariant.
LEMMA RequestSteps ==
    ASSUME JobInv, Around, Around', NEW r \in Requests, RequestStep(r), faults' = faults
    PROVE  JobInv'
<1> USE DEF JobInv, JobsTypeOK, Around, ApiMoves
<1>1. /\ row \in [Requests -> RowStates] /\ api \in [Requests -> ApiStates]
      /\ slot \in [Requests -> Parts!SlotStates] /\ entry \in [Requests -> Nat]
  OBVIOUS
<1>2. RequestOK(r) /\ TaskOK(r) /\ PercentOK(r)
  OBVIOUS
<1>3. ASSUME TakeSlot(r) PROVE JobInv'
  <2>1. JobsTypeOK' /\ cursor' = cursor
    BY <1>3 DEF TakeSlot, qVars, taskVars, ApiStates
  <2>2. JobOK(r)'
    BY <1>2, <1>3 DEF TakeSlot, qVars, taskVars, Slots!Take, Slots!TakeError, Slots!Advance,
       JobOK, RequestOK, TaskOK, PercentOK, RunStages, WithSlot, Working
  <2>3. \A s \in Requests \ {r} : Same(s)
    BY <1>3 DEF TakeSlot, qVars, taskVars, Slots!Take, Slots!TakeError, Slots!Advance, Same
  <2> QED
    BY <2>1, <2>2, <2>3, OneJob
<1>4. ASSUME ArmSlot(r) PROVE JobInv'
  <2>1. JobsTypeOK' /\ cursor' = cursor
    BY <1>4 DEF ArmSlot, qVars, taskVars
  <2>2. JobOK(r)'
    BY <1>2, <1>4 DEF ArmSlot, qVars, taskVars, Slots!Arm, Slots!Advance,
       JobOK, RequestOK, TaskOK, PercentOK, RunStages, WithSlot, Working
  <2>3. \A s \in Requests \ {r} : Same(s)
    BY <1>4 DEF ArmSlot, qVars, taskVars, Slots!Arm, Slots!Advance, Same
  <2> QED
    BY <2>1, <2>2, <2>3, OneJob
<1>5. ASSUME RefuseSlot(r) PROVE JobInv'
  <2>1. JobsTypeOK' /\ cursor' = cursor
    BY <1>5 DEF RefuseSlot, qVars, taskVars, ApiStates
  <2>2. JobOK(r)'
    BY <1>2, <1>5 DEF RefuseSlot, qVars, taskVars, Slots!Refuse, Slots!Advance,
       JobOK, RequestOK, TaskOK, PercentOK, RunStages, WithSlot, Working
  <2>3. \A s \in Requests \ {r} : Same(s)
    BY <1>5 DEF RefuseSlot, qVars, taskVars, Slots!Refuse, Slots!Advance, Same
  <2> QED
    BY <2>1, <2>2, <2>3, OneJob
<1>6. ASSUME InsertJob(r) PROVE JobInv'
  <2>1. JobsTypeOK' /\ cursor' = cursor
    BY <1>6 DEF InsertJob, GiveUp, qVars, taskVars, ApiStates, RowStates
  <2>2. JobOK(r)'
    BY <1>2, <1>6 DEF InsertJob, GiveUp, qVars, taskVars, slotVars, Slots!Abandon,
       JobOK, RequestOK, TaskOK, PercentOK, RunStages, WithSlot, Working
  <2>3. \A s \in Requests \ {r} : Same(s)
    BY <1>6 DEF InsertJob, GiveUp, qVars, taskVars, slotVars, Slots!Abandon, Same
  <2> QED
    BY <2>1, <2>2, <2>3, OneJob
<1>7. ASSUME EnqueueJob(r) PROVE JobInv'
  <2>1. JobsTypeOK' /\ cursor' = cursor
    BY <1>7 DEF EnqueueJob, GiveUp, qVars, taskVars, ApiStates, Queue!Publish, Queue!groupVars
  <2>2. JobOK(r)'
    BY <1>2, <1>7 DEF EnqueueJob, GiveUp, qVars, taskVars, slotVars, Slots!Abandon, Queue!Publish,
       Queue!groupVars, Queue!procVars,
       JobOK, RequestOK, TaskOK, PercentOK, RunStages, WithSlot, Working
  <2>3. \A s \in Requests \ {r} : Same(s)
    BY <1>7 DEF EnqueueJob, GiveUp, qVars, taskVars, slotVars, Slots!Abandon, Queue!Publish,
       Queue!groupVars, Queue!procVars, Same
  <2> QED
    BY <2>1, <2>2, <2>3, OneJob
<1>8. ASSUME CancelRequest(r) PROVE JobInv'
  <2>1. JobsTypeOK' /\ cursor' = cursor
    BY <1>8 DEF CancelRequest, GiveUp, qVars, taskVars, ApiStates
  <2>2. JobOK(r)'
    BY <1>2, <1>8 DEF CancelRequest, GiveUp, qVars, taskVars, Slots!Abandon, Slots!Cancel,
       Slots!Advance, JobOK, RequestOK, TaskOK, PercentOK, RunStages, WithSlot, Working
  <2>3. \A s \in Requests \ {r} : Same(s)
    BY <1>8 DEF CancelRequest, GiveUp, qVars, taskVars, Slots!Abandon, Slots!Cancel,
       Slots!Advance, Same
  <2> QED
    BY <2>1, <2>2, <2>3, OneJob
<1> QED
  BY <1>3, <1>4, <1>5, <1>6, <1>7, <1>8 DEF RequestStep

-----------------------------------------------------------------------------
(* The steps of a task and of its ticker.                                   *)

\* The awaits of run and run_inner, and what the consumer loop does with the result.
LEMMA TaskSteps ==
    ASSUME JobInv, Around, Around', NEW r \in Requests, TaskStep(r), faults' = faults
    PROVE  JobInv'
<1> USE DEF JobInv, JobsTypeOK, Around
<1>1. /\ slot \in [Requests -> Parts!SlotStates] /\ row \in [Requests -> RowStates]
      /\ progress \in [Requests -> Percents] /\ stage \in [Requests -> RunStages \cup {"none", "over"}]
      /\ handle \in [Requests -> Parts!HandleStates] /\ sent \in [Requests -> {0, 97, 99}]
  OBVIOUS
<1>2. RequestOK(r) /\ TaskOK(r) /\ PercentOK(r)
  OBVIOUS
<1>3. ASSUME LookupWorkspace(r) PROVE JobInv'
  <2>1. JobsTypeOK' /\ cursor' = cursor
    <3>1. stage' \in [Requests -> RunStages \cup {"none", "over"}]
      BY <1>3 DEF LookupWorkspace, Goes, RunStages
    <3>2. wsKnown' \in [Requests -> BOOLEAN]
      <4>1. /\ wsKnown \in [Requests -> BOOLEAN]
            /\ wsKnown' = wsKnown \/ wsKnown' = [wsKnown EXCEPT ![r] = TRUE]
        BY <1>3 DEF LookupWorkspace
      <4> HIDE DEF JobInv, JobsTypeOK, Around
      <4> QED
        BY <4>1, Zenon
    <3>3. UNCHANGED <<api, row, progress, outcome, ticking, sent, faults, cursor>>
      BY <1>3 DEF LookupWorkspace, pipelineRest, qVars
    <3> HIDE DEF JobInv, Around
    <3>4. JobsTypeOK
      BY DEF JobInv
    <3> QED
      BY <3>1, <3>2, <3>3, <3>4
  <2>2. JobOK(r)'
    BY <1>1, <1>2, <1>3, FaultNames DEF LookupWorkspace, Goes, pipelineRest, slotVars, qVars,
       JobOK, RequestOK, TaskOK, PercentOK, RowStates, RunStages, WithSlot, Working, Percents
  <2>3. \A s \in Requests \ {r} : Same(s)
    BY <1>3 DEF LookupWorkspace, Goes, pipelineRest, slotVars, qVars, Same
  <2> QED
    BY <2>1, <2>2, <2>3, OneJob
<1>4. ASSUME MarkProcessing(r) PROVE JobInv'
  <2>1. JobsTypeOK' /\ cursor' = cursor
    BY <1>4, FaultNames DEF MarkProcessing, SetsRow, Errs, Goes, pipelineRest, slotVars, qVars,
       RowStates, RunStages, Percents
  <2>2. JobOK(r)'
    BY <1>1, <1>2, <1>4, FaultNames DEF MarkProcessing, SetsRow, Errs, Goes, pipelineRest,
       slotVars, qVars, JobOK, RequestOK, TaskOK, PercentOK, RowStates, RunStages, WithSlot,
       Working, Percents
  <2>3. \A s \in Requests \ {r} : Same(s)
    BY <1>4 DEF MarkProcessing, SetsRow, Errs, Goes, pipelineRest, slotVars, qVars, Same
  <2> QED
    BY <2>1, <2>2, <2>3, OneJob
<1>5. ASSUME LoadTimeline(r) PROVE JobInv'
  <2>1. JobsTypeOK' /\ cursor' = cursor
    BY <1>5, FaultNames DEF LoadTimeline, Errs, Goes, pipelineRest, slotVars, qVars, RowStates,
       RunStages, Percents
  <2>2. JobOK(r)'
    BY <1>1, <1>2, <1>5, FaultNames DEF LoadTimeline, Errs, Goes, pipelineRest, slotVars, qVars,
       JobOK, RequestOK, TaskOK, PercentOK, RowStates, RunStages, WithSlot, Working, Percents
  <2>3. \A s \in Requests \ {r} : Same(s)
    BY <1>5 DEF LoadTimeline, Errs, Goes, pipelineRest, slotVars, qVars, Same
  <2> QED
    BY <2>1, <2>2, <2>3, OneJob
<1>6. ASSUME Download(r) PROVE JobInv'
  <2>1. JobsTypeOK' /\ cursor' = cursor
    BY <1>6, FaultNames DEF Download, Shows, Errs, Goes, pipelineRest, slotVars, qVars,
       RowStates, RunStages, Percents
  <2>2. JobOK(r)'
    BY <1>1, <1>2, <1>6, FaultNames DEF Download, Shows, Errs, Goes, pipelineRest, slotVars,
       qVars, JobOK, RequestOK, TaskOK, PercentOK, RowStates, RunStages, WithSlot, Working,
       Percents
  <2>3. \A s \in Requests \ {r} : Same(s)
    BY <1>6 DEF Download, Shows, Errs, Goes, pipelineRest, slotVars, qVars, Same
  <2> QED
    BY <2>1, <2>2, <2>3, OneJob
<1>7. ASSUME Encode(r) PROVE JobInv'
  <2>1. JobsTypeOK' /\ cursor' = cursor
    <3>1. progress' \in [Requests -> Percents]
      BY <1>7 DEF Encode, Shows, Percents
    <3>2. stage' \in [Requests -> RunStages \cup {"none", "over"}]
      BY <1>7 DEF Encode, Goes, RunStages
    <3>3. outcome' \in [Requests -> {"succeeded", "failed"}]
      BY <1>7 DEF Encode
    <3>4. ticking' \in [Requests -> BOOLEAN]
      <4>1. /\ ticking \in [Requests -> BOOLEAN]
            /\ ticking' = ticking \/ ticking' = [ticking EXCEPT ![r] = TRUE]
        BY <1>7 DEF Encode
      <4> HIDE DEF JobInv, JobsTypeOK, Around
      <4> QED
        BY <4>1, Zenon
    <3>5. UNCHANGED <<api, row, wsKnown, sent, faults, cursor>>
      BY <1>7 DEF Encode, pipelineRest, qVars
    <3> HIDE DEF JobInv, Around
    <3>6. JobsTypeOK
      BY DEF JobInv
    <3> QED
      BY <3>1, <3>2, <3>3, <3>4, <3>5, <3>6
  <2>2. JobOK(r)'
    BY <1>1, <1>2, <1>7, FaultNames DEF Encode, Shows, Goes, pipelineRest, slotVars, qVars,
       JobOK, RequestOK, TaskOK, PercentOK, RowStates, RunStages, WithSlot, Working, Percents
  <2>3. \A s \in Requests \ {r} : Same(s)
    BY <1>7 DEF Encode, Shows, Goes, pipelineRest, slotVars, qVars, Same
  <2> QED
    BY <2>1, <2>2, <2>3, OneJob
<1>8. ASSUME FailJob(r) PROVE JobInv'
  <2>1. JobsTypeOK' /\ cursor' = cursor
    BY <1>8, FaultNames DEF FailJob, SetsRow, Errs, Goes, pipelineRest, slotVars, qVars,
       RowStates, RunStages, Percents
  <2>2. JobOK(r)'
    BY <1>1, <1>2, <1>8, FaultNames DEF FailJob, SetsRow, Errs, Goes, pipelineRest, slotVars,
       qVars, JobOK, RequestOK, TaskOK, PercentOK, RowStates, RunStages, WithSlot, Working,
       Percents
  <2>3. \A s \in Requests \ {r} : Same(s)
    BY <1>8 DEF FailJob, SetsRow, Errs, Goes, pipelineRest, slotVars, qVars, Same
  <2> QED
    BY <2>1, <2>2, <2>3, OneJob
<1>9. ASSUME UploadEnds(r) PROVE JobInv'
  <2>1. JobsTypeOK' /\ cursor' = cursor
    BY <1>9, FaultNames DEF UploadEnds, Errs, Goes, pipelineRest, slotVars, qVars, RowStates,
       RunStages, Percents
  <2>2. JobOK(r)'
    BY <1>1, <1>2, <1>9, FaultNames DEF UploadEnds, Errs, Goes, pipelineRest, slotVars, qVars,
       JobOK, RequestOK, TaskOK, PercentOK, RowStates, RunStages, WithSlot, Working, Percents
  <2>3. \A s \in Requests \ {r} : Same(s)
    BY <1>9 DEF UploadEnds, Errs, Goes, pipelineRest, slotVars, qVars, Same
  <2> QED
    BY <2>1, <2>2, <2>3, OneJob
<1>10. ASSUME FinishJob(r) PROVE JobInv'
  <2>1. JobsTypeOK' /\ cursor' = cursor
    BY <1>10, FaultNames DEF FinishJob, SetsRow, Errs, Goes, pipelineRest, slotVars, qVars,
       RowStates, RunStages, Percents
  <2>2. JobOK(r)'
    BY <1>1, <1>2, <1>10, FaultNames DEF FinishJob, SetsRow, Errs, Goes, pipelineRest, slotVars,
       qVars, JobOK, RequestOK, TaskOK, PercentOK, RowStates, RunStages, WithSlot, Working,
       Percents
  <2>3. \A s \in Requests \ {r} : Same(s)
    BY <1>10 DEF FinishJob, SetsRow, Errs, Goes, pipelineRest, slotVars, qVars, Same
  <2> QED
    BY <2>1, <2>2, <2>3, OneJob
<1>11. ASSUME ReleaseSlot(r) PROVE JobInv'
  <2>1. JobsTypeOK' /\ cursor' = cursor
    BY <1>11, FaultNames DEF ReleaseSlot, Goes, qVars, Slots!Release, Slots!Advance,
       Slots!Abandon, RowStates, RunStages, Percents
  <2>2. JobOK(r)'
    BY <1>1, <1>2, <1>11, FaultNames DEF ReleaseSlot, Goes, qVars, Slots!Release, Slots!Advance,
       Slots!Abandon, JobOK, RequestOK, TaskOK, PercentOK, RowStates, RunStages, WithSlot, Working,
       Percents
  <2>3. \A s \in Requests \ {r} : Same(s)
    BY <1>11 DEF ReleaseSlot, Goes, qVars, Slots!Release, Slots!Advance, Slots!Abandon, Same
  <2> QED
    BY <2>1, <2>2, <2>3, OneJob
<1>12. ASSUME ResetSlot(r) PROVE JobInv'
  <2>1. JobsTypeOK' /\ cursor' = cursor
    BY <1>12, FaultNames DEF ResetSlot, Goes, qVars, Slots!Reset, Slots!Advance, RowStates,
       RunStages, Percents
  <2>2. JobOK(r)'
    BY <1>1, <1>2, <1>12, FaultNames DEF ResetSlot, Goes, qVars, Slots!Reset, Slots!Advance,
       JobOK, RequestOK, TaskOK, PercentOK, RowStates, RunStages, WithSlot, Working, Percents
  <2>3. \A s \in Requests \ {r} : Same(s)
    BY <1>12 DEF ResetSlot, Goes, qVars, Slots!Reset, Slots!Advance, Same
  <2> QED
    BY <2>1, <2>2, <2>3, OneJob
<1>13. ASSUME TaskReturns(r) PROVE JobInv'
  <2>1. JobsTypeOK' /\ cursor' = cursor
    BY <1>13, FaultNames DEF TaskReturns, Goes, slotVars, Queue!Dispatched, Queue!groupVars,
       Queue!streamVars, RowStates, RunStages, Percents
  <2>2. JobOK(r)'
    BY <1>1, <1>2, <1>13, FaultNames DEF TaskReturns, Goes, slotVars, Queue!Dispatched,
       Queue!groupVars, Queue!streamVars, JobOK, RequestOK, TaskOK, PercentOK, RowStates,
       RunStages, WithSlot, Working, Percents
  <2>3. \A s \in Requests \ {r} : Same(s)
    BY <1>13 DEF TaskReturns, Goes, slotVars, Queue!Dispatched, Queue!groupVars,
       Queue!streamVars, Same
  <2> QED
    BY <2>1, <2>2, <2>3, OneJob
<1>14. ASSUME SettleMessage(r) PROVE JobInv'
  <2>1. JobsTypeOK' /\ cursor' = cursor
    BY <1>14, FaultNames DEF SettleMessage, taskVars, slotVars, Queue!Ack,
       Queue!MaybeDeadLetter, Queue!groupVars, Queue!streamVars, RowStates, RunStages, Percents
  <2>2. JobOK(r)'
    BY <1>1, <1>2, <1>14, FaultNames DEF SettleMessage, taskVars, slotVars, Queue!Ack,
       Queue!MaybeDeadLetter, Queue!groupVars, Queue!streamVars, JobOK, RequestOK, TaskOK,
       PercentOK, RowStates, RunStages, WithSlot, Working, Percents
  <2>3. \A s \in Requests \ {r} : Same(s)
    BY <1>14 DEF SettleMessage, taskVars, slotVars, Queue!Ack, Queue!MaybeDeadLetter,
       Queue!groupVars, Queue!streamVars, Same
  <2> QED
    BY <2>1, <2>2, <2>3, OneJob
<1> QED
  BY <1>3, <1>4, <1>5, <1>6, <1>7, <1>8, <1>9, <1>10, <1>11, <1>12, <1>13, <1>14 DEF TaskStep

\* What writes the percentage besides the stages.
LEMMA ProgressSteps ==
    ASSUME JobInv, Around, Around', NEW r \in Requests, ProgressStep(r), faults' = faults
    PROVE  JobInv'
<1> USE DEF JobInv, JobsTypeOK, Around
<1>1. /\ slot \in [Requests -> Parts!SlotStates] /\ row \in [Requests -> RowStates]
      /\ progress \in [Requests -> Percents] /\ stage \in [Requests -> RunStages \cup {"none", "over"}]
      /\ handle \in [Requests -> Parts!HandleStates] /\ sent \in [Requests -> {0, 97, 99}]
  OBVIOUS
<1>2. RequestOK(r) /\ TaskOK(r) /\ PercentOK(r)
  OBVIOUS
<1>3. ASSUME EncodeProgress(r) PROVE JobInv'
  <2>1. JobsTypeOK' /\ cursor' = cursor
    BY <1>3, FaultNames DEF EncodeProgress, Shows, pipelineRest, taskVars, slotVars, qVars,
       RowStates, RunStages, Percents
  <2>2. JobOK(r)'
    BY <1>1, <1>2, <1>3, FaultNames DEF EncodeProgress, Shows, pipelineRest, taskVars, slotVars,
       qVars, JobOK, RequestOK, TaskOK, PercentOK, RowStates, RunStages, WithSlot, Working,
       Percents
  <2>3. \A s \in Requests \ {r} : Same(s)
    BY <1>3 DEF EncodeProgress, Shows, pipelineRest, taskVars, slotVars, qVars, Same
  <2> QED
    BY <2>1, <2>2, <2>3, OneJob
<1>4. ASSUME Tick(r) PROVE JobInv'
  <2>1. JobsTypeOK' /\ cursor' = cursor
    BY <1>4, FaultNames DEF Tick, pipelineRest, slotVars, qVars, RowStates, RunStages, Percents
  <2>2. JobOK(r)'
    BY <1>1, <1>2, <1>4, FaultNames DEF Tick, pipelineRest, slotVars, qVars, JobOK, RequestOK,
       TaskOK, PercentOK, RowStates, RunStages, WithSlot, Working, Percents
  <2>3. \A s \in Requests \ {r} : Same(s)
    BY <1>4 DEF Tick, pipelineRest, slotVars, qVars, Same
  <2> QED
    BY <2>1, <2>2, <2>3, OneJob
<1>5. ASSUME TickLands(r) PROVE JobInv'
  <2>1. JobsTypeOK' /\ cursor' = cursor
    BY <1>5, FaultNames DEF TickLands, Shows, pipelineRest, slotVars, qVars, RowStates,
       RunStages, Percents
  <2>2. JobOK(r)'
    BY <1>1, <1>2, <1>5, FaultNames DEF TickLands, Shows, pipelineRest, slotVars, qVars, JobOK,
       RequestOK, TaskOK, PercentOK, RowStates, RunStages, WithSlot, Working, Percents
  <2>3. \A s \in Requests \ {r} : Same(s)
    BY <1>5 DEF TickLands, Shows, pipelineRest, slotVars, qVars, Same
  <2> QED
    BY <2>1, <2>2, <2>3, OneJob
<1> QED
  BY <1>3, <1>4, <1>5 DEF ProgressStep

-----------------------------------------------------------------------------
(* The steps of a worker, which are about several jobs.                     *)

\* A worker starts: no job is touched.
LEMMA StartSteps ==
    ASSUME JobInv, Around, Around', NEW w \in Workers, StartWorker(w), faults' = faults
    PROVE  JobInv'
<1>1. JobsTypeOK'
  BY DEF StartWorker, taskVars, JobInv, JobsTypeOK
<1>2. cursor <= cursor'
  BY DEF StartWorker, Queue!Boot, Queue!EnsureGroups, Queue!groupVars, Around
<1>3. ASSUME NEW r \in Requests PROVE Same(r)
  BY DEF StartWorker, Queue!Boot, Queue!EnsureGroups, Queue!groupVars, Queue!streamVars,
     slotVars, taskVars, Same
<1> QED
  BY <1>1, <1>2, <1>3, Apart DEF JobInv, JobOK

\* What is read had no task, and its request is still holding the slot.
LEMMA ReadFinds ==
    ASSUME JobInv, Around, NEW w \in Workers, ReadJobs(w)
    PROVE  /\ cursor <= cursor'
           /\ \A r \in Requests :
                \/ Same(r)
                \/ /\ handle[r] = "none" /\ handle'[r] = "delivered"
                   /\ stage[r] = "none"
                   /\ entry[r] # 0 /\ entry'[r] = entry[r] /\ entry[r] <= cursor'
<1>1. cursor <= cursor' /\ cursor' \in Nat
  BY JobConstants DEF ReadJobs, Queue!ReadGroup, Queue!AfterBatch, Around
<1>2. ASSUME NEW r \in Requests, r \in Queue!NextBatch
      PROVE  handle[r] = "none" /\ stage[r] = "none" /\ entry[r] # 0
  <2>1. entry[r] > cursor
    BY <1>2 DEF Queue!NextBatch, Queue!Undelivered
  <2>2. RequestOK(r) /\ TaskOK(r)
    BY DEF JobInv
  <2> QED
    BY <2>1, <2>2 DEF RequestOK, TaskOK, Around
<1>3. ASSUME NEW r \in Requests, r \in Queue!NextBatch
      PROVE  entry[r] <= cursor'
  <2>1. entry[r] <= cursor + Batch /\ entry[r] \in Nat /\ cursor \in Nat /\ tail \in Nat
    BY <1>3 DEF Queue!NextBatch, Around
  <2>2. entry[r] <= tail
    BY DEF Around
  <2> QED
    BY <2>1, <2>2, JobConstants DEF ReadJobs, Queue!ReadGroup, Queue!AfterBatch
<1>4. ASSUME NEW r \in Requests
      PROVE  \/ handle'[r] = handle[r]
             \/ r \in Queue!NextBatch /\ handle'[r] = "delivered"
  BY DEF ReadJobs, Queue!ReadGroup, Around
<1> QED
  BY <1>1, <1>2, <1>3, <1>4
     DEF ReadJobs, Queue!ReadGroup, Queue!streamVars, slotVars, taskVars, Same

\* A job that is read has no task yet, and all else about it stays.
LEMMA ReadSteps ==
    ASSUME JobInv, Around, Around', NEW w \in Workers, ReadJobs(w), faults' = faults
    PROVE  JobInv'
<1>1. JobsTypeOK'
  BY DEF ReadJobs, taskVars, JobInv, JobsTypeOK
<1>2. ASSUME NEW r \in Requests PROVE JobOK(r)'
  <2>1. CASE Same(r)
    BY <2>1, ReadFinds, Apart DEF JobInv, JobOK
  <2>2. CASE ~Same(r)
    <3>1. /\ handle[r] = "none" /\ handle'[r] = "delivered"
          /\ stage[r] = "none"
          /\ entry[r] # 0 /\ entry'[r] = entry[r] /\ entry[r] <= cursor'
      BY <2>2, ReadFinds
    <3>2. /\ api'[r] = api[r] /\ slot'[r] = slot[r] /\ row'[r] = row[r] /\ progress'[r] = progress[r]
          /\ wsKnown'[r] = wsKnown[r] /\ ticking'[r] = ticking[r] /\ sent'[r] = sent[r]
          /\ stage'[r] = stage[r]
      BY DEF ReadJobs, slotVars, taskVars
    <3>3. RequestOK(r) /\ TaskOK(r) /\ PercentOK(r)
      BY DEF JobInv
    <3> QED
      BY <3>1, <3>2, <3>3 DEF JobOK, RequestOK, TaskOK, PercentOK, RunStages, WithSlot, Working
  <2> QED
    BY <2>1, <2>2
<1> QED
  BY <1>1, <1>2 DEF JobInv, JobOK

\* What was handed to the worker had no task, and its request is still holding the slot.
LEMMA HandedWaits ==
    ASSUME JobInv, Around, NEW r \in Requests, handle[r] = "delivered"
    PROVE  stage[r] = "none" /\ entry[r] # 0 /\ slot[r] = "held" /\ row[r] = "queued"
BY DEF JobInv, RequestOK, TaskOK

\* A job that is started begins with the slot of its request and a queued row.
LEMMA SpawnSteps ==
    ASSUME JobInv, Around, Around', NEW w \in Workers, StartJobs(w), faults' = faults
    PROVE  JobInv'
<1>1. JobsTypeOK'
  BY DEF StartJobs, JobInv, JobsTypeOK, RunStages
<1>2. cursor' = cursor /\ entry' = entry
  BY DEF StartJobs, Queue!SpawnTasks, Queue!groupVars, Queue!streamVars
<1>3. ASSUME NEW r \in Requests PROVE JobOK(r)'
  <2> DEFINE starts == owner[r] = w /\ handle[r] = "delivered"
  <2>1. /\ handle'[r] = IF starts THEN "running" ELSE handle[r]
        /\ stage'[r] = IF starts THEN "lookup" ELSE stage[r]
        /\ api'[r] = api[r] /\ slot'[r] = slot[r] /\ row'[r] = row[r] /\ progress'[r] = progress[r]
        /\ wsKnown'[r] = wsKnown[r] /\ ticking'[r] = ticking[r] /\ sent'[r] = sent[r]
    BY DEF StartJobs, Queue!SpawnTasks, Queue!HandedBecome, slotVars
  <2>2. RequestOK(r) /\ TaskOK(r) /\ PercentOK(r)
    BY DEF JobInv
  <2> QED
    BY <1>2, <2>1, <2>2 DEF JobOK, RequestOK, TaskOK, PercentOK, RunStages, WithSlot, Working
<1> QED
  BY <1>1, <1>3 DEF JobInv, JobOK

\* What is handed to nobody is over, and so is its slot.
LEMMA LoseSteps ==
    ASSUME JobInv, Around, Around', NEW w \in Workers, LoseJobs(w), faults' = faults
    PROVE  JobInv'
<1>1. JobsTypeOK'
  BY DEF LoseJobs, Drop, JobInv, JobsTypeOK
<1>2. cursor' = cursor /\ entry' = entry
  BY DEF LoseJobs, Queue!LoseAnswer, Queue!groupVars, Queue!streamVars
<1>3. ASSUME NEW r \in Requests PROVE JobOK(r)'
  <2> DEFINE lost == owner[r] = w /\ handle[r] = "delivered"
  <2>1. /\ handle'[r] = IF lost THEN "gone" ELSE handle[r]
        /\ stage'[r] = IF lost THEN "over" ELSE stage[r]
        /\ slot'[r] = IF lost /\ slot[r] \in {"held", "resetting"}
                      THEN IF slot[r] = "held" THEN "lost" ELSE "released" ELSE slot[r]
        /\ api'[r] = api[r] /\ row'[r] = row[r] /\ progress'[r] = progress[r]
        /\ wsKnown'[r] = wsKnown[r] /\ ticking'[r] = ticking[r] /\ sent'[r] = sent[r]
    BY DEF LoseJobs, Drop, Queue!LoseAnswer, Queue!HandedBecome, Slots!Abandon
  <2>2. RequestOK(r) /\ TaskOK(r) /\ PercentOK(r)
    BY DEF JobInv
  <2> QED
    BY <1>2, <2>1, <2>2, HandedWaits
       DEF JobOK, RequestOK, TaskOK, PercentOK, RunStages, WithSlot, Working
<1> QED
  BY <1>1, <1>3 DEF JobInv, JobOK

\* The tasks of a dead worker are over, and so are their slots.
LEMMA CrashSteps ==
    ASSUME JobInv, Around, Around', NEW w \in Workers, CrashWorker(w), faults' = faults
    PROVE  JobInv'
<1>1. JobsTypeOK'
  BY DEF CrashWorker, Drop, JobInv, JobsTypeOK
<1>2. cursor' = cursor /\ entry' = entry
  BY DEF CrashWorker, Queue!Crash, Queue!groupVars, Queue!streamVars
<1>3. ASSUME NEW r \in Requests PROVE JobOK(r)'
  <2> DEFINE mine == owner[r] = w /\ handle[r] \in {"delivered", "running"}
  <2>1. /\ stage'[r] = IF mine THEN "over" ELSE stage[r]
        /\ ticking'[r] = (ticking[r] /\ ~(owner[r] = w /\ handle[r] = "running"))
        /\ slot'[r] = IF mine /\ slot[r] \in {"held", "resetting"}
                      THEN IF slot[r] = "held" THEN "lost" ELSE "released" ELSE slot[r]
        /\ handle'[r] = IF owner[r] = w /\ handle[r] \in Queue!InTask THEN "gone" ELSE handle[r]
        /\ api'[r] = api[r] /\ row'[r] = row[r] /\ progress'[r] = progress[r]
        /\ wsKnown'[r] = wsKnown[r] /\ sent'[r] = sent[r]
    BY DEF CrashWorker, Drop, Queue!Crash, Slots!Abandon
  <2>2. RequestOK(r) /\ TaskOK(r) /\ PercentOK(r) /\ stage[r] \in RunStages \cup {"none", "over"}
        /\ ticking[r] \in BOOLEAN
    BY DEF JobInv, JobsTypeOK
  <2>3. RequestOK(r)'
    <3>1. CASE mine
      <4>1. handle[r] # "none" /\ entry[r] # 0 /\ slot[r] # "idle" /\ stage'[r] = "over"
        BY <2>1, <2>2, <3>1 DEF RequestOK, TaskOK
      <4>2. slot'[r] \notin {"idle", "arming", "over"} /\ api[r] \notin {"idle", "limiter", "enqueue"}
        BY <2>1, <2>2, <3>1, <4>1 DEF RequestOK
      <4> QED
        BY <1>2, <2>1, <2>2, <4>1, <4>2 DEF RequestOK
    <3>2. CASE ~mine
      BY <1>2, <2>1, <2>2, <3>2 DEF RequestOK, Queue!InTask
    <3> QED
      BY <3>1, <3>2
  <2>4. TaskOK(r)'
    <3>1. CASE handle[r] = "delivered"
      BY <1>2, <2>1, <2>2, <3>1, HandedWaits
         DEF TaskOK, RunStages, WithSlot, Working, Queue!InTask
    <3>2. CASE handle[r] # "delivered"
      <4>1. CASE owner[r] = w
        BY <1>2, <2>1, <2>2, <3>2, <4>1
           DEF TaskOK, RunStages, WithSlot, Working, Queue!InTask
      <4>2. CASE owner[r] # w
        BY <1>2, <2>1, <2>2, <4>2 DEF TaskOK
      <4> QED
        BY <4>1, <4>2
    <3> QED
      BY <3>1, <3>2
  <2>5. PercentOK(r)'
    BY <2>1, <2>2, HandedWaits DEF PercentOK, TaskOK, RunStages
  <2> QED
    BY <2>3, <2>4, <2>5 DEF JobOK
<1> QED
  BY <1>1, <1>3 DEF JobInv, JobOK

\* Every step of the system keeps the invariant.
LEMMA JobStep ==
    ASSUME JobInv, Around, Around', [JobsNext]_allVars
    PROVE  JobInv'
<1>1. CASE UNCHANGED allVars
  <2>1. JobsTypeOK' /\ cursor' = cursor /\ faults' = faults
    BY <1>1 DEF JobInv, JobsTypeOK, allVars, jobVars, qVars, taskVars
  <2>2. ASSUME NEW r \in Requests PROVE Same(r)
    BY <1>1 DEF Same, allVars, jobVars, qVars, slotVars, taskVars
  <2> QED
    BY <2>1, <2>2, Apart DEF JobInv, JobOK, Around
<1>2. CASE JobsNext
  <2>1. faults' = faults
    BY <1>2 DEF JobsNext
  <2>2. ASSUME ExpireKey PROVE JobInv'
    <3>1. JobsTypeOK' /\ cursor' = cursor
      BY <2>1, <2>2 DEF ExpireKey, JobInv, JobsTypeOK, qVars, taskVars
    <3>2. ASSUME NEW r \in Requests PROVE Same(r)
      BY <2>2 DEF ExpireKey, Slots!Expire, Same, qVars, taskVars
    <3> QED
      BY <2>1, <3>1, <3>2, Apart DEF JobInv, JobOK, Around
  <2> QED
    BY <1>2, <2>1, <2>2, RequestSteps, TaskSteps, ProgressSteps, StartSteps, ReadSteps, SpawnSteps,
       LoseSteps, CrashSteps
    DEF JobsNext, WorkerStep
<1> QED
  BY <1>1, <1>2

\* It holds before the first request.
LEMMA JobStart == JobsInit => JobInv
<1> SUFFICES ASSUME JobsInit PROVE JobInv
  OBVIOUS
<1>1. JobsTypeOK
  BY DEF JobsInit, JobsTypeOK, ApiStates, RowStates, Percents
<1>2. ASSUME NEW r \in Requests PROVE RequestOK(r) /\ TaskOK(r) /\ PercentOK(r)
  <2>1. slot[r] = "idle" /\ entry[r] = 0 /\ handle[r] = "none"
    BY DEF JobsInit, Slots!SlotInit, Queue!QueueInit
  <2> QED
    BY <2>1 DEF JobsInit, RequestOK, TaskOK, PercentOK, RunStages, WithSlot, Working
<1> QED
  BY <1>1, <1>2 DEF JobInv

\* The invariant holds in every behaviour, with what is known of limiter and queue.
LEMMA JobInvariant == JobsSpec => [](JobInv /\ Around /\ Parts!SlotOK)
<1>1. JobsInit => JobInv
  BY JobStart
<1>2. JobInv /\ Around /\ Around' /\ [JobsNext]_allVars => JobInv'
  BY JobStep
<1>3. Parts!SlotOK /\ Parts!DeliveryInv => Around
  BY AroundHolds
<1> QED
  BY <1>1, <1>2, <1>3, JobsKeepSlots, JobsKeepQueue, PTL DEF JobsSpec

-----------------------------------------------------------------------------
(* What the system promises.                                                *)

\* The tasks before their release have slots that the limiter has admitted.
LEMMA WithinSlots == JobInv /\ Around /\ Parts!SlotOK => RunningWithinLimit
<1> SUFFICES ASSUME JobInv, Around, Parts!SlotOK, "expiry" \notin faults
             PROVE  Cardinality({r \in Requests : stage[r] \in WithSlot}) <= Limit
  BY DEF RunningWithinLimit, WithSlot
<1> DEFINE Running == {r \in Requests : stage[r] \in WithSlot}
<1>1. Cardinality(Parts!Admitted) <= Limit
  BY FaultNames, SameCardinality DEF Parts!SlotOK, Parts!ConcurrencyBound, Parts!WithinLimit
<1>2. Running \subseteq Parts!Admitted /\ Parts!Admitted \subseteq Requests
  BY DEF JobInv, TaskOK, Parts!Admitted
<1>3. /\ IsFiniteSet(Parts!Admitted)
      /\ IsFiniteSet(Running) /\ Cardinality(Running) <= Cardinality(Parts!Admitted)
  BY <1>2, JobConstants, FS_Subset
<1>4. Cardinality(Running) \in Nat /\ Cardinality(Parts!Admitted) \in Nat
  BY <1>3, FS_CardinalityType
<1> QED
  BY <1>1, <1>3, <1>4, JobConstants

\* As long as keys do not expire no more than Limit jobs run, and the slot is released on
\* every exit, for any number of requests, workers and crashes.
THEOREM JobsCorrect == JobsSpec => []JobsOK
<1>1. JobInv /\ Around /\ Parts!SlotOK => JobsOK
  <2>1. JobInv => ReleasedOnEveryExit
    BY DEF JobInv, TaskOK, ReleasedOnEveryExit
  <2> QED
    BY <2>1, WithinSlots DEF JobsOK, JobInv
<1> QED
  BY <1>1, JobInvariant, PTL

\* What writes the row, and where its task is then.
LEMMA RowMoves ==
    ASSUME JobInv, JobsNext
    PROVE  \/ row' = row
           \/ \E r \in Requests :
                \/ row[r] = "absent" /\ row' = [row EXCEPT ![r] = "queued"]
                \/ row[r] = "queued" /\ row' = [row EXCEPT ![r] = "processing"]
                \/ \E v \in {"done", "error"} : row[r] = "processing" /\ row' = [row EXCEPT ![r] = v]
<1> DEFINE Goal == \/ row' = row
                   \/ \E r \in Requests :
                        \/ row[r] = "absent" /\ row' = [row EXCEPT ![r] = "queued"]
                        \/ row[r] = "queued" /\ row' = [row EXCEPT ![r] = "processing"]
                        \/ \E v \in {"done", "error"} :
                             row[r] = "processing" /\ row' = [row EXCEPT ![r] = v]
<1>1. ASSUME NEW r \in Requests, RequestStep(r) PROVE Goal
  <2>1. row' = row \/ (api[r] = "limiter" /\ row' = [row EXCEPT ![r] = "queued"])
    BY <1>1 DEF RequestStep, TakeSlot, ArmSlot, RefuseSlot, InsertJob, EnqueueJob, CancelRequest
  <2> QED
    BY <2>1 DEF JobInv, RequestOK
<1>2. ASSUME NEW r \in Requests, TaskStep(r) PROVE Goal
  <2>1. \/ row' = row
        \/ stage[r] = "mark" /\ row' = [row EXCEPT ![r] = "processing"]
        \/ stage[r] = "fail" /\ row' = [row EXCEPT ![r] = "error"]
        \/ stage[r] = "finish" /\ row' = [row EXCEPT ![r] = "done"]
    BY <1>2 DEF TaskStep, LookupWorkspace, MarkProcessing, LoadTimeline, Download, Encode, FailJob,
       UploadEnds, FinishJob, ReleaseSlot, ResetSlot, TaskReturns, SettleMessage, SetsRow, Errs, Goes
  <2>2. TaskOK(r)
    BY DEF JobInv
  <2> QED
    BY <2>1, <2>2 DEF TaskOK, Working
<1>3. ASSUME NEW r \in Requests, ProgressStep(r) PROVE Goal
  BY <1>3 DEF ProgressStep, EncodeProgress, Tick, TickLands
<1>4. ASSUME NEW w \in Workers, WorkerStep(w) PROVE Goal
  BY <1>4 DEF WorkerStep, StartWorker, ReadJobs, StartJobs, LoseJobs, CrashWorker, Drop
<1>5. CASE ExpireKey
  BY <1>5 DEF ExpireKey
<1> QED
  BY <1>1, <1>2, <1>3, <1>4, <1>5 DEF JobsNext

\* A verdict is final, whatever crashes, fails or comes late.
THEOREM JobsVerdict == JobsSpec => VerdictIsFinal
<1> DEFINE A == \A r \in Requests : row[r] \in {"done", "error"} => row'[r] = row[r]
<1>1. JobInv /\ [JobsNext]_allVars => [A]_jobVars
  <2> SUFFICES ASSUME JobInv, [JobsNext]_allVars PROVE [A]_jobVars
    OBVIOUS
  <2>1. CASE UNCHANGED allVars
    BY <2>1 DEF allVars
  <2>2. CASE JobsNext
    <3>1. row \in [Requests -> RowStates]
      BY DEF JobInv, JobsTypeOK
    <3> QED
      BY <2>2, <3>1, RowMoves
  <2> QED
    BY <2>1, <2>2
<1> QED
  BY <1>1, JobInvariant, PTL DEF JobsSpec, VerdictIsFinal

\* The percentage of a job that is processing never goes back.
THEOREM JobsProgress == JobsSpec => ProgressNeverBack
<1> DEFINE A == \A r \in Requests : row[r] = "processing" /\ row'[r] = "processing"
                                      => progress'[r] >= progress[r]
<1>1. ASSUME JobInv, JobsNext, NEW q \in Requests, row[q] = "processing", row'[q] = "processing"
      PROVE  progress'[q] >= progress[q]
  <2>1. /\ progress \in [Requests -> Percents] /\ row \in [Requests -> RowStates]
        /\ sent \in [Requests -> {0, 97, 99}]
    BY <1>1 DEF JobInv, JobsTypeOK
  <2>2. progress[q] \in Int /\ progress[q] >= progress[q]
    BY <2>1 DEF Percents
  <2>3. \A r \in Requests : PercentOK(r)
    BY <1>1 DEF JobInv
  <2>4. ASSUME NEW r \in Requests, TaskStep(r) PROVE progress'[q] >= progress[q]
    <3>1. \/ progress' = progress
          \/ progress' = [progress EXCEPT ![r] = progress[r]]
          \/ stage[r] = "download" /\ progress' = [progress EXCEPT ![r] = 10]
          \/ stage[r] = "encode" /\ progress' = [progress EXCEPT ![r] = 95]
          \/ row' = [row EXCEPT ![r] = "done"] /\ progress' = [progress EXCEPT ![r] = 100]
      BY <2>4 DEF TaskStep, LookupWorkspace, MarkProcessing, LoadTimeline, Download, Encode, FailJob,
         UploadEnds, FinishJob, ReleaseSlot, ResetSlot, TaskReturns, SettleMessage, SetsRow, Errs,
         Goes, Shows
    <3>2. CASE q # r
      BY <2>1, <2>2, <3>1, <3>2
    <3>3. CASE q = r
      BY <1>1, <2>1, <2>2, <2>3, <3>1, <3>3 DEF PercentOK
    <3> QED
      BY <3>2, <3>3
  <2>5. ASSUME NEW r \in Requests, ProgressStep(r) PROVE progress'[q] >= progress[q]
    <3>1. \/ progress' = progress
          \/ progress[r] < 50 /\ progress' = [progress EXCEPT ![r] = 50]
          \/ sent[r] # 0 /\ progress' = [progress EXCEPT ![r] = sent[r]]
      BY <2>5 DEF ProgressStep, EncodeProgress, Tick, TickLands, Shows
    <3>2. CASE q # r
      BY <2>1, <2>2, <3>1, <3>2
    <3>3. CASE q = r
      BY <1>1, <2>1, <2>2, <2>3, <3>1, <3>3 DEF PercentOK
    <3> QED
      BY <3>2, <3>3
  <2>6. ASSUME NEW r \in Requests, RequestStep(r) PROVE progress' = progress
    BY <2>6 DEF RequestStep, TakeSlot, ArmSlot, RefuseSlot, InsertJob, EnqueueJob, CancelRequest
  <2>7. ASSUME NEW w \in Workers, WorkerStep(w) PROVE progress' = progress
    BY <2>7 DEF WorkerStep, StartWorker, ReadJobs, StartJobs, LoseJobs, CrashWorker, Drop
  <2>8. ExpireKey => progress' = progress
    BY DEF ExpireKey
  <2> QED
    BY <1>1, <2>2, <2>4, <2>5, <2>6, <2>7, <2>8 DEF JobsNext
<1>2. JobInv /\ [JobsNext]_allVars => [A]_jobVars
  BY <1>1 DEF allVars
<1> QED
  BY <1>2, JobInvariant, PTL DEF JobsSpec, ProgressNeverBack

-----------------------------------------------------------------------------
(* The service of ExportLifecycle.                                          *)

Life == [Lifecycle!LifeStep]_<<row, Work>>

\* The work of a job, by its slot and its stage.
LEMMA WorkAt ==
    ASSUME NEW r \in Requests
    PROVE  /\ slot[r] = "idle" => Work[r] = "none"
           /\ slot[r] \notin {"idle", "arming", "held"} => Work[r] = "ended"
           /\ slot[r] \in {"arming", "held"} =>
                Work[r] = IF stage[r] \in RunStages THEN "running" ELSE "admitted"
BY DEF Work

\* The same after a step.
LEMMA WorkAtNext ==
    ASSUME NEW r \in Requests
    PROVE  /\ slot'[r] = "idle" => Work'[r] = "none"
           /\ slot'[r] \notin {"idle", "arming", "held"} => Work'[r] = "ended"
           /\ slot'[r] \in {"arming", "held"} =>
                Work'[r] = IF stage'[r] \in RunStages THEN "running" ELSE "admitted"
BY DEF Work

\* Nothing changes that can be seen from outside.
LEMMA Unseen ==
    ASSUME row' = row,
           \A r \in Requests :
             /\ slot'[r] = slot[r]
             /\ stage'[r] \in RunStages <=> stage[r] \in RunStages
    PROVE  Life
<1>1. Work' = Work
  BY DEF Work
<1> QED
  BY <1>1 DEF Life

\* Jobs stop counting, or had stopped before.
LEMMA Ending ==
    ASSUME row' = row, NEW S \in SUBSET Requests,
           \A r \in S : slot'[r] \notin {"idle", "arming", "held"},
           \A r \in Requests \ S :
             /\ slot'[r] = slot[r]
             /\ \/ stage'[r] \in RunStages <=> stage[r] \in RunStages
                \/ slot[r] \notin {"idle", "arming", "held"}
    PROVE  Life
<1>1. Work' = [r \in Requests |-> IF r \in S THEN "ended" ELSE Work[r]]
  <2>1. ASSUME NEW r \in S PROVE Work'[r] = "ended"
    BY WorkAtNext
  <2>2. ASSUME NEW r \in Requests \ S PROVE Work'[r] = Work[r]
    BY DEF Work
  <2>3. Work' = [r \in Requests |-> Work'[r]]
    BY DEF Work
  <2> QED
    BY <2>1, <2>2, <2>3
<1>2. Lifecycle!End(S)
  BY <1>1 DEF Lifecycle!End, Lifecycle!SetWork
<1> QED
  BY <1>2 DEF Life, Lifecycle!LifeStep

\* Who is let in is one more than the counter has counted.
LEMMA RoomForOne ==
    ASSUME "expiry" \notin faults, Parts!SlotOK, count + 1 <= Limit
    PROVE  Lifecycle!Cardinality(Lifecycle!Busy) < Limit
<1>1. count = Cardinality(Parts!Counted) /\ count \in Int
  BY FaultNames, SameCardinality DEF Parts!SlotOK, Parts!SlotTypeOK, Parts!CountExact, Parts!ExactCount
<1>2. Lifecycle!Busy \subseteq Parts!Counted /\ Parts!Counted \subseteq Requests
  BY DEF Lifecycle!Busy, Parts!Counted, Work
<1>3. /\ IsFiniteSet(Parts!Counted)
      /\ IsFiniteSet(Lifecycle!Busy) /\ Cardinality(Lifecycle!Busy) <= Cardinality(Parts!Counted)
  BY <1>2, JobConstants, FS_Subset
<1>4. Cardinality(Lifecycle!Busy) \in Nat /\ Cardinality(Parts!Counted) \in Nat
  BY <1>3, FS_CardinalityType
<1>5. Cardinality(Lifecycle!Busy) < Limit
  BY <1>1, <1>3, <1>4, JobConstants
<1> QED
  BY <1>5, SameCardinality

\* The awaits of create_export admit, record or end a job, or change nothing.
LEMMA LifeOfRequests ==
    ASSUME JobInv, Around, Parts!SlotOK, NEW r \in Requests, RequestStep(r)
    PROVE  Life
<1>1. slot \in [Requests -> Parts!SlotStates] /\ RequestOK(r) /\ TaskOK(r)
  BY DEF JobInv, Around
<1>2. ASSUME TakeSlot(r) PROVE Life
  <2>1. row' = row /\ stage' = stage /\ slot[r] = "idle" /\ stage[r] = "none"
    BY <1>1, <1>2 DEF TakeSlot, taskVars, RequestOK, Slots!Take, Slots!TakeError
  <2>2. \A q \in Requests \ {r} : slot'[q] = slot[q]
    BY <1>1, <1>2 DEF TakeSlot, Slots!Take, Slots!TakeError, Slots!Advance
  <2>3. CASE slot'[r] \in {"arming", "held"}
    <3>1. count + 1 <= Limit
      <4>1. \/ count + 1 = 1
            \/ ~(count + 1 > Limit)
        BY <1>1, <1>2, <2>3 DEF TakeSlot, Slots!Take, Slots!TakeError, Slots!Advance
      <4>2. count \in Int
        BY DEF Parts!SlotOK, Parts!SlotTypeOK
      <4> QED
        BY <4>1, <4>2, JobConstants
    <3>2. Work' = [Work EXCEPT ![r] = "admitted"]
      <4>1. Work'[r] = "admitted"
        BY <2>1, <2>3, WorkAtNext DEF RunStages
      <4>2. ASSUME NEW q \in Requests \ {r} PROVE Work'[q] = Work[q]
        BY <2>1, <2>2 DEF Work
      <4>3. Work' = [q \in Requests |-> Work'[q]] /\ Work = [q \in Requests |-> Work[q]]
        BY DEF Work
      <4> QED
        BY <4>1, <4>2, <4>3
    <3>3. Lifecycle!Admit(r)
      <4>1. "expiry" \notin faults => Lifecycle!Cardinality(Lifecycle!Busy) < Limit
        BY <3>1, RoomForOne
      <4> QED
        BY <2>1, <3>2, <4>1, WorkAt DEF Lifecycle!Admit
    <3> QED
      BY <3>3 DEF Life, Lifecycle!LifeStep
  <2>4. CASE slot'[r] \notin {"arming", "held"}
    <3>1. slot'[r] # "idle"
      BY <1>1, <1>2 DEF TakeSlot, Slots!Take, Slots!TakeError, Slots!Advance
    <3> QED
      BY <2>1, <2>2, <2>4, <3>1, Ending, {r} \in SUBSET Requests
  <2> QED
    BY <2>3, <2>4
<1>3. ASSUME ArmSlot(r) PROVE Life
  <2>1. slot[r] = "arming" /\ stage[r] = "none"
    BY <1>1, <1>3 DEF ArmSlot, Slots!Arm, RequestOK
  <2>2. row' = row /\ stage' = stage /\ slot' = [slot EXCEPT ![r] = "held"]
    BY <1>3 DEF ArmSlot, Slots!Arm, Slots!Advance, taskVars
  <2>3. Work' = Work
    BY <1>1, <2>1, <2>2 DEF Work, RunStages
  <2> QED
    BY <2>2, <2>3 DEF Life
<1>4. ASSUME RefuseSlot(r) \/ CancelRequest(r) PROVE Life
  <2>1. /\ row' = row /\ stage' = stage
        /\ \A q \in Requests \ {r} : slot'[q] = slot[q]
        /\ slot'[r] \in {"refused", "lost", "released"}
    BY <1>1, <1>4 DEF RefuseSlot, CancelRequest, GiveUp, Slots!Refuse, Slots!Cancel, Slots!Abandon,
       Slots!Advance, taskVars
  <2> QED
    BY <2>1, Ending, {r} \in SUBSET Requests
<1>5. ASSUME InsertJob(r) PROVE Life
  <2>1. /\ slot[r] = "held" /\ row[r] = "absent" /\ stage[r] = "none" /\ stage' = stage
        /\ Work[r] = "admitted"
    BY <1>1, <1>5, WorkAt DEF InsertJob, taskVars, RequestOK, RunStages
  <2>2. CASE slot' = slot /\ row' = [row EXCEPT ![r] = "queued"]
    <3>1. Work' = Work
      BY <2>1, <2>2 DEF Work
    <3>2. Lifecycle!Record(r)
      BY <2>1, <2>2, <3>1 DEF Lifecycle!Record
    <3> QED
      BY <3>2 DEF Life, Lifecycle!LifeStep
  <2>3. CASE Slots!Abandon({r})
    <3>1. slot'[r] = "lost" /\ \A q \in Requests \ {r} : slot'[q] = slot[q]
      BY <2>1, <2>3 DEF Slots!Abandon
    <3>2. CASE row' = row
      BY <2>1, <3>1, <3>2, Ending, {r} \in SUBSET Requests
    <3>3. CASE row' = [row EXCEPT ![r] = "queued"]
      <4>1. Work'[r] = "ended"
        BY <3>1, WorkAtNext
      <4>2. ASSUME NEW q \in Requests \ {r} PROVE Work'[q] = Work[q]
        BY <2>1, <3>1 DEF Work
      <4>3. Work' = [q \in Requests |-> Work'[q]] /\ Work = [q \in Requests |-> Work[q]]
        BY DEF Work
      <4>4. Work' = [Work EXCEPT ![r] = "ended"]
        BY <4>1, <4>2, <4>3
      <4>5. Lifecycle!Record(r)
        BY <2>1, <3>3, <4>4 DEF Lifecycle!Record
      <4> QED
        BY <4>5 DEF Life, Lifecycle!LifeStep
    <3> QED
      BY <1>5, <2>1, <2>3, <3>1, <3>2, <3>3 DEF InsertJob, slotVars
  <2> QED
    BY <1>5, <2>2, <2>3 DEF InsertJob, GiveUp, slotVars
<1>6. ASSUME EnqueueJob(r) PROVE Life
  <2>1. row' = row /\ stage' = stage
    BY <1>6 DEF EnqueueJob, taskVars
  <2>2. CASE slot' = slot
    BY <2>1, <2>2, Unseen
  <2>3. CASE Slots!Abandon({r})
    <3>1. slot'[r] \in {"lost", "released"} /\ \A q \in Requests \ {r} : slot'[q] = slot[q]
      BY <2>3 DEF Slots!Abandon
    <3> QED
      BY <2>1, <3>1, Ending, {r} \in SUBSET Requests
  <2> QED
    BY <1>6, <2>2, <2>3 DEF EnqueueJob, GiveUp, slotVars
<1> QED
  BY <1>2, <1>3, <1>4, <1>5, <1>6 DEF RequestStep

\* The awaits of a task process, conclude or end its job, or change nothing.
LEMMA LifeOfTasks ==
    ASSUME JobInv, Around, NEW r \in Requests, TaskStep(r)
    PROVE  Life
<1>1. /\ slot \in [Requests -> Parts!SlotStates] /\ stage \in [Requests -> RunStages \cup {"none", "over"}]
      /\ row \in [Requests -> RowStates] /\ TaskOK(r)
  BY DEF JobInv, JobsTypeOK, Around
<1>2. ASSUME LookupWorkspace(r) \/ LoadTimeline(r) \/ Download(r) \/ Encode(r) \/ UploadEnds(r)
      PROVE  Life
  <2>1. /\ row' = row /\ slot' = slot /\ stage[r] \in RunStages /\ stage'[r] \in RunStages
        /\ \A q \in Requests \ {r} : stage'[q] = stage[q]
    BY <1>1, <1>2 DEF LookupWorkspace, LoadTimeline, Download, Encode, UploadEnds, Errs, Goes,
       pipelineRest, slotVars, RunStages
  <2> QED
    BY <2>1, Unseen
<1>3. ASSUME MarkProcessing(r) \/ FailJob(r) \/ FinishJob(r) PROVE Life
  <2>1. /\ slot' = slot /\ stage[r] \in RunStages /\ stage'[r] \in RunStages /\ slot[r] = "held"
        /\ \A q \in Requests \ {r} : stage'[q] = stage[q]
    BY <1>1, <1>3 DEF MarkProcessing, FailJob, FinishJob, SetsRow, Errs, Goes, pipelineRest, slotVars,
       RunStages, TaskOK, WithSlot
  <2>2. Work' = Work /\ Work[r] = "running"
    BY <2>1 DEF Work
  <2>3. \/ row' = row
        \/ row[r] = "queued" /\ row' = [row EXCEPT ![r] = "processing"]
        \/ \E v \in {"done", "error"} : row[r] = "processing" /\ row' = [row EXCEPT ![r] = v]
    BY <1>1, <1>3 DEF MarkProcessing, FailJob, FinishJob, SetsRow, Errs, Goes, TaskOK, Working
  <2>4. CASE row' = row
    BY <2>2, <2>4 DEF Life
  <2>5. CASE row[r] = "queued" /\ row' = [row EXCEPT ![r] = "processing"]
    <3>1. Lifecycle!Process(r)
      BY <2>2, <2>5 DEF Lifecycle!Process
    <3> QED
      BY <3>1 DEF Life, Lifecycle!LifeStep
  <2>6. ASSUME NEW v \in {"done", "error"}, row[r] = "processing", row' = [row EXCEPT ![r] = v]
        PROVE  Life
    <3>1. Lifecycle!Conclude(r, v)
      BY <2>2, <2>6 DEF Lifecycle!Conclude
    <3> QED
      BY <3>1 DEF Life, Lifecycle!LifeStep
  <2> QED
    BY <2>3, <2>4, <2>5, <2>6
<1>4. ASSUME ReleaseSlot(r) \/ ResetSlot(r) \/ TaskReturns(r) PROVE Life
  <2>1. /\ row' = row /\ \A q \in Requests \ {r} : slot'[q] = slot[q] /\ stage'[q] = stage[q]
        /\ slot'[r] \in {"resetting", "released", "lost"}
    BY <1>1, <1>4 DEF ReleaseSlot, ResetSlot, TaskReturns, Slots!Release, Slots!Reset, Slots!Abandon,
       Slots!Advance, Goes, slotVars, TaskOK
  <2> QED
    BY <2>1, Ending, {r} \in SUBSET Requests
<1>5. ASSUME SettleMessage(r) PROVE Life
  <2>1. row' = row /\ slot' = slot /\ stage' = stage
    BY <1>5 DEF SettleMessage, slotVars, taskVars
  <2> QED
    BY <2>1, Unseen
<1> QED
  BY <1>2, <1>3, <1>4, <1>5 DEF TaskStep

\* Tasks that are spawned begin jobs, and a crash or a lost answer ends some.
LEMMA LifeOfWorkers ==
    ASSUME JobInv, Around, NEW w \in Workers, WorkerStep(w)
    PROVE  Life
<1>1. ASSUME StartWorker(w) \/ ReadJobs(w) PROVE Life
  <2>1. row' = row /\ slot' = slot /\ stage' = stage
    BY <1>1 DEF StartWorker, ReadJobs, slotVars, taskVars
  <2> QED
    BY <2>1, Unseen
<1>2. ASSUME StartJobs(w) PROVE Life
  <2> DEFINE S == {r \in Requests : handle[r] = "delivered" /\ handle'[r] = "running"}
  <2>1. row' = row /\ slot' = slot
    BY <1>2 DEF StartJobs, slotVars
  <2>2. ASSUME NEW r \in S PROVE stage[r] = "none" /\ slot[r] = "held" /\ row[r] = "queued"
    BY HandedWaits
  <2>3. \A r \in Requests : stage'[r] = IF r \in S THEN "lookup" ELSE stage[r]
    BY <1>2 DEF StartJobs
  <2>4. ASSUME NEW r \in S PROVE Work[r] = "admitted" /\ Work'[r] = "running"
    BY <2>1, <2>2, <2>3 DEF Work, RunStages
  <2>5. ASSUME NEW r \in Requests \ S PROVE Work'[r] = Work[r]
    BY <2>1, <2>3 DEF Work
  <2>6. Work' = [r \in Requests |-> IF r \in S THEN "running" ELSE Work[r]]
    <3>1. Work' = [r \in Requests |-> Work'[r]]
      BY DEF Work
    <3> QED
      BY <2>4, <2>5, <3>1
  <2>7. Lifecycle!Begin(S)
    BY <2>1, <2>2, <2>4, <2>6 DEF Lifecycle!Begin, Lifecycle!SetWork
  <2>8. S \in SUBSET Requests
    OBVIOUS
  <2> QED
    BY <2>7, <2>8 DEF Life, Lifecycle!LifeStep
<1>3. ASSUME LoseJobs(w) \/ CrashWorker(w) PROVE Life
  <2>1. PICK J \in SUBSET {r \in Requests : handle[r] \in {"delivered", "running"}} : Drop(J)
    BY <1>3 DEF LoseJobs, CrashWorker
  <2> DEFINE S == {r \in J : slot[r] \in {"held", "resetting"}}
  <2>2. /\ row' = row
        /\ \A r \in Requests : stage'[r] = IF r \in J THEN "over" ELSE stage[r]
        /\ \A r \in Requests : slot'[r] = IF r \notin S THEN slot[r]
                                          ELSE IF slot[r] = "held" THEN "lost" ELSE "released"
    BY <2>1 DEF Drop, Slots!Abandon
  <2>3. ASSUME NEW r \in J \ S PROVE slot[r] \notin {"idle", "arming", "held"}
    BY <2>1, HandedWaits DEF JobInv, TaskOK, RunStages, WithSlot
  <2>4. S \in SUBSET Requests
    BY <2>1
  <2> QED
    BY <2>2, <2>3, <2>4, Ending
<1> QED
  BY <1>1, <1>2, <1>3 DEF WorkerStep

\* The key expires: no slot is taken or given back by that.
LEMMA LifeOfKey ==
    ASSUME ExpireKey
    PROVE  Life
<1>1. row' = row /\ slot' = slot /\ stage' = stage
  BY DEF ExpireKey, Slots!Expire, taskVars
<1> QED
  BY <1>1, Unseen

\* Seen from outside the handlers, the limiter, the queue and the pipeline are the service
\* of ExportLifecycle: rows move one way, each job is worked on at most once, and no more
\* than Limit jobs are admitted at a time, as long as the counter's key does not expire.
THEOREM JobsLifecycle == JobsSpec => ImplementsLifecycle
<1>1. JobsInit => Lifecycle!LifeInit
  BY DEF JobsInit, Slots!SlotInit, Lifecycle!LifeInit, Work
<1>2. ASSUME JobInv, Around, Parts!SlotOK, [JobsNext]_allVars
      PROVE  [Lifecycle!LifeNext]_(Lifecycle!lifeVars)
  <2>1. Life
    <3>1. CASE UNCHANGED allVars
      <4>1. row' = row /\ slot' = slot /\ stage' = stage
        BY <3>1 DEF allVars, jobVars, slotVars, taskVars
      <4> QED
        BY <4>1, Unseen
    <3>2. CASE JobsNext
      <4>1. ASSUME NEW r \in Requests, ProgressStep(r) PROVE Life
        <5>1. row' = row /\ slot' = slot /\ stage' = stage
          BY <4>1 DEF ProgressStep, EncodeProgress, Tick, TickLands, pipelineRest, slotVars, taskVars
        <5> QED
          BY <5>1, Unseen
      <4> QED
        BY <1>2, <3>2, <4>1, LifeOfKey, LifeOfRequests, LifeOfTasks, LifeOfWorkers DEF JobsNext
    <3> QED
      BY <1>2, <3>1, <3>2
  <2>2. faults' = faults
    BY <1>2 DEF JobsNext, allVars
  <2> QED
    BY <2>1, <2>2 DEF Life, Lifecycle!LifeNext, Lifecycle!lifeVars
<1> QED
  BY <1>1, <1>2, JobInvariant, PTL
  DEF JobsSpec, ImplementsLifecycle, Lifecycle!LifeSpec
=============================================================================
