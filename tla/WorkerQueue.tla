---------------------------- MODULE WorkerQueue ----------------------------
(***************************************************************************)
(* The worker's consumer loop over one Redis stream, worker/src/queue.rs:  *)
(* the consumer group cloudcut-workers, its pending entries list, the      *)
(* tasks the loop spawns, XACK and the dead-letter stream.                 *)
(*                                                                         *)
(* The exports stream and the assets stream are read by one XREADGROUP and *)
(* share no state, so the module is about either of them.  Redis itself is *)
(* modelled from the commands the worker sends: an entry gets the next     *)
(* identifier of the stream, and the group remembers the last identifier   *)
(* it delivered.                                                           *)
(***************************************************************************)
EXTENDS Integers, FiniteSets

CONSTANTS
    Msgs,         \* stream entries the backend may XADD
    Workers,      \* worker processes, one consumer name each
    NoWorker,     \* owner of an entry that is not pending
    Batch,        \* XREADGROUP COUNT (10)
    MaxRetries,   \* WORKER_MAX_RETRIES (3)
    MaxCrashes,   \* bound on the number of worker crashes
    OutageSets    \* the sets of outages that may come together; the one there
                  \* is, "redis": a command or its answer is lost

ASSUME MsgsFinite == IsFiniteSet(Msgs)
ASSUME NoWorkerOutside == NoWorker \notin Workers
ASSUME BatchPositive == Batch \in Nat \ {0}
ASSUME LimitsNatural == MaxRetries \in Nat /\ MaxCrashes \in Nat
ASSUME OutagesKnown == OutageSets \subseteq SUBSET {"redis"}

VARIABLES
    entry,        \* identifier of each message in the stream, 0 if not added
    tail,         \* last identifier of the stream
    group,        \* does the consumer group exist
    cursor,       \* last identifier delivered to the group
    owner,        \* pending entries list: the consumer an entry is pending for
    deliveries,   \* its delivery count, as XPENDING reports it
    handle,       \* the task spawned for a message
    dlq,          \* the dead-letter stream
    up,           \* the worker processes
    crashes,      \* crashes so far
    outages       \* what may go wrong in this behaviour; it never changes

streamVars == <<entry, tail>>
groupVars  == <<group, cursor, owner, deliveries, dlq>>
procVars   == <<handle, up, crashes>>
queueVars  == <<entry, tail, group, cursor, owner, deliveries, dlq, handle, up, crashes>>
queueAllVars == <<queueVars, outages>>

HandleStates ==
    { "none",       \* not delivered
      "delivered",  \* pending for a worker that waits for the XREADGROUP's answer
      "running",    \* in processor::dispatch
      "succeeded",  \* dispatch answered Ok: XACK is next
      "failed",     \* dispatch answered Err: maybe_dead_letter is next
      "dead",       \* beyond the threshold, added to the DLQ (or not): XACK is next
      "settled",    \* the task returned after its XACK
      "left",       \* the task returned without one: below the threshold
      "gone" }      \* the worker died, or the answer was lost, before the task returned

InTask == {"delivered", "running", "succeeded", "failed", "dead"}

QueueTypeOK ==
    /\ entry \in [Msgs -> Nat]
    /\ tail \in Nat
    /\ group \in BOOLEAN
    /\ cursor \in Nat
    /\ owner \in [Msgs -> Workers \cup {NoWorker}]
    /\ deliveries \in [Msgs -> Nat]
    /\ handle \in [Msgs -> HandleStates]
    /\ dlq \subseteq Msgs
    /\ up \in [Workers -> {"down", "boot", "up"}]
    /\ crashes \in Nat
    /\ outages \in OutageSets

QueueInit ==
    /\ entry = [m \in Msgs |-> 0]
    /\ tail = 0
    /\ group = FALSE
    /\ cursor = 0
    /\ owner = [m \in Msgs |-> NoWorker]
    /\ deliveries = [m \in Msgs |-> 0]
    /\ handle = [m \in Msgs |-> "none"]
    /\ dlq = {}
    /\ up = [w \in Workers |-> "down"]
    /\ crashes = 0
    /\ outages \in OutageSets

\* The entries an XREADGROUP with ">" answers with: not yet delivered to the
\* group, in order, at most Batch of them.
Undelivered == {m \in Msgs : entry[m] > cursor}
NextBatch   == {m \in Undelivered : entry[m] <= cursor + Batch}
AfterBatch  == IF cursor + Batch < tail THEN cursor + Batch ELSE tail

Pending(m) == owner[m] # NoWorker

\* The loop of w is at the await of its XREADGROUP and Redis has answered.
Reading(w) == \E m \in Msgs : owner[m] = w /\ handle[m] = "delivered"

-----------------------------------------------------------------------------
(* Mutations, for the sensitivity checks of the properties.                 *)

\* XREADGROUP with "0": a worker also re-reads what is pending for it.
ReadOwnPending(w) ==
    /\ up[w] = "up" /\ group /\ ~Reading(w)
    /\ LET batch == NextBatch \cup {m \in Msgs : owner[m] = w /\ deliveries[m] < 3}
       IN  /\ batch # {}
           /\ cursor' = AfterBatch
           /\ owner' = [m \in Msgs |-> IF m \in batch THEN w ELSE owner[m]]
           /\ deliveries' = [m \in Msgs |-> deliveries[m] + IF m \in batch THEN 1 ELSE 0]
           /\ handle' = [m \in Msgs |-> IF m \in batch THEN "delivered" ELSE handle[m]]
    /\ UNCHANGED <<entry, tail, group, dlq, up, crashes>>

\* XREADGROUP with NOACK: what is handed out never enters the pending list.
ReadNoAck(w) ==
    /\ up[w] = "up" /\ group /\ ~Reading(w)
    /\ Undelivered # {}
    /\ cursor' = AfterBatch
    /\ handle' = [m \in Msgs |-> IF m \in NextBatch THEN "delivered" ELSE handle[m]]
    /\ UNCHANGED <<entry, tail, group, owner, deliveries, dlq, up, crashes>>

\* The group's position runs ahead of what the worker was handed.
ReadSkipping(w) ==
    /\ up[w] = "up" /\ group /\ ~Reading(w)
    /\ Undelivered # {}
    /\ cursor' = tail
    /\ owner' = [m \in Msgs |-> IF m \in NextBatch THEN w ELSE owner[m]]
    /\ deliveries' = [m \in Msgs |-> deliveries[m] + IF m \in NextBatch THEN 1 ELSE 0]
    /\ handle' = [m \in Msgs |-> IF m \in NextBatch THEN "delivered" ELSE handle[m]]
    /\ UNCHANGED <<entry, tail, group, dlq, up, crashes>>

\* At the threshold XACK is sent first and the XADD to the DLQ afterwards.
DeadLetterAcksFirst(m) ==
    /\ handle[m] = "failed"
    /\ IF deliveries[m] < MaxRetries
       THEN handle' = [handle EXCEPT ![m] = "left"] /\ UNCHANGED owner
       ELSE handle' = [handle EXCEPT ![m] = "dead"] /\ owner' = [owner EXCEPT ![m] = NoWorker]
    /\ UNCHANGED <<streamVars, group, cursor, deliveries, dlq, up, crashes>>

-----------------------------------------------------------------------------
(* backend: XADD                                                            *)

Publish(m) ==
    /\ entry[m] = 0
    /\ tail' = tail + 1
    /\ entry' = [entry EXCEPT ![m] = tail + 1]
    /\ UNCHANGED <<groupVars, procVars>>

-----------------------------------------------------------------------------
(* worker: run, ensure_groups, read_and_process                             *)

\* The process starts.
Boot(w) ==
    /\ up[w] = "down"
    /\ up' = [up EXCEPT ![w] = "boot"]
    /\ UNCHANGED <<streamVars, groupVars, handle, crashes>>

\* XGROUP CREATE ... $ MKSTREAM: a new group starts after the last entry, an
\* existing one is left alone (BUSYGROUP).  An error is logged and the loop
\* starts all the same.
EnsureGroups(w) ==
    /\ up[w] = "boot"
    /\ up' = [up EXCEPT ![w] = "up"]
    /\ \/ /\ group' = TRUE
          /\ cursor' = IF group THEN cursor ELSE tail
       \/ "redis" \in outages /\ UNCHANGED <<group, cursor>>
    /\ UNCHANGED <<streamVars, owner, deliveries, dlq, handle, crashes>>

\* XREADGROUP ... >, as Redis executes it: the entries become pending for the
\* worker, however many of its tasks are running already (WORKER_CONCURRENCY is
\* read from the environment and never used).  Without the group the call fails
\* and the loop tries again two seconds later, forever.
ReadGroup(w) ==
    /\ up[w] = "up" /\ group /\ ~Reading(w)
    /\ Undelivered # {}
    /\ cursor' = AfterBatch
    /\ owner' = [m \in Msgs |-> IF m \in NextBatch THEN w ELSE owner[m]]
    /\ deliveries' = [m \in Msgs |-> deliveries[m] + IF m \in NextBatch THEN 1 ELSE 0]
    /\ handle' = [m \in Msgs |-> IF m \in NextBatch THEN "delivered" ELSE handle[m]]
    /\ UNCHANGED <<streamVars, group, dlq, up, crashes>>

\* What w was handed becomes h.
HandedBecome(w, h) ==
    handle' = [m \in Msgs |-> IF owner[m] = w /\ handle[m] = "delivered" THEN h ELSE handle[m]]

\* The answer arrives: a task is spawned for each entry in it.
SpawnTasks(w) ==
    /\ Reading(w)
    /\ HandedBecome(w, "running")
    /\ UNCHANGED <<streamVars, groupVars, up, crashes>>

\* The answer is lost with the connection: the entries are pending and no task
\* will know of them.
LoseAnswer(w) ==
    /\ "redis" \in outages
    /\ Reading(w)
    /\ HandedBecome(w, "gone")
    /\ UNCHANGED <<streamVars, groupVars, up, crashes>>

\* processor::dispatch returns.
Dispatched(m, outcome) ==
    /\ handle[m] = "running"
    /\ outcome \in {"succeeded", "failed"}
    /\ handle' = [handle EXCEPT ![m] = outcome]
    /\ UNCHANGED <<streamVars, groupVars, up, crashes>>

\* XACK of a success, or of a dead-lettered message; its error is ignored.
Ack(m) ==
    /\ handle[m] \in {"succeeded", "dead"}
    /\ handle' = [handle EXCEPT ![m] = "settled"]
    /\ \/ owner' = [owner EXCEPT ![m] = NoWorker]
       \/ "redis" \in outages /\ UNCHANGED owner
    /\ UNCHANGED <<streamVars, group, cursor, deliveries, dlq, up, crashes>>

\* maybe_dead_letter: XPENDING, and XADD to the DLQ at the threshold.  Below
\* it the task simply returns and the message stays pending.  An XPENDING
\* error reads as zero deliveries, and an XADD error is ignored.
MaybeDeadLetter(m) ==
    /\ handle[m] = "failed"
    /\ \/ /\ deliveries[m] >= MaxRetries
          /\ handle' = [handle EXCEPT ![m] = "dead"]
          /\ \/ dlq' = dlq \cup {m}
             \/ "redis" \in outages /\ UNCHANGED dlq
       \/ /\ deliveries[m] < MaxRetries \/ "redis" \in outages
          /\ handle' = [handle EXCEPT ![m] = "left"]
          /\ UNCHANGED dlq
    /\ UNCHANGED <<streamVars, group, cursor, owner, deliveries, up, crashes>>

\* A worker process dies with all its tasks, also with those it was about to
\* spawn; Redis keeps what is pending for it.
Crash(w) ==
    /\ crashes < MaxCrashes
    /\ up[w] # "down"
    /\ crashes' = crashes + 1
    /\ up' = [up EXCEPT ![w] = "down"]
    /\ handle' = [m \in Msgs |-> IF owner[m] = w /\ handle[m] \in InTask
                                 THEN "gone" ELSE handle[m]]
    /\ UNCHANGED <<streamVars, groupVars>>

MessageStep(m) ==
    \/ Publish(m)
    \/ \E o \in {"succeeded", "failed"} : Dispatched(m, o)
    \/ Ack(m)
    \/ MaybeDeadLetter(m)

WorkerStep(w) ==
    \/ Boot(w) \/ EnsureGroups(w)
    \/ ReadGroup(w) \/ SpawnTasks(w) \/ LoseAnswer(w)
    \/ Crash(w)

QueueNext ==
    /\ \/ \E m \in Msgs : MessageStep(m)
       \/ \E w \in Workers : WorkerStep(w)
    /\ UNCHANGED outages

QueueSpec == QueueInit /\ [][QueueNext]_queueAllVars

(***************************************************************************)
(* Fairness.  A process that stopped is started again (restart policy of   *)
(* the deployment), the loop of a running one never ends, and a spawned    *)
(* task is polled until it returns.  The backend need not publish.         *)
(***************************************************************************)
QueueFairSpec ==
    /\ QueueSpec
    /\ \A w \in Workers : WF_queueVars(Boot(w)) /\ WF_queueVars(EnsureGroups(w))
                          /\ WF_queueVars(ReadGroup(w)) /\ WF_queueVars(SpawnTasks(w))
    /\ \A m \in Msgs : WF_queueVars(\E o \in {"succeeded", "failed"} : Dispatched(m, o))
                       /\ WF_queueVars(Ack(m)) /\ WF_queueVars(MaybeDeadLetter(m))

-----------------------------------------------------------------------------
(* Properties that hold                                                     *)

\* What DESIGN.md calls at-least-once begins with this: an entry that was handed
\* out stays on the pending list until its task has sent the XACK itself, at
\* whatever command the worker dies, a Redis call fails or the task gives up.
\* (That somebody reads the list again is the other half, which the code lacks:
\* see UnackedIsRedelivered.)
UnfinishedIsPending == \A m \in Msgs : handle[m] \notin {"none", "settled"} => Pending(m)

\* Types, and the pending list.
QueueOK == QueueTypeOK /\ UnfinishedIsPending

\* A message leaves the pending list only if its task succeeded or it is in
\* the dead-letter stream: a job is never dropped without a trace.  (Redis
\* must not fail here: the result of the XADD to the DLQ is ignored.)
LeavesWithTrace(m) == Pending(m) /\ ~Pending(m)' => handle[m] = "succeeded" \/ m \in dlq
NoSilentDrop == [][outages = {} => \A m \in Msgs : LeavesWithTrace(m)]_queueAllVars

\* What is in the stream after the group's position gets a task that comes to its
\* end, in spite of crashes of the others, unless the worker that was handed it
\* dies before that; as long as workers are started again and Redis does not
\* lose the answer of an XREADGROUP (which would be lost with all its messages).
WaitingIsServed ==
    \A m \in Msgs : (outages = {} /\ group /\ entry[m] > cursor)
                      ~> (handle[m] \in {"settled", "left"} \/ (handle[m] = "gone" /\ crashes > 0))

-----------------------------------------------------------------------------
(* What the code does instead of a retry; the proofs about the pipeline,    *)
(* which repeats its effects when it is run again, rest on it.              *)

\* No entry is ever delivered a second time: the loop only asks for ">".
DeliveredOnce == \A m \in Msgs : deliveries[m] <= 1

\* With a threshold above one the dead-letter stream stays empty whatever
\* fails: no count reaches it.
DeadLetterUnreachable == MaxRetries > 1 => dlq = {}

-----------------------------------------------------------------------------
(* What DESIGN.md says and the code does not do.                            *)

\* DESIGN.md:57-58: without an XACK "Redis re-delivers on the next XREADGROUP", be it that
\* the task failed below the threshold or that its worker died (DESIGN.md:142-143: the
\* other pod "absorbs the other's crash window").  XREADGROUP with ">" never does.
UnackedIsRedelivered == \A m \in Msgs : handle[m] \in {"left", "gone"} ~> deliveries[m] > 1
=============================================================================
