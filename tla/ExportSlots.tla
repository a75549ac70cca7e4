---------------------------- MODULE ExportSlots ----------------------------
(***************************************************************************)
(* The concurrent-export limiter of one workspace: the Redis counter       *)
(*     cloudcut:exports:concurrent:{workspace_id}                          *)
(* that backend/src/rate_limit/mod.rs increments when an export is asked   *)
(* for and worker/src/export_pipeline.rs decrements when its task ends.    *)
(* Every Redis command is one step, so the gaps between INCR, EXPIRE and   *)
(* DECR, and between the worker's DECR and its SET 0, are visible.         *)
(*                                                                         *)
(* Workspaces share nothing, so one key is modelled.  The requests are the *)
(* calls of create_export that reach the limiter; a request and the export *)
(* job it creates have one identity.                                       *)
(***************************************************************************)
EXTENDS Integers, FiniteSets

CONSTANTS
    Requests,   \* the export requests of the workspace
    Limit,      \* export_concurrent_limit(plan): 2, 10 or 30
    FaultSets   \* the sets of faults that may come together

(***************************************************************************)
(* "redis"   a Redis call fails, before or after the server executed it    *)
(* "cancel"  the request's future is dropped between two awaits (client    *)
(*           disconnect, backend crash)                                    *)
(* "abandon" nobody will release the slot: see Abandon                     *)
(* "expiry"  the 24 h TTL of the key runs out                              *)
(***************************************************************************)
FaultKinds == {"redis", "cancel", "abandon", "expiry"}

ASSUME RequestsFinite == IsFiniteSet(Requests)
ASSUME LimitPositive == Limit \in Nat \ {0}
ASSUME FaultsKnown == FaultSets \subseteq SUBSET FaultKinds

VARIABLES
    count,      \* the value of the key (0 when it is absent, as INCR and DECR read it)
    ttl,        \* what TTL answers: "absent" (-2), "none" (-1) or "armed" (> 0)
    slot,       \* how far each request is with its slot
    faults      \* what may go wrong in this behaviour; it never changes

slotVars == <<count, ttl, slot>>
allVars  == <<slotVars, faults>>

SlotStates ==
    { "idle",       \* has not reached the limiter
      "arming",     \* INCR answered 1, EXPIRE is next
      "over",       \* INCR answered more than Limit, DECR is next
      "held",       \* admitted: the job occupies a slot
      "resetting",  \* the worker's DECR answered a negative number, SET 0 is next
      "released",   \* given back
      "refused",    \* 429, or a Redis error before the INCR
      "lost" }      \* incremented, and nobody is going to decrement it

SlotTypeOK ==
    /\ count \in Int
    /\ ttl \in {"absent", "none", "armed"}
    /\ slot \in [Requests -> SlotStates]
    /\ faults \in FaultSets

\* The requests whose INCR has not been taken back by a DECR of their own.
Counted == {r \in Requests : slot[r] \in {"arming", "over", "held", "lost"}}

\* The requests that were let through and have not given their slot back.
Admitted == {r \in Requests : slot[r] \in {"arming", "held"}}

SlotInit ==
    /\ count = 0
    /\ ttl = "absent"
    /\ slot = [r \in Requests |-> "idle"]
    /\ faults \in FaultSets

-----------------------------------------------------------------------------
(* Redis commands: INCR and DECR create the key without a TTL.              *)

AddToKey(n) ==
    /\ count' = count + n
    /\ ttl' = IF ttl = "absent" THEN "none" ELSE ttl

Advance(r, s) == slot' = [slot EXCEPT ![r] = s]

-----------------------------------------------------------------------------
(* Mutations: the same operations with a plausible bug, for the sensitivity *)
(* checks of the properties.  No specification uses them.                   *)

\* The test looks at the value before the INCR.
TakeStaleTest(r) ==
    /\ slot[r] = "idle"
    /\ AddToKey(1)
    /\ Advance(r, IF count + 1 = 1 THEN "arming"
                  ELSE IF count > Limit THEN "over" ELSE "held")

\* EXPIRE is sent for another key.
ArmOtherKey(r) ==
    /\ slot[r] = "arming"
    /\ Advance(r, "held")
    /\ UNCHANGED <<count, ttl>>

-----------------------------------------------------------------------------
(* backend: check_concurrent_exports                                        *)

\* INCR, and the two tests on its answer.
Take(r) ==
    /\ slot[r] = "idle"
    /\ AddToKey(1)
    /\ Advance(r, IF count + 1 = 1 THEN "arming"
                  ELSE IF count + 1 > Limit THEN "over" ELSE "held")

\* The INCR failed: nothing happened, or it was executed and its answer lost.
TakeError(r) ==
    /\ "redis" \in faults
    /\ slot[r] = "idle"
    /\ \/ Advance(r, "refused") /\ UNCHANGED <<count, ttl>>
       \/ Advance(r, "lost") /\ AddToKey(1)

\* EXPIRE after an answer of 1; its result is ignored, and it does nothing
\* to a key that is not there.
Arm(r) ==
    /\ slot[r] = "arming"
    /\ Advance(r, "held")
    /\ \/ ttl' = IF ttl = "absent" THEN "absent" ELSE "armed"
       \/ "redis" \in faults /\ UNCHANGED ttl
    /\ UNCHANGED count

\* DECR after an answer above the limit; its result is ignored too.
Refuse(r) ==
    /\ slot[r] = "over"
    /\ \/ Advance(r, "refused") /\ AddToKey(-1)
       \/ "redis" \in faults /\ Advance(r, "lost") /\ UNCHANGED <<count, ttl>>

\* The handler's future is dropped before its next Redis command.
Cancel(r) ==
    /\ "cancel" \in faults
    /\ slot[r] \in {"arming", "over"}
    /\ Advance(r, "lost")
    /\ UNCHANGED <<count, ttl>>

-----------------------------------------------------------------------------
(* worker: release_export_slot                                              *)

\* DECR.  A negative answer is repaired by a second command; an error is not
\* (the decrement may have been executed all the same).
Release(r) ==
    /\ slot[r] = "held"
    /\ \/ AddToKey(-1) /\ Advance(r, IF count - 1 < 0 THEN "resetting" ELSE "released")
       \/ "redis" \in faults /\ AddToKey(-1) /\ Advance(r, "released")
       \/ "redis" \in faults /\ Advance(r, "lost") /\ UNCHANGED <<count, ttl>>

\* SET key 0, which also removes the TTL.
Reset(r) ==
    /\ slot[r] = "resetting"
    /\ Advance(r, "released")
    /\ \/ count' = 0 /\ ttl' = "none"
       \/ "redis" \in faults /\ UNCHANGED <<count, ttl>>

\* Admitted requests S whose release will never be tried: the handler failed
\* after the limiter, the worker skipped the release, or it crashed.
Abandon(S) ==
    /\ "abandon" \in faults
    /\ \A r \in S : slot[r] \in {"held", "resetting"}
    /\ slot' = [r \in Requests |->
                  IF r \notin S THEN slot[r]
                  ELSE IF slot[r] = "held" THEN "lost" ELSE "released"]
    /\ UNCHANGED <<count, ttl>>

-----------------------------------------------------------------------------
(* Redis deletes the key when its TTL runs out, whoever still holds a slot. *)

Expire ==
    /\ "expiry" \in faults
    /\ ttl = "armed"
    /\ count' = 0
    /\ ttl' = "absent"
    /\ UNCHANGED slot

SlotStep(r) ==
    \/ Take(r)
    \/ TakeError(r)
    \/ Arm(r)
    \/ Refuse(r)
    \/ Cancel(r)
    \/ Release(r)
    \/ Reset(r)

SlotNext ==
    /\ \/ \E r \in Requests : SlotStep(r)
       \/ \E S \in SUBSET Requests : Abandon(S)
       \/ Expire
    /\ UNCHANGED faults

SlotSpec == SlotInit /\ [][SlotNext]_allVars

(***************************************************************************)
(* Fairness.  A request that is being served keeps being polled and a task *)
(* that runs ends in release_export_slot, so their next command is sent;   *)
(* Redis does expire keys.  Nobody is obliged to ask for an export.        *)
(***************************************************************************)
SlotFairSpec ==
    /\ SlotSpec
    /\ WF_slotVars(Expire)
    /\ \A r \in Requests :
          WF_slotVars(Arm(r) \/ Refuse(r) \/ Release(r) \/ Reset(r))

-----------------------------------------------------------------------------
(* Properties                                                               *)

ExactCount  == count = Cardinality(Counted)
WithinLimit == Cardinality(Admitted) <= Limit

\* As long as the key does not expire it counts exactly the increments that
\* were not taken back, whatever fails and whoever leaves half way: the INCR
\* and DECR of check_concurrent_exports and release_export_slot pair up.
CountExact == "expiry" \notin faults => ExactCount

\* The plan's limit: while the key does not expire, never more than Limit
\* exports of a workspace were let through and still hold their slot, although
\* INCR, test and DECR are separate commands of concurrent requests.
ConcurrencyBound == "expiry" \notin faults => WithinLimit

\* The counter never exceeds the slots that are really counted, not even
\* after an expiry, a negative count and a SET 0 that raced with INCRs: the
\* repairs never refuse an export on behalf of nobody.
NoPhantomSlots == count <= Cardinality(Counted)

\* A positive counter has a TTL, or the request that saw INCR answer 1 is
\* about to give it one: the 24 h safety net is under every leak, unless a
\* request is dropped in between or a command fails.
Netted == count > 0 => ttl = "armed" \/ \E r \in Requests : slot[r] = "arming"
SafetyNet == faults \cap {"redis", "cancel"} = {} => Netted

\* All that is promised of the counter at any time.
SlotOK == SlotTypeOK /\ CountExact /\ ConcurrencyBound /\ NoPhantomSlots /\ SafetyNet

\* A saturated workspace does not stay so: when slots are lost the TTL
\* frees them, and otherwise a release does.
SaturationEnds ==
    (/\ faults \cap {"redis", "cancel"} = {}
     /\ "abandon" \in faults => "expiry" \in faults
     /\ count >= Limit)
        ~> (count < Limit)
=============================================================================
