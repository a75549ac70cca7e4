------------------------- MODULE ExportPartsProofs -------------------------
(***************************************************************************)
(* What the two parts of the exports guarantee alone: ExportSlots for      *)
(* every set of requests, every limit and every set of faults, and         *)
(* WorkerQueue for any number of messages and workers, any batch size,     *)
(* retry threshold and number of crashes.  The parts share no state; it is *)
(* ExportJobs that puts them together.                                     *)
(***************************************************************************)
EXTENDS ExportSlots, WorkerQueue, FiniteSetTheorems, TLAPS

-----------------------------------------------------------------------------
(* The limiter.                                                             *)

\* Every variable keeps its type: the starting point of the other proofs.
THEOREM SlotTypeCorrect == SlotSpec => []SlotTypeOK
<1>1. SlotInit => SlotTypeOK
  BY DEF SlotInit, SlotTypeOK, SlotStates
<1>2. SlotTypeOK /\ [SlotNext]_allVars => SlotTypeOK'
  <2> SUFFICES ASSUME SlotTypeOK, [SlotNext]_allVars
               PROVE  SlotTypeOK'
    OBVIOUS
  <2>f. faults' = faults
    BY DEF SlotNext, allVars
  <2> USE <2>f DEF SlotTypeOK, SlotStates, AddToKey, Advance
  <2>1. ASSUME NEW r \in Requests, Take(r) PROVE SlotTypeOK'
    BY <2>1 DEF Take
  <2>2. ASSUME NEW r \in Requests, TakeError(r) PROVE SlotTypeOK'
    BY <2>2 DEF TakeError
  <2>3. ASSUME NEW r \in Requests, Arm(r) PROVE SlotTypeOK'
    BY <2>3 DEF Arm
  <2>4. ASSUME NEW r \in Requests, Refuse(r) PROVE SlotTypeOK'
    BY <2>4 DEF Refuse
  <2>5. ASSUME NEW r \in Requests, Cancel(r) PROVE SlotTypeOK'
    BY <2>5 DEF Cancel
  <2>6. ASSUME NEW r \in Requests, Release(r) PROVE SlotTypeOK'
    BY <2>6 DEF Release
  <2>7. ASSUME NEW r \in Requests, Reset(r) PROVE SlotTypeOK'
    BY <2>7 DEF Reset
  <2>8. ASSUME NEW S \in SUBSET Requests, Abandon(S) PROVE SlotTypeOK'
    BY <2>8 DEF Abandon
  <2>9. CASE Expire
    BY <2>9 DEF Expire
  <2>10. CASE UNCHANGED allVars
    BY <2>10 DEF allVars, slotVars
  <2> QED
    BY <2>1, <2>2, <2>3, <2>4, <2>5, <2>6, <2>7, <2>8, <2>9, <2>10
       DEF SlotNext, SlotStep
<1> QED
  BY <1>1, <1>2, PTL DEF SlotSpec

-----------------------------------------------------------------------------
(* How one step changes the set of counted requests.                        *)

\* A request that begins to be counted adds one to the number of them.
LEMMA CountedGains ==
  ASSUME NEW r \in Requests, NEW s \in {"arming", "over", "held", "lost"},
         SlotTypeOK, r \notin Counted, Advance(r, s)
  PROVE  /\ Cardinality(Counted) \in Nat
         /\ Cardinality(Counted') = Cardinality(Counted) + 1
<1>1. Counted' = Counted \cup {r}
  BY DEF Counted, Advance, SlotTypeOK
<1>2. IsFiniteSet(Counted)
  BY RequestsFinite, FS_Subset DEF Counted
<1> QED
  BY <1>1, <1>2, FS_AddElement, FS_CardinalityType

\* A request that stops being counted takes one from the number of them.
LEMMA CountedLoses ==
  ASSUME NEW r \in Requests, NEW s \in {"resetting", "released", "refused"},
         SlotTypeOK, r \in Counted, Advance(r, s)
  PROVE  /\ Cardinality(Counted) \in Nat \ {0}
         /\ Cardinality(Counted') = Cardinality(Counted) - 1
<1>1. Counted' = Counted \ {r}
  BY DEF Counted, Advance, SlotTypeOK
<1>2. IsFiniteSet(Counted)
  BY RequestsFinite, FS_Subset DEF Counted
<1>3. Cardinality(Counted) \in Nat /\ Cardinality(Counted) # 0
  BY <1>2, FS_CardinalityType, FS_EmptySet
<1> QED
  BY <1>1, <1>2, <1>3, FS_RemoveElement

\* A step between two counted states, or between two that are not, leaves
\* the counted requests as they are.
LEMMA CountedKeeps ==
  ASSUME NEW r \in Requests, NEW s \in SlotStates, SlotTypeOK, Advance(r, s),
         r \in Counted <=> s \in {"arming", "over", "held", "lost"}
  PROVE  Counted' = Counted
BY DEF Counted, Advance, SlotTypeOK

\* There are finitely many counted requests.
LEMMA CountedFinite == IsFiniteSet(Counted) /\ Cardinality(Counted) \in Nat
<1>1. IsFiniteSet(Counted)
  BY RequestsFinite, FS_Subset DEF Counted
<1> QED
  BY <1>1, FS_CardinalityType

-----------------------------------------------------------------------------
(* Without expiry the counter is exact, and the limit of the plan holds.    *)

\* CountExact and ConcurrencyBound are not inductive alone: the DECR of an
\* exact counter never answers a negative number, so nothing is ever reset;
\* and the bound is kept by Take because the counter is exact.
Exact ==
    /\ SlotTypeOK
    /\ ExactCount
    /\ \A r \in Requests : slot[r] # "resetting"
    /\ WithinLimit

ExactInv == "expiry" \notin faults => Exact

\* A step that admits nobody keeps the bound.
LEMMA BoundKept ==
  ASSUME WithinLimit, Limit' = Limit, Admitted' \subseteq Admitted
  PROVE  WithinLimit'
<1>1. IsFiniteSet(Admitted)
  BY RequestsFinite, FS_Subset DEF Admitted
<1>2. /\ IsFiniteSet(Admitted')
      /\ Cardinality(Admitted') <= Cardinality(Admitted)
  BY <1>1, FS_Subset
<1>3. Cardinality(Admitted) \in Nat /\ Cardinality(Admitted') \in Nat
  BY <1>1, <1>2, FS_CardinalityType
<1> QED
  BY <1>2, <1>3, LimitPositive DEF WithinLimit

\* The initial state satisfies the inductive invariant: nobody is counted.
LEMMA ExactInit == SlotInit => Exact
<1> SUFFICES ASSUME SlotInit PROVE Exact
  OBVIOUS
<1>1. SlotTypeOK /\ \A r \in Requests : slot[r] # "resetting"
  BY DEF SlotInit, SlotTypeOK, SlotStates
<1>2. Counted = {} /\ Admitted = {}
  BY DEF SlotInit, Counted, Admitted
<1>3. Cardinality({}) = 0
  BY FS_EmptySet
<1> QED
  BY <1>1, <1>2, <1>3, LimitPositive
     DEF Exact, ExactCount, WithinLimit, SlotInit

\* Every command of every request preserves it as long as keys do not expire.
LEMMA ExactStep ==
  ASSUME "expiry" \notin faults, SlotTypeOK', Exact, [SlotNext]_allVars
  PROVE  Exact'
<1> USE DEF Exact
<1>t. Counted \subseteq Requests /\ Limit' = Limit
  BY DEF Counted
<1>1. ASSUME NEW r \in Requests, Take(r) PROVE Exact'
  <2>1. PICK s \in {"arming", "over", "held"} :
            /\ Advance(r, s)
            /\ s # "over" => count + 1 = 1 \/ count + 1 <= Limit
    <3>1. CASE count + 1 = 1
      BY <1>1, <3>1 DEF Take
    <3>2. CASE count + 1 # 1 /\ count + 1 > Limit
      BY <1>1, <3>2 DEF Take
    <3>3. CASE count + 1 # 1 /\ ~(count + 1 > Limit)
      BY <1>1, <3>3, LimitPositive DEF Take, SlotTypeOK
    <3> QED
      BY <3>1, <3>2, <3>3
  <2>2. r \notin Counted
    BY <1>1 DEF Take, Counted
  <2>3. Cardinality(Counted) \in Nat /\ Cardinality(Counted') = Cardinality(Counted) + 1
    BY <2>1, <2>2, CountedGains
  <2>4. ExactCount'
    BY <1>1, <2>3 DEF Take, AddToKey, ExactCount
  <2>5. \A q \in Requests : slot'[q] # "resetting"
    BY <2>1 DEF Advance, SlotTypeOK
  <2>6. WithinLimit'
    <3>1. CASE s = "over"
      <4>1. Admitted' \subseteq Admitted
        BY <2>1, <3>1 DEF Admitted, Advance, SlotTypeOK
      <4> QED
        BY <4>1, <1>t, BoundKept
    <3>2. CASE s # "over"
      <4>1. Admitted' \subseteq Counted'
        BY DEF Admitted, Counted
      <4>2. IsFiniteSet(Counted')
        BY RequestsFinite, FS_Subset DEF Counted
      <4>3. /\ Cardinality(Admitted') \in Nat
            /\ Cardinality(Admitted') <= Cardinality(Counted')
        BY <4>1, <4>2, FS_Subset, FS_CardinalityType
      <4>4. Cardinality(Counted') <= Limit
        BY <2>1, <2>3, <3>2, LimitPositive DEF ExactCount
      <4> QED
        BY <4>3, <4>4, <2>3, LimitPositive DEF WithinLimit
    <3> QED
      BY <3>1, <3>2
  <2> QED
    BY <2>4, <2>5, <2>6
<1>2. ASSUME NEW r \in Requests, NEW s \in {"resetting", "released", "refused"},
             Advance(r, s), r \in Counted, AddToKey(-1),
             s = "resetting" => count - 1 < 0
      PROVE  Exact'
  <2>1. /\ Cardinality(Counted) \in Nat \ {0}
        /\ Cardinality(Counted') = Cardinality(Counted) - 1
    BY <1>2, CountedLoses
  <2>2. ExactCount'
    BY <1>2, <2>1 DEF AddToKey, ExactCount
  <2>3. s # "resetting"
    BY <1>2, <2>1 DEF ExactCount
  <2>4. \A q \in Requests : slot'[q] # "resetting"
    BY <1>2, <2>3 DEF Advance, SlotTypeOK
  <2>5. Admitted' \subseteq Admitted
    BY <1>2 DEF Admitted, Advance, SlotTypeOK
  <2>6. WithinLimit'
    BY <2>5, <1>t, BoundKept
  <2> QED
    BY <2>2, <2>4, <2>6
<1>3. ASSUME NEW r \in Requests, NEW s \in {"held", "lost", "refused"},
             Advance(r, s), count' = count,
             r \in Counted <=> s \in {"held", "lost"},
             s = "held" => slot[r] = "arming"
      PROVE  Exact'
  <2>1. Counted' = Counted
    BY <1>3, CountedKeeps DEF SlotStates
  <2>2. Admitted' \subseteq Admitted
    BY <1>3 DEF Admitted, Advance, SlotTypeOK
  <2>3. \A q \in Requests : slot'[q] # "resetting"
    BY <1>3 DEF Advance, SlotTypeOK
  <2>4. ExactCount'
    BY <1>3, <2>1 DEF ExactCount
  <2> QED
    BY <2>2, <2>3, <2>4, <1>t, BoundKept
<1>4. ASSUME NEW r \in Requests, TakeError(r) PROVE Exact'
  <2>1. CASE Advance(r, "refused") /\ UNCHANGED <<count, ttl>>
    BY <1>3, <1>4, <2>1 DEF TakeError, Counted
  <2>2. CASE Advance(r, "lost") /\ AddToKey(1)
    <3>1. r \notin Counted
      BY <1>4 DEF TakeError, Counted
    <3>2. /\ Cardinality(Counted) \in Nat
          /\ Cardinality(Counted') = Cardinality(Counted) + 1
      BY <2>2, <3>1, CountedGains
    <3>3. ExactCount'
      BY <2>2, <3>2 DEF AddToKey, ExactCount
    <3>4. Admitted' \subseteq Admitted /\ \A q \in Requests : slot'[q] # "resetting"
      BY <2>2 DEF Admitted, Advance, SlotTypeOK
    <3> QED
      BY <3>3, <3>4, <1>t, BoundKept
  <2> QED
    BY <1>4, <2>1, <2>2 DEF TakeError
<1>5. ASSUME NEW r \in Requests, Arm(r) PROVE Exact'
  BY <1>5, <1>3 DEF Arm, Counted
<1>6. ASSUME NEW r \in Requests, Refuse(r) PROVE Exact'
  BY <1>6, <1>2, <1>3 DEF Refuse, Counted
<1>7. ASSUME NEW r \in Requests, Cancel(r) PROVE Exact'
  BY <1>7, <1>3 DEF Cancel, Counted
<1>8. ASSUME NEW r \in Requests, Release(r) PROVE Exact'
  <2>1. r \in Counted
    BY <1>8 DEF Release, Counted
  <2>2. CASE AddToKey(-1) /\ Advance(r, IF count - 1 < 0 THEN "resetting" ELSE "released")
    BY <2>1, <2>2, <1>2
  <2>3. CASE AddToKey(-1) /\ Advance(r, "released")
    BY <2>1, <2>3, <1>2
  <2>4. CASE Advance(r, "lost") /\ UNCHANGED <<count, ttl>>
    BY <2>1, <2>4, <1>3
  <2> QED
    BY <1>8, <2>2, <2>3, <2>4 DEF Release
<1>9. ASSUME NEW r \in Requests, Reset(r) PROVE Exact'
  BY <1>9 DEF Reset
<1>10. ASSUME NEW S \in SUBSET Requests, Abandon(S) PROVE Exact'
  <2>1. Counted' = Counted /\ count' = count
    BY <1>10 DEF Abandon, Counted, SlotTypeOK
  <2>2. Admitted' \subseteq Admitted /\ \A r \in Requests : slot'[r] # "resetting"
    BY <1>10 DEF Abandon, Admitted, SlotTypeOK
  <2> QED
    BY <2>1, <2>2, <1>t, BoundKept DEF ExactCount
<1>11. CASE Expire
  BY <1>11 DEF Expire
<1>12. CASE UNCHANGED allVars
  BY <1>12 DEF allVars, slotVars, ExactCount, WithinLimit, Counted, Admitted
<1> QED
  BY <1>1, <1>4, <1>5, <1>6, <1>7, <1>8, <1>9, <1>10, <1>11, <1>12
     DEF SlotNext, SlotStep

\* While the key does not expire, the counter equals the number of
\* increments not taken back and at most Limit exports hold a slot,
\* whatever fails and whoever gives up: check_concurrent_exports and
\* release_export_slot, for every number of concurrent requests.
THEOREM SlotLimitHolds == SlotSpec => [](CountExact /\ ConcurrencyBound)
<1>1. SlotInit => ExactInv
  BY ExactInit DEF ExactInv
<1>2. SlotTypeOK' /\ ExactInv /\ [SlotNext]_allVars => ExactInv'
  <2>1. [SlotNext]_allVars => faults' = faults
    BY DEF SlotNext, allVars
  <2> QED
    BY <2>1, ExactStep DEF ExactInv
<1>3. ExactInv => CountExact /\ ConcurrencyBound
  BY DEF ExactInv, Exact, CountExact, ConcurrencyBound
<1> QED
  BY <1>1, <1>2, <1>3, SlotTypeCorrect, PTL DEF SlotSpec

-----------------------------------------------------------------------------
(* With expiry, and every other fault, the counter never counts too much.   *)

\* One command of a request changes the counter by at most what it changes
\* the number of counted requests by; SET 0 and the expiry only lower it.
LEMMA NoPhantomStep ==
  ASSUME SlotTypeOK, SlotTypeOK', NoPhantomSlots, [SlotNext]_allVars
  PROVE  NoPhantomSlots'
<1> USE DEF NoPhantomSlots
<1>i. count \in Int /\ count' \in Int /\ Cardinality(Counted) \in Nat
  BY CountedFinite DEF SlotTypeOK
<1>1. ASSUME NEW r \in Requests, NEW s \in {"arming", "over", "held", "lost"},
             r \notin Counted, Advance(r, s), count' <= count + 1
      PROVE  NoPhantomSlots'
  BY <1>1, <1>i, CountedGains
<1>2. ASSUME NEW r \in Requests, NEW s \in {"resetting", "released", "refused"},
             r \in Counted, Advance(r, s), count' = count - 1
      PROVE  NoPhantomSlots'
  BY <1>2, <1>i, CountedLoses
<1>3. ASSUME Counted' = Counted, count' <= count \/ count' = 0
      PROVE  NoPhantomSlots'
  BY <1>3, <1>i
<1>4. ASSUME NEW r \in Requests, Take(r) PROVE NoPhantomSlots'
  BY <1>4, <1>1, <1>i DEF Take, AddToKey, Counted
<1>5. ASSUME NEW r \in Requests, TakeError(r) PROVE NoPhantomSlots'
  <2>1. CASE Advance(r, "refused") /\ UNCHANGED <<count, ttl>>
    <3>1. Counted' = Counted
      BY <1>5, <2>1, CountedKeeps DEF TakeError, Counted, SlotStates
    <3> QED
      BY <3>1, <2>1, <1>3, <1>i
  <2>2. CASE Advance(r, "lost") /\ AddToKey(1)
    BY <1>5, <2>2, <1>1, <1>i DEF TakeError, AddToKey, Counted
  <2> QED
    BY <1>5, <2>1, <2>2 DEF TakeError
<1>6. ASSUME NEW r \in Requests, Arm(r) PROVE NoPhantomSlots'
  <2>1. Counted' = Counted
    BY <1>6, CountedKeeps DEF Arm, Counted, SlotStates
  <2> QED
    BY <1>6, <2>1, <1>3, <1>i DEF Arm
<1>7. ASSUME NEW r \in Requests, Refuse(r) PROVE NoPhantomSlots'
  <2>1. CASE Advance(r, "refused") /\ AddToKey(-1)
    BY <1>7, <2>1, <1>2, <1>i DEF Refuse, AddToKey, Counted
  <2>2. CASE Advance(r, "lost") /\ UNCHANGED <<count, ttl>>
    <3>1. Counted' = Counted
      BY <1>7, <2>2, CountedKeeps DEF Refuse, Counted, SlotStates
    <3> QED
      BY <3>1, <2>2, <1>3, <1>i
  <2> QED
    BY <1>7, <2>1, <2>2 DEF Refuse
<1>8. ASSUME NEW r \in Requests, Cancel(r) PROVE NoPhantomSlots'
  <2>1. Counted' = Counted
    BY <1>8, CountedKeeps DEF Cancel, Counted, SlotStates
  <2> QED
    BY <1>8, <2>1, <1>3, <1>i DEF Cancel
<1>9. ASSUME NEW r \in Requests, Release(r) PROVE NoPhantomSlots'
  <2>1. r \in Counted
    BY <1>9 DEF Release, Counted
  <2>2. ASSUME NEW s \in {"resetting", "released"}, AddToKey(-1), Advance(r, s)
        PROVE  NoPhantomSlots'
    BY <2>1, <2>2, <1>2, <1>i DEF AddToKey
  <2>3. CASE Advance(r, "lost") /\ UNCHANGED <<count, ttl>>
    <3>1. Counted' = Counted
      BY <2>1, <2>3, CountedKeeps DEF SlotStates
    <3> QED
      BY <3>1, <2>3, <1>3, <1>i
  <2> QED
    BY <1>9, <2>2, <2>3 DEF Release
<1>10. ASSUME NEW r \in Requests, Reset(r) PROVE NoPhantomSlots'
  <2>1. Counted' = Counted
    BY <1>10, CountedKeeps DEF Reset, Counted, SlotStates
  <2> QED
    BY <1>10, <2>1, <1>3, <1>i DEF Reset
<1>11. ASSUME NEW S \in SUBSET Requests, Abandon(S) PROVE NoPhantomSlots'
  <2>1. Counted' = Counted
    BY <1>11 DEF Abandon, Counted, SlotTypeOK
  <2> QED
    BY <1>11, <2>1, <1>3, <1>i DEF Abandon
<1>12. CASE Expire
  BY <1>12, <1>3, <1>i DEF Expire, Counted
<1>13. CASE UNCHANGED allVars
  BY <1>13, <1>3, <1>i DEF allVars, slotVars, Counted
<1> QED
  BY <1>4, <1>5, <1>6, <1>7, <1>8, <1>9, <1>10, <1>11, <1>12, <1>13
     DEF SlotNext, SlotStep

\* The counter never exceeds the increments not taken back, whatever expires,
\* fails or is dropped: the SET 0 of release_export_slot and the expiry of
\* the key cannot make the limiter refuse exports for slots nobody holds.
THEOREM SlotNoPhantoms == SlotSpec => []NoPhantomSlots
<1>1. SlotInit => NoPhantomSlots
  <2> SUFFICES ASSUME SlotInit PROVE NoPhantomSlots
    OBVIOUS
  <2>1. Counted = {} /\ count = 0
    BY DEF SlotInit, Counted
  <2> QED
    BY <2>1, FS_EmptySet DEF NoPhantomSlots
<1>2. SlotTypeOK /\ SlotTypeOK' /\ NoPhantomSlots /\ [SlotNext]_allVars => NoPhantomSlots'
  BY NoPhantomStep
<1> QED
  BY <1>1, <1>2, SlotTypeCorrect, PTL DEF SlotSpec

-----------------------------------------------------------------------------
(* The 24 h safety net.                                                     *)

\* SafetyNet needs that an absent key reads 0: an EXPIRE that finds no key
\* must not be the last chance of a positive counter to get a TTL.
Net ==
    /\ SlotTypeOK
    /\ ttl = "absent" => count = 0
    /\ Netted

NetInv == faults \cap {"redis", "cancel"} = {} => Net

\* Only a TakeError, a Cancel or a failing EXPIRE could lose the TTL.
LEMMA NetStep ==
  ASSUME "redis" \notin faults, "cancel" \notin faults, SlotTypeOK', Net, [SlotNext]_allVars
  PROVE  Net'
<1> USE DEF Net, Netted, SlotTypeOK, AddToKey, Advance
<1>1. ASSUME NEW r \in Requests, Take(r) PROVE Net'
  <2>1. CASE count = 0
    <3>1. slot'[r] = "arming"
      BY <1>1, <2>1 DEF Take
    <3> QED
      BY <1>1, <2>1, <3>1 DEF Take
  <2>2. CASE count < 0
    BY <1>1, <2>2 DEF Take
  <2>3. CASE count > 0
    <3>1. ttl' = ttl
      BY <1>1, <2>3 DEF Take
    <3>2. ASSUME NEW q \in Requests, slot[q] = "arming" PROVE slot'[q] = "arming"
      BY <1>1, <3>2 DEF Take
    <3> QED
      BY <1>1, <2>3, <3>1, <3>2 DEF Take
  <2> QED
    BY <2>1, <2>2, <2>3
<1>2. ASSUME NEW r \in Requests, TakeError(r) \/ Cancel(r) PROVE Net'
  BY <1>2 DEF TakeError, Cancel
<1>3. ASSUME NEW r \in Requests, Arm(r) PROVE Net'
  BY <1>3 DEF Arm
<1>4. ASSUME NEW r \in Requests, Refuse(r) \/ Release(r) PROVE Net'
  <2>1. count' = count - 1 /\ ttl' = IF ttl = "absent" THEN "none" ELSE ttl
    BY <1>4 DEF Refuse, Release
  <2>2. ASSUME NEW q \in Requests, slot[q] = "arming" PROVE slot'[q] = "arming"
    BY <1>4, <2>2 DEF Refuse, Release
  <2> QED
    BY <2>1, <2>2
<1>5. ASSUME NEW r \in Requests, Reset(r) PROVE Net'
  BY <1>5 DEF Reset
<1>6. ASSUME NEW S \in SUBSET Requests, Abandon(S) PROVE Net'
  <2>1. ASSUME NEW q \in Requests, slot[q] = "arming" PROVE slot'[q] = "arming"
    BY <1>6, <2>1 DEF Abandon
  <2> QED
    BY <1>6, <2>1 DEF Abandon
<1>7. CASE Expire
  BY <1>7 DEF Expire
<1>8. CASE UNCHANGED allVars
  BY <1>8 DEF allVars, slotVars
<1> QED
  BY <1>1, <1>2, <1>3, <1>4, <1>5, <1>6, <1>7, <1>8 DEF SlotNext, SlotStep

\* A positive counter always has a TTL or a request about to set it, unless a
\* request is dropped between INCR and EXPIRE or Redis fails: the comment of
\* rate_limit/mod.rs on the TTL, with the conditions it needs.
THEOREM SlotSafetyNet == SlotSpec => []SafetyNet
<1>1. SlotInit => NetInv
  <2> SUFFICES ASSUME SlotInit PROVE NetInv
    OBVIOUS
  <2>1. SlotTypeOK
    BY DEF SlotInit, SlotTypeOK, SlotStates
  <2>2. count = 0
    BY DEF SlotInit
  <2> QED
    BY <2>1, <2>2 DEF NetInv, Net, Netted
<1>2. SlotTypeOK' /\ NetInv /\ [SlotNext]_allVars => NetInv'
  <2> SUFFICES ASSUME SlotTypeOK', NetInv, [SlotNext]_allVars,
                      faults' \cap {"redis", "cancel"} = {}
               PROVE  Net'
    BY DEF NetInv
  <2>1. faults' = faults
    BY DEF SlotNext, allVars
  <2>2. "redis" \notin faults /\ "cancel" \notin faults
    BY <2>1
  <2>3. Net
    BY <2>1 DEF NetInv
  <2> QED
    BY <2>2, <2>3, NetStep
<1>3. NetInv => SafetyNet
  BY DEF NetInv, Net, SafetyNet
<1> QED
  BY <1>1, <1>2, <1>3, SlotTypeCorrect, PTL DEF SlotSpec

\* Together: the counter of check_concurrent_exports and release_export_slot is all that
\* SlotOK asks of it, for every number of requests and every limit.
THEOREM SlotCorrect == SlotSpec => []SlotOK
<1>1. SlotTypeOK /\ CountExact /\ ConcurrencyBound /\ NoPhantomSlots /\ SafetyNet => SlotOK
  BY DEF SlotOK
<1> QED
  BY <1>1, SlotTypeCorrect, SlotLimitHolds, SlotNoPhantoms, SlotSafetyNet, PTL

-----------------------------------------------------------------------------
(* The queue.                                                               *)

\* The initial state has the types.
LEMMA QueueInitTypes == QueueInit => QueueTypeOK
<1> SUFFICES ASSUME QueueInit PROVE QueueTypeOK
  OBVIOUS
<1>1. group \in BOOLEAN
  BY DEF QueueInit
<1>2. entry \in [Msgs -> Nat] /\ tail \in Nat /\ cursor \in Nat /\ crashes \in Nat
      /\ deliveries \in [Msgs -> Nat]
  BY DEF QueueInit
<1>3. owner \in [Msgs -> Workers \cup {NoWorker}] /\ handle \in [Msgs -> HandleStates]
      /\ dlq \subseteq Msgs
  BY DEF QueueInit, HandleStates
<1>4. up \in [Workers -> {"down", "boot", "up"}] /\ outages \in OutageSets
  BY DEF QueueInit
<1> QED
  BY <1>1, <1>2, <1>3, <1>4 DEF QueueTypeOK

\* Every variable keeps its type.
THEOREM QueueTypeCorrect == QueueSpec => []QueueTypeOK
<1>1. QueueInit => QueueTypeOK
  BY QueueInitTypes
<1>2. QueueTypeOK /\ [QueueNext]_queueAllVars => QueueTypeOK'
  <2> SUFFICES ASSUME QueueTypeOK, [QueueNext]_queueAllVars
               PROVE  QueueTypeOK'
    OBVIOUS
  <2>f. outages' = outages
    BY DEF QueueNext, queueAllVars
  <2> USE <2>f DEF QueueTypeOK, HandleStates, streamVars, groupVars, procVars
  <2>1. ASSUME NEW m \in Msgs, Publish(m) PROVE QueueTypeOK'
    BY <2>1 DEF Publish
  <2>2. ASSUME NEW m \in Msgs, NEW o \in {"succeeded", "failed"}, Dispatched(m, o)
        PROVE  QueueTypeOK'
    BY <2>2 DEF Dispatched
  <2>3. ASSUME NEW m \in Msgs, Ack(m) PROVE QueueTypeOK'
    BY <2>3 DEF Ack
  <2>4. ASSUME NEW m \in Msgs, MaybeDeadLetter(m) PROVE QueueTypeOK'
    BY <2>4 DEF MaybeDeadLetter
  <2>5. ASSUME NEW w \in Workers, Boot(w) PROVE QueueTypeOK'
    BY <2>5 DEF Boot
  <2>6. ASSUME NEW w \in Workers, EnsureGroups(w) PROVE QueueTypeOK'
    BY <2>6 DEF EnsureGroups
  <2>7. ASSUME NEW w \in Workers, ReadGroup(w) PROVE QueueTypeOK'
    <3>1. AfterBatch \in Nat
      BY BatchPositive DEF AfterBatch
    <3>2. deliveries' \in [Msgs -> Nat] /\ owner' \in [Msgs -> Workers \cup {NoWorker}]
      BY <2>7 DEF ReadGroup
    <3> QED
      BY <2>7, <3>1, <3>2 DEF ReadGroup
  <2>8. ASSUME NEW w \in Workers, Crash(w) PROVE QueueTypeOK'
    BY <2>8 DEF Crash
  <2>9. ASSUME NEW w \in Workers, SpawnTasks(w) \/ LoseAnswer(w) PROVE QueueTypeOK'
    BY <2>9 DEF SpawnTasks, LoseAnswer, HandedBecome
  <2>10. CASE UNCHANGED queueAllVars
    BY <2>10 DEF queueAllVars, queueVars
  <2> QED
    BY <2>1, <2>2, <2>3, <2>4, <2>5, <2>6, <2>7, <2>8, <2>9, <2>10
       DEF QueueNext, MessageStep, WorkerStep
<1> QED
  BY <1>1, <1>2, PTL DEF QueueSpec

-----------------------------------------------------------------------------
(* Nothing is delivered twice.                                              *)

\* DeliveredOnce alone is not inductive: it is the group's position that
\* keeps a delivered entry from being handed out again.  Every delivered
\* entry is at or before it, and no entry is beyond the end of the stream.
DeliveryInv ==
    /\ QueueTypeOK
    /\ cursor <= tail
    /\ \A m \in Msgs : /\ entry[m] <= tail
                       /\ deliveries[m] > 0 => entry[m] # 0 /\ entry[m] <= cursor
                       /\ deliveries[m] <= 1

\* Only XREADGROUP delivers, and the new position covers what it delivered.
LEMMA DeliveryStep ==
  ASSUME DeliveryInv, QueueTypeOK', [QueueNext]_queueAllVars
  PROVE  DeliveryInv'
<1> USE DEF DeliveryInv, QueueTypeOK
<1>1. ASSUME NEW m \in Msgs, Publish(m) PROVE DeliveryInv'
  BY <1>1 DEF Publish, groupVars
<1>2. ASSUME NEW w \in Workers, EnsureGroups(w) PROVE DeliveryInv'
  BY <1>2 DEF EnsureGroups, streamVars
<1>3. ASSUME NEW w \in Workers, ReadGroup(w) PROVE DeliveryInv'
  <2>1. /\ cursor' \in Nat /\ cursor <= cursor' /\ cursor' <= tail
        /\ entry' = entry /\ tail' = tail
    BY <1>3, BatchPositive DEF ReadGroup, AfterBatch, streamVars
  <2>2. ASSUME NEW m \in NextBatch
        PROVE  /\ deliveries[m] = 0 /\ deliveries'[m] = 1
               /\ entry[m] # 0 /\ entry[m] <= cursor'
    <3>1. m \in Msgs /\ entry[m] > cursor /\ entry[m] <= cursor + Batch
      BY DEF NextBatch, Undelivered
    <3>2. deliveries[m] = 0
      BY <3>1
    <3>3. entry[m] <= cursor'
      BY <1>3, <3>1, BatchPositive DEF ReadGroup, AfterBatch
    <3> QED
      BY <1>3, <3>1, <3>2, <3>3 DEF ReadGroup
  <2>3. ASSUME NEW m \in Msgs \ NextBatch PROVE deliveries'[m] = deliveries[m]
    BY <1>3, <2>3 DEF ReadGroup
  <2> QED
    BY <2>1, <2>2, <2>3
<1>4. CASE UNCHANGED <<entry, tail, cursor, deliveries>>
  BY <1>4
<1> QED
  BY <1>1, <1>2, <1>3, <1>4
     DEF QueueNext, MessageStep, WorkerStep, Dispatched, Ack, MaybeDeadLetter,
         Boot, SpawnTasks, LoseAnswer, Crash, queueAllVars, queueVars, streamVars, groupVars,
         procVars

\* The delivery invariant holds of every behaviour.
LEMMA DeliveryInvariant == QueueSpec => []DeliveryInv
<1>1. QueueInit => DeliveryInv
  BY QueueInitTypes DEF QueueInit, DeliveryInv
<1>2. QueueTypeOK' /\ DeliveryInv /\ [QueueNext]_queueAllVars => DeliveryInv'
  BY DeliveryStep
<1> QED
  BY <1>1, <1>2, QueueTypeCorrect, PTL DEF QueueSpec

\* A message is delivered at most once, whatever crashes and whatever Redis
\* loses: read_and_process asks for ">" only, and nothing claims.
THEOREM QueueDeliveredOnce == QueueSpec => []DeliveredOnce
<1>1. DeliveryInv => DeliveredOnce
  BY DEF DeliveryInv, DeliveredOnce
<1> QED
  BY <1>1, DeliveryInvariant, PTL

\* With WORKER_MAX_RETRIES above one (three by default) maybe_dead_letter
\* never dead-letters anything.
THEOREM QueueNeverDeadLetters == QueueSpec => []DeadLetterUnreachable
<1>1. QueueInit => DeadLetterUnreachable
  BY DEF QueueInit, DeadLetterUnreachable
<1>2. DeliveryInv /\ DeadLetterUnreachable /\ [QueueNext]_queueAllVars => DeadLetterUnreachable'
  <2> SUFFICES ASSUME DeliveryInv, DeadLetterUnreachable, [QueueNext]_queueAllVars,
                      MaxRetries > 1
               PROVE  dlq' = {}
    BY DEF DeadLetterUnreachable
  <2>1. dlq = {}
    BY DEF DeadLetterUnreachable
  <2>2. ASSUME NEW m \in Msgs, MaybeDeadLetter(m) PROVE dlq' = {}
    <3>1. ~(deliveries[m] >= MaxRetries)
      BY LimitsNatural DEF DeliveryInv, QueueTypeOK
    <3> QED
      BY <2>1, <2>2, <3>1 DEF MaybeDeadLetter
  <2>3. CASE UNCHANGED dlq
    BY <2>1, <2>3
  <2> QED
    BY <2>2, <2>3
       DEF QueueNext, MessageStep, WorkerStep, Publish, Dispatched, Ack, Boot,
           EnsureGroups, ReadGroup, SpawnTasks, LoseAnswer, Crash, queueAllVars, queueVars,
           groupVars
<1> QED
  BY <1>1, <1>2, DeliveryInvariant, PTL DEF QueueSpec

-----------------------------------------------------------------------------
(* Nothing is dropped.                                                      *)

\* A task past the threshold has put its message into the dead-letter stream.
DeadInDlq ==
    /\ QueueTypeOK
    /\ outages = {} => \A m \in Msgs : handle[m] = "dead" => m \in dlq

\* When Redis answers, a message leaves the pending list only after its task
\* succeeded or with a copy in the dead-letter stream, whichever worker dies
\* when: XACK is sent from those two places only.
THEOREM QueueNoSilentDrop == QueueSpec => NoSilentDrop
<1>1. QueueInit => DeadInDlq
  BY QueueInitTypes DEF QueueInit, DeadInDlq
<1>2. QueueTypeOK' /\ DeadInDlq /\ [QueueNext]_queueAllVars => DeadInDlq'
  <2> SUFFICES ASSUME QueueTypeOK', DeadInDlq, [QueueNext]_queueAllVars
               PROVE  DeadInDlq'
    OBVIOUS
  <2>f. outages' = outages
    BY DEF QueueNext, queueAllVars
  <2> USE <2>f DEF DeadInDlq, QueueTypeOK
  <2>1. ASSUME NEW m \in Msgs, NEW o \in {"succeeded", "failed"}, Dispatched(m, o)
        PROVE  DeadInDlq'
    BY <2>1 DEF Dispatched, groupVars
  <2>2. ASSUME NEW m \in Msgs, Ack(m) PROVE DeadInDlq'
    BY <2>2 DEF Ack
  <2>3. ASSUME NEW m \in Msgs, MaybeDeadLetter(m) PROVE DeadInDlq'
    BY <2>3 DEF MaybeDeadLetter
  <2>4. ASSUME NEW w \in Workers, ReadGroup(w) PROVE DeadInDlq'
    BY <2>4 DEF ReadGroup
  <2>5. ASSUME NEW w \in Workers, SpawnTasks(w) \/ LoseAnswer(w) \/ Crash(w) PROVE DeadInDlq'
    BY <2>5 DEF SpawnTasks, LoseAnswer, HandedBecome, Crash, groupVars
  <2>6. CASE UNCHANGED <<handle, dlq>>
    BY <2>6
  <2> QED
    BY <2>1, <2>2, <2>3, <2>4, <2>5, <2>6
       DEF QueueNext, MessageStep, WorkerStep, Publish, Boot, EnsureGroups,
           queueAllVars, queueVars, groupVars, procVars
<1>3. DeadInDlq /\ [QueueNext]_queueAllVars
        => [outages = {} => \A m \in Msgs : LeavesWithTrace(m)]_queueAllVars
  <2> SUFFICES ASSUME DeadInDlq, QueueNext, outages = {},
                      NEW m \in Msgs, Pending(m), ~Pending(m)'
               PROVE  handle[m] = "succeeded" \/ m \in dlq
    BY DEF LeavesWithTrace
  <2> USE DEF DeadInDlq, QueueTypeOK, Pending
  <2>1. ASSUME NEW q \in Msgs, Ack(q) PROVE handle[m] = "succeeded" \/ m \in dlq
    BY <2>1 DEF Ack
  <2>2. ASSUME NEW w \in Workers, ReadGroup(w)
        PROVE  handle[m] = "succeeded" \/ m \in dlq
    BY <2>2, NoWorkerOutside DEF ReadGroup
  <2> QED
    BY <2>1, <2>2
       DEF QueueNext, MessageStep, WorkerStep, Publish, Dispatched, MaybeDeadLetter,
           Boot, EnsureGroups, SpawnTasks, LoseAnswer, Crash, groupVars
<1> QED
  BY <1>1, <1>2, <1>3, QueueTypeCorrect, PTL DEF QueueSpec, NoSilentDrop

\* What was handed out stays pending until its task sends the XACK itself: the step from
\* "succeeded" or "dead" is the only one that takes an owner away, and nobody delivers
\* what has an owner.
LEMMA PendingStep ==
  ASSUME QueueTypeOK, UnfinishedIsPending, [QueueNext]_queueAllVars
  PROVE  UnfinishedIsPending'
<1> USE DEF UnfinishedIsPending, Pending, QueueTypeOK
<1>1. ASSUME NEW m \in Msgs, Dispatched(m, "succeeded") \/ Dispatched(m, "failed")
             \/ MaybeDeadLetter(m)
      PROVE  UnfinishedIsPending'
  BY <1>1 DEF Dispatched, MaybeDeadLetter, groupVars
<1>2. ASSUME NEW m \in Msgs, Ack(m) PROVE UnfinishedIsPending'
  BY <1>2 DEF Ack
<1>3. ASSUME NEW w \in Workers, ReadGroup(w) PROVE UnfinishedIsPending'
  BY <1>3, NoWorkerOutside DEF ReadGroup
<1>4. ASSUME NEW w \in Workers, SpawnTasks(w) \/ LoseAnswer(w) PROVE UnfinishedIsPending'
  BY <1>4 DEF SpawnTasks, LoseAnswer, HandedBecome, groupVars
<1>5. ASSUME NEW w \in Workers, Crash(w) PROVE UnfinishedIsPending'
  BY <1>5 DEF Crash, InTask, groupVars
<1>6. CASE UNCHANGED <<handle, owner>>
  BY <1>6
<1> QED
  BY <1>1, <1>2, <1>3, <1>4, <1>5, <1>6
     DEF QueueNext, MessageStep, WorkerStep, Publish, Boot, EnsureGroups,
         queueAllVars, queueVars, groupVars, procVars

\* Together: the stream, the group and the tasks keep their types, and at whatever command
\* a worker dies or Redis fails, unfinished work is on the pending list.
THEOREM QueueCorrect == QueueSpec => []QueueOK
<1>1. QueueInit => UnfinishedIsPending
  BY DEF QueueInit, UnfinishedIsPending
<1>2. QueueTypeOK /\ UnfinishedIsPending /\ [QueueNext]_queueAllVars => UnfinishedIsPending'
  BY PendingStep
<1>3. QueueTypeOK /\ UnfinishedIsPending => QueueOK
  BY DEF QueueOK
<1> QED
  BY <1>1, <1>2, <1>3, QueueTypeCorrect, PTL DEF QueueSpec

=============================================================================
