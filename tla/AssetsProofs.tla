---------------------------- MODULE AssetsProofs ----------------------------
(***************************************************************************)
(* What Assets guarantees for any number of assets, clips, workspaces and  *)
(* lists in flight and under all faults: which clips lose their asset,     *)
(* what "ready" stands for, what the tab shows in the end, and the types.  *)
(***************************************************************************)
EXTENDS Assets, SequenceTheorems, FiniteSetTheorems, TLAPS

-----------------------------------------------------------------------------
(* What the proofs need to know of sequences.                               *)

\* Head and Tail have all elements of a sequence.
LEMMA ToSetHeadTail ==
    ASSUME NEW S, NEW s \in Seq(S), s # <<>>
    PROVE  ToSet(s) \subseteq {Head(s)} \cup ToSet(Tail(s))
<1>1. /\ Tail(s) \in Seq(S) /\ Len(Tail(s)) = Len(s) - 1 /\ Len(s) \in Nat
      /\ Head(s) = s[1]
  BY HeadTailProperties, LenProperties
<1>2. \A i \in 1 .. Len(Tail(s)) : Tail(s)[i] = s[i + 1]
  BY <1>1, HeadTailProperties
<1>3. DOMAIN s = 1 .. Len(s) /\ DOMAIN Tail(s) = 1 .. Len(Tail(s))
  BY <1>1, LenProperties
<1>4. ASSUME NEW i \in 1 .. Len(s)
      PROVE  s[i] \in {Head(s)} \cup ToSet(Tail(s))
  <2>1. CASE i = 1
    BY <1>1, <2>1
  <2>2. CASE i # 1
    <3>1. i - 1 \in 1 .. Len(Tail(s)) /\ Tail(s)[i - 1] = s[i]
      BY <1>1, <1>2, <2>2
    <3> QED
      BY <1>3, <3>1 DEF ToSet
  <2> QED
    BY <2>1, <2>2
<1> QED
  BY <1>3, <1>4 DEF ToSet

\* What RemoveAt leaves was there before.
LEMMA RemoveAtKeeps ==
    ASSUME NEW S, NEW s \in Seq(S), NEW i \in DOMAIN s
    PROVE  /\ RemoveAt(s, i) \in Seq(S)
           /\ \A k \in DOMAIN RemoveAt(s, i) : \E j \in DOMAIN s : RemoveAt(s, i)[k] = s[j]
<1>1. DOMAIN s = 1 .. Len(s) /\ Len(s) \in Nat /\ i \in 1 .. Len(s)
  BY LenProperties
<1>2. /\ SubSeq(s, 1, i - 1) \in Seq(S) /\ Len(SubSeq(s, 1, i - 1)) = i - 1
      /\ \A k \in 1 .. i - 1 : SubSeq(s, 1, i - 1)[k] = s[k]
  BY <1>1, SubSeqProperties
<1>3. /\ SubSeq(s, i + 1, Len(s)) \in Seq(S) /\ Len(SubSeq(s, i + 1, Len(s))) = Len(s) - i
      /\ \A k \in 1 .. Len(s) - i : SubSeq(s, i + 1, Len(s))[k] = s[i + k]
  BY <1>1, SubSeqProperties
<1> DEFINE A == SubSeq(s, 1, i - 1)
           B == SubSeq(s, i + 1, Len(s))
<1>4. RemoveAt(s, i) = A \o B
  BY DEF RemoveAt
<1> HIDE DEF A, B
<1>5. /\ A \in Seq(S) /\ Len(A) = i - 1 /\ \A k \in 1 .. i - 1 : A[k] = s[k]
      /\ B \in Seq(S) /\ Len(B) = Len(s) - i /\ \A k \in 1 .. Len(s) - i : B[k] = s[i + k]
  BY <1>2, <1>3 DEF A, B
<1>6. /\ A \o B \in Seq(S) /\ Len(A \o B) = Len(s) - 1
      /\ \A k \in 1 .. Len(s) - 1 : (A \o B)[k] = IF k <= i - 1 THEN A[k] ELSE B[k - (i - 1)]
  <2>1. /\ A \o B \in Seq(S) /\ Len(A \o B) = Len(A) + Len(B)
        /\ \A k \in 1 .. Len(A) + Len(B) : (A \o B)[k] = IF k <= Len(A) THEN A[k] ELSE B[k - Len(A)]
    BY <1>5, ConcatProperties
  <2>2. Len(A) + Len(B) = Len(s) - 1
    BY <1>1, <1>5
  <2> QED
    BY <1>5, <2>1, <2>2
<1>7. ASSUME NEW k \in 1 .. Len(s) - 1
      PROVE  \E j \in DOMAIN s : (A \o B)[k] = s[j]
  <2>1. CASE k <= i - 1
    <3>1. k \in DOMAIN s /\ k \in 1 .. i - 1
      BY <1>1, <2>1
    <3>2. (A \o B)[k] = A[k]
      BY <1>6, <2>1
    <3> QED
      BY <1>5, <3>1, <3>2
  <2>2. CASE ~(k <= i - 1)
    <3>1. k - (i - 1) \in 1 .. Len(s) - i /\ k + 1 \in DOMAIN s
      BY <1>1, <2>2
    <3>2. (A \o B)[k] = B[k - (i - 1)]
      BY <1>6, <2>2
    <3>3. B[k - (i - 1)] = s[i + (k - (i - 1))] /\ i + (k - (i - 1)) = k + 1
      BY <1>1, <1>5, <3>1
    <3> QED
      BY <3>1, <3>2, <3>3
  <2> QED
    BY <2>1, <2>2
<1>8. DOMAIN (A \o B) = 1 .. Len(s) - 1
  BY <1>6, LenProperties
<1> QED
  BY <1>4, <1>6, <1>7, <1>8

-----------------------------------------------------------------------------
(* Clips and the assets they use.                                           *)

(***************************************************************************)
(* UsedAssetsStay is not inductive: DropRow takes the asset from whatever  *)
(* clips have it by then.  What is missing is that TestUse saw none, so    *)
(* that all of these came later.                                           *)
(***************************************************************************)
UseTypes ==
    /\ use \in [Clips -> AssetIds \cup {None, "null"}]
    /\ deletion \in [AssetIds -> {"no", "asked", "checked", "answer"}]

CheckedIsUnused ==
    \A a \in AssetIds : deletion[a] = "checked" => \A c \in Clips : use[c] = a => c \in late

UseInv == UseTypes /\ CheckedIsUnused /\ UsedAssetsStay

\* The clips that AssetRow deletes no longer use anything; the others are as before.
LEMMA LinkedClipsGone ==
    ASSUME UseInv, NEW a \in AssetIds, DeleteLinkedClips(a)
    PROVE  UseInv'
<1>1. PICK gone \in SUBSET Clips :
        /\ use' = [c \in Clips |-> IF c \in gone THEN None ELSE use[c]]
        /\ late' = late \ gone
  <2>1. PICK kept \in SUBSET {c \in OwnClips : use[c] = a} :
          /\ use' = [c \in Clips |-> IF c \in {d \in OwnClips : use[d] = a} \ kept THEN None ELSE use[c]]
          /\ late' = late \ ({d \in OwnClips : use[d] = a} \ kept)
    BY DEF DeleteLinkedClips
  <2> QED
    BY <2>1, OwnClipsKnown
<1>2. deletion' = [deletion EXCEPT ![a] = "asked"]
  BY DEF DeleteLinkedClips, ToDelete
<1>3. UseTypes'
  BY <1>1, <1>2 DEF UseInv, UseTypes
<1>4. \A c \in Clips : use'[c] # None => use'[c] = use[c] /\ (c \in late => c \in late')
  BY <1>1
<1>5. CheckedIsUnused'
  BY <1>2, <1>4, AssetIdNames DEF UseInv, UseTypes, CheckedIsUnused
<1>6. UsedAssetsStay'
  BY <1>4, AssetIdNames DEF UseInv, UsedAssetsStay
<1> QED
  BY <1>3, <1>5, <1>6 DEF UseInv

\* DELETE and ON DELETE SET NULL.
LEMMA DroppedWasUnused ==
    ASSUME UseInv, NEW a \in AssetIds, DropRow(a)
    PROVE  UseInv'
<1>1. /\ deletion[a] = "checked" /\ late' = late
      /\ use' = [c \in Clips |-> IF use[c] = a THEN "null" ELSE use[c]]
      /\ \E d \in {"answer", "no"} : deletion' = [deletion EXCEPT ![a] = d]
  BY DEF DropRow, ToDelete
<1>2. UseTypes'
  BY <1>1 DEF UseInv, UseTypes
<1>3. CheckedIsUnused'
  BY <1>1, AssetIdNames DEF UseInv, UseTypes, CheckedIsUnused
<1>4. UsedAssetsStay'
  BY <1>1 DEF UseInv, CheckedIsUnused, UsedAssetsStay
<1> QED
  BY <1>2, <1>3, <1>4 DEF UseInv

LEMMA UseStep ==
    ASSUME UseInv, AssetsNext
    PROVE  UseInv'
<1>1. CASE UNCHANGED <<use, late, deletion>>
  BY <1>1 DEF UseInv, UseTypes, CheckedIsUnused, UsedAssetsStay
<1>2. ASSUME NEW a \in AssetIds, NEW c \in Clips, AddClip(c, a)
      PROVE  UseInv'
  <2>1. /\ use' = [use EXCEPT ![c] = a] /\ deletion' = deletion /\ late \subseteq late'
        /\ deletion[a] = "checked" => c \in late'
    BY <1>2 DEF AddClip, tabVars
  <2>2. UseTypes'
    BY <2>1 DEF UseInv, UseTypes
  <2>3. CheckedIsUnused' /\ UsedAssetsStay'
    BY <2>1, AssetIdNames DEF UseInv, UseTypes, CheckedIsUnused, UsedAssetsStay
  <2> QED
    BY <2>2, <2>3 DEF UseInv
<1>3. ASSUME NEW c \in Clips, DeleteClip(c)
      PROVE  UseInv'
  <2>1. use' = [use EXCEPT ![c] = None] /\ deletion' = deletion /\ late' = late \ {c}
    BY <1>3 DEF DeleteClip, tabVars
  <2>2. UseTypes'
    BY <2>1 DEF UseInv, UseTypes
  <2>3. CheckedIsUnused' /\ UsedAssetsStay'
    BY <2>1, AssetIdNames DEF UseInv, UseTypes, CheckedIsUnused, UsedAssetsStay
  <2> QED
    BY <2>2, <2>3 DEF UseInv
<1>4. ASSUME NEW a \in AssetIds, TestUse(a)
      PROVE  UseInv'
  <2>1. /\ use' = use /\ late' = late
        /\ \/ deletion' = [deletion EXCEPT ![a] = "checked"] /\ \A c \in Clips : use[c] # a
           \/ deletion' = [deletion EXCEPT ![a] = "no"]
    BY <1>4 DEF TestUse, ToDelete, serverVars
  <2> QED
    BY <2>1 DEF UseInv, UseTypes, CheckedIsUnused, UsedAssetsStay
<1>5. ASSUME NEW a \in AssetIds, RemoveDeleted(a)
      PROVE  UseInv'
  <2>1. use' = use /\ late' = late /\ deletion' = [deletion EXCEPT ![a] = "no"]
    BY <1>5 DEF RemoveDeleted, ToDelete, serverVars
  <2> QED
    BY <2>1 DEF UseInv, UseTypes, CheckedIsUnused, UsedAssetsStay
<1>6. ASSUME NEW a \in AssetIds,
             \/ Presign(a) \/ PutObject(a) \/ PatchProcessing(a) \/ UpsertUploaded(a)
             \/ FetchOriginal(a) \/ MakeVariant(a) \/ UpsertVariant(a) \/ MarkReady(a) \/ FailTask(a)
             \/ \E s \in {"error", "ready"} : PatchStatus(a, s)
      PROVE  UNCHANGED <<use, late, deletion>>
  BY <1>6 DEF PatchStatus, Presign, PutObject, PatchProcessing, UpsertUploaded, FetchOriginal, MakeVariant,
              UpsertVariant, MarkReady, FailTask, serverVars, tabVars
<1>7. ASSUME \/ CrashWorker \/ Poll \/ \E ws \in Workspaces : SwitchWorkspace(ws)
             \/ \E i \in DOMAIN polls : ServeList(i) \/ AnswerList(i) \/ LoseList(i)
      PROVE  UNCHANGED <<use, late, deletion>>
  BY <1>7 DEF CrashWorker, Poll, SwitchWorkspace, ServeList, AnswerList, LoseList, serverVars, tabVars
<1> QED
  BY <1>1, <1>2, <1>3, <1>4, <1>5, <1>6, <1>7, LinkedClipsGone, DroppedWasUnused
  DEF AssetsNext, Client, Task, Lists

\* A clip loses its asset only when it was added between delete_asset's SELECT and its
\* DELETE, for any clips and assets and whatever else fails.
THEOREM AssetsUse == AssetsSpec => []UsedAssetsStay
<1>1. AssetsInit => UseInv
  BY AssetIdNames DEF AssetsInit, UseInv, UseTypes, CheckedIsUnused, UsedAssetsStay
<1>2. UseInv /\ [AssetsNext]_vars => UseInv'
  <2>1. CASE UNCHANGED vars
    BY <2>1 DEF vars, serverVars, tabVars, UseInv, UseTypes, CheckedIsUnused, UsedAssetsStay
  <2> QED
    BY <2>1, UseStep
<1>3. UseInv => UsedAssetsStay
  BY DEF UseInv
<1> QED
  BY <1>1, <1>2, <1>3, PTL DEF AssetsSpec

-----------------------------------------------------------------------------
(* What ready stands for.                                                   *)

(***************************************************************************)
(* ReadyIsComplete follows from what the worker's task still has to do: of *)
(* an asset that exists, what is not yet a row is in the list of the task, *)
(* which is empty when the status is written.  Objects are never deleted,  *)
(* so what an old list says of an asset remains good.                      *)
(***************************************************************************)
Lists0 == UNION {[D -> Statuses] : D \in SUBSET AssetIds}
PollSet == [ws : Workspaces, list : Lists0 \cup {None}]
Stages == {"none", "queued", "make", "record", "finish", "ended"}

ReadyTypes ==
    /\ status \in [AssetIds -> Statuses]
    /\ rows \in [AssetIds -> SUBSET Variants]
    /\ objects \in [AssetIds -> SUBSET (Variants \cup {"original"})]
    /\ job \in [AssetIds -> [at : Stages, todo : Seq(Variants)]]
    /\ upload \in [AssetIds -> {"idle", "put", "patch", "answer", "done", "failed"}]

\* Nobody but the worker's task writes "ready".
Trusted == ~May("ready")

TaskOK(a) ==
    /\ rows[a] \subseteq objects[a]
    /\ Trusted /\ status[a] = "ready" => ToSet(Recipe[a]) \subseteq rows[a] /\ "original" \in objects[a]
    /\ upload[a] \in {"idle", "put", "patch"} => job[a].at = "none"
    /\ Exists(a) /\ job[a].at \in {"queued", "make", "record", "finish"}
          => ToSet(Recipe[a]) \subseteq rows[a] \cup ToSet(job[a].todo)
    /\ job[a].at \in {"make", "record", "finish"} => "original" \in objects[a]
    /\ job[a].at \in {"make", "record"} => job[a].todo # <<>>
    /\ job[a].at = "record" => Head(job[a].todo) \in objects[a]
    /\ job[a].at = "finish" => job[a].todo = <<>>

TaskInv == ReadyTypes /\ \A a \in AssetIds : TaskOK(a)

\* What a list calls ready can be loaded, where that word can be trusted.
Loadable(list, there, trusted) ==
    \A a \in DOMAIN list : a \in AssetIds /\
        (trusted /\ list[a] = "ready" => ToSet(Recipe[a]) \cup {"original"} \subseteq there[a])

ListInv ==
    /\ polls \in Seq(PollSet)
    /\ Loadable(items, objects, Trusted)
    /\ \A i \in DOMAIN polls : polls[i].list # None => Loadable(polls[i].list, objects, Trusted)

ReadyInv == TaskInv /\ ListInv /\ workspace \in Workspaces

\* A step of one asset's row, objects, task or upload.
LEMMA OneAsset ==
    ASSUME TaskInv, ReadyTypes', NEW a \in AssetIds, TaskOK(a)', faults' = faults,
           \A b \in AssetIds \ {a} :
              /\ status'[b] = status[b] /\ rows'[b] = rows[b] /\ objects'[b] = objects[b]
              /\ job'[b] = job[b] /\ upload'[b] = upload[b]
    PROVE  TaskInv'
<1>1. ASSUME NEW b \in AssetIds \ {a}
      PROVE  TaskOK(b)'
  BY <1>1 DEF TaskInv, TaskOK, Trusted, May, Exists, Shown
<1> QED
  BY <1>1 DEF TaskInv

\* Moving a task on keeps the type of the tasks.
LEMMA JobTypes ==
    ASSUME TaskInv, NEW a \in AssetIds, NEW at \in Stages, NEW todo \in Seq(Variants),
           job' = [job EXCEPT ![a] = [at |-> at, todo |-> todo]]
    PROVE  job' \in [AssetIds -> [at : Stages, todo : Seq(Variants)]]
<1> DEFINE task == [at |-> at, todo |-> todo]
<1>1. task \in [at : Stages, todo : Seq(Variants)]
  OBVIOUS
<1>2. job' = [job EXCEPT ![a] = task]
  OBVIOUS
<1> HIDE DEF task
<1> QED
  BY <1>1, <1>2 DEF TaskInv, ReadyTypes

\* The tab's three steps of an upload.
LEMMA UploadSteps ==
    ASSUME TaskInv, NEW a \in AssetIds,
           Presign(a) \/ PutObject(a) \/ PatchProcessing(a) \/ UpsertUploaded(a)
    PROVE  TaskInv'
<1>0. faults' = faults
  BY DEF Presign, PutObject, PatchProcessing, UpsertUploaded
<1>1. CASE Presign(a)
  <2>1. /\ upload[a] = "idle" /\ status' = [status EXCEPT ![a] = "uploading"]
        /\ \E u \in {"put", "failed"} : upload' = [upload EXCEPT ![a] = u]
        /\ rows' = rows /\ objects' = objects /\ job' = job
    BY <1>1 DEF Presign, ToUpload
  <2>2. ReadyTypes'
    BY <2>1 DEF TaskInv, ReadyTypes, Statuses, Shown
  <2>3. TaskOK(a)'
    BY <1>0, <2>1 DEF Trusted, May, TaskInv, ReadyTypes, TaskOK, Exists, Shown
  <2> QED
    BY <1>0, <2>1, <2>2, <2>3, OneAsset DEF TaskInv, ReadyTypes
<1>2. CASE PutObject(a)
  <2>1. /\ upload[a] = "put" /\ status' = status /\ rows' = rows /\ job' = job
        /\ \/ /\ objects' = [objects EXCEPT ![a] = @ \cup {"original"}]
              /\ upload' = [upload EXCEPT ![a] = "patch"]
           \/ objects' = objects /\ upload' = [upload EXCEPT ![a] = "failed"]
    BY <1>2 DEF PutObject, ToUpload
  <2>2. ReadyTypes'
    BY <2>1 DEF TaskInv, ReadyTypes
  <2>3. TaskOK(a)'
    BY <1>0, <2>1 DEF Trusted, May, TaskInv, ReadyTypes, TaskOK, Exists, Shown
  <2> QED
    BY <1>0, <2>1, <2>2, <2>3, OneAsset DEF TaskInv, ReadyTypes
<1>3. CASE PatchProcessing(a)
  <2>1. /\ upload[a] = "patch" /\ rows' = rows /\ objects' = objects
        /\ \E u \in {"answer", "failed"} : upload' = [upload EXCEPT ![a] = u]
        /\ \/ status' = [status EXCEPT ![a] = "processing"] \/ status' = status
        /\ \/ job' = [job EXCEPT ![a] = [at |-> "queued", todo |-> Recipe[a]]] \/ job' = job
    BY <1>3 DEF PatchProcessing, ToUpload
  <2>2. ReadyTypes'
    <3>1. Recipe[a] \in Seq(Variants) /\ "queued" \in Stages
      BY RecipesKnown DEF Stages
    <3>2. job' \in [AssetIds -> [at : Stages, todo : Seq(Variants)]]
      BY <2>1, <3>1, JobTypes DEF TaskInv, ReadyTypes
    <3> QED
      BY <2>1, <3>2 DEF TaskInv, ReadyTypes, Statuses, Shown
  <2>3. TaskOK(a)'
    BY <1>0, <2>1 DEF Trusted, May, TaskInv, ReadyTypes, TaskOK, Exists, Shown
  <2> QED
    BY <1>0, <2>1, <2>2, <2>3, OneAsset DEF TaskInv, ReadyTypes
<1>4. CASE UpsertUploaded(a)
  <2>1. /\ upload[a] = "answer" /\ status' = status /\ rows' = rows /\ objects' = objects
        /\ job' = job /\ upload' = [upload EXCEPT ![a] = "done"]
    BY <1>4 DEF UpsertUploaded, ToUpload, serverVars
  <2>2. ReadyTypes'
    BY <2>1 DEF TaskInv, ReadyTypes
  <2>3. TaskOK(a)'
    BY <1>0, <2>1 DEF Trusted, May, TaskInv, ReadyTypes, TaskOK, Exists, Shown
  <2> QED
    BY <1>0, <2>1, <2>2, <2>3, OneAsset DEF TaskInv, ReadyTypes
<1> QED
  BY <1>1, <1>2, <1>3, <1>4

\* The next stage of a task knows whether anything is left to do.
LEMMA NextStages ==
    ASSUME NEW todo \in Seq(Variants)
    PROVE  /\ NextStage(todo) \in {"finish", "make"}
           /\ NextStage(todo) = "finish" => todo = <<>>
           /\ NextStage(todo) = "make" => todo # <<>>
  BY DEF NextStage

\* The stages of the worker's task.
LEMMA WorkerSteps ==
    ASSUME TaskInv, NEW a \in AssetIds,
           FetchOriginal(a) \/ MakeVariant(a) \/ UpsertVariant(a) \/ MarkReady(a) \/ FailTask(a)
    PROVE  TaskInv'
<1>1. job[a].todo \in Seq(Variants) /\ job[a].at \in Stages
  BY DEF TaskInv, ReadyTypes
<1>2. ASSUME job[a].todo # <<>>
      PROVE  /\ Tail(job[a].todo) \in Seq(Variants) /\ Head(job[a].todo) \in Variants
             /\ ToSet(job[a].todo) \subseteq {Head(job[a].todo)} \cup ToSet(Tail(job[a].todo))
  BY <1>1, <1>2, ToSetHeadTail, HeadTailProperties
<1>3. upload' = upload
  BY DEF FetchOriginal, MakeVariant, UpsertVariant, MarkReady, FailTask, tabVars
<1>0. faults' = faults
  BY DEF FetchOriginal, MakeVariant, UpsertVariant, MarkReady, FailTask
<1>4. CASE FetchOriginal(a)
  <2>1. /\ job[a].at = "queued" /\ status' = status /\ rows' = rows /\ objects' = objects
        /\ \/ /\ "original" \in objects[a]
              /\ job' = [job EXCEPT ![a] = [at |-> NextStage(job[a].todo), todo |-> job[a].todo]]
           \/ job' = [job EXCEPT ![a] = [at |-> "ended", todo |-> job[a].todo]]
    BY <1>4 DEF FetchOriginal, WorkOn, serverVars
  <2>2. ReadyTypes'
    <3>1. NextStage(job[a].todo) \in Stages /\ "ended" \in Stages
      BY <1>1, NextStages DEF Stages
    <3>2. job' \in [AssetIds -> [at : Stages, todo : Seq(Variants)]]
      BY <1>1, <2>1, <3>1, JobTypes
    <3> QED
      BY <1>3, <2>1, <3>2 DEF TaskInv, ReadyTypes
  <2>3. TaskOK(a)'
    BY <1>0, <1>1, <1>3, <2>1, NextStages DEF Trusted, May, TaskInv, ReadyTypes, TaskOK, Exists, Shown
  <2> QED
    BY <1>0, <1>3, <2>1, <2>2, <2>3, OneAsset DEF TaskInv, ReadyTypes
<1>5. CASE MakeVariant(a)
  <2>1. /\ job[a].at = "make" /\ status' = status /\ rows' = rows
        /\ objects' = [objects EXCEPT ![a] = @ \cup {Head(job[a].todo)}]
        /\ job' = [job EXCEPT ![a] = [at |-> "record", todo |-> job[a].todo]]
    BY <1>5 DEF MakeVariant, WorkOn
  <2>2. job[a].todo # <<>>
    BY <1>0, <2>1 DEF Trusted, May, TaskInv, TaskOK
  <2>3. ReadyTypes'
    BY <1>1, <1>2, <1>3, <2>1, <2>2 DEF TaskInv, ReadyTypes, Stages
  <2>4. TaskOK(a)'
    BY <1>0, <1>1, <1>3, <2>1, <2>2 DEF Trusted, May, TaskInv, ReadyTypes, TaskOK, Exists, Shown
  <2> QED
    BY <1>0, <1>3, <2>1, <2>3, <2>4, OneAsset DEF TaskInv, ReadyTypes
<1>6. CASE UpsertVariant(a)
  <2>1. /\ job[a].at = "record" /\ status' = status /\ objects' = objects
        /\ \/ /\ rows' = [rows EXCEPT ![a] = @ \cup {Head(job[a].todo)}]
              /\ job' = [job EXCEPT ![a] = [at |-> NextStage(Tail(job[a].todo)),
                                           todo |-> Tail(job[a].todo)]]
           \/ /\ rows' = rows
              /\ job' = [job EXCEPT ![a] = [at |-> "ended", todo |-> job[a].todo]]
    BY <1>6 DEF UpsertVariant, WorkOn
  <2>2. job[a].todo # <<>> /\ Head(job[a].todo) \in objects[a]
    BY <1>0, <2>1 DEF Trusted, May, TaskInv, TaskOK
  <2>3. ReadyTypes'
    <3>1. NextStage(Tail(job[a].todo)) \in Stages /\ "ended" \in Stages
      BY <1>2, <2>2, NextStages DEF Stages
    <3>2. job' \in [AssetIds -> [at : Stages, todo : Seq(Variants)]]
      BY <1>1, <1>2, <2>1, <2>2, <3>1, JobTypes
    <3>3. rows' \in [AssetIds -> SUBSET Variants]
      <4> DEFINE made == Head(job[a].todo)
      <4>1. made \in Variants /\ (rows' = [rows EXCEPT ![a] = @ \cup {made}] \/ rows' = rows)
        BY <1>2, <2>1, <2>2
      <4> HIDE DEF made
      <4>2. rows \in [AssetIds -> SUBSET Variants] /\ rows[a] \cup {made} \in SUBSET Variants
        BY <4>1 DEF TaskInv, ReadyTypes
      <4> QED
        BY <4>1, <4>2
    <3> QED
      BY <1>3, <2>1, <3>2, <3>3 DEF TaskInv, ReadyTypes
  <2>4. TaskOK(a)'
    <3>1. CASE job' = [job EXCEPT ![a] = [at |-> "ended", todo |-> job[a].todo]] /\ rows' = rows
      BY <1>0, <1>3, <2>1, <3>1 DEF Trusted, May, TaskInv, ReadyTypes, TaskOK, Exists, Shown
    <3>2. CASE /\ rows' = [rows EXCEPT ![a] = @ \cup {Head(job[a].todo)}]
               /\ job' = [job EXCEPT ![a] = [at |-> NextStage(Tail(job[a].todo)),
                                            todo |-> Tail(job[a].todo)]]
      <4> DEFINE next == NextStage(Tail(job[a].todo))
                 rest == Tail(job[a].todo)
      <4>1. /\ next \in {"finish", "make"} /\ (next = "finish" => rest = <<>>)
            /\ (next = "make" => rest # <<>>)
        BY <1>2, <2>2, NextStages
      <4>2. /\ job'[a].at = next /\ job'[a].todo = rest
            /\ rows'[a] = rows[a] \cup {Head(job[a].todo)}
        BY <3>2 DEF TaskInv, ReadyTypes
      <4>3. ToSet(job[a].todo) \subseteq {Head(job[a].todo)} \cup ToSet(rest)
        BY <1>2, <2>2
      <4> HIDE DEF next, rest
      <4> QED
        BY <1>0, <1>3, <2>1, <2>2, <4>1, <4>2, <4>3 DEF Trusted, May, TaskInv, TaskOK, Exists, Shown
    <3> QED
      BY <2>1, <3>1, <3>2
  <2> QED
    BY <1>0, <1>3, <2>1, <2>3, <2>4, OneAsset DEF TaskInv, ReadyTypes
<1>7. CASE MarkReady(a)
  <2>1. /\ job[a].at = "finish" /\ rows' = rows /\ objects' = objects
        /\ status' = [status EXCEPT ![a] = IF Exists(a) THEN "ready" ELSE @]
        /\ job' = [job EXCEPT ![a] = [at |-> "ended", todo |-> <<>>]]
    BY <1>7 DEF MarkReady, WorkOn
  <2>2. ToSet(<<>>) = {}
    BY DEF ToSet
  <2>3. <<>> \in Seq(Variants)
    BY EmptySeq
  <2>4. ReadyTypes'
    BY <1>1, <1>3, <2>1, <2>3 DEF TaskInv, ReadyTypes, Stages, Statuses, Shown
  <2>5. Exists(a) => ToSet(Recipe[a]) \subseteq rows[a] /\ "original" \in objects[a]
    BY <1>0, <2>1, <2>2 DEF Trusted, May, TaskInv, TaskOK
  <2>6. TaskOK(a)'
    BY <1>0, <1>1, <1>3, <2>1, <2>5 DEF Trusted, May, TaskInv, ReadyTypes, TaskOK
  <2> QED
    BY <1>0, <1>3, <2>1, <2>4, <2>6, OneAsset DEF TaskInv, ReadyTypes
<1>8. CASE FailTask(a)
  <2>1. /\ job[a].at # "none" /\ status' = status /\ rows' = rows /\ objects' = objects
        /\ job' = [job EXCEPT ![a] = [at |-> "ended", todo |-> job[a].todo]]
    BY <1>8 DEF FailTask, WorkOn, serverVars
  <2>2. ReadyTypes'
    BY <1>1, <1>3, <2>1 DEF TaskInv, ReadyTypes, Stages
  <2>3. TaskOK(a)'
    BY <1>0, <1>1, <1>3, <2>1 DEF Trusted, May, TaskInv, ReadyTypes, TaskOK, Exists, Shown
  <2> QED
    BY <1>0, <1>3, <2>1, <2>2, <2>3, OneAsset DEF TaskInv, ReadyTypes
<1> QED
  BY <1>4, <1>5, <1>6, <1>7, <1>8

\* The row, its upload and its deletion.
RowVars == <<status, home, upload, deletion>>
LEMMA RowEffects ==
    ASSUME AssetsNext
    PROVE  /\ faults' = faults
           /\ \/ UNCHANGED RowVars
              \/ \E a \in AssetIds : \/ Presign(a) \/ PutObject(a) \/ PatchProcessing(a)
                                     \/ UpsertUploaded(a) \/ MarkReady(a) \/ DeleteLinkedClips(a)
                                     \/ TestUse(a) \/ DropRow(a) \/ RemoveDeleted(a)
                                     \/ \E s \in {"error", "ready"} : PatchStatus(a, s)
<1>1. ASSUME NEW a \in AssetIds,
             FetchOriginal(a) \/ MakeVariant(a) \/ UpsertVariant(a) \/ FailTask(a)
      PROVE  UNCHANGED <<RowVars, faults>>
  BY <1>1 DEF FetchOriginal, MakeVariant, UpsertVariant, FailTask, serverVars, tabVars, RowVars
<1>2. ASSUME NEW a \in AssetIds,
             \/ Presign(a) \/ PutObject(a) \/ PatchProcessing(a) \/ UpsertUploaded(a) \/ MarkReady(a)
             \/ DeleteLinkedClips(a) \/ TestUse(a) \/ DropRow(a) \/ RemoveDeleted(a)
             \/ \E s \in {"error", "ready"} : PatchStatus(a, s)
      PROVE  faults' = faults
  BY <1>2 DEF PatchStatus, Presign, PutObject, PatchProcessing, UpsertUploaded, MarkReady, DeleteLinkedClips,
              TestUse, DropRow, RemoveDeleted
<1>3. ASSUME NEW c \in Clips, DeleteClip(c) \/ \E a \in AssetIds : AddClip(c, a)
      PROVE  UNCHANGED <<RowVars, faults>>
  BY <1>3 DEF DeleteClip, AddClip, tabVars, RowVars
<1>4. ASSUME \/ CrashWorker \/ Poll \/ \E ws \in Workspaces : SwitchWorkspace(ws)
             \/ \E i \in DOMAIN polls : ServeList(i) \/ AnswerList(i) \/ LoseList(i)
      PROVE  UNCHANGED <<RowVars, faults>>
  BY <1>4 DEF CrashWorker, Poll, SwitchWorkspace, ServeList, AnswerList, LoseList, serverVars,
              tabVars, RowVars
<1> QED
  BY <1>1, <1>2, <1>3, <1>4 DEF AssetsNext, Client, Task, Lists

\* The worker's crash, the deletion of the row, and what is none of an asset's business.
LEMMA OtherSteps ==
    ASSUME TaskInv, AssetsNext
    PROVE  TaskInv' /\ \A a \in AssetIds : objects[a] \subseteq objects'[a]
<1>0. faults' = faults
  BY RowEffects
<1>1. CASE UNCHANGED <<status, rows, objects, job, upload>>
  BY <1>0, <1>1 DEF TaskInv, ReadyTypes, TaskOK, Trusted, May, Exists, Shown
<1>2. ASSUME NEW a \in AssetIds,
             Presign(a) \/ PutObject(a) \/ PatchProcessing(a) \/ UpsertUploaded(a)
      PROVE  \A b \in AssetIds : objects[b] \subseteq objects'[b]
  BY <1>2 DEF Presign, PutObject, PatchProcessing, UpsertUploaded, serverVars, TaskInv, ReadyTypes
<1>3. ASSUME NEW a \in AssetIds,
             FetchOriginal(a) \/ MakeVariant(a) \/ UpsertVariant(a) \/ MarkReady(a) \/ FailTask(a)
      PROVE  \A b \in AssetIds : objects[b] \subseteq objects'[b]
  BY <1>3 DEF FetchOriginal, MakeVariant, UpsertVariant, MarkReady, FailTask, serverVars, TaskInv, ReadyTypes
<1>4. CASE CrashWorker
  <2>1. /\ status' = status /\ rows' = rows /\ objects' = objects /\ upload' = upload
        /\ job' = [a \in AssetIds |->
                     IF job[a].at \in {"none", "queued"} THEN job[a] ELSE [job[a] EXCEPT !.at = "ended"]]
    BY <1>4 DEF CrashWorker, serverVars, tabVars
  <2>2. ASSUME NEW a \in AssetIds
        PROVE  /\ job'[a] \in [at : Stages, todo : Seq(Variants)]
               /\ job'[a] = job[a] \/ (job[a].at # "none" /\ job'[a].at = "ended")
    BY <2>1 DEF TaskInv, ReadyTypes, Stages
  <2>3. job' \in [AssetIds -> [at : Stages, todo : Seq(Variants)]]
    BY <2>1, <2>2
  <2>4. ASSUME NEW a \in AssetIds
        PROVE  TaskOK(a)'
    BY <1>0, <2>1, <2>2 DEF TaskInv, TaskOK, Trusted, May, Exists, Shown
  <2> QED
    BY <2>1, <2>3, <2>4 DEF TaskInv, ReadyTypes
<1>5. ASSUME NEW a \in AssetIds, DropRow(a)
      PROVE  TaskInv' /\ objects' = objects
  <2>1. /\ status' = [status EXCEPT ![a] = "deleted"] /\ rows' = [rows EXCEPT ![a] = {}]
        /\ objects' = objects /\ job' = job /\ upload' = upload
    BY <1>5 DEF DropRow
  <2>2. ReadyTypes'
    BY <2>1 DEF TaskInv, ReadyTypes, Statuses, Shown
  <2>3. TaskOK(a)'
    BY <1>0, <2>1 DEF TaskInv, ReadyTypes, TaskOK, Trusted, May, Exists, Shown
  <2> QED
    BY <1>0, <2>1, <2>2, <2>3, OneAsset DEF TaskInv, ReadyTypes
\* Whoever writes "ready" takes the trust away; whoever writes "error" breaks no promise.
<1>8. ASSUME NEW a \in AssetIds, NEW s \in {"error", "ready"}, PatchStatus(a, s)
      PROVE  TaskInv' /\ objects' = objects
  <2>1. /\ status' = [status EXCEPT ![a] = s] /\ rows' = rows /\ Exists(a) /\ May(s)
        /\ objects' = objects /\ job' = job /\ upload' = upload
    BY <1>8 DEF PatchStatus, tabVars
  <2>2. ReadyTypes'
    BY <2>1 DEF TaskInv, ReadyTypes, Statuses, Shown
  <2>3. status'[a] = s /\ (s = "ready" => ~Trusted')
    BY <1>0, <2>1 DEF TaskInv, ReadyTypes, Trusted, May
  <2>4. TaskOK(a)'
    BY <2>1, <2>3 DEF TaskInv, ReadyTypes, TaskOK, Exists, Shown
  <2> QED
    BY <1>0, <2>1, <2>2, <2>4, OneAsset DEF TaskInv, ReadyTypes
<1>6. ASSUME NEW a \in AssetIds,
             \/ TestUse(a) \/ RemoveDeleted(a) \/ DeleteLinkedClips(a)
             \/ \E c \in Clips : AddClip(c, a) \/ DeleteClip(c)
      PROVE  UNCHANGED <<status, rows, objects, job, upload>>
  BY <1>6 DEF TestUse, RemoveDeleted, DeleteLinkedClips, AddClip, DeleteClip, serverVars, tabVars
<1>7. ASSUME \/ Poll \/ \E ws \in Workspaces : SwitchWorkspace(ws)
             \/ \E c \in Clips : DeleteClip(c)
             \/ \E i \in DOMAIN polls : ServeList(i) \/ AnswerList(i) \/ LoseList(i)
      PROVE  UNCHANGED <<status, rows, objects, job, upload>>
  BY <1>7 DEF Poll, SwitchWorkspace, DeleteClip, ServeList, AnswerList, LoseList, serverVars, tabVars
<1> QED
  BY <1>1, <1>2, <1>3, <1>4, <1>5, <1>6, <1>7, <1>8, UploadSteps, WorkerSteps
  DEF AssetsNext, Client, Task, Lists

\* Lists stay good: objects are only added.
LEMMA LoadableStays ==
    ASSUME NEW list, NEW there, NEW later, NEW trusted, NEW still, Loadable(list, there, trusted),
           still => trusted,
           \A a \in AssetIds : there[a] \subseteq later[a]
    PROVE  Loadable(list, later, still)
  BY DEF Loadable

\* A list of what the server has is good.
LEMMA ServedIsLoadable ==
    ASSUME TaskInv, NEW D \in SUBSET AssetIds
    PROVE  /\ [a \in D |-> status[a]] \in Lists0
           /\ Loadable([a \in D |-> status[a]], objects, Trusted)
<1>1. [a \in D |-> status[a]] \in [D -> Statuses]
  BY DEF TaskInv, ReadyTypes
<1>2. Loadable([a \in D |-> status[a]], objects, Trusted)
  BY DEF TaskInv, TaskOK, Loadable
<1> QED
  BY <1>1, <1>2 DEF Lists0

LEMMA ListStep ==
    ASSUME TaskInv, ListInv, workspace \in Workspaces, AssetsNext
    PROVE  ListInv'
<1>1. \A a \in AssetIds : objects[a] \subseteq objects'[a]
  BY OtherSteps
<1>0. Trusted' => Trusted
  BY RowEffects DEF Trusted, May
<1>2. Loadable(items, objects', Trusted')
  BY <1>0, <1>1, LoadableStays DEF ListInv
<1>3. \A i \in DOMAIN polls : polls[i].list # None => Loadable(polls[i].list, objects', Trusted')
  BY <1>0, <1>1, LoadableStays DEF ListInv
<1>4. CASE UNCHANGED <<items, polls>>
  BY <1>2, <1>3, <1>4 DEF ListInv
<1>5. ASSUME NEW a \in AssetIds, UpsertUploaded(a)
      PROVE  ListInv'
  <2>1. /\ items' = [b \in DOMAIN items \cup {a} |-> IF b = a THEN "processing" ELSE items[b]]
        /\ polls' = polls
    BY <1>5 DEF UpsertUploaded, Upsert
  <2>2. Loadable(items', objects', Trusted')
    BY <1>2, <2>1 DEF Loadable
  <2> QED
    BY <1>3, <2>1, <2>2 DEF ListInv
<1>6. ASSUME NEW a \in AssetIds, RemoveDeleted(a)
      PROVE  ListInv'
  <2>1. items' = [b \in DOMAIN items \ {a} |-> items[b]] /\ polls' = polls
    BY <1>6 DEF RemoveDeleted, RemoveItem
  <2>2. Loadable(items', objects', Trusted')
    BY <1>2, <2>1 DEF Loadable
  <2> QED
    BY <1>3, <2>1, <2>2 DEF ListInv
<1>7. ASSUME NEW ws \in Workspaces, Ask(ws), items' = items
      PROVE  ListInv'
  <2> DEFINE new == [ws |-> ws, list |-> None]
  <2>1. new \in PollSet /\ new.list = None
    BY DEF PollSet
  <2>2. polls' = Append(polls, new)
    BY <1>7 DEF Ask
  <2> HIDE DEF new
  <2>3. /\ polls' \in Seq(PollSet) /\ Len(polls') = Len(polls) + 1 /\ polls'[Len(polls) + 1] = new
        /\ \A i \in 1 .. Len(polls) : polls'[i] = polls[i]
    BY <2>1, <2>2, AppendProperties DEF ListInv
  <2>4. DOMAIN polls' = 1 .. Len(polls) + 1 /\ DOMAIN polls = 1 .. Len(polls) /\ Len(polls) \in Nat
    BY <2>3, LenProperties DEF ListInv
  <2> QED
    BY <1>2, <1>3, <1>7, <2>1, <2>3, <2>4 DEF ListInv
<1>8. ASSUME NEW i \in DOMAIN polls, ServeList(i)
      PROVE  ListInv'
  <2>1. PICK D \in SUBSET AssetIds : polls' = [polls EXCEPT ![i].list = [a \in D |-> status[a]]]
    BY <1>8 DEF ServeList
  <2> DEFINE listed == [a \in D |-> status[a]]
  <2>2. listed \in Lists0 /\ Loadable(listed, objects', Trusted')
    BY <1>0, <1>1, ServedIsLoadable, LoadableStays
  <2>3. polls' = [polls EXCEPT ![i] = [polls[i] EXCEPT !.list = listed]] /\ items' = items
    BY <1>8, <2>1 DEF ServeList
  <2> HIDE DEF listed
  <2> DEFINE answered == [polls[i] EXCEPT !.list = listed]
  <2>4. polls[i] \in PollSet
    BY ElementOfSeq, LenProperties DEF ListInv
  <2>5. answered \in PollSet /\ answered.list = listed
    BY <2>2, <2>4 DEF PollSet
  <2>6. polls' = [polls EXCEPT ![i] = answered]
    BY <2>3
  <2> HIDE DEF answered
  <2>7. polls' \in Seq(PollSet)
    BY <2>5, <2>6, ExceptSeq DEF ListInv
  <2>8. DOMAIN polls' = DOMAIN polls /\ \A k \in DOMAIN polls : polls'[k] = IF k = i THEN answered ELSE polls[k]
    BY <2>6
  <2> QED
    BY <1>2, <1>3, <2>2, <2>3, <2>5, <2>7, <2>8 DEF ListInv
<1>9. ASSUME NEW i \in DOMAIN polls, polls' = RemoveAt(polls, i),
             items' = items \/ (items' = polls[i].list /\ polls[i].list # None)
      PROVE  ListInv'
  <2>1. polls \in Seq(PollSet)
    BY DEF ListInv
  <2>2. /\ polls' \in Seq(PollSet)
        /\ \A k \in DOMAIN polls' : \E j \in DOMAIN polls : polls'[k] = polls[j]
    BY <1>9, <2>1, RemoveAtKeeps
  <2> QED
    BY <1>2, <1>3, <1>9, <2>2 DEF ListInv
<1>10. ASSUME NEW a \in AssetIds,
              \/ Presign(a) \/ PutObject(a) \/ PatchProcessing(a)
              \/ FetchOriginal(a) \/ MakeVariant(a) \/ UpsertVariant(a) \/ MarkReady(a) \/ FailTask(a)
              \/ TestUse(a) \/ DropRow(a) \/ DeleteLinkedClips(a) \/ \E c \in Clips : AddClip(c, a)
              \/ \E s \in {"error", "ready"} : PatchStatus(a, s)
       PROVE  UNCHANGED <<items, polls>>
  BY <1>10 DEF PatchStatus, Presign, PutObject, PatchProcessing, FetchOriginal, MakeVariant, UpsertVariant, MarkReady,
               FailTask, TestUse, DropRow, DeleteLinkedClips, AddClip, tabVars
<1>11. ASSUME CrashWorker \/ \E c \in Clips : DeleteClip(c)
       PROVE  UNCHANGED <<items, polls>>
  BY <1>11 DEF CrashWorker, DeleteClip, tabVars
<1> QED
  BY <1>4, <1>5, <1>6, <1>7, <1>8, <1>9, <1>10, <1>11
  DEF AssetsNext, Client, Task, Lists, Poll, SwitchWorkspace, AnswerList, LoseList

LEMMA ReadyStep ==
    ASSUME ReadyInv, AssetsNext
    PROVE  ReadyInv'
<1>1. TaskInv' /\ ListInv'
  BY OtherSteps, ListStep DEF ReadyInv
<1>2. workspace' = workspace \/ \E ws \in Workspaces : SwitchWorkspace(ws)
  BY DEF AssetsNext, Client, Task, Lists, Presign, PutObject, PatchProcessing, UpsertUploaded, FetchOriginal,
         MakeVariant, UpsertVariant, MarkReady, FailTask, CrashWorker, AddClip, DeleteClip, DeleteLinkedClips,
         TestUse, DropRow, RemoveDeleted, Poll, ServeList, AnswerList, LoseList, PatchStatus, tabVars
<1>3. workspace' \in Workspaces
  BY <1>2 DEF SwitchWorkspace, ReadyInv
<1> QED
  BY <1>1, <1>3 DEF ReadyInv

LEMMA ReadyInit ==
    ASSUME AssetsInit
    PROVE  ReadyInv
<1>1. ReadyTypes
  <2>1. <<>> \in Seq(Variants)
    BY EmptySeq
  <2> QED
    BY <2>1 DEF AssetsInit, ReadyTypes, Statuses, Shown, Stages
<1>2. \A a \in AssetIds : TaskOK(a)
  BY DEF AssetsInit, TaskOK, Exists, Shown
<1>3. Loadable(items, objects, Trusted)
  BY DEF AssetsInit, Loadable
<1> DEFINE first == [ws |-> workspace, list |-> None]
<1>4. polls = <<first>> /\ first \in PollSet /\ first.list = None /\ workspace \in Workspaces
  BY WorkspacesKnown DEF AssetsInit, PollSet
<1> HIDE DEF first
<1>5. polls \in Seq(PollSet) /\ DOMAIN polls = {1} /\ polls[1] = first
  BY <1>4
<1> QED
  BY <1>1, <1>2, <1>3, <1>4, <1>5 DEF ReadyInv, TaskInv, ListInv

\* Whatever the server or a tab holds for ready is complete, however old the list is and
\* whatever failed, crashed or was deleted on the way.
THEOREM AssetsReady == AssetsSpec => []ReadyIsComplete
<1>1. AssetsInit => ReadyInv
  BY ReadyInit
<1>2. ReadyInv /\ [AssetsNext]_vars => ReadyInv'
  <2>1. CASE UNCHANGED vars
    BY <2>1 DEF vars, serverVars, tabVars, ReadyInv, TaskInv, ReadyTypes, TaskOK, Trusted, May, Exists, Shown, ListInv
  <2> QED
    BY <2>1, ReadyStep
<1>3. ReadyInv => ReadyIsComplete
  BY DEF ReadyInv, TaskInv, TaskOK, ListInv, Loadable, Loads, Trusted, ReadyIsComplete
<1> QED
  BY <1>1, <1>2, <1>3, PTL DEF AssetsSpec


-----------------------------------------------------------------------------
(* Lists in flight.                                                         *)

\* A request joins the end.
LEMMA Asked ==
    ASSUME ListInv, NEW ws \in Workspaces, Ask(ws)
    PROVE  /\ polls' \in Seq(PollSet) /\ Len(polls) \in Nat /\ Len(polls') = Len(polls) + 1
           /\ Len(polls) < PollBound
           /\ DOMAIN polls = 1 .. Len(polls) /\ DOMAIN polls' = 1 .. Len(polls')
           /\ \A i \in DOMAIN polls' : i \in DOMAIN polls \/ i = Len(polls')
           /\ \A i \in DOMAIN polls : polls'[i] = polls[i]
           /\ polls'[Len(polls')] = [ws |-> ws, list |-> None]
<1> DEFINE new == [ws |-> ws, list |-> None]
<1>1. new \in PollSet
  BY DEF PollSet
<1>2. polls' = Append(polls, new) /\ Len(polls) < PollBound
  BY DEF Ask
<1> HIDE DEF new
<1>3. /\ polls' \in Seq(PollSet) /\ Len(polls') = Len(polls) + 1 /\ polls'[Len(polls) + 1] = new
      /\ \A i \in 1 .. Len(polls) : polls'[i] = polls[i]
  BY <1>1, <1>2, AppendProperties DEF ListInv
<1>4. DOMAIN polls' = 1 .. Len(polls') /\ DOMAIN polls = 1 .. Len(polls) /\ Len(polls) \in Nat
  BY <1>3, LenProperties DEF ListInv
<1>5. \A i \in 1 .. Len(polls') : i \in 1 .. Len(polls) \/ i = Len(polls')
  BY <1>3, <1>4
<1> QED
  BY <1>2, <1>3, <1>4, <1>5 DEF new

\* One of them is served: what exists in its workspace by now.
LEMMA Served ==
    ASSUME ListInv, TaskInv, NEW i \in DOMAIN polls, ServeList(i)
    PROVE  \E list :
             /\ DOMAIN list = {a \in AssetIds : Exists(a) /\ home[a] = polls[i].ws /\ OnPage(a)}
             /\ \A a \in DOMAIN list : list[a] = status[a]
             /\ polls' \in Seq(PollSet) /\ DOMAIN polls' = DOMAIN polls /\ Len(polls') = Len(polls)
             /\ \A k \in DOMAIN polls : /\ polls'[k].ws = polls[k].ws
                                        /\ polls'[k].list = IF k = i THEN list ELSE polls[k].list
             /\ polls'[i].list = list
<1> DEFINE D == {a \in AssetIds : Exists(a) /\ home[a] = polls[i].ws /\ OnPage(a)}
           list == [a \in D |-> status[a]]
           answered == [ws |-> polls[i].ws, list |-> list]
<1>1. polls' = [polls EXCEPT ![i].list = list]
  BY DEF ServeList
<1>2. list \in Lists0
  BY ServedIsLoadable
<1>3. DOMAIN list = D /\ \A a \in D : list[a] = status[a]
  OBVIOUS
<1> HIDE DEF list
<1>4. polls[i] \in PollSet /\ polls \in Seq(PollSet)
  BY ElementOfSeq, LenProperties DEF ListInv
<1>5. answered \in PollSet /\ answered.list = list /\ answered.ws = polls[i].ws
  BY <1>2, <1>4 DEF PollSet
<1>6. polls' = [polls EXCEPT ![i] = answered]
  <2>1. polls' = [polls EXCEPT ![i] = [polls[i] EXCEPT !.list = list]]
    BY <1>1
  <2>2. [polls[i] EXCEPT !.list = list] = answered
    BY <1>4 DEF PollSet
  <2> QED
    BY <2>1, <2>2
<1> HIDE DEF answered, D
<1>7. polls' \in Seq(PollSet)
  BY <1>4, <1>5, <1>6, ExceptSeq
<1>8. DOMAIN polls' = DOMAIN polls /\ \A k \in DOMAIN polls : polls'[k] = IF k = i THEN answered ELSE polls[k]
  BY <1>6
<1>9. Len(polls') = Len(polls)
  BY <1>4, <1>7, <1>8, LenProperties
<1>10. \A k \in DOMAIN polls : /\ polls'[k].ws = polls[k].ws
                               /\ polls'[k].list = IF k = i THEN list ELSE polls[k].list
  BY <1>5, <1>8
<1> QED
  BY <1>3, <1>5, <1>7, <1>8, <1>9, <1>10 DEF D

\* One of them is answered or lost.
LEMMA RemoveAtLength ==
    ASSUME NEW S, NEW s \in Seq(S), NEW i \in DOMAIN s
    PROVE  Len(RemoveAt(s, i)) = Len(s) - 1
<1>1. DOMAIN s = 1 .. Len(s) /\ Len(s) \in Nat /\ i \in 1 .. Len(s)
  BY LenProperties
<1>2. /\ SubSeq(s, 1, i - 1) \in Seq(S) /\ Len(SubSeq(s, 1, i - 1)) = i - 1
      /\ SubSeq(s, i + 1, Len(s)) \in Seq(S) /\ Len(SubSeq(s, i + 1, Len(s))) = Len(s) - i
  BY <1>1, SubSeqProperties
<1>3. Len(RemoveAt(s, i)) = (i - 1) + (Len(s) - i)
  BY <1>2, ConcatProperties DEF RemoveAt
<1> QED
  BY <1>1, <1>3

\* The first is: the others move up.
LEMMA RemoveAtFirst ==
    ASSUME NEW S, NEW s \in Seq(S), 1 \in DOMAIN s
    PROVE  /\ RemoveAt(s, 1) \in Seq(S) /\ Len(RemoveAt(s, 1)) = Len(s) - 1
           /\ \A k \in 1 .. Len(s) - 1 : RemoveAt(s, 1)[k] = s[k + 1]
<1>1. DOMAIN s = 1 .. Len(s) /\ Len(s) \in Nat /\ 1 \in 1 .. Len(s)
  BY LenProperties
<1> DEFINE A == SubSeq(s, 1, 1 - 1)
           B == SubSeq(s, 1 + 1, Len(s))
<1>2. A \in Seq(S) /\ Len(A) = 0
  BY <1>1, SubSeqProperties
<1>3. B \in Seq(S) /\ Len(B) = Len(s) - 1 /\ \A k \in 1 .. Len(s) - 1 : B[k] = s[1 + k]
  BY <1>1, SubSeqProperties
<1>4. RemoveAt(s, 1) = A \o B
  BY DEF RemoveAt
<1> HIDE DEF A, B
<1>5. A = <<>>
  BY <1>2, EmptySeq
<1>6. A \o B = B
  BY <1>3, <1>5, ConcatEmptySeq
<1>7. \A k \in 1 .. Len(s) - 1 : B[k] = s[k + 1]
  <2>1. \A k \in 1 .. Len(s) - 1 : 1 + k = k + 1
    BY <1>1
  <2> QED
    BY <1>3, <2>1
<1> QED
  BY <1>3, <1>4, <1>6, <1>7

-----------------------------------------------------------------------------
(* Suffixes.                                                                *)

LEMMA SuffixMeans ==
    ASSUME NEW S, NEW s \in Seq(S), NEW t \in Seq(S)
    PROVE  IsSuffix(s, t) <=> /\ Len(s) <= Len(t)
                              /\ \A i \in 1 .. Len(s) : s[(Len(s) - i) + 1] = t[(Len(t) - i) + 1]
<1> DEFINE r == Reverse(s)
           q == Reverse(t)
           n == Len(s)
<1>1. n \in Nat /\ Len(t) \in Nat /\ s \in [1 .. n -> S] /\ t \in [1 .. Len(t) -> S]
  BY LenProperties
<1>2. /\ r \in Seq(S) /\ Len(r) = n
      /\ \A i \in 1 .. n : r[i] = s[(n - i) + 1]
  <2>1. r = [i \in 1 .. n |-> s[(n - i) + 1]]
    BY DEF Reverse
  <2>2. \A i \in 1 .. n : (n - i) + 1 \in 1 .. n
    BY <1>1
  <2>3. r \in [1 .. n -> S]
    BY <1>1, <2>1, <2>2
  <2> HIDE DEF r, n
  <2> QED
    BY <1>1, <2>1, <2>3, SeqDef, LenProperties
<1>3. /\ q \in Seq(S) /\ Len(q) = Len(t)
      /\ \A i \in 1 .. Len(t) : q[i] = t[(Len(t) - i) + 1]
  <2>1. q = [i \in 1 .. Len(t) |-> t[(Len(t) - i) + 1]]
    BY DEF Reverse
  <2>2. \A i \in 1 .. Len(t) : (Len(t) - i) + 1 \in 1 .. Len(t)
    BY <1>1
  <2>3. q \in [1 .. Len(t) -> S]
    BY <1>1, <2>1, <2>2
  <2> HIDE DEF q
  <2> QED
    BY <1>1, <2>1, <2>3, SeqDef, LenProperties
<1> HIDE DEF r, q, n
<1>4. IsSuffix(s, t) <=> n <= Len(t) /\ SubSeq(r, 1, n) = SubSeq(q, 1, n)
  BY <1>2, <1>3 DEF IsSuffix, IsPrefix, r, q
<1>5. ASSUME n <= Len(t)
      PROVE  SubSeq(r, 1, n) = SubSeq(q, 1, n) <=> \A i \in 1 .. n : r[i] = q[i]
  <2>1. /\ SubSeq(r, 1, n) \in Seq(S) /\ Len(SubSeq(r, 1, n)) = n
        /\ \A i \in 1 .. n : SubSeq(r, 1, n)[i] = r[i]
    BY <1>1, <1>2, SubSeqProperties
  <2>2. /\ SubSeq(q, 1, n) \in Seq(S) /\ Len(SubSeq(q, 1, n)) = n
        /\ \A i \in 1 .. n : SubSeq(q, 1, n)[i] = q[i]
    BY <1>1, <1>3, <1>5, SubSeqProperties
  <2> QED
    BY <2>1, <2>2, SeqEqual
<1>6. ASSUME n <= Len(t)
      PROVE  (\A i \in 1 .. n : r[i] = q[i]) <=> \A i \in 1 .. n : s[(n - i) + 1] = t[(Len(t) - i) + 1]
  <2>1. \A i \in 1 .. n : i \in 1 .. Len(t)
    BY <1>1, <1>6
  <2> QED
    BY <1>2, <1>3, <2>1
<1> QED
  BY <1>4, <1>5, <1>6 DEF n

LEMMA SuffixOfItself ==
    ASSUME NEW S, NEW t \in Seq(S)
    PROVE  IsSuffix(t, t) /\ IsSuffix(<<>>, t)
<1>1. Len(t) \in Nat /\ <<>> \in Seq(S) /\ Len(<<>>) = 0
  BY LenProperties, EmptySeq
<1>2. IsSuffix(t, t)
  <2>1. IsSuffix(t, t) <=> /\ Len(t) <= Len(t)
                           /\ \A i \in 1 .. Len(t) : t[(Len(t) - i) + 1] = t[(Len(t) - i) + 1]
    BY SuffixMeans
  <2> QED
    BY <1>1, <2>1
<1>3. IsSuffix(<<>>, t)
  <2> DEFINE e == <<>>
  <2>1. e \in Seq(S) /\ Len(e) = 0
    BY <1>1
  <2> HIDE DEF e
  <2>2. Len(e) <= Len(t) /\ \A i \in 1 .. Len(e) : e[(Len(e) - i) + 1] = t[(Len(t) - i) + 1]
    BY <1>1, <2>1
  <2>3. IsSuffix(e, t)
    BY <2>1, <2>2, SuffixMeans
  <2> QED
    BY <2>3 DEF e
<1> QED
  BY <1>2, <1>3

LEMMA SuffixOfTail ==
    ASSUME NEW S, NEW s \in Seq(S), NEW t \in Seq(S), s # <<>>, IsSuffix(s, t)
    PROVE  IsSuffix(Tail(s), t)
<1>1. /\ Tail(s) \in Seq(S) /\ Len(Tail(s)) = Len(s) - 1 /\ Len(s) \in Nat /\ Len(t) \in Nat
      /\ \A i \in 1 .. Len(s) - 1 : Tail(s)[i] = s[i + 1]
  BY HeadTailProperties, LenProperties
<1>2. Len(Tail(s)) \in Nat
  BY <1>1, LenProperties
<1>3. /\ Len(s) <= Len(t)
      /\ \A i \in 1 .. Len(s) : s[(Len(s) - i) + 1] = t[(Len(t) - i) + 1]
  BY SuffixMeans
<1>4. ASSUME NEW i \in 1 .. Len(Tail(s))
      PROVE  Tail(s)[(Len(Tail(s)) - i) + 1] = t[(Len(t) - i) + 1]
  <2>1. /\ (Len(Tail(s)) - i) + 1 \in 1 .. Len(s) - 1 /\ i \in 1 .. Len(s)
        /\ ((Len(Tail(s)) - i) + 1) + 1 = (Len(s) - i) + 1
    BY <1>1
  <2> QED
    BY <1>1, <1>3, <2>1
<1> DEFINE r == Tail(s)
<1>5. r \in Seq(S) /\ Len(r) <= Len(t)
  BY <1>1, <1>2, <1>3
<1>6. \A i \in 1 .. Len(r) : r[(Len(r) - i) + 1] = t[(Len(t) - i) + 1]
  BY <1>4
<1> HIDE DEF r
<1>7. IsSuffix(r, t)
  BY <1>5, <1>6, SuffixMeans
<1> QED
  BY <1>7 DEF r

-----------------------------------------------------------------------------
(* What a step does, variable by variable.                                  *)

\* The lists of the tab and what is in flight.
LEMMA ListEffects ==
    ASSUME AssetsNext
    PROVE  \/ UNCHANGED <<items, polls, workspace>>
           \/ \E a \in AssetIds : UpsertUploaded(a) \/ RemoveDeleted(a)
           \/ Poll \/ \E ws \in Workspaces : SwitchWorkspace(ws)
           \/ \E i \in DOMAIN polls : ServeList(i) \/ AnswerList(i) \/ LoseList(i)
<1>1. ASSUME NEW a \in AssetIds,
             \/ Presign(a) \/ PutObject(a) \/ PatchProcessing(a) \/ TestUse(a) \/ DropRow(a)
             \/ DeleteLinkedClips(a) \/ \E c \in Clips : AddClip(c, a)
             \/ \E s \in {"error", "ready"} : PatchStatus(a, s)
      PROVE  UNCHANGED <<items, polls, workspace>>
  BY <1>1 DEF PatchStatus, Presign, PutObject, PatchProcessing, TestUse, DropRow, DeleteLinkedClips, AddClip, tabVars
<1>2. ASSUME NEW a \in AssetIds,
             FetchOriginal(a) \/ MakeVariant(a) \/ UpsertVariant(a) \/ MarkReady(a) \/ FailTask(a)
      PROVE  UNCHANGED <<items, polls, workspace>>
  BY <1>2 DEF FetchOriginal, MakeVariant, UpsertVariant, MarkReady, FailTask, tabVars
<1>3. ASSUME CrashWorker \/ \E c \in Clips : DeleteClip(c)
      PROVE  UNCHANGED <<items, polls, workspace>>
  BY <1>3 DEF CrashWorker, DeleteClip, tabVars
<1> QED
  BY <1>1, <1>2, <1>3 DEF AssetsNext, Client, Task, Lists

-----------------------------------------------------------------------------
(* What is known of an asset that somebody has heard of.                    *)

Listed(list) == \A a \in DOMAIN list : a \in AssetIds /\ list[a] \in Shown /\ status[a] # "none"

RowOK(a) ==
    /\ home[a] \in Workspaces \cup {None}
    /\ deletion[a] \in {"no", "asked", "checked", "answer"}
    /\ upload[a] = "idle" <=> status[a] = "none"
    /\ status[a] = "none" <=> home[a] = None
    /\ deletion[a] # "no" => status[a] # "none"
    /\ deletion[a] = "answer" => status[a] = "deleted"

RowTypes == home \in [AssetIds -> Workspaces \cup {None}]
            /\ deletion \in [AssetIds -> {"no", "asked", "checked", "answer"}]

RowInv == RowTypes /\ \A a \in AssetIds : RowOK(a)
KnownInv ==
    /\ RowInv /\ Listed(items)
    /\ \A i \in DOMAIN polls : polls[i].list # None => Listed(polls[i].list)

\* A step of one asset's row, upload or deletion.
LEMMA OneRow ==
    ASSUME RowInv, RowTypes', NEW a \in AssetIds, RowOK(a)', status[a] # "none" => status'[a] # "none",
           \A b \in AssetIds \ {a} :
              /\ status'[b] = status[b] /\ home'[b] = home[b]
              /\ upload'[b] = upload[b] /\ deletion'[b] = deletion[b]
    PROVE  RowInv' /\ \A b \in AssetIds : status[b] # "none" => status'[b] # "none"
<1>1. ASSUME NEW b \in AssetIds \ {a}
      PROVE  RowOK(b)'
  BY <1>1 DEF RowInv, RowOK
<1> QED
  BY <1>1 DEF RowInv

LEMMA RowStep ==
    ASSUME TaskInv, RowInv, Listed(items), workspace \in Workspaces, AssetsNext
    PROVE  RowInv' /\ \A b \in AssetIds : status[b] # "none" => status'[b] # "none"
<1>0. /\ status \in [AssetIds -> Statuses]
      /\ upload \in [AssetIds -> {"idle", "put", "patch", "answer", "done", "failed"}]
      /\ RowTypes /\ \A a \in AssetIds : RowOK(a)
  BY DEF TaskInv, ReadyTypes, RowInv
<1>1. CASE UNCHANGED RowVars
  BY <1>1 DEF RowVars, RowInv, RowTypes, RowOK
<1>2. ASSUME NEW a \in AssetIds, Presign(a)
      PROVE  RowInv' /\ \A b \in AssetIds : status[b] # "none" => status'[b] # "none"
  <2>1. /\ upload[a] = "idle" /\ status' = [status EXCEPT ![a] = "uploading"]
        /\ home' = [home EXCEPT ![a] = workspace] /\ deletion' = deletion
        /\ \E u \in {"put", "failed"} : upload' = [upload EXCEPT ![a] = u]
    BY <1>2 DEF Presign, ToUpload
  <2>2. RowTypes' /\ RowOK(a)'
    BY <1>0, <2>1, WorkspacesKnown DEF RowTypes, RowOK
  <2> QED
    BY <1>0, <2>1, <2>2, OneRow DEF RowTypes
<1>3. ASSUME NEW a \in AssetIds, PutObject(a) \/ UpsertUploaded(a)
      PROVE  RowInv' /\ \A b \in AssetIds : status[b] # "none" => status'[b] # "none"
  <2>1. /\ upload[a] \in {"put", "answer"} /\ status' = status /\ home' = home /\ deletion' = deletion
        /\ \E u \in {"patch", "done", "failed"} : upload' = [upload EXCEPT ![a] = u]
    BY <1>3 DEF PutObject, UpsertUploaded, ToUpload, serverVars
  <2>2. RowTypes' /\ RowOK(a)'
    BY <1>0, <2>1 DEF RowTypes, RowOK
  <2> QED
    BY <1>0, <2>1, <2>2, OneRow DEF RowTypes
<1>4. ASSUME NEW a \in AssetIds, PatchProcessing(a)
      PROVE  RowInv' /\ \A b \in AssetIds : status[b] # "none" => status'[b] # "none"
  <2>1. /\ upload[a] = "patch" /\ home' = home /\ deletion' = deletion
        /\ \E u \in {"answer", "failed"} : upload' = [upload EXCEPT ![a] = u]
        /\ status' = status \/ (Exists(a) /\ status' = [status EXCEPT ![a] = "processing"])
    BY <1>4 DEF PatchProcessing, ToUpload
  <2>2. RowTypes' /\ RowOK(a)'
    BY <1>0, <2>1 DEF RowTypes, RowOK, Exists, Shown
  <2> QED
    BY <1>0, <2>1, <2>2, OneRow DEF RowTypes
<1>5. ASSUME NEW a \in AssetIds, MarkReady(a)
      PROVE  RowInv' /\ \A b \in AssetIds : status[b] # "none" => status'[b] # "none"
  <2>1. /\ home' = home /\ deletion' = deletion /\ upload' = upload
        /\ status' = [status EXCEPT ![a] = IF Exists(a) THEN "ready" ELSE @]
    BY <1>5 DEF MarkReady, tabVars
  <2>2. RowTypes' /\ RowOK(a)'
    BY <1>0, <2>1 DEF RowTypes, RowOK, Exists, Shown
  <2> QED
    BY <1>0, <2>1, <2>2, OneRow DEF RowTypes
<1>6. ASSUME NEW a \in AssetIds, DeleteLinkedClips(a) \/ TestUse(a) \/ RemoveDeleted(a)
      PROVE  RowInv' /\ \A b \in AssetIds : status[b] # "none" => status'[b] # "none"
  <2>1. /\ home' = home /\ upload' = upload /\ status' = status
        /\ \/ deletion' = [deletion EXCEPT ![a] = "asked"] /\ a \in DOMAIN items
           \/ deletion' = [deletion EXCEPT ![a] = "checked"] /\ Exists(a)
           \/ deletion' = [deletion EXCEPT ![a] = "no"]
    BY <1>6 DEF DeleteLinkedClips, TestUse, RemoveDeleted, ToDelete, serverVars
  <2>2. RowTypes' /\ RowOK(a)'
    BY <1>0, <2>1 DEF RowTypes, RowOK, Exists, Shown, Listed
  <2> QED
    BY <1>0, <2>1, <2>2, OneRow DEF RowTypes
<1>7. ASSUME NEW a \in AssetIds, DropRow(a)
      PROVE  RowInv' /\ \A b \in AssetIds : status[b] # "none" => status'[b] # "none"
  <2>1. /\ home' = home /\ upload' = upload /\ status' = [status EXCEPT ![a] = "deleted"]
        /\ deletion[a] = "checked" /\ \E d \in {"answer", "no"} : deletion' = [deletion EXCEPT ![a] = d]
    BY <1>7 DEF DropRow, ToDelete
  <2>2. RowTypes' /\ RowOK(a)'
    BY <1>0, <2>1 DEF RowTypes, RowOK
  <2> QED
    BY <1>0, <2>1, <2>2, OneRow DEF RowTypes
<1>8. ASSUME NEW a \in AssetIds, NEW s \in {"error", "ready"}, PatchStatus(a, s)
      PROVE  RowInv' /\ \A b \in AssetIds : status[b] # "none" => status'[b] # "none"
  <2>1. /\ home' = home /\ deletion' = deletion /\ upload' = upload
        /\ status' = [status EXCEPT ![a] = s] /\ Exists(a)
    BY <1>8 DEF PatchStatus, tabVars
  <2>2. RowTypes' /\ RowOK(a)'
    BY <1>0, <2>1 DEF RowTypes, RowOK, Exists, Shown
  <2> QED
    BY <1>0, <2>1, <2>2, OneRow DEF RowTypes
<1> QED
  BY <1>1, <1>2, <1>3, <1>4, <1>5, <1>6, <1>7, <1>8, RowEffects

\* An asset past the first page stays there: assets keep their workspace and their id.
LEMMA OffPageStays ==
    ASSUME RowInv, NEW a \in AssetIds, status[a] # "none", OffPage(a), faults' = faults,
           \A b \in AssetIds : status[b] # "none" => home'[b] = home[b]
    PROVE  OffPage(a)'
<1>1. Higher(a) \subseteq Higher(a)'
  BY DEF RowInv, RowOK, Higher
<1>2. IsFiniteSet(Higher(a)') /\ Higher(a) \in SUBSET Higher(a)'
  <2>1. Higher(a)' \in SUBSET AssetIds
    BY DEF Higher
  <2> QED
    BY <1>1, <2>1, AssetsFinite, FS_Subset
<1>3. /\ Cardinality(Higher(a)) <= Cardinality(Higher(a)')
      /\ Cardinality(Higher(a)) \in Nat /\ Cardinality(Higher(a)') \in Nat
  BY <1>2, FS_Subset, FS_CardinalityType
<1> QED
  BY <1>3, PageNotEmpty DEF OffPage, Room, May

\* What exists is on the page that is served, or past it.
LEMMA OnPageOrOff ==
    ASSUME NEW a \in AssetIds, ~OnPage(a)
    PROVE  OffPage(a)
<1> DEFINE before == {b \in Higher(a) : Exists(b)}
<1>1. IsFiniteSet(Higher(a)) /\ before \in SUBSET Higher(a)
  <2>1. Higher(a) \in SUBSET AssetIds
    BY DEF Higher
  <2> QED
    BY <2>1, AssetsFinite, FS_Subset
<1>2. ~(Cardinality(before) < Room)
  BY DEF OnPage
<1> HIDE DEF before
<1>3. /\ Cardinality(before) <= Cardinality(Higher(a))
      /\ Cardinality(before) \in Nat /\ Cardinality(Higher(a)) \in Nat
  BY <1>1, FS_Subset, FS_CardinalityType
<1> QED
  BY <1>2, <1>3, PageNotEmpty DEF OffPage, Room

LEMMA KnownStep ==
    ASSUME ReadyInv, KnownInv, AssetsNext
    PROVE  KnownInv'
<1>1. TaskInv /\ ListInv /\ workspace \in Workspaces /\ RowInv /\ Listed(items)
  BY DEF ReadyInv, KnownInv
<1>2. RowInv' /\ \A b \in AssetIds : status[b] # "none" => status'[b] # "none"
  BY <1>1, RowStep
<1>3. ASSUME NEW list, Listed(list)
      PROVE  Listed(list)'
  BY <1>2, <1>3 DEF Listed
<1>4. CASE UNCHANGED <<items, polls, workspace>>
  BY <1>2, <1>3, <1>4 DEF KnownInv
<1>5. ASSUME NEW a \in AssetIds, UpsertUploaded(a)
      PROVE  KnownInv'
  <2>1. /\ items' = [b \in DOMAIN items \cup {a} |-> IF b = a THEN "processing" ELSE items[b]]
        /\ polls' = polls /\ upload[a] = "answer" /\ status' = status
    BY <1>5 DEF UpsertUploaded, Upsert, serverVars
  <2>2. status[a] # "none"
    BY <1>1, <2>1 DEF RowInv, RowOK
  <2>3. Listed(items)'
    BY <1>1, <2>1, <2>2 DEF Listed, Shown
  <2> QED
    BY <1>2, <1>3, <2>1, <2>3 DEF KnownInv
<1>6. ASSUME NEW a \in AssetIds, RemoveDeleted(a)
      PROVE  KnownInv'
  <2>1. items' = [b \in DOMAIN items \ {a} |-> items[b]] /\ polls' = polls /\ status' = status
    BY <1>6 DEF RemoveDeleted, RemoveItem, serverVars
  <2>2. Listed(items)'
    BY <1>1, <2>1 DEF Listed
  <2> QED
    BY <1>2, <1>3, <2>1, <2>2 DEF KnownInv
<1>7. ASSUME NEW ws \in Workspaces, Ask(ws), items' = items
      PROVE  KnownInv'
  <2>1. /\ \A i \in DOMAIN polls : polls'[i] = polls[i]
        /\ polls'[Len(polls')] = [ws |-> ws, list |-> None]
        /\ \A i \in DOMAIN polls' : i \in DOMAIN polls \/ i = Len(polls')
    BY <1>1, <1>7, Asked
  <2> QED
    BY <1>2, <1>3, <1>7, <2>1 DEF KnownInv
<1>8. ASSUME NEW i \in DOMAIN polls, ServeList(i)
      PROVE  KnownInv'
  <2>1. PICK list :
             /\ DOMAIN list = {a \in AssetIds : Exists(a) /\ home[a] = polls[i].ws /\ OnPage(a)}
             /\ \A a \in DOMAIN list : list[a] = status[a]
             /\ DOMAIN polls' = DOMAIN polls
             /\ \A k \in DOMAIN polls : polls'[k].list = IF k = i THEN list ELSE polls[k].list
    BY <1>1, <1>8, Served
  <2>2. Listed(list)
    BY <2>1 DEF Listed, Exists, Shown
  <2>3. items' = items
    BY <1>8 DEF ServeList
  <2> QED
    BY <1>2, <1>3, <2>1, <2>2, <2>3 DEF KnownInv
<1>9. ASSUME NEW i \in DOMAIN polls, polls' = RemoveAt(polls, i),
             items' = items \/ (items' = polls[i].list /\ polls[i].list # None)
      PROVE  KnownInv'
  <2>1. \A k \in DOMAIN polls' : \E j \in DOMAIN polls : polls'[k] = polls[j]
    BY <1>1, <1>9, RemoveAtKeeps DEF ListInv
  <2> QED
    BY <1>2, <1>3, <1>9, <2>1 DEF KnownInv
<1>10. ASSUME Poll \/ \E ws \in Workspaces : SwitchWorkspace(ws)
       PROVE  items' = items /\ \E ws \in Workspaces : Ask(ws)
  BY <1>1, <1>10 DEF Poll, SwitchWorkspace
<1>11. ASSUME NEW i \in DOMAIN polls, AnswerList(i) \/ LoseList(i)
       PROVE  /\ polls' = RemoveAt(polls, i)
              /\ items' = items \/ (items' = polls[i].list /\ polls[i].list # None)
  BY <1>11 DEF AnswerList, LoseList
<1> QED
  BY <1>4, <1>5, <1>6, <1>7, <1>8, <1>9, <1>10, <1>11, ListEffects

-----------------------------------------------------------------------------
(* The tab's list in the end.                                               *)

(***************************************************************************)
(* TabCatchesUp speaks of a tab that asks no more.  What makes it true is  *)
(* what the last list on its way will say: it was asked for the workspace  *)
(* the tab is in, what it calls ready is ready or about to be taken off    *)
(* the list, and what has been uploaded to that workspace is on it unless  *)
(* it is past the first page.                                              *)
(***************************************************************************)
Fresh(list) ==
    \A a \in DOMAIN list :
        /\ list[a] # "error"
        /\ list[a] = "ready" => status[a] = "ready" \/ deletion[a] = "answer"
Newest == polls[Len(polls)]
WillHave(a) ==
    IF polls = <<>> THEN a \in DOMAIN items ELSE Newest.list = None \/ a \in DOMAIN Newest.list

UploadsTold ==
    \A a \in AssetIds : /\ status[a] \in {"processing", "ready"} => upload[a] \in {"answer", "done"}
                        /\ upload[a] = "failed" => ~Exists(a)
                        /\ status[a] # "error"
ListsFresh == Fresh(items) /\ \A i \in DOMAIN polls : polls[i].list # None => Fresh(polls[i].list)
ListsAtHome ==
    /\ \A i \in DOMAIN polls : polls[i].list # None =>
          \A a \in DOMAIN polls[i].list : home[a] = polls[i].ws
    /\ polls # <<>> => Newest.ws = workspace
    /\ polls = <<>> => \A a \in DOMAIN items : home[a] = workspace \/ items[a] = "processing"
UploadsListed ==
    \A a \in AssetIds : upload[a] = "done" /\ Exists(a) /\ home[a] = workspace => WillHave(a) \/ OffPage(a)

CatchInv == Calm => UploadsTold /\ ListsFresh /\ ListsAtHome /\ UploadsListed

\* A row is ready and stays so, or its deletion takes it off the lists.
RowsFresh ==
    /\ UploadsTold'
    /\ \A a \in AssetIds :
         /\ status[a] # "none" => home'[a] = home[a]
         /\ Exists(a)' => Exists(a) \/ upload'[a] # "done"
         /\ upload'[a] = "done" => upload[a] = "done" \/ UpsertUploaded(a)
         /\ status[a] = "ready" \/ deletion[a] = "answer"
              => status'[a] = "ready" \/ deletion'[a] = "answer" \/ RemoveDeleted(a)

LEMMA RowsStayFresh ==
    ASSUME TaskInv, RowInv, UploadsTold, Calm, AssetsNext
    PROVE  RowsFresh
<1>0. /\ status \in [AssetIds -> Statuses]
      /\ upload \in [AssetIds -> {"idle", "put", "patch", "answer", "done", "failed"}]
      /\ RowTypes /\ \A a \in AssetIds : RowOK(a)
      /\ ~May("net") /\ ~May("overtake") /\ ~May("error") /\ ~May("ready")
  BY DEF TaskInv, ReadyTypes, RowInv, Calm, May
<1>1. CASE UNCHANGED RowVars
  BY <1>1 DEF RowVars, RowsFresh, UploadsTold, Exists, Shown
<1>2. ASSUME NEW a \in AssetIds, Presign(a)
      PROVE  RowsFresh
  <2>1. /\ upload[a] = "idle" /\ status[a] = "none" /\ status' = [status EXCEPT ![a] = "uploading"]
        /\ home' = [home EXCEPT ![a] = workspace] /\ deletion' = deletion
        /\ upload' = [upload EXCEPT ![a] = "put"]
    BY <1>0, <1>2 DEF Presign, ToUpload, RowOK
  <2> QED
    BY <1>0, <2>1 DEF RowsFresh, UploadsTold, Exists, Shown, RowTypes, RowOK
<1>3. ASSUME NEW a \in AssetIds, PutObject(a)
      PROVE  RowsFresh
  <2>1. /\ upload[a] = "put" /\ status' = status /\ home' = home /\ deletion' = deletion
        /\ upload' = [upload EXCEPT ![a] = "patch"]
    BY <1>0, <1>3 DEF PutObject, ToUpload
  <2> QED
    BY <1>0, <2>1 DEF RowsFresh, UploadsTold, Exists, Shown
<1>4. ASSUME NEW a \in AssetIds, UpsertUploaded(a)
      PROVE  RowsFresh
  <2>1. /\ upload[a] = "answer" /\ status' = status /\ home' = home /\ deletion' = deletion
        /\ upload' = [upload EXCEPT ![a] = "done"]
    BY <1>4 DEF UpsertUploaded, ToUpload, serverVars
  <2> QED
    BY <1>0, <1>4, <2>1 DEF RowsFresh, UploadsTold, Exists, Shown
<1>5. ASSUME NEW a \in AssetIds, PatchProcessing(a)
      PROVE  RowsFresh
  <2>1. /\ upload[a] = "patch" /\ home' = home /\ deletion' = deletion
        /\ \/ /\ status' = [status EXCEPT ![a] = "processing"] /\ Exists(a)
              /\ upload' = [upload EXCEPT ![a] = "answer"]
           \/ status' = status /\ ~Exists(a) /\ upload' = [upload EXCEPT ![a] = "failed"]
    BY <1>0, <1>5 DEF PatchProcessing, ToUpload
  <2>2. CASE /\ status' = [status EXCEPT ![a] = "processing"] /\ Exists(a)
             /\ upload' = [upload EXCEPT ![a] = "answer"]
    BY <1>0, <2>1, <2>2 DEF RowsFresh, UploadsTold, Exists, Shown
  <2>3. CASE status' = status /\ ~Exists(a) /\ upload' = [upload EXCEPT ![a] = "failed"]
    BY <1>0, <2>1, <2>3 DEF RowsFresh, UploadsTold, Exists, Shown
  <2> QED
    BY <2>1, <2>2, <2>3
<1>6. ASSUME NEW a \in AssetIds, MarkReady(a)
      PROVE  RowsFresh
  <2>1. /\ home' = home /\ deletion' = deletion /\ upload' = upload /\ job[a].at = "finish"
        /\ status' = [status EXCEPT ![a] = IF Exists(a) THEN "ready" ELSE @]
    BY <1>6 DEF MarkReady, tabVars
  <2>2. upload[a] \notin {"idle", "put", "patch"}
    BY <2>1 DEF TaskInv, TaskOK
  <2>3. CASE Exists(a)
    <3>1. upload[a] \in {"answer", "done"} /\ status' = [status EXCEPT ![a] = "ready"]
      BY <1>0, <2>1, <2>2, <2>3 DEF UploadsTold
    <3> QED
      BY <1>0, <2>1, <2>3, <3>1 DEF RowsFresh, UploadsTold, Exists, Shown
  <2>4. CASE ~Exists(a)
    <3>1. status' = status
      BY <1>0, <2>1, <2>4
    <3> QED
      BY <2>1, <3>1 DEF RowsFresh, UploadsTold, Exists, Shown
  <2> QED
    BY <2>3, <2>4
<1>7. ASSUME NEW a \in AssetIds, DeleteLinkedClips(a) \/ TestUse(a) \/ RemoveDeleted(a)
      PROVE  RowsFresh
  <2>1. /\ home' = home /\ upload' = upload /\ status' = status
        /\ deletion[a] # "answer" \/ RemoveDeleted(a)
        /\ \E d \in {"no", "asked", "checked"} : deletion' = [deletion EXCEPT ![a] = d]
    BY <1>7 DEF DeleteLinkedClips, TestUse, RemoveDeleted, ToDelete, serverVars
  <2> QED
    BY <1>0, <2>1 DEF RowsFresh, UploadsTold, Exists, Shown, RowTypes
<1>8. ASSUME NEW a \in AssetIds, DropRow(a)
      PROVE  RowsFresh
  <2>1. /\ home' = home /\ upload' = upload /\ status' = [status EXCEPT ![a] = "deleted"]
        /\ deletion' = [deletion EXCEPT ![a] = "answer"]
    BY <1>0, <1>8 DEF DropRow, ToDelete
  <2> QED
    BY <1>0, <2>1 DEF RowsFresh, UploadsTold, Exists, Shown, RowTypes
<1>9. ASSUME NEW a \in AssetIds, NEW s \in {"error", "ready"}, PatchStatus(a, s)
      PROVE  RowsFresh
  BY <1>0, <1>9 DEF PatchStatus
<1> QED
  BY <1>1, <1>2, <1>3, <1>4, <1>5, <1>6, <1>7, <1>8, <1>9, RowEffects

LEMMA LastIsThere ==
    ASSUME ListInv
    PROVE  /\ polls # <<>> => Len(polls) \in DOMAIN polls /\ 1 \in DOMAIN polls
           /\ \A i \in DOMAIN polls : polls # <<>> /\ Len(polls) \in DOMAIN polls
<1>1. polls \in Seq(PollSet) /\ DOMAIN polls = 1 .. Len(polls) /\ Len(polls) \in Nat
  BY LenProperties DEF ListInv
<1>2. polls # <<>> => Len(polls) > 0
  BY <1>1, EmptySeq
<1>3. \A i \in DOMAIN polls : Len(polls) > 0
  BY <1>1
<1> QED
  BY <1>1, <1>2, <1>3, EmptySeq

LEMMA CatchStep ==
    ASSUME ReadyInv, KnownInv, CatchInv, AssetsNext
    PROVE  CatchInv'
<1>1. TaskInv /\ ListInv /\ workspace \in Workspaces /\ RowInv /\ Listed(items)
  BY DEF ReadyInv, KnownInv
<1>2. SUFFICES ASSUME Calm'
               PROVE  (UploadsTold /\ ListsFresh /\ ListsAtHome /\ UploadsListed)'
  BY DEF CatchInv
<1>3. Calm /\ ~May("net") /\ ~May("overtake")
  BY <1>2, RowEffects DEF Calm, May
<1>4. UploadsTold /\ ListsFresh /\ ListsAtHome /\ UploadsListed
  BY <1>3 DEF CatchInv
<1>5. RowsFresh /\ UploadsTold'
  BY <1>1, <1>3, <1>4, RowsStayFresh DEF RowsFresh
<1>6. \A b \in AssetIds : status[b] # "none" => status'[b] # "none" /\ home'[b] = home[b]
  BY <1>1, <1>5, RowStep DEF RowsFresh
<1>18. \A a \in AssetIds : status[a] # "none" /\ OffPage(a) => OffPage(a)'
  BY <1>1, <1>6, RowEffects, OffPageStays
\* A list that was good stays good, unless it is the deleted asset that is taken off.
<1>7. ASSUME NEW list, Fresh(list), Listed(list),
             \A a \in DOMAIN list : ~RemoveDeleted(a)
      PROVE  Fresh(list)'
  BY <1>5, <1>7 DEF Fresh, Listed, RowsFresh
<1>8. \A a \in AssetIds : Exists(a)' /\ upload'[a] = "done" => Exists(a)
  BY <1>5 DEF RowsFresh
\* Who is there and uploaded already was so before.
<1>9. ASSUME NEW a \in AssetIds, upload'[a] = "done", Exists(a)', ~UpsertUploaded(a)
      PROVE  upload[a] = "done" /\ Exists(a) /\ home'[a] = home[a]
  <2>1. upload[a] = "done" /\ Exists(a)
    BY <1>5, <1>9 DEF RowsFresh
  <2> QED
    BY <1>6, <2>1 DEF Exists, Shown
<1>10. CASE UNCHANGED <<items, polls, workspace>> /\ \A a \in AssetIds : ~UpsertUploaded(a) /\ ~RemoveDeleted(a)
  <2>1. ListsFresh'
    <3>1. \A i \in DOMAIN polls : polls[i].list # None => Fresh(polls[i].list)'
      BY <1>4, <1>7, <1>10 DEF ListsFresh, KnownInv, Listed
    <3>2. Fresh(items)'
      BY <1>1, <1>4, <1>7, <1>10 DEF ListsFresh, Listed
    <3> QED
      BY <1>10, <3>1, <3>2 DEF ListsFresh, Fresh
  <2>2. ListsAtHome'
    BY <1>1, <1>4, <1>6, <1>10 DEF ListsAtHome, Listed, KnownInv, Newest
  <2>3. UploadsListed'
    <3>1. ASSUME NEW a \in AssetIds, upload'[a] = "done", Exists(a)', home'[a] = workspace'
          PROVE  WillHave(a)' \/ OffPage(a)'
      <4>1. /\ upload[a] = "done" /\ Exists(a) /\ home[a] = workspace
            /\ OffPage(a) => OffPage(a)'
        BY <1>9, <1>10, <1>18, <3>1 DEF Exists, Shown
      <4>2. WillHave(a)' = WillHave(a)
        BY <1>10 DEF WillHave, Newest
      <4> QED
        BY <1>4, <4>1, <4>2 DEF UploadsListed
    <3> QED
      BY <3>1 DEF UploadsListed
  <2> QED
    BY <1>5, <2>1, <2>2, <2>3
\* The row put into the list is one that the lists on their way have too.
<1>11. ASSUME NEW a \in AssetIds, UpsertUploaded(a)
       PROVE  (ListsFresh /\ ListsAtHome /\ UploadsListed)'
  <2>1. /\ items' = [b \in DOMAIN items \cup {a} |-> IF b = a THEN "processing" ELSE items[b]]
        /\ polls' = polls /\ workspace' = workspace /\ deletion' = deletion
        /\ status' = status /\ home' = home /\ upload' = [upload EXCEPT ![a] = "done"]
        /\ \/ OffPage(a)
           \/ \A i \in DOMAIN polls : polls[i].list # None => (a \in DOMAIN polls[i].list) = Exists(a)
    BY <1>3, <1>11 DEF UpsertUploaded, Upsert, ToUpload, serverVars, InOrder
  <2>2. upload \in [AssetIds -> {"idle", "put", "patch", "answer", "done", "failed"}]
    BY <1>1 DEF TaskInv, ReadyTypes
  <2>3. ListsFresh'
    BY <1>4, <2>1 DEF ListsFresh, Fresh
  <2>4. ListsAtHome'
    BY <1>4, <2>1 DEF ListsAtHome, Newest
  <2>5. polls # <<>> => Len(polls) \in DOMAIN polls
    BY <1>1, LastIsThere
  <2>6. ASSUME NEW b \in AssetIds, upload'[b] = "done", Exists(b), home[b] = workspace
        PROVE  WillHave(b)' \/ OffPage(b)'
    <3>0. OffPage(b) => OffPage(b)'
      BY <1>18, <2>6 DEF Exists, Shown
    <3>1. CASE b = a
      BY <2>1, <2>5, <2>6, <3>0, <3>1 DEF WillHave, Newest
    <3>2. CASE b # a
      <4>1. WillHave(b) \/ OffPage(b)
        BY <1>4, <2>1, <2>2, <2>6, <3>2 DEF UploadsListed
      <4> QED
        BY <2>1, <3>0, <4>1 DEF WillHave, Newest
    <3> QED
      BY <3>1, <3>2
  <2> QED
    BY <2>1, <2>3, <2>4, <2>6 DEF UploadsListed, Exists, Shown
\* The lists on their way do not have the asset that is taken off.
<1>12. ASSUME NEW a \in AssetIds, RemoveDeleted(a)
       PROVE  (ListsFresh /\ ListsAtHome /\ UploadsListed)'
  <2>1. /\ items' = [b \in DOMAIN items \ {a} |-> items[b]] /\ deletion[a] = "answer"
        /\ polls' = polls /\ workspace' = workspace /\ deletion' = [deletion EXCEPT ![a] = "no"]
        /\ status' = status /\ home' = home /\ upload' = upload
        /\ \A i \in DOMAIN polls : polls[i].list # None => a \notin DOMAIN polls[i].list
    BY <1>3, <1>12 DEF RemoveDeleted, RemoveItem, ToDelete, serverVars, InOrder
  <2>2. deletion \in [AssetIds -> {"no", "asked", "checked", "answer"}] /\ ~Exists(a)
    BY <1>1, <2>1 DEF RowInv, RowTypes, RowOK, Exists, Shown
  <2>3. ASSUME NEW list, Fresh(list), Listed(list)
        PROVE  \A b \in DOMAIN list \ {a} :
                 /\ list[b] # "error"
                 /\ list[b] = "ready" => status'[b] = "ready" \/ deletion'[b] = "answer"
    BY <2>1, <2>2, <2>3 DEF Fresh, Listed
  <2>4. Fresh(items)'
    BY <1>1, <1>4, <2>1, <2>3 DEF ListsFresh, Fresh
  <2>5. ASSUME NEW i \in DOMAIN polls, polls[i].list # None
        PROVE  Fresh(polls[i].list)'
    <3>1. /\ \A b \in DOMAIN polls[i].list \ {a} :
                /\ polls[i].list[b] # "error"
                /\ polls[i].list[b] = "ready" => status'[b] = "ready" \/ deletion'[b] = "answer"
          /\ a \notin DOMAIN polls[i].list
      BY <1>4, <2>1, <2>3, <2>5 DEF ListsFresh, KnownInv
    <3>2. polls'[i] = polls[i]
      BY <2>1
    <3> QED
      BY <3>1, <3>2 DEF Fresh
  <2>6. ListsFresh'
    BY <2>1, <2>4, <2>5 DEF ListsFresh
  <2>7. ListsAtHome'
    BY <1>4, <2>1 DEF ListsAtHome, Newest
  <2>8. UploadsListed'
    <3>1. ASSUME NEW b \in AssetIds, upload[b] = "done", Exists(b), home[b] = workspace
          PROVE  WillHave(b)' \/ OffPage(b)'
      <4>1. (WillHave(b) \/ OffPage(b)) /\ (OffPage(b) => OffPage(b)') /\ b # a
        BY <1>4, <1>18, <2>2, <3>1 DEF UploadsListed, Exists, Shown
      <4> QED
        BY <2>1, <4>1 DEF WillHave, Newest
    <3> QED
      BY <2>1, <3>1 DEF UploadsListed, Exists, Shown
  <2> QED
    BY <2>6, <2>7, <2>8
\* A request for the list: it will have all that there is.
<1>13. ASSUME Poll \/ \E ws \in Workspaces : SwitchWorkspace(ws)
       PROVE  (ListsFresh /\ ListsAtHome /\ UploadsListed)'
  <2>1. PICK ws \in Workspaces : Ask(ws) /\ ws = workspace'
    BY <1>1, <1>13 DEF Poll, SwitchWorkspace
  <2>2. items' = items /\ status' = status /\ home' = home /\ upload' = upload /\ deletion' = deletion
    BY <1>13 DEF Poll, SwitchWorkspace, serverVars
  <2>3. /\ \A i \in DOMAIN polls : polls'[i] = polls[i]
        /\ polls'[Len(polls')] = [ws |-> ws, list |-> None]
        /\ \A i \in DOMAIN polls' : i \in DOMAIN polls \/ i = Len(polls')
        /\ Len(polls) \in Nat /\ Len(polls') = Len(polls) + 1
    BY <1>1, <2>1, Asked
  <2>4. polls' # <<>>
    BY <2>3
  <2>5. ListsFresh'
    BY <1>4, <2>2, <2>3 DEF ListsFresh, Fresh
  <2>6. Newest'.ws = workspace' /\ Newest'.list = None
    BY <2>1, <2>3 DEF Newest
  <2>7. ListsAtHome'
    BY <1>4, <2>2, <2>3, <2>4, <2>6 DEF ListsAtHome
  <2>8. UploadsListed'
    BY <2>4, <2>6 DEF UploadsListed, WillHave
  <2> QED
    BY <2>5, <2>7, <2>8
<1>14. ASSUME NEW i \in DOMAIN polls, ServeList(i)
       PROVE  (ListsFresh /\ ListsAtHome /\ UploadsListed)'
  <2>1. /\ items' = items /\ status' = status /\ home' = home /\ upload' = upload
        /\ deletion' = deletion /\ workspace' = workspace
    BY <1>14 DEF ServeList, serverVars
  <2>2. PICK list :
             /\ DOMAIN list = {a \in AssetIds : Exists(a) /\ home[a] = polls[i].ws /\ OnPage(a)}
             /\ \A a \in DOMAIN list : list[a] = status[a]
             /\ DOMAIN polls' = DOMAIN polls /\ Len(polls') = Len(polls)
             /\ \A k \in DOMAIN polls : /\ polls'[k].ws = polls[k].ws
                                        /\ polls'[k].list = IF k = i THEN list ELSE polls[k].list
    BY <1>1, <1>14, Served
  <2>3. Fresh(list)
    BY <1>4, <2>2 DEF Fresh, UploadsTold
  <2>4. ListsFresh'
    BY <1>4, <2>1, <2>2, <2>3 DEF ListsFresh, Fresh
  <2>5. /\ polls # <<>> /\ polls' # <<>> /\ Len(polls) \in DOMAIN polls
    BY <1>1, <2>2, LastIsThere
  <2>6. ListsAtHome'
    <3>1. \A k \in DOMAIN polls : polls'[k].list # None =>
            \A a \in DOMAIN polls'[k].list : home[a] = polls'[k].ws
      BY <1>4, <2>2 DEF ListsAtHome
    <3>2. Newest'.ws = Newest.ws
      BY <2>2, <2>5 DEF Newest
    <3> QED
      BY <1>4, <2>1, <2>2, <2>5, <3>1, <3>2 DEF ListsAtHome
  <2>7. ASSUME NEW a \in AssetIds, upload[a] = "done", Exists(a), home[a] = workspace
        PROVE  WillHave(a)' \/ OffPage(a)'
    <3>0. OffPage(a) => OffPage(a)'
      BY <1>18, <2>7 DEF Exists, Shown
    <3>1. Newest.ws = workspace /\ (Newest.list = None \/ a \in DOMAIN Newest.list \/ OffPage(a))
      BY <1>4, <2>5, <2>7 DEF ListsAtHome, UploadsListed, WillHave
    <3>2. CASE i = Len(polls)
      <4>1. a \in DOMAIN list \/ OffPage(a)
        BY <2>2, <2>7, <3>1, <3>2, OnPageOrOff DEF Newest
      <4> QED
        BY <2>2, <2>5, <3>0, <3>2, <4>1 DEF WillHave, Newest
    <3>3. CASE i # Len(polls)
      <4>1. Newest'.list = Newest.list
        BY <2>2, <2>5, <3>3 DEF Newest
      <4> QED
        BY <2>5, <3>0, <3>1, <4>1 DEF WillHave
    <3> QED
      BY <3>2, <3>3
  <2> QED
    BY <2>1, <2>4, <2>6, <2>7 DEF UploadsListed, Exists, Shown
\* The oldest list takes the place of what is shown.
<1>15. ASSUME NEW i \in DOMAIN polls, AnswerList(i)
       PROVE  (ListsFresh /\ ListsAtHome /\ UploadsListed)'
  <2>1. /\ items' = polls[1].list /\ polls[1].list # None /\ polls' = RemoveAt(polls, 1) /\ i = 1
        /\ status' = status /\ home' = home /\ upload' = upload
        /\ deletion' = deletion /\ workspace' = workspace
    BY <1>3, <1>15 DEF AnswerList, serverVars
  <2>2. 1 \in DOMAIN polls /\ polls \in Seq(PollSet) /\ polls # <<>>
    BY <1>1, <2>1, LastIsThere DEF ListInv
  <2>3. /\ polls' \in Seq(PollSet) /\ Len(polls') = Len(polls) - 1
        /\ \A k \in 1 .. Len(polls) - 1 : polls'[k] = polls[k + 1]
    BY <2>1, <2>2, RemoveAtFirst
  <2>4. DOMAIN polls' = 1 .. Len(polls) - 1 /\ DOMAIN polls = 1 .. Len(polls) /\ Len(polls) \in Nat
    BY <2>2, <2>3, LenProperties
  <2>5. \A k \in DOMAIN polls' : k + 1 \in DOMAIN polls /\ polls'[k] = polls[k + 1]
    BY <2>3, <2>4
  <2>6. ListsFresh'
    BY <1>4, <2>1, <2>2, <2>5 DEF ListsFresh, Fresh
  <2>7. CASE Len(polls) = 1
    <3>1. polls' = <<>> /\ Newest = polls[1]
      BY <2>3, <2>7, EmptySeq DEF Newest
    <3>2. \A a \in DOMAIN items' : home[a] = workspace
      BY <1>4, <2>1, <2>2, <3>1 DEF ListsAtHome
    <3>3. ListsAtHome'
      BY <2>1, <3>1, <3>2 DEF ListsAtHome
    <3>4. UploadsListed'
      <4>1. ASSUME NEW a \in AssetIds, upload[a] = "done", Exists(a), home[a] = workspace
            PROVE  WillHave(a)' \/ OffPage(a)'
        <5>1. (WillHave(a) \/ OffPage(a)) /\ (OffPage(a) => OffPage(a)')
          BY <1>4, <1>18, <4>1 DEF UploadsListed, Exists, Shown
        <5>2. WillHave(a) => WillHave(a)'
          BY <2>1, <2>2, <3>1 DEF WillHave
        <5> QED
          BY <5>1, <5>2
      <4> QED
        BY <2>1, <4>1 DEF UploadsListed, Exists, Shown
    <3> QED
      BY <2>6, <3>3, <3>4
  <2>8. CASE Len(polls) # 1
    <3>1. Newest' = Newest /\ polls' # <<>>
      <4>1. Len(polls) - 1 \in DOMAIN polls' /\ (Len(polls) - 1) + 1 = Len(polls)
        BY <2>2, <2>4, <2>8
      <4>2. polls'[Len(polls')] = polls[Len(polls)]
        BY <2>3, <2>5, <4>1
      <4>3. polls' # <<>>
        BY <2>3, <2>4, <4>1
      <4> QED
        BY <4>2, <4>3 DEF Newest
    <3>2. ListsAtHome'
      <4>1. \A k \in DOMAIN polls' : polls'[k].list # None =>
                \A a \in DOMAIN polls'[k].list : home'[a] = polls'[k].ws
        BY <1>4, <2>1, <2>5 DEF ListsAtHome
      <4>2. Newest'.ws = workspace'
        BY <1>4, <2>1, <2>2, <3>1 DEF ListsAtHome
      <4> QED
        BY <3>1, <4>1, <4>2 DEF ListsAtHome
    <3>3. UploadsListed'
      <4>1. ASSUME NEW a \in AssetIds, upload[a] = "done", Exists(a), home[a] = workspace
            PROVE  WillHave(a)' \/ OffPage(a)'
        <5>1. (WillHave(a) \/ OffPage(a)) /\ (OffPage(a) => OffPage(a)')
          BY <1>4, <1>18, <4>1 DEF UploadsListed, Exists, Shown
        <5>2. WillHave(a) => WillHave(a)'
          BY <2>1, <2>2, <3>1 DEF WillHave
        <5> QED
          BY <5>1, <5>2
      <4> QED
        BY <2>1, <4>1 DEF UploadsListed, Exists, Shown
    <3> QED
      BY <2>6, <3>2, <3>3
  <2> QED
    BY <2>7, <2>8
<1>16. \A i \in DOMAIN polls : ~LoseList(i)
  BY <1>3 DEF LoseList
<1>17. CASE UNCHANGED <<items, polls, workspace>>
  BY <1>5, <1>10, <1>11, <1>12, <1>17
<1> QED
  BY <1>5, <1>11, <1>12, <1>13, <1>14, <1>15, <1>16, <1>17, ListEffects

LEMMA CatchInit ==
    ASSUME AssetsInit
    PROVE  ReadyInv /\ KnownInv /\ CatchInv
<1>1. ReadyInv
  BY ReadyInit
<1>2. /\ \A a \in AssetIds : /\ status[a] = "none" /\ upload[a] = "idle" /\ deletion[a] = "no"
                             /\ home[a] = None
      /\ home \in [AssetIds -> {None}] /\ deletion \in [AssetIds -> {"no"}]
      /\ DOMAIN items = {} /\ polls = <<[ws |-> workspace, list |-> None]>>
  BY DEF AssetsInit
<1>3. /\ \A i \in DOMAIN polls : polls[i].list = None
      /\ polls # <<>> /\ Newest.ws = workspace /\ Newest.list = None
  BY <1>2 DEF Newest
<1>4. KnownInv
  BY <1>2, <1>3 DEF KnownInv, RowInv, RowTypes, RowOK, Listed
<1>5. CatchInv
  BY <1>2, <1>3 DEF CatchInv, UploadsTold, ListsFresh, Fresh, ListsAtHome, UploadsListed, WillHave, Exists, Shown
<1> QED
  BY <1>1, <1>4, <1>5

\* When the network loses nothing and keeps the order of the answers and nobody else writes
\* statuses, a tab that asks no more shows what its workspace has, as far as the first page
\* goes: for any assets and workspaces, however many lists
\* were on their way, and whatever the worker did meanwhile.
THEOREM AssetsTabCatchesUp == AssetsSpec => []TabCatchesUp
<1> DEFINE Inv == ReadyInv /\ KnownInv /\ CatchInv
<1>1. AssetsInit => Inv
  BY CatchInit
<1>2. Inv /\ [AssetsNext]_vars => Inv'
  <2>1. ASSUME Inv, UNCHANGED vars
        PROVE  Inv'
    <3>1. ReadyInv'
      BY <2>1 DEF vars, serverVars, tabVars, ReadyInv, TaskInv, ReadyTypes, TaskOK, Trusted, May, Exists, Shown, ListInv
    <3>2. KnownInv'
      BY <2>1 DEF vars, serverVars, tabVars, KnownInv, RowInv, RowTypes, RowOK, Listed
    <3>3. CatchInv'
      BY <2>1 DEF vars, serverVars, tabVars, CatchInv, Calm, UploadsTold, ListsFresh, Fresh, ListsAtHome,
                  UploadsListed, WillHave, OffPage, Higher, Room, May, Newest, Exists, Shown
    <3> QED
      BY <3>1, <3>2, <3>3
  <2> QED
    BY <2>1, ReadyStep, KnownStep, CatchStep
<1>3. Inv => TabCatchesUp
  <2> SUFFICES ASSUME Inv, Settled, Calm
               PROVE  /\ \A a \in DOMAIN items : home[a] = workspace /\ items[a] = status[a]
                      /\ \A a \in AssetIds : home[a] = workspace /\ status[a] = "ready"
                                              => a \in DOMAIN items \/ OffPage(a)
    BY DEF TabCatchesUp
  <2>1. UploadsTold /\ ListsFresh /\ ListsAtHome /\ UploadsListed
    BY DEF CatchInv
  <2>2. ASSUME NEW a \in DOMAIN items
        PROVE  a \in AssetIds /\ items[a] = "ready" /\ deletion[a] = "no"
    BY <2>1 DEF Settled, HasProcessing, KnownInv, Listed, Shown, ListsFresh, Fresh
  <2>3. \A a \in DOMAIN items : home[a] = workspace /\ items[a] = status[a]
    BY <2>1, <2>2 DEF ListsFresh, Fresh, ListsAtHome, Settled
  <2>4. \A a \in AssetIds : home[a] = workspace /\ status[a] = "ready"
                             => a \in DOMAIN items \/ OffPage(a)
    BY <2>1 DEF UploadsTold, UploadsListed, WillHave, Settled, Exists, Shown
  <2> QED
    BY <2>3, <2>4
<1> QED
  BY <1>1, <1>2, <1>3, PTL DEF AssetsSpec

-----------------------------------------------------------------------------
(* Types and bounds.                                                        *)

\* What a task still has to make is the end of its recipe.
TodoInv == \A a \in AssetIds : IsSuffix(job[a].todo, Recipe[a])

BoundInv ==
    /\ Len(polls) <= MaxPolls
    /\ switches \in 0 .. MaxSwitches /\ crashes \in 0 .. MaxCrashes
    /\ faults \in FaultSets /\ late \subseteq Clips

LEMMA TodoStep ==
    ASSUME TaskInv, TodoInv, AssetsNext
    PROVE  TodoInv'
<1>1. job \in [AssetIds -> [at : Stages, todo : Seq(Variants)]]
  BY DEF TaskInv, ReadyTypes
<1>2. ASSUME NEW a \in AssetIds, NEW at, NEW todo, IsSuffix(todo, Recipe[a]),
             job' = [job EXCEPT ![a] = [at |-> at, todo |-> todo]]
      PROVE  TodoInv'
  BY <1>1, <1>2 DEF TodoInv
<1>3. CASE job' = job
  BY <1>3 DEF TodoInv
<1>4. ASSUME NEW a \in AssetIds, PatchProcessing(a)
      PROVE  TodoInv'
  <2>1. job' = [job EXCEPT ![a] = [at |-> "queued", todo |-> Recipe[a]]] \/ job' = job
    BY <1>4 DEF PatchProcessing
  <2>2. IsSuffix(Recipe[a], Recipe[a])
    BY RecipesKnown, SuffixOfItself
  <2> QED
    BY <1>2, <1>3, <2>1, <2>2
<1>5. ASSUME NEW a \in AssetIds, FetchOriginal(a) \/ MakeVariant(a) \/ FailTask(a)
      PROVE  TodoInv'
  <2>1. \E at : job' = [job EXCEPT ![a] = [at |-> at, todo |-> job[a].todo]]
    BY <1>5 DEF FetchOriginal, MakeVariant, FailTask, WorkOn
  <2>2. IsSuffix(job[a].todo, Recipe[a])
    BY DEF TodoInv
  <2> QED
    BY <1>2, <2>1, <2>2
<1>6. ASSUME NEW a \in AssetIds, UpsertVariant(a)
      PROVE  TodoInv'
  <2> DEFINE todo == job[a].todo
  <2>1. /\ job[a].at = "record"
        /\ \E at : \/ job' = [job EXCEPT ![a] = [at |-> at, todo |-> todo]]
                   \/ job' = [job EXCEPT ![a] = [at |-> at, todo |-> Tail(todo)]]
    BY <1>6 DEF UpsertVariant, WorkOn
  <2>2. todo \in Seq(Variants) /\ todo # <<>> /\ IsSuffix(todo, Recipe[a]) /\ Recipe[a] \in Seq(Variants)
    BY <1>1, <2>1, RecipesKnown DEF TaskInv, TaskOK, TodoInv
  <2> HIDE DEF todo
  <2>3. IsSuffix(Tail(todo), Recipe[a])
    BY <2>2, SuffixOfTail
  <2> QED
    BY <1>2, <2>1, <2>2, <2>3
<1>7. ASSUME NEW a \in AssetIds, MarkReady(a)
      PROVE  TodoInv'
  <2>1. job' = [job EXCEPT ![a] = [at |-> "ended", todo |-> <<>>]]
    BY <1>7 DEF MarkReady, WorkOn
  <2>2. IsSuffix(<<>>, Recipe[a])
    BY RecipesKnown, SuffixOfItself
  <2> QED
    BY <1>2, <2>1, <2>2
<1>8. ASSUME CrashWorker
      PROVE  TodoInv'
  <2>1. \A a \in AssetIds : job'[a].todo = job[a].todo
    BY <1>1, <1>8 DEF CrashWorker
  <2> QED
    BY <2>1 DEF TodoInv
<1>9. ASSUME NEW a \in AssetIds,
             \/ Presign(a) \/ PutObject(a) \/ UpsertUploaded(a) \/ TestUse(a) \/ DropRow(a)
             \/ RemoveDeleted(a) \/ DeleteLinkedClips(a) \/ \E c \in Clips : AddClip(c, a)
             \/ \E s \in {"error", "ready"} : PatchStatus(a, s)
      PROVE  job' = job
  BY <1>9 DEF PatchStatus, Presign, PutObject, UpsertUploaded, TestUse, DropRow, RemoveDeleted, DeleteLinkedClips, AddClip
<1>10. ASSUME \/ Poll \/ \E ws \in Workspaces : SwitchWorkspace(ws)
              \/ \E i \in DOMAIN polls : ServeList(i) \/ AnswerList(i) \/ LoseList(i)
              \/ \E c \in Clips : DeleteClip(c)
       PROVE  job' = job
  BY <1>10 DEF Poll, SwitchWorkspace, ServeList, AnswerList, LoseList, DeleteClip
<1> QED
  BY <1>3, <1>4, <1>5, <1>6, <1>7, <1>8, <1>9, <1>10 DEF AssetsNext, Client, Task, Lists

LEMMA BoundStep ==
    ASSUME ReadyInv, BoundInv, AssetsNext
    PROVE  BoundInv'
<1>1. ListInv /\ TaskInv /\ workspace \in Workspaces /\ Len(polls) \in Nat
  BY LenProperties DEF ReadyInv, ListInv
<1>2. faults' = faults /\ MaxPolls \in Nat /\ MaxPolls >= 1 /\ MaxSwitches \in Nat /\ MaxCrashes \in Nat
  BY RowEffects, BoundsNatural
<1>3. PollBound \in Nat /\ PollBound <= MaxPolls
  BY <1>2 DEF PollBound
<1>4. Len(polls') <= MaxPolls
  <2>1. ASSUME NEW ws \in Workspaces, Ask(ws)
        PROVE  Len(polls') <= MaxPolls
    <3>1. Len(polls) < PollBound /\ Len(polls') = Len(polls) + 1
      BY <1>1, <2>1, Asked
    <3> QED
      BY <1>1, <1>2, <1>3, <3>1
  <2>2. ASSUME NEW i \in DOMAIN polls, ServeList(i)
        PROVE  Len(polls') = Len(polls)
    BY <1>1, <2>2, Served
  <2>3. ASSUME NEW i \in DOMAIN polls, AnswerList(i) \/ LoseList(i)
        PROVE  Len(polls') = Len(polls) - 1
    <3>1. polls' = RemoveAt(polls, i) /\ polls \in Seq(PollSet)
      BY <1>1, <2>3 DEF AnswerList, LoseList, ListInv
    <3> QED
      BY <3>1, RemoveAtLength
  <2>4. \A a \in AssetIds : UpsertUploaded(a) \/ RemoveDeleted(a) => polls' = polls
    BY DEF UpsertUploaded, RemoveDeleted
  <2>5. Poll \/ (\E ws \in Workspaces : SwitchWorkspace(ws)) => \E ws \in Workspaces : Ask(ws)
    BY <1>1 DEF Poll, SwitchWorkspace
  <2>6. CASE polls' = polls
    BY <2>6 DEF BoundInv
  <2>7. CASE Len(polls') = Len(polls) - 1 \/ Len(polls') = Len(polls)
    BY <1>1, <1>2, <2>7 DEF BoundInv
  <2> QED
    BY <2>1, <2>2, <2>3, <2>4, <2>5, <2>6, <2>7, ListEffects
<1>5. late' \subseteq Clips
  <2>1. late' = late \/ \E a \in AssetIds : \/ DeleteLinkedClips(a) \/ \E c \in Clips : AddClip(c, a) \/ DeleteClip(c)
    BY DEF AssetsNext, Client, Task, Lists, PatchStatus, Presign, PutObject, PatchProcessing, UpsertUploaded, FetchOriginal,
           MakeVariant, UpsertVariant, MarkReady, FailTask, CrashWorker, DeleteClip, TestUse, DropRow,
           RemoveDeleted, Poll, SwitchWorkspace, ServeList, AnswerList, LoseList, serverVars
  <2> QED
    BY <2>1 DEF DeleteLinkedClips, AddClip, DeleteClip, BoundInv
<1>6. switches' \in 0 .. MaxSwitches
  <2>1. switches' = switches \/ \E ws \in Workspaces : SwitchWorkspace(ws)
    BY DEF AssetsNext, Client, Task, Lists, PatchStatus, Presign, PutObject, PatchProcessing, UpsertUploaded, FetchOriginal,
           MakeVariant, UpsertVariant, MarkReady, FailTask, CrashWorker, AddClip, DeleteClip, DeleteLinkedClips,
           TestUse, DropRow, RemoveDeleted, Poll, ServeList, AnswerList, LoseList, tabVars
  <2> QED
    BY <1>2, <2>1 DEF SwitchWorkspace, BoundInv
<1>7. crashes' \in 0 .. MaxCrashes
  <2>1. crashes' = crashes \/ CrashWorker
    BY DEF AssetsNext, Client, Task, Lists, PatchStatus, Presign, PutObject, PatchProcessing, UpsertUploaded, FetchOriginal,
           MakeVariant, UpsertVariant, MarkReady, FailTask, AddClip, DeleteClip, DeleteLinkedClips,
           TestUse, DropRow, RemoveDeleted, Poll, SwitchWorkspace, ServeList, AnswerList, LoseList
  <2> QED
    BY <1>2, <2>1 DEF CrashWorker, BoundInv
<1> QED
  BY <1>2, <1>4, <1>5, <1>6, <1>7 DEF BoundInv

\* No action leaves the types and the bounds of the model, and what is ready is complete.
THEOREM AssetsWellFormed == AssetsSpec => []AssetsOK
<1> DEFINE Inv == UseInv /\ ReadyInv /\ KnownInv /\ TodoInv /\ BoundInv
<1>1. AssetsInit => Inv
  <2> SUFFICES ASSUME AssetsInit
               PROVE  Inv
    OBVIOUS
  <2>1. UseInv
    BY AssetIdNames DEF AssetsInit, UseInv, UseTypes, CheckedIsUnused, UsedAssetsStay
  <2>2. ReadyInv /\ KnownInv
    BY CatchInit
  <2>3. TodoInv
    <3>1. \A a \in AssetIds : job[a].todo = <<>> /\ Recipe[a] \in Seq(Variants)
      BY RecipesKnown DEF AssetsInit
    <3> QED
      BY <3>1, SuffixOfItself DEF TodoInv
  <2>4. BoundInv
    <3>1. polls = <<[ws |-> workspace, list |-> None]>>
      BY DEF AssetsInit
    <3>2. Len(polls) = 1
      BY <3>1
    <3> QED
      BY <3>2, BoundsNatural DEF AssetsInit, BoundInv
  <2> QED
    BY <2>1, <2>2, <2>3, <2>4
<1>2. Inv /\ [AssetsNext]_vars => Inv'
  <2>1. ASSUME Inv, UNCHANGED vars
        PROVE  Inv'
    <3>1. ReadyInv'
      BY <2>1 DEF vars, serverVars, tabVars, ReadyInv, TaskInv, ReadyTypes, TaskOK, Trusted, May, Exists, Shown, ListInv
    <3>2. KnownInv'
      BY <2>1 DEF vars, serverVars, tabVars, KnownInv, RowInv, RowTypes, RowOK, Listed
    <3>3. UseInv' /\ TodoInv' /\ BoundInv'
      BY <2>1 DEF vars, serverVars, tabVars, UseInv, UseTypes, CheckedIsUnused, UsedAssetsStay, TodoInv, BoundInv
    <3> QED
      BY <3>1, <3>2, <3>3
  <2>2. ASSUME Inv, AssetsNext
        PROVE  Inv'
    <3>1. TaskInv
      BY <2>2 DEF ReadyInv
    <3> QED
      BY <2>2, <3>1, UseStep, ReadyStep, KnownStep, TodoStep, BoundStep
  <2> QED
    BY <2>1, <2>2
<1>3. Inv => AssetsOK
  <2> SUFFICES ASSUME Inv
               PROVE  AssetsOK
    OBVIOUS
  <2>1. ReadyIsComplete
    BY DEF ReadyInv, TaskInv, TaskOK, ListInv, Loadable, Loads, Trusted, ReadyIsComplete
  <2>2. \A a \in AssetIds : job[a].at \in Stages /\ IsSuffix(job[a].todo, Recipe[a])
    BY DEF ReadyInv, TaskInv, ReadyTypes, TodoInv
  <2>3. \A a \in DOMAIN items : a \in AssetIds /\ items[a] \in Shown
    BY DEF KnownInv, Listed
  <2>4. switches <= MaxSwitches /\ crashes <= MaxCrashes
    BY BoundsNatural DEF BoundInv
  <2>5. AssetsTypeOK
    BY <2>2, <2>3, <2>4 DEF AssetsTypeOK, Stages, Shown, ReadyInv, TaskInv, ReadyTypes, KnownInv, RowInv, RowTypes,
       UseInv, UseTypes, BoundInv
  <2> QED
    BY <2>1, <2>5 DEF AssetsOK
<1> QED
  BY <1>1, <1>2, <1>3, PTL DEF AssetsSpec
=============================================================================
