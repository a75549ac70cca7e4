------------------------------- MODULE Assets -------------------------------
(***************************************************************************)
(* Media files: their rows (backend/src/assets/handlers.rs), objects in S3,*)
(* transcoding (worker/src/asset_pipeline.rs), the clips that use them,    *)
(* and the list one tab shows (frontend/src/state/assetsStore.ts, hooks/   *)
(* useAssetUpload.ts, hooks/useAssetsHydration.ts, components/assets/).    *)
(*                                                                         *)
(* Nothing pushes news of an asset to a tab: it asks for the list again    *)
(* every three seconds while something it shows is not finished.  It only  *)
(* ever asks for the first page.  Each task of the worker gets its message *)
(* once (module WorkerQueue).                                              *)
(***************************************************************************)
EXTENDS Naturals, Sequences, SequencesExt, FiniteSets

CONSTANTS
    AssetIds,
    Workspaces,
    FirstWorkspace, \* the one the tab is in when it is loaded
    Clips,
    OwnClips,   \* the clips of the project the tab has loaded
    Recipe,     \* what the worker makes of an asset, in order
    Rank,       \* the order of the ids, which are random: lists begin with the highest
    PageSize,   \* how many of them a list has at most
    MaxPolls,   \* bound on the lists in flight (see PollBound)
    MaxSwitches,\* bound on the changes of workspace
    MaxCrashes, \* bound on the crashes of the worker
    FaultSets,  \* the sets of faults that may come together
    None

(***************************************************************************)
(* "net"       a call of the tab fails, or its answer is lost              *)
(* "enqueue"   XADD fails                                                  *)
(* "fail"      a step of the worker fails                                  *)
(* "crash"     the worker dies                                             *)
(* "switch"    the user switches to another workspace                      *)
(* "edit"      clips are added to timelines and deleted                    *)
(* "delete"    the user deletes assets                                     *)
(* "overtake"  an answer arrives before the answer to an older request     *)
(* "error"     somebody else PATCHes the status error                      *)
(* "ready"     somebody else PATCHes the status ready                      *)
(* "full"      the workspaces hold other assets before these, so many that *)
(*             the page has room for one more                              *)
(***************************************************************************)
FaultKinds == {"net", "enqueue", "fail", "crash", "switch", "edit", "delete",
               "overtake", "error", "ready", "full"}

Variants == {"proxy", "thumbnail", "waveform"}
Shown == {"uploading", "processing", "ready", "error"}
Statuses == {"none", "deleted"} \cup Shown

ASSUME AssetIdNames == None \notin AssetIds \cup {"null"} /\ "null" \notin AssetIds
ASSUME WorkspacesKnown == FirstWorkspace \in Workspaces /\ None \notin Workspaces
ASSUME RecipesKnown == Recipe \in [AssetIds -> Seq(Variants)]
ASSUME AssetsFinite == IsFiniteSet(AssetIds)
ASSUME IdsOrdered == Rank \in [AssetIds -> Nat] /\ IsInjective(Rank)
ASSUME PageNotEmpty == PageSize \in Nat \ {0}
ASSUME OwnClipsKnown == OwnClips \subseteq Clips
ASSUME BoundsNatural == MaxPolls \in Nat \ {0} /\ MaxSwitches \in Nat /\ MaxCrashes \in Nat
ASSUME AssetFaultsKnown == FaultSets \subseteq SUBSET FaultKinds

VARIABLES
    status,     \* assets.status, "none" before the INSERT, "deleted" after the DELETE
    home,       \* assets.workspace_id
    rows,       \* the asset's rows in asset_variants
    objects,    \* the asset's objects in S3
    job,        \* the worker's task for the asset and what it still has to make
    use,        \* clips.asset_id; "null" once ON DELETE SET NULL has hit it
    late,       \* the clips added between delete_asset's test and its DELETE
    upload,     \* how far the tab is with uploading the asset
    deletion,   \* how far a deletion by the tab is
    workspace,  \* currentWorkspaceId
    items,      \* the statuses the tab shows: a function on the assets it lists
    polls,      \* the lists in flight, in the order they were asked for
    switches, crashes,
    faults      \* what may go wrong in this behaviour; it never changes

serverVars == <<status, home, rows, objects, use, late>>
tabVars == <<upload, deletion, workspace, items, polls, switches>>
vars == <<serverVars, tabVars, job, crashes, faults>>

May(f) == f \in faults
Exists(a) == status[a] \in Shown

\* How many of these assets a list has room for, and those of a's workspace that it has
\* before a, deleted ones included.
Room == IF May("full") THEN 1 ELSE PageSize
Higher(a) == {b \in AssetIds : home[b] = home[a] /\ Rank[b] > Rank[a]}
OffPage(a) == Cardinality(Higher(a)) >= Room

\* toAsset: what the browser loads for an asset that is shown so.  Of a sound it is
\* the original, and its thumbnail is not looked at.
Loads(a, shown) ==
    IF shown # "ready" THEN {}
    ELSE IF "thumbnail" \in ToSet(Recipe[a]) THEN ToSet(Recipe[a]) \ {"waveform"}
    ELSE {"original"}

\* Mutation of HasProcessing: an asset that is uploaded no longer counts.
HasUploading == \E a \in DOMAIN items : items[a] = "uploading"
\* Mutation of HasProcessing: an asset that is not yet uploaded does not count.
HasTranscoding == \E a \in DOMAIN items : items[a] = "processing"

\* selectHasProcessing
HasProcessing == \E a \in DOMAIN items : items[a] \in {"uploading", "processing"}

AssetsTypeOK ==
    /\ status \in [AssetIds -> Statuses]
    /\ home \in [AssetIds -> Workspaces \cup {None}]
    /\ rows \in [AssetIds -> SUBSET Variants]
    /\ objects \in [AssetIds -> SUBSET (Variants \cup {"original"})]
    /\ \A a \in AssetIds :
        /\ job[a].at \in {"none", "queued", "make", "record", "finish", "ended"}
        /\ IsSuffix(job[a].todo, Recipe[a])
    /\ use \in [Clips -> AssetIds \cup {None, "null"}]
    /\ late \subseteq Clips
    /\ upload \in [AssetIds -> {"idle", "put", "patch", "answer", "done", "failed"}]
    /\ deletion \in [AssetIds -> {"no", "asked", "checked", "answer"}]
    /\ workspace \in Workspaces
    /\ DOMAIN items \subseteq AssetIds
    /\ \A a \in DOMAIN items : items[a] \in Shown
    /\ Len(polls) <= MaxPolls
    /\ switches <= MaxSwitches /\ crashes <= MaxCrashes /\ faults \in FaultSets

AssetsInit ==
    /\ status = [a \in AssetIds |-> "none"]
    /\ home = [a \in AssetIds |-> None]
    /\ rows = [a \in AssetIds |-> {}]
    /\ objects = [a \in AssetIds |-> {}]
    /\ job = [a \in AssetIds |-> [at |-> "none", todo |-> <<>>]]
    /\ use = [c \in Clips |-> None] /\ late = {}
    /\ upload = [a \in AssetIds |-> "idle"]
    /\ deletion = [a \in AssetIds |-> "no"]
    /\ workspace = FirstWorkspace
    /\ items = <<>>
    /\ polls = <<[ws |-> workspace, list |-> None]>>
    /\ switches = 0 /\ crashes = 0
    /\ faults \in FaultSets
-----------------------------------------------------------------------------
(* Uploading.  The button is disabled while an upload is on its way.         *)

Upsert(a, shown) ==
    items' = [b \in DOMAIN items \cup {a} |-> IF b = a THEN shown ELSE items[b]]
RemoveItem(a) == items' = [b \in DOMAIN items \ {a} |-> items[b]]

ToUpload(a, stage) == upload' = [upload EXCEPT ![a] = stage]
Uploading == \E a \in AssetIds : upload[a] \in {"put", "patch", "answer"}

\* Deleting one asset has nothing to do with the others: one is enough there.
UploadsLeft == {"edit", "delete"} \cap faults # {} => \A a \in AssetIds : upload[a] = "idle"

\* Step 1: the row is inserted in the tab's workspace and the URL signed.
Presign(a) ==
    /\ ~Uploading /\ upload[a] = "idle" /\ UploadsLeft
    /\ status' = [status EXCEPT ![a] = "uploading"]
    /\ home' = [home EXCEPT ![a] = workspace]
    /\ \/ ToUpload(a, "put")
       \/ May("net") /\ ToUpload(a, "failed")
    /\ UNCHANGED <<rows, objects, use, late, job, deletion, workspace, items, polls,
                   switches, crashes, faults>>

\* Step 2: the bytes go to S3, which knows nothing of the row.
PutObject(a) ==
    /\ upload[a] = "put"
    /\ \/ /\ objects' = [objects EXCEPT ![a] = @ \cup {"original"}]
          /\ ToUpload(a, "patch")
       \/ May("net") /\ ToUpload(a, "failed") /\ UNCHANGED objects
    /\ UNCHANGED <<status, home, rows, use, late, job, deletion, workspace, items, polls,
                   switches, crashes, faults>>

\* Step 3: the status is written, then the message sent; if that fails, only a
\* warning is logged.  Somebody who saw the row may have deleted it by now.
PatchProcessing(a) ==
    /\ upload[a] = "patch"
    /\ \/ /\ Exists(a)
          /\ status' = [status EXCEPT ![a] = "processing"]
          /\ \/ job' = [job EXCEPT ![a] = [at |-> "queued", todo |-> Recipe[a]]]
             \/ May("enqueue") /\ UNCHANGED job
          /\ \/ ToUpload(a, "answer")
             \/ May("net") /\ ToUpload(a, "failed")
       \/ /\ ~Exists(a) \/ May("net")
          /\ ToUpload(a, "failed") /\ UNCHANGED <<status, job>>
    /\ UNCHANGED <<home, rows, objects, use, late, deletion, workspace, items, polls,
                   switches, crashes, faults>>

\* Anybody who may edit the workspace can write these two statuses.  No client and no
\* task of the repository does.
PatchStatus(a, s) ==
    /\ May(s) /\ Exists(a)
    /\ status' = [status EXCEPT ![a] = s]
    /\ UNCHANGED <<home, rows, objects, use, late, tabVars, job, crashes, faults>>

\* Answers come in the order of the requests: a list that was asked for before the
\* asset appeared (or disappeared) is there already.  Of an asset past the first page
\* no list can tell.
InOrder(a, listed) ==
    \/ May("overtake")
    \/ listed /\ OffPage(a)
    \/ \A i \in DOMAIN polls : polls[i].list # None => (a \in DOMAIN polls[i].list) = listed

\* The row as it was at the PATCH is put into the list, whatever workspace that is of.
UpsertUploaded(a) ==
    /\ upload[a] = "answer" /\ InOrder(a, Exists(a))
    /\ Upsert(a, "processing") /\ ToUpload(a, "done")
    /\ UNCHANGED <<serverVars, job, deletion, workspace, polls, switches, crashes, faults>>
-----------------------------------------------------------------------------
(* The worker's task.                                                        *)

WorkOn(a, at, todo) == job' = [job EXCEPT ![a] = [at |-> at, todo |-> todo]]
\* Mutation of NextStage: the last variant is forgotten.
NextStageEarly(todo) == IF Len(todo) <= 1 THEN "finish" ELSE "make"
NextStage(todo) == IF todo = <<>> THEN "finish" ELSE "make"

\* The row is read, the original downloaded and probed.
FetchOriginal(a) ==
    /\ job[a].at = "queued"
    /\ IF Exists(a) /\ "original" \in objects[a]
       THEN WorkOn(a, NextStage(job[a].todo), job[a].todo)
       ELSE WorkOn(a, "ended", job[a].todo)
    /\ UNCHANGED <<serverVars, tabVars, crashes, faults>>

\* ffmpeg makes the next variant and it is uploaded.
MakeVariant(a) ==
    /\ job[a].at = "make"
    /\ objects' = [objects EXCEPT ![a] = @ \cup {Head(job[a].todo)}]
    /\ WorkOn(a, "record", job[a].todo)
    /\ UNCHANGED <<status, home, rows, use, late, tabVars, crashes, faults>>

\* upsert_variant: the foreign key refuses a variant of a deleted asset.
UpsertVariant(a) ==
    /\ job[a].at = "record"
    /\ IF Exists(a)
       THEN /\ rows' = [rows EXCEPT ![a] = @ \cup {Head(job[a].todo)}]
            /\ WorkOn(a, NextStage(Tail(job[a].todo)), Tail(job[a].todo))
       ELSE WorkOn(a, "ended", job[a].todo) /\ UNCHANGED rows
    /\ UNCHANGED <<status, home, objects, use, late, tabVars, crashes, faults>>

\* An UPDATE of a row that is gone changes nothing.
MarkReady(a) ==
    /\ job[a].at = "finish"
    /\ status' = [status EXCEPT ![a] = IF Exists(a) THEN "ready" ELSE @]
    /\ WorkOn(a, "ended", <<>>)
    /\ UNCHANGED <<home, rows, objects, use, late, tabVars, crashes, faults>>

\* Any step may fail: the task ends, the message is acknowledged or left pending for
\* good, and nobody writes the status.
FailTask(a) ==
    /\ May("fail")
    /\ job[a].at \in {"queued", "make", "record", "finish"}
    /\ WorkOn(a, "ended", job[a].todo)
    /\ UNCHANGED <<serverVars, tabVars, crashes, faults>>

\* The tasks that had begun are forgotten.
CrashWorker ==
    /\ May("crash") /\ crashes < MaxCrashes
    /\ crashes' = crashes + 1
    /\ job' = [a \in AssetIds |->
                 IF job[a].at \in {"none", "queued"} THEN job[a] ELSE [job[a] EXCEPT !.at = "ended"]]
    /\ UNCHANGED <<serverVars, tabVars, faults>>
-----------------------------------------------------------------------------
(* Clips.  The tab drops an asset it shows on its own project; others use    *)
(* whatever exists.  The foreign key refuses an asset that does not.         *)

AddClip(c, a) ==
    /\ May("edit") /\ use[c] = None /\ Exists(a)
    /\ c \in OwnClips => a \in DOMAIN items
    /\ use' = [use EXCEPT ![c] = a]
    /\ late' = IF deletion[a] = "checked" THEN late \cup {c} ELSE late
    /\ UNCHANGED <<status, home, rows, objects, tabVars, job, crashes, faults>>

DeleteClip(c) ==
    /\ May("edit") /\ use[c] \in AssetIds
    /\ use' = [use EXCEPT ![c] = None] /\ late' = late \ {c}
    /\ UNCHANGED <<status, home, rows, objects, tabVars, job, crashes, faults>>
-----------------------------------------------------------------------------
(* Deleting: AssetRow deletes the clips it knows of, then the asset.         *)

ToDelete(a, stage) == deletion' = [deletion EXCEPT ![a] = stage]

\* Clips whose deletion fails stay, and the asset's deletion is tried all the same.
DeleteLinkedClips(a) ==
    /\ May("delete") /\ deletion[a] = "no" /\ a \in DOMAIN items
    /\ LET linked == {c \in OwnClips : use[c] = a} IN
       \E kept \in SUBSET linked :
         /\ kept # {} => May("net")
         /\ use' = [c \in Clips |-> IF c \in linked \ kept THEN None ELSE use[c]]
         /\ late' = late \ (linked \ kept)
    /\ ToDelete(a, "asked")
    /\ UNCHANGED <<status, home, rows, objects, job, upload, workspace, items, polls,
                   switches, crashes, faults>>

\* Mutation of TestUse: only the clips of the tab's project are looked at.
TestOwnUse(a) ==
    /\ deletion[a] = "asked"
    /\ IF Exists(a) /\ \A c \in OwnClips : use[c] # a
       THEN ToDelete(a, "checked") ELSE ToDelete(a, "no")
    /\ UNCHANGED <<serverVars, job, upload, workspace, items, polls, switches, crashes, faults>>

\* SELECT EXISTS: 409 while a clip of any project uses the asset, 404 when it is gone.
TestUse(a) ==
    /\ deletion[a] = "asked"
    /\ IF Exists(a) /\ \A c \in Clips : use[c] # a
       THEN ToDelete(a, "checked") ELSE ToDelete(a, "no")
    /\ UNCHANGED <<serverVars, job, upload, workspace, items, polls, switches, crashes, faults>>

\* The rows of the variants go with it, the objects stay, clips are set to null.
DropRow(a) ==
    /\ deletion[a] = "checked"
    /\ status' = [status EXCEPT ![a] = "deleted"]
    /\ rows' = [rows EXCEPT ![a] = {}]
    /\ use' = [c \in Clips |-> IF use[c] = a THEN "null" ELSE use[c]]
    /\ \/ ToDelete(a, "answer")
       \/ May("net") /\ ToDelete(a, "no")
    /\ UNCHANGED <<home, objects, late, job, upload, workspace, items, polls, switches, crashes, faults>>

RemoveDeleted(a) ==
    /\ deletion[a] = "answer" /\ InOrder(a, FALSE)
    /\ RemoveItem(a) /\ ToDelete(a, "no")
    /\ UNCHANGED <<serverVars, job, upload, workspace, polls, switches, crashes, faults>>
-----------------------------------------------------------------------------
(* The tab's list.                                                           *)

\* Lists in flight together matter only where they may differ or change places.
PollBound == IF {"switch", "overtake"} \cap faults = {} THEN 1 ELSE MaxPolls
Ask(ws) == /\ Len(polls) < PollBound
           /\ polls' = Append(polls, [ws |-> ws, list |-> None])

\* The effect on workspaceId fetches the list; the old one stays until it is there.
SwitchWorkspace(ws) ==
    /\ May("switch") /\ switches < MaxSwitches /\ ws # workspace
    /\ workspace' = ws /\ switches' = switches + 1
    /\ Ask(ws)
    /\ UNCHANGED <<serverVars, job, upload, deletion, items, crashes, faults>>

\* The interval's tick.
Poll ==
    /\ HasProcessing
    /\ Ask(workspace)
    /\ UNCHANGED <<serverVars, job, upload, deletion, workspace, items, switches, crashes, faults>>

\* ORDER BY id DESC LIMIT: fewer than a page come before it.
OnPage(a) == Cardinality({b \in Higher(a) : Exists(b)}) < Room

\* list_assets, which the tab calls without a cursor.
ServeList(i) ==
    /\ polls[i].list = None
    /\ May("overtake") \/ \A j \in 1 .. i - 1 : polls[j].list # None
    /\ LET listed == {a \in AssetIds : Exists(a) /\ home[a] = polls[i].ws /\ OnPage(a)} IN
       polls' = [polls EXCEPT ![i].list = [a \in listed |-> status[a]]]
    /\ UNCHANGED <<serverVars, job, upload, deletion, workspace, items, switches, crashes, faults>>

\* hydrate puts the answer in place of the list without a look at the workspace.
AnswerList(i) ==
    /\ polls[i].list # None
    /\ May("overtake") \/ i = 1
    /\ items' = polls[i].list
    /\ polls' = RemoveAt(polls, i)
    /\ UNCHANGED <<serverVars, job, upload, deletion, workspace, switches, crashes, faults>>

LoseList(i) ==
    /\ May("net")
    /\ polls' = RemoveAt(polls, i)
    /\ UNCHANGED <<serverVars, job, upload, deletion, workspace, items, switches, crashes, faults>>
-----------------------------------------------------------------------------
Task(a) == FetchOriginal(a) \/ MakeVariant(a) \/ UpsertVariant(a) \/ MarkReady(a)
Client(a) == PutObject(a) \/ PatchProcessing(a) \/ UpsertUploaded(a)
                \/ TestUse(a) \/ DropRow(a) \/ RemoveDeleted(a)
Lists == Poll \/ \E i \in DOMAIN polls : ServeList(i) \/ AnswerList(i)

AssetsNext ==
    \/ \E a \in AssetIds : \/ Presign(a) \/ Client(a) \/ Task(a) \/ FailTask(a)
                           \/ DeleteLinkedClips(a)
                           \/ \E s \in {"error", "ready"} : PatchStatus(a, s)
                           \/ \E c \in Clips : AddClip(c, a)
    \/ \E c \in Clips : DeleteClip(c)
    \/ CrashWorker
    \/ \E ws \in Workspaces : SwitchWorkspace(ws)
    \/ Lists
    \/ \E i \in DOMAIN polls : LoseList(i)

\* Requests that were sent are served and answered, a task that was queued is
\* worked on, and the interval ticks; the user owes nothing.
AssetsSpec == /\ AssetsInit /\ [][AssetsNext]_vars
              /\ \A a \in AssetIds : WF_vars(Task(a)) /\ WF_vars(Client(a))
              /\ WF_vars(Lists)
-----------------------------------------------------------------------------
(* Properties.                                                               *)

\* What is marked ready has a row for all that its kind needs, and what a tab loads is
\* there, however old its list is: the player and the export read them without asking
\* again.  Only who PATCHes the status himself can make it untrue.  Each row has its
\* object in any case.
ReadyIsComplete ==
    /\ \A a \in AssetIds : rows[a] \subseteq objects[a]
    /\ ~May("ready") =>
         /\ \A a \in AssetIds :
              status[a] = "ready" => ToSet(Recipe[a]) \subseteq rows[a] /\ "original" \in objects[a]
         /\ \A a \in DOMAIN items : Loads(a, items[a]) \subseteq objects[a]

\* Types, and what ready means.
AssetsOK == AssetsTypeOK /\ ReadyIsComplete

\* delete_asset tests and deletes in two statements: a clip loses its asset only when
\* it was added in between, whichever project it is in.
UsedAssetsStay == \A c \in Clips : use[c] = "null" => c \in late

\* A tab that has stopped asking shows what its workspace has: nothing of another
\* workspace, nothing deleted and no old status, and of what is ready it lacks only what
\* a page of others comes before.
Settled ==
    /\ polls = <<>> /\ ~HasProcessing
    /\ \A a \in AssetIds : deletion[a] = "no" /\ upload[a] # "answer"
Calm == {"net", "overtake", "error", "ready"} \cap faults = {}
TabCatchesUp ==
    Settled /\ Calm =>
      /\ \A a \in DOMAIN items : home[a] = workspace /\ items[a] = status[a]
      /\ \A a \in AssetIds :
           home[a] = workspace /\ status[a] = "ready" => a \in DOMAIN items \/ OffPage(a)

\* If nothing fails and the user neither leaves nor deletes, an upload that was begun
\* ends up in the list, ready, unless a page of others comes before it.
ShownInTheEnd ==
    \A a \in AssetIds :
      (faults \subseteq {"full"} /\ upload[a] = "put") ~> (a \in DOMAIN items /\ items[a] = "ready") \/ OffPage(a)
=============================================================================
