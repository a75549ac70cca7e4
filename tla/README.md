# cloud-cut: TLA+ models and proofs

cloud-cut is a browser video editor: a React front end (`frontend/`), a Rust
API (`backend/`, axum, Postgres through sqlx, Redis) and a Rust worker
(`worker/`, Redis streams, ffmpeg, S3).  This directory holds TLA+ models of
its core logic, the TLC runs that check them on small instances and TLAPS proofs
of what matters most.  Every definition is translated from the source;
`PROJECT.json` maps each of them to its lines.

## 1. Inventory

| Component | State it keeps | Operations | Talks to |
|---|---|---|---|
| Concurrent-export limiter, `backend/src/rate_limit/mod.rs`, `release_export_slot` in `worker/src/export_pipeline.rs` | a Redis counter per workspace, its TTL | `check_concurrent_exports` (INCR, EXPIRE, DECR), `release_export_slot` (DECR, SET 0) | written by backend and worker |
| Upload window, same file | a Redis counter per workspace and hour | `check_upload` | called by `presign_upload` |
| Consumer loop, `worker/src/queue.rs`, `processor.rs`, `config.rs` | Redis streams, group position, pending list, DLQ; tasks in memory | `ensure_groups`, `read_and_process`, `maybe_dead_letter` | fed by `enqueue_export`, `enqueue_processing` |
| Export jobs, `backend/src/exports/handlers.rs`, `worker/src/export_pipeline.rs` | `export_jobs` rows | `create_export`, the pipeline's stages, progress updates | limiter, stream, S3, ffmpeg |
| Assets, `backend/src/assets/handlers.rs`, `worker/src/asset_pipeline.rs`, `frontend/src/hooks/useAssetUpload.ts`, `useAssetsHydration.ts`, `state/assetsStore.ts` | `assets`, `asset_variants`, objects in S3, the list a tab shows | presign, upload, `update_asset_status`, `delete_asset`, transcoding, polling | upload window, stream, clips |
| Timeline, `backend/src/timeline/handlers.rs` | `tracks`, `clips` with a version, `clip_effects` | add, update, split, delete | `operation_logs`, Pusher |
| Collaboration, `backend/src/collaboration/`, `frontend/src/collaboration/` | `operation_logs`; members, cursors and playheads each tab shows | `log_operation`, `publish`, channel signatures, event handlers, broadcasts | timeline, editor, Pusher |
| Editor, `frontend/src/state/projectStore.ts`, `historyStore.ts` | the timeline as shown, undo stacks, calls in flight | edits with optimistic ids, undo, redo, remote upserts | API, collaboration |
| Workbench, `uiStore.ts`, `historyStore.ts`, `Timeline.tsx`, `utils/geometry.ts`, `useKeyboardShortcuts.ts`, the inspector | selection, the closure of a drag, snap line, clipboard, effects, history list | mouse, keyboard, panels | editor, player |
| Playback, `playbackStore.ts`, `usePlaybackTicker.ts`, `VideoPlayer.tsx`, `useAudioMixer.ts` | playhead, transport, a loop of frames, media elements | play, seek, tick, the effects | editor, assets |
| Sessions, `backend/src/auth/`, `frontend/src/state/authStore.ts`, `services/api.ts` | `refresh_tokens`; tokens in tab and local storage | login, refresh, logout, 401 handling | every request |
| Workspaces, members and projects, `backend/src/workspaces/`, `backend/src/projects/`, `App.tsx`, `WorkspaceProjectSelector.tsx`, `MembersPanel.tsx`, `projectStore.ts` | `workspaces`, `workspace_members`, `invitations`, `projects`; what a tab has chosen, the list its members panel shows | list, create, choose, rename, archive, start of the editor; list members, change a role, remove, invite | every handler's role check |
| Pure computations: `utils/geometry.ts`, `utils/playback.ts`, `worker/src/ffmpeg.rs` | none | snapping, clip at a time, export layout | workbench, player, worker |
| Styling, docs prototype, migrations, deployment | - | rendering, wiring | - |

What is hard in it:

* **Two processes, one counter.**  The backend increments and the worker
  decrements the same Redis key with separate commands; the key expires.
* **Steps that are not transactions.**  Handlers run several statements, Redis
  calls and Pusher events in sequence; any of them may fail, its answer may be
  lost, or the request's future may be dropped.
* **A worker that dies.**  Tasks live in memory; the stream remembers only what
  it handed to which consumer.
* **Concurrent editors.**  Updates of the same clip, splits and deletes
  interleave; clients apply their own optimistic edits, server answers and
  Pusher events in whatever order they come.
* **Client state read before an await and used after it.**  Optimistic ids, undo
  snapshots, token refresh, chains of calls that fill one store, lists that are
  polled.
* **Closures and effects.**  A drag keeps what it captured at mousedown; React
  effects bring media elements in line only when something they name has changed.

What makes each component correct is stated next to its module below, and the
list of hazards with their lines is in `PROJECT.json`.

## 2. Modules

| Module | Models | Built on |
|---|---|---|
| `ExportSlots`, `ExportPartsProofs` | the limiter, one step per Redis command | - |
| `WorkerQueue`, `ExportPartsProofs` | stream, group, pending list, tasks, DLQ, crashes | - |
| `ExportLifecycle` | what the export service promises (abstract) | - |
| `ExportJobs`, `ExportJobsProofs` | handler, pipeline and row, composed with limiter and queue | instances of `ExportSlots` and `WorkerQueue`; implements `ExportLifecycle` |
| `Timeline`, `ClipsProofs` | the server's clips and tracks, one step per SQL statement, the operation log, events, tabs that watch | - |
| `UndoHistory` | what undo and redo promise (abstract) | - |
| `Editor`, `EditorProofs` | a tab that edits: snapshots, calls in flight, answers, remote events | implements `UndoHistory` |
| `Assets`, `AssetsProofs` | media files from upload to deletion, and the list of a tab | - |
| `Session`, `ConnectionProofs` | sign in, sign out, tokens, the shared refresh, tabs and storage | - |
| `Navigator`, `MembersProofs` | workspaces and projects as one tab goes through them, with the handlers it calls | - |
| `Members`, `MembersProofs` | the members panel of that tab and the handlers of the members, with other admins at work | extends `Navigator` |
| `Player`, `ClipsProofs` | transport, loop, picture and sound | - |
| `Presence`, `ConnectionProofs` | members, cursors and playheads of a channel as a tab shows them | - |
| `Workbench`, `WorkbenchProofs` | gestures, snapping, clipboard, effects and the history list | - |

`MCx` modules give the constants of module `x` their values for TLC (`MCNavigator`
those of `Navigator` and `Members`).

Conventions.  A step is one awaited call (one Redis command, one SQL statement,
one S3 transfer), because between two of them the runtime may run anything else
or drop the future; in the browser it is one handler, because handlers run to
completion, together with the render and the effects it causes.  What may go
wrong in a behaviour is a variable `faults` that is chosen in the initial state
from the constant `FaultSets` and never changes (`outages` and `OutageSets` in
`WorkerQueue`, `mishaps` and `MishapSets` in `Player`, so that one proof module can
extend two of these modules); a property that depends on a
fault's absence says so itself, and one run covers all combinations.  A fault
never forces anything: it adds outcomes.  `Presence` and `Workbench` use the same
device for what users do (`topics`), because the combinations of two or three
kinds of input are where the hazards are and all of them at once are out of
reach.  Operators named as mutations in a module are the sensitivity checks'
variants of an operation; no specification uses them.

The invariant named after its module (`SlotOK`, `EditorOK`, ...) is the
conjunction of its type invariant and of the named invariants that hold without
further conditions; each part is a definition of its own.

### 2.1 ExportSlots

`count` and `ttl` are the key, `slot[r]` says where request (and then job) `r`
stands with its slot.  `Take` is INCR with the two tests on its answer, `Arm`
the EXPIRE sent by the request that saw 1, `Refuse` the DECR of a refused one,
`Release` and `Reset` the worker's DECR and its SET 0, `Expire` Redis.
`TakeError`, `Cancel` and `Abandon` are the ways to lose a slot: an INCR executed
although its answer was an error, a dropped future, a handler that fails after
the limiter or a worker that dies.  Workspaces share nothing, so one key is enough.

`SlotOK`: without expiry the counter is exact (`CountExact`) and at most `Limit`
exports hold a slot (`ConcurrencyBound`); always, it never exceeds the slots
really taken (`NoPhantomSlots`); where no command fails and no request is
cancelled a positive counter has its TTL or is about to get it (`SafetyNet`).
`SaturationEnds`: then it is not saturated for ever.

### 2.2 WorkerQueue

`entry` and `tail` are the stream, `group` and `cursor` the consumer group and
its position, `owner` and `deliveries` the pending list, `handle` the task in
the worker's memory.  The two streams share nothing and the module is about
either of them.  `EnsureGroups` creates the group at `$`.  `read_and_process` is
two steps: `ReadGroup` is XREADGROUP with `>` as Redis executes it, and `SpawnTasks` the
answer, for each entry of which a task is spawned; between them the entries are
pending for a worker that does not know them yet (`delivered`), and the answer may be
lost (`LoseAnswer`) or the worker die.  `Ack` and `MaybeDeadLetter` end a task; `Crash` kills a
process with its tasks, those it was about to spawn included.

`UnfinishedIsPending` (in `QueueOK`): what was handed out stays pending until its own
task has sent the XACK, at whatever command something dies.  `NoSilentDrop`: an
entry leaves the pending list by success or into the DLQ.  `WaitingIsServed`:
what comes after the group's position gets a task that comes to its end, unless
the worker it was handed to dies.  That is one half of the at-least-once that
`worker/DESIGN.md` promises.  The other half, that somebody reads the pending list
again, is stated as `UnackedIsRedelivered`, and the run `QueueRedelivers` shows that it is
not so.  `DeliveredOnce` and `DeadLetterUnreachable` say what the code does instead.  They are
no promise of the queue; they are here because the pipeline's proofs rest on them: a
retry, were it ever added, would let a second task write over a verdict.

### 2.3 ExportJobs

`api[r]` is how far the POST is, `row` and `progress` the `export_jobs` row,
`stage[r]` the await the task is at.  Limiter and queue are instances, so a step
such as `ReleaseSlot` is the conjunction of what the pipeline and the limiter do, and
`ReadJobs`, `StartJobs`, `LoseJobs` and `CrashWorker` are those of the queue with what they do
to the tasks.
`progress` has seven values that stand for the bands of the percentage.  A
message that lacks a field never reaches the stream and is left out, and so is a
project that is not found, because no handler deletes one.  A temporary directory that
cannot be made is one more way for `Download` to fail.

`ExportLifecycle` is the service as a client may understand it: at most `Limit`
jobs admitted, a row that moves one way, each job worked on at most once, a
verdict that is final.  `ExportJobs` implements it under the mapping `Work`.  The limit is part
of it for as long as the count lasts: `lasting` stands for a key that does not expire.
`AcceptedGetsVerdict` and `SlotsReturn`: when nothing fails every job in the stream ends in done or
error, and although S3 fails or the key expires every slot comes back.

### 2.4 Timeline

`tracks` and `clips` are the tables, `unused` the ids `gen_random_uuid()` has not
given out.  `pc[r]` is the await that request `r` is at; `rows[r]` are the rows
the handler holds in its locals (a split: original, left half, right half).  No
handler opens a transaction, so `FetchOriginal`, `ShortenLeft` and `InsertRight`
are three steps and the requests of all editors interleave between them.  The
foreign key to the tracks and the CHECKs are `Fits`, the cascade is in `DeleteTrack`.  `assets`
are the assets that exist and `assetOf` is `clips.asset_id`, beside the rows because it changes
without a new version: `DeleteAsset` sets it to null in every clip (ON DELETE SET NULL) after
its own test (`CheckUse`), and an INSERT with an asset that is gone fails (`Exists`).  After
the table come `LogOperation` (adds and updates only) and `PublishEvent`.
`queue[v]`, `view[v]` and `answer[v]` are a watching tab: the events on their way,
the clips it shows, a timeline it has been sent.

Correct means: a version tells the states of a clip apart in the table, the
handlers, the log and the events, but for its asset (`VersionIdentifiesRow`, in `TimelineOK`); an
undisturbed split cuts a clip into two that meet, and stops half-way only if the
request dies or the track or the asset of what it read is gone (`SplitHalvesMeet`,
`SplitAllOrNothing`); a watching tab ends with the server's clips, their assets apart, when requests
do not overlap (`SpectatorConverges`, with its conditions).

### 2.5 Editor

`clips`, `undo`, `redo` are the store's clips and snapshot stacks, `drag` the
closure of a mouse gesture (the clip's place when it was grabbed), `calls` the
HTTP calls nobody waits for, `inbox` the other users' events, `table` the
server's rows.  User actions, answers and events are handlers that run to
completion, so each is a step.  The server serves a call in one step here: its
interleavings are `Timeline`'s subject.  The clips are a set because their order
in the array decides nothing, and a clip's track is part of its place.

The fault sets say how the user, the network and the others behave (`haste`,
`undo`, `tmp`, `overtake`, `refused`, `dropped`, `lost`, `reload`, `remote`,
`clash`; see the module).  `InStep` names the combinations in which the tab can
follow the server: a hasty user whose calls all arrive in order, or a calm one
whose splits may be refused while others edit and the project is reloaded.  Under
it a settled tab shows the server's clips (`SettledAgrees`), an id belongs to one
clip (`OneClipPerId`) and a temporary id waits for an answer (`TmpIsPending`, both
in `EditorOK`).  Outside of it each of the three fails, which is how the
conditions were found: undo is never sent, moves of a clip with a temporary id
are not sent, a rollback takes the snapshot that is on top by then.  Under all
faults the store implements `UndoHistory`: with `hist` the undo stack reversed,
the clips on screen and the redo stack, and `at` the place of the clips in it,
undo and redo only walk.
### 2.6 Assets

`status`, `home`, `rows` are `assets.status`, its workspace and its rows in
`asset_variants`; `objects` what lies in S3; `use[c]` is `clips.asset_id`, "null"
once ON DELETE SET NULL has hit it.  `upload[a]` is the await `useAssetUpload` is
at (`Presign`, `PutObject`, `PatchProcessing`, `UpsertUploaded`), `job[a]` the
worker's task with the variants it has still to make (`FetchOriginal`, `MakeVariant`,
`UpsertVariant`, `MarkReady`; any of them may fail, and nobody writes the failure
down), `deletion[a]` the deletion by `AssetRow`: the clips it knows of one by one
(`DeleteLinkedClips`), then `delete_asset`'s SELECT and DELETE (`TestUse`, `DropRow`).
`items` is what the tab shows, `polls` the lists in flight: one for each change of
workspace, and one for each tick of the interval that runs while `HasProcessing`.  A
list is the first page of `list_assets`, which is all that a tab ever asks for: the highest
ids first (`Rank`, because they are random), `PageSize` of them; fault "full" stands for a
workspace whose other assets leave room for one.  Anybody who may edit can PATCH the
statuses `ready` and `error` too (`PatchStatus`); the frontend does not.
Each message is handed out once, which is `WorkerQueue`'s result.

`ReadyIsComplete` (in `AssetsOK`): whatever the server or a tab, with however old a list,
holds for ready has its variants and its objects.  `UsedAssetsStay`: a clip loses its
asset only through the gap between SELECT and DELETE.  `TabCatchesUp`: a tab that has
stopped asking shows nothing deleted, old or of another workspace, and of what is ready in
its own it lacks only what a page of others comes before.  Where answers are lost or
overtake each other, or others PATCH a status, it does not hold, and is not claimed
(`Calm`).  `ShownInTheEnd`: an upload becomes ready in the list, if nothing fails and it
is on the page.

### 2.7 Session

`owner`, `revoked` and `lapsed` are `refresh_tokens`; access tokens carry the
sign-in they come from and the `epoch` they were made in, and the server takes
only those of the present epoch (`ExpireAccess` begins a new one).  `session[t]`
is a tab's `authStore`, `stored` what `persist` has in localStorage: every `set`
writes it, a page that is loaded reads it (`Reload`).  `call[t][c]` is a request of
`api.ts` from `Send` on; a 401 joins or starts the one refresh of the tab
(`AwaitRefresh`, `refreshing[t]`), and its answer wakes all that waited (`AnswerRefresh`,
`Retry`).  Signing out is a call as well, and clears the session whatever became
of it (`Finish`).

`ActsAsUser` (in `SessionOK`): the tab's tokens are those of the user it shows, and
a call is served as the user who made it, second try included, unless
somebody signs in while a refresh of the session before is on its way.
`LogoutReachesAll`: after a sign-out no tab, request or storage ever holds an
access token of that sign-in from a later epoch.  `NobodyWaits`: no call waits
for the refresh for ever.

### 2.8 Navigator

`store` is what `projectStore` knows of workspaces, role, lists and the project;
`flow[i]` is an asynchronous action on its way, with the call it waits for: the start
of `App.tsx` (`Boot`), choosing, creating, archiving, renaming, adding a track.
`Serve` is the handler of the call with its role check (`Grants`), `Answer...` the
assignments after each await, `Fail` the end of a flow by an error (a start
falls back to the mock project, or signs out on 401).  `edits[p]` stands for a
project's name, fps and size, and `store.of` for the project that the ones on
screen come from.  The effect of `App.tsx` runs before any other event, so every
other action waits for `~BootDue`.

`AtRestFits` (in `NavOK`, a part of `MembersOK`): where nothing failed, overlapped or
changed hands, what is shown at rest is the server's.  `SelectionFits`: whatever went
wrong before, a flow that chooses, creates or starts and is alone ends with project, list
and role of one workspace.  `EditorComesUp`: who signs in gets an editor or is signed out.

### 2.9 Members

`panel` is the state of `MembersPanel.tsx`: on screen, its list, loading, error.
`asks[i]` is a request on its way, of this tab or of another admin (`Rival`), with the
statement its handler is at: the caller's role (`CheckRole`), the target's
(`SeeTarget`), the write (`WriteMember`), or the list (`ListMembers`).  No transaction
holds them together.  `PanelEffect` is the effect that loads the list when the
workspace shown changes, and it is a conjunct of every step of the rest of the tab;
`Hear` takes an answer: a list replaces the one on screen, a change of role or a removal is
mended into it by hand.  Fault "panel" lets the panel be used, "rivals" the others.
Signing out unmounts the panel, so "panel" comes without "users".

`PanelTrue` (in `MembersOK`): if one thing is done after the other and by nobody else,
the panel without an error shows the members of the workspace on screen.
`MembersKept`: however the statements fall, the owner stays the owner, nobody becomes one
beside others, and a change of role that began before a removal does not undo it.
With rivals the tab may lose or gain a role without notice, which `SelectionFits`
excuses.

### 2.10 Player

`time`, `playing`, `speed` and `sound` are `playbackStore`; `loop` says that a frame
is requested; `video` and `audio[c]` are the media elements: source, position,
whether they play and how loud.  A change of any store renders, and then the
effects run: `VideoEffects`, `AudioEffects` and `LoopEffect` are conjuncts of every
action that changes something they name, with the dependencies of the code.
`OnScreen` is `clipAtTime`; `PictureFollows` says the same from the side of the
viewer (no visible clip covers it) and does not use it.  Frames are one unit
apart; seeks, edits and the transport fall between frames.

`PictureFollows` (in `PlayerOK`) and `OnlyHeardClips` relate the elements to the
stores, `PlaybackEnds` says that the end of the clips stops the loop.

### 2.11 Presence

The tab's side: `proj`, `show` and `conn` decide on the subscription `sub`; `list`
and `cursors` are `collabStore`; `view` is one clip as the tab shows it.  `Resubscribed`
is the clean-up and the new run of the effects of `usePresence` and `useOperationSync`;
`Heard` has the handlers bound to each event.  The other tabs' side: `Point`,
`PointAway` and `Seek` with the two throttles, `Edit` with its event.

`OpenProject` reads any project, the one on the screen included, as choosing it once more,
adding a track and archiving another one do; its answer is what the clip was when it was
read, and may come after an event of a later edit.  `lost` says why the last edit's event
was of no use: "outage", "away" (not subscribed), "offline", "own" (of another tab of this user), or
"reload" (such an answer came after it).  A client event may be lost (topic "loss":
`docs/collaboration-design.md:100` denies any guarantee), and `swallowed` are the tabs whose
playhead was lost when it was last told; rates are not counted, so a refusal for too many
events in a second is a loss at any time.

Pusher is not in the repository.  `joined`, `inbox` and the members are taken to be
what the hooks rely on: it knows the tabs that are subscribed, counts two tabs
of one user as one member, delivers in order, and forgets what is under way when
a subscription ends or the connection breaks; pusher-js asks for each channel
again after a reconnection.  Tokens expire from outside (`Expire`).

`RosterTrue` and `NoFreshGhosts` (in `PresenceOK`): the list, with what is under way, is
always the channel's members, and a pointer that came since the last list belongs to
somebody listed.  `PlayheadsNear`: the throttle itself never leaves a playhead 200 ms off;
a loss does, until the next event that arrives.  `StaleIsMissed`: a clip is stale only if
the event of its last edit was missed, skipped or written over for one of the reasons
above: no event that is handled leaves the clip old.  `PresenceSettles`: in the end the
tab is on its channel with its members, or it was refused; and then it lists nobody,
unless its connection broke: such a tab keeps the list it had, for good.

### 2.12 Workbench

The stores as one user handles them: `clips`, `effects`, `tracks` with their
snapshots (`undo`, `redo`), `selected`, `clipboard`, the history list (`entries`, `cursor`).
`drag` is the closure that `onClipMouseDown` or `makeTrimHandler` made: the clip's id
and place, the edges it may snap to, the rows.  `DragTo` and `TrimTo` use that and not
the stores' present state, while keys, answers, events and the role go on changing
them.  `Snap` is `snap` of `geometry.ts` with its candidates in order.  What the server
does with an edit is `Editor`'s subject: here an answer gives a clip its id, or a
refusal undoes what was done last, at any time.  `LoadProject` is an answer of `loadProjectFromApi`,
for this project or another, which replaces the clips and empties both stacks also in
the middle of a gesture; `ToggleTrack` pushes a snapshot (the flags it toggles are left out).
`above` counts the snapshots over the one that the mousedown pushed, -1 when that is gone.

`WorkbenchOK`: the list's marks lie behind its cursor (`HistoryMarks`), no gesture takes a
clip to a row of another type (`KeepsItsKind`).  `DragIsOneStep`: a gesture adds one
snapshot however often the mouse moves; over it lie only those of what else was done
meanwhile, and below those is what was there at mousedown, unless it was thrown away.
`SnapLineTrue`: a line that is drawn is an edge of the clip, where that still is.
`PasteKeepsShape`: a paste keeps the arrangement and begins at the playhead.

## 3. Runs

| Run | Instance | States | Shows |
|---|---|---|---|
| `ExportSlots` | 3 requests, limit 2, all 16 fault sets | 11 771 | the counter is exact, bounded, without phantoms and with a TTL under every leak |
| `WorkerQueue` | 3 messages, batches of 2, 2 workers, 2 crashes, threshold 1 | 785 092 | the pending list keeps what is unfinished, no silent drop, waiting entries are served |
| `QueueRedelivers` | 2 messages, 2 workers, 1 crash, threshold 3 | 2 282 | *violated*: what was not acknowledged is delivered again |
| `ExportJobs` | 2 jobs, limit 1, 1 worker, 1 crash, 5 fault sets | 759 452 | limit, release on every exit, final verdict, progress, `ExportLifecycle`; a verdict for every accepted job, slots come back |
| `Timeline` | 3 requests, 3 clip ids, 3 tracks, 1 asset, 1 watching tab, 11 calls, 4 fault sets | 628 373 | versions, splits, the watching tab |
| `Editor` | 4 edits of one clip of 3 units, 2 temporary and 3 server ids, `MaxUndo` 2, 4 fault sets | 1 807 695 | agreement with the server, ids, `UndoHistory` |
| `Assets` | a video (two variants) and an image, 2 workspaces, 2 clips, 1 crash, 2 lists in flight, pages of 2 or 1, 11 fault sets | 749 160 | what ready means, deletion against use, the polling tab |
| `Session` | 2 users, 2 sign-ins, 2 tabs, 2 calls and a sign-out, 2 expiries, 1 reload, 5 fault sets | 327 635 | whose tokens a tab holds, sign-out, the shared refresh |
| `Navigator` | 2 users in this tab (an admin, a viewer) and 2 others, 2 workspaces of which a third can be made, 3 projects and a new one, 3 clicks, 2 flows at a time, 7 fault sets; with the panel 3 uses of it by this tab or others and 1 click elsewhere | 1 131 120 | what is shown after each flow, the start, the members panel, admins at the same time |
| `Player` | 2 video tracks that overlap, 1 audio track, 3 clips, 3 user actions between any frames, 5 fault sets | 69 964 | picture, sound and the end of playback |
| `Presence` | 4 other tabs of 3 users (one of them this tab's), 2 projects, 3 actions, 13 topic sets | 1 486 716 | members, cursors, playheads, missed edits |
| `Workbench` | 2 clips 200 ms apart, 3 tracks, 2 temporary ids, 3 timelines to read, `MaxUndo` 3, 5 actions, 20 topic sets | 2 600 897 | drags, snapping, paste, the history list |

`QueueRedelivers` states what `worker/DESIGN.md:57-58` says: "the consumer just doesn't ACK, and
Redis re-delivers on the next `XREADGROUP`", and 142-143 of a second pod, that it "absorbs the
other's crash window".  TLC finds a message whose task failed once (or whose worker died) and
which nobody is ever handed again, although both workers run and Redis always answers.

**Bounds.**  Three requests with limit 2 are the least with one refused while two hold
slots, and leave room for one more INCR inside any gap between two commands of another;
the proofs of the same properties hold for any number. Three messages with batches of two
make a second read necessary.  Two jobs with limit 1 give a job that waits for the slot of
another; Redis and Postgres fail in different fault sets, because what they do to one job
is at different awaits, and their product is out of reach with the liveness checked.
Crashes are bounded by `MaxCrashes`.  Three requests on the timeline are a split, one
request that interferes with it and one that reads what came out; a clip of three units
can be split twice, and 400 ms is one unit, so every minimum is met exactly.  Four edits
(`MaxSteps`) and stacks of two let the undo stack overflow, a redo follow two undos, and a
split's answer meet a later edit. An upload with two variants has a stage between them
where a crash or a list may fall; two lists in flight can change places, and more add
nothing because each replaces the whole list (`PollBound` keeps it at one where the order
cannot differ).  Room for one on the page, with two assets, is the least that has one past
it. Two access-token epochs separate a token of before from one of after a sign-out. Two
flows can overtake each other at each await; a third click is the one that puts things
right.  In `Player` the clips overlap on screen and the marks are the edges, the gap and
the end.  In `Presence` one user has two tabs, because members are users and cursors come
from tabs.  In `Workbench` the gap between the clips is less than a snap's reach, so
several candidates compete; the timelines to be read are the first one, one with a clip
deleted and one added, and an empty one. Symmetry permutes requests or ids that no
constant tells apart, in runs without liveness.

**Fairness.**  Running processes make progress: a polled request sends its next
command, a spawned task is polled until it returns, the loop reads again, a dead
process is restarted (deployment policy), Redis expires keys.  In the browser:
calls that were sent are served and answered or fail (`Session`, `Navigator`,
`Assets`), the interval ticks while it is set, `requestAnimationFrame` calls back
(`Frame`), the effect of `App.tsx` runs, pusher-js reconnects and Pusher answers and
delivers (`PresenceFairness`).  Requests and clicks are never obliged to be made, and
faults and crashes never to happen.

**Deadlock** is not checked: once all requests are served nothing need happen.

## 4. Proofs

The theorems hold for every set of requests, messages, workers, users, tabs, clips and
assets and every value of the limits; the assumptions are those of the modules
(finite sets where something is counted, ids that are not taken for one another,
positive limits, known faults) and TLC evaluates them on every run.  Each `...Proofs`
module begins with the definitions of its inductive invariants, which TLC checked
before they were proved, goes on with lemmas on the model's operators and
one lemma per action, and ends with the theorems.

* `SlotLimitHolds`.  `CountExact` and `ConcurrencyBound` are not inductive
  alone.  The invariant `Exact` adds that nobody is resetting: an exact counter
  is at least the one slot that is being given back, so DECR never answers a
  negative number.  The bound then follows because `Take` compares an exact
  counter.  The steps use lemmas on how one request's step changes the
  cardinality of `Counted`.
* `SlotNoPhantoms`.  `NoPhantomSlots` is inductive with the types: each command
  changes the counter by no more than the number of counted requests; SET 0
  and the expiry only help.
* `SlotSafetyNet`.  Needs that an absent key reads 0 (`Net`).
* `SlotCorrect` puts these and the types together: it is the invariant that the
  run checks.
* `QueueCorrect`.  `UnfinishedIsPending` with the types, through every step of reader, task,
  crash and lost answer.
* `QueueDeliveredOnce`, `QueueNeverDeadLetters`, `QueueNoSilentDrop`.  `DeliveryInv`: everything
  delivered is at or before the group's position, and the position never passes the end of the
  stream.  The first two are what the code does where its documents have retries; the
  pipeline's theorems need the first.  The third follows with `DeadInDlq`.
* `JobsKeepSlots`, `JobsKeepQueue`.  Whatever a step of `ExportJobs` does with slots or
  stream is a step of `ExportSlots` or `WorkerQueue` or none, so the theorems on these
  two modules are instantiated for the composition and not proved again.
* `JobsCorrect`, `JobsVerdict`, `JobsProgress`.  `JobInv` says how the places that tell of one
  job go together: a task is at an await exactly when its message is being worked
  on, up to the release it holds the slot, its stage says what its row may be and how
  far the percentage is, and a message nobody has read keeps its request's slot.  It
  was checked by TLC first.  The limit follows because the tasks before their release
  are among the requests that the limiter has admitted; a verdict is final because no
  stage that writes the row comes after one that wrote a verdict, and what has been
  delivered once is not started again.
* `JobsLifecycle`.  Each step of `ExportJobs` is one of `ExportLifecycle` under `Work`, or
  changes nothing that shows.  `Admit` needs room for one more while the count lasts: the
  admitted are among the counted, and the counter is exact while the key does not expire.
* `TimelineVersions`.  `VersionIdentifiesRow` quantifies over all copies of a
  clip (table, handlers, log, events).  It is inductive with the types: a write
  adds one copy, one version above the table's, which is at least every copy's;
  an insert takes an id that no copy has.  `TimelineCorrect` is the run's invariant.
* `TimelineSplits`, `TimelineSplitsWhole`.  `SplitInv` keeps, for each split on its
  way, that the guard held of its original and that the left half is the original
  cut short when its version is the next one: with `TimelineVersions`, an equal
  version means nobody wrote the row in between.  The right half is computed
  from the original alone.  `HalfDoneInv` adds that the INSERT of a request that lives can
  only fail on a foreign key: the track or the asset it has read is gone.
* `TimelineSpectators`.  `WatchInv`: the events in a tab's queue lead from the clips it shows to
  those of the table, but for what the one request under way has written and not yet
  told (`Leads`, `Expects`).  The INSERT of a right half cannot fail while no other request
  deletes its track or its asset, so that a split that has cut the left half also tells of it.
  Deleted assets change no row that a tab is told of.  An event has at most two
  rows, so the fold over them is evaluated by writing its recursive function down.
* `AssetsUse`.  `UsedAssetsStay` is inductive with `CheckedIsUnused`: an asset whose SELECT
  found no use has only clips that were added since.
* `AssetsReady`.  `TaskOK` says of each task of the worker that what its kind needs is a row
  already or still in the task's list, so that the list is empty only when all is
  there.  Objects are never deleted (`delete_asset` leaves them), so a list that said
  ready stays good however old it is: `ListInv` says so of the lists in flight.
* `AssetsTabCatchesUp`.  In a calm behaviour an upload says what its row says
  (`UploadsTold`), what a list calls ready is ready or is about to be taken off by a
  deletion (`ListsFresh`), the newest list is of the workspace on screen (`ListsAtHome`), and
  what was uploaded there is on the last list on its way or, without one, on the tab's, or
  past the first page (`UploadsListed`), where it stays, because assets keep workspace and id
  (`OffPageStays`).
* `AssetsWellFormed`.  A list speaks of assets that exist (`KnownInv`), the task's list is an end
  of its recipe (`TodoInv`), and the lists in flight stay within the model's bound (`BoundInv`),
  which is only so if one at least is allowed: the proof asked for `MaxPolls` to be
  positive.
* `PlayerCorrect`, `PlayerHeard`.  An effect runs only when something it names has
  changed, so the proof has to show that what it does not look at has not changed either.
  `VideoInv` states it of the `<video>` element and is about `Source` and `Position`; that
  a topmost clip exists (`SomeClipOnTop`) and that the viewer sees it so (`InvPicture`) is
  proved apart.  The order of clips and tracks must be one: the proof asked for ids that
  occur once (`PlayerOrders`).
* `MembersStay`.  `KeptInv` says of each request what its last statement saw and what is
  left of it: a target once seen as no owner is none later (an owner is only made
  with the workspace), and a workspace not yet made has no members, and no request
  that writes to it.
* `SelectionsFit`.  `TabInv` is `KeptInv` with what holds of the tab: which calls a flow makes and
  what each answer is (`NavShape`), that a flow which is alone is of the user who is there
  (`AloneOnly`, `SoloInv`), that roles which were told are true unless rivals change them
  (`ToldTrue`, `MineTrue`), and how far a flow that is alone has brought the store (`AloneInv`:
  `Seen` for workspace and list, `Ranked` for the role).  Every step is first brought to one
  of a few forms that name each new value (`StepFormed`, `MembersFormed`), and the
  invariants are shown form by form.  `Sift`, the filter of the lists, is a recursive
  function; what it keeps is shown by a least position where it would not (`Upward`).
* `MembersCorrect`.  `AtRestFits` and `PanelTrue` are not inductive: between two awaits the
  store is ahead of its lists.  `CalmInv` says for each call of each flow what the store has by
  then and what the answer must be (`CalmMade`, `CalmShown`, `CalmDone`).  What can still be refused
  leaves the store as it was at rest; what comes after the first write cannot be refused
  (`CalmGranted`), since the role that it needs was checked or given by then.  `PanelInv` has at
  most one request of a user who waits: before its write the list on screen is true, after the
  write it is true once it is mended, and a list that was read is that of the workspace on screen,
  which no flow changes while the request is on its way (`WsStays`, `RestStill`).
* `EditorTypeCorrect`.  The types are inductive once a call of each kind is known
  to have the fields its handler reads (`GoodCalls`).  The caps need that both
  stacks together never exceed `MaxUndo`, which is stronger than each of them.
* `EditorUndoHistory`.  From that bound: `pushSnapshot` keeps the newest states
  and drops the redo stack (`PushIsEdit`); undo and redo do not cut the other
  stack, so the concatenation stays what it is (`SlideBack`, `SlideForth`); answers
  and events amend the state at the position (`AmendInPlace`).

* `EditorCorrect`, `EditorSettledAgrees`.  The argument is a chain of sets of clips: it
  begins with the server's clips under the ids that the tab has for them and ends with
  what the tab shows, and each call that the server has not served leads from
  one link to the next (`Chain`, `Effect`).  What a call does to the table and what the
  store did on screen when it was sent are the same step of the chain: an edit
  adds a link at the end (`SentCalls`), serving takes the first away (`ServedAndOver`,
  `ServedAndAnswered`), and an answer that brings the id of a clip renames it in every
  link (`AnswerHeard`).  When no call is left the chain has one link, which is
  `SettledAgrees`; `OneClipPerId` and `TmpIsPending` hold of every link.  For the calm user, whose
  splits may be refused, `CalmInv` says that the snapshot a rollback will take and a
  timeline that was loaded are the server's, and `InboxInv` that the one event under way is the
  whole difference.
* `SessionActsAsUser`, `SessionLogout`.  `SessionInv` says of every refresh on its way whose
  token it carries, and of every access token from which sign-in and epoch it can be; the
  sign-in that falls into an unanswered refresh is the one way in which the two part.
* `PresenceListsMembers`, `PresencePlayheads`, `PresenceMissesEvents`.  The list, amended
  by what is in the inbox, is Pusher's membership (`RosterInv`), pointers and playheads
  belong to those who are listed or about to be (`GhostsOK`, `HeadsOK`), and the clip on
  screen is as old as the last of its events that was heard (`EditsOK`).  The attempt to
  prove `PlayheadsNear` showed that its former condition was too weak: after a broken
  connection a playhead may be the one of long ago, until the next comes.  A lost one is
  treated alike: it is left out until the tab tells again.  An answer that writes over an
  event makes "reload" the reason, which `EditsOK` carries from the reading to the answer.
* `WorkbenchCorrect`, `WorkbenchDrag`, `WorkbenchSnap`, `WorkbenchPaste`.  `WorkbenchInv`
  covers every snapshot, since undo makes any of them the picture: clips long enough, on
  rows of their type, under ids that were given out once (`PictureInv`, `StacksInv`,
  `IdInv`).  `DragInv` ties the closure of a gesture to the snapshot taken at mousedown,
  which is `above` others in the stack whatever is pushed, undone or thrown away
  (`SinkKeeps`), through answers that rename the clip; `HistInv` the marks to the cursor;
  `LineInv` the line to an edge: `Snap` tries the start of the clip first, and where the
  position is cut off at zero the line is still at one of its edges.  A paste is a
  bijection of the clipboard with the new clips, all moved by one distance
  (`ShiftedShape`).

`EditorUndoHistory` and `JobsLifecycle` are refinements proved for every value of the
constants.
Liveness (fairness, `ENABLED`) is out of the prover's reach and is model-checked
only: `SaturationEnds`, `WaitingIsServed`, `AcceptedGetsVerdict`, `SlotsReturn`,
`ShownInTheEnd`, `NobodyWaits`,
`EditorComesUp`, `PlaybackEnds`, `PresenceSettles`.  Every other property of the
passing runs is stated by a theorem.

## 5. Where code and documents disagree

Found while modelling; the lines of the code come first, what is said of them after.
All of it is what the code does, in one tab or one process unless stated.  The redelivery
that does not happen is kept as a run (`QueueRedelivers`); the others follow from a few steps
of the module named, and the properties of the passing runs are stated so that they
do not claim the opposite.

* **Queue and exports.**  A request that is dropped between INCR and EXPIRE leaves a
  counter without TTL, for ever (`rate_limit/mod.rs:175`; lines 10-11 and
  `README.md:223` call the TTL the safety net of a leaked counter).  A failed message
  stays pending and is delivered to nobody, so the retries never happen and the
  threshold of 3 is never reached (`queue.rs:83`; `worker/DESIGN.md:49-59`).  When S3 or
  Postgres fails the slot is given back while the row stays `processing`
  (`export_pipeline.rs:177`, `224`, `333`; `exports/handlers.rs:93-95`).  The group starts at
  `$`, so messages published before the first worker ran are never delivered
  (`DESIGN.md:34` and `138` say at least once); a crashed consumer's entries are taken over
  by nobody (`DESIGN.md:142-143`); `WORKER_CONCURRENCY` is never used and tasks are spawned
  without bound (`queue.rs:95`; `DESIGN.md:113`); the counter may be negative
  (`rate_limit/mod.rs:84`); `check_upload` counts before it tests (`rate_limit/mod.rs:129`);
  an UPDATE of the upload ticker that Postgres received before `abort()` may be
  executed after the final one, and a done job shows 97-99 % (`export_pipeline.rs:308`; 299-301
  say that the final UPDATE jumps straight to 100).
* **Timeline.**  A split is two statements without a transaction: it can end with the left
  half shortened and no right one, when the request dies or the track or asset goes in
  between (`handlers.rs:281-303`; `backend/DESIGN.md:96` calls it one atomic UPDATE).
  Replaying the operation log does not give the clips: deletes and splits are not logged
  (`timeline/handlers.rs:240`; `docs/collaboration-design.md:97-98` has a complete
  journal).  `update_clip` writes back the track it has read, so a resize that races with
  a move to another track undoes the move (`handlers.rs:194`); the right half of a split
  loses the clip's `speed` (`handlers.rs:296`).
* **Editor.**  A split after an undone move may give two clips one id: the answer's
  right half is the one whose position differs (`projectStore.ts:666`; 658-660).  Events
  are not ordered by `server_seq` (`frontend/DESIGN.md:161` says last-write-wins by it).
  A move of a clip with a temporary id is never sent (`projectStore.ts:545-546` says
  the promise "will land first").  A split that fails takes back whatever edit is
  latest (`projectStore.ts:689`).  A drag of the left handle past the minimal length
  moves the right edge (`Timeline.tsx:214` says it is pinned), and changes no in-point.
* **Assets.**  A failed upload or transcoding is never `error` and is polled for ever
  (`useAssetsHydration.ts:10` says it stops), and the pill knows `failed`, which no one
  writes.  An asset past the first 40 is not in the store, so the polling stops while it
  is still in processing (`assets/handlers.rs:34`; `useAssetsHydration.ts:9-10` says once
  every asset is ready).  A list of another workspace that comes late is shown
  (`assetsStore.ts:58`), and `reset`, "call on logout / workspace switch" (line 37), is
  never called.  A clip added between `delete_asset`'s two statements ends without its
  asset (`assets/handlers.rs:229`).  An asset without a duration makes a clip of 4 s.
* **Session.**  A refresh that answers after a sign-out and the sign-in of another user
  puts the old token into the new session, or clears it (`authStore.ts:93-100`); a
  network error in a refresh signs out (98).  A `set` in one tab rewrites the storage
  and brings back a session that another tab has ended.  The comment at 87-89
  speaks of refresh tokens that are exchanged; the backend does not rotate them.
* **Navigator.**  After a sign-out the next user sees the project, lists and role of the
  user before, and to choose a workspace takes the role from the old list
  (`projectStore.ts:242`).  Of two overlapping flows the last answer wins (399).  A
  workspace without projects leaves the old project on screen.  A start that fails
  leaves the role `editor` with the mock.  Archiving a project that is not shown
  switches away from the one that is (338).  A late PATCH renames whatever project is
  shown by then.  Only the first page of a list is ever read.
* **Members.**  An invitation is stored with a token, and nothing sends, reads or accepts it
  (`workspaces/mod.rs:271`), so that nobody joins.  An admin who is removed between two
  statements of a request still completes it (`mod.rs:303`).  A list of another
  workspace that comes late is shown, and a list is mended by hand whatever workspace it
  is of (`MembersPanel.tsx:74`, `104`, `116`).
* **Player.**  A frame without a project ends the loop and leaves `isPlaying` set, so the
  next press of the button pauses nothing (`usePlaybackTicker.ts:39`).  Volume and mute
  are not applied to an element made after they changed, and after a load error the next
  clip's element stays paused (`VideoPlayer.tsx:81-101`).  A proxy that comes late starts
  at 0 and out of step, and the mixer does not see it until the next change.  Seeks are
  not clamped at the end (`playbackStore.ts:20`); the speed is not the elements'
  `playbackRate`.
* **Presence.**  What was missed while off the channel is never asked for, although the
  backend offers it (`collaboration/handlers.rs:3-8`; `frontend/DESIGN.md:169` says that
  the client replays it on a reconnection).  Edits of the user's own other tabs are
  skipped like one's own (`useOperationSync.ts:85`; line 83 speaks of this browser tab).
  A project that is read again shows what it was when it was read, over the events that
  came since.  Cursors survive another project, the Collab button and a reconnection; the
  leaving of the pointer may fall into the throttle, and the cursor stays.  Either of the
  "two guards" of the playhead lets an event pass, so that nothing caps the rate
  (`useCursorBroadcast.ts:86`; 78 says that 500 ms do), and the viewport's 60 ms are more
  than the 10 per second its comment names (`useViewportCursorBroadcast.ts:30-31`).  A
  signature refused for an expired token is not asked for again, and after a broken
  connection the old list stays on the screen for good; `disconnectPusher`, "call on
  logout", is never called.
* **Workbench.**  A timeline that is read during a drag empties the undo stack, so that
  nothing undoes the drag (`projectStore.ts:464`; `Timeline.tsx:117` says that it is one
  undo step).  A click on the history list moves its marks and no clip
  (`HistoryPanel.tsx:15` says "time-travel"); the list begins with the mock's entries, and
  its cursor is not in step with the undo stack: a press without a move pushes a snapshot
  and no entry, splits, deletes and pastes as well.  A paste is one undo step per clip,
  starts at in-point 0 (`projectStore.ts:760`), and its selection is lost as soon as the
  server's ids arrive (770-771 says it stays).  A drag of a clip whose temporary id is
  replaced goes dead, and so do selection and effects under the old id.  The keyboard
  edits whatever the role (`usePermissions.ts:11-13`).  The answer of a split sets back a
  duration trimmed meanwhile; a track's or a split's refusal undoes what was done last.
  `updateEffect` takes no snapshot; effects are never sent.

## 6. What is not modelled, and the plan

Not modelled by design: rendering, styling, the mock data and the documents'
prototype; signatures, hashing and encryption; ffmpeg and the S3 client beyond
their outcomes; the layout of ffmpeg's filter graph; deployment.

Not modelled because the frontend never calls it, so that there is no interaction to
check: `duplicate_project`, pages of a list after the first, `list_operations` and
`CommandManager`.  Not modelled either: how many client events a tab sends in a second,
and a second PATCH to `processing` by somebody else.  The usage counters that the top bar
polls only read sums. The hourly upload window is a counter that is never decremented, and
its INCR and EXPIRE are those of `ExportSlots`.

Inside the modelled parts: columns nothing computes with, a track's name, lock and
colour, the wording of toasts and dialogs.  Effects are kept by the frontend only,
so `Timeline` has none.

The agreement of modules that share a boundary rests on reading them together: `Editor`
serves a call in one step where `Timeline` has one per statement; `Workbench`
leaves out what is sent, which `Editor` has; `Assets` takes single delivery from
`WorkerQueue`; `Navigator` and `Session` each have a sign-in of their own.

What is left to do: one composition of `Editor` with `Timeline` for two tabs that
both edit.
