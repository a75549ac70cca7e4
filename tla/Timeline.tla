------------------------------ MODULE Timeline ------------------------------
(***************************************************************************)
(* The clips of one project as the server keeps them                       *)
(* (backend/src/timeline/handlers.rs), the operation log, the events on    *)
(* the project's Pusher channel, and the tabs that only watch              *)
(* (frontend/src/collaboration/useOperationSync.ts).                       *)
(*                                                                         *)
(* No handler opens a transaction: every SQL statement, the log's INSERT   *)
(* and the call of Pusher are steps of their own, and the requests of all  *)
(* the editors interleave.  A request that fails, or whose future is       *)
(* dropped, leaves behind the statements it has executed.                  *)
(*                                                                         *)
(* The clips refer to the rows of assets, which another tab may delete     *)
(* meanwhile (delete_asset, backend/src/assets/handlers.rs).               *)
(*                                                                         *)
(* The role check at the head of each handler is left out; so are the      *)
(* columns of a clip that no handler computes with.                        *)
(***************************************************************************)
EXTENDS Integers, FiniteSets, Sequences, SequencesExt

CONSTANTS
    Requests,       \* the HTTP requests, each served once
    Calls,          \* what they may ask for
    ClipIds, Tracks, Viewers,
    AssetIds,       \* the assets there are in the beginning
    InitialTracks, InitialClips, InitialAssetOf,
    MinDur,         \* 400 ms
    FaultSets,      \* the sets of faults that may come together
    None            \* an absent optional field

(***************************************************************************)
(* "overlap"  several requests are in flight at a time                     *)
(* "abort"    a statement fails, or the request's future is dropped        *)
(* "nolog"    the INSERT into operation_logs fails                         *)
(* "lost"     Pusher drops an event                                        *)
(* "reload"   a tab loads the project again                                *)
(***************************************************************************)
FaultKinds == {"overlap", "abort", "nolog", "lost", "reload"}

Ops == {"none", "add_clip", "update_clip", "delete_clip", "split_clip",
        "create_track", "delete_track", "delete_asset"}

\* A row of clips but for asset_id, which changes without its version.
Row == [id : ClipIds, track : Tracks, pos : Nat, dur : Nat, trimIn : Nat, version : Nat]

\* The path parameter and the body of a request.
Call == [op : Ops, clip : ClipIds \cup {None}, track : Tracks \cup {None},
         pos : Int \cup {None}, dur : Int \cup {None}, trimIn : Int \cup {None}, at : Int \cup {None},
         asset : AssetIds \cup {None}]

NoCall == [op |-> "none", clip |-> None, track |-> None, pos |-> None, dur |-> None,
           trimIn |-> None, at |-> None, asset |-> None]

WellFormed(k) ==
    /\ k \in Call
    /\ k.op # "none"
    /\ k.op = "add_clip" => k.pos \in Nat /\ k.dur \in Nat /\ k.dur >= MinDur
    /\ k.op = "split_clip" => k.at # None
    /\ k.op \in {"add_clip", "delete_track"} => k.track # None
    /\ k.op = "delete_asset" => k.asset # None
    /\ k.op \in {"update_clip", "delete_clip", "split_clip"} => k.clip # None

ASSUME MinDurPositive == MinDur \in Nat \ {0}
ASSUME NoneIsNoValue == None \notin Int /\ None \notin Tracks \cup ClipIds \cup AssetIds
ASSUME CallsWellFormed == \A k \in Calls : WellFormed(k)
ASSUME TimelineFaultsKnown == FaultSets \subseteq SUBSET FaultKinds
ASSUME InitialClipsIsFunction == InitialClips = [c \in DOMAIN InitialClips |-> InitialClips[c]]
ASSUME InitialTimeline ==
    /\ InitialTracks \subseteq Tracks
    /\ DOMAIN InitialClips \subseteq ClipIds
    /\ \A c \in DOMAIN InitialClips :
        /\ InitialClips[c] \in Row
        /\ InitialClips[c].id = c
        /\ InitialClips[c].dur >= MinDur
        /\ InitialClips[c].track \in InitialTracks
    /\ InitialAssetOf \in [ClipIds -> AssetIds \cup {None}]

VARIABLES
    tracks,     \* [Tracks -> {"unused", "live", "deleted"}]: the table tracks
    clips,      \* the table clips: a function on the ids that exist
    assets,     \* the table assets: the ids that exist
    assetOf,    \* the column asset_id of clips
    unused,     \* the ids gen_random_uuid() has not given out
    pc,         \* the await each request is at
    call,       \* what it asks for
    readTrack,  \* the track_id that clip_project_track answered
    readAsset,  \* the asset_id of split_clip's original
    rows,       \* the rows the handler holds in its locals, oldest first
    log,        \* operation_logs, by id
    queue,      \* the events on their way to each tab
    view,       \* the clips each tab shows
    answer,     \* the timeline a tab has been sent and has not shown yet
    faults      \* what may go wrong in this behaviour; it never changes

tableVars == <<tracks, clips, unused, assets, assetOf>>
handlerVars == <<pc, call, readTrack, readAsset, rows>>
viewerVars == <<view, answer>>
timelineVars == <<tableVars, handlerVars, log, queue, viewerVars>>
allVars == <<timelineVars, faults>>

\* get_timeline's clips, and an event's, as applyRemoteClipUpsert shows them.
AtLeast(low, x) == IF x < low THEN low ELSE x
Shown(row) == [track |-> row.track, pos |-> row.pos, dur |-> AtLeast(MinDur, row.dur),
               trimIn |-> row.trimIn]
Show(table) == [c \in DOMAIN table |-> Shown(table[c])]

TimelineInit ==
    /\ tracks = [t \in Tracks |-> IF t \in InitialTracks THEN "live" ELSE "unused"]
    /\ clips = InitialClips
    /\ assets = AssetIds
    /\ assetOf = InitialAssetOf
    /\ unused = ClipIds \ DOMAIN InitialClips
    /\ pc = [r \in Requests |-> "idle"]
    /\ call = [r \in Requests |-> NoCall]
    /\ readTrack = [r \in Requests |-> None]
    /\ readAsset = [r \in Requests |-> None]
    /\ rows = [r \in Requests |-> <<>>]
    /\ log = <<>>
    /\ queue = [v \in Viewers |-> <<>>]
    /\ view = [v \in Viewers |-> Show(InitialClips)]
    /\ answer = [v \in Viewers |-> <<>>]
    /\ faults \in FaultSets

Ended == {"idle", "done", "failed"}
GoTo(r, where) == pc' = [pc EXCEPT ![r] = where]
Hold(r, row) == rows' = [rows EXCEPT ![r] = Append(@, row)]
Fail(r) == GoTo(r, "failed") /\ UNCHANGED <<tableVars, rows>>

\* INSERT and UPDATE of one row, with the foreign key on tracks and the CHECKs
\* on dur_ms and trim_in_ms; an INSERT also meets the one on assets.
Exists(asset) == asset \in assets \cup {None}
Fits(row) == tracks[row.track] = "live" /\ row.dur >= MinDur /\ row.trimIn >= 0
Put(row) == clips' = [c \in DOMAIN clips \cup {row.id} |-> IF c = row.id THEN row ELSE clips[c]]
Insert(r, row, asset) ==
    /\ Put(row)
    /\ assetOf' = [assetOf EXCEPT ![row.id] = asset]
    /\ unused' = unused \ {row.id}
    /\ Hold(r, row)
    /\ UNCHANGED <<tracks, assets>>

-----------------------------------------------------------------------------
(* Requests                                                                 *)

Start(r) ==
    /\ pc[r] = "idle"
    /\ "overlap" \in faults \/ \A q \in Requests : pc[q] \in Ended
    /\ \E k \in Calls : call' = [call EXCEPT ![r] = k]
    /\ GoTo(r, "lookup")
    /\ UNCHANGED <<tableVars, readTrack, readAsset, rows, log, queue, viewerVars>>

\* track_project_id, clip_project_track or delete_asset's first SELECT: 404 when
\* the track, clip or asset is gone.
Lookup(r) ==
    LET k == call[r] IN
    /\ pc[r] = "lookup"
    /\ \/ /\ k.op \in {"add_clip", "delete_track"}
          /\ GoTo(r, IF tracks[k.track] = "live" THEN "write" ELSE "failed")
          /\ UNCHANGED readTrack
       \/ /\ k.op = "create_track"
          /\ GoTo(r, "write")
          /\ UNCHANGED readTrack
       \/ /\ k.op = "delete_asset"
          /\ GoTo(r, IF k.asset \in assets THEN "check" ELSE "failed")
          /\ UNCHANGED readTrack
       \/ /\ k.op \in {"update_clip", "delete_clip", "split_clip"}
          /\ IF k.clip \in DOMAIN clips
             THEN /\ readTrack' = [readTrack EXCEPT ![r] = clips[k.clip].track]
                  /\ GoTo(r, IF k.op = "split_clip" THEN "fetch" ELSE "write")
             ELSE GoTo(r, "failed") /\ UNCHANGED readTrack
    /\ UNCHANGED <<tableVars, call, readAsset, rows, log, queue, viewerVars>>

Added(k, c) ==
    [id |-> c, track |-> k.track, pos |-> AtLeast(0, k.pos), dur |-> AtLeast(MinDur, k.dur),
     trimIn |-> 0, version |-> 0]

AddClip(r) ==
    LET k == call[r] IN
    /\ pc[r] = "write" /\ k.op = "add_clip"
    /\ IF tracks[k.track] = "live" /\ Exists(k.asset)
       THEN /\ GoTo(r, "log")
            /\ \E c \in unused : Insert(r, Added(k, c), k.asset)
       ELSE Fail(r)
    /\ UNCHANGED <<call, readTrack, readAsset, log, queue, viewerVars>>

\* Mutation of Updated: the counter is left alone.
UpdatedUncounted(r) ==
    LET k == call[r]
        old == clips[k.clip]
        Or(x, y) == IF x = None THEN y ELSE x
    IN [id |-> old.id, track |-> Or(k.track, readTrack[r]),
        pos |-> AtLeast(0, Or(k.pos, old.pos)), dur |-> AtLeast(MinDur, Or(k.dur, old.dur)),
        trimIn |-> Or(k.trimIn, old.trimIn), version |-> old.version]

\* COALESCE of each column with the request's field; the track is the one that
\* Lookup read when the request names none.
Updated(r) ==
    LET k == call[r]
        old == clips[k.clip]
        Or(x, y) == IF x = None THEN y ELSE x
    IN [id |-> old.id, track |-> Or(k.track, readTrack[r]),
        pos |-> AtLeast(0, Or(k.pos, old.pos)), dur |-> AtLeast(MinDur, Or(k.dur, old.dur)),
        trimIn |-> Or(k.trimIn, old.trimIn), version |-> old.version + 1]

UpdateClip(r) ==
    LET k == call[r] IN
    /\ pc[r] = "write" /\ k.op = "update_clip"
    /\ IF k.clip \in DOMAIN clips /\ Fits(Updated(r))
       THEN /\ GoTo(r, "log")
            /\ Put(Updated(r))
            /\ Hold(r, Updated(r))
            /\ UNCHANGED <<tracks, unused, assets, assetOf>>
       ELSE Fail(r)
    /\ UNCHANGED <<call, readTrack, readAsset, log, queue, viewerVars>>

\* A DELETE of no row is a success; there is no entry in the log.
DeleteClip(r) ==
    /\ pc[r] = "write" /\ call[r].op = "delete_clip"
    /\ clips' = [c \in DOMAIN clips \ {call[r].clip} |-> clips[c]]
    /\ assetOf' = [assetOf EXCEPT ![call[r].clip] = None]
    /\ GoTo(r, "publish")
    /\ UNCHANGED <<tracks, unused, assets, call, readTrack, readAsset, rows, log, queue, viewerVars>>

-----------------------------------------------------------------------------
(* split_clip: rows[r] is <<original>>, then <<original, left>>, then       *)
(* <<original, left, right>>.                                               *)

\* Mutation of SplitAllowed: the right half is not looked at.
SplitAllowedLeftOnly(original, at) == at >= MinDur /\ at <= original.dur

SplitAllowed(original, at) == at >= MinDur /\ at <= original.dur - MinDur

FetchOriginal(r) ==
    LET k == call[r] IN
    /\ pc[r] = "fetch"
    /\ IF k.clip \in DOMAIN clips /\ SplitAllowed(clips[k.clip], k.at)
       THEN /\ GoTo(r, "shorten")
            /\ Hold(r, clips[k.clip])
            /\ readAsset' = [readAsset EXCEPT ![r] = assetOf[k.clip]]
            /\ UNCHANGED tableVars
       ELSE Fail(r) /\ UNCHANGED readAsset
    /\ UNCHANGED <<call, readTrack, log, queue, viewerVars>>

Shortened(row, at) ==
    [id |-> row.id, track |-> row.track, pos |-> row.pos, dur |-> at,
     trimIn |-> row.trimIn, version |-> row.version + 1]

ShortenLeft(r) ==
    LET k == call[r]
        left == Shortened(clips[k.clip], k.at)
    IN
    /\ pc[r] = "shorten"
    /\ IF k.clip \in DOMAIN clips
       THEN /\ GoTo(r, "insert")
            /\ Put(left)
            /\ Hold(r, left)
            /\ UNCHANGED <<tracks, unused, assets, assetOf>>
       ELSE Fail(r)
    /\ UNCHANGED <<call, readTrack, readAsset, log, queue, viewerVars>>

\* Mutation of RightHalf: it plays the source from the original's start.
RightHalfReplays(original, at, c) ==
    [id |-> c, track |-> original.track, pos |-> original.pos + at,
     dur |-> original.dur - at, trimIn |-> original.trimIn, version |-> 0]

RightHalf(original, at, c) ==
    [id |-> c, track |-> original.track, pos |-> original.pos + at,
     dur |-> original.dur - at, trimIn |-> original.trimIn + at, version |-> 0]

InsertRight(r) ==
    LET Right(c) == RightHalf(rows[r][1], call[r].at, c) IN
    /\ pc[r] = "insert"
    /\ \E c \in unused :
            IF Fits(Right(c)) /\ Exists(readAsset[r])
            THEN Insert(r, Right(c), readAsset[r]) /\ GoTo(r, "publish")
            ELSE Fail(r)
    /\ UNCHANGED <<call, readTrack, readAsset, log, queue, viewerVars>>

-----------------------------------------------------------------------------
(* Tracks and assets: neither logged nor published                          *)

CreateTrack(r) ==
    /\ pc[r] = "write" /\ call[r].op = "create_track"
    /\ \E t \in Tracks : tracks[t] = "unused" /\ tracks' = [tracks EXCEPT ![t] = "live"]
    /\ GoTo(r, "done")
    /\ UNCHANGED <<clips, unused, assets, assetOf, call, readTrack, readAsset, rows, log, queue, viewerVars>>

\* ON DELETE CASCADE takes the track's clips along.
DeleteTrack(r) ==
    LET t == call[r].track IN
    /\ pc[r] = "write" /\ call[r].op = "delete_track"
    /\ tracks' = IF tracks[t] = "live" THEN [tracks EXCEPT ![t] = "deleted"] ELSE tracks
    /\ clips' = [c \in {d \in DOMAIN clips : clips[d].track # t} |-> clips[c]]
    /\ assetOf' = [c \in ClipIds |-> IF c \in DOMAIN clips' THEN assetOf[c] ELSE None]
    /\ GoTo(r, "done")
    /\ UNCHANGED <<unused, assets, call, readTrack, readAsset, rows, log, queue, viewerVars>>

\* delete_asset: 409 while a clip uses the asset, ...
CheckUse(r) ==
    /\ pc[r] = "check"
    /\ GoTo(r, IF \E c \in DOMAIN clips : assetOf[c] = call[r].asset THEN "failed" ELSE "write")
    /\ UNCHANGED <<tableVars, call, readTrack, readAsset, rows, log, queue, viewerVars>>

\* ... and the DELETE, with ON DELETE SET NULL for the clips that came since.
DeleteAsset(r) ==
    LET gone == call[r].asset IN
    /\ pc[r] = "write" /\ call[r].op = "delete_asset"
    /\ assets' = assets \ {gone}
    /\ assetOf' = [c \in ClipIds |-> IF assetOf[c] = gone THEN None ELSE assetOf[c]]
    /\ GoTo(r, "done")
    /\ UNCHANGED <<tracks, clips, unused, call, readTrack, readAsset, rows, log, queue, viewerVars>>

-----------------------------------------------------------------------------
(* Log and events                                                           *)

\* log_operation: add_clip and update_clip only; its failure is ignored.
LogOperation(r) ==
    /\ pc[r] = "log"
    /\ \/ log' = Append(log, [op |-> call[r].op, row |-> Last(rows[r])])
       \/ "nolog" \in faults /\ UNCHANGED log
    /\ GoTo(r, "publish")
    /\ UNCHANGED <<tableVars, call, readTrack, readAsset, rows, queue, viewerVars>>

\* Mutation of Event: clip:split carries the clip as it was before.
EventOriginal(r) ==
    [gone |-> IF call[r].op = "delete_clip" THEN call[r].clip ELSE None,
     rows |-> IF call[r].op = "split_clip" THEN <<rows[r][1], Last(rows[r])>> ELSE rows[r]]

\* clip:added and clip:updated carry the row, clip:split both halves,
\* clip:deleted the id.
Event(r) ==
    [gone |-> IF call[r].op = "delete_clip" THEN call[r].clip ELSE None,
     rows |-> IF call[r].op = "split_clip" THEN Tail(rows[r]) ELSE rows[r]]

\* publish_project_event: its errors are swallowed, each tab may miss it.
PublishEvent(r) ==
    /\ pc[r] = "publish"
    /\ \E missed \in SUBSET Viewers :
        /\ missed = {} \/ "lost" \in faults
        /\ queue' = [v \in Viewers |-> IF v \in missed THEN queue[v] ELSE Append(queue[v], Event(r))]
    /\ GoTo(r, "done")
    /\ UNCHANGED <<tableVars, call, readTrack, readAsset, rows, log, viewerVars>>

\* Any await may be the last one.
Abort(r) ==
    /\ "abort" \in faults
    /\ pc[r] \notin Ended
    /\ GoTo(r, "failed")
    /\ UNCHANGED <<tableVars, call, readTrack, readAsset, rows, log, queue, viewerVars>>

-----------------------------------------------------------------------------
(* A watching tab                                                           *)

\* applyRemoteClipUpsert: replaces the clip or appends it, whatever came before.
ApplyRemoteClipUpsert(shown, row) ==
    [c \in DOMAIN shown \cup {row.id} |-> IF c = row.id THEN Shown(row) ELSE shown[c]]

ApplyRemoteClipDelete(shown, gone) == [c \in DOMAIN shown \ {gone} |-> shown[c]]

Receive(v) ==
    LET event == Head(queue[v]) IN
    /\ queue[v] # <<>>
    /\ view' = [view EXCEPT ![v] =
            FoldLeft(ApplyRemoteClipUpsert, ApplyRemoteClipDelete(@, event.gone), event.rows)]
    /\ queue' = [queue EXCEPT ![v] = Tail(@)]
    /\ UNCHANGED <<tableVars, handlerVars, log, answer>>

\* loadProjectFromApi: the server reads the clips, and the tab shows them
\* when the answer is there, whatever it has received in between.
AskTimeline(v) ==
    /\ "reload" \in faults
    /\ answer[v] = <<>>
    /\ answer' = [answer EXCEPT ![v] = <<Show(clips)>>]
    /\ UNCHANGED <<tableVars, handlerVars, log, queue, view>>

ShowTimeline(v) ==
    /\ answer[v] # <<>>
    /\ view' = [view EXCEPT ![v] = Head(answer[v])]
    /\ answer' = [answer EXCEPT ![v] = <<>>]
    /\ UNCHANGED <<tableVars, handlerVars, log, queue>>

-----------------------------------------------------------------------------

TimelineNext ==
    /\ \/ \E r \in Requests :
            \/ Start(r) \/ Lookup(r)
            \/ AddClip(r) \/ UpdateClip(r) \/ DeleteClip(r)
            \/ FetchOriginal(r) \/ ShortenLeft(r) \/ InsertRight(r)
            \/ CreateTrack(r) \/ DeleteTrack(r)
            \/ CheckUse(r) \/ DeleteAsset(r)
            \/ LogOperation(r) \/ PublishEvent(r) \/ Abort(r)
       \/ \E v \in Viewers : Receive(v) \/ AskTimeline(v) \/ ShowTimeline(v)
    /\ UNCHANGED faults

TimelineSpec == TimelineInit /\ [][TimelineNext]_allVars

-----------------------------------------------------------------------------
(* Properties                                                               *)

\* The state of the tables, the handlers, the log and the channel is well formed.
TimelineTypeOK ==
    /\ tracks \in [Tracks -> {"unused", "live", "deleted"}]
    /\ unused \subseteq ClipIds
    /\ DOMAIN clips \subseteq ClipIds \ unused
    /\ clips \in [DOMAIN clips -> Row]
    /\ \A c \in DOMAIN clips : clips[c].id = c
    /\ assets \subseteq AssetIds
    /\ assetOf \in [ClipIds -> assets \cup {None}]
    /\ pc \in [Requests -> Ended \cup {"lookup", "check", "write", "fetch", "shorten", "insert",
                                     "log", "publish"}]
    /\ call \in [Requests -> Calls \cup {NoCall}]
    /\ readTrack \in [Requests -> Tracks \cup {None}]
    /\ readAsset \in [Requests -> AssetIds \cup {None}]
    /\ rows \in [Requests -> Seq(Row)]
    /\ log \in Seq([op : Ops, row : Row])
    /\ queue \in [Viewers -> Seq([gone : ClipIds \cup {None}, rows : Seq(Row)])]
    /\ faults \in FaultSets

\* The rows in the events of a queue.
EventRows(q) == UNION {ToSet(q[i].rows) : i \in DOMAIN q}

\* Every copy of a row: in the table, in a handler, in the log, in an event.
TableRows == {clips[c] : c \in DOMAIN clips}
HeldRows == UNION {ToSet(rows[r]) : r \in Requests}
LoggedRows == {log[i].row : i \in DOMAIN log}
QueuedRows == UNION {EventRows(queue[v]) : v \in Viewers}
Copies == TableRows \cup HeldRows \cup LoggedRows \cup QueuedRows

\* The version tells the states of a clip apart, whoever races with whom: two
\* copies of a clip with the same version are the same row, none is newer than
\* the table's (so nothing is logged or published before it is committed), and
\* no copy has an id that can still be given out.  It is what makes the column
\* fit to detect stale writes ("optimistic-lock counter", 0001_init.sql:149).
\* A Row is without asset_id: ON DELETE SET NULL changes that column and leaves
\* the version alone.
VersionIdentifiesRow ==
    /\ \A a, b \in Copies : a.id = b.id /\ a.version = b.version => a = b
    /\ \A a \in Copies :
        /\ a.id \notin unused
        /\ a.id \in DOMAIN clips => a.version <= clips[a.id].version

\* Types, and versions that tell the rows apart.
TimelineOK == TimelineTypeOK /\ VersionIdentifiesRow

\* When nobody else wrote the clip between split_clip's SELECT and its UPDATE
\* (the version says so), the halves are the original cut in two: next to each
\* other on its track and in the source, none shorter than MinDur.
SplitHalvesMeet ==
    \A r \in Requests :
        LET original == rows[r][1]
            left == rows[r][2]
            right == rows[r][3]
        IN (call[r].op = "split_clip" /\ Len(rows[r]) = 3 /\ left.version = original.version + 1)
            => /\ left.track = original.track /\ right.track = original.track
               /\ left.pos = original.pos /\ right.pos = left.pos + left.dur
               /\ left.trimIn = original.trimIn /\ right.trimIn = left.trimIn + left.dur
               /\ left.dur + right.dur = original.dur
               /\ left.dur >= MinDur /\ right.dur >= MinDur

\* split_clip's guard is as strict as the CHECK on dur_ms, also for an original
\* that is out of date: the INSERT of the right half does not fail once the left
\* one is shortened, unless the database fails, the request is dropped, or what
\* the original referred to, its track or its asset, was deleted meanwhile.
SplitAllOrNothing ==
    \A r \in Requests :
        (call[r].op = "split_clip" /\ pc[r] = "failed" /\ Len(rows[r]) = 2)
            => \/ "abort" \in faults
               \/ tracks[rows[r][1].track] # "live"
               \/ ~ Exists(readAsset[r])

Quiet ==
    /\ \A r \in Requests : pc[r] \in Ended
    /\ \A v \in Viewers : queue[v] = <<>> /\ answer[v] = <<>>

\* What a tab that only watches shows is what the server has (asset_id apart), when
\* the requests come one after the other, no event is lost, no request dies and no
\* track is deleted (delete_track sends no event).  None of the conditions can
\* be left out.
SpectatorConverges ==
    (/\ faults \subseteq {"nolog"}
     /\ \A r \in Requests : call[r].op # "delete_track"
     /\ Quiet)
        => \A v \in Viewers : view[v] = Show(clips)
=============================================================================
