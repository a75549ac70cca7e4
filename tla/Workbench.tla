------------------------------ MODULE Workbench ------------------------------
(***************************************************************************)
(* The gestures of one tab: the selection (uiStore.ts), the mouse on the   *)
(* timeline (Timeline.tsx, Playhead.tsx, utils/geometry.ts), the keyboard  *)
(* (useKeyboardShortcuts.ts), the clipboard and the effects                *)
(* (projectStore.ts, the inspector), and the history panel                 *)
(* (historyStore.ts) beside the undo stack it is drawn for.                *)
(*                                                                         *)
(* A drag is a closure: what it captured at mousedown stays as it was,     *)
(* while keys are pressed, answers come and other people edit.  What is    *)
(* sent for the edits is the subject of Editor; here an answer may give a  *)
(* new clip its server's id at any time, or never.  The tool, the magnet   *)
(* and the zoom can be changed at any time, so that each gesture takes the *)
(* ones it likes.  One unit of time is 200 ms.                             *)
(***************************************************************************)
EXTENDS Integers, Sequences, FiniteSets, FiniteSetsExt, SequencesExt

CONSTANTS
    TmpIds,       \* uid('c-tmp')
    ServerIdOf,   \* the id the server gives to each of them
    KindOf,       \* track -> its type
    Clips0,       \* the clips at first: a function on their ids
    Ghost,        \* 'c2', selected at first although it is a clip of the mock
    Places,       \* where gestures and seeks can lead
    MinDur,       \* 400 ms
    Reaches,      \* 14 px in time, at the zooms there are
    EffectTypes,
    Entries0,     \* Len(MOCK_HISTORY)
    Readings,     \* what the project's timeline may be when it is read again
    MaxUndo,      \* MAX_UNDO
    MaxOps,       \* bound on what the user and others do
    TopicSets,    \* the sets of topics that may come together
    None

(***************************************************************************)
(* "drag" "trim" "select" "delete" "split" "undo" "paste" "effect" "drop"  *)
(* "seek"    what the user does                                            *)
(* "jump"    the user clicks on an entry of the history panel              *)
(* "track"   the user deletes a track, which may be refused, or toggles it *)
(* "load"    a timeline asked for earlier comes, whatever is going on      *)
(* "answer"  new clips get the server's id, or are refused                 *)
(* "remote"  other people's events                                         *)
(* "role"    the user's role in the workspace changes                      *)
(***************************************************************************)
Topics == {"drag", "trim", "select", "delete", "split", "undo", "paste", "effect", "drop",
           "seek", "jump", "track", "load", "answer", "remote", "role"}
Tracks == DOMAIN KindOf
Ids == {Ghost} \cup DOMAIN Clips0 \cup TmpIds \cup {ServerIdOf[t] : t \in TmpIds}
Clip == [pos : Nat, dur : Nat, track : Tracks]
Lists == Seq([type : EffectTypes, on : BOOLEAN, val : {0, 1}])

\* What undo can bring back, and what a gesture under way has captured.
Pictures ==
    [clips : UNION {[D -> Clip] : D \in SUBSET Ids}, effects : [Ids -> Lists], tracks : SUBSET Tracks]
Gestures ==
    [id : Ids, by : {"body", "left", "right"}, pos : Nat, dur : Nat, edges : SUBSET Nat,
     kind : {KindOf[t] : t \in Tracks}, rows : SUBSET Tracks, track : Tracks,
     moved : BOOLEAN, above : -1 .. MaxUndo, shot : Pictures]

\* Every id that is given is new.
ASSUME WorkbenchIds ==
    /\ IsFiniteSet(Ids) /\ Ghost \notin DOMAIN Clips0 \cup TmpIds /\ TmpIds \cap DOMAIN Clips0 = {}
    /\ ServerIdOf \in [TmpIds -> Ids \ (TmpIds \cup DOMAIN Clips0)]
    /\ None \notin Ids \cup Tracks /\ None \notin Gestures
ASSUME WorkbenchClips == Clips0 \in [DOMAIN Clips0 -> Clip] /\ \A c \in DOMAIN Clips0 : Clips0[c].dur >= MinDur
ASSUME WorkbenchReadings ==
    \A r \in Readings :
      /\ DOMAIN r.clips \subseteq Ids \ (TmpIds \cup {Ghost}) /\ r.tracks \subseteq Tracks
      /\ \A c \in DOMAIN r.clips :
           /\ r.clips[c] \in Clip /\ r.clips[c].dur >= MinDur /\ r.clips[c].track \in r.tracks
           /\ c \in DOMAIN Clips0 => KindOf[r.clips[c].track] = KindOf[Clips0[c].track]
      /\ r.clips \in [DOMAIN r.clips -> Clip]
ASSUME WorkbenchNumbers ==
    /\ MinDur \in Nat \ {0} /\ MaxUndo \in Nat \ {0} /\ Entries0 \in Nat
    /\ Places \subseteq Int /\ Reaches \subseteq Nat
ASSUME WorkbenchTopics == TopicSets \subseteq SUBSET Topics

VARIABLES
    clips, effects, tracks,  \* projectStore
    undo, redo,              \* its stacks, the most recent snapshot first
    clipboard,               \* its _clipboard
    selected,                \* uiStore.selectedClipIds
    time,                    \* playbackStore.currentTimeMs
    entries, cursor,         \* historyStore: whether each entry is undone, how many are not
    drag,                    \* the closure of the gesture under way
    line,                    \* the snap line, and where the drag put the clip then
    browsing,                \* the effects browser is open
    canEdit,                 \* usePermissions().canEditTimeline
    fresh,                   \* temporary ids not given out
    awaited,                 \* for those of clips without an answer: what was asked
    asked,                   \* a track's deletion has no answer
    ops, topics

picture == <<clips, effects, tracks>>
stacks == <<undo, redo>>
history == <<entries, cursor>>
gesture == <<drag, line>>
server == <<fresh, awaited, asked>>
panels == <<time, browsing, canEdit>>
vars == <<picture, stacks, clipboard, selected, history, gesture, server, panels, ops, topics>>

May(topic) == topic \in topics /\ ops < MaxOps /\ ops' = ops + 1 /\ UNCHANGED topics
Quiet == UNCHANGED <<ops, topics>>

-----------------------------------------------------------------------------
(* The stores. *)

AtLeast(low, x) == IF x < low THEN low ELSE x
Over(new, old) == [c \in DOMAIN new \cup DOMAIN old |-> IF c \in DOMAIN new THEN new[c] ELSE old[c]]
Shot == [clips |-> clips, effects |-> effects, tracks |-> tracks]
Capped(stack) == SubSeq(stack, 1, IF Len(stack) < MaxUndo THEN Len(stack) ELSE MaxUndo)
\* What the mousedown pushed has n more snapshots above it; -1 when it is not there any
\* more, because it was undone, dropped at the bottom of the stack, or thrown away.
Sinks(n) ==
    drag' = IF drag = None THEN None
            ELSE [drag EXCEPT !.above = IF @ >= 0 /\ @ + n < MaxUndo THEN @ + n ELSE -1]
Pushed(shots) == undo' = Capped(shots \o undo) /\ redo' = <<>>
PushSnapshot == Pushed(<<Shot>>) /\ Sinks(1)

\* undoLocal and redoLocal.
Shown(shot) == clips' = shot.clips /\ effects' = shot.effects /\ tracks' = shot.tracks
UndoLocal ==
    IF undo = <<>> THEN UNCHANGED <<picture, stacks, drag>>
    ELSE Shown(Head(undo)) /\ undo' = Tail(undo) /\ redo' = Capped(<<Shot>> \o redo) /\ Sinks(-1)
RedoLocal ==
    IF redo = <<>> THEN UNCHANGED <<picture, stacks, drag>>
    ELSE Shown(Head(redo)) /\ redo' = Tail(redo) /\ undo' = Capped(<<Shot>> \o undo) /\ Sinks(1)

\* historyStore.push: what could be redone is cut off.
Push == entries' = Append(SubSeq(entries, 1, cursor), FALSE) /\ cursor' = cursor + 1

\* Edits of the clips one after the other: after k of them there are the clips after[k].
\* Each has taken a snapshot, the latest is on top, and only those of the new ids that
\* were used are given out; asks is what is asked of the server for these.
Done(n, after, asks) ==
    /\ clips' = after[n] /\ Pushed([k \in 1 .. n |-> [Shot EXCEPT !.clips = after[n - k]]]) /\ Sinks(n)
    /\ fresh' = fresh \ DOMAIN after[n] /\ awaited' = Over(asks, awaited)
    /\ UNCHANGED <<effects, tracks, asked>>

NewIds == SetToSeq(fresh)
NumberOf(t) == CHOOSE i \in 1 .. Len(NewIds) : NewIds[i] = t

\* addClip for each of a list, under the next temporary id.
NewClip(pos, dur, track) == [pos |-> AtLeast(0, pos), dur |-> AtLeast(MinDur, dur), track |-> track]
AddAll(new) ==
    LET n == Len(new)
        Added(k) == {NewIds[i] : i \in 1 .. k}
    IN Done(n, [k \in 0 .. n |-> Over([t \in Added(k) |-> new[NumberOf(t)]], clips)],
            [t \in Added(n) |-> None])

\* splitClipAt for each of a list: the right half gets the temporary id.  A snapshot is
\* pushed in any case, and nothing is asked for a clip that has no id of the server's.
Splits(c, at) == at >= c.pos + MinDur /\ at <= c.pos + c.dur - MinDur
LeftOf(c, at) == [c EXCEPT !.dur = at - c.pos]
RightOf(c, at) == [c EXCEPT !.pos = at, !.dur = c.pos + c.dur - at]
SplitAll(ids, at) ==
    LET n == Len(ids)
        Parted(k) == {i \in 1 .. k : ids[i] \in DOMAIN clips /\ Splits(clips[ids[i]], at)}
        Lefts(k) == [c \in {ids[i] : i \in Parted(k)} |-> LeftOf(clips[c], at)]
        Rights(k) == [t \in {NewIds[i] : i \in Parted(k)} |-> RightOf(clips[ids[NumberOf(t)]], at)]
        sent == {NewIds[i] : i \in {j \in Parted(n) : ids[j] \notin TmpIds}}
    IN Done(n, [k \in 0 .. n |-> Over(Rights(k), Over(Lefts(k), clips))],
            [t \in sent |-> Rights(n)[t].dur])

-----------------------------------------------------------------------------
(* The mouse on the timeline. *)

\* selectClip; with the shift key the clip joins or leaves the selection, where it is once.
Selected(id, additive) ==
    IF ~additive THEN selected' = <<id>>
    ELSE IF id \notin ToSet(selected) THEN selected' = Append(selected, id)
    ELSE \E i \in DOMAIN selected : selected[i] = id /\ selected' = RemoveAt(selected, i)
OnScreen == {c \in DOMAIN clips : clips[c].track \in tracks}

Grabbed(c, by) ==
    /\ Pushed(<<Shot>>)
    /\ drag' = [id |-> c, by |-> by, pos |-> clips[c].pos, dur |-> clips[c].dur,
                edges |-> UNION {{clips[d].pos, clips[d].pos + clips[d].dur} : d \in DOMAIN clips \ {c}},
                kind |-> KindOf[clips[c].track], rows |-> tracks, track |-> clips[c].track,
                moved |-> FALSE, above |-> 0, shot |-> Shot]
    /\ UNCHANGED <<picture, clipboard, history, line, server, panels>>

\* mousedown on a clip: it is selected, and the drag begins with one snapshot.
Press(c, additive) ==
    /\ May("drag") /\ drag = None /\ c \in OnScreen
    /\ Selected(c, additive)
    /\ IF canEdit THEN Grabbed(c, "body")
       ELSE UNCHANGED <<picture, stacks, clipboard, history, gesture, server, panels>>

\* The blade cuts under the mouse and takes the playhead there.
Cut(c, at, additive) ==
    /\ May("split") /\ drag = None /\ c \in OnScreen /\ canEdit /\ NewIds # <<>>
    /\ at \in clips[c].pos .. clips[c].pos + clips[c].dur
    /\ Selected(c, additive) /\ time' = at
    /\ SplitAll(<<c>>, at)
    /\ UNCHANGED <<clipboard, history, line, browsing, canEdit>>

Grip(c, side) ==
    /\ May("trim") /\ drag = None /\ c \in OnScreen /\ canEdit
    /\ Selected(c, FALSE)
    /\ Grabbed(c, side)

Near(a, b, reach) == a - b <= reach /\ b - a <= reach
\* snap: the clip's start is tried before its end on each candidate in turn, the
\* timeline's start first and the playhead next; the order of the edges is left open.
Hits(pos, dur, at, reach) == Near(pos, at, reach) \/ Near(pos + dur, at, reach)
SnapTo(pos, dur, at, reach) == [pos |-> IF Near(pos, at, reach) THEN at ELSE at - dur, at |-> at]
\* Mutation of Snap: the playhead is tried first.
SnapPlayheadFirst(pos, dur, edges, reach) ==
    LET near == {at \in edges : Hits(pos, dur, at, reach)} IN
    IF Hits(pos, dur, time, reach) THEN {SnapTo(pos, dur, time, reach)}
    ELSE IF Hits(pos, dur, 0, reach) THEN {SnapTo(pos, dur, 0, reach)}
    ELSE IF near # {} THEN {SnapTo(pos, dur, at, reach) : at \in near}
    ELSE {[pos |-> pos, at |-> None]}
Snap(pos, dur, edges, reach) ==
    LET near == {at \in edges : Hits(pos, dur, at, reach)} IN
    IF Hits(pos, dur, 0, reach) THEN {SnapTo(pos, dur, 0, reach)}
    ELSE IF Hits(pos, dur, time, reach) THEN {SnapTo(pos, dur, time, reach)}
    ELSE IF near # {} THEN {SnapTo(pos, dur, at, reach) : at \in near}
    ELSE {[pos |-> pos, at |-> None]}

\* The row under the mouse, if it is one of the clip's type.  Mutation: of any type.
RowAny(row) == IF row \in drag.rows THEN row ELSE drag.track
Row(row) == IF row \in drag.rows /\ KindOf[row] = drag.kind THEN row ELSE drag.track

\* Mutation of Quietly: every move pushes a snapshot.
QuietlyPushed == Pushed(<<Shot>>)
Quietly == UNCHANGED stacks

\* moveClip: the clip, if it is still there under the id of the mousedown.
MovedTo(r, row) ==
    /\ clips' = IF drag.id \in DOMAIN clips
                THEN [clips EXCEPT ![drag.id].pos = AtLeast(0, r.pos),
                                   ![drag.id].track = IF row # drag.track THEN row ELSE @]
                ELSE clips
    /\ line' = IF r.at = None THEN None ELSE [at |-> r.at, pos |-> AtLeast(0, r.pos)]

\* mousemove; alt lets go of the magnet.
DragTo(pos, row) ==
    /\ May("drag") /\ drag # None /\ drag.by = "body"
    /\ \E r \in {[pos |-> AtLeast(0, pos), at |-> None]}
                \cup UNION {Snap(AtLeast(0, pos), drag.dur, drag.edges, reach) : reach \in Reaches} :
         MovedTo(r, Row(row))
    /\ drag' = [drag EXCEPT !.moved = TRUE, !.track = Row(row)]
    /\ Quietly
    /\ UNCHANGED <<effects, tracks, clipboard, selected, history, server, panels>>

\* resizeClip from what was captured: the right edge follows, or the left one.
TrimTo(pos) ==
    /\ May("trim") /\ drag # None /\ drag.by # "body"
    /\ LET start == IF drag.by = "left" THEN AtLeast(0, pos) ELSE drag.pos
           dur == IF drag.by = "left" THEN drag.dur - (start - drag.pos) ELSE pos - drag.pos
       IN clips' = IF drag.id \in DOMAIN clips
                   THEN [clips EXCEPT ![drag.id].pos = start, ![drag.id].dur = AtLeast(MinDur, dur)]
                   ELSE clips
    /\ drag' = [drag EXCEPT !.moved = TRUE]
    /\ Quietly
    /\ UNCHANGED <<effects, tracks, clipboard, selected, history, line, server, panels>>

\* mouseup: the history gets an entry if the mouse had moved.
Release ==
    /\ drag # None
    /\ drag' = None /\ line' = None
    /\ IF drag.moved THEN Push ELSE UNCHANGED history
    /\ Quiet /\ UNCHANGED <<picture, stacks, clipboard, selected, server, panels>>

\* An asset is dropped on a row of its type.
DropAsset(track, pos, dur) ==
    /\ May("drop") /\ canEdit /\ track \in tracks /\ NewIds # <<>>
    /\ AddAll(<<NewClip(pos, dur, track)>>)
    /\ selected' = <<NewIds[1]>> /\ Push
    /\ UNCHANGED <<clipboard, line, panels>>

\* The playhead's handle, the arrows, Home and End.
Seek(at) ==
    /\ May("seek") /\ time # at
    /\ time' = AtLeast(0, at)
    /\ UNCHANGED <<picture, stacks, clipboard, selected, history, gesture, server, browsing, canEdit>>

-----------------------------------------------------------------------------
(* The keyboard, which works during a drag and whatever the role; the      *)
(* toolbar's buttons do the same.  With a text field in focus it does      *)
(* nothing.                                                                *)

SelectAll ==
    /\ May("select") /\ DOMAIN clips # {}
    /\ selected' \in SetToSeqs(DOMAIN clips)
    /\ UNCHANGED <<picture, stacks, clipboard, history, gesture, server, panels>>

\* A click on the background.
DeselectAll ==
    /\ May("select") /\ selected # <<>>
    /\ selected' = <<>>
    /\ UNCHANGED <<picture, stacks, clipboard, history, gesture, server, panels>>

SplitSelected ==
    /\ May("split") /\ selected # <<>> /\ Len(selected) <= Len(NewIds)
    /\ SplitAll(selected, time)
    /\ UNCHANGED <<clipboard, selected, history, line, panels>>

\* deleteClips: clips that are not there any more are passed over, and their effects go too.
DeleteSelected ==
    LET gone == ToSet(selected) \cap DOMAIN clips IN
    /\ May("delete") /\ gone # {}
    /\ PushSnapshot
    /\ clips' = Restrict(clips, DOMAIN clips \ gone)
    /\ effects' = [c \in Ids |-> IF c \in gone THEN <<>> ELSE effects[c]]
    /\ selected' = <<>>
    /\ UNCHANGED <<tracks, clipboard, history, line, server, panels>>

Copy ==
    /\ May("paste") /\ selected # <<>>
    /\ \E order \in SetToSeqs(ToSet(selected) \cap DOMAIN clips) :
         clipboard' = [i \in 1 .. Len(order) |-> clips[order[i]]]
    /\ UNCHANGED <<picture, stacks, selected, history, gesture, server, panels>>

\* Where the clips are shifted from: the earliest.  Mutation: the first.
AnchorFirst == clipboard[1].pos
Anchor == Min({clipboard[i].pos : i \in 1 .. Len(clipboard)})

Paste ==
    /\ May("paste") /\ clipboard # <<>> /\ Len(clipboard) <= Len(NewIds)
    /\ AddAll([i \in 1 .. Len(clipboard) |->
                 NewClip(clipboard[i].pos + time - Anchor, clipboard[i].dur, clipboard[i].track)])
    /\ selected' = SubSeq(NewIds, 1, Len(clipboard))
    /\ UNCHANGED <<clipboard, history, line, panels>>

\* The cursor follows only if there was something to undo, or to redo.
Undo ==
    /\ May("undo")
    /\ UndoLocal
    /\ IF undo = <<>> \/ cursor = 0 THEN UNCHANGED history
       ELSE entries' = [entries EXCEPT ![cursor] = TRUE] /\ cursor' = cursor - 1
    /\ UNCHANGED <<clipboard, selected, line, server, panels>>

Redo ==
    /\ May("undo")
    /\ RedoLocal
    /\ IF redo = <<>> \/ cursor = Len(entries) THEN UNCHANGED history
       ELSE entries' = [entries EXCEPT ![cursor + 1] = FALSE] /\ cursor' = cursor + 1
    /\ UNCHANGED <<clipboard, selected, line, server, panels>>

\* A click in the history panel: the marks follow, the clips do not.
JumpTo(n) ==
    /\ May("jump")
    /\ entries' = [i \in 1 .. Len(entries) |-> i > n] /\ cursor' = n
    /\ UNCHANGED <<picture, stacks, clipboard, selected, gesture, server, panels>>

-----------------------------------------------------------------------------
(* The inspector and the effects. *)

\* The clip the inspector shows: the one that is selected, if it is there.
Inspected == IF Len(selected) = 1 /\ selected[1] \in DOMAIN clips THEN selected[1] ELSE None
Effect(type) == [type |-> type, on |-> TRUE, val |-> 0]
EffectsOf(c, list) == effects' = [effects EXCEPT ![c] = list]
EffectEdited == UNCHANGED <<clips, tracks, clipboard, selected, history, line, server, time, canEdit>>

\* The menu of EffectsTab offers the types the clip does not have.
AddEffect(type) ==
    /\ May("effect") /\ canEdit /\ Inspected # None
    /\ \A i \in 1 .. Len(effects[Inspected]) : effects[Inspected][i].type # type
    /\ PushSnapshot /\ EffectsOf(Inspected, Append(effects[Inspected], Effect(type)))
    /\ EffectEdited /\ UNCHANGED browsing

Browse ==
    /\ May("effect") /\ canEdit /\ Inspected # None /\ ~browsing
    /\ browsing' = TRUE
    /\ UNCHANGED <<picture, stacks, clipboard, selected, history, gesture, server, time, canEdit>>

\* Escape, the background, or a card that is there only to be looked at.
Close ==
    /\ May("effect") /\ browsing
    /\ browsing' = FALSE
    /\ UNCHANGED <<picture, stacks, clipboard, selected, history, gesture, server, time, canEdit>>

\* The browser adds to the first clip selected, whatever it has, and closes.
Apply(type) ==
    /\ May("effect") /\ browsing
    /\ browsing' = FALSE
    /\ IF selected = <<>> THEN UNCHANGED <<stacks, drag, effects>>
       ELSE PushSnapshot /\ EffectsOf(selected[1], Append(effects[selected[1]], Effect(type)))
    /\ EffectEdited

\* The switch and the bin of EffectEditor.
ToggleEffect(i) ==
    /\ May("effect") /\ canEdit /\ Inspected # None /\ i <= Len(effects[Inspected])
    /\ PushSnapshot
    /\ effects' = [effects EXCEPT ![Inspected][i].on = ~@]
    /\ EffectEdited /\ UNCHANGED browsing

RemoveEffect(i) ==
    /\ May("effect") /\ canEdit /\ Inspected # None /\ i <= Len(effects[Inspected])
    /\ PushSnapshot /\ EffectsOf(Inspected, RemoveAt(effects[Inspected], i))
    /\ EffectEdited /\ UNCHANGED browsing

\* Its slider takes no snapshot.
UpdateEffect(i) ==
    /\ May("effect") /\ canEdit /\ Inspected # None /\ i <= Len(effects[Inspected])
    /\ effects[Inspected][i].on
    /\ effects' = [effects EXCEPT ![Inspected][i].val = 1 - @]
    /\ UNCHANGED <<stacks, drag>> /\ EffectEdited /\ UNCHANGED browsing

-----------------------------------------------------------------------------
(* Tracks, answers, events and the role. *)

DeleteTrack(track) ==
    LET gone == {c \in DOMAIN clips : clips[c].track = track} IN
    /\ May("track") /\ canEdit /\ track \in tracks /\ ~asked
    /\ PushSnapshot
    /\ tracks' = tracks \ {track} /\ clips' = Restrict(clips, DOMAIN clips \ gone)
    /\ effects' = [c \in Ids |-> IF c \in gone THEN <<>> ELSE effects[c]]
    /\ asked' = TRUE
    /\ UNCHANGED <<clipboard, selected, history, line, fresh, awaited, panels>>

\* Muted, locked, visible: the flags are not part of the picture here, the snapshot is.
ToggleTrack(track) ==
    /\ May("track") /\ track \in tracks
    /\ PushSnapshot
    /\ UNCHANGED <<picture, clipboard, selected, history, line, server, panels>>

\* loadProjectFromApi, for this project again (addTrack) or for another one (Readings may
\* have a timeline without these clips): nobody asks whether there is a gesture under way.
\* A clip can have been stored under the server's id before its answer is here.
LoadProject(reading) ==
    /\ May("load") /\ DOMAIN reading.clips \cap {ServerIdOf[t] : t \in fresh} = {}
    /\ clips' = reading.clips /\ tracks' = reading.tracks /\ effects' = [c \in Ids |-> <<>>]
    /\ undo' = <<>> /\ redo' = <<>> /\ Sinks(MaxUndo)
    /\ UNCHANGED <<clipboard, selected, history, line, server, panels>>

\* A refusal undoes what was done last.
TrackAnswer ==
    /\ asked
    /\ asked' = FALSE
    /\ UndoLocal \/ UNCHANGED <<picture, stacks, drag>>
    /\ Quiet /\ UNCHANGED <<clipboard, selected, history, line, fresh, awaited, panels>>

\* addClip's answer: the id changes in the array of clips and nowhere else.  That of
\* splitClipAt sets the duration as well, to what it was when the clip was split.
Answer(t) ==
    /\ "answer" \in topics /\ t \in DOMAIN awaited
    /\ awaited' = Restrict(awaited, DOMAIN awaited \ {t})
    /\ LET known == IF awaited[t] = None THEN clips[t] ELSE [clips[t] EXCEPT !.dur = awaited[t]]
       IN clips' = IF t \in DOMAIN clips
                   THEN Over([c \in {ServerIdOf[t]} |-> known], Restrict(clips, DOMAIN clips \ {t}))
                   ELSE clips
    /\ Quiet
    /\ UNCHANGED <<effects, tracks, stacks, clipboard, selected, history, gesture, fresh, asked, panels>>

\* It is refused: a new clip stays under its temporary id; for a split, what was done
\* last is undone.
AnswerFails(t) ==
    /\ "answer" \in topics /\ t \in DOMAIN awaited
    /\ awaited' = Restrict(awaited, DOMAIN awaited \ {t})
    /\ IF awaited[t] = None THEN UNCHANGED <<picture, stacks, drag>> ELSE UndoLocal
    /\ Quiet
    /\ UNCHANGED <<clipboard, selected, history, line, fresh, asked, panels>>

\* applyRemoteClipUpsert, for a clip that may have been deleted here.
RemoteUpsert(c, pos) ==
    /\ May("remote") /\ pos >= 0 /\ Clips0[c].track \in tracks
    /\ clips' = Over([d \in {c} |-> [Clips0[c] EXCEPT !.pos = pos]], clips)
    /\ UNCHANGED <<effects, tracks, stacks, clipboard, selected, history, gesture, server, panels>>

RemoteDelete(c) ==
    /\ May("remote") /\ c \in DOMAIN clips
    /\ clips' = Restrict(clips, DOMAIN clips \ {c})
    /\ effects' = [effects EXCEPT ![c] = <<>>]
    /\ UNCHANGED <<tracks, stacks, clipboard, selected, history, gesture, server, panels>>

RoleChanges ==
    /\ May("role")
    /\ canEdit' = ~canEdit
    /\ UNCHANGED <<picture, stacks, clipboard, selected, history, gesture, server, time, browsing>>

WorkbenchInit ==
    /\ clips = Clips0 /\ effects = [c \in Ids |-> <<>>] /\ tracks = Tracks
    /\ undo = <<>> /\ redo = <<>> /\ clipboard = <<>> /\ selected = <<Ghost>> /\ time = 0
    /\ entries = [i \in 1 .. Entries0 |-> FALSE] /\ cursor = Entries0
    /\ drag = None /\ line = None /\ browsing = FALSE /\ canEdit = TRUE
    /\ fresh = TmpIds /\ awaited = <<>> /\ asked = FALSE /\ ops = 0 /\ topics \in TopicSets

WorkbenchNext ==
    \/ Release \/ SelectAll \/ DeselectAll \/ SplitSelected \/ DeleteSelected
    \/ Copy \/ Paste \/ Undo \/ Redo \/ Browse \/ Close \/ TrackAnswer \/ RoleChanges
    \/ \E c \in OnScreen, additive \in BOOLEAN : Press(c, additive)
    \/ \E c \in OnScreen, at \in Places, additive \in BOOLEAN : Cut(c, at, additive)
    \/ \E c \in OnScreen, side \in {"left", "right"} : Grip(c, side)
    \/ \E pos \in Places, row \in Tracks : DragTo(pos, row)
    \/ \E pos \in Places : TrimTo(pos) \/ Seek(pos)
    \/ \E track \in Tracks, pos \in Places, dur \in {1, MinDur + 1} : DropAsset(track, pos, dur)
    \/ \E n \in 1 .. Len(entries) : JumpTo(n)
    \/ \E type \in EffectTypes : AddEffect(type) \/ Apply(type)
    \/ \E i \in 1 .. MaxOps : ToggleEffect(i) \/ RemoveEffect(i) \/ UpdateEffect(i)
    \/ \E track \in Tracks : DeleteTrack(track) \/ ToggleTrack(track)
    \/ \E reading \in Readings : LoadProject(reading)
    \/ \E t \in TmpIds : Answer(t) \/ AnswerFails(t)
    \/ \E c \in DOMAIN Clips0, pos \in Places : RemoteUpsert(c, pos)
    \/ \E c \in DOMAIN clips \ TmpIds : RemoteDelete(c)

WorkbenchSpec == WorkbenchInit /\ [][WorkbenchNext]_vars

(***************************************************************************)
(* Properties                                                              *)
(***************************************************************************)
Sane(c, e, t) ==
    /\ DOMAIN c \subseteq Ids /\ \A id \in DOMAIN c : c[id] \in Clip /\ c[id].dur >= MinDur
    /\ e \in [Ids -> Lists] /\ t \subseteq Tracks
\* Types; no clip is ever too short, and an id that has not been given out is nobody's.
WorkbenchTypeOK ==
    /\ Sane(clips, effects, tracks)
    /\ \A i \in 1 .. Len(undo) : Sane(undo[i].clips, undo[i].effects, undo[i].tracks)
    /\ \A i \in 1 .. Len(redo) : Sane(redo[i].clips, redo[i].effects, redo[i].tracks)
    /\ Len(undo) <= MaxUndo /\ Len(redo) <= MaxUndo /\ time \in Nat
    /\ \A i \in 1 .. Len(clipboard) : clipboard[i] \in Clip
    /\ ToSet(selected) \subseteq Ids \ fresh /\ DOMAIN clips \cap fresh = {}
    /\ IsInjective(selected) /\ browsing \in BOOLEAN /\ canEdit \in BOOLEAN /\ asked \in BOOLEAN
    /\ fresh \subseteq TmpIds /\ DOMAIN awaited \subseteq TmpIds \ fresh /\ topics \in TopicSets

\* The history panel: what is undone is what lies behind the cursor, whatever is pushed,
\* undone, redone and clicked on.
HistoryMarks ==
    cursor \in 0 .. Len(entries) /\ \A i \in 1 .. Len(entries) : entries[i] <=> i > cursor

\* No gesture takes a clip to a track of another type, whatever has become of the tracks
\* since the mousedown.
KeepsItsKind ==
    \A c \in DOMAIN clips \cap DOMAIN Clips0 : KindOf[clips[c].track] = KindOf[Clips0[c].track]

\* The three together.
WorkbenchOK == WorkbenchTypeOK /\ HistoryMarks /\ KeepsItsKind

\* A drag or a trim is one snapshot, however often the mouse moves: as long as what the
\* mousedown pushed is in the stack, only snapshots of other things done meanwhile (keys,
\* effects, tracks, undone and done again) are above it, and what is below those is what
\* was there at mousedown.
DragIsOneStep ==
    drag # None /\ drag.above >= 0 => drag.above < Len(undo) /\ undo[drag.above + 1] = drag.shot

\* While the snap line is drawn, an edge of the clip is on it, unless somebody else has
\* moved or resized the clip since.
SnapLineTrue ==
    line # None /\ drag.id \in DOMAIN clips /\ clips[drag.id].pos = line.pos /\ clips[drag.id].dur = drag.dur
        => line.at \in {line.pos, line.pos + drag.dur}

\* A paste puts the earliest clip at the playhead and keeps the others' distance from it,
\* wherever the clips that were copied are by now.
Before(f) == LET first == Min({f[i].pos : i \in DOMAIN f}) IN
    [shape \in {[f[i] EXCEPT !.pos = @ - first] : i \in DOMAIN f} |->
        Cardinality({i \in DOMAIN f : [f[i] EXCEPT !.pos = @ - first] = shape})]
PasteKeepsShape ==
    [][Paste => LET new == Restrict(clips', ToSet(selected')) IN
                /\ Min({new[c].pos : c \in DOMAIN new}) = time
                /\ Before(new) = Before(clipboard)]_vars
=============================================================================
