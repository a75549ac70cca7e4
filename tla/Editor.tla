------------------------------- MODULE Editor -------------------------------
(***************************************************************************)
(* The clips of one tab that edits (frontend/src/state/projectStore.ts)    *)
(* with its undo and redo stacks, the HTTP calls it has in flight, and the *)
(* clips the server keeps.                                                 *)
(*                                                                         *)
(* Every edit changes the tab at once and is sent without being waited     *)
(* for.  A new clip lives under a temporary id until the answer brings the *)
(* server's.  Handlers of user events, answers and Pusher events run to    *)
(* completion one after the other: each is a step.  The server serves a    *)
(* call in one step (module Timeline has its statements).                  *)
(*                                                                         *)
(* The clips are a set: their order in the array decides nothing.  A       *)
(* clip's place is its position: the track, which travels with it, and the *)
(* tracks and effects, which the snapshots also hold, are left out.        *)
(***************************************************************************)
EXTENDS Integers, FiniteSets, Sequences, SequencesExt

CONSTANTS
    TmpIds,         \* uid('c-tmp')
    ServerIds,      \* gen_random_uuid()
    InitialClips,   \* the clips when the tab is loaded
    Positions, Durations,   \* what the user's gestures can produce
    MinDur,         \* 400 ms
    MaxUndo,        \* MAX_UNDO
    MaxSteps,       \* bound on what the user and others do
    FaultSets,      \* the sets of faults that may come together
    None

(***************************************************************************)
(* "haste"     the user edits while calls or events are on their way       *)
(* "undo"      the user undoes and redoes                                  *)
(* "tmp"       the user edits clips that still have a temporary id         *)
(* "overtake"  calls reach the server in another order                     *)
(* "refused"   a split fails before it is executed                         *)
(* "dropped"   another call fails before it is executed                    *)
(* "lost"      the answer to an executed call is lost                      *)
(* "reload"    the project is loaded again (addTrack, opening it)         *)
(* "remote"    other users edit while nothing of this tab is on its way    *)
(* "clash"     other users edit at any time                                *)
(***************************************************************************)
FaultKinds == {"haste", "undo", "tmp", "overtake", "refused", "dropped", "lost",
               "reload", "remote", "clash"}

Ids == TmpIds \cup ServerIds
Clip == [id : Ids, pos : Nat, dur : Nat, inPoint : Nat]

\* A call in flight: "tmp" is the temporary id that waits for its answer, "pos"
\* the new position (of a split: where the right half starts), "at" the offset of
\* the cut, "answer" the rows the server sent ("loaded" those of a timeline).
Call == [op : {"addClip", "updateClip", "deleteClip", "splitClip", "load"},
         status : {"sent", "served", "failed"},
         id : ServerIds \cup {None}, tmp : TmpIds \cup {None},
         pos : Nat \cup {None}, dur : Nat \cup {None}, at : Nat \cup {None},
         answer : Seq(Clip), loaded : SUBSET Clip]

ASSUME MinDurPositive == MinDur \in Nat \ {0}
ASSUME MaxUndoPositive == MaxUndo \in Nat \ {0}
ASSUME StepsBounded == MaxSteps \in Nat
ASSUME ServerIdsFinite == IsFiniteSet(ServerIds)
ASSUME IdsApart == TmpIds \cap ServerIds = {} /\ None \notin Ids /\ None \notin Int
ASSUME GesturesSane == Positions \subseteq Nat /\ Durations \subseteq Nat
ASSUME EditorFaultsKnown == FaultSets \subseteq SUBSET FaultKinds
ASSUME InitialClipsSane ==
    /\ InitialClips \subseteq Clip
    /\ \A c \in InitialClips : c.id \in ServerIds /\ c.dur >= MinDur
    /\ \A c, d \in InitialClips : c.id = d.id => c = d

VARIABLES
    clips,      \* what the tab shows
    undo, redo, \* _undoStack and _redoStack, the most recent snapshot first
    drag,       \* the clip under the mouse with its position and length then
    calls,      \* the calls in flight, in the order they were sent
    inbox,      \* the other users' events that are on their way
    table,      \* the server's clips: a function on their ids
    fresh,      \* the ids that have not been given out
    steps,      \* what the user and others have done so far
    faults      \* what may go wrong in this behaviour; it never changes

tabVars == <<clips, undo, redo, drag>>
netVars == <<calls, inbox>>
serverVars == <<table, fresh>>
editorVars == <<tabVars, netVars, serverVars, steps, faults>>

RowsOf(t) == {t[c] : c \in DOMAIN t}

EditorInit ==
    /\ clips = InitialClips
    /\ undo = <<>> /\ redo = <<>>
    /\ drag = None
    /\ calls = <<>> /\ inbox = <<>>
    /\ table = [id \in {c.id : c \in InitialClips} |-> CHOOSE c \in InitialClips : c.id = id]
    /\ fresh = Ids \ DOMAIN table
    /\ steps = 0
    /\ faults \in FaultSets

-----------------------------------------------------------------------------
(* The store. *)

AtLeast(low, x) == IF x < low THEN low ELSE x
AtMost(high, x) == IF x > high THEN high ELSE x

Under(id) == {c \in clips : c.id = id}
Without(ids) == {c \in clips : c.id \notin ids}

Capped(stack) == SubSeq(stack, 1, AtMost(MaxUndo, Len(stack)))
\* Mutation of PushSnapshot: what was undone stays on the redo stack.
PushSnapshotKeepsRedo == undo' = Capped(<<clips>> \o undo) /\ UNCHANGED redo
PushSnapshot == undo' = Capped(<<clips>> \o undo) /\ redo' = <<>>

UndoLocal ==
    IF undo = <<>> THEN UNCHANGED <<clips, undo, redo>>
    ELSE /\ clips' = Head(undo)
         /\ undo' = Tail(undo)
         /\ redo' = Capped(<<clips>> \o redo)

RedoLocal ==
    IF redo = <<>> THEN UNCHANGED <<clips, undo, redo>>
    ELSE /\ clips' = Head(redo)
         /\ redo' = Tail(redo)
         /\ undo' = Capped(<<clips>> \o undo)

Request(op, id, tmp, pos, dur, at) ==
    [op |-> op, status |-> "sent", id |-> id, tmp |-> tmp, pos |-> pos, dur |-> dur,
     at |-> at, answer |-> <<>>, loaded |-> {}]
Send(call) == calls' = Append(calls, call)
SendUpdate(id, pos, dur) ==
    IF id \in TmpIds THEN UNCHANGED calls
    ELSE Send(Request("updateClip", id, None, pos, dur, None))

Step == steps < MaxSteps /\ steps' = steps + 1 /\ UNCHANGED faults
UserActs ==
    /\ Step
    /\ "haste" \in faults \/ (calls = <<>> /\ inbox = <<>>)
\* The clips the user touches.
Touchable == {c \in clips : c.id \in TmpIds => "tmp" \in faults}

-----------------------------------------------------------------------------
(* The user.  Mouse and keyboard are independent: any of this may happen    *)
(* while a clip is being dragged.                                           *)

\* A drop from the asset browser, or one clip of a paste.
AddClip(pos, dur) ==
    /\ UserActs
    /\ \E tmp \in fresh \cap TmpIds :
        /\ PushSnapshot
        /\ clips' = clips \cup {[id |-> tmp, pos |-> pos, dur |-> AtLeast(MinDur, dur),
                                 inPoint |-> 0]}
        /\ fresh' = fresh \ {tmp}
        /\ Send(Request("addClip", None, tmp, pos, AtLeast(MinDur, dur), None))
    /\ UNCHANGED <<drag, inbox, table>>

\* mousedown on a clip or on one of its handles: one snapshot for the gesture.
Grab(c, by) ==
    /\ UserActs
    /\ drag = None
    /\ PushSnapshot
    /\ drag' = [id |-> c.id, pos |-> c.pos, dur |-> c.dur, by |-> by]
    /\ UNCHANGED <<clips, netVars, serverVars>>

MoveClip(pos) ==
    /\ UserActs
    /\ drag # None /\ drag.by = "body"
    /\ clips' = Without({drag.id}) \cup {[c EXCEPT !.pos = pos] : c \in Under(drag.id)}
    /\ SendUpdate(drag.id, pos, None)
    /\ UNCHANGED <<undo, redo, drag, inbox, serverVars>>

Resized(c, pos, dur) ==
    [id |-> c.id, pos |-> pos, dur |-> AtLeast(MinDur, dur), inPoint |-> c.inPoint]

ResizeClip(pos, dur) ==
    /\ clips' = Without({drag.id}) \cup {Resized(c, pos, dur) : c \in Under(drag.id)}
    /\ SendUpdate(drag.id, pos, AtLeast(MinDur, dur))
    /\ UNCHANGED <<undo, redo, drag, inbox, serverVars>>

TrimRight(dur) ==
    UserActs /\ drag # None /\ drag.by = "right" /\ ResizeClip(drag.pos, dur)

TrimLeft(pos) ==
    UserActs /\ drag # None /\ drag.by = "left" /\ ResizeClip(pos, drag.dur - (pos - drag.pos))

\* mouseup
Release ==
    /\ drag # None
    /\ drag' = None
    /\ UNCHANGED <<clips, undo, redo, netVars, serverVars, steps, faults>>

LeftHalf(c, at) == [c EXCEPT !.dur = at]
RightHalf(c, at, tmp) ==
    [id |-> tmp, pos |-> c.pos + at, dur |-> c.dur - at, inPoint |-> c.inPoint + at]
\* Mutation of SplitArgument: the place on the timeline instead of the offset.
SplitArgumentAbsolute(c, at) == c.pos + at
\* What the API wants as split_at_ms.
SplitArgument(c, at) == at

\* The playhead is "at" after the clip's start.  (A clip that is on screen twice
\* under one id would be split twice; that is left out.)
SplitClipAt(c, at) ==
    /\ UserActs
    /\ \A d \in clips : d.id = c.id => d = c
    /\ at >= MinDur /\ at <= c.dur - MinDur
    /\ PushSnapshot
    /\ \E tmp \in fresh \cap TmpIds :
        /\ clips' = (clips \ {c}) \cup {LeftHalf(c, at), RightHalf(c, at, tmp)}
        /\ fresh' = fresh \ {tmp}
        /\ IF c.id \in TmpIds THEN UNCHANGED calls
           ELSE Send(Request("splitClip", c.id, tmp, c.pos + at, None, SplitArgument(c, at)))
    /\ UNCHANGED <<drag, inbox, table>>

\* The playhead is not inside the clip: nothing is split, yet a snapshot is pushed.
SplitOutside ==
    /\ UserActs
    /\ PushSnapshot
    /\ UNCHANGED <<clips, drag, netVars, serverVars>>

\* One call for each clip that is on screen under a server's id.
DeleteClips(ids) ==
    LET sent == {c.id : c \in clips} \cap ids \cap ServerIds
    IN  /\ UserActs
        /\ PushSnapshot
        /\ clips' = Without(ids)
        /\ \E order \in [1 .. Cardinality(sent) -> sent] :
            /\ \A i, j \in DOMAIN order : order[i] = order[j] => i = j
            /\ calls' = calls \o [i \in DOMAIN order |->
                                    Request("deleteClip", order[i], None, None, None, None)]
        /\ UNCHANGED <<drag, inbox, serverVars>>

Undo ==
    "undo" \in faults /\ UserActs /\ UndoLocal /\ UNCHANGED <<drag, netVars, serverVars>>

Redo ==
    "undo" \in faults /\ UserActs /\ RedoLocal /\ UNCHANGED <<drag, netVars, serverVars>>

\* addTrack loads the project again.
AskProject ==
    /\ "reload" \in faults
    /\ UserActs
    /\ Send(Request("load", None, None, None, None, None))
    /\ UNCHANGED <<tabVars, inbox, serverVars>>

UserEdits ==
    \/ \E pos \in Positions, dur \in Durations : AddClip(pos, dur)
    \/ \E c \in Touchable, by \in {"body", "left", "right"} : Grab(c, by)
    \/ \E pos \in Positions : MoveClip(pos) \/ TrimLeft(pos)
    \/ \E dur \in Durations : TrimRight(dur)
    \/ \E c \in Touchable : \E at \in 1 .. c.dur : SplitClipAt(c, at)
    \/ SplitOutside
    \/ \E chosen \in SUBSET Touchable :
            chosen # {} /\ DeleteClips({c.id : c \in chosen})

-----------------------------------------------------------------------------
(* The server, and what the other users do there.                           *)

MayServe(k) ==
    /\ calls[k].status = "sent"
    /\ "overtake" \in faults \/ \A j \in 1 .. k - 1 : calls[j].status # "sent"
Over(k) == calls' = RemoveAt(calls, k)
Marked(call, status, rows, timeline) ==
    [op |-> call.op, status |-> status, id |-> call.id, tmp |-> call.tmp, pos |-> call.pos,
     dur |-> call.dur, at |-> call.at, answer |-> rows, loaded |-> timeline]
Answered(k, rows) == calls' = [calls EXCEPT ![k] = Marked(@, "served", rows, {})]
Failed(k) == calls' = [calls EXCEPT ![k] = Marked(@, "failed", <<>>, {})]
Stored(row) == [c \in DOMAIN table \cup {row.id} |-> IF c = row.id THEN row ELSE table[c]]
Coalesce(value, old) == IF value = None THEN old ELSE value

ServeAdd(k) ==
    LET call == calls[k]
    IN  /\ MayServe(k) /\ call.op = "addClip"
        /\ \E id \in fresh \cap ServerIds :
            LET row == [id |-> id, pos |-> call.pos, dur |-> call.dur, inPoint |-> 0]
            IN  /\ table' = Stored(row)
                /\ fresh' = fresh \ {id}
                /\ Answered(k, <<row>>)
        /\ UNCHANGED <<tabVars, inbox, steps, faults>>

\* The answers to an update and to a delete change nothing in the tab.
Updated(row, call) ==
    [id |-> row.id, pos |-> call.pos, dur |-> AtLeast(MinDur, Coalesce(call.dur, row.dur)),
     inPoint |-> row.inPoint]

ServeUpdate(k) ==
    LET call == calls[k]
    IN  /\ MayServe(k) /\ call.op = "updateClip"
        /\ table' = IF call.id \in DOMAIN table THEN Stored(Updated(table[call.id], call))
                    ELSE table
        /\ Over(k)
        /\ UNCHANGED <<tabVars, inbox, fresh, steps, faults>>

ServeDelete(k) ==
    /\ MayServe(k) /\ calls[k].op = "deleteClip"
    /\ table' = [c \in DOMAIN table \ {calls[k].id} |-> table[c]]
    /\ Over(k)
    /\ UNCHANGED <<tabVars, inbox, fresh, steps, faults>>

ShortenedRow(row, at) == [row EXCEPT !.dur = at]
InsertedRow(row, at, id) ==
    [id |-> id, pos |-> row.pos + at, dur |-> row.dur - at, inPoint |-> row.inPoint + at]

ServeSplit(k) ==
    LET call == calls[k]
        row == table[call.id]
        allowed == /\ call.id \in DOMAIN table
                   /\ call.at >= MinDur /\ call.at <= row.dur - MinDur
    IN  /\ MayServe(k) /\ call.op = "splitClip"
        /\ IF allowed
           THEN \E id \in fresh \cap ServerIds :
                    LET left == ShortenedRow(row, call.at)
                        right == InsertedRow(row, call.at, id)
                    IN  /\ table' = [c \in DOMAIN table \cup {id} |->
                                        IF c = id THEN right
                                        ELSE IF c = call.id THEN left ELSE table[c]]
                        /\ fresh' = fresh \ {id}
                        /\ Answered(k, <<left, right>>)
           ELSE Failed(k) /\ UNCHANGED serverVars
        /\ UNCHANGED <<tabVars, inbox, steps, faults>>

ServeProject(k) ==
    /\ MayServe(k) /\ calls[k].op = "load"
    /\ calls' = [calls EXCEPT ![k] = Marked(@, "served", <<>>, RowsOf(table))]
    /\ UNCHANGED <<tabVars, inbox, serverVars, steps, faults>>

Refuse(k) ==
    /\ "refused" \in faults
    /\ calls[k].op = "splitClip" /\ calls[k].status = "sent"
    /\ Failed(k)
    /\ UNCHANGED <<tabVars, inbox, serverVars, steps, faults>>

\* The tab only logs these failures.
Drop(k) ==
    /\ "dropped" \in faults
    /\ calls[k].op # "splitClip" /\ calls[k].status = "sent"
    /\ Over(k)
    /\ UNCHANGED <<tabVars, inbox, serverVars, steps, faults>>

LoseAnswer(k) ==
    /\ "lost" \in faults
    /\ calls[k].status = "served"
    /\ IF calls[k].op = "splitClip" THEN Failed(k) ELSE Over(k)
    /\ UNCHANGED <<tabVars, inbox, serverVars, steps, faults>>

OthersAct ==
    /\ Step
    /\ "clash" \in faults \/ ("remote" \in faults /\ calls = <<>> /\ inbox = <<>>)
    /\ UNCHANGED <<tabVars, calls>>
Upsert(row) == [type |-> "upsert", row |-> row]
Removal(row) == [type |-> "delete", row |-> row]

OthersAdd(pos, dur) ==
    /\ OthersAct
    /\ dur >= MinDur
    /\ \E id \in fresh \cap ServerIds :
        LET row == [id |-> id, pos |-> pos, dur |-> dur, inPoint |-> 0]
        IN  /\ table' = Stored(row)
            /\ inbox' = Append(inbox, Upsert(row))
            /\ fresh' = fresh \ {id}

OthersUpdate(c, pos, dur) ==
    /\ OthersAct
    /\ LET row == Resized(table[c], pos, dur)
       IN  table' = Stored(row) /\ inbox' = Append(inbox, Upsert(row))
    /\ UNCHANGED fresh

OthersDelete(c) ==
    /\ OthersAct
    /\ inbox' = Append(inbox, Removal(table[c]))
    /\ table' = [d \in DOMAIN table \ {c} |-> table[d]]
    /\ UNCHANGED fresh

-----------------------------------------------------------------------------
(* What reaches the tab.                                                     *)

AnswerAdd(k) ==
    LET Named(c) == [c EXCEPT !.id = Head(calls[k].answer).id]
    IN  /\ calls[k].op = "addClip" /\ calls[k].status = "served"
        /\ clips' = Without({calls[k].tmp}) \cup {Named(c) : c \in Under(calls[k].tmp)}
        /\ Over(k)
        /\ UNCHANGED <<undo, redo, drag, inbox, serverVars, steps, faults>>

\* Mutation of IsRight: a half that starts exactly at the cut is not found.
IsRightStrictly(row, call) == row.pos > call.pos
\* The half the tab takes for the new one.
IsRight(row, call) == row.pos >= call.pos

\* pair.find: the first row that is one.
AnswerSplit(k) ==
    LET call == calls[k]
        rights == {i \in DOMAIN call.answer : IsRight(call.answer[i], call)}
        Confirmed(c, row) == [id |-> row.id, pos |-> c.pos, dur |-> row.dur, inPoint |-> row.inPoint]
    IN  /\ call.op = "splitClip" /\ call.status = "served"
        /\ \/ rights = {} /\ UNCHANGED clips
           \/ \E i \in rights :
                /\ \A j \in rights : i <= j
                /\ clips' = Without({call.tmp})
                            \cup {Confirmed(c, call.answer[i]) : c \in Under(call.tmp)}
        /\ Over(k)
        /\ UNCHANGED <<undo, redo, drag, inbox, serverVars, steps, faults>>

\* A split that failed takes back the latest snapshot.
RollBack(k) ==
    /\ calls[k].op = "splitClip" /\ calls[k].status = "failed"
    /\ UndoLocal
    /\ Over(k)
    /\ UNCHANGED <<drag, inbox, serverVars, steps, faults>>

LoadProject(k) ==
    /\ calls[k].op = "load" /\ calls[k].status = "served"
    /\ clips' = calls[k].loaded
    /\ undo' = <<>> /\ redo' = <<>>
    /\ Over(k)
    /\ UNCHANGED <<drag, inbox, serverVars, steps, faults>>

\* An id that is not on screen is added (if it is there twice, one is replaced).
ApplyRemoteClipUpsert(row) ==
    \/ (\A c \in clips : c.id # row.id) /\ clips' = clips \cup {row}
    \/ \E c \in clips : c.id = row.id /\ clips' = (clips \ {c}) \cup {row}

Receive ==
    /\ inbox # <<>>
    /\ IF Head(inbox).type = "upsert" THEN ApplyRemoteClipUpsert(Head(inbox).row)
       ELSE clips' = Without({Head(inbox).row.id})
    /\ inbox' = Tail(inbox)
    /\ UNCHANGED <<undo, redo, drag, calls, serverVars, steps, faults>>

ServerServes(k) ==
    ServeAdd(k) \/ ServeUpdate(k) \/ ServeDelete(k) \/ ServeSplit(k) \/ ServeProject(k)
TabHears(k) == AnswerAdd(k) \/ AnswerSplit(k) \/ RollBack(k) \/ LoadProject(k)

EditorNext ==
    \/ UserEdits \/ Undo \/ Redo \/ AskProject \/ Release
    \/ \E k \in DOMAIN calls :
        ServerServes(k) \/ Refuse(k) \/ Drop(k) \/ LoseAnswer(k) \/ TabHears(k)
    \/ \E pos \in Positions, dur \in Durations :
        OthersAdd(pos, dur) \/ \E c \in DOMAIN table : OthersUpdate(c, pos, dur)
    \/ \E c \in DOMAIN table : OthersDelete(c)
    \/ Receive

EditorSpec == EditorInit /\ [][EditorNext]_editorVars

-----------------------------------------------------------------------------

\* Types, and the caps of the two stacks: together they never hold more than
\* MAX_UNDO snapshots, so redo loses nothing.
EditorTypeOK ==
    /\ clips \subseteq Clip
    /\ undo \in Seq(SUBSET Clip) /\ redo \in Seq(SUBSET Clip)
    /\ Len(undo) + Len(redo) <= MaxUndo
    /\ drag = None \/ drag \in [id : Ids, pos : Nat, dur : Nat, by : {"body", "left", "right"}]
    /\ calls \in Seq(Call)
    /\ inbox \in Seq([type : {"upsert", "delete"}, row : Clip])
    /\ DOMAIN table \subseteq ServerIds
    /\ \A c \in DOMAIN table : table[c] \in Clip /\ table[c].id = c
    /\ fresh \subseteq Ids \ DOMAIN table
    /\ steps \in 0 .. MaxSteps
    /\ faults \in FaultSets

Settled == calls = <<>> /\ inbox = <<>>

\* Where the tab can follow the server: the user edits as fast as he likes and
\* every call arrives, in order, and is executed; or he waits between edits, and
\* then splits may be refused (and rolled back), others may edit, and the project
\* may be loaded again.  Undo, which is never sent, is in neither case.
InStep == faults \subseteq {"haste"} \/ faults \subseteq {"refused", "remote", "reload"}

\* When everything sent has been answered the tab shows what the server keeps.
SettledAgrees ==
    InStep /\ Settled => clips = RowsOf(table)

\* An id on screen belongs to one clip.
IdsUnique == \A c, d \in clips : c.id = d.id => c = d
OneClipPerId == InStep => IdsUnique

\* A temporary id on screen waits for an answer, so it does not stay for ever.
TmpIsPending ==
    InStep => \A c \in clips :
        c.id \in TmpIds => \E k \in DOMAIN calls : calls[k].tmp = c.id

\* Types, and the ids on screen.
EditorOK == EditorTypeOK /\ OneClipPerId /\ TmpIsPending

\* Undo and redo walk along one history of the tab's states, whatever is sent,
\* answered, refused or received meanwhile.
History == INSTANCE UndoHistory WITH hist <- Reverse(undo) \o <<clips>> \o redo,
                                     at <- Len(undo) + 1
IsUndoHistory == History!UndoHistorySpec
=============================================================================
