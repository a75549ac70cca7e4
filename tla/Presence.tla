------------------------------ MODULE Presence ------------------------------
(***************************************************************************)
(* Who else is there, and where they point: the presence channel of one    *)
(* tab (pusher.ts, usePusher.ts, usePresence.ts, useOperationSync.ts,      *)
(* collabStore.ts, CollaboratorList.tsx, RemoteCursors.tsx), and the other *)
(* tabs' side of it (useCursorBroadcast.ts, useViewportCursorBroadcast.ts).*)
(*                                                                         *)
(* The channel service is not in the repository.  It is taken to know the  *)
(* tabs that are subscribed, to count two tabs of one user as one member,  *)
(* to deliver in order to the tabs that are subscribed, and to forget what *)
(* is under way when a subscription ends or a connection breaks.  What a   *)
(* tab tells the others itself may be lost: it is a client event, of which *)
(* the service refuses those over its rate.                                *)
(* Edits are followed by their events one at a time: events that overtake  *)
(* each other are the subject of Timeline.  The tab's own edits are        *)
(* Editor's.  One unit of time is 100 ms.                                  *)
(***************************************************************************)
EXTENDS Integers, Sequences, FiniteSets, FiniteSetsExt, SequencesExt

CONSTANTS
    Others,    \* the other tabs
    UserOf,    \* the user of each of them
    Me,        \* the user of this tab
    Shared,    \* the project the others have open
    Projects,  \* those this tab opens
    Times,     \* positions of a playhead
    MaxOps,    \* bound on what users and the network do
    TopicSets, \* the sets of topics that may come together
    Null

(***************************************************************************)
(* "people"  others come and go          "pointer" they move their pointer *)
(* "seek"    they move their playhead    "edit"    they edit a clip        *)
(* "switch"  this tab reads a project, the one it shows or another, or     *)
(*           toggles Collab                                                *)
(* "drop"    this tab's connection breaks                                  *)
(* "token"   this tab's access token runs out, until it is refreshed       *)
(* "outage"  an event of an edit does not get to the service, or is lost   *)
(* "loss"    an event that a tab sends itself is                           *)
(***************************************************************************)
Topics == {"people", "pointer", "seek", "edit", "switch", "drop", "token", "outage", "loss"}
People == {UserOf[t] : t \in Others} \cup {Me}
Panels == {"timeline", "viewport"}

ASSUME PresenceNames == Shared \in Projects /\ Null \notin People \cup Projects \cup Panels
ASSUME PresenceTimes == Times \subseteq Nat /\ 0 \in Times /\ MaxOps \in Nat
ASSUME PresenceTopics == TopicSets \subseteq SUBSET Topics

VARIABLES
    proj,    \* the project on the screen
    opening, \* the project being read and the clip as it was read, or Null
    show,    \* uiStore.showPresence
    conn,    \* the socket is connected
    expired, \* the access token has run out
    sub,     \* the subscription, as the tab knows it
    joined,  \* the service counts the tab as subscribed
    inbox,   \* what the service has sent and the tab has not handled
    list,    \* collabStore.collaborators
    cursors, \* collabStore.cursors
    fresh,   \* users whose cursor came since the last list of members
    told,    \* users who told their playhead since then
    view,    \* the clip as this tab shows it, while it shows Shared
    here,    \* the other tabs that are subscribed
    over,    \* the panel the pointer of another tab is over
    hot,     \* the panels whose throttle another tab has to wait for
    time, last, rested, \* currentTimeMs and the refs of the playhead's throttle
    swallowed, \* the other tabs whose playhead was lost when last told
    row,     \* the clip in the database: the number of its last edit
    lost,    \* why this tab does not show the last edit for its event, or "no"
    ops, topics

window == <<proj, opening, show>>
link == <<conn, expired, sub, joined>>
store == <<list, cursors, fresh, told, view>>
peers == <<here, over, hot, time, last, rested, swallowed>>
edits == <<row, lost>>
presenceVars == <<window, link, inbox, store, peers, edits, ops, topics>>

Acts(topic) == topic \in topics /\ ops < MaxOps /\ ops' = ops + 1 /\ UNCHANGED topics
Quiet == UNCHANGED <<ops, topics>>

Abs(n) == IF n < 0 THEN -n ELSE n
NoCursor == [target |-> Null, visible |-> FALSE, head |-> Null]
Message(kind, who, val) == [kind |-> kind, who |-> who, val |-> val]

\* What is under way is dropped; an event of the clip is then never applied.
Waiting(kinds, u) == \E i \in 1 .. Len(inbox) : inbox[i].kind \in kinds /\ u \in inbox[i].who
ClipWaits == \E u \in People : Waiting({"clip"}, u)
Cleared(why) == inbox' = <<>> /\ lost' = IF lost = "no" /\ ClipWaits THEN why ELSE lost

\* The members of the channel of the project on the screen.
Present == IF proj = Shared THEN {UserOf[t] : t \in here} ELSE {}
Members == Present \cup {Me}
\* What is sent on the channel of Shared reaches this tab while it is subscribed to it.
Hears == joined /\ proj = Shared
Sent(msgs) == inbox' = IF Hears THEN inbox \o msgs ELSE inbox

\* collabStore: setCursor, an absent cursor being made with its defaults.
CursorSet(u, patch) ==
    LET old == IF cursors[u] = NoCursor
               THEN [target |-> "viewport", visible |-> TRUE, head |-> Null] ELSE cursors[u]
    IN cursors' = [cursors EXCEPT ![u] =
                     [f \in DOMAIN old |-> IF f \in DOMAIN patch THEN patch[f] ELSE old[f]]]
\* removeCollaborator, which takes the cursor too.  Mutation: it leaves the cursor.
RemovedFromList(u) ==
    list' = list \ {u} /\ told' = told \ {u} /\ UNCHANGED <<cursors, fresh>>
Removed(u) ==
    /\ list' = list \ {u} /\ told' = told \ {u}
    /\ fresh' = fresh \ {u} /\ cursors' = [cursors EXCEPT ![u] = NoCursor]
\* setCollaborators with the members of subscription_succeeded; the cursors stay.
Listed(members) == list' = members /\ fresh' = {} /\ told' = {} /\ UNCHANGED cursors

(***************************************************************************)
(* The subscription.  Pusher-js asks for the channel again whenever its    *)
(* connection is back, and asks the backend for a signature each time; a   *)
(* refusal is final until then.                                            *)
(***************************************************************************)
\* usePresence and useOperationSync: the project to follow, Null while Collab is off.
Followed(p, on) == IF on THEN p ELSE Null
\* Their effects, when that has changed: the clean-up, and the new subscription.
\* Mutation: the clean-up forgets the list of collaborators.
ResubscribedKeeping(to) ==
    /\ UNCHANGED <<cursors, fresh, told, list>>
    /\ Cleared("away") /\ joined' = FALSE
    /\ sub' = IF to = Null THEN "none" ELSE IF conn THEN "auth" ELSE "waits"
Resubscribed(to) ==
    /\ list' = {} /\ UNCHANGED <<cursors, fresh, told>>
    /\ Cleared("away") /\ joined' = FALSE
    /\ sub' = IF to = Null THEN "none" ELSE IF conn THEN "auth" ELSE "waits"

\* The authorizer posts the latest access token; a stale one is refused and nothing asks again.
Authorized ==
    /\ sub = "auth"
    /\ sub' = IF expired THEN "refused" ELSE "asked"
    /\ Quiet /\ UNCHANGED <<window, conn, expired, joined, inbox, store, peers, edits>>

\* The service takes the subscription and answers with the members.
Join ==
    /\ sub = "asked" /\ ~joined
    /\ joined' = TRUE
    /\ inbox' = Append(inbox, Message("succeeded", Members, 0))
    /\ Quiet /\ UNCHANGED <<window, conn, expired, sub, store, peers, edits>>

\* useOperationSync: the clip of an event is taken over unless the user made the edit.
\* Mutation: only then.
AppliedOwn(u, clip) == view' = IF u # Me THEN view ELSE clip
Applied(u, clip) == view' = IF u = Me THEN view ELSE clip

\* The next message is handed to the handlers bound to its name.
Heard(msg) ==
    LET u == CHOOSE w \in msg.who : TRUE IN
    CASE msg.kind = "succeeded" -> Listed(msg.who) /\ sub' = "in" /\ UNCHANGED view
      [] msg.kind = "added" ->
             /\ list' = list \cup {u}
             /\ UNCHANGED <<sub, cursors, fresh, told, view>>
      [] msg.kind = "removed" -> Removed(u) /\ UNCHANGED <<sub, view>>
      [] msg.kind \in Panels ->
             /\ CursorSet(u, [target |-> msg.kind, visible |-> msg.val = 1])
             /\ fresh' = fresh \cup {u} /\ UNCHANGED <<sub, list, told, view>>
      [] msg.kind = "head" ->
             /\ CursorSet(u, [head |-> msg.val])
             /\ fresh' = fresh \cup {u} /\ told' = told \cup {u} /\ UNCHANGED <<sub, list, view>>
      [] msg.kind = "clip" ->
             /\ Applied(u, msg.val)
             /\ UNCHANGED <<sub, list, cursors, fresh, told>>

Deliver ==
    /\ inbox # <<>>
    /\ inbox' = Tail(inbox)
    /\ Heard(Head(inbox))
    /\ Quiet /\ UNCHANGED <<window, conn, expired, joined, peers, edits>>

(***************************************************************************)
(* What the user of this tab and its network do.                           *)
(***************************************************************************)
\* The Collab button.
ToggleCollab ==
    /\ Acts("switch")
    /\ show' = ~show
    /\ Resubscribed(Followed(proj, show'))
    /\ UNCHANGED <<proj, opening, conn, expired, view, peers, row>>

\* loadProjectFromApi: a project is read, and shown when the answer is there.  The one on
\* the screen is read again when it is chosen again, and after addTrack.
OpenProject(p) ==
    /\ Acts("switch") /\ opening = Null
    /\ opening' = [to |-> p, clip |-> row]
    /\ UNCHANGED <<proj, show, link, inbox, store, peers, edits>>

Opened ==
    /\ opening # Null
    /\ proj' = opening.to /\ view' = opening.clip /\ opening' = Null
    /\ IF show /\ opening.to # proj
       THEN Resubscribed(opening.to)
       ELSE /\ lost' = IF lost = "no" /\ opening.clip # row /\ ~ClipWaits THEN "reload" ELSE lost
            /\ UNCHANGED <<list, cursors, fresh, told, inbox, joined, sub>>
    /\ Quiet /\ UNCHANGED <<show, conn, expired, peers, row>>

\* The connection breaks: the channel forgets its members, the store does not.
Drop ==
    /\ Acts("drop") /\ conn
    /\ conn' = FALSE /\ joined' = FALSE /\ Cleared("offline")
    /\ sub' = IF sub = "none" THEN sub ELSE "waits"
    /\ UNCHANGED <<window, expired, store, peers, row>>

Reconnect ==
    /\ ~conn
    /\ conn' = TRUE /\ sub' = IF sub = "waits" THEN "auth" ELSE sub
    /\ Quiet /\ UNCHANGED <<window, expired, joined, inbox, store, peers, edits>>

Expire ==
    /\ Acts("token") /\ ~expired
    /\ expired' = TRUE
    /\ UNCHANGED <<window, conn, sub, joined, inbox, store, peers, edits>>

\* Some other request was refused and has refreshed the token.
Refresh ==
    /\ expired
    /\ expired' = FALSE
    /\ Quiet /\ UNCHANGED <<window, conn, sub, joined, inbox, store, peers, edits>>

(***************************************************************************)
(* What the other tabs do.                                                 *)
(***************************************************************************)
Come(t) ==
    /\ Acts("people") /\ t \notin here
    /\ here' = here \cup {t}
    /\ Sent(IF UserOf[t] \in Members THEN <<>> ELSE <<Message("added", {UserOf[t]}, 0)>>)
    /\ UNCHANGED <<window, link, store, over, hot, time, last, rested, swallowed, edits>>

Go(t) ==
    /\ Acts("people") /\ t \in here
    /\ here' = here \ {t}
    /\ Sent(IF UserOf[t] = Me \/ \E s \in here' : UserOf[s] = UserOf[t]
            THEN <<>> ELSE <<Message("removed", {UserOf[t]}, 0)>>)
    /\ UNCHANGED <<window, link, store, over, hot, time, last, rested, swallowed, edits>>

\* broadcastCursor and broadcast: at most once in 80 and 60 ms, the leaving included.
Broadcast(t, panel, visible) ==
    /\ \/ Sent(IF panel \notin hot[t] /\ t \in here
               THEN <<Message(panel, {UserOf[t]}, visible)>> ELSE <<>>)
       \/ "loss" \in topics /\ UNCHANGED inbox
    /\ hot' = [hot EXCEPT ![t] = @ \cup {panel}]

Point(t, panel) ==
    /\ Acts("pointer") /\ over[t] \in {Null, panel}
    /\ over' = [over EXCEPT ![t] = panel]
    /\ Broadcast(t, panel, 1)
    /\ UNCHANGED <<window, link, store, here, time, last, rested, swallowed, edits>>

PointAway(t) ==
    /\ Acts("pointer") /\ over[t] # Null
    /\ over' = [over EXCEPT ![t] = Null]
    /\ Broadcast(t, over[t], 0)
    /\ UNCHANGED <<window, link, store, here, time, last, rested, swallowed, edits>>

\* Half a second and more goes by.
Rest(t) ==
    /\ ~rested[t] \/ hot[t] # {}
    /\ rested' = [rested EXCEPT ![t] = TRUE] /\ hot' = [hot EXCEPT ![t] = {}]
    /\ Quiet /\ UNCHANGED <<window, link, inbox, store, here, over, time, last, swallowed, edits>>

\* The playhead is told if half a second has passed since it last was, or if it
\* has moved by 200 ms since.  Mutation: only if both are so, as the comment has it.
ToldBoth(t, x) == rested[t] /\ Abs(x - last[t]) >= 2
Told(t, x) == rested[t] \/ Abs(x - last[t]) >= 2

\* currentTimeMs changes in another tab, and its effect runs.
Seek(t, x) ==
    /\ Acts("seek") /\ x # time[t]
    /\ time' = [time EXCEPT ![t] = x]
    /\ IF Told(t, x)
       THEN /\ rested' = [rested EXCEPT ![t] = FALSE] /\ last' = [last EXCEPT ![t] = x]
            /\ \/ /\ Sent(IF t \in here THEN <<Message("head", {UserOf[t]}, x)>> ELSE <<>>)
                  /\ swallowed' = swallowed \ {t}
               \/ "loss" \in topics /\ swallowed' = swallowed \cup {t} /\ UNCHANGED inbox
       ELSE UNCHANGED <<rested, last, swallowed, inbox>>
    /\ UNCHANGED <<window, link, store, here, over, hot, edits>>

\* Another tab edits the clip: the row is written, then the event is published,
\* and a publication that fails is only logged.
Edit(t, published) ==
    /\ Acts("edit")
    /\ published \/ "outage" \in topics
    /\ row' = row + 1
    /\ Sent(IF published THEN <<Message("clip", {UserOf[t]}, row')>> ELSE <<>>)
    /\ lost' = CASE ~published -> "outage"
                 [] published /\ ~Hears -> IF conn THEN "away" ELSE "offline"
                 [] published /\ Hears -> IF UserOf[t] = Me THEN "own" ELSE "no"
    /\ UNCHANGED <<window, link, store, peers>>

PresenceInit ==
    /\ proj = Shared /\ opening = Null /\ show = TRUE
    /\ conn = TRUE /\ expired = FALSE /\ sub = "auth" /\ joined = FALSE
    /\ inbox = <<>> /\ list = {} /\ fresh = {} /\ told = {} /\ view = 0
    /\ cursors = [u \in People |-> NoCursor]
    /\ here \in SUBSET Others
    /\ over = [t \in Others |-> Null] /\ hot = [t \in Others |-> {}]
    /\ time = [t \in Others |-> 0] /\ last = time /\ rested = [t \in Others |-> TRUE]
    /\ swallowed = {} /\ row = 0 /\ lost = "no" /\ ops = 0 /\ topics \in TopicSets

PresenceNext ==
    \/ Authorized \/ Join \/ Deliver \/ ToggleCollab \/ Opened
    \/ Drop \/ Reconnect \/ Expire \/ Refresh
    \/ \E p \in Projects : OpenProject(p)
    \/ \E t \in Others : Come(t) \/ Go(t) \/ PointAway(t) \/ Rest(t)
    \/ \E t \in Others, panel \in Panels : Point(t, panel)
    \/ \E t \in Others, x \in Times : Seek(t, x)
    \/ \E t \in Others, published \in BOOLEAN : Edit(t, published)

\* The service answers and delivers, requests are answered, pusher-js reconnects.
PresenceFairness ==
    /\ WF_presenceVars(Authorized) /\ WF_presenceVars(Join) /\ WF_presenceVars(Deliver)
    /\ WF_presenceVars(Opened) /\ WF_presenceVars(Reconnect)
PresenceSpec == PresenceInit /\ [][PresenceNext]_presenceVars /\ PresenceFairness

(***************************************************************************)
(* What is drawn.                                                          *)
(***************************************************************************)
\* topbar/Presence: the collaborators but oneself.
Avatars == list \ {Me}
\* RemoteCursors and Timeline: every cursor of the store, whoever it belongs to.
Pointers == IF show THEN {u \in People : cursors[u].target \in Panels /\ cursors[u].visible} ELSE {}
\* Timeline: the playheads of collaborators.
Playheads == IF show THEN {u \in list : cursors[u].head # Null} ELSE {}

(***************************************************************************)
(* Properties                                                              *)
(***************************************************************************)
Losses == {"no", "outage", "away", "offline", "own", "reload"}
Kinds == {"succeeded", "added", "removed", "head", "clip"} \cup Panels
\* Types; a subscription that is known to hold is one the service knows of.
PresenceTypeOK ==
    /\ proj \in Projects /\ show \in BOOLEAN /\ conn \in BOOLEAN /\ expired \in BOOLEAN
    /\ opening = Null \/ opening \in [to : Projects, clip : 0 .. MaxOps]
    /\ sub \in {"none", "waits", "auth", "asked", "in", "refused"} /\ joined \in BOOLEAN
    /\ \A i \in 1 .. Len(inbox) : inbox[i] \in [kind : Kinds, who : SUBSET People, val : Nat]
    /\ list \subseteq People /\ fresh \subseteq People /\ told \subseteq fresh /\ view \in 0 .. row
    /\ cursors \in [People -> [target : Panels \cup {Null}, visible : BOOLEAN, head : Times \cup {Null}]]
    /\ here \subseteq Others /\ over \in [Others -> Panels \cup {Null}] /\ hot \in [Others -> SUBSET Panels]
    /\ time \in [Others -> Times] /\ last \in [Others -> Times] /\ rested \in [Others -> BOOLEAN]
    /\ swallowed \subseteq Others /\ row \in 0 .. MaxOps /\ lost \in Losses /\ topics \in TopicSets
    /\ (sub = "in" => joined) /\ (joined => conn /\ show /\ sub \in {"asked", "in"})

\* Whether somebody is listed when the first n messages of q have been handled: the last
\* of them to say so decides, or else the list as it is.
Tells(msg, u) == msg.kind = "succeeded" \/ (msg.kind \in {"added", "removed"} /\ u \in msg.who)
ListedAfter(l, q, n, u) ==
    \/ u \in l /\ \A i \in 1 .. n : ~Tells(q[i], u)
    \/ \E i \in 1 .. n : /\ q[i].kind \in {"succeeded", "added"} /\ u \in q[i].who
                         /\ \A j \in i + 1 .. n : ~Tells(q[j], u)

\* The avatars are those of the channel's members, once what is under way has arrived:
\* nobody is listed twice or left behind when people with two tabs come and go, after
\* another project, the Collab button or a broken connection.
RosterTrue ==
    joined => \A u \in People : ListedAfter(list, inbox, Len(inbox), u) <=> u \in Members

\* A pointer that is drawn and came since the last list of members belongs to a
\* collaborator who is listed: leaving takes it away, and no message brings it back.
NoFreshGhosts == sub = "in" => (Pointers \cap fresh) \subseteq list

\* Types, the list, and the pointers that belong to it.
PresenceOK == PresenceTypeOK /\ RosterTrue /\ NoFreshGhosts

\* The playhead drawn for somebody is within 200 ms of where theirs is, when the tab is
\* on the channel and nothing of theirs is under way, however the throttle's clock and
\* their seeks fall; a lost one is made good by the next that is told.
PlayheadsNear ==
    \A t \in Others \ swallowed :
        LET u == UserOf[t] IN
        /\ u \in Playheads \cap told /\ sub = "in" /\ ~Waiting({"head", "removed"}, u)
        /\ u # Me /\ \A s \in Others \ {t} : UserOf[s] # u
        => Abs(time[t] - cursors[u].head) < 2

\* A tab that shows an old clip has a reason: the event of the last edit was lost, or sent
\* while the tab was off the channel, or skipped as its own user's; or an answer that was
\* read before the edit came after its event; or the event is under way.  No event that is
\* handled leaves the clip old, and no old event is handled last.
StaleIsMissed == proj = Shared => view = row \/ lost # "no" \/ ClipWaits

\* In the end the tab is on the channel of its project, unless it was refused; on the
\* channel it lists its members, with Collab off nobody.  Refused, it lists nobody either,
\* but for the tab whose connection broke: it keeps the list it had.
PresenceSettles ==
    <>[](/\ show => sub \in {"in", "refused"}
         /\ sub = "in" => Avatars = Members \ {Me}
         /\ ~show \/ (sub # "in" /\ "drop" \notin topics) => Avatars = {})
=============================================================================
