------------------------------ MODULE Members ------------------------------
(***************************************************************************)
(* The members of a workspace: MembersPanel.tsx in the tab of Navigator,   *)
(* and the handlers of backend/src/workspaces/mod.rs that it calls, with   *)
(* other admins who call them at the same time.                            *)
(*                                                                         *)
(* A handler reads the caller's role, then the target's, then writes: three*)
(* statements without a transaction.  The panel shows the list it was last *)
(* given, and mends it by hand after its own changes.  An invitation is a  *)
(* row that nothing reads, so that nobody ever joins.                      *)
(***************************************************************************)
EXTENDS Navigator, SequencesExt

CONSTANTS
    OthersGive,  \* the roles that other admins give
    MaxChanges,  \* bound on what is done with panels
    MaxChoices   \* bound on the flows beside a panel

\* The roles that can be given.
Granted == Roles \ {"owner"}
ASSUME OthersGiveRoles == OthersGive \subseteq Granted /\ MaxChanges \in Nat

(* The kinds of faults of Navigator's that are of here: "panel", the panel is used, and *)
(* "rivals", other admins change the members, too.  Signing out unmounts the panel, and *)
(* who signs in might be one of the others: not of this module.                         *)
ASSUME OneUserAtThePanel ==
    \A f \in FaultSets : f \cap {"panel", "rivals"} # {} => "users" \notin f

VARIABLES
    panel,   \* the panel: on screen, its list (user -> role), loading, error
    asks,    \* the requests on their way, with how far the handler is
    changes  \* how much was done

mvars == <<vars, panel, asks, changes>>

NoRows == [u \in Users |-> None]
Mine(r) == r.by = user

\* project.workspace; the mock's is a name that no workspace has.
PanelWs == IF store.id \in Projects THEN home[store.id] ELSE store.id

MembersTypeOK ==
    /\ panel \in [open : BOOLEAN, rows : [Users -> Roles \cup {None}], loading : BOOLEAN, error : BOOLEAN]
    /\ \A i \in 1 .. Len(asks) :
         /\ asks[i].what \in {"list", "role", "remove", "invite"}
         /\ asks[i].at \in {"check", "see", "act", "ok", "failed"}
         /\ asks[i].at \in {"ok", "failed"} => Mine(asks[i])
         /\ asks[i].by \in Users /\ asks[i].ws \in Workspaces \cup {Mock}
    /\ changes \in 0 .. MaxChanges

MembersInit ==
    /\ NavInit
    /\ panel = [open |-> FALSE, rows |-> NoRows, loading |-> FALSE, error |-> FALSE]
    /\ asks = <<>> /\ changes = 0

Ask(what, by, ws, of, to) ==
    [what |-> what, by |-> by, ws |-> ws, of |-> of, to |-> to, at |-> "check", rows |-> NoRows]
-----------------------------------------------------------------------------
(* The panel.                                                                *)

\* load: nothing without a project.
LoadInto(p, queue, ws) ==
    IF ws = None THEN panel' = p /\ asks' = queue
    ELSE /\ panel' = [p EXCEPT !.loading = TRUE, !.error = FALSE]
         /\ asks' = Append(queue, Ask("list", user, ws, None, None))

\* Mutation of PanelEffect: its effect does not name the workspace.
PanelEffectOnce == UNCHANGED <<panel, asks>>

\* Its effect, after a step of the rest of the tab.
PanelEffect ==
    IF panel.open /\ PanelWs' # PanelWs THEN LoadInto(panel, asks, PanelWs')
    ELSE UNCHANGED <<panel, asks>>

\* A patient user waits for what is on its way.
Patient == May("overlap") \/ (Quiet /\ \A i \in 1 .. Len(asks) : ~Mine(asks[i]))
Uses ==
    /\ May("panel") /\ ~BootDue /\ Shown /\ Patient
    /\ changes < MaxChanges /\ changes' = changes + 1
    /\ UNCHANGED vars

TogglePanel ==
    /\ Uses
    /\ LET p == [panel EXCEPT !.open = ~@] IN
       IF p.open THEN LoadInto(p, asks, PanelWs) ELSE panel' = p /\ UNCHANGED asks

\* The rows that have a menu and a bin.
CanModify(u) ==
    /\ panel.open /\ ~panel.loading /\ ~panel.error
    /\ CanManage /\ u # user /\ panel.rows[u] \notin {None, "owner"}

\* What is sent names the workspace of the project that is shown now.
Sends(what, u, role) ==
    /\ Uses /\ PanelWs # None
    /\ asks' = Append(asks, Ask(what, user, PanelWs, u, role))
    /\ UNCHANGED panel

RoleChange(u, role) == CanModify(u) /\ role # panel.rows[u] /\ Sends("role", u, role)
RemoveMember(u) == CanModify(u) /\ Sends("remove", u, None)
\* The button waits for an answer, but the Enter key does not.
Invite == panel.open /\ CanManage /\ Sends("invite", None, None)

\* The panels of other admins.  A request that is refused changes nothing, so those that
\* their panels would not offer are left out.
Rival(u, what, w, of, role) ==
    /\ May("rivals") /\ ~BootDue /\ changes < MaxChanges /\ changes' = changes + 1
    /\ u \notin {user, of} /\ AtLeast(member[w][u], "admin")
    /\ member[w][of] \notin {None, "owner"} /\ (what = "role" => role # member[w][of])
    /\ asks' = Append(asks, Ask(what, u, w, of, IF what = "role" THEN role ELSE None))
    /\ UNCHANGED <<vars, panel>>
-----------------------------------------------------------------------------
(* The handlers, one statement at a time.                                    *)

\* Nobody waits for the answer to what is not of this tab.
EndsAsk(i, at) ==
    asks' = IF Mine(asks[i]) THEN [asks EXCEPT ![i].at = at] ELSE RemoveAt(asks, i)
Row(r) == IF r.ws \in Workspaces THEN member[r.ws] ELSE NoRows

\* require_workspace_role
CheckRole(i) ==
    LET r == asks[i] IN
    /\ r.at = "check"
    /\ IF AtLeast(Row(r)[r.by], IF r.what = "list" THEN "viewer" ELSE "admin")
       THEN asks' = [asks EXCEPT ![i].at = IF r.what \in {"role", "remove"} THEN "see" ELSE "act"]
       ELSE EndsAsk(i, "failed")
    /\ UNCHANGED <<vars, panel, changes>>

\* The owner is left alone.
SeeTarget(i) ==
    LET r == asks[i] IN
    /\ r.at = "see"
    /\ IF Row(r)[r.of] \in {None, "owner"} THEN EndsAsk(i, "failed")
       ELSE asks' = [asks EXCEPT ![i].at = "act"]
    /\ UNCHANGED <<vars, panel, changes>>

\* Mutation of Written: a row that is gone is inserted again.
WrittenAnew(r) == [member EXCEPT ![r.ws][r.of] = r.to]

\* UPDATE and DELETE of the row, if there is one.
Written(r) == [member EXCEPT ![r.ws][r.of] = IF @ = None THEN None ELSE r.to]

WriteMember(i) ==
    LET r == asks[i] IN
    /\ r.at = "act" /\ r.what \in {"role", "remove"}
    /\ member' = Written(r)
    /\ EndsAsk(i, IF r.what = "role" /\ Row(r)[r.of] = None THEN "failed" ELSE "ok")
    /\ UNCHANGED <<spaces, home, archived, recent, edits, user, store, flow, busy, flows, faults,
                   panel, changes>>

ListMembers(i) ==
    /\ asks[i].at = "act" /\ asks[i].what \in {"list", "invite"}
    /\ asks' = [asks EXCEPT ![i].at = "ok", ![i].rows = Row(asks[i])]
    /\ UNCHANGED <<vars, panel, changes>>

\* A request of the tab fails on its way, or its answer does.
LoseAsk(i) ==
    /\ May("net") /\ Mine(asks[i]) /\ asks[i].at # "failed"
    /\ asks' = [asks EXCEPT ![i].at = "failed"]
    /\ UNCHANGED <<vars, panel, changes>>
-----------------------------------------------------------------------------
(* The answers.                                                              *)

\* A list is shown whatever workspace is shown by now, and the list on screen is mended
\* whatever workspace it is of.  After an invitation that of the click is loaded again.
HearOk(r, rest) ==
    \/ /\ r.what = "list"
       /\ panel' = [panel EXCEPT !.rows = r.rows, !.loading = FALSE] /\ asks' = rest
    \/ /\ r.what \in {"role", "remove"}
       /\ panel' = [panel EXCEPT !.rows[r.of] = IF @ = None THEN None ELSE r.to] /\ asks' = rest
    \/ r.what = "invite" /\ LoadInto(panel, rest, r.ws)

HearFailed(r, rest) ==
    /\ panel' = [panel EXCEPT !.error = @ \/ r.what # "invite",
                              !.loading = @ /\ r.what # "list"]
    /\ asks' = rest

Hear(i) ==
    LET r == asks[i]
        rest == RemoveAt(asks, i) IN
    /\ \/ r.at = "ok" /\ HearOk(r, rest)
       \/ r.at = "failed" /\ HearFailed(r, rest)
    /\ UNCHANGED <<vars, changes>>

\* The rest of the tab goes on beside the panel; beside rivals, what is under way ends.
Elsewhere ==
    /\ NavNext /\ PanelEffect /\ UNCHANGED changes
    /\ May("panel") => flows' = flows \/ (flows < MaxChoices /\ ~May("rivals") /\ Patient)

MembersNext ==
    \/ Elsewhere
    \/ TogglePanel \/ Invite
    \/ \E u \in Users : RemoveMember(u) \/ \E role \in Granted : RoleChange(u, role)
    \/ \E u, of \in Users, w \in Workspaces, what \in {"role", "remove"}, role \in OthersGive :
         Rival(u, what, w, of, role)
    \/ /\ ~BootDue
       /\ \E i \in 1 .. Len(asks) :
            CheckRole(i) \/ SeeTarget(i) \/ WriteMember(i) \/ ListMembers(i) \/ LoseAsk(i) \/ Hear(i)

MembersSpec == /\ MembersInit /\ [][MembersNext]_mvars
               /\ WF_vars(Boot) /\ \A i \in Slots : WF_vars(~BootDue /\ (Serve(i) \/ Answer(i)))
-----------------------------------------------------------------------------
(* Properties.                                                               *)

\* The members on screen are those of the project's workspace, whatever failed and
\* whatever the user did, if one thing was done after the other and by nobody else.
PanelTrue ==
    (/\ faults \cap {"overlap", "rivals", "users"} = {}
     /\ Quiet /\ asks = <<>> /\ panel.open /\ ~panel.error /\ PanelWs \in Workspaces)
       => panel.rows = member[PanelWs]

\* Types, what is shown at rest, and whom the panel shows.
MembersOK == NavOK /\ MembersTypeOK /\ PanelTrue

\* However the reads and writes of several admins fall, a workspace keeps its one owner,
\* and who was removed stays so: a change of role that began before does not bring
\* a member back.
MembersKept ==
    [][\A w \in Workspaces : \A u \in Users :
         /\ member[w][u] = "owner" => member'[w][u] = "owner"
         /\ member'[w][u] = "owner" =>
              member[w][u] = "owner" \/ \A v \in Users : member[w][v] = None
         /\ (member[w][u] = None /\ member'[w][u] # None) => \A k \in 1 .. Len(spaces) : spaces[k] # w]_mvars
=============================================================================
