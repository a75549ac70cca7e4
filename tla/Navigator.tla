----------------------------- MODULE Navigator -----------------------------
(***************************************************************************)
(* Workspaces and projects as one tab moves through them: the start of     *)
(* App.tsx, the asynchronous actions of projectStore.ts, the selectors and *)
(* dialogs that call them, and the handlers of backend/src/workspaces and  *)
(* backend/src/projects.                                                   *)
(*                                                                         *)
(* Each action is a flow: a chain of calls with an assignment to the store *)
(* after each answer.  Nothing keeps a second flow from starting while one *)
(* is on its way, and no flow looks whether the store is still as it left  *)
(* it.                                                                     *)
(***************************************************************************)
EXTENDS Naturals, Sequences

CONSTANTS
    Users, Workspaces, Projects,
    Here,      \* the users of this tab
    Made,      \* the workspaces there are at first, oldest first
    Members0,  \* their members: workspace -> user -> role or None
    Home0,     \* the projects there are at first: project -> workspace or None
    Recent0,   \* ... most recently changed first
    Mock,      \* the project that is shown when the backend is not there
    MaxFlows,  \* bound on the flows in a behaviour
    FaultSets, \* the sets of faults that may come together
    None

(***************************************************************************)
(* "net"      a call fails, before or after it is served                   *)
(* "overlap"  a flow starts while another is on its way                    *)
(* "users"    the user signs out and another one signs in                  *)
(* "panel" and "rivals" are those of module Members                        *)
(***************************************************************************)
FaultKinds == {"net", "overlap", "users", "panel", "rivals"}
Roles == {"owner", "admin", "editor", "viewer"}
Slots == 1 .. 2  \* bound on the flows at a time
Rows == 1 .. 3   \* bound on the rows of a list

ASSUME NavNames ==
    /\ None \notin Users \cup Workspaces \cup Projects \cup Roles
    /\ Mock \notin Projects \cup Workspaces \cup {None}
ASSUME NavUsers == Here \subseteq Users /\ MaxFlows \in Nat
ASSUME NavTables ==
    /\ Made \in Seq(Workspaces) /\ Members0 \in [Workspaces -> [Users -> Roles \cup {None}]]
    /\ \A w \in Workspaces :
         (\A k \in 1 .. Len(Made) : Made[k] # w) => \A u \in Users : Members0[w][u] = None
    /\ Home0 \in [Projects -> {Made[k] : k \in 1 .. Len(Made)} \cup {None}]
    /\ Recent0 \in Seq(Projects)
ASSUME NavFaultsKnown == FaultSets \subseteq SUBSET FaultKinds

VARIABLES
    spaces,   \* the rows of workspaces, oldest first
    member,   \* workspace_members.role
    home,     \* projects.workspace_id, None for a project not yet made
    archived, \* projects.archived
    recent,   \* the rows of projects by updated_at, the newest first
    edits,    \* how often a project's row was changed: stands for its name, fps, size
    user,     \* who is signed in
    store,    \* projectStore: the workspace, the role, both lists, the project shown
    flow,     \* the flows on their way
    busy,     \* WorkspaceProjectSelector: the create rows are disabled
    flows,    \* how many flows there were
    faults    \* what may go wrong in this behaviour; it never changes

server == <<spaces, member, home, archived, recent, edits>>
vars == <<server, user, store, flow, busy, flows, faults>>

May(f) == f \in faults
Kinds == {"boot", "select", "open", "create", "createWs", "archive", "track", "update"}
NoAnswer == [how |-> "no", val |-> None]
NoFlow == [kind |-> "no", call |-> "no", ws |-> None, pj |-> None, by |-> None,
           live |-> FALSE, alone |-> FALSE, ans |-> NoAnswer]

\* What a sequence has of a set, in its order.
Sift(s, S) ==
    LET F[k \in 0 .. Len(s)] ==
          IF k = 0 THEN <<>> ELSE IF s[k] \in S THEN Append(F[k - 1], s[k]) ELSE F[k - 1]
    IN  F[Len(s)]

\* The first page of projects of a workspace, as the server has it.
ListOf(w) == Sift(recent, {p \in Projects : home[p] = w /\ p \notin archived})
RoleOf(w, u) == IF w = None \/ u = None THEN None ELSE member[w][u]
AtLeast(r, least) ==
    r \in CASE least = "viewer" -> Roles
            [] least = "editor" -> {"owner", "admin", "editor"}
            [] least = "admin"  -> {"owner", "admin"}

NavTypeOK ==
    /\ \A i \in 1 .. Len(spaces) : spaces[i] \in Workspaces
    /\ member \in [Workspaces -> [Users -> Roles \cup {None}]]
    /\ home \in [Projects -> Workspaces \cup {None}] /\ archived \subseteq Projects
    /\ edits \in [Projects -> Nat]
    /\ user \in Users \cup {None}
    /\ store.ws \in Workspaces \cup {None} /\ store.role \in Roles \cup {None}
    /\ store.id \in Projects \cup {Mock, None}
    /\ store.ws # None => store.role # None
    /\ \A i \in Slots :
         /\ flow[i].kind \in Kinds \cup {"no"} /\ flow[i].by \in Users \cup {None}
         /\ flow[i].live => store.id = None /\ user # None
    /\ busy \in BOOLEAN /\ flows \in 0 .. MaxFlows /\ faults \in FaultSets

NavInit ==
    /\ spaces = Made /\ member = Members0 /\ home = Home0 /\ recent = Recent0
    /\ archived = {} /\ edits = [p \in Projects |-> 0]
    /\ user \in Here
    /\ store = [ws |-> None, role |-> None, spaces |-> <<>>, list |-> <<>>,
                id |-> None, of |-> None, edits |-> 0]
    /\ flow = [i \in Slots |-> NoFlow]
    /\ busy = FALSE /\ flows = 0 /\ faults \in FaultSets
-----------------------------------------------------------------------------
(* Flows.                                                                    *)

Quiet == \A i \in Slots : flow[i].kind = "no"
BootDue == user # None /\ store.id = None /\ \A i \in Slots : ~flow[i].live

\* The calls that are started with the run() of the selector.
Run == {"select", "open", "create", "createWs", "archive"}

\* A flow begins; those on their way are no longer alone.
Begin(i, f) ==
    /\ flow[i].kind = "no" /\ \A j \in 1 .. i - 1 : flow[j].kind # "no"
    /\ Quiet \/ May("overlap")
    /\ flow' = [j \in Slots |-> IF j = i THEN [f EXCEPT !.by = user, !.alone = Quiet]
                                ELSE [flow[j] EXCEPT !.alone = FALSE]]
    /\ busy' = (busy \/ f.kind \in Run)

\* The next call of a flow.
Goes(i, f) ==
    flow' = [j \in Slots |-> IF j = i THEN [f EXCEPT !.by = user, !.ans = NoAnswer] ELSE flow[j]]

\* Once a project is shown a start that is still on its way is cancelled.
Ends(i) ==
    /\ flow' = [j \in Slots |->
                 IF j = i THEN NoFlow
                 ELSE [flow[j] EXCEPT !.live = @ /\ store'.id = None]]
    /\ busy' = (busy /\ flow[i].kind \notin Run)

\* The effect of App.tsx runs when somebody is signed in and no project is shown.
Boot ==
    /\ BootDue
    /\ \E i \in Slots :
         /\ flow[i].kind = "no" /\ \A j \in 1 .. i - 1 : flow[j].kind # "no"
         /\ flow' = [j \in Slots |->
              IF j = i THEN [NoFlow EXCEPT !.kind = "boot", !.call = "workspaces", !.by = user,
                                           !.live = TRUE, !.alone = Quiet]
              ELSE [flow[j] EXCEPT !.alone = FALSE]]
    /\ UNCHANGED <<server, user, store, busy, flows, faults>>

\* usePermissions, and what TopBar shows once a project is there.
Shown == user # None /\ store.id # None
CanEdit == AtLeast(store.role, "editor")
CanManage == AtLeast(store.role, "admin")
Making == \E i \in Slots : flow[i].kind \in {"create", "createWs"}
MakesOne == ~Making /\ (\E p \in Projects : home[p] = None)

\* The bound on flows; a click starts one.
Click(kind, call, w, p) ==
    /\ Shown /\ flows < MaxFlows
    /\ \E i \in Slots :
         Begin(i, [NoFlow EXCEPT !.kind = kind, !.call = call, !.ws = w, !.pj = p])
    /\ flows' = flows + 1
    /\ UNCHANGED <<server, user, faults>>

\* Mutation of SelectWorkspace: the role stays that of the workspace before.
SelectKeepsRole(k) ==
    /\ k \in 1 .. Len(store.spaces)
    /\ Click("select", "projects", store.spaces[k].id, None)
    /\ store' = [store EXCEPT !.ws = store.spaces[k].id]

\* selectWorkspace: the workspace and its role are set before the first call.
SelectWorkspace(k) ==
    /\ k \in 1 .. Len(store.spaces)
    /\ Click("select", "projects", store.spaces[k].id, None)
    /\ store' = [store EXCEPT !.ws = store.spaces[k].id, !.role = store.spaces[k].role]

SelectProject(k) ==
    k \in 1 .. Len(store.list) /\ Click("open", "get", store.ws, store.list[k]) /\ UNCHANGED store

CreateProject ==
    /\ store.ws # None /\ ~busy /\ MakesOne
    /\ Click("create", "make", store.ws, None) /\ UNCHANGED store

CreateWorkspace ==
    /\ ~busy /\ MakesOne
    /\ \E w \in Workspaces : \A k \in 1 .. Len(spaces) : spaces[k] # w
    /\ Click("createWs", "makeWs", None, None) /\ UNCHANGED store

ArchiveProject(k) ==
    /\ k \in 1 .. Len(store.list) /\ CanManage
    /\ Click("archive", "archive", None, store.list[k]) /\ UNCHANGED store

\* The button is disabled until the track is made and the project read again.
AddTrack ==
    /\ CanEdit /\ \A i \in Slots : flow[i].kind # "track"
    /\ Click("track", "track", None, store.id) /\ UNCHANGED store

\* The settings of the project shown; its button is disabled while they are saved.
UpdateProject ==
    /\ CanEdit /\ \E k \in 1 .. Len(store.list) : store.list[k] = store.id
    /\ \A i \in Slots : flow[i].kind # "update"
    /\ Click("update", "patch", store.ws, store.id) /\ UNCHANGED store
-----------------------------------------------------------------------------
(* The server.                                                               *)

Says(i, how, val) == flow' = [flow EXCEPT ![i].ans = [how |-> how, val |-> val]]
Denies(i) == Says(i, IF flow[i].by = None THEN "401" ELSE "failed", None)
Done(i, val) == Says(i, "ok", val) \/ (May("net") /\ Says(i, "failed", None))

\* require_workspace_role, for a workspace or for the one of a project that is not archived.
Grants(f, least) ==
    LET w == IF f.call \in {"projects", "make"} THEN f.ws
             ELSE IF f.pj \in Projects \ archived THEN home[f.pj] ELSE None
    IN  AtLeast(RoleOf(w, f.by), least)
Needs(call) == CASE call \in {"projects", "get"} -> "viewer"
                 [] call \in {"make", "tracks", "track", "patch"} -> "editor"
                 [] call = "archive" -> "admin"

Newest(p) == <<p>> \o Sift(recent, Projects \ {p})

\* list_workspaces: those the caller belongs to, with the caller's role.
SpacesOf(u) ==
    LET mine == Sift(spaces, {w \in Workspaces : member[w][u] # None})
    IN  [k \in 1 .. Len(mine) |-> [id |-> mine[k], role |-> member[mine[k]][u]]]

\* create_workspace makes the caller its owner.
ServeSpaces(i) ==
    \/ /\ flow[i].call = "workspaces"
       /\ Done(i, SpacesOf(flow[i].by)) /\ UNCHANGED server
    \/ /\ flow[i].call = "makeWs"
       /\ \E w \in Workspaces :
            /\ \A k \in 1 .. Len(spaces) : spaces[k] # w
            /\ spaces' = Append(spaces, w)
            /\ member' = [member EXCEPT ![w][flow[i].by] = "owner"]
            /\ Done(i, w)
       /\ UNCHANGED <<home, archived, recent, edits>>

\* Every change of a row of projects sets its updated_at; what belongs to it does not.
ServeProjects(i) ==
    LET f == flow[i] IN
    \/ f.call = "projects" /\ Done(i, ListOf(f.ws)) /\ UNCHANGED server
    \/ f.call = "get" /\ Done(i, edits[f.pj]) /\ UNCHANGED server
    \/ f.call \in {"tracks", "track"} /\ Done(i, None) /\ UNCHANGED server
    \/ /\ f.call = "make"
       /\ LET p == CHOOSE q \in Projects : home[q] = None IN
          home' = [home EXCEPT ![p] = f.ws] /\ recent' = Newest(p) /\ Done(i, p)
       /\ UNCHANGED <<spaces, member, archived, edits>>
    \/ /\ f.call = "patch"
       /\ edits' = [edits EXCEPT ![f.pj] = @ + 1] /\ recent' = Newest(f.pj)
       /\ Done(i, edits[f.pj] + 1)
       /\ UNCHANGED <<spaces, member, home, archived>>
    \/ /\ f.call = "archive"
       /\ archived' = archived \cup {f.pj} /\ recent' = Newest(f.pj)
       /\ Done(i, None)
       /\ UNCHANGED <<spaces, member, home, edits>>

Serve(i) ==
    /\ flow[i].kind # "no" /\ flow[i].ans.how = "no"
    /\ \/ flow[i].by # None /\ flow[i].call \in {"workspaces", "makeWs"} /\ ServeSpaces(i)
       \/ /\ flow[i].call \notin {"workspaces", "makeWs"} /\ Grants(flow[i], Needs(flow[i].call))
          /\ ServeProjects(i)
       \/ /\ flow[i].by = None \/ ( /\ flow[i].call \notin {"workspaces", "makeWs"}
                                    /\ ~Grants(flow[i], Needs(flow[i].call)) )
          /\ Denies(i) /\ UNCHANGED server
       \/ May("net") /\ Says(i, "failed", None) /\ UNCHANGED server
    /\ UNCHANGED <<user, store, busy, flows, faults>>
-----------------------------------------------------------------------------
(* The answers.                                                              *)

Show(p, n) == [store EXCEPT !.id = p, !.of = p, !.edits = n]
Cleared == [store EXCEPT !.id = None, !.of = None, !.edits = 0]
WithMock == [store EXCEPT !.role = "editor", !.id = Mock, !.of = Mock, !.edits = 0]
Answered(i, call) ==
    flow[i].kind # "no" /\ flow[i].call = call /\ flow[i].ans.how = "ok"
OnTo(i, call) == Goes(i, [flow[i] EXCEPT !.call = call]) /\ UNCHANGED busy

\* refreshWorkspaces, then the first workspace for a start, the new one for createWorkspace.
AnswerWorkspaces(i) ==
    /\ Answered(i, "workspaces")
    /\ LET f == flow[i]
           got == f.ans.val IN
       \/ /\ f.kind = "createWs"
          /\ store' = [store EXCEPT !.spaces = got, !.ws = f.ws, !.role = "owner", !.list = <<>>]
          /\ OnTo(i, "make")
       \/ /\ f.kind = "boot" /\ ~f.live
          /\ store' = [store EXCEPT !.spaces = got] /\ Ends(i)
       \/ /\ f.kind = "boot" /\ f.live /\ got = <<>>
          /\ store' = [WithMock EXCEPT !.spaces = <<>>] /\ Ends(i)
       \/ /\ f.kind = "boot" /\ f.live /\ got # <<>>
          /\ store' = [store EXCEPT !.spaces = got, !.ws = got[1].id, !.role = got[1].role]
          /\ Goes(i, [f EXCEPT !.call = "projects", !.ws = got[1].id]) /\ UNCHANGED busy
    /\ UNCHANGED <<server, user, flows, faults>>

\* Mutation of AfterArchive: the project that was archived may be shown again.
AfterArchiveFirst(i, got) ==
    /\ flow[i].kind = "archive"
    /\ IF store.id = None THEN store' = [Cleared EXCEPT !.list = got] /\ Ends(i)
       ELSE /\ store' = [store EXCEPT !.list = got]
            /\ Goes(i, [flow[i] EXCEPT !.call = "get", !.pj = store.id]) /\ UNCHANGED busy

\* archiveProject: the first project of the list that is not the one archived, or none.
AfterArchive(i, got) ==
    /\ flow[i].kind = "archive"
    /\ LET others == Sift(got, Projects \ {flow[i].pj}) IN
       IF others = <<>> THEN store' = [Cleared EXCEPT !.list = got] /\ Ends(i)
       ELSE /\ store' = [store EXCEPT !.list = got]
            /\ Goes(i, [flow[i] EXCEPT !.call = "get", !.pj = others[1]]) /\ UNCHANGED busy

\* refreshProjects: the list is stored whatever workspace is shown by now.
AnswerProjects(i) ==
    /\ Answered(i, "projects")
    /\ LET f == flow[i]
           got == f.ans.val
           listed == [store EXCEPT !.list = got] IN
       \/ AfterArchive(i, got)
       \/ f.kind \in {"create", "createWs"} /\ store' = listed /\ OnTo(i, "get")
       \/ f.kind = "update" /\ store' = listed /\ Ends(i)
       \/ /\ f.kind \in {"boot", "select"} /\ got # <<>>
          /\ store' = listed
          /\ Goes(i, [f EXCEPT !.call = "get", !.pj = got[1]]) /\ UNCHANGED busy
       \/ /\ f.kind \in {"boot", "select"} /\ got = <<>>
          /\ store' = IF f.live THEN [WithMock EXCEPT !.list = got] ELSE listed
          /\ Ends(i)
    /\ UNCHANGED <<server, user, flows, faults>>

\* loadProjectFromApi: the end of every flow but the update's; the last answer wins.
AnswerGet(i) ==
    /\ Answered(i, "get")
    /\ store' = Show(flow[i].pj, flow[i].ans.val)
    /\ Ends(i)
    /\ UNCHANGED <<server, user, flows, faults>>

\* The next call of createWorkspace, createProject and addTrack.
AnswerMade(i) ==
    /\ \/ /\ Answered(i, "makeWs")
          /\ Goes(i, [flow[i] EXCEPT !.call = "workspaces", !.ws = flow[i].ans.val])
       \/ /\ Answered(i, "make")
          /\ Goes(i, [flow[i] EXCEPT !.call = "tracks", !.pj = flow[i].ans.val])
       \/ Answered(i, "tracks") /\ Goes(i, [flow[i] EXCEPT !.call = "projects"])
       \/ Answered(i, "track") /\ Goes(i, [flow[i] EXCEPT !.call = "get"])
    /\ UNCHANGED <<server, user, store, busy, flows, faults>>

\* archiveProject lists the workspace that is shown now.
AnswerArchive(i) ==
    /\ Answered(i, "archive")
    /\ Goes(i, [flow[i] EXCEPT !.call = "projects", !.ws = store.ws])
    /\ UNCHANGED <<server, user, store, busy, flows, faults>>

\* updateProject: name, fps and size go to the project that is shown now, whichever it is.
AnswerPatch(i) ==
    /\ Answered(i, "patch")
    /\ store' = IF store.id = None THEN store
                ELSE [store EXCEPT !.of = flow[i].pj, !.edits = flow[i].ans.val]
    /\ OnTo(i, "projects")
    /\ UNCHANGED <<server, user, flows, faults>>

\* Mutation of Fail: a start that fails shows nothing instead of the mock project.
FailBlank(i) ==
    /\ flow[i].kind # "no" /\ flow[i].ans.how \in {"failed", "401"}
    /\ UNCHANGED store
    /\ user' = IF flow[i].live /\ flow[i].ans.how = "401" THEN None ELSE user
    /\ Ends(i)
    /\ UNCHANGED <<server, flows, faults>>

\* The first failure ends a flow where it is.  A start signs out on 401, else shows the mock.
Fail(i) ==
    /\ flow[i].kind # "no" /\ flow[i].ans.how \in {"failed", "401"}
    /\ store' = IF flow[i].live /\ flow[i].ans.how # "401" THEN WithMock ELSE store
    /\ user' = IF flow[i].live /\ flow[i].ans.how = "401" THEN None ELSE user
    /\ Ends(i)
    /\ UNCHANGED <<server, flows, faults>>

Answer(i) ==
    \/ AnswerWorkspaces(i) \/ AnswerProjects(i) \/ AnswerGet(i) \/ AnswerMade(i)
    \/ AnswerArchive(i) \/ AnswerPatch(i) \/ Fail(i)

\* The store stays as it is; the flows on their way go on.
Become(u) ==
    /\ user' = u
    /\ flow' = [j \in Slots |-> [flow[j] EXCEPT !.live = FALSE, !.alone = FALSE]]
    /\ UNCHANGED <<server, store, busy, flows, faults>>
SignOut == May("users") /\ user # None /\ Become(None)
SignIn(u) == user = None /\ (\E i \in Slots : flow[i].kind = "no") /\ Become(u)

\* The effect of App.tsx comes before whatever else may happen.
NavNext ==
    \/ Boot
    \/ /\ ~BootDue
       /\ \/ \E k \in Rows : SelectWorkspace(k) \/ SelectProject(k) \/ ArchiveProject(k)
          \/ CreateProject \/ CreateWorkspace \/ AddTrack \/ UpdateProject
          \/ \E i \in Slots : Serve(i) \/ Answer(i)
          \/ SignOut \/ \E u \in Here : SignIn(u)

NavSpec == /\ NavInit /\ [][NavNext]_vars
           /\ WF_vars(Boot) /\ \A i \in Slots : WF_vars(~BootDue /\ (Serve(i) \/ Answer(i)))
-----------------------------------------------------------------------------
(* Properties.                                                               *)

\* At rest what is shown is what the server has, if nothing failed, no two flows
\* overlapped and the user stayed: the list is that of the workspace shown, and the
\* project is one of it, not archived, under its own last name.  Only a workspace
\* that has no project leaves the one of before on the screen.
AtRestFits ==
    (faults \subseteq {"panel"} /\ Quiet /\ store.id \in Projects) =>
      /\ store.list = ListOf(store.ws)
      /\ home[store.id] = store.ws \/ ListOf(store.ws) = <<>>
      /\ store.id \notin archived
      /\ store.of = store.id /\ store.edits = edits[store.id]

\* Types, and what is shown at rest.
NavOK == NavTypeOK /\ AtRestFits

\* Whatever went wrong before, to choose a workspace, to make one or to start again
\* puts it right, when the flow is alone and gets to its end: project, list and role
\* are of one workspace and one user.  But to choose a workspace takes the role from
\* the list of workspaces, and that may still be the list of the user before; and
\* other admins may change the role at any time.
Fits ==
    /\ store.id \in Projects /\ home[store.id] = store.ws /\ store.of = store.id
    /\ store.list = ListOf(store.ws)
RoleFits == store.role = RoleOf(store.ws, user)
SelectionFits ==
    [][\A i \in Slots :
         (flow[i].alone /\ flow[i].kind \in {"boot", "select", "createWs"} /\ Answered(i, "get")
            /\ flow'[i].kind = "no")
           => Fits' /\ ((flow[i].kind = "select" /\ May("users")) \/ May("rivals") \/ RoleFits')]_vars

\* Who signs in gets an editor to work in, with a project or the mock, or is signed out.
EditorComesUp == (user # None /\ store.id = None) ~> (user = None \/ store.id # None)
=============================================================================
