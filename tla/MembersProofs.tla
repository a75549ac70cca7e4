---------------------------- MODULE MembersProofs ----------------------------
(***************************************************************************)
(* Members, and the tab of Navigator with it: for any number of users,     *)
(* workspaces, projects, flows and requests and under all faults.  A       *)
(* workspace keeps its owner, and nobody comes back; a selection that      *)
(* comes to its end fits; what is shown at rest is what the server has.    *)
(***************************************************************************)
EXTENDS Members, SequenceTheorems, WellFoundedInduction, NaturalsInduction, TLAPS

\* What RemoveAt leaves was there before.
LEMMA RemoveAtKeeps ==
    ASSUME NEW S, NEW s \in Seq(S), NEW i \in DOMAIN s
    PROVE  /\ RemoveAt(s, i) \in Seq(S)
           /\ \A k \in DOMAIN RemoveAt(s, i) : \E j \in DOMAIN s : RemoveAt(s, i)[k] = s[j]
<1>1. DOMAIN s = 1 .. Len(s) /\ Len(s) \in Nat /\ i \in 1 .. Len(s)
  BY LenProperties
<1>2. /\ SubSeq(s, 1, i - 1) \in Seq(S) /\ Len(SubSeq(s, 1, i - 1)) = i - 1
      /\ \A k \in 1 .. i - 1 : SubSeq(s, 1, i - 1)[k] = s[k]
  BY <1>1, SubSeqProperties
<1>3. /\ SubSeq(s, i + 1, Len(s)) \in Seq(S) /\ Len(SubSeq(s, i + 1, Len(s))) = Len(s) - i
      /\ \A k \in 1 .. Len(s) - i : SubSeq(s, i + 1, Len(s))[k] = s[i + k]
  BY <1>1, SubSeqProperties
<1> DEFINE A == SubSeq(s, 1, i - 1)
           B == SubSeq(s, i + 1, Len(s))
<1>4. RemoveAt(s, i) = A \o B
  BY DEF RemoveAt
<1> HIDE DEF A, B
<1>5. /\ A \in Seq(S) /\ Len(A) = i - 1 /\ \A k \in 1 .. i - 1 : A[k] = s[k]
      /\ B \in Seq(S) /\ Len(B) = Len(s) - i /\ \A k \in 1 .. Len(s) - i : B[k] = s[i + k]
  BY <1>2, <1>3 DEF A, B
<1>6. /\ A \o B \in Seq(S) /\ Len(A \o B) = Len(s) - 1
      /\ \A k \in 1 .. Len(s) - 1 : (A \o B)[k] = IF k <= i - 1 THEN A[k] ELSE B[k - (i - 1)]
  <2>1. /\ A \o B \in Seq(S) /\ Len(A \o B) = Len(A) + Len(B)
        /\ \A k \in 1 .. Len(A) + Len(B) : (A \o B)[k] = IF k <= Len(A) THEN A[k] ELSE B[k - Len(A)]
    BY <1>5, ConcatProperties
  <2>2. Len(A) + Len(B) = Len(s) - 1
    BY <1>1, <1>5
  <2> QED
    BY <1>5, <2>1, <2>2
<1>7. ASSUME NEW k \in 1 .. Len(s) - 1
      PROVE  \E j \in DOMAIN s : (A \o B)[k] = s[j]
  <2>1. CASE k <= i - 1
    <3>1. k \in DOMAIN s /\ k \in 1 .. i - 1
      BY <1>1, <2>1
    <3>2. (A \o B)[k] = A[k]
      BY <1>6, <2>1
    <3> QED
      BY <1>5, <3>1, <3>2
  <2>2. CASE ~(k <= i - 1)
    <3>1. k - (i - 1) \in 1 .. Len(s) - i /\ k + 1 \in DOMAIN s
      BY <1>1, <2>2
    <3>2. (A \o B)[k] = B[k - (i - 1)]
      BY <1>6, <2>2
    <3>3. B[k - (i - 1)] = s[i + (k - (i - 1))] /\ i + (k - (i - 1)) = k + 1
      BY <1>1, <1>5, <3>1
    <3> QED
      BY <3>1, <3>2, <3>3
  <2> QED
    BY <2>1, <2>2
<1>8. DOMAIN (A \o B) = 1 .. Len(s) - 1
  BY <1>6, LenProperties
<1> QED
  BY <1>4, <1>6, <1>7, <1>8

(***************************************************************************)
(* The writes do not look at the role again, so MembersKept needs what the *)
(* statement before has seen: that the target is a member of a workspace   *)
(* there is, and not its owner.  An owner is made only together with the   *)
(* workspace, which is why that remains true.  A workspace that is not yet *)
(* made has no members.                                                    *)
(***************************************************************************)
InUse(w, made) == \E k \in 1 .. Len(made) : made[k] = w
NoneYet(m, made) == \A w \in Workspaces : InUse(w, made) \/ \A u \in Users : m[w][u] = None

AskOK(r, m, made) ==
    /\ r = [what |-> r.what, by |-> r.by, ws |-> r.ws, of |-> r.of, to |-> r.to,
            at |-> r.at, rows |-> r.rows]
    /\ r.what \in {"role", "remove"} =>
         /\ r.of \in Users /\ r.to \in Granted \cup {None}
         /\ r.at = "act" => /\ r.ws \in Workspaces /\ InUse(r.ws, made)
                            /\ m[r.ws][r.of] # "owner"

AsksOK(s, m, made) ==
    /\ \E S : s \in Seq(S)
    /\ \A i \in 1 .. Len(s) : AskOK(s[i], m, made)

Tables(m, made) ==
    /\ m \in [Workspaces -> [Users -> Roles \cup {None}]] /\ made \in Seq(Workspaces)
    /\ NoneYet(m, made)

KeptInv == Tables(member, spaces) /\ AsksOK(asks, member, spaces)

\* What a step may do to the members.
Kept(m, later, made) ==
    \A w \in Workspaces : \A u \in Users :
        /\ m[w][u] = "owner" => later[w][u] = "owner"
        /\ later[w][u] = "owner" => m[w][u] = "owner" \/ \A v \in Users : m[w][v] = None
        /\ (m[w][u] = None /\ later[w][u] # None) => \A k \in 1 .. Len(made) : made[k] # w

-----------------------------------------------------------------------------
(* The requests on their way.                                               *)

LEMMA AsksAppend ==
    ASSUME NEW s, NEW m, NEW made, NEW r, AsksOK(s, m, made), AskOK(r, m, made)
    PROVE  AsksOK(Append(s, r), m, made)
<1>1. PICK S : s \in Seq(S)
  BY DEF AsksOK
<1>2. s \in Seq(S \cup {r}) /\ Len(s) \in Nat
  <2>1. Len(s) \in Nat /\ \A i \in 1 .. Len(s) : s[i] \in S
    BY <1>1, ElementOfSeq, LenProperties
  <2> QED
    BY <1>1, <2>1, SeqDef
<1>3. /\ Append(s, r) \in Seq(S \cup {r}) /\ Len(Append(s, r)) = Len(s) + 1
      /\ \A i \in 1 .. Len(s) : Append(s, r)[i] = s[i]
      /\ Append(s, r)[Len(s) + 1] = r
  BY <1>2, AppendProperties
<1>4. \A i \in 1 .. Len(s) + 1 : i \in 1 .. Len(s) \/ i = Len(s) + 1
  BY <1>2
<1> QED
  BY <1>3, <1>4 DEF AsksOK

\* A request that was changed in one place of the queue.
LEMMA AsksExcept ==
    ASSUME NEW s, NEW m, NEW made, NEW r, NEW i \in 1 .. Len(s), AsksOK(s, m, made), AskOK(r, m, made)
    PROVE  AsksOK([s EXCEPT ![i] = r], m, made)
<1>1. PICK S : s \in Seq(S)
  BY DEF AsksOK
<1>2. s \in Seq(S \cup {r})
  <2>1. Len(s) \in Nat /\ \A k \in 1 .. Len(s) : s[k] \in S
    BY <1>1, ElementOfSeq, LenProperties
  <2> QED
    BY <1>1, <2>1, SeqDef
<1>3. /\ [s EXCEPT ![i] = r] \in Seq(S \cup {r}) /\ Len([s EXCEPT ![i] = r]) = Len(s)
      /\ \A k \in 1 .. Len(s) : [s EXCEPT ![i] = r][k] = IF k = i THEN r ELSE s[k]
  BY <1>2, ExceptSeq
<1> QED
  BY <1>3 DEF AsksOK

\* A request that was taken from the queue.
LEMMA AsksRemove ==
    ASSUME NEW s, NEW m, NEW made, NEW i \in 1 .. Len(s), AsksOK(s, m, made)
    PROVE  AsksOK(RemoveAt(s, i), m, made)
<1>1. PICK S : s \in Seq(S)
  BY DEF AsksOK
<1>2. DOMAIN s = 1 .. Len(s)
  BY <1>1, LenProperties
<1>3. /\ RemoveAt(s, i) \in Seq(S)
      /\ \A k \in DOMAIN RemoveAt(s, i) : \E j \in DOMAIN s : RemoveAt(s, i)[k] = s[j]
  BY <1>1, <1>2, RemoveAtKeeps
<1>4. DOMAIN RemoveAt(s, i) = 1 .. Len(RemoveAt(s, i))
  BY <1>3, LenProperties
<1> QED
  BY <1>2, <1>3, <1>4 DEF AsksOK

\* What has been seen of the target stays true.
LEMMA AsksStay ==
    ASSUME NEW s, NEW m, NEW later, NEW made, NEW more, AsksOK(s, m, made),
           \A w \in Workspaces : InUse(w, made) => InUse(w, more),
           \A w \in Workspaces : \A u \in Users :
              InUse(w, made) /\ m[w][u] # "owner" => later[w][u] # "owner"
    PROVE  AsksOK(s, later, more)
<1>1. ASSUME NEW i \in 1 .. Len(s)
      PROVE  AskOK(s[i], later, more)
  BY DEF AsksOK, AskOK
<1> QED
  BY <1>1 DEF AsksOK

-----------------------------------------------------------------------------
(* The two writers of workspace_members.                                    *)

\* create_workspace makes an owner where nobody is.
LEMMA MakingWorkspace ==
    ASSUME KeptInv, NEW w \in Workspaces, ~InUse(w, spaces), NEW u,
           spaces' = Append(spaces, w), member' = [member EXCEPT ![w][u] = "owner"]
    PROVE  /\ Tables(member', spaces') /\ AsksOK(asks, member', spaces')
           /\ Kept(member, member', spaces)
<1>1. /\ spaces \in Seq(Workspaces) /\ Len(spaces) \in Nat
      /\ member \in [Workspaces -> [Users -> Roles \cup {None}]] /\ NoneYet(member, spaces)
  BY LenProperties DEF KeptInv, Tables
<1>2. /\ spaces' \in Seq(Workspaces) /\ Len(spaces') = Len(spaces) + 1
      /\ \A k \in 1 .. Len(spaces) : spaces'[k] = spaces[k]
      /\ spaces'[Len(spaces) + 1] = w
  BY <1>1, AppendProperties
<1>3. \A v \in Workspaces : InUse(v, spaces) => InUse(v, spaces')
  BY <1>1, <1>2 DEF InUse
<1>4. InUse(w, spaces')
  BY <1>1, <1>2 DEF InUse
<1>5. /\ member' \in [Workspaces -> [Users -> Roles \cup {None}]]
      /\ \A v \in Workspaces \ {w} : member'[v] = member[v]
      /\ \A x \in Users : member'[w][x] = IF x = u THEN "owner" ELSE member[w][x]
  BY <1>1 DEF Roles
<1>6. \A x \in Users : member[w][x] = None
  BY <1>1 DEF NoneYet
<1>7. Tables(member', spaces')
  BY <1>1, <1>2, <1>3, <1>4, <1>5 DEF Tables, NoneYet
<1>8. AsksOK(asks, member', spaces')
  <2>1. \A v \in Workspaces : \A x \in Users :
          InUse(v, spaces) /\ member[v][x] # "owner" => member'[v][x] # "owner"
    BY <1>5
  <2>2. AsksOK(asks, member, spaces)
    BY DEF KeptInv
  <2> QED
    BY <1>3, <2>1, <2>2, AsksStay
<1>9. None # "owner"
  BY NavNames DEF Roles
<1>10. Kept(member, member', spaces)
  BY <1>5, <1>6, <1>9 DEF Kept, InUse
<1> QED
  BY <1>7, <1>8, <1>10

\* UPDATE and DELETE.
LEMMA WritingMember ==
    ASSUME KeptInv, NEW i \in 1 .. Len(asks), WriteMember(i)
    PROVE  /\ Tables(member', spaces') /\ AsksOK(asks, member', spaces')
           /\ Kept(member, member', spaces)
<1> DEFINE r == asks[i]
<1>1. /\ r.what \in {"role", "remove"} /\ r.at = "act" /\ spaces' = spaces
      /\ member' = [member EXCEPT ![r.ws][r.of] = IF @ = None THEN None ELSE r.to]
  BY DEF WriteMember, Written
<1>2. /\ r.of \in Users /\ r.to \in Granted \cup {None} /\ r.ws \in Workspaces
      /\ InUse(r.ws, spaces) /\ member[r.ws][r.of] # "owner"
  BY <1>1 DEF KeptInv, AsksOK, AskOK
<1> HIDE DEF r
<1>3. member \in [Workspaces -> [Users -> Roles \cup {None}]] /\ NoneYet(member, spaces)
  BY DEF KeptInv, Tables
<1>4. Granted \cup {None} \subseteq Roles \cup {None} /\ "owner" \notin Granted \cup {None}
  BY NavNames DEF Granted, Roles
<1>5. /\ member' \in [Workspaces -> [Users -> Roles \cup {None}]]
      /\ \A w \in Workspaces, u \in Users :
           member'[w][u] = IF w = r.ws /\ u = r.of
                           THEN IF member[w][u] = None THEN None ELSE r.to ELSE member[w][u]
  BY <1>1, <1>2, <1>3, <1>4
<1>6. Tables(member', spaces')
  BY <1>1, <1>2, <1>3, <1>5 DEF KeptInv, Tables, NoneYet
<1>7. Kept(member, member', spaces)
  BY <1>2, <1>4, <1>5 DEF Kept
<1>8. AsksOK(asks, member', spaces')
  <2>1. \A w \in Workspaces : \A u \in Users :
          InUse(w, spaces) /\ member[w][u] # "owner" => member'[w][u] # "owner"
    BY <1>2, <1>4, <1>5
  <2>2. AsksOK(asks, member, spaces) /\ \A w \in Workspaces : InUse(w, spaces) => InUse(w, spaces')
    BY <1>1 DEF KeptInv
  <2> QED
    BY <2>1, <2>2, AsksStay
<1> QED
  BY <1>6, <1>7, <1>8

-----------------------------------------------------------------------------
(* Steps.                                                                   *)

\* A step that leaves the tables alone keeps everything, if the requests stay good.
LEMMA TablesAlone ==
    ASSUME KeptInv, member' = member, spaces' = spaces, AsksOK(asks', member, spaces)
    PROVE  KeptInv' /\ Kept(member, member', spaces)
  BY DEF KeptInv, Tables, NoneYet, Kept

\* A new request has seen nothing yet.
LEMMA NewAsk ==
    ASSUME NEW what, NEW by, NEW ws, NEW of, NEW to,
           what \in {"role", "remove"} => of \in Users /\ to \in Granted \cup {None}
    PROVE  AskOK(Ask(what, by, ws, of, to), member, spaces)
  BY DEF Ask, AskOK

\* A request that moves on to anywhere but the write.
LEMMA MovedAsk ==
    ASSUME NEW r, NEW at, AskOK(r, member, spaces), at # "act" \/ r.what \notin {"role", "remove"}
    PROVE  AskOK([r EXCEPT !.at = at], member, spaces)
<1>1. [r EXCEPT !.at = at] = [what |-> r.what, by |-> r.by, ws |-> r.ws, of |-> r.of, to |-> r.to,
                             at |-> at, rows |-> r.rows]
  BY DEF AskOK
<1> QED
  BY <1>1 DEF AskOK

\* A request ends by an answer, or is over.
LEMMA EndedAsks ==
    ASSUME NEW m, NEW made, AsksOK(asks, m, made), NEW i \in 1 .. Len(asks), NEW at, at # "act",
           EndsAsk(i, at)
    PROVE  AsksOK(asks', m, made)
<1>1. CASE asks' = RemoveAt(asks, i)
  BY <1>1, AsksRemove
<1>2. CASE asks' = [asks EXCEPT ![i].at = at]
  <2> DEFINE r == asks[i]
             moved == [r EXCEPT !.at = at]
  <2>1. asks' = [asks EXCEPT ![i] = moved]
    BY <1>2
  <2>2. AskOK(r, m, made)
    BY DEF AsksOK
  <2> HIDE DEF r
  <2>3. moved = [what |-> r.what, by |-> r.by, ws |-> r.ws, of |-> r.of, to |-> r.to,
                 at |-> at, rows |-> r.rows]
    BY <2>2 DEF AskOK
  <2>4. AskOK(moved, m, made)
    BY <2>2, <2>3 DEF AskOK
  <2> HIDE DEF moved
  <2> QED
    BY <2>1, <2>4, AsksExcept
<1> QED
  BY <1>1, <1>2 DEF EndsAsk

\* load adds a list at most.
LEMMA LoadAsks ==
    ASSUME NEW p, NEW q, NEW ws, NEW m, NEW made, AsksOK(q, m, made), LoadInto(p, q, ws)
    PROVE  AsksOK(asks', m, made)
<1> DEFINE r == Ask("list", user, ws, None, None)
<1>1. AskOK(r, m, made)
  BY DEF Ask, AskOK
<1>2. asks' = q \/ asks' = Append(q, r)
  BY DEF LoadInto
<1> HIDE DEF r
<1> QED
  BY <1>1, <1>2, AsksAppend

\* The panels.
LEMMA PanelStep ==
    ASSUME KeptInv,
           \/ TogglePanel \/ Invite
           \/ \E u \in Users : RemoveMember(u) \/ \E role \in Granted : RoleChange(u, role)
           \/ \E u, of \in Users, w \in Workspaces, what \in {"role", "remove"}, role \in OthersGive :
                Rival(u, what, w, of, role)
    PROVE  KeptInv' /\ Kept(member, member', spaces)
<1>1. member' = member /\ spaces' = spaces
  BY DEF TogglePanel, Invite, RemoveMember, RoleChange, Sends, Rival, Uses, vars, server
<1>2. AsksOK(asks, member, spaces)
  BY DEF KeptInv
<1>3. CASE TogglePanel
  <2>1. asks' = asks \/ \E p : LoadInto(p, asks, PanelWs)
    BY <1>3 DEF TogglePanel
  <2>2. AsksOK(asks', member, spaces)
    BY <1>2, <2>1, LoadAsks
  <2> QED
    BY <1>1, <2>2, TablesAlone
<1>4. ASSUME NEW what, NEW u, NEW role, Sends(what, u, role),
             what \in {"role", "remove"} => u \in Users /\ role \in Granted \cup {None}
      PROVE  KeptInv' /\ Kept(member, member', spaces)
  <2> DEFINE r == Ask(what, user, PanelWs, u, role)
  <2>1. AskOK(r, member, spaces)
    BY <1>4, NewAsk
  <2>2. asks' = Append(asks, r)
    BY <1>4 DEF Sends
  <2> HIDE DEF r
  <2>3. AsksOK(asks', member, spaces)
    BY <1>2, <2>1, <2>2, AsksAppend
  <2> QED
    BY <1>1, <2>3, TablesAlone
<1>5. CASE Invite
  <2>1. Sends("invite", None, None)
    BY <1>5 DEF Invite
  <2> QED
    BY <1>4, <2>1
<1>6. ASSUME NEW u \in Users, RemoveMember(u)
      PROVE  KeptInv' /\ Kept(member, member', spaces)
  <2>1. Sends("remove", u, None)
    BY <1>6 DEF RemoveMember
  <2> QED
    BY <1>4, <2>1
<1>7. ASSUME NEW u \in Users, NEW role \in Granted, RoleChange(u, role)
      PROVE  KeptInv' /\ Kept(member, member', spaces)
  <2>1. Sends("role", u, role)
    BY <1>7 DEF RoleChange
  <2> QED
    BY <1>4, <2>1
<1>8. ASSUME NEW u \in Users, NEW of \in Users, NEW w \in Workspaces, NEW what \in {"role", "remove"},
             NEW role \in OthersGive, Rival(u, what, w, of, role)
      PROVE  KeptInv' /\ Kept(member, member', spaces)
  <2> DEFINE to == IF what = "role" THEN role ELSE None
             r == Ask(what, u, w, of, to)
  <2>1. to \in Granted \cup {None}
    BY OthersGiveRoles
  <2>2. asks' = Append(asks, r)
    BY <1>8 DEF Rival
  <2> HIDE DEF to
  <2>3. AskOK(r, member, spaces)
    BY <2>1, NewAsk
  <2> HIDE DEF r
  <2>4. AsksOK(asks', member, spaces)
    BY <1>2, <2>2, <2>3, AsksAppend
  <2> QED
    BY <1>1, <2>4, TablesAlone
<1> QED
  BY <1>3, <1>5, <1>6, <1>7, <1>8

\* The statements of the handlers.
LEMMA HandlerStep ==
    ASSUME KeptInv, NEW i \in 1 .. Len(asks),
           \/ CheckRole(i) \/ SeeTarget(i) \/ WriteMember(i)
           \/ ListMembers(i) \/ LoseAsk(i) \/ Hear(i)
    PROVE  KeptInv' /\ Kept(member, member', spaces)
<1>1. AsksOK(asks, member, spaces) /\ AskOK(asks[i], member, spaces)
  BY DEF KeptInv, AsksOK
<1>2. ASSUME NEW at, asks' = [asks EXCEPT ![i].at = at], member' = member, spaces' = spaces,
             at # "act" \/ asks[i].what \notin {"role", "remove"}
      PROVE  KeptInv' /\ Kept(member, member', spaces)
  <2> DEFINE moved == [asks[i] EXCEPT !.at = at]
  <2>1. asks' = [asks EXCEPT ![i] = moved]
    BY <1>2
  <2>2. AskOK(moved, member, spaces)
    BY <1>1, <1>2, MovedAsk
  <2> HIDE DEF moved
  <2>3. AsksOK(asks', member, spaces)
    BY <1>1, <2>1, <2>2, AsksExcept
  <2> QED
    BY <1>2, <2>3, TablesAlone
<1>3. ASSUME NEW at, at # "act", EndsAsk(i, at), member' = member, spaces' = spaces
      PROVE  KeptInv' /\ Kept(member, member', spaces)
  BY <1>1, <1>3, EndedAsks, TablesAlone
<1>4. CASE CheckRole(i)
  <2>1. /\ member' = member /\ spaces' = spaces
        /\ \/ /\ asks[i].what \in {"role", "remove"}
              /\ asks' = [asks EXCEPT ![i].at = "see"]
           \/ /\ asks[i].what \notin {"role", "remove"}
              /\ asks' = [asks EXCEPT ![i].at = "act"]
           \/ EndsAsk(i, "failed")
    BY <1>4 DEF CheckRole, vars, server
  <2> QED
    BY <1>2, <1>3, <2>1
<1>5. CASE SeeTarget(i)
  <2>1. member' = member /\ spaces' = spaces
    BY <1>5 DEF SeeTarget, vars, server
  <2>2. CASE EndsAsk(i, "failed")
    BY <1>3, <2>1, <2>2
  <2>3. CASE /\ Row(asks[i])[asks[i].of] \notin {None, "owner"}
             /\ asks' = [asks EXCEPT ![i].at = "act"]
    <3> DEFINE r == asks[i]
               moved == [r EXCEPT !.at = "act"]
    <3>1. asks' = [asks EXCEPT ![i] = moved] /\ AskOK(r, member, spaces)
      BY <1>1, <2>3
    <3>2. Row(r)[r.of] \notin {None, "owner"}
      BY <2>3
    <3> HIDE DEF r
    <3>3. moved = [what |-> r.what, by |-> r.by, ws |-> r.ws, of |-> r.of, to |-> r.to,
                   at |-> "act", rows |-> r.rows]
      BY <3>1 DEF AskOK
    <3> HIDE DEF moved
    <3>4. ASSUME r.what \in {"role", "remove"}
          PROVE  /\ r.of \in Users /\ r.to \in Granted \cup {None} /\ r.ws \in Workspaces
                 /\ InUse(r.ws, spaces) /\ member[r.ws][r.of] # "owner"
      <4>1. r.of \in Users /\ r.to \in Granted \cup {None}
        BY <3>1, <3>4 DEF AskOK
      <4>2. r.ws \in Workspaces /\ member[r.ws][r.of] \notin {None, "owner"}
        BY <3>2, <4>1 DEF Row, NoRows
      <4>3. InUse(r.ws, spaces)
        BY <4>1, <4>2 DEF KeptInv, Tables, NoneYet
      <4> QED
        BY <4>1, <4>2, <4>3
    <3>5. AskOK(moved, member, spaces)
      BY <3>3, <3>4 DEF AskOK
    <3>6. AsksOK(asks', member, spaces)
      BY <1>1, <3>1, <3>5, AsksExcept
    <3> QED
      BY <2>1, <3>6, TablesAlone
  <2> QED
    BY <1>5, <2>2, <2>3 DEF SeeTarget
<1>6. CASE WriteMember(i)
  <2>1. /\ Tables(member', spaces') /\ AsksOK(asks, member', spaces')
        /\ Kept(member, member', spaces)
    BY <1>6, WritingMember
  <2>2. EndsAsk(i, "failed") \/ EndsAsk(i, "ok")
    BY <1>6 DEF WriteMember
  <2>3. AsksOK(asks', member', spaces')
    BY <2>1, <2>2, EndedAsks
  <2> QED
    BY <2>1, <2>3 DEF KeptInv
<1>7. CASE ListMembers(i)
  <2> DEFINE r == asks[i]
             answered == [r EXCEPT !.at = "ok", !.rows = Row(r)]
  <2>1. /\ asks' = [asks EXCEPT ![i] = answered] /\ AskOK(r, member, spaces)
        /\ r.what \notin {"role", "remove"} /\ member' = member /\ spaces' = spaces
    BY <1>1, <1>7 DEF ListMembers, vars, server
  <2> HIDE DEF r
  <2>2. answered = [what |-> r.what, by |-> r.by, ws |-> r.ws, of |-> r.of, to |-> r.to,
                    at |-> "ok", rows |-> Row(r)]
    <3> DEFINE row == Row(r)
               ended == [r EXCEPT !.at = "ok"]
    <3>1. ended = [what |-> r.what, by |-> r.by, ws |-> r.ws, of |-> r.of, to |-> r.to,
                   at |-> "ok", rows |-> r.rows]
      BY <2>1 DEF AskOK
    <3>2. answered = [ended EXCEPT !.rows = row]
      BY Zenon
    <3> HIDE DEF row, ended
    <3> QED
      BY <3>1, <3>2 DEF row
  <2>3. AskOK(answered, member, spaces)
    BY <2>1, <2>2 DEF AskOK
  <2> HIDE DEF answered
  <2>4. AsksOK(asks', member, spaces)
    BY <1>1, <2>1, <2>3, AsksExcept
  <2> QED
    BY <2>1, <2>4, TablesAlone
<1>8. CASE LoseAsk(i)
  <2>1. asks' = [asks EXCEPT ![i].at = "failed"] /\ member' = member /\ spaces' = spaces
    BY <1>8 DEF LoseAsk, vars, server
  <2> QED
    BY <1>2, <2>1
<1>9. CASE Hear(i)
  <2> DEFINE rest == RemoveAt(asks, i)
  <2>1. /\ member' = member /\ spaces' = spaces
        /\ asks' = rest \/ LoadInto(panel, rest, asks[i].ws)
    BY <1>9 DEF Hear, HearOk, HearFailed, vars, server
  <2>2. AsksOK(rest, member, spaces)
    BY <1>1, AsksRemove
  <2> HIDE DEF rest
  <2>3. AsksOK(asks', member, spaces)
    BY <2>1, <2>2, LoadAsks
  <2> QED
    BY <2>1, <2>3, TablesAlone
<1> QED
  BY <1>4, <1>5, <1>6, <1>7, <1>8, <1>9

\* Of all that the rest of the tab does, only create_workspace writes a member.
LEMMA NavStep ==
    ASSUME NavNext
    PROVE  \/ member' = member /\ spaces' = spaces
           \/ \E w \in Workspaces, i \in Slots :
                /\ ~InUse(w, spaces) /\ spaces' = Append(spaces, w)
                /\ member' = [member EXCEPT ![w][flow[i].by] = "owner"]
<1>1. ASSUME NEW kind, NEW call, NEW w, NEW p, Click(kind, call, w, p)
      PROVE  member' = member /\ spaces' = spaces
  BY <1>1 DEF Click, server
<1>2. ASSUME NEW k \in Rows, SelectWorkspace(k) \/ SelectProject(k) \/ ArchiveProject(k)
      PROVE  member' = member /\ spaces' = spaces
  BY <1>1, <1>2 DEF SelectWorkspace, SelectProject, ArchiveProject
<1>3. ASSUME CreateProject \/ CreateWorkspace \/ AddTrack \/ UpdateProject
      PROVE  member' = member /\ spaces' = spaces
  BY <1>1, <1>3 DEF CreateProject, CreateWorkspace, AddTrack, UpdateProject
<1>4. ASSUME NEW i \in Slots, Answer(i)
      PROVE  member' = member /\ spaces' = spaces
  BY <1>4 DEF Answer, AnswerWorkspaces, AnswerProjects, AnswerGet, AnswerMade, AnswerArchive, AnswerPatch,
              Fail, server
<1>5. ASSUME Boot \/ SignOut \/ \E u \in Here : SignIn(u)
      PROVE  member' = member /\ spaces' = spaces
  BY <1>5 DEF Boot, SignOut, SignIn, Become, server
<1>6. ASSUME NEW i \in Slots, ServeProjects(i)
      PROVE  member' = member /\ spaces' = spaces
  BY <1>6 DEF ServeProjects, server
<1>7. ASSUME NEW i \in Slots, ServeSpaces(i)
      PROVE  \/ member' = member /\ spaces' = spaces
             \/ \E w \in Workspaces :
                  /\ ~InUse(w, spaces) /\ spaces' = Append(spaces, w)
                  /\ member' = [member EXCEPT ![w][flow[i].by] = "owner"]
  BY <1>7 DEF ServeSpaces, server, InUse
<1>8. ASSUME NEW i \in Slots, Serve(i)
      PROVE  ServeSpaces(i) \/ ServeProjects(i) \/ (member' = member /\ spaces' = spaces)
  BY <1>8 DEF Serve, server
<1> QED
  BY <1>2, <1>3, <1>4, <1>5, <1>6, <1>7, <1>8 DEF NavNext

\* The rest of the tab makes members of new workspaces alone.
LEMMA ElsewhereStep ==
    ASSUME KeptInv, Elsewhere
    PROVE  KeptInv' /\ Kept(member, member', spaces)
<1>1. asks' = asks \/ LoadInto(panel, asks, PanelWs')
  BY DEF Elsewhere, PanelEffect
<1>2. CASE member' = member /\ spaces' = spaces
  <2>1. AsksOK(asks', member, spaces)
    BY <1>1, LoadAsks DEF KeptInv
  <2> QED
    BY <1>2, <2>1, TablesAlone
<1>3. ASSUME NEW w \in Workspaces, NEW i \in Slots, ~InUse(w, spaces), spaces' = Append(spaces, w),
             member' = [member EXCEPT ![w][flow[i].by] = "owner"]
      PROVE  KeptInv' /\ Kept(member, member', spaces)
  <2>1. /\ Tables(member', spaces') /\ AsksOK(asks, member', spaces')
        /\ Kept(member, member', spaces)
    BY <1>3, MakingWorkspace
  <2>2. AsksOK(asks', member', spaces')
    BY <1>1, <2>1, LoadAsks
  <2> QED
    BY <2>1, <2>2 DEF KeptInv
<1>4. NavNext
  BY DEF Elsewhere
<1> QED
  BY <1>2, <1>3, <1>4, NavStep

\* Every step keeps KeptInv and MembersKept.
LEMMA KeptStep ==
    ASSUME KeptInv, [MembersNext]_mvars
    PROVE  KeptInv' /\ Kept(member, member', spaces)
<1>1. CASE UNCHANGED mvars
  BY <1>1, TablesAlone DEF mvars, vars, server, KeptInv
<1>2. CASE MembersNext
  BY <1>2, ElsewhereStep, PanelStep, HandlerStep DEF MembersNext
<1> QED
  BY <1>1, <1>2

\* KeptInv holds at first.
LEMMA KeptInit ==
    ASSUME MembersInit
    PROVE  KeptInv
<1>1. Tables(member, spaces)
  BY NavTables DEF MembersInit, NavInit, Tables, NoneYet, InUse
<1>2. asks \in Seq({}) /\ Len(asks) = 0
  BY EmptySeq DEF MembersInit
<1>3. AsksOK(asks, member, spaces)
  BY <1>2 DEF AsksOK
<1> QED
  BY <1>1, <1>3 DEF KeptInv

\* However the statements of any number of changes of roles, removals and new workspaces
\* fall, an owner stays the owner, nobody becomes one in a workspace that has members, and
\* who was removed from a workspace is not brought back.
THEOREM MembersStay == MembersSpec => MembersKept
<1>1. MembersInit => KeptInv
  BY KeptInit
<1>2. KeptInv /\ [MembersNext]_mvars => KeptInv'
  BY KeptStep
<1>3. KeptInv /\ [MembersNext]_mvars =>
        [\A w \in Workspaces : \A u \in Users :
           /\ member[w][u] = "owner" => member'[w][u] = "owner"
           /\ member'[w][u] = "owner" =>
                member[w][u] = "owner" \/ \A v \in Users : member[w][v] = None
           /\ (member[w][u] = None /\ member'[w][u] # None) =>
                \A k \in 1 .. Len(spaces) : spaces[k] # w]_mvars
  BY KeptStep DEF Kept
<1> QED
  BY <1>1, <1>2, <1>3, PTL DEF MembersSpec, MembersKept

\* A set of numbers that is not empty has a least one.
LEMMA NatLeast ==
    ASSUME NEW T \in SUBSET Nat, T # {}
    PROVE  \E x \in T : \A y \in T : x <= y
<1> DEFINE R == {ss \in Nat \X Nat : ss[1] < ss[2]}
<1>1. IsWellFoundedOn(R, Nat)
  BY NatLessThanWellFounded DEF OpToRel
<1>2. PICK x \in T : \A y \in T : ~ (<<y, x>> \in R)
  <2> HIDE DEF R
  <2> QED
    BY <1>1, WFMin
<1>3. \A y \in T : <<y, x>> \in R <=> y < x
  OBVIOUS
<1>4. \A y \in T : ~(y < x)
  BY <1>2, <1>3
<1>5. \A y \in T : y \in Nat /\ x \in Nat
  OBVIOUS
<1> HIDE DEF R
<1>6. \A y \in T : x <= y
  BY <1>4, <1>5
<1> QED
  BY <1>6

\* Induction over the positions of a sequence: a set that holds 0 and with each number the next.
LEMMA Upward ==
    ASSUME NEW n \in Nat, NEW T, 0 \in T, \A k \in 1 .. n : k - 1 \in T => k \in T
    PROVE  \A k \in 0 .. n : k \in T
<1> DEFINE B == {k \in 0 .. n : k \notin T}
<1> SUFFICES ASSUME B # {} PROVE FALSE
  OBVIOUS
<1>1. B \in SUBSET Nat
  OBVIOUS
<1>2. PICK x \in B : \A y \in B : x <= y
  <2> HIDE DEF B
  <2> QED
    BY <1>1, NatLeast
<1>3. x \in 0 .. n /\ x \notin T
  OBVIOUS
<1>4. x # 0 /\ x \in 1 .. n /\ x - 1 \in 0 .. n /\ ~(x <= x - 1)
  BY <1>3
<1>5. x - 1 \in T
  BY <1>2, <1>4
<1> QED
  BY <1>3, <1>4, <1>5

\* What Sift goes through.
Grows(f, s, S, n) ==
    f = [k \in 0 .. n |-> IF k = 0 THEN <<>>
                          ELSE IF s[k] \in S THEN Append(f[k - 1], s[k]) ELSE f[k - 1]]
\* Sift is the end of a sequence that grows along its argument.
LEMMA SiftIs ==
    ASSUME NEW s, NEW S
    PROVE  Sift(s, S) = (CHOOSE f : Grows(f, s, S, Len(s)))[Len(s)]
BY DEF Sift, Grows

\* There is such a sequence.
LEMMA GrowsExists ==
    ASSUME NEW s, NEW S, NEW n \in Nat
    PROVE  \E f : Grows(f, s, S, n)
<1> DEFINE T == {m \in Nat : \E f : Grows(f, s, S, m)}
<1>1. 0 \in T
  <2> DEFINE f == [k \in 0 .. 0 |-> <<>>]
  <2>1. Grows(f, s, S, 0)
    BY DEF Grows
  <2> QED
    BY <2>1
<1>2. ASSUME NEW m \in 1 .. n, m - 1 \in T
      PROVE  m \in T
  <2>1. PICK f : Grows(f, s, S, m - 1)
    BY <1>2
  <2> DEFINE next == IF s[m] \in S THEN Append(f[m - 1], s[m]) ELSE f[m - 1]
             g == [k \in 0 .. m |-> IF k = m THEN next ELSE f[k]]
  <2>2. /\ \A k \in 0 .. m - 1 : g[k] = f[k] /\ k # m
        /\ \A k \in 0 .. m - 1 : f[k] = IF k = 0 THEN <<>>
                                         ELSE IF s[k] \in S THEN Append(f[k - 1], s[k]) ELSE f[k - 1]
    <3>1. \A k \in 0 .. m - 1 : g[k] = f[k] /\ k # m
      OBVIOUS
    <3> HIDE DEF g, next
    <3> QED
      BY <2>1, <3>1 DEF Grows
  <2>3. g[m] = next /\ g[m - 1] = f[m - 1] /\ m # 0
    OBVIOUS
  <2>4. DOMAIN g = 0 .. m /\ g = [k \in 0 .. m |-> g[k]]
    OBVIOUS
  <2> HIDE DEF g
  <2>5. ASSUME NEW k \in 0 .. m
        PROVE  g[k] = IF k = 0 THEN <<>>
                      ELSE IF s[k] \in S THEN Append(g[k - 1], s[k]) ELSE g[k - 1]
    <3>1. CASE k = m
      BY <3>1, <2>3
    <3>2. CASE k # m /\ k # 0
      <4>1. k \in 0 .. m - 1 /\ k - 1 \in 0 .. m - 1
        BY <3>2
      <4> QED
        BY <4>1, <3>2, <2>2
    <3>3. CASE k # m /\ k = 0
      <4>1. k \in 0 .. m - 1
        BY <3>3
      <4> QED
        BY <4>1, <3>3, <2>2
    <3> QED
      BY <3>1, <3>2, <3>3
  <2>6. Grows(g, s, S, m)
    BY <2>4, <2>5 DEF Grows
  <2> QED
    BY <2>6
<1> HIDE DEF T
<1>3. \A k \in 0 .. n : k \in T
  BY <1>1, <1>2, Upward
<1> QED
  BY <1>3 DEF T

\* What is left is of s and of S.
LEMMA SiftKeeps ==
    ASSUME NEW T, NEW s \in Seq(T), NEW S
    PROVE  Sift(s, S) \in Seq(T \cap S)
<1> DEFINE f == CHOOSE g : Grows(g, s, S, Len(s))
           C == {k \in 0 .. Len(s) : f[k] \in Seq(T \cap S)}
<1>1. Len(s) \in Nat /\ \A k \in 1 .. Len(s) : s[k] \in T
  BY ElementOfSeq, LenProperties
<1>2. Sift(s, S) = f[Len(s)]
  BY SiftIs
<1>3. Grows(f, s, S, Len(s))
  BY <1>1, GrowsExists
<1> HIDE DEF f
<1>4. \A k \in 0 .. Len(s) : f[k] = IF k = 0 THEN <<>>
                                   ELSE IF s[k] \in S THEN Append(f[k - 1], s[k]) ELSE f[k - 1]
  BY <1>3 DEF Grows
<1>5. 0 \in C
  <2>1. 0 \in 0 .. Len(s)
    BY <1>1
  <2>2. f[0] = <<>>
    BY <1>4, <2>1
  <2>3. <<>> \in Seq(T \cap S)
    BY EmptySeq
  <2> QED
    BY <2>1, <2>2, <2>3
<1>6. ASSUME NEW k \in 1 .. Len(s), k - 1 \in C
      PROVE  k \in C
  <2>1. f[k] = (IF s[k] \in S THEN Append(f[k - 1], s[k]) ELSE f[k - 1]) /\ k \in 0 .. Len(s)
    BY <1>1, <1>4
  <2>2. f[k - 1] \in Seq(T \cap S)
    BY <1>6
  <2>3. s[k] \in S => Append(f[k - 1], s[k]) \in Seq(T \cap S)
    BY <1>1, <2>2, AppendProperties
  <2> QED
    BY <2>1, <2>2, <2>3
<1> HIDE DEF C
<1>7. \A k \in 0 .. Len(s) : k \in C
  BY <1>1, <1>5, <1>6, Upward
<1>8. Len(s) \in C
  BY <1>1, <1>7
<1> QED
  BY <1>2, <1>8 DEF C

(***************************************************************************)
(* What the variables of Navigator hold, beyond NavTypeOK: which calls a   *)
(* flow makes, and what each answer is.                                    *)
(***************************************************************************)
Space == [id : Workspaces, role : Roles]
Shownable == Projects \cup {Mock, None}
Stores == [ws : Workspaces \cup {None}, role : Roles \cup {None},
           spaces : Seq(Space), list : Seq(Projects), id : Shownable, of : Shownable, edits : Nat]

CallsOf(kind) ==
    CASE kind = "boot"     -> {"workspaces", "projects", "get"}
      [] kind = "select"   -> {"projects", "get"}
      [] kind = "open"     -> {"get"}
      [] kind = "create"   -> {"make", "tracks", "projects", "get"}
      [] kind = "createWs" -> {"makeWs", "workspaces", "make", "tracks", "projects", "get"}
      [] kind = "archive"  -> {"archive", "projects", "get"}
      [] kind = "track"    -> {"track", "get"}
      [] kind = "update"   -> {"patch", "projects"}

\* The calls that are about a project for certain; the mock may have a track asked for.
OfProject(f) ==
    \/ f.call \in {"get", "tracks", "archive", "patch"}
    \/ f.call = "projects" /\ f.kind \in {"create", "createWs", "archive", "update"}
OfWorkspace(f) ==
    \/ f.kind = "createWs" /\ f.call # "makeWs"
    \/ f.kind = "create" /\ f.call = "make"
    \/ f.kind = "boot" /\ f.call = "projects"

AnswerOK(f, h) ==
    LET got == f.ans.val IN
    /\ f.call = "workspaces" => got \in Seq(Space)
    /\ f.call = "projects" => got \in Seq(Projects)
    /\ f.call \in {"get", "patch"} => got \in Nat
    /\ f.call = "make" => got \in Projects
    /\ f.call = "makeWs" => got \in Workspaces
    /\ f.call = "track" => f.pj \in Projects
    /\ f.call = "get" => h[f.pj] # None

Fields(f) ==
    f = [kind |-> f.kind, call |-> f.call, ws |-> f.ws, pj |-> f.pj, by |-> f.by,
         live |-> f.live, alone |-> f.alone, ans |-> [how |-> f.ans.how, val |-> f.ans.val]]
FlowOK(f, h, id, u) ==
    /\ Fields(f)
    /\ f.kind \in Kinds \cup {"no"} /\ f.ws \in Workspaces \cup {None}
    /\ f.pj \in Shownable /\ f.by \in Users \cup {None}
    /\ f.live \in BOOLEAN /\ f.alone \in BOOLEAN
    /\ f.ans.how \in {"no", "ok", "failed", "401"}
    /\ f.kind = "no" => ~f.live /\ ~f.alone /\ f.call = "no" /\ f.ans.how = "no"
    /\ f.kind # "no" => f.call \in CallsOf(f.kind)
    /\ OfProject(f) => f.pj \in Projects
    /\ OfWorkspace(f) => f.ws \in Workspaces
    /\ f.ans.how = "ok" => AnswerOK(f, h)
    /\ f.ans.how = "401" => f.by = None
    /\ f.live => f.kind = "boot" /\ id = None /\ u # None /\ f.by = u

StoreOK(s, h) ==
    /\ s \in Stores
    /\ s.ws # None => s.role # None
    /\ s.id \in Projects => h[s.id] # None

TablesOK ==
    /\ home \in [Projects -> Workspaces \cup {None}]
    /\ \A p \in Projects : home[p] # None => InUse(home[p], spaces)
    /\ archived \subseteq {p \in Projects : home[p] # None}
    /\ recent \in Seq(Projects) /\ edits \in [Projects -> Nat]

FlowsOK == \A i \in Slots : FlowOK(flow[i], home, store.id, user)
NavShape ==
    /\ TablesOK /\ StoreOK(store, home) /\ FlowsOK
    /\ user \in Users \cup {None} /\ (May("users") \/ user # None)
    /\ flow = [i \in Slots |-> flow[i]]
    /\ busy \in BOOLEAN /\ flows \in 0 .. MaxFlows /\ faults \in FaultSets

(***************************************************************************)
(* The steps, told by what becomes of a flow and of the store.             *)
(***************************************************************************)
Becomes(f, kind, call, ws, pj, by, live, alone, how, val) ==
    /\ Fields(f) /\ f.kind = kind /\ f.call = call /\ f.ws = ws /\ f.pj = pj /\ f.by = by
    /\ f.live = live /\ f.alone = alone /\ f.ans.how = how /\ f.ans.val = val
Holds(s, ws, role, all, list, id, of, n) ==
    s = [ws |-> ws, role |-> role, spaces |-> all, list |-> list, id |-> id, of |-> of, edits |-> n]

Starts(i, kind, call, ws, pj) ==
    /\ flow[i].kind = "no"
    /\ Quiet \/ May("overlap") \/ kind = "boot"
    /\ flow' = [j \in Slots |-> flow'[j]]
    /\ Becomes(flow'[i], kind, call, ws, pj, user, kind = "boot", Quiet, "no", None)
    /\ \A j \in Slots \ {i} :
         Becomes(flow'[j], flow[j].kind, flow[j].call, flow[j].ws, flow[j].pj, flow[j].by,
                 flow[j].live, FALSE, flow[j].ans.how, flow[j].ans.val)
    /\ UNCHANGED <<server, user, faults>>

GoesOn(i, call, ws, pj) ==
    /\ flow' = [j \in Slots |-> flow'[j]]
    /\ Becomes(flow'[i], flow[i].kind, call, ws, pj, user, flow[i].live, flow[i].alone, "no", None)
    /\ \A j \in Slots \ {i} : flow'[j] = flow[j]
    /\ busy' = busy

Stops(i) ==
    /\ flow' = [j \in Slots |-> flow'[j]]
    /\ Becomes(flow'[i], "no", "no", None, None, None, FALSE, FALSE, "no", None)
    /\ \A j \in Slots \ {i} :
         Becomes(flow'[j], flow[j].kind, flow[j].call, flow[j].ws, flow[j].pj, flow[j].by,
                 flow[j].live /\ store'.id = None, flow[j].alone, flow[j].ans.how, flow[j].ans.val)
    /\ busy' \in BOOLEAN

Told(i, how, val) ==
    /\ flow' = [j \in Slots |-> flow'[j]]
    /\ Becomes(flow'[i], flow[i].kind, flow[i].call, flow[i].ws, flow[i].pj, flow[i].by,
               flow[i].live, flow[i].alone, how, val)
    /\ \A j \in Slots \ {i} : flow'[j] = flow[j]

\* One field of a flow is set.
LEMMA FieldSet ==
    ASSUME NEW f, Fields(f), NEW x, NEW y
    PROVE  /\ Becomes([f EXCEPT !.call = x],
                      f.kind, x, f.ws, f.pj, f.by, f.live, f.alone, f.ans.how, f.ans.val)
           /\ Becomes([f EXCEPT !.live = x],
                      f.kind, f.call, f.ws, f.pj, f.by, x, f.alone, f.ans.how, f.ans.val)
           /\ Becomes([f EXCEPT !.alone = x],
                      f.kind, f.call, f.ws, f.pj, f.by, f.live, x, f.ans.how, f.ans.val)
           /\ Becomes([f EXCEPT !.ans = [how |-> x, val |-> y]],
                      f.kind, f.call, f.ws, f.pj, f.by, f.live, f.alone, x, y)
<1>1. Becomes([f EXCEPT !.call = x],
              f.kind, x, f.ws, f.pj, f.by, f.live, f.alone, f.ans.how, f.ans.val)
  BY DEF Becomes, Fields
<1>2. Becomes([f EXCEPT !.live = x],
              f.kind, f.call, f.ws, f.pj, f.by, x, f.alone, f.ans.how, f.ans.val)
  BY DEF Becomes, Fields
<1>3. Becomes([f EXCEPT !.alone = x],
              f.kind, f.call, f.ws, f.pj, f.by, f.live, x, f.ans.how, f.ans.val)
  BY DEF Becomes, Fields
<1>4. Becomes([f EXCEPT !.ans = [how |-> x, val |-> y]],
              f.kind, f.call, f.ws, f.pj, f.by, f.live, f.alone, x, y)
  BY DEF Becomes, Fields
<1> QED
  BY <1>1, <1>2, <1>3, <1>4

\* Several fields of a flow are set.
LEMMA FieldsSet ==
    ASSUME NEW f, Fields(f), NEW a, NEW b, NEW c, NEW d, NEW e
    PROVE  /\ Becomes([f EXCEPT !.by = a, !.alone = b],
                      f.kind, f.call, f.ws, f.pj, a, f.live, b, f.ans.how, f.ans.val)
           /\ Becomes([f EXCEPT !.by = a, !.ans = NoAnswer],
                      f.kind, f.call, f.ws, f.pj, a, f.live, f.alone, "no", None)
           /\ Becomes([f EXCEPT !.call = a, !.ws = b],
                      f.kind, a, b, f.pj, f.by, f.live, f.alone, f.ans.how, f.ans.val)
           /\ Becomes([f EXCEPT !.call = a, !.pj = b],
                      f.kind, a, f.ws, b, f.by, f.live, f.alone, f.ans.how, f.ans.val)
           /\ Becomes([f EXCEPT !.live = a, !.alone = b],
                      f.kind, f.call, f.ws, f.pj, f.by, a, b, f.ans.how, f.ans.val)
           /\ Becomes([f EXCEPT !.kind = a, !.call = b, !.ws = c, !.pj = d],
                      a, b, c, d, f.by, f.live, f.alone, f.ans.how, f.ans.val)
           /\ Becomes([f EXCEPT !.kind = a, !.call = b, !.by = c, !.live = d, !.alone = e],
                      a, b, f.ws, f.pj, c, d, e, f.ans.how, f.ans.val)
<1>1. Becomes([f EXCEPT !.by = a, !.alone = b],
              f.kind, f.call, f.ws, f.pj, a, f.live, b, f.ans.how, f.ans.val)
  <2> DEFINE f1 == [f EXCEPT !.by = a]
  <2>1. [f EXCEPT !.by = a, !.alone = b] = [f1 EXCEPT !.alone = b]
    BY Zenon
  <2>2. Becomes(f1, f.kind, f.call, f.ws, f.pj, a, f.live, f.alone, f.ans.how, f.ans.val)
    BY DEF Becomes, Fields
  <2> HIDE DEF f1
  <2>3. Becomes([f1 EXCEPT !.alone = b], f.kind, f.call, f.ws, f.pj, a, f.live, b, f.ans.how, f.ans.val)
    BY <2>2 DEF Becomes, Fields
  <2> QED
    BY <2>1, <2>3
<1>2. Becomes([f EXCEPT !.by = a, !.ans = NoAnswer],
              f.kind, f.call, f.ws, f.pj, a, f.live, f.alone, "no", None)
  <2> DEFINE f1 == [f EXCEPT !.by = a]
  <2>1. [f EXCEPT !.by = a, !.ans = NoAnswer] = [f1 EXCEPT !.ans = NoAnswer]
    BY Zenon
  <2>2. Becomes(f1, f.kind, f.call, f.ws, f.pj, a, f.live, f.alone, f.ans.how, f.ans.val)
    BY DEF Becomes, Fields
  <2> HIDE DEF f1
  <2>3. Becomes([f1 EXCEPT !.ans = NoAnswer], f.kind, f.call, f.ws, f.pj, a, f.live, f.alone, "no", None)
    BY <2>2 DEF Becomes, Fields, NoAnswer
  <2> QED
    BY <2>1, <2>3
<1>3. Becomes([f EXCEPT !.call = a, !.ws = b],
              f.kind, a, b, f.pj, f.by, f.live, f.alone, f.ans.how, f.ans.val)
  <2> DEFINE f1 == [f EXCEPT !.call = a]
  <2>1. [f EXCEPT !.call = a, !.ws = b] = [f1 EXCEPT !.ws = b]
    BY Zenon
  <2>2. Becomes(f1, f.kind, a, f.ws, f.pj, f.by, f.live, f.alone, f.ans.how, f.ans.val)
    BY DEF Becomes, Fields
  <2> HIDE DEF f1
  <2>3. Becomes([f1 EXCEPT !.ws = b], f.kind, a, b, f.pj, f.by, f.live, f.alone, f.ans.how, f.ans.val)
    BY <2>2 DEF Becomes, Fields
  <2> QED
    BY <2>1, <2>3
<1>4. Becomes([f EXCEPT !.call = a, !.pj = b],
              f.kind, a, f.ws, b, f.by, f.live, f.alone, f.ans.how, f.ans.val)
  <2> DEFINE f1 == [f EXCEPT !.call = a]
  <2>1. [f EXCEPT !.call = a, !.pj = b] = [f1 EXCEPT !.pj = b]
    BY Zenon
  <2>2. Becomes(f1, f.kind, a, f.ws, f.pj, f.by, f.live, f.alone, f.ans.how, f.ans.val)
    BY DEF Becomes, Fields
  <2> HIDE DEF f1
  <2>3. Becomes([f1 EXCEPT !.pj = b], f.kind, a, f.ws, b, f.by, f.live, f.alone, f.ans.how, f.ans.val)
    BY <2>2 DEF Becomes, Fields
  <2> QED
    BY <2>1, <2>3
<1>5. Becomes([f EXCEPT !.live = a, !.alone = b],
              f.kind, f.call, f.ws, f.pj, f.by, a, b, f.ans.how, f.ans.val)
  <2> DEFINE f1 == [f EXCEPT !.live = a]
  <2>1. [f EXCEPT !.live = a, !.alone = b] = [f1 EXCEPT !.alone = b]
    BY Zenon
  <2>2. Becomes(f1, f.kind, f.call, f.ws, f.pj, f.by, a, f.alone, f.ans.how, f.ans.val)
    BY DEF Becomes, Fields
  <2> HIDE DEF f1
  <2>3. Becomes([f1 EXCEPT !.alone = b], f.kind, f.call, f.ws, f.pj, f.by, a, b, f.ans.how, f.ans.val)
    BY <2>2 DEF Becomes, Fields
  <2> QED
    BY <2>1, <2>3
<1>6. Becomes([f EXCEPT !.kind = a, !.call = b, !.ws = c, !.pj = d],
              a, b, c, d, f.by, f.live, f.alone, f.ans.how, f.ans.val)
  <2> DEFINE f1 == [f EXCEPT !.kind = a]
             f2 == [f1 EXCEPT !.call = b]
             f3 == [f2 EXCEPT !.ws = c]
  <2>1. [f EXCEPT !.kind = a, !.call = b, !.ws = c, !.pj = d] = [f3 EXCEPT !.pj = d]
    BY Zenon
  <2>2. Becomes(f1, a, f.call, f.ws, f.pj, f.by, f.live, f.alone, f.ans.how, f.ans.val)
    BY DEF Becomes, Fields
  <2> HIDE DEF f1
  <2>3. Becomes(f2, a, b, f.ws, f.pj, f.by, f.live, f.alone, f.ans.how, f.ans.val)
    BY <2>2 DEF Becomes, Fields
  <2> HIDE DEF f2
  <2>4. Becomes(f3, a, b, c, f.pj, f.by, f.live, f.alone, f.ans.how, f.ans.val)
    BY <2>3 DEF Becomes, Fields
  <2> HIDE DEF f3
  <2>5. Becomes([f3 EXCEPT !.pj = d], a, b, c, d, f.by, f.live, f.alone, f.ans.how, f.ans.val)
    BY <2>4 DEF Becomes, Fields
  <2> QED
    BY <2>1, <2>5
<1>7. Becomes([f EXCEPT !.kind = a, !.call = b, !.by = c, !.live = d, !.alone = e],
              a, b, f.ws, f.pj, c, d, e, f.ans.how, f.ans.val)
  <2> DEFINE f1 == [f EXCEPT !.kind = a]
             f2 == [f1 EXCEPT !.call = b]
             f3 == [f2 EXCEPT !.by = c]
             f4 == [f3 EXCEPT !.live = d]
  <2>1. [f EXCEPT !.kind = a, !.call = b, !.by = c, !.live = d, !.alone = e] = [f4 EXCEPT !.alone = e]
    BY Zenon
  <2>2. Becomes(f1, a, f.call, f.ws, f.pj, f.by, f.live, f.alone, f.ans.how, f.ans.val)
    BY DEF Becomes, Fields
  <2> HIDE DEF f1
  <2>3. Becomes(f2, a, b, f.ws, f.pj, f.by, f.live, f.alone, f.ans.how, f.ans.val)
    BY <2>2 DEF Becomes, Fields
  <2> HIDE DEF f2
  <2>4. Becomes(f3, a, b, f.ws, f.pj, c, f.live, f.alone, f.ans.how, f.ans.val)
    BY <2>3 DEF Becomes, Fields
  <2> HIDE DEF f3
  <2>5. Becomes(f4, a, b, f.ws, f.pj, c, d, f.alone, f.ans.how, f.ans.val)
    BY <2>4 DEF Becomes, Fields
  <2> HIDE DEF f4
  <2>6. Becomes([f4 EXCEPT !.alone = e], a, b, f.ws, f.pj, c, d, e, f.ans.how, f.ans.val)
    BY <2>5 DEF Becomes, Fields
  <2> QED
    BY <2>1, <2>6
<1> QED
  BY <1>1, <1>2, <1>3, <1>4, <1>5, <1>6, <1>7

\* The same of the store.
LEMMA StoreSet ==
    ASSUME NEW s, NEW ws, NEW role, NEW all, NEW list, NEW id, NEW of, NEW n,
           Holds(s, ws, role, all, list, id, of, n), NEW w, NEW x, NEW y, NEW z
    PROVE  /\ Holds([s EXCEPT !.list = x], ws, role, all, x, id, of, n)
           /\ Holds([s EXCEPT !.spaces = x], ws, role, x, list, id, of, n)
           /\ Holds([s EXCEPT !.ws = x, !.role = y], x, y, all, list, id, of, n)
           /\ Holds([s EXCEPT !.of = x, !.edits = y], ws, role, all, list, id, x, y)
           /\ Holds([s EXCEPT !.id = x, !.of = y, !.edits = z], ws, role, all, list, x, y, z)
           /\ Holds([s EXCEPT !.role = w, !.id = x, !.of = y, !.edits = z], ws, w, all, list, x, y, z)
           /\ Holds([s EXCEPT !.spaces = x, !.ws = y, !.role = z], y, z, x, list, id, of, n)
           /\ Holds([s EXCEPT !.spaces = x, !.ws = y, !.role = z, !.list = w], y, z, x, w, id, of, n)
<1>1. Holds([s EXCEPT !.list = x], ws, role, all, x, id, of, n)
  BY DEF Holds
<1>2. Holds([s EXCEPT !.spaces = x], ws, role, x, list, id, of, n)
  BY DEF Holds
<1>3. Holds([s EXCEPT !.ws = x, !.role = y], x, y, all, list, id, of, n)
  <2> DEFINE s1 == [s EXCEPT !.ws = x]
  <2>1. [s EXCEPT !.ws = x, !.role = y] = [s1 EXCEPT !.role = y]
    BY Zenon
  <2>2. Holds(s1, x, role, all, list, id, of, n)
    BY DEF Holds
  <2> HIDE DEF s1
  <2>3. Holds([s1 EXCEPT !.role = y], x, y, all, list, id, of, n)
    BY <2>2 DEF Holds
  <2> QED
    BY <2>1, <2>3
<1>4. Holds([s EXCEPT !.of = x, !.edits = y], ws, role, all, list, id, x, y)
  <2> DEFINE s1 == [s EXCEPT !.of = x]
  <2>1. [s EXCEPT !.of = x, !.edits = y] = [s1 EXCEPT !.edits = y]
    BY Zenon
  <2>2. Holds(s1, ws, role, all, list, id, x, n)
    BY DEF Holds
  <2> HIDE DEF s1
  <2>3. Holds([s1 EXCEPT !.edits = y], ws, role, all, list, id, x, y)
    BY <2>2 DEF Holds
  <2> QED
    BY <2>1, <2>3
<1>5. Holds([s EXCEPT !.id = x, !.of = y, !.edits = z], ws, role, all, list, x, y, z)
  <2> DEFINE s1 == [s EXCEPT !.id = x]
             s2 == [s1 EXCEPT !.of = y]
  <2>1. [s EXCEPT !.id = x, !.of = y, !.edits = z] = [s2 EXCEPT !.edits = z]
    BY Zenon
  <2>2. Holds(s1, ws, role, all, list, x, of, n)
    BY DEF Holds
  <2> HIDE DEF s1
  <2>3. Holds(s2, ws, role, all, list, x, y, n)
    BY <2>2 DEF Holds
  <2> HIDE DEF s2
  <2>4. Holds([s2 EXCEPT !.edits = z], ws, role, all, list, x, y, z)
    BY <2>3 DEF Holds
  <2> QED
    BY <2>1, <2>4
<1>6. Holds([s EXCEPT !.role = w, !.id = x, !.of = y, !.edits = z], ws, w, all, list, x, y, z)
  <2> DEFINE s1 == [s EXCEPT !.role = w]
             s2 == [s1 EXCEPT !.id = x]
             s3 == [s2 EXCEPT !.of = y]
  <2>1. [s EXCEPT !.role = w, !.id = x, !.of = y, !.edits = z] = [s3 EXCEPT !.edits = z]
    BY Zenon
  <2>2. Holds(s1, ws, w, all, list, id, of, n)
    BY DEF Holds
  <2> HIDE DEF s1
  <2>3. Holds(s2, ws, w, all, list, x, of, n)
    BY <2>2 DEF Holds
  <2> HIDE DEF s2
  <2>4. Holds(s3, ws, w, all, list, x, y, n)
    BY <2>3 DEF Holds
  <2> HIDE DEF s3
  <2>5. Holds([s3 EXCEPT !.edits = z], ws, w, all, list, x, y, z)
    BY <2>4 DEF Holds
  <2> QED
    BY <2>1, <2>5
<1>7. Holds([s EXCEPT !.spaces = x, !.ws = y, !.role = z], y, z, x, list, id, of, n)
  <2> DEFINE s1 == [s EXCEPT !.spaces = x]
             s2 == [s1 EXCEPT !.ws = y]
  <2>1. [s EXCEPT !.spaces = x, !.ws = y, !.role = z] = [s2 EXCEPT !.role = z]
    BY Zenon
  <2>2. Holds(s1, ws, role, x, list, id, of, n)
    BY DEF Holds
  <2> HIDE DEF s1
  <2>3. Holds(s2, y, role, x, list, id, of, n)
    BY <2>2 DEF Holds
  <2> HIDE DEF s2
  <2>4. Holds([s2 EXCEPT !.role = z], y, z, x, list, id, of, n)
    BY <2>3 DEF Holds
  <2> QED
    BY <2>1, <2>4
<1>8. Holds([s EXCEPT !.spaces = x, !.ws = y, !.role = z, !.list = w], y, z, x, w, id, of, n)
  <2> DEFINE s1 == [s EXCEPT !.spaces = x]
             s2 == [s1 EXCEPT !.ws = y]
             s3 == [s2 EXCEPT !.role = z]
  <2>1. [s EXCEPT !.spaces = x, !.ws = y, !.role = z, !.list = w] = [s3 EXCEPT !.list = w]
    BY Zenon
  <2>2. Holds(s1, ws, role, x, list, id, of, n)
    BY DEF Holds
  <2> HIDE DEF s1
  <2>3. Holds(s2, y, role, x, list, id, of, n)
    BY <2>2 DEF Holds
  <2> HIDE DEF s2
  <2>4. Holds(s3, y, z, x, list, id, of, n)
    BY <2>3 DEF Holds
  <2> HIDE DEF s3
  <2>5. Holds([s3 EXCEPT !.list = w], y, z, x, w, id, of, n)
    BY <2>4 DEF Holds
  <2> QED
    BY <2>1, <2>5
<1> QED
  BY <1>1, <1>2, <1>3, <1>4, <1>5, <1>6, <1>7, <1>8

NoFlowIs(f) == Becomes(f, "no", "no", None, None, None, FALSE, FALSE, "no", None)
\* The fields of no flow.
LEMMA NoFlowFields == NoFlowIs(NoFlow)
  BY DEF NoFlowIs, NoFlow, NoAnswer, Becomes, Fields

\* A flow that begins is of this form.
LEMMA StartForm ==
    ASSUME NavShape, NEW i \in Slots, NEW kind, kind # "boot", NEW call, NEW w, NEW p,
           Begin(i, [NoFlow EXCEPT !.kind = kind, !.call = call, !.ws = w, !.pj = p]),
           UNCHANGED <<server, user, faults>>
    PROVE  Starts(i, kind, call, w, p) /\ busy' \in BOOLEAN
<1> DEFINE f == [NoFlow EXCEPT !.kind = kind, !.call = call, !.ws = w, !.pj = p]
           q == Quiet
           g == [f EXCEPT !.by = user, !.alone = q]
<1>1. Becomes(f, kind, call, w, p, None, FALSE, FALSE, "no", None)
  <2>1. Fields(NoFlow)
    BY NoFlowFields DEF NoFlowIs, Becomes
  <2>2. Becomes(f, kind, call, w, p, NoFlow.by, NoFlow.live, NoFlow.alone, NoFlow.ans.how, NoFlow.ans.val)
    BY <2>1, FieldsSet
  <2> QED
    BY <2>2, NoFlowFields DEF NoFlowIs, Becomes
<1> HIDE DEF f, q
<1>2. Becomes(g, kind, call, w, p, user, FALSE, q, "no", None)
  <2>1. Fields(f)
    BY <1>1 DEF Becomes
  <2>2. Becomes(g, f.kind, f.call, f.ws, f.pj, user, f.live, q, f.ans.how, f.ans.val)
    BY <2>1, FieldsSet
  <2> QED
    BY <1>1, <2>2 DEF Becomes
<1> HIDE DEF g
<1>3. flow' = [j \in Slots |-> IF j = i THEN g ELSE [flow[j] EXCEPT !.alone = FALSE]]
      /\ busy' = (busy \/ f.kind \in Run)
  BY DEF Begin, q, f, g
<1>4. flow' = [j \in Slots |-> flow'[j]] /\ flow'[i] = g
  BY <1>3
<1>6. ASSUME NEW j \in Slots \ {i}
      PROVE  Becomes(flow'[j], flow[j].kind, flow[j].call, flow[j].ws, flow[j].pj, flow[j].by,
                     flow[j].live, FALSE, flow[j].ans.how, flow[j].ans.val)
  <2>1. flow'[j] = [flow[j] EXCEPT !.alone = FALSE]
    BY <1>3
  <2>2. Fields(flow[j])
    BY DEF NavShape, FlowsOK, FlowOK
  <2> QED
    BY <2>1, <2>2, FieldSet
<1>7. flow[i].kind = "no" /\ (Quiet \/ May("overlap"))
  BY DEF Begin
<1>8. busy' \in BOOLEAN
  BY <1>3 DEF NavShape
<1> QED
  BY <1>2, <1>4, <1>6, <1>7, <1>8 DEF Starts, q

\* So is a start.
LEMMA BootForm ==
    ASSUME NavShape, Boot
    PROVE  /\ \E i \in Slots : Starts(i, "boot", "workspaces", None, None)
           /\ BootDue /\ UNCHANGED <<store, busy, flows>>
<1> DEFINE q == Quiet
           g == [NoFlow EXCEPT !.kind = "boot", !.call = "workspaces", !.by = user,
                               !.live = TRUE, !.alone = q]
<1>1. Becomes(g, "boot", "workspaces", None, None, user, TRUE, q, "no", None)
  <2>1. Fields(NoFlow)
    BY NoFlowFields DEF NoFlowIs, Becomes
  <2> HIDE DEF q
  <2>2. Becomes(g, "boot", "workspaces", NoFlow.ws, NoFlow.pj, user, TRUE, q, NoFlow.ans.how, NoFlow.ans.val)
    BY <2>1, FieldsSet
  <2> QED
    BY <2>2, NoFlowFields DEF NoFlowIs, Becomes
<1>2. PICK i \in Slots :
        /\ flow[i].kind = "no"
        /\ flow' = [j \in Slots |-> IF j = i THEN g ELSE [flow[j] EXCEPT !.alone = FALSE]]
  BY DEF Boot
<1> HIDE DEF g
<1>3. flow' = [j \in Slots |-> flow'[j]] /\ flow'[i] = g
  BY <1>2
<1>4. ASSUME NEW j \in Slots \ {i}
      PROVE  Becomes(flow'[j], flow[j].kind, flow[j].call, flow[j].ws, flow[j].pj, flow[j].by,
                     flow[j].live, FALSE, flow[j].ans.how, flow[j].ans.val)
  <2>1. flow'[j] = [flow[j] EXCEPT !.alone = FALSE]
    BY <1>2
  <2>2. Fields(flow[j])
    BY DEF NavShape, FlowsOK, FlowOK
  <2> QED
    BY <2>1, <2>2, FieldSet
<1>5. BootDue /\ UNCHANGED <<server, user, store, busy, flows, faults>>
  BY DEF Boot
<1>6. Becomes(flow'[i], "boot", "workspaces", None, None, user, "boot" = "boot", Quiet, "no", None)
  BY <1>1, <1>3 DEF q
<1>7. Starts(i, "boot", "workspaces", None, None)
  BY <1>2, <1>3, <1>4, <1>5, <1>6 DEF Starts
<1> QED
  BY <1>5, <1>7

\* What a server says to a flow changes its answer alone.
LEMMA ToldForm ==
    ASSUME NavShape, NEW i \in Slots, NEW how, NEW val, Says(i, how, val)
    PROVE  Told(i, how, val)
<1> DEFINE g == [flow[i] EXCEPT !.ans = [how |-> how, val |-> val]]
<1>1. flow' = [flow EXCEPT ![i] = g] /\ flow = [j \in Slots |-> flow[j]] /\ Fields(flow[i])
  BY DEF Says, NavShape, FlowsOK, FlowOK
<1>2. Becomes(g, flow[i].kind, flow[i].call, flow[i].ws, flow[i].pj, flow[i].by,
              flow[i].live, flow[i].alone, how, val)
  BY <1>1, FieldSet
<1> HIDE DEF g
<1>3. flow' = [j \in Slots |-> flow'[j]] /\ flow'[i] = g /\ \A j \in Slots \ {i} : flow'[j] = flow[j]
  BY <1>1
<1> QED
  BY <1>2, <1>3 DEF Told

\* A next call, with the workspace and the project it is about.
LEMMA GoesForm ==
    ASSUME NavShape, NEW i \in Slots, NEW f, NEW call, NEW ws, NEW pj,
           Becomes(f, flow[i].kind, call, ws, pj, flow[i].by, flow[i].live, flow[i].alone,
                   flow[i].ans.how, flow[i].ans.val),
           Goes(i, f), busy' = busy
    PROVE  GoesOn(i, call, ws, pj)
<1> DEFINE g == [f EXCEPT !.by = user, !.ans = NoAnswer]
<1>1. flow' = [j \in Slots |-> IF j = i THEN g ELSE flow[j]]
  BY DEF Goes
<1>2. Becomes(g, f.kind, f.call, f.ws, f.pj, user, f.live, f.alone, "no", None)
  <2>1. Fields(f)
    BY DEF Becomes
  <2> QED
    BY <2>1, FieldsSet
<1> HIDE DEF g
<1>3. flow' = [j \in Slots |-> flow'[j]] /\ flow'[i] = g /\ \A j \in Slots \ {i} : flow'[j] = flow[j]
  BY <1>1
<1>4. Becomes(flow'[i], flow[i].kind, call, ws, pj, user, flow[i].live, flow[i].alone, "no", None)
  BY <1>2, <1>3 DEF Becomes
<1> QED
  BY <1>3, <1>4 DEF GoesOn

\* A flow that ends leaves the others as they are, but for the start that is cancelled.
LEMMA StopForm ==
    ASSUME NavShape, NEW i \in Slots, Ends(i)
    PROVE  Stops(i)
<1> DEFINE z == (store'.id = None)
<1>1. flow' = [j \in Slots |-> IF j = i THEN NoFlow ELSE [flow[j] EXCEPT !.live = flow[j].live /\ z]]
  BY DEF Ends
<1>2. flow' = [j \in Slots |-> flow'[j]] /\ flow'[i] = NoFlow
  BY <1>1
<1>3. ASSUME NEW j \in Slots \ {i}
      PROVE  Becomes(flow'[j], flow[j].kind, flow[j].call, flow[j].ws, flow[j].pj, flow[j].by,
                     flow[j].live /\ z, flow[j].alone, flow[j].ans.how, flow[j].ans.val)
  <2>1. flow'[j] = [flow[j] EXCEPT !.live = flow[j].live /\ z]
    BY <1>1
  <2>2. Fields(flow[j])
    BY DEF NavShape, FlowsOK, FlowOK
  <2> DEFINE live == flow[j].live /\ z
  <2>3. flow'[j] = [flow[j] EXCEPT !.live = live]
    BY <2>1
  <2> HIDE DEF live
  <2>4. Becomes(flow'[j], flow[j].kind, flow[j].call, flow[j].ws, flow[j].pj, flow[j].by,
                live, flow[j].alone, flow[j].ans.how, flow[j].ans.val)
    BY <2>2, <2>3, FieldSet
  <2> QED
    BY <2>4 DEF live
<1>4. busy' \in BOOLEAN
  BY DEF Ends, NavShape
<1> QED
  BY <1>2, <1>3, <1>4, NoFlowFields DEF Stops, NoFlowIs

\* What an answer makes of the store.
Keeps(ws, role, all, list) == Holds(store', ws, role, all, list, store.id, store.of, store.edits)
Listed(list) == Keeps(store.ws, store.role, store.spaces, list)
ShowsMock(all, list) == Holds(store', store.ws, "editor", all, list, Mock, Mock, 0)
Clears(list) == Holds(store', store.ws, store.role, store.spaces, list, None, None, 0)
Stays == store' = store

\* The answers, with f the flow and got what it was answered.
SpacesForm(i, f, got) ==
    \/ /\ f.kind = "createWs" /\ GoesOn(i, "make", f.ws, f.pj)
       /\ Keeps(f.ws, "owner", got, <<>>)
    \/ /\ f.kind = "boot" /\ ~f.live /\ Stops(i)
       /\ Keeps(store.ws, store.role, got, store.list)
    \/ f.kind = "boot" /\ f.live /\ Stops(i) /\ ShowsMock(<<>>, store.list)
    \/ /\ f.kind = "boot" /\ f.live /\ got # <<>> /\ GoesOn(i, "projects", got[1].id, f.pj)
       /\ Keeps(got[1].id, got[1].role, got, store.list)
ProjectsForm(i, f, got) ==
    \/ /\ f.kind = "archive" /\ Sift(got, Projects \ {f.pj}) = <<>>
       /\ Stops(i) /\ Clears(got)
    \/ /\ f.kind = "archive" /\ Sift(got, Projects \ {f.pj}) # <<>>
       /\ GoesOn(i, "get", f.ws, Sift(got, Projects \ {f.pj})[1]) /\ Listed(got)
    \/ f.kind \in {"create", "createWs"} /\ GoesOn(i, "get", f.ws, f.pj) /\ Listed(got)
    \/ f.kind = "update" /\ Stops(i) /\ Listed(got)
    \/ f.kind \in {"boot", "select"} /\ got # <<>> /\ GoesOn(i, "get", f.ws, got[1]) /\ Listed(got)
    \/ f.kind \in {"boot", "select"} /\ got = <<>> /\ f.live /\ Stops(i) /\ ShowsMock(store.spaces, got)
    \/ f.kind \in {"boot", "select"} /\ got = <<>> /\ ~f.live /\ Stops(i) /\ Listed(got)
GetForm(i, f, got) ==
    Stops(i) /\ Holds(store', store.ws, store.role, store.spaces, store.list, f.pj, f.pj, got)
PatchForm(i, f, got) ==
    /\ GoesOn(i, "projects", f.ws, f.pj)
    /\ \/ store.id = None /\ Stays
       \/ /\ store.id # None
          /\ Holds(store', store.ws, store.role, store.spaces, store.list, store.id, f.pj, got)
FailForm(i, f) ==
    /\ Stops(i)
    /\ \/ f.live /\ f.ans.how # "401" /\ ShowsMock(store.spaces, store.list) /\ user' = user
       \/ f.live /\ f.ans.how = "401" /\ Stays /\ user' = None
       \/ ~f.live /\ Stays /\ user' = user

AnswerForm(i, f, got) ==
    /\ f.kind # "no" /\ UNCHANGED <<server, flows, faults>>
    /\ \/ /\ f.ans.how = "ok" /\ user' = user
          /\ \/ f.call = "workspaces" /\ SpacesForm(i, f, got)
             \/ f.call = "projects" /\ ProjectsForm(i, f, got)
             \/ f.call = "get" /\ GetForm(i, f, got)
             \/ f.call = "makeWs" /\ GoesOn(i, "workspaces", got, f.pj) /\ Stays
             \/ f.call = "make" /\ GoesOn(i, "tracks", f.ws, got) /\ Stays
             \/ f.call = "tracks" /\ GoesOn(i, "projects", f.ws, f.pj) /\ Stays
             \/ f.call = "track" /\ GoesOn(i, "get", f.ws, f.pj) /\ Stays
             \/ f.call = "archive" /\ GoesOn(i, "projects", store.ws, f.pj) /\ Stays
             \/ f.call = "patch" /\ PatchForm(i, f, got)
       \/ f.ans.how \in {"failed", "401"} /\ FailForm(i, f)

\* A store of this form, field by field.
LEMMA StoreHolds ==
    ASSUME NavShape
    PROVE  Holds(store, store.ws, store.role, store.spaces, store.list, store.id, store.of, store.edits)
  BY DEF NavShape, StoreOK, Stores, Holds

\* A flow is its fields.
LEMMA FlowSame ==
    ASSUME NavShape, NEW i \in Slots
    PROVE  Becomes(flow[i], flow[i].kind, flow[i].call, flow[i].ws, flow[i].pj, flow[i].by,
                   flow[i].live, flow[i].alone, flow[i].ans.how, flow[i].ans.val)
  BY DEF NavShape, FlowsOK, FlowOK, Becomes

\* A flow that goes on, field by field.
LEMMA FlowFields ==
    ASSUME NavShape, NEW i \in Slots
    PROVE  Fields(flow[i])
  BY DEF NavShape, FlowsOK, FlowOK

\* The next call of a flow.
LEMMA OnToForm ==
    ASSUME NavShape, NEW i \in Slots, NEW call, OnTo(i, call)
    PROVE  GoesOn(i, call, flow[i].ws, flow[i].pj)
<1> DEFINE g == [flow[i] EXCEPT !.call = call]
<1>1. Becomes(g, flow[i].kind, call, flow[i].ws, flow[i].pj, flow[i].by, flow[i].live, flow[i].alone,
              flow[i].ans.how, flow[i].ans.val)
  BY FieldSet, FlowFields
<1>2. Goes(i, g) /\ busy' = busy
  BY DEF OnTo
<1> HIDE DEF g
<1> QED
  BY <1>1, <1>2, GoesForm

\* The next call with another workspace, or about another project.
LEMMA GoesWith ==
    ASSUME NavShape, NEW i \in Slots, NEW call, NEW x, busy' = busy
    PROVE  /\ Goes(i, [flow[i] EXCEPT !.call = call, !.ws = x]) => GoesOn(i, call, x, flow[i].pj)
           /\ Goes(i, [flow[i] EXCEPT !.call = call, !.pj = x]) => GoesOn(i, call, flow[i].ws, x)
           /\ Goes(i, [flow[i] EXCEPT !.call = call]) => GoesOn(i, call, flow[i].ws, flow[i].pj)
<1> DEFINE g == [flow[i] EXCEPT !.call = call, !.ws = x]
           h == [flow[i] EXCEPT !.call = call, !.pj = x]
<1>1. Becomes(g, flow[i].kind, call, x, flow[i].pj, flow[i].by, flow[i].live, flow[i].alone,
              flow[i].ans.how, flow[i].ans.val)
  BY FieldsSet, FlowFields
<1>2. Becomes(h, flow[i].kind, call, flow[i].ws, x, flow[i].by, flow[i].live, flow[i].alone,
              flow[i].ans.how, flow[i].ans.val)
  BY FieldsSet, FlowFields
<1> HIDE DEF g, h
<1>3. Goes(i, g) => GoesOn(i, call, x, flow[i].pj)
  BY <1>1, GoesForm
<1>4. Goes(i, h) => GoesOn(i, call, flow[i].ws, x)
  BY <1>2, GoesForm
<1>5. Goes(i, [flow[i] EXCEPT !.call = call]) => GoesOn(i, call, flow[i].ws, flow[i].pj)
  BY OnToForm DEF OnTo
<1> QED
  BY <1>3, <1>4, <1>5 DEF g, h

\* The mock project comes on the screen.
LEMMA MockForm ==
    ASSUME NavShape, NEW x
    PROVE  /\ store' = WithMock => ShowsMock(store.spaces, store.list)
           /\ store' = [WithMock EXCEPT !.spaces = x] => ShowsMock(x, store.list)
           /\ store' = [WithMock EXCEPT !.list = x] => ShowsMock(store.spaces, x)
           /\ store' = [Cleared EXCEPT !.list = x] => Clears(x)
<1>1. Holds(WithMock, store.ws, "editor", store.spaces, store.list, Mock, Mock, 0)
  BY StoreHolds, StoreSet DEF WithMock
<1>2. Holds([WithMock EXCEPT !.spaces = x], store.ws, "editor", x, store.list, Mock, Mock, 0)
  BY <1>1, StoreSet
<1>3. Holds([WithMock EXCEPT !.list = x], store.ws, "editor", store.spaces, x, Mock, Mock, 0)
  BY <1>1, StoreSet
<1>4. Holds(Cleared, store.ws, store.role, store.spaces, store.list, None, None, 0)
  BY StoreHolds, StoreSet DEF Cleared
<1>5. Holds([Cleared EXCEPT !.list = x], store.ws, store.role, store.spaces, x, None, None, 0)
  BY <1>4, StoreSet
<1> QED
  BY <1>1, <1>2, <1>3, <1>5 DEF ShowsMock, Clears

\* What an answer or a choice makes of the store, field by field.
LEMMA KeepForm ==
    ASSUME NavShape, NEW a, NEW b, NEW c, NEW d
    PROVE  /\ store' = [store EXCEPT !.list = a] => Listed(a)
           /\ store' = [store EXCEPT !.spaces = a] => Keeps(store.ws, store.role, a, store.list)
           /\ store' = [store EXCEPT !.spaces = a, !.ws = b, !.role = c] => Keeps(b, c, a, store.list)
           /\ store' = [store EXCEPT !.spaces = a, !.ws = b, !.role = c, !.list = d] => Keeps(b, c, a, d)
           /\ store' = [store EXCEPT !.ws = a, !.role = b] => Keeps(a, b, store.spaces, store.list)
           /\ store' = [store EXCEPT !.of = a, !.edits = b] =>
                Holds(store', store.ws, store.role, store.spaces, store.list, store.id, a, b)
           /\ store' = Show(a, b) =>
                Holds(store', store.ws, store.role, store.spaces, store.list, a, a, b)
<1>1. Holds([store EXCEPT !.list = a], store.ws, store.role, store.spaces, a, store.id, store.of, store.edits)
  BY StoreHolds, StoreSet
<1>2. Holds([store EXCEPT !.spaces = a], store.ws, store.role, a, store.list, store.id, store.of, store.edits)
  BY StoreHolds, StoreSet
<1>3. Holds([store EXCEPT !.spaces = a, !.ws = b, !.role = c], b, c, a, store.list, store.id, store.of, store.edits)
  BY StoreHolds, StoreSet
<1>4. Holds([store EXCEPT !.spaces = a, !.ws = b, !.role = c, !.list = d], b, c, a, d, store.id, store.of, store.edits)
  BY StoreHolds, StoreSet
<1>5. Holds([store EXCEPT !.ws = a, !.role = b], a, b, store.spaces, store.list, store.id, store.of, store.edits)
  BY StoreHolds, StoreSet
<1>6. Holds([store EXCEPT !.of = a, !.edits = b], store.ws, store.role, store.spaces, store.list, store.id, a, b)
  BY StoreHolds, StoreSet
<1>7. Holds(Show(a, b), store.ws, store.role, store.spaces, store.list, a, a, b)
  BY StoreHolds, StoreSet DEF Show
<1> QED
  BY <1>1, <1>2, <1>3, <1>4, <1>5, <1>6, <1>7 DEF Keeps, Listed

\* Each answer is of one of the forms.
LEMMA AnswersFormed ==
    ASSUME NavShape, NEW i \in Slots, Answer(i)
    PROVE  AnswerForm(i, flow[i], flow[i].ans.val)
<1> DEFINE got == flow[i].ans.val
<1>1. CASE AnswerWorkspaces(i)
  <2>1. Answered(i, "workspaces") /\ UNCHANGED <<server, user, flows, faults>>
    BY <1>1 DEF AnswerWorkspaces
  <2>2. CASE /\ flow[i].kind = "createWs"
             /\ store' = [store EXCEPT !.spaces = got, !.ws = flow[i].ws, !.role = "owner", !.list = <<>>]
             /\ OnTo(i, "make")
    <3>1. Keeps(flow[i].ws, "owner", got, <<>>) /\ GoesOn(i, "make", flow[i].ws, flow[i].pj)
      BY <2>2, KeepForm, OnToForm
    <3> QED
      BY <2>1, <2>2, <3>1 DEF AnswerForm, SpacesForm, Answered
  <2>3. CASE flow[i].kind = "boot" /\ ~flow[i].live /\ store' = [store EXCEPT !.spaces = got] /\ Ends(i)
    <3>1. Keeps(store.ws, store.role, got, store.list) /\ Stops(i)
      BY <2>3, KeepForm, StopForm
    <3> QED
      BY <2>1, <2>3, <3>1 DEF AnswerForm, SpacesForm, Answered
  <2>4. CASE flow[i].kind = "boot" /\ flow[i].live /\ store' = [WithMock EXCEPT !.spaces = <<>>] /\ Ends(i)
    <3>1. ShowsMock(<<>>, store.list) /\ Stops(i)
      BY <2>4, MockForm, StopForm
    <3> QED
      BY <2>1, <2>4, <3>1 DEF AnswerForm, SpacesForm, Answered
  <2>5. CASE /\ flow[i].kind = "boot" /\ flow[i].live /\ got # <<>>
             /\ store' = [store EXCEPT !.spaces = got, !.ws = got[1].id, !.role = got[1].role]
             /\ Goes(i, [flow[i] EXCEPT !.call = "projects", !.ws = got[1].id]) /\ busy' = busy
    <3>1. Keeps(got[1].id, got[1].role, got, store.list)
      BY <2>5, KeepForm
    <3>2. GoesOn(i, "projects", got[1].id, flow[i].pj)
      BY <2>5, GoesWith
    <3> QED
      BY <2>1, <2>5, <3>1, <3>2 DEF AnswerForm, SpacesForm, Answered
  <2> QED
    BY <1>1, <2>2, <2>3, <2>4, <2>5 DEF AnswerWorkspaces
<1>2. CASE AnswerProjects(i)
  <2>1. Answered(i, "projects") /\ UNCHANGED <<server, user, flows, faults>>
    BY <1>2 DEF AnswerProjects
  <2> DEFINE others == Sift(got, Projects \ {flow[i].pj})
  <2>2. ProjectsForm(i, flow[i], got)
    <3>1. CASE /\ flow[i].kind = "archive" /\ others = <<>>
               /\ store' = [Cleared EXCEPT !.list = got] /\ Ends(i)
      BY <3>1, MockForm, StopForm DEF ProjectsForm
    <3>2. CASE /\ flow[i].kind = "archive" /\ others # <<>>
               /\ store' = [store EXCEPT !.list = got]
               /\ Goes(i, [flow[i] EXCEPT !.call = "get", !.pj = others[1]]) /\ busy' = busy
      <4> HIDE DEF others
      <4>1. GoesOn(i, "get", flow[i].ws, others[1]) /\ Listed(got)
        BY <3>2, KeepForm, GoesWith
      <4> QED
        BY <3>2, <4>1 DEF ProjectsForm, others
    <3>3. CASE /\ flow[i].kind \in {"create", "createWs"}
               /\ store' = [store EXCEPT !.list = got] /\ OnTo(i, "get")
      BY <3>3, KeepForm, OnToForm DEF ProjectsForm
    <3>4. CASE flow[i].kind = "update" /\ store' = [store EXCEPT !.list = got] /\ Ends(i)
      BY <3>4, KeepForm, StopForm DEF ProjectsForm
    <3>5. CASE /\ flow[i].kind \in {"boot", "select"} /\ got # <<>>
               /\ store' = [store EXCEPT !.list = got]
               /\ Goes(i, [flow[i] EXCEPT !.call = "get", !.pj = got[1]]) /\ busy' = busy
      <4>1. GoesOn(i, "get", flow[i].ws, got[1]) /\ Listed(got)
        BY <3>5, KeepForm, GoesWith
      <4> QED
        BY <3>5, <4>1 DEF ProjectsForm
    <3>6. CASE /\ flow[i].kind \in {"boot", "select"} /\ got = <<>> /\ flow[i].live
               /\ store' = [WithMock EXCEPT !.list = got] /\ Ends(i)
      BY <3>6, MockForm, StopForm DEF ProjectsForm
    <3>7. CASE /\ flow[i].kind \in {"boot", "select"} /\ got = <<>> /\ ~flow[i].live
               /\ store' = [store EXCEPT !.list = got] /\ Ends(i)
      BY <3>7, KeepForm, StopForm DEF ProjectsForm
    <3> QED
      BY <1>2, <3>1, <3>2, <3>3, <3>4, <3>5, <3>6, <3>7 DEF AnswerProjects, AfterArchive
  <2> QED
    BY <2>1, <2>2 DEF AnswerForm, Answered
<1>3. CASE AnswerGet(i)
  <2>1. GetForm(i, flow[i], got)
    BY <1>3, KeepForm, StopForm DEF AnswerGet, GetForm
  <2> QED
    BY <1>3, <2>1 DEF AnswerGet, AnswerForm, Answered
<1>4. CASE AnswerMade(i)
  <2>1. busy' = busy /\ store' = store /\ UNCHANGED <<server, user, flows, faults>> /\ flow[i].kind # "no"
        /\ flow[i].ans.how = "ok"
    BY <1>4 DEF AnswerMade, Answered
  <2>2. CASE flow[i].call = "makeWs" /\ Goes(i, [flow[i] EXCEPT !.call = "workspaces", !.ws = got])
    <3>1. GoesOn(i, "workspaces", got, flow[i].pj)
      BY <2>1, <2>2, GoesWith
    <3> QED
      BY <2>1, <2>2, <3>1 DEF AnswerForm, Stays
  <2>3. CASE flow[i].call = "make" /\ Goes(i, [flow[i] EXCEPT !.call = "tracks", !.pj = got])
    <3>1. GoesOn(i, "tracks", flow[i].ws, got)
      BY <2>1, <2>3, GoesWith
    <3> QED
      BY <2>1, <2>3, <3>1 DEF AnswerForm, Stays
  <2>4. CASE flow[i].call = "tracks" /\ Goes(i, [flow[i] EXCEPT !.call = "projects"])
    <3>1. GoesOn(i, "projects", flow[i].ws, flow[i].pj)
      BY <2>1, <2>4, GoesWith
    <3> QED
      BY <2>1, <2>4, <3>1 DEF AnswerForm, Stays
  <2>5. CASE flow[i].call = "track" /\ Goes(i, [flow[i] EXCEPT !.call = "get"])
    <3>1. GoesOn(i, "get", flow[i].ws, flow[i].pj)
      BY <2>1, <2>5, GoesWith
    <3> QED
      BY <2>1, <2>5, <3>1 DEF AnswerForm, Stays
  <2> QED
    BY <1>4, <2>2, <2>3, <2>4, <2>5 DEF AnswerMade, Answered
<1>5. CASE AnswerArchive(i)
  <2>1. GoesOn(i, "projects", store.ws, flow[i].pj)
    BY <1>5, GoesWith DEF AnswerArchive
  <2> QED
    BY <1>5, <2>1 DEF AnswerArchive, AnswerForm, Answered, Stays
<1>6. CASE AnswerPatch(i)
  <2>1. GoesOn(i, "projects", flow[i].ws, flow[i].pj)
    BY <1>6, OnToForm DEF AnswerPatch
  <2>2. PatchForm(i, flow[i], got)
    BY <1>6, <2>1, KeepForm DEF AnswerPatch, PatchForm, Stays
  <2> QED
    BY <1>6, <2>2 DEF AnswerPatch, AnswerForm, Answered
<1>7. CASE Fail(i)
  <2>1. FailForm(i, flow[i])
    BY <1>7, MockForm, StopForm DEF Fail, FailForm, Stays
  <2> QED
    BY <1>7, <2>1 DEF Fail, AnswerForm
<1> QED
  BY <1>1, <1>2, <1>3, <1>4, <1>5, <1>6, <1>7 DEF Answer

\* What the server does for a flow f and tells it.
Does(f, how, val, good) ==
    how \in {"ok", "failed"} /\ (how = "ok" => val = good) /\ (how = "failed" => May("net"))
Spaced(f) == f.call \in {"workspaces", "makeWs"}
Allowed(f) == Grants(f, Needs(f.call))
RefusedForm(f, how) ==
    /\ UNCHANGED server /\ how \in {"failed", "401"} /\ (how = "401" => f.by = None)
    /\ May("net") \/ f.by = None \/ (~Spaced(f) /\ ~Allowed(f))
MadeWs(f, how, val) ==
    \E w \in Workspaces :
       /\ ~InUse(w, spaces) /\ spaces' = Append(spaces, w)
       /\ member' = [member EXCEPT ![w][f.by] = "owner"]
       /\ Does(f, how, val, w) /\ UNCHANGED <<home, archived, recent, edits>>
Makable == CHOOSE q \in Projects : home[q] = None
MadeForm(f, how, val) ==
    /\ home' = [home EXCEPT ![Makable] = f.ws] /\ recent' = Newest(Makable)
    /\ Does(f, how, val, Makable) /\ UNCHANGED <<spaces, member, archived, edits>>
PatchedForm(f, how, val) ==
    /\ edits' = [edits EXCEPT ![f.pj] = @ + 1] /\ recent' = Newest(f.pj)
    /\ Does(f, how, val, edits[f.pj] + 1) /\ UNCHANGED <<spaces, member, home, archived>>
ArchivedForm(f, how, val) ==
    /\ archived' = archived \cup {f.pj} /\ recent' = Newest(f.pj)
    /\ Does(f, how, val, None) /\ UNCHANGED <<spaces, member, home, edits>>

ServeForm(i, f, how, val) ==
    /\ f.kind # "no" /\ f.ans.how = "no" /\ Told(i, how, val)
    /\ UNCHANGED <<user, store, busy, flows, faults>>
    /\ \/ RefusedForm(f, how)
       \/ f.call = "workspaces" /\ f.by # None /\ Does(f, how, val, SpacesOf(f.by)) /\ UNCHANGED server
       \/ f.call = "makeWs" /\ f.by # None /\ MadeWs(f, how, val)
       \/ /\ ~Spaced(f) /\ Allowed(f)
          /\ \/ f.call = "projects" /\ Does(f, how, val, ListOf(f.ws)) /\ UNCHANGED server
             \/ f.call = "get" /\ Does(f, how, val, edits[f.pj]) /\ UNCHANGED server
             \/ f.call \in {"tracks", "track"} /\ Does(f, how, val, None) /\ UNCHANGED server
             \/ f.call = "make" /\ MadeForm(f, how, val)
             \/ f.call = "patch" /\ PatchedForm(f, how, val)
             \/ f.call = "archive" /\ ArchivedForm(f, how, val)

\* Each call that is served is of one of the forms.
LEMMA ServeFormed ==
    ASSUME NavShape, NEW i \in Slots, Serve(i)
    PROVE  \E how, val : ServeForm(i, flow[i], how, val)
<1> DEFINE f == flow[i]
<1>1. f.kind # "no" /\ f.ans.how = "no" /\ UNCHANGED <<user, store, busy, flows, faults>>
  BY DEF Serve
<1>2. ASSUME NEW good, Done(i, good)
      PROVE  \E how, val : Told(i, how, val) /\ Does(f, how, val, good)
  <2>1. CASE Says(i, "ok", good)
    <3>1. Told(i, "ok", good) /\ Does(f, "ok", good, good)
      BY <2>1, ToldForm DEF Does
    <3> QED
      BY <3>1
  <2>2. CASE May("net") /\ Says(i, "failed", None)
    <3>1. Told(i, "failed", None) /\ Does(f, "failed", None, good)
      BY <2>2, ToldForm DEF Does
    <3> QED
      BY <3>1
  <2> QED
    BY <1>2, <2>1, <2>2 DEF Done
<1>3. CASE May("net") /\ Says(i, "failed", None) /\ UNCHANGED server
  <2>1. Told(i, "failed", None)
    BY <1>3, ToldForm
  <2> QED
    BY <1>1, <1>3, <2>1 DEF ServeForm, RefusedForm
<1>4. CASE /\ f.by = None \/ (~Spaced(f) /\ ~Allowed(f))
           /\ Denies(i) /\ UNCHANGED server
  <2>1. PICK how \in {"failed", "401"} : Says(i, how, None) /\ (how = "401" => f.by = None)
    BY <1>4 DEF Denies
  <2>2. Told(i, how, None)
    BY <2>1, ToldForm
  <2> QED
    BY <1>1, <1>4, <2>1, <2>2 DEF ServeForm, RefusedForm
<1>5. CASE f.by # None /\ Spaced(f) /\ ServeSpaces(i)
  <2>1. CASE f.call = "workspaces" /\ Done(i, SpacesOf(f.by)) /\ UNCHANGED server
    <3>1. PICK how, val : Told(i, how, val) /\ Does(f, how, val, SpacesOf(f.by))
      BY <1>2, <2>1
    <3>2. ServeForm(i, f, how, val)
      BY <1>1, <1>5, <2>1, <3>1 DEF ServeForm
    <3> QED
      BY <3>2
  <2>2. ASSUME f.call = "makeWs", UNCHANGED <<home, archived, recent, edits>>, NEW w \in Workspaces,
               ~InUse(w, spaces), spaces' = Append(spaces, w),
               member' = [member EXCEPT ![w][f.by] = "owner"], Done(i, w)
        PROVE  \E how, val : ServeForm(i, f, how, val)
    <3>1. PICK how, val : Told(i, how, val) /\ Does(f, how, val, w)
      BY <1>2, <2>2
    <3>2. MadeWs(f, how, val)
      BY <2>2, <3>1 DEF MadeWs
    <3>3. ServeForm(i, f, how, val)
      BY <1>1, <1>5, <2>2, <3>1, <3>2 DEF ServeForm
    <3> QED
      BY <3>3
  <2> QED
    BY <1>5, <2>1, <2>2 DEF ServeSpaces, InUse
<1>6. CASE ~Spaced(f) /\ Allowed(f) /\ ServeProjects(i)
  <2>1. ASSUME NEW good, Done(i, good),
               \A how, val : Does(f, how, val, good) =>
                 \/ f.call = "projects" /\ Does(f, how, val, ListOf(f.ws)) /\ UNCHANGED server
                 \/ f.call = "get" /\ Does(f, how, val, edits[f.pj]) /\ UNCHANGED server
                 \/ f.call \in {"tracks", "track"} /\ Does(f, how, val, None) /\ UNCHANGED server
                 \/ f.call = "make" /\ MadeForm(f, how, val)
                 \/ f.call = "patch" /\ PatchedForm(f, how, val)
                 \/ f.call = "archive" /\ ArchivedForm(f, how, val)
        PROVE  \E how, val : ServeForm(i, f, how, val)
    <3>1. PICK how, val : Told(i, how, val) /\ Does(f, how, val, good)
      BY <1>2, <2>1
    <3>2. ServeForm(i, f, how, val)
      BY <1>1, <1>6, <2>1, <3>1 DEF ServeForm
    <3> QED
      BY <3>2
  <2>2. CASE f.call = "projects" /\ Done(i, ListOf(f.ws)) /\ UNCHANGED server
    BY <2>1, <2>2
  <2>3. CASE f.call = "get" /\ Done(i, edits[f.pj]) /\ UNCHANGED server
    BY <2>1, <2>3
  <2>4. CASE f.call \in {"tracks", "track"} /\ Done(i, None) /\ UNCHANGED server
    BY <2>1, <2>4
  <2>5. CASE /\ f.call = "make" /\ home' = [home EXCEPT ![Makable] = f.ws]
             /\ recent' = Newest(Makable) /\ Done(i, Makable)
             /\ UNCHANGED <<spaces, member, archived, edits>>
    <3>1. \A how, val : Does(f, how, val, Makable) => MadeForm(f, how, val)
      BY <2>5 DEF MadeForm
    <3> QED
      BY <2>1, <2>5, <3>1
  <2>6. CASE /\ f.call = "patch" /\ edits' = [edits EXCEPT ![f.pj] = @ + 1]
             /\ recent' = Newest(f.pj) /\ Done(i, edits[f.pj] + 1)
             /\ UNCHANGED <<spaces, member, home, archived>>
    <3>1. \A how, val : Does(f, how, val, edits[f.pj] + 1) => PatchedForm(f, how, val)
      BY <2>6 DEF PatchedForm
    <3> QED
      BY <2>1, <2>6, <3>1
  <2>7. CASE /\ f.call = "archive" /\ archived' = archived \cup {f.pj}
             /\ recent' = Newest(f.pj) /\ Done(i, None)
             /\ UNCHANGED <<spaces, member, home, edits>>
    <3>1. \A how, val : Does(f, how, val, None) => ArchivedForm(f, how, val)
      BY <2>7 DEF ArchivedForm
    <3> QED
      BY <2>1, <2>7, <3>1
  <2> QED
    BY <1>6, <2>2, <2>3, <2>4, <2>5, <2>6, <2>7 DEF ServeProjects, Makable
<1> QED
  BY <1>3, <1>4, <1>5, <1>6 DEF Serve, Spaced, Allowed

ClickForm(i) ==
    \/ \E k \in 1 .. Len(store.spaces) :
         LET w == store.spaces[k] IN
         Starts(i, "select", "projects", w.id, None) /\ Keeps(w.id, w.role, store.spaces, store.list)
    \/ \E k \in 1 .. Len(store.list) : Starts(i, "open", "get", store.ws, store.list[k]) /\ Stays
    \/ store.ws # None /\ MakesOne /\ Starts(i, "create", "make", store.ws, None) /\ Stays
    \/ MakesOne /\ Starts(i, "createWs", "makeWs", None, None) /\ Stays
    \/ \E k \in 1 .. Len(store.list) :
         CanManage /\ Starts(i, "archive", "archive", None, store.list[k]) /\ Stays
    \/ CanEdit /\ Starts(i, "track", "track", None, store.id) /\ Stays
    \/ /\ CanEdit /\ \E k \in 1 .. Len(store.list) : store.list[k] = store.id
       /\ Starts(i, "update", "patch", store.ws, store.id) /\ Stays
Clicked == \/ \E k \in Rows : SelectWorkspace(k) \/ SelectProject(k) \/ ArchiveProject(k)
           \/ CreateProject \/ CreateWorkspace \/ AddTrack \/ UpdateProject

\* Each click is of one of the forms.
LEMMA ClickFormed ==
    ASSUME NavShape, Clicked
    PROVE  /\ \E i \in Slots : ClickForm(i)
           /\ Shown /\ flows < MaxFlows /\ flows' = flows + 1 /\ busy' \in BOOLEAN
<1>1. ASSUME NEW kind, kind # "boot", NEW call, NEW w, NEW p, Click(kind, call, w, p)
      PROVE  /\ Shown /\ flows < MaxFlows /\ flows' = flows + 1
             /\ \E i \in Slots : Starts(i, kind, call, w, p) /\ busy' \in BOOLEAN
  <2>1. PICK i \in Slots : Begin(i, [NoFlow EXCEPT !.kind = kind, !.call = call, !.ws = w, !.pj = p])
    BY <1>1 DEF Click
  <2>2. Shown /\ flows < MaxFlows /\ flows' = flows + 1 /\ UNCHANGED <<server, user, faults>>
    BY <1>1 DEF Click
  <2>3. Starts(i, kind, call, w, p) /\ busy' \in BOOLEAN
    BY <1>1, <2>1, <2>2, StartForm
  <2> QED
    BY <2>2, <2>3
<1>2. ASSUME NEW k \in Rows, SelectWorkspace(k)
      PROVE  /\ \E i \in Slots : ClickForm(i)
             /\ Shown /\ flows < MaxFlows /\ flows' = flows + 1 /\ busy' \in BOOLEAN
  <2> DEFINE w == store.spaces[k]
  <2>1. k \in 1 .. Len(store.spaces) /\ Click("select", "projects", w.id, None)
    BY <1>2 DEF SelectWorkspace
  <2>2. Keeps(w.id, w.role, store.spaces, store.list)
    BY <1>2, KeepForm DEF SelectWorkspace
  <2> QED
    BY <1>1, <2>1, <2>2 DEF ClickForm
<1>3. ASSUME NEW k \in Rows, SelectProject(k)
      PROVE  /\ \E i \in Slots : ClickForm(i)
             /\ Shown /\ flows < MaxFlows /\ flows' = flows + 1 /\ busy' \in BOOLEAN
  BY <1>1, <1>3 DEF SelectProject, ClickForm, Stays
<1>4. ASSUME NEW k \in Rows, ArchiveProject(k)
      PROVE  /\ \E i \in Slots : ClickForm(i)
             /\ Shown /\ flows < MaxFlows /\ flows' = flows + 1 /\ busy' \in BOOLEAN
  BY <1>1, <1>4 DEF ArchiveProject, ClickForm, Stays
<1>5. CASE CreateProject
  BY <1>1, <1>5 DEF CreateProject, ClickForm, Stays
<1>6. CASE CreateWorkspace
  BY <1>1, <1>6 DEF CreateWorkspace, ClickForm, Stays
<1>7. CASE AddTrack
  BY <1>1, <1>7 DEF AddTrack, ClickForm, Stays
<1>8. CASE UpdateProject
  BY <1>1, <1>8 DEF UpdateProject, ClickForm, Stays
<1> QED
  BY <1>2, <1>3, <1>4, <1>5, <1>6, <1>7, <1>8 DEF Clicked

BecomeForm(u) ==
    /\ May("users") /\ u \in Here \cup {None} /\ user' = u
    /\ flow' = [j \in Slots |-> flow'[j]]
    /\ \A j \in Slots :
         Becomes(flow'[j], flow[j].kind, flow[j].call, flow[j].ws, flow[j].pj, flow[j].by,
                 FALSE, FALSE, flow[j].ans.how, flow[j].ans.val)
    /\ UNCHANGED <<server, store, busy, flows, faults>>

\* To sign out or in.
LEMMA BecomeFormed ==
    ASSUME NavShape, SignOut \/ \E u \in Here : SignIn(u)
    PROVE  \E u : BecomeForm(u)
<1>1. PICK u \in Here \cup {None} : May("users") /\ Become(u)
  BY DEF SignOut, SignIn, NavShape
<1>2. flow' = [j \in Slots |-> [flow[j] EXCEPT !.live = FALSE, !.alone = FALSE]]
  BY <1>1 DEF Become
<1>3. flow' = [j \in Slots |-> flow'[j]]
  BY <1>2
<1>4. ASSUME NEW j \in Slots
      PROVE  Becomes(flow'[j], flow[j].kind, flow[j].call, flow[j].ws, flow[j].pj, flow[j].by,
                     FALSE, FALSE, flow[j].ans.how, flow[j].ans.val)
  <2>1. flow'[j] = [flow[j] EXCEPT !.live = FALSE, !.alone = FALSE]
    BY <1>2
  <2> DEFINE no == FALSE
  <2>2. flow'[j] = [flow[j] EXCEPT !.live = no, !.alone = no]
    BY <2>1
  <2> HIDE DEF no
  <2>3. Becomes(flow'[j], flow[j].kind, flow[j].call, flow[j].ws, flow[j].pj, flow[j].by,
                no, no, flow[j].ans.how, flow[j].ans.val)
    <3> DEFINE f == flow[j]
               g == [f EXCEPT !.live = no, !.alone = no]
    <3>1. Fields(f)
      BY FlowFields
    <3> HIDE DEF f
    <3>2. Becomes(g, f.kind, f.call, f.ws, f.pj, f.by, no, no, f.ans.how, f.ans.val)
      BY <3>1, FieldsSet
    <3> QED
      BY <2>2, <3>2 DEF f
  <2> QED
    BY <2>3 DEF no
<1>5. BecomeForm(u)
  BY <1>1, <1>3, <1>4 DEF Become, BecomeForm
<1> QED
  BY <1>5

(***************************************************************************)
(* A step of the tab is one of these.                                      *)
(***************************************************************************)
LEMMA StepFormed ==
    ASSUME NavShape, NavNext
    PROVE  \/ /\ \E i \in Slots : Starts(i, "boot", "workspaces", None, None)
              /\ BootDue /\ UNCHANGED <<store, busy, flows>>
           \/ /\ \E i \in Slots : ClickForm(i)
              /\ Shown /\ flows < MaxFlows /\ flows' = flows + 1 /\ busy' \in BOOLEAN
           \/ \E i \in Slots : \E how, val : ~BootDue /\ ServeForm(i, flow[i], how, val)
           \/ \E i \in Slots : ~BootDue /\ AnswerForm(i, flow[i], flow[i].ans.val)
           \/ \E u : BecomeForm(u)
<1>1. CASE Boot
  BY <1>1, BootForm
<1>2. CASE Clicked
  BY <1>2, ClickFormed
<1>3. ASSUME NEW i \in Slots, Serve(i), ~BootDue
      PROVE  \E how, val : ~BootDue /\ ServeForm(i, flow[i], how, val)
  BY <1>3, ServeFormed
<1>4. ASSUME NEW i \in Slots, Answer(i), ~BootDue
      PROVE  ~BootDue /\ AnswerForm(i, flow[i], flow[i].ans.val)
  BY <1>4, AnswersFormed
<1>5. CASE SignOut \/ \E u \in Here : SignIn(u)
  BY <1>5, BecomeFormed
<1> QED
  BY <1>1, <1>2, <1>3, <1>4, <1>5 DEF NavNext, Clicked

(***************************************************************************)
(* The shape of the tables, the store and the flows.                       *)
(***************************************************************************)
\* A flow that is left alone, but perhaps cancelled or no longer alone.
LEMMA FlowKept ==
    ASSUME NEW f, NEW g, NEW h, NEW id, NEW u, NEW later, NEW id2, NEW u2,
           NEW live \in BOOLEAN, NEW alone \in BOOLEAN, FlowOK(f, h, id, u),
           Becomes(g, f.kind, f.call, f.ws, f.pj, f.by, live, alone, f.ans.how, f.ans.val),
           \A p \in Projects : h[p] # None => later[p] # None,
           live => f.live /\ id2 = None /\ u2 = u, f.kind = "no" => ~alone
    PROVE  FlowOK(g, later, id2, u2)
<1>1. /\ Fields(g) /\ g.kind = f.kind /\ g.call = f.call /\ g.ws = f.ws /\ g.pj = f.pj /\ g.by = f.by
      /\ g.live = live /\ g.alone = alone /\ g.ans.how = f.ans.how /\ g.ans.val = f.ans.val
  BY DEF Becomes
<1>2. OfProject(g) <=> OfProject(f)
  BY <1>1 DEF OfProject
<1>3. OfWorkspace(g) <=> OfWorkspace(f)
  BY <1>1 DEF OfWorkspace
<1>4. f.ans.how = "ok" => AnswerOK(g, later)
  BY <1>1 DEF AnswerOK, FlowOK, OfProject
<1> QED
  BY <1>1, <1>2, <1>3, <1>4 DEF FlowOK

\* A flow that is told something stays what it is.
LEMMA FlowTold ==
    ASSUME NEW f, NEW g, NEW h, NEW id, NEW u, NEW later, NEW how, NEW val, FlowOK(f, h, id, u), f.kind # "no",
           Becomes(g, f.kind, f.call, f.ws, f.pj, f.by, f.live, f.alone, how, val),
           how \in {"ok", "failed", "401"}, how = "401" => f.by = None, how = "ok" => AnswerOK(g, later)
    PROVE  FlowOK(g, later, id, u)
<1>1. /\ Fields(g) /\ g.kind = f.kind /\ g.call = f.call /\ g.ws = f.ws /\ g.pj = f.pj /\ g.by = f.by
      /\ g.live = f.live /\ g.alone = f.alone /\ g.ans.how = how /\ g.ans.val = val
  BY DEF Becomes
<1>2. OfProject(g) <=> OfProject(f)
  BY <1>1 DEF OfProject
<1>3. OfWorkspace(g) <=> OfWorkspace(f)
  BY <1>1 DEF OfWorkspace
<1> QED
  BY <1>1, <1>2, <1>3 DEF FlowOK

\* A flow's next call.
LEMMA FlowAsks ==
    ASSUME NEW g, NEW kind, NEW call, NEW ws, NEW pj, NEW u \in Users \cup {None}, NEW live \in BOOLEAN,
           NEW alone \in BOOLEAN, NEW h, NEW id,
           Becomes(g, kind, call, ws, pj, u, live, alone, "no", None),
           kind \in Kinds, call \in CallsOf(kind), ws \in Workspaces \cup {None}, pj \in Shownable,
           OfProject(g) => pj \in Projects, OfWorkspace(g) => ws \in Workspaces,
           live => kind = "boot" /\ id = None /\ u # None
    PROVE  FlowOK(g, h, id, u)
<1>1. /\ Fields(g) /\ g.kind = kind /\ g.call = call /\ g.ws = ws /\ g.pj = pj /\ g.by = u
      /\ g.live = live /\ g.alone = alone /\ g.ans.how = "no" /\ g.ans.val = None
  BY DEF Becomes
<1>2. kind # "no"
  BY DEF Kinds
<1> QED
  BY <1>1, <1>2 DEF FlowOK

\* No flow is as FlowOK has it.
LEMMA FlowEnds ==
    ASSUME NEW g, NEW h, NEW id, NEW u,
           Becomes(g, "no", "no", None, None, None, FALSE, FALSE, "no", None)
    PROVE  FlowOK(g, h, id, u)
  BY DEF Becomes, FlowOK, OfProject, OfWorkspace, Shownable

\* A store of such fields is as StoreOK has it.
LEMMA StoreHeld ==
    ASSUME NEW s, NEW h, NEW ws \in Workspaces \cup {None}, NEW role \in Roles \cup {None},
           NEW all \in Seq(Space), NEW list \in Seq(Projects), NEW id \in Shownable, NEW of \in Shownable,
           NEW n \in Nat, Holds(s, ws, role, all, list, id, of, n),
           ws # None => role # None, id \in Projects => h[id] # None
    PROVE  StoreOK(s, h)
  BY DEF Holds, StoreOK, Stores

\* A flow that begins keeps the shape.
LEMMA ShapeStarts ==
    ASSUME NavShape, NEW i \in Slots, NEW kind \in Kinds, NEW call \in CallsOf(kind),
           NEW ws \in Workspaces \cup {None}, NEW pj \in Shownable, Starts(i, kind, call, ws, pj),
           kind = "boot" => BootDue /\ call # "projects", kind # "boot" => store.id # None,
           call \in {"get", "tracks", "archive", "patch"} => pj \in Projects,
           call = "projects" => kind = "select", call \in {"make"} => ws \in Workspaces,
           kind = "createWs" => call = "makeWs",
           StoreOK(store', home), store'.id = store.id, flows' \in 0 .. MaxFlows, busy' \in BOOLEAN
    PROVE  NavShape'
<1>1. /\ home' = home /\ spaces' = spaces /\ archived' = archived /\ recent' = recent /\ edits' = edits
      /\ user' = user /\ faults' = faults /\ flow' = [j \in Slots |-> flow'[j]]
  BY DEF Starts, server
<1>2. FlowOK(flow'[i], home, store.id, user)
  <2> DEFINE live == (kind = "boot")
             q == Quiet
  <2>1. Becomes(flow'[i], kind, call, ws, pj, user, live, q, "no", None)
    BY DEF Starts
  <2>2. user \in Users \cup {None} /\ live \in BOOLEAN /\ q \in BOOLEAN
    BY DEF NavShape, Quiet
  <2>3. live => kind = "boot" /\ store.id = None /\ user # None
    BY DEF BootDue
  <2>4. OfProject(flow'[i]) => pj \in Projects
    BY <2>1 DEF Becomes, OfProject
  <2>5. OfWorkspace(flow'[i]) => ws \in Workspaces
    BY <2>1 DEF Becomes, OfWorkspace
  <2> HIDE DEF live, q
  <2> QED
    BY <2>1, <2>2, <2>3, <2>4, <2>5, FlowAsks
<1>3. ASSUME NEW j \in Slots \ {i}
      PROVE  FlowOK(flow'[j], home, store.id, user)
  <2>1. Becomes(flow'[j], flow[j].kind, flow[j].call, flow[j].ws, flow[j].pj, flow[j].by,
                flow[j].live, FALSE, flow[j].ans.how, flow[j].ans.val)
    BY DEF Starts
  <2>2. FlowOK(flow[j], home, store.id, user)
    BY DEF NavShape, FlowsOK
  <2> DEFINE f == flow[j]
             live == f.live
             no == FALSE
  <2>3. live \in BOOLEAN /\ (live => f.live /\ store.id = None) /\ no \in BOOLEAN /\ ~no
    BY <2>2 DEF FlowOK
  <2>4. FlowOK(f, home, store.id, user)
    BY <2>2
  <2>5. Becomes(flow'[j], f.kind, f.call, f.ws, f.pj, f.by, live, no, f.ans.how, f.ans.val)
    BY <2>1
  <2> HIDE DEF live, no, f
  <2> QED
    BY <2>3, <2>4, <2>5, FlowKept
<1>4. FlowsOK'
  BY <1>1, <1>2, <1>3 DEF FlowsOK
<1>5. TablesOK'
  BY <1>1 DEF NavShape, TablesOK
<1> QED
  BY <1>1, <1>4, <1>5 DEF NavShape, May

\* A start keeps the shape.
LEMMA ShapeBoot ==
    ASSUME NavShape, NEW i \in Slots, Starts(i, "boot", "workspaces", None, None), BootDue,
           UNCHANGED <<store, busy, flows>>
    PROVE  NavShape'
<1>1. StoreOK(store', home) /\ store'.id = store.id /\ flows' \in 0 .. MaxFlows /\ busy' \in BOOLEAN
  BY DEF NavShape
<1>2. "boot" \in Kinds /\ "workspaces" \in CallsOf("boot") /\ None \in Shownable
  BY DEF Kinds, CallsOf, Shownable
<1> QED
  BY <1>1, <1>2, ShapeStarts

\* A click keeps the shape.
LEMMA ShapeClick ==
    ASSUME NavShape, NEW i \in Slots, ClickForm(i), Shown, flows < MaxFlows, flows' = flows + 1,
           busy' \in BOOLEAN
    PROVE  NavShape'
<1>1. flows' \in 0 .. MaxFlows /\ store.id # None
  BY NavUsers DEF NavShape, Shown
<1>2. /\ store.ws \in Workspaces \cup {None} /\ store.role \in Roles \cup {None}
      /\ store.spaces \in Seq(Space) /\ store.list \in Seq(Projects) /\ store.id \in Shownable
      /\ store.of \in Shownable /\ store.edits \in Nat /\ StoreOK(store, home)
      /\ \A k \in 1 .. Len(store.spaces) : store.spaces[k] \in Space
      /\ \A k \in 1 .. Len(store.list) : store.list[k] \in Projects
  BY ElementOfSeq DEF NavShape, StoreOK, Stores
<1>3. ASSUME NEW k \in 1 .. Len(store.spaces),
             Starts(i, "select", "projects", store.spaces[k].id, None),
             Keeps(store.spaces[k].id, store.spaces[k].role, store.spaces, store.list)
      PROVE  NavShape'
  <2> DEFINE w == store.spaces[k]
  <2>1. w.id \in Workspaces /\ w.role \in Roles
    BY <1>2 DEF Space
  <2>2. w.role # None /\ (store.id \in Projects => home[store.id] # None)
    BY <1>2, <2>1, NavNames DEF StoreOK
  <2>3. Holds(store', w.id, w.role, store.spaces, store.list, store.id, store.of, store.edits)
    BY <1>3 DEF Keeps
  <2> HIDE DEF w
  <2>4. StoreOK(store', home)
    BY <1>2, <2>1, <2>2, <2>3, StoreHeld
  <2>5. store'.id = store.id
    BY <2>3 DEF Holds
  <2>6. Starts(i, "select", "projects", w.id, None)
    BY <1>3 DEF w
  <2>7. "select" \in Kinds /\ "projects" \in CallsOf("select") /\ None \in Shownable
    BY DEF Kinds, CallsOf, Shownable
  <2> QED
    BY <1>1, <2>1, <2>4, <2>5, <2>6, <2>7, ShapeStarts
<1>4. ASSUME Stays
      PROVE  StoreOK(store', home) /\ store'.id = store.id
  BY <1>2, <1>4 DEF Stays
<1>5. ASSUME NEW k \in 1 .. Len(store.list), Starts(i, "open", "get", store.ws, store.list[k]), Stays
      PROVE  NavShape'
  <2> DEFINE p == store.list[k]
  <2>1. "open" \in Kinds /\ "get" \in CallsOf("open") /\ p \in Projects /\ p \in Shownable
        /\ Starts(i, "open", "get", store.ws, p)
    BY <1>2, <1>5 DEF Kinds, CallsOf, Shownable
  <2> HIDE DEF p
  <2> QED
    BY <1>1, <1>2, <1>4, <1>5, <2>1, ShapeStarts
<1>6. CASE store.ws # None /\ MakesOne /\ Starts(i, "create", "make", store.ws, None) /\ Stays
  <2>1. "create" \in Kinds /\ "make" \in CallsOf("create") /\ store.ws \in Workspaces /\ None \in Shownable
    BY <1>2, <1>6 DEF Kinds, CallsOf, Shownable
  <2> QED
    BY <1>1, <1>4, <1>6, <2>1, ShapeStarts
<1>7. CASE MakesOne /\ Starts(i, "createWs", "makeWs", None, None) /\ Stays
  <2>1. "createWs" \in Kinds /\ "makeWs" \in CallsOf("createWs") /\ None \in Shownable
    BY DEF Kinds, CallsOf, Shownable
  <2> QED
    BY <1>1, <1>4, <1>7, <2>1, ShapeStarts
<1>8. ASSUME NEW k \in 1 .. Len(store.list), Starts(i, "archive", "archive", None, store.list[k]), Stays
      PROVE  NavShape'
  <2>1. "archive" \in Kinds /\ "archive" \in CallsOf("archive") /\ store.list[k] \in Projects
        /\ store.list[k] \in Shownable
    BY <1>2 DEF Kinds, CallsOf, Shownable
  <2> QED
    BY <1>1, <1>4, <1>8, <2>1, ShapeStarts
<1>9. CASE Starts(i, "track", "track", None, store.id) /\ Stays
  <2>1. "track" \in Kinds /\ "track" \in CallsOf("track")
    BY DEF Kinds, CallsOf
  <2> QED
    BY <1>1, <1>2, <1>4, <1>9, <2>1, ShapeStarts
<1>10. ASSUME NEW k \in 1 .. Len(store.list), store.list[k] = store.id,
              Starts(i, "update", "patch", store.ws, store.id), Stays
       PROVE  NavShape'
  <2>1. "update" \in Kinds /\ "patch" \in CallsOf("update") /\ store.id \in Projects
    BY <1>2, <1>10 DEF Kinds, CallsOf
  <2> QED
    BY <1>1, <1>2, <1>4, <1>10, <2>1, ShapeStarts
<1> QED
  BY <1>3, <1>5, <1>6, <1>7, <1>8, <1>9, <1>10 DEF ClickForm

\* Signing out or in keeps the shape.
LEMMA ShapeBecome ==
    ASSUME NavShape, NEW u, BecomeForm(u)
    PROVE  NavShape'
<1>1. /\ home' = home /\ spaces' = spaces /\ archived' = archived /\ recent' = recent /\ edits' = edits
      /\ user' = u /\ faults' = faults /\ flow' = [j \in Slots |-> flow'[j]] /\ store' = store
      /\ busy' = busy /\ flows' = flows /\ u \in Users \cup {None} /\ May("users")
  BY NavUsers DEF BecomeForm, server
<1>2. ASSUME NEW j \in Slots
      PROVE  FlowOK(flow'[j], home, store.id, u)
  <2>1. Becomes(flow'[j], flow[j].kind, flow[j].call, flow[j].ws, flow[j].pj, flow[j].by,
                FALSE, FALSE, flow[j].ans.how, flow[j].ans.val)
    BY DEF BecomeForm
  <2>2. FlowOK(flow[j], home, store.id, user)
    BY DEF NavShape, FlowsOK
  <2> QED
    BY <2>1, <2>2, FlowKept
<1>3. FlowsOK'
  BY <1>1, <1>2 DEF FlowsOK
<1>4. TablesOK'
  BY <1>1 DEF NavShape, TablesOK
<1> QED
  BY <1>1, <1>3, <1>4 DEF NavShape, May

\* A flow that goes on keeps the shape.
LEMMA ShapeGoes ==
    ASSUME NavShape, NEW i \in Slots, NEW call, NEW ws \in Workspaces \cup {None}, NEW pj \in Shownable,
           GoesOn(i, call, ws, pj), flow[i].kind # "no", call \in CallsOf(flow[i].kind),
           OfProject(flow'[i]) => pj \in Projects, OfWorkspace(flow'[i]) => ws \in Workspaces,
           StoreOK(store', home), store'.id = store.id, UNCHANGED <<server, user, flows, faults>>
    PROVE  NavShape'
<1>1. /\ home' = home /\ spaces' = spaces /\ archived' = archived /\ recent' = recent /\ edits' = edits
      /\ user' = user /\ faults' = faults /\ flows' = flows /\ busy' = busy
      /\ flow' = [j \in Slots |-> flow'[j]]
  BY DEF GoesOn, server
<1>2. FlowOK(flow'[i], home, store.id, user)
  <2> DEFINE f == flow[i]
             live == f.live
             alone == f.alone
  <2>1. Becomes(flow'[i], f.kind, call, ws, pj, user, live, alone, "no", None)
    BY DEF GoesOn
  <2>2. FlowOK(f, home, store.id, user)
    BY DEF NavShape, FlowsOK
  <2>3. user \in Users \cup {None} /\ live \in BOOLEAN /\ alone \in BOOLEAN /\ f.kind \in Kinds
    BY <2>2 DEF NavShape, FlowOK
  <2>4. live => f.kind = "boot" /\ store.id = None /\ user # None
    BY <2>2 DEF FlowOK
  <2> HIDE DEF f, live, alone
  <2> QED
    BY <2>1, <2>3, <2>4, FlowAsks DEF f
<1>3. ASSUME NEW j \in Slots \ {i}
      PROVE  FlowOK(flow'[j], home, store.id, user)
  BY DEF GoesOn, NavShape, FlowsOK
<1>4. FlowsOK'
  BY <1>1, <1>2, <1>3 DEF FlowsOK
<1>5. TablesOK'
  BY <1>1 DEF NavShape, TablesOK
<1> QED
  BY <1>1, <1>4, <1>5 DEF NavShape, May

\* A flow that ends keeps the shape.
LEMMA ShapeStops ==
    ASSUME NavShape, NEW i \in Slots, Stops(i), StoreOK(store', home),
           UNCHANGED <<server, user, flows, faults>>
    PROVE  NavShape'
<1>1. /\ home' = home /\ spaces' = spaces /\ archived' = archived /\ recent' = recent /\ edits' = edits
      /\ user' = user /\ faults' = faults /\ flows' = flows /\ busy' \in BOOLEAN
      /\ flow' = [j \in Slots |-> flow'[j]]
  BY DEF Stops, server
<1>2. FlowOK(flow'[i], home, store'.id, user)
  BY FlowEnds DEF Stops
<1>3. ASSUME NEW j \in Slots \ {i}
      PROVE  FlowOK(flow'[j], home, store'.id, user)
  <2> DEFINE f == flow[j]
             live == f.live /\ store'.id = None
             alone == f.alone
  <2>1. Becomes(flow'[j], f.kind, f.call, f.ws, f.pj, f.by, live, alone, f.ans.how, f.ans.val)
    BY DEF Stops
  <2>2. FlowOK(f, home, store.id, user)
    BY DEF NavShape, FlowsOK
  <2>3. live \in BOOLEAN /\ alone \in BOOLEAN /\ (live => f.live /\ store'.id = None)
        /\ (f.kind = "no" => ~alone)
    BY <2>2 DEF FlowOK
  <2> HIDE DEF f, live, alone
  <2> QED
    BY <2>1, <2>2, <2>3, FlowKept
<1>4. FlowsOK'
  BY <1>1, <1>2, <1>3 DEF FlowsOK
<1>5. TablesOK'
  BY <1>1 DEF NavShape, TablesOK
<1> QED
  BY <1>1, <1>4, <1>5 DEF NavShape, May

\* Every answer keeps the shape.
LEMMA ShapeAnswer ==
    ASSUME NavShape, NEW i \in Slots, AnswerForm(i, flow[i], flow[i].ans.val)
    PROVE  NavShape'
<1> DEFINE f == flow[i]
           got == f.ans.val
<1>1. FlowOK(f, home, store.id, user) /\ f.kind # "no"
  BY DEF NavShape, FlowsOK, AnswerForm
<1>2. /\ store.ws \in Workspaces \cup {None} /\ store.role \in Roles \cup {None}
      /\ store.spaces \in Seq(Space) /\ store.list \in Seq(Projects) /\ store.id \in Shownable
      /\ store.of \in Shownable /\ store.edits \in Nat /\ StoreOK(store, home)
      /\ store.ws # None => store.role # None
      /\ store.id \in Projects => home[store.id] # None
  BY DEF NavShape, StoreOK, Stores
<1>3. /\ f.ws \in Workspaces \cup {None} /\ f.pj \in Shownable /\ f.call \in CallsOf(f.kind)
      /\ f.kind \in Kinds /\ (OfProject(f) => f.pj \in Projects) /\ (OfWorkspace(f) => f.ws \in Workspaces)
      /\ f.live => store.id = None
  BY <1>1 DEF FlowOK
<1>4. /\ "owner" \in Roles /\ "editor" \in Roles /\ "owner" # None /\ "editor" # None
      /\ Mock \in Shownable /\ None \in Shownable /\ Mock \notin Projects /\ None \notin Projects
      /\ <<>> \in Seq(Projects) /\ <<>> \in Seq(Space) /\ 0 \in Nat
  BY NavNames, EmptySeq DEF Roles, Shownable
<1> HIDE DEF got
\* The store of each kind of answer.
<1>5. ASSUME Stays
      PROVE  StoreOK(store', home) /\ store'.id = store.id
  BY <1>2, <1>5 DEF Stays
<1>6. ASSUME NEW ws \in Workspaces \cup {None}, NEW role \in Roles \cup {None}, NEW all \in Seq(Space),
             NEW list \in Seq(Projects), Keeps(ws, role, all, list), ws # None => role # None
      PROVE  StoreOK(store', home) /\ store'.id = store.id
  <2>1. Holds(store', ws, role, all, list, store.id, store.of, store.edits)
    BY <1>6 DEF Keeps
  <2>2. store'.id = store.id
    BY <2>1 DEF Holds
  <2> QED
    BY <1>2, <1>6, <2>1, <2>2, StoreHeld
<1>7. ASSUME NEW list \in Seq(Projects), Listed(list)
      PROVE  StoreOK(store', home) /\ store'.id = store.id
  BY <1>2, <1>6, <1>7 DEF Listed
<1>8. ASSUME NEW all \in Seq(Space), NEW list \in Seq(Projects), ShowsMock(all, list)
      PROVE  StoreOK(store', home)
  BY <1>2, <1>4, <1>8, StoreHeld DEF ShowsMock
<1>9. UNCHANGED <<server, flows, faults>>
  BY DEF AnswerForm
\* The shape of the next call.
<1>10. ASSUME NEW call \in CallsOf(f.kind), NEW ws \in Workspaces \cup {None}, NEW pj \in Shownable,
              GoesOn(i, call, ws, pj), StoreOK(store', home), store'.id = store.id, user' = user,
              call \in {"get", "tracks"} => pj \in Projects,
              call = "projects" /\ f.kind \notin {"boot", "select"} => pj \in Projects,
              call # "makeWs" /\ f.kind = "createWs" => ws \in Workspaces,
              call \notin {"archive", "patch"},
              call = "projects" /\ f.kind = "boot" => ws \in Workspaces, call = "make" => ws \in Workspaces
       PROVE  NavShape'
  <2>1. /\ flow'[i].kind = f.kind /\ flow'[i].call = call /\ flow'[i].ws = ws /\ flow'[i].pj = pj
    BY <1>10 DEF GoesOn, Becomes
  <2>2. OfProject(flow'[i]) => pj \in Projects
    BY <1>10, <2>1 DEF OfProject
  <2>3. OfWorkspace(flow'[i]) => ws \in Workspaces
    BY <1>10, <2>1 DEF OfWorkspace
  <2> QED
    BY <1>1, <1>9, <1>10, <2>2, <2>3, ShapeGoes
<1>11. ASSUME Stops(i), StoreOK(store', home), user' = user
       PROVE  NavShape'
  BY <1>9, <1>11, ShapeStops
<1>12. CASE f.ans.how = "ok" /\ user' = user /\ f.call = "workspaces" /\ SpacesForm(i, f, got)
  <2>1. got \in Seq(Space) /\ f.kind \in {"boot", "createWs"}
    <3>1. got \in Seq(Space)
      BY <1>1, <1>12 DEF FlowOK, AnswerOK, got
    <3>2. f.kind \in {"boot", "createWs"}
      BY <1>3, <1>12 DEF CallsOf, Kinds
    <3> QED
      BY <3>1, <3>2
  <2>2. CASE f.kind = "createWs" /\ GoesOn(i, "make", f.ws, f.pj) /\ Keeps(f.ws, "owner", got, <<>>)
    <3>1. f.ws \in Workspaces /\ "make" \in CallsOf(f.kind)
      BY <1>3, <1>12, <2>2 DEF OfWorkspace, CallsOf
    <3>2. StoreOK(store', home) /\ store'.id = store.id
      BY <1>4, <1>6, <2>1, <2>2, <3>1
    <3> QED
      BY <1>3, <1>10, <1>12, <2>2, <3>1, <3>2
  <2>3. CASE Stops(i) /\ Keeps(store.ws, store.role, got, store.list)
    BY <1>2, <1>6, <1>11, <1>12, <2>1, <2>3
  <2>4. CASE Stops(i) /\ ShowsMock(<<>>, store.list)
    BY <1>2, <1>4, <1>8, <1>11, <1>12, <2>4
  <2>5. CASE /\ f.kind = "boot" /\ got # <<>> /\ GoesOn(i, "projects", got[1].id, f.pj)
             /\ Keeps(got[1].id, got[1].role, got, store.list)
    <3> DEFINE w == got[1]
    <3>1. w \in Space
      <4>1. Len(got) \in Nat /\ Len(got) # 0
        BY <2>1, <2>5, LenProperties, EmptySeq
      <4> QED
        BY <2>1, <4>1, ElementOfSeq
    <3>2. w.id \in Workspaces /\ w.role \in Roles /\ w.role # None /\ "projects" \in CallsOf(f.kind)
      BY <2>5, <3>1, NavNames DEF Space, CallsOf
    <3>3. GoesOn(i, "projects", w.id, f.pj) /\ Keeps(w.id, w.role, got, store.list)
      BY <2>5
    <3> HIDE DEF w
    <3>4. StoreOK(store', home) /\ store'.id = store.id
      BY <1>2, <1>6, <2>1, <3>2, <3>3
    <3> QED
      BY <1>3, <1>10, <1>12, <2>5, <3>2, <3>3, <3>4
  <2> QED
    BY <1>12, <2>2, <2>3, <2>4, <2>5 DEF SpacesForm
<1>13. CASE f.ans.how = "ok" /\ user' = user /\ f.call = "projects" /\ ProjectsForm(i, f, got)
  <2>1. got \in Seq(Projects)
    BY <1>1, <1>13 DEF FlowOK, AnswerOK, got
  <2>2. CASE Stops(i) /\ Clears(got)
    <3>1. StoreOK(store', home)
      BY <1>2, <1>4, <2>1, <2>2, StoreHeld DEF Clears
    <3> QED
      BY <1>11, <1>13, <2>2, <3>1
  <2>3. CASE /\ f.kind = "archive" /\ Sift(got, Projects \ {f.pj}) # <<>>
             /\ GoesOn(i, "get", f.ws, Sift(got, Projects \ {f.pj})[1]) /\ Listed(got)
    <3> DEFINE s == Sift(got, Projects \ {f.pj})
               p == s[1]
    <3>1. s \in Seq(Projects \cap (Projects \ {f.pj})) /\ s # <<>>
      BY <2>1, <2>3, SiftKeeps
    <3>2. p \in Projects
      <4> HIDE DEF s
      <4>1. Len(s) \in Nat /\ Len(s) # 0
        BY <3>1, LenProperties, EmptySeq
      <4> QED
        BY <3>1, <4>1, ElementOfSeq
    <3>3. "get" \in CallsOf(f.kind) /\ p \in Shownable /\ GoesOn(i, "get", f.ws, p)
      BY <2>3, <3>2 DEF CallsOf, Shownable
    <3> HIDE DEF p
    <3> QED
      BY <1>3, <1>7, <1>10, <1>13, <2>1, <2>3, <3>2, <3>3
  <2>4. CASE f.kind \in {"create", "createWs"} /\ GoesOn(i, "get", f.ws, f.pj) /\ Listed(got)
    <3>1. "get" \in CallsOf(f.kind) /\ f.pj \in Projects
      BY <1>3, <1>13, <2>4 DEF CallsOf, OfProject
    <3>2. f.kind = "createWs" => f.ws \in Workspaces
      BY <1>3, <1>13 DEF OfWorkspace
    <3> QED
      BY <1>3, <1>7, <1>10, <1>13, <2>1, <2>4, <3>1, <3>2
  <2>5. CASE Stops(i) /\ Listed(got)
    BY <1>7, <1>11, <1>13, <2>1, <2>5
  <2>6. CASE /\ f.kind \in {"boot", "select"} /\ got # <<>>
             /\ GoesOn(i, "get", f.ws, got[1]) /\ Listed(got)
    <3> DEFINE p == got[1]
    <3>1. p \in Projects
      <4>1. Len(got) \in Nat /\ Len(got) # 0
        BY <2>1, <2>6, LenProperties, EmptySeq
      <4> QED
        BY <2>1, <4>1, ElementOfSeq
    <3>2. "get" \in CallsOf(f.kind) /\ p \in Shownable /\ GoesOn(i, "get", f.ws, p)
      BY <2>6, <3>1 DEF CallsOf, Shownable
    <3> HIDE DEF p
    <3> QED
      BY <1>3, <1>7, <1>10, <1>13, <2>1, <2>6, <3>1, <3>2
  <2>7. CASE Stops(i) /\ ShowsMock(store.spaces, got)
    BY <1>2, <1>8, <1>11, <1>13, <2>1, <2>7
  <2> QED
    BY <1>13, <2>2, <2>3, <2>4, <2>5, <2>6, <2>7 DEF ProjectsForm
<1>14. CASE f.ans.how = "ok" /\ user' = user /\ f.call = "get" /\ GetForm(i, f, got)
  <2>1. f.pj \in Projects /\ got \in Nat /\ home[f.pj] # None
    BY <1>1, <1>14 DEF FlowOK, AnswerOK, got, OfProject
  <2>2. StoreOK(store', home)
    BY <1>2, <1>3, <1>14, <2>1, StoreHeld DEF GetForm
  <2> QED
    BY <1>11, <1>14, <2>2 DEF GetForm
<1>15. CASE /\ f.ans.how = "ok" /\ user' = user /\ f.call = "makeWs"
            /\ GoesOn(i, "workspaces", got, f.pj) /\ Stays
  <2>1. got \in Workspaces
    BY <1>1, <1>15 DEF FlowOK, AnswerOK, got
  <2>2. f.kind = "createWs" /\ "workspaces" \in CallsOf(f.kind)
    BY <1>3, <1>15 DEF CallsOf, Kinds
  <2> QED
    BY <1>3, <1>5, <1>10, <1>15, <2>1, <2>2
<1>16. CASE f.ans.how = "ok" /\ user' = user /\ f.call = "make" /\ GoesOn(i, "tracks", f.ws, got) /\ Stays
  <2>1. got \in Projects /\ got \in Shownable
    BY <1>1, <1>16 DEF FlowOK, AnswerOK, got, Shownable
  <2>2. f.kind \in {"create", "createWs"} /\ "tracks" \in CallsOf(f.kind)
    BY <1>3, <1>16 DEF CallsOf, Kinds
  <2>3. f.kind = "createWs" => f.ws \in Workspaces
    BY <1>3, <1>16 DEF OfWorkspace
  <2> QED
    BY <1>3, <1>5, <1>10, <1>16, <2>1, <2>2, <2>3
<1>17. CASE f.ans.how = "ok" /\ user' = user /\ f.call = "tracks" /\ GoesOn(i, "projects", f.ws, f.pj) /\ Stays
  <2>1. f.kind \in {"create", "createWs"} /\ "projects" \in CallsOf(f.kind) /\ f.pj \in Projects
    BY <1>3, <1>17 DEF CallsOf, Kinds, OfProject
  <2>2. f.kind = "createWs" => f.ws \in Workspaces
    BY <1>3, <1>17 DEF OfWorkspace
  <2> QED
    BY <1>3, <1>5, <1>10, <1>17, <2>1, <2>2
<1>18. CASE f.ans.how = "ok" /\ user' = user /\ f.call = "track" /\ GoesOn(i, "get", f.ws, f.pj) /\ Stays
  <2>1. f.kind = "track" /\ "get" \in CallsOf(f.kind) /\ f.pj \in Projects
    BY <1>1, <1>3, <1>18 DEF CallsOf, Kinds, FlowOK, AnswerOK
  <2> QED
    BY <1>3, <1>5, <1>10, <1>18, <2>1
<1>19. CASE /\ f.ans.how = "ok" /\ user' = user /\ f.call = "archive"
            /\ GoesOn(i, "projects", store.ws, f.pj) /\ Stays
  <2>1. f.kind = "archive" /\ "projects" \in CallsOf(f.kind) /\ f.pj \in Projects
    BY <1>3, <1>19 DEF CallsOf, Kinds, OfProject
  <2> QED
    BY <1>2, <1>3, <1>5, <1>10, <1>19, <2>1
<1>20. CASE f.ans.how = "ok" /\ user' = user /\ f.call = "patch" /\ PatchForm(i, f, got)
  <2>1. f.kind = "update" /\ "projects" \in CallsOf(f.kind) /\ f.pj \in Projects /\ got \in Nat
    BY <1>1, <1>3, <1>20 DEF CallsOf, Kinds, OfProject, FlowOK, AnswerOK, got
  <2>2. StoreOK(store', home) /\ store'.id = store.id
    <3>1. CASE Stays
      BY <1>5, <3>1
    <3>2. CASE Holds(store', store.ws, store.role, store.spaces, store.list, store.id, f.pj, got)
      <4>1. store'.id = store.id
        BY <3>2 DEF Holds
      <4> QED
        BY <1>2, <1>3, <2>1, <3>2, <4>1, StoreHeld
    <3> QED
      BY <1>20, <3>1, <3>2 DEF PatchForm
  <2> QED
    BY <1>3, <1>10, <1>20, <2>1, <2>2 DEF PatchForm
<1>21. CASE f.ans.how \in {"failed", "401"} /\ FailForm(i, f)
  <2>1. f.live => f.ans.how # "401"
    BY <1>1 DEF FlowOK
  <2>2. CASE ShowsMock(store.spaces, store.list) /\ user' = user
    BY <1>2, <1>8, <1>11, <1>21, <2>2 DEF FailForm
  <2>3. CASE Stays /\ user' = user
    BY <1>5, <1>11, <1>21, <2>3 DEF FailForm
  <2> QED
    BY <1>21, <2>1, <2>2, <2>3 DEF FailForm
<1> QED
  BY <1>12, <1>13, <1>14, <1>15, <1>16, <1>17, <1>18, <1>19, <1>20, <1>21 DEF AnswerForm, got

\* One flow at a time makes a project, and there is one that it can make.
Makes(f) == f.kind \in {"create", "createWs"}
Unmade(f) == f.call \in {"makeWs", "workspaces"} \/ (f.call = "make" /\ f.ans.how = "no")
MakeInv ==
    /\ \A i, j \in Slots : Makes(flow[i]) /\ Makes(flow[j]) => i = j
    /\ \A i \in Slots : Makes(flow[i]) /\ Unmade(flow[i]) => \E p \in Projects : home[p] = None

\* What the server answers with.
LEMMA AnswerTypes ==
    ASSUME KeptInv, TablesOK
    PROVE  /\ \A w : ListOf(w) \in Seq(Projects)
           /\ \A p \in Projects : Newest(p) \in Seq(Projects)
           /\ \A u \in Users : SpacesOf(u) \in Seq(Space)
<1>1. ASSUME NEW w PROVE ListOf(w) \in Seq(Projects)
  <2> DEFINE S == {p \in Projects : home[p] = w /\ p \notin archived}
  <2>1. Sift(recent, S) \in Seq(Projects \cap S)
    BY SiftKeeps DEF TablesOK
  <2>2. Projects \cap S = S /\ S \subseteq Projects
    OBVIOUS
  <2> HIDE DEF S
  <2>3. Sift(recent, S) \in Seq(Projects)
    <3>1. /\ Len(Sift(recent, S)) \in Nat
          /\ \A k \in 1 .. Len(Sift(recent, S)) : Sift(recent, S)[k] \in S
      BY <2>1, <2>2, ElementOfSeq, LenProperties
    <3> QED
      BY <2>1, <2>2, <3>1, SeqDef
  <2> QED
    BY <2>3 DEF ListOf, S
<1>2. ASSUME NEW p \in Projects PROVE Newest(p) \in Seq(Projects)
  <2> DEFINE s == Sift(recent, Projects \ {p})
  <2>1. s \in Seq(Projects \cap (Projects \ {p}))
    BY SiftKeeps DEF TablesOK
  <2> HIDE DEF s
  <2>2. s \in Seq(Projects)
    BY <2>1, ElementOfSeq, LenProperties, SeqDef
  <2>3. <<p>> \in Seq(Projects)
    OBVIOUS
  <2>4. <<p>> \o s \in Seq(Projects)
    BY <2>2, <2>3, ConcatProperties
  <2> QED
    BY <2>4 DEF Newest, s
<1>3. ASSUME NEW u \in Users PROVE SpacesOf(u) \in Seq(Space)
  <2> DEFINE S == {w \in Workspaces : member[w][u] # None}
             mine == Sift(spaces, S)
             all == [k \in 1 .. Len(mine) |-> [id |-> mine[k], role |-> member[mine[k]][u]]]
  <2>1. mine \in Seq(Workspaces \cap S)
    BY SiftKeeps DEF KeptInv, Tables
  <2>2. member \in [Workspaces -> [Users -> Roles \cup {None}]]
    BY DEF KeptInv, Tables
  <2> HIDE DEF mine
  <2>3. Len(mine) \in Nat /\ \A k \in 1 .. Len(mine) : mine[k] \in Workspaces /\ mine[k] \in S
    BY <2>1, ElementOfSeq, LenProperties
  <2>4. \A k \in 1 .. Len(mine) : member[mine[k]][u] \in Roles
    BY <2>2, <2>3
  <2>5. \A k \in 1 .. Len(mine) : [id |-> mine[k], role |-> member[mine[k]][u]] \in Space
    BY <2>3, <2>4 DEF Space
  <2>6. all \in Seq(Space)
    BY <2>3, <2>5
  <2> QED
    BY <2>6 DEF SpacesOf, mine
<1> QED
  BY <1>1, <1>2, <1>3

\* An answer that is on its way keeps the shape.
LEMMA ShapeTold ==
    ASSUME NavShape, NEW i \in Slots, NEW how, NEW val, Told(i, how, val), flow[i].kind # "no",
           UNCHANGED <<user, store, busy, flows, faults>>, TablesOK',
           \A p \in Projects : home[p] # None => home'[p] # None,
           how \in {"ok", "failed", "401"}, how = "401" => flow[i].by = None,
           how = "ok" => AnswerOK(flow'[i], home')
    PROVE  NavShape'
<1>1. /\ user' = user /\ faults' = faults /\ flows' = flows /\ busy' = busy /\ store' = store
      /\ flow' = [j \in Slots |-> flow'[j]]
  BY DEF Told
<1>2. FlowOK(flow'[i], home', store.id, user)
  <2>1. FlowOK(flow[i], home, store.id, user)
    BY DEF NavShape, FlowsOK
  <2> DEFINE f == flow[i]
             h == home'
             g == flow'[i]
  <2>2. Becomes(g, f.kind, f.call, f.ws, f.pj, f.by, f.live, f.alone, how, val)
    BY DEF Told
  <2>3. f.kind # "no" /\ (how = "401" => f.by = None) /\ (how = "ok" => AnswerOK(g, h))
    OBVIOUS
  <2>4. FlowOK(f, home, store.id, user)
    BY <2>1
  <2> HIDE DEF f, g, h
  <2>5. FlowOK(g, h, store.id, user)
    BY <2>2, <2>3, <2>4, FlowTold
  <2> QED
    BY <2>5 DEF g, h
<1>3. ASSUME NEW j \in Slots \ {i}
      PROVE  FlowOK(flow'[j], home', store.id, user)
  <2> DEFINE f == flow[j]
             h == home'
             live == f.live
             alone == f.alone
  <2>1. flow'[j] = f
    BY DEF Told
  <2>2. FlowOK(f, home, store.id, user)
    BY DEF NavShape, FlowsOK
  <2>3. Becomes(f, f.kind, f.call, f.ws, f.pj, f.by, live, alone, f.ans.how, f.ans.val)
    BY FlowSame
  <2>4. live \in BOOLEAN /\ alone \in BOOLEAN /\ (live => f.live /\ store.id = None)
        /\ (f.kind = "no" => ~alone)
    BY <2>2 DEF FlowOK
  <2>5. \A p \in Projects : home[p] # None => h[p] # None
    OBVIOUS
  <2> HIDE DEF f, h, live, alone
  <2>6. FlowOK(f, h, store.id, user)
    BY <2>2, <2>3, <2>4, <2>5, FlowKept
  <2> QED
    BY <2>1, <2>6 DEF h
<1>4. FlowsOK'
  BY <1>1, <1>2, <1>3 DEF FlowsOK
<1>5. StoreOK(store', home')
  BY <1>1 DEF NavShape, StoreOK
<1> QED
  BY <1>1, <1>4, <1>5 DEF NavShape, May

\* Every call that is served keeps the shape.
LEMMA ShapeServe ==
    ASSUME KeptInv, NavShape, MakeInv, NEW i \in Slots, NEW how, NEW val, ServeForm(i, flow[i], how, val)
    PROVE  NavShape'
<1> DEFINE f == flow[i]
           g == flow'[i]
<1>1. FlowOK(f, home, store.id, user) /\ f.kind # "no" /\ f.ans.how = "no" /\ Told(i, how, val)
      /\ UNCHANGED <<user, store, busy, flows, faults>>
  BY DEF NavShape, FlowsOK, ServeForm
<1>2. g.kind = f.kind /\ g.call = f.call /\ g.ws = f.ws /\ g.pj = f.pj /\ g.by = f.by /\ g.ans.val = val
  BY <1>1 DEF Told, Becomes
<1>3. /\ f.ws \in Workspaces \cup {None} /\ f.pj \in Shownable /\ f.by \in Users \cup {None}
      /\ f.call \in CallsOf(f.kind) /\ f.kind \in Kinds
      /\ (OfProject(f) => f.pj \in Projects) /\ (OfWorkspace(f) => f.ws \in Workspaces)
  BY <1>1 DEF FlowOK
<1>4. TablesOK
  BY DEF NavShape
<1>5. /\ home \in [Projects -> Workspaces \cup {None}] /\ archived \subseteq {p \in Projects : home[p] # None}
      /\ edits \in [Projects -> Nat] /\ recent \in Seq(Projects)
      /\ \A p \in Projects : home[p] # None => InUse(home[p], spaces)
  BY <1>4 DEF TablesOK
<1>6. ASSUME TablesOK', \A p \in Projects : home[p] # None => home'[p] # None,
             how \in {"ok", "failed", "401"}, how = "401" => f.by = None,
             how = "ok" => AnswerOK(g, home')
      PROVE  NavShape'
  BY <1>1, <1>6, ShapeTold
<1>7. ASSUME UNCHANGED server
      PROVE  TablesOK' /\ home' = home
  BY <1>4, <1>7 DEF TablesOK, server
<1>8. CASE RefusedForm(f, how)
  <2>1. how \in {"ok", "failed", "401"} /\ (how = "401" => f.by = None) /\ how # "ok" /\ UNCHANGED server
    BY <1>8 DEF RefusedForm
  <2> QED
    BY <1>6, <1>7, <2>1
<1>9. ASSUME NEW good, Does(f, how, val, good), TablesOK',
             \A p \in Projects : home[p] # None => home'[p] # None,
             val = good => AnswerOK(g, home')
      PROVE  NavShape'
  <2>1. how \in {"ok", "failed", "401"} /\ (how = "401" => f.by = None) /\ (how = "ok" => val = good)
    BY <1>9 DEF Does
  <2> QED
    BY <1>6, <1>9, <2>1
<1>10. CASE f.call = "workspaces" /\ f.by # None /\ Does(f, how, val, SpacesOf(f.by)) /\ UNCHANGED server
  <2> DEFINE good == SpacesOf(f.by)
  <2>1. good \in Seq(Space)
    BY <1>3, <1>4, <1>10, AnswerTypes
  <2> HIDE DEF good
  <2>2. val = good => AnswerOK(g, home')
    BY <1>2, <1>10, <2>1 DEF AnswerOK
  <2>3. TablesOK' /\ home' = home /\ Does(f, how, val, good)
    BY <1>7, <1>10 DEF good
  <2> QED
    BY <1>9, <2>2, <2>3
<1>11. CASE f.call = "makeWs" /\ f.by # None /\ MadeWs(f, how, val)
  <2>1. PICK w \in Workspaces : /\ spaces' = Append(spaces, w) /\ Does(f, how, val, w)
                                /\ UNCHANGED <<home, archived, recent, edits>>
    BY <1>11 DEF MadeWs
  <2>2. spaces \in Seq(Workspaces)
    BY DEF KeptInv, Tables
  <2>3. /\ Len(spaces) \in Nat /\ Len(spaces') = Len(spaces) + 1
        /\ \A k \in 1 .. Len(spaces) : spaces'[k] = spaces[k]
    BY <2>1, <2>2, AppendProperties, LenProperties
  <2>4. \A v : InUse(v, spaces) => InUse(v, spaces')
    BY <2>3 DEF InUse
  <2>5. TablesOK'
    BY <1>5, <2>1, <2>4 DEF TablesOK
  <2>6. val = w => AnswerOK(g, home')
    BY <1>2, <1>11 DEF AnswerOK
  <2> QED
    BY <1>9, <2>1, <2>5, <2>6
<1>12. ASSUME ~Spaced(f), Allowed(f)
       PROVE  /\ f.by # None
              /\ f.call \in {"projects", "make"} => f.ws \in Workspaces /\ member[f.ws][f.by] # None
              /\ f.call \in {"get", "tracks", "track", "patch", "archive"} =>
                   f.pj \in Projects \ archived /\ home[f.pj] # None
  <2> DEFINE w == IF f.call \in {"projects", "make"} THEN f.ws
                  ELSE IF f.pj \in Projects \ archived THEN home[f.pj] ELSE None
  <2>1. f.call \in {"get", "tracks", "track", "patch", "archive", "projects", "make"}
    BY <1>3, <1>12 DEF Spaced, CallsOf, Kinds
  <2>2. AtLeast(RoleOf(w, f.by), Needs(f.call)) /\ Needs(f.call) \in {"viewer", "editor", "admin"}
    BY <1>12, <2>1 DEF Allowed, Grants, Needs
  <2>3. RoleOf(w, f.by) \in Roles
    BY <2>2 DEF AtLeast, Roles
  <2>4. w # None /\ f.by # None /\ member[w][f.by] \in Roles
    BY <2>3, NavNames DEF RoleOf
  <2> QED
    BY <1>3, <2>4, NavNames
<1>13. CASE /\ ~Spaced(f) /\ Allowed(f) /\ f.call = "projects"
            /\ Does(f, how, val, ListOf(f.ws)) /\ UNCHANGED server
  <2> DEFINE good == ListOf(f.ws)
  <2>1. good \in Seq(Projects)
    BY <1>4, AnswerTypes
  <2> HIDE DEF good
  <2>2. val = good => AnswerOK(g, home')
    BY <1>2, <1>13, <2>1 DEF AnswerOK
  <2>3. TablesOK' /\ home' = home /\ Does(f, how, val, good)
    BY <1>7, <1>13 DEF good
  <2> QED
    BY <1>9, <2>2, <2>3
<1>14. CASE /\ ~Spaced(f) /\ Allowed(f) /\ f.call = "get"
            /\ Does(f, how, val, edits[f.pj]) /\ UNCHANGED server
  <2>1. edits[f.pj] \in Nat /\ home[f.pj] # None
    BY <1>5, <1>12, <1>14
  <2>2. home' = home /\ TablesOK'
    BY <1>7, <1>14
  <2>3. val = edits[f.pj] => AnswerOK(g, home')
    BY <1>2, <1>14, <2>1, <2>2 DEF AnswerOK
  <2> QED
    BY <1>9, <1>14, <2>2, <2>3
<1>15. CASE /\ ~Spaced(f) /\ Allowed(f) /\ f.call \in {"tracks", "track"}
            /\ Does(f, how, val, None) /\ UNCHANGED server
  <2>1. home' = home /\ TablesOK' /\ f.pj \in Projects
    BY <1>7, <1>12, <1>15
  <2>2. AnswerOK(g, home')
    BY <1>2, <1>15, <2>1 DEF AnswerOK
  <2> QED
    BY <1>9, <1>15, <2>1, <2>2
<1>16. ASSUME NEW p \in Projects, recent' = Newest(p)
       PROVE  recent' \in Seq(Projects)
  BY <1>4, <1>16, AnswerTypes
<1>17. CASE ~Spaced(f) /\ Allowed(f) /\ f.call = "make" /\ MadeForm(f, how, val)
  <2>1. f.ws \in Workspaces /\ member[f.ws][f.by] # None /\ f.by \in Users
    BY <1>3, <1>12, <1>17
  <2>2. InUse(f.ws, spaces)
    BY <2>1 DEF KeptInv, Tables, NoneYet
  <2>3. \E p \in Projects : home[p] = None
    <3>1. Makes(f) /\ Unmade(f)
      BY <1>1, <1>3, <1>17 DEF Makes, Unmade, CallsOf, Kinds
    <3> QED
      BY <3>1 DEF MakeInv
  <2> DEFINE q == Makable
  <2>4. q \in Projects /\ home[q] = None
    BY <2>3 DEF Makable
  <2> HIDE DEF q
  <2>5. /\ home' = [home EXCEPT ![q] = f.ws] /\ recent' = Newest(q) /\ Does(f, how, val, q)
        /\ UNCHANGED <<spaces, archived, edits>>
    BY <1>17 DEF MadeForm, q
  <2>6. /\ home' \in [Projects -> Workspaces \cup {None}] /\ home'[q] = f.ws /\ f.ws # None
        /\ \A p \in Projects : p # q => home'[p] = home[p]
    BY <1>5, <2>1, <2>4, <2>5, NavNames
  <2>7. TablesOK'
    BY <1>5, <1>16, <2>2, <2>4, <2>5, <2>6 DEF TablesOK
  <2>8. val = q => AnswerOK(g, home')
    BY <1>2, <1>17, <2>4 DEF AnswerOK
  <2> QED
    BY <1>9, <2>4, <2>5, <2>6, <2>7, <2>8
<1>18. CASE ~Spaced(f) /\ Allowed(f) /\ f.call = "patch" /\ PatchedForm(f, how, val)
  <2> DEFINE p == f.pj
             n == edits[p] + 1
  <2>1. p \in Projects /\ n \in Nat
    BY <1>5, <1>12, <1>18
  <2>2. /\ edits' = [edits EXCEPT ![p] = edits[p] + 1] /\ recent' = Newest(p) /\ Does(f, how, val, n)
        /\ spaces' = spaces /\ home' = home /\ archived' = archived
    BY <1>18 DEF PatchedForm
  <2> HIDE DEF p
  <2>3. edits' \in [Projects -> Nat]
    BY <1>5, <2>1, <2>2
  <2>4. TablesOK'
    BY <1>5, <1>16, <2>1, <2>2, <2>3 DEF TablesOK
  <2> HIDE DEF n
  <2>5. val = n => AnswerOK(g, home')
    BY <1>2, <1>18, <2>1 DEF AnswerOK
  <2> QED
    BY <1>9, <2>2, <2>4, <2>5
<1>19. CASE ~Spaced(f) /\ Allowed(f) /\ f.call = "archive" /\ ArchivedForm(f, how, val)
  <2> DEFINE p == f.pj
  <2>1. p \in Projects /\ home[p] # None
    BY <1>12, <1>19
  <2>2. /\ archived' = archived \cup {p} /\ recent' = Newest(p) /\ Does(f, how, val, None)
        /\ spaces' = spaces /\ home' = home /\ edits' = edits
    BY <1>19 DEF ArchivedForm
  <2> HIDE DEF p
  <2>3. TablesOK'
    BY <1>5, <1>16, <2>1, <2>2 DEF TablesOK
  <2>4. AnswerOK(g, home')
    BY <1>2, <1>19 DEF AnswerOK
  <2> QED
    BY <1>9, <2>2, <2>3, <2>4
<1> QED
  BY <1>1, <1>8, <1>10, <1>11, <1>13, <1>14, <1>15, <1>17, <1>18, <1>19 DEF ServeForm

\* After an answer a flow goes on or is over, and nobody is signed out that is alone.
LEMMA AnswerGoes ==
    ASSUME NavShape, NEW i \in Slots, AnswerForm(i, flow[i], flow[i].ans.val)
    PROVE  /\ flow[i].kind # "no" /\ user' = user /\ UNCHANGED <<server, flows, faults>>
           /\ \/ Stops(i)
              \/ /\ store'.id = store.id
                 /\ \E call, ws, pj :
                      /\ GoesOn(i, call, ws, pj) /\ call # "makeWs"
                      /\ call = "workspaces" => flow[i].call = "makeWs"
                      /\ call = "make" => flow[i].call = "workspaces"
<1> DEFINE f == flow[i]
           got == f.ans.val
           Next(call) == /\ call # "makeWs" /\ (call = "workspaces" => f.call = "makeWs")
                         /\ (call = "make" => f.call = "workspaces")
<1>1. f.kind # "no" /\ UNCHANGED <<server, flows, faults>>
  BY DEF AnswerForm
<1>2. FlowOK(f, home, store.id, user)
  BY DEF NavShape, FlowsOK
<1>3. ASSUME NEW ws, NEW role, NEW all, NEW list, Keeps(ws, role, all, list)
      PROVE  store'.id = store.id
  BY <1>3 DEF Keeps, Holds
<1>4. ASSUME NEW list, Listed(list)
      PROVE  store'.id = store.id
  BY <1>3, <1>4 DEF Listed
<1>5. Stays => store'.id = store.id
  BY DEF Stays
<1> HIDE DEF f, got
<1>6. ASSUME user' = user, f.call = "workspaces", SpacesForm(i, f, got)
      PROVE  Stops(i) \/ (store'.id = store.id /\ \E call, ws, pj : GoesOn(i, call, ws, pj) /\ Next(call))
  <2>1. Next("make") /\ Next("projects")
    BY <1>6
  <2> HIDE DEF Next
  <2> QED
    BY <1>3, <1>6, <2>1 DEF SpacesForm
<1>7. ASSUME user' = user, f.call = "projects", ProjectsForm(i, f, got)
      PROVE  Stops(i) \/ (store'.id = store.id /\ \E call, ws, pj : GoesOn(i, call, ws, pj) /\ Next(call))
  <2>1. Next("get")
    BY <1>7
  <2> HIDE DEF Next
  <2> QED
    BY <1>4, <1>7, <2>1 DEF ProjectsForm
<1>8. ASSUME f.call = "patch", PatchForm(i, f, got)
      PROVE  store'.id = store.id /\ \E call, ws, pj : GoesOn(i, call, ws, pj) /\ Next(call)
  <2>1. store'.id = store.id
    BY <1>5, <1>8 DEF PatchForm, Holds
  <2>2. Next("projects")
    BY <1>8
  <2> HIDE DEF Next
  <2> QED
    BY <1>8, <2>1, <2>2 DEF PatchForm
<1>9. ASSUME Stays, \/ f.call = "makeWs" /\ GoesOn(i, "workspaces", got, f.pj)
                    \/ f.call = "make" /\ GoesOn(i, "tracks", f.ws, got)
                    \/ f.call = "tracks" /\ GoesOn(i, "projects", f.ws, f.pj)
                    \/ f.call = "track" /\ GoesOn(i, "get", f.ws, f.pj)
                    \/ f.call = "archive" /\ GoesOn(i, "projects", store.ws, f.pj)
      PROVE  store'.id = store.id /\ \E call, ws, pj : GoesOn(i, call, ws, pj) /\ Next(call)
  <2>1. /\ f.call = "makeWs" => Next("workspaces")
        /\ Next("tracks") /\ Next("projects") /\ Next("get")
    OBVIOUS
  <2> HIDE DEF Next
  <2> QED
    BY <1>5, <1>9, <2>1
<1>10. ASSUME f.ans.how \in {"failed", "401"}, FailForm(i, f)
       PROVE  Stops(i) /\ user' = user
  BY <1>2, <1>10 DEF FailForm, FlowOK
<1>11. user' = user /\ ( Stops(i) \/ (store'.id = store.id
                          /\ \E call, ws, pj : GoesOn(i, call, ws, pj) /\ Next(call)) )
  <2>1. AnswerForm(i, f, got)
    BY DEF f, got
  <2>2. GetForm(i, f, got) => Stops(i)
    BY DEF GetForm
  <2> HIDE DEF Next
  <2> QED
    BY <2>1, <2>2, <1>6, <1>7, <1>8, <1>9, <1>10 DEF AnswerForm
<1> QED
  BY <1>1, <1>11 DEF f

-----------------------------------------------------------------------------
\* Who makes a project goes on as the one that does.
LEMMA MakeKept ==
    ASSUME MakeInv, \A j \in Slots : Makes(flow'[j]) => Makes(flow[j]),
           \A j \in Slots : Makes(flow'[j]) /\ Unmade(flow'[j]) =>
              Unmade(flow[j]) /\ ((\E p \in Projects : home[p] = None) => \E p \in Projects : home'[p] = None)
    PROVE  MakeInv'
  BY DEF MakeInv

\* A flow that begins is the only one that makes a project.
LEMMA MakeStarts ==
    ASSUME NavShape, MakeInv, NEW i \in Slots, NEW kind, NEW call, NEW ws, NEW pj, Starts(i, kind, call, ws, pj),
           kind \in {"create", "createWs"} => MakesOne
    PROVE  MakeInv'
<1>1. home' = home /\ flow'[i].kind = kind /\ flow[i].kind = "no"
  BY DEF Starts, server, Becomes
<1>2. ASSUME NEW j \in Slots \ {i}
      PROVE  flow'[j].kind = flow[j].kind /\ flow'[j].call = flow[j].call /\ flow'[j].ans.how = flow[j].ans.how
  BY DEF Starts, Becomes
<1>3. CASE ~Makes(flow'[i])
  <2>1. \A j \in Slots : Makes(flow'[j]) => Makes(flow[j])
    BY <1>2, <1>3 DEF Makes
  <2>2. \A j \in Slots : Makes(flow'[j]) /\ Unmade(flow'[j]) => Unmade(flow[j])
    BY <1>2, <1>3 DEF Unmade
  <2> QED
    BY <1>1, <2>1, <2>2, MakeKept
<1>4. CASE Makes(flow'[i])
  <2>1. MakesOne
    BY <1>1, <1>4 DEF Makes
  <2>2. \A j \in Slots \ {i} : ~Makes(flow'[j])
    BY <1>2, <2>1 DEF MakesOne, Making, Makes
  <2>3. \E p \in Projects : home'[p] = None
    BY <1>1, <2>1 DEF MakesOne
  <2> QED
    BY <2>2, <2>3 DEF MakeInv
<1> QED
  BY <1>3, <1>4

\* Every answer keeps MakeInv.
LEMMA MakeAnswer ==
    ASSUME NavShape, MakeInv, NEW i \in Slots, AnswerForm(i, flow[i], flow[i].ans.val)
    PROVE  MakeInv'
<1>1. home' = home
  BY AnswerGoes DEF server
<1>2. CASE Stops(i)
  <2>1. ~Makes(flow'[i])
    BY <1>2 DEF Stops, Becomes, Makes
  <2>2. \A j \in Slots \ {i} : /\ flow'[j].kind = flow[j].kind /\ flow'[j].call = flow[j].call
                                /\ flow'[j].ans.how = flow[j].ans.how
    BY <1>2 DEF Stops, Becomes
  <2>3. \A j \in Slots : Makes(flow'[j]) => Makes(flow[j])
    BY <2>1, <2>2 DEF Makes
  <2>4. \A j \in Slots : Makes(flow'[j]) /\ Unmade(flow'[j]) => Unmade(flow[j])
    BY <2>1, <2>2 DEF Unmade
  <2> QED
    BY <1>1, <2>3, <2>4, MakeKept
<1>3. ASSUME NEW call, NEW ws, NEW pj, GoesOn(i, call, ws, pj), call # "makeWs",
             call = "workspaces" => flow[i].call = "makeWs", call = "make" => flow[i].call = "workspaces"
      PROVE  MakeInv'
  <2>1. flow'[i].kind = flow[i].kind /\ flow'[i].call = call
    BY <1>3 DEF GoesOn, Becomes
  <2>2. \A j \in Slots \ {i} : flow'[j] = flow[j]
    BY <1>3 DEF GoesOn
  <2>3. \A j \in Slots : Makes(flow'[j]) => Makes(flow[j])
    BY <2>1, <2>2 DEF Makes
  <2>4. \A j \in Slots : Makes(flow'[j]) /\ Unmade(flow'[j]) => Unmade(flow[j])
    BY <1>3, <2>1, <2>2 DEF Unmade
  <2> QED
    BY <1>1, <2>3, <2>4, MakeKept
<1> QED
  BY <1>2, <1>3, AnswerGoes

\* Every call that is served keeps MakeInv.
LEMMA MakeServe ==
    ASSUME NavShape, MakeInv, NEW i \in Slots, NEW how, NEW val, ServeForm(i, flow[i], how, val)
    PROVE  MakeInv'
<1> DEFINE f == flow[i]
<1>1. Told(i, how, val) /\ FlowOK(f, home, store.id, user) /\ f.kind # "no"
  BY DEF ServeForm, NavShape, FlowsOK
<1>2. flow'[i].kind = f.kind /\ flow'[i].call = f.call /\ flow'[i].ans.how = how
  BY <1>1 DEF Told, Becomes
<1>3. \A j \in Slots \ {i} : flow'[j] = flow[j]
  BY <1>1 DEF Told
<1>4. \A j \in Slots : Makes(flow'[j]) => Makes(flow[j])
  BY <1>2, <1>3 DEF Makes
<1>5. how # "no"
  BY DEF ServeForm, RefusedForm, Does, MadeWs, MadeForm, PatchedForm, ArchivedForm
<1>6. \A j \in Slots : Unmade(flow'[j]) => Unmade(flow[j])
  BY <1>2, <1>3, <1>5 DEF Unmade
<1>7. CASE f.call = "make" /\ Allowed(f)
  <2>1. Makes(f)
    BY <1>1, <1>7 DEF FlowOK, CallsOf, Kinds, Makes
  <2>2. ~Unmade(flow'[i])
    BY <1>2, <1>5, <1>7 DEF Unmade
  <2>3. \A j \in Slots \ {i} : ~Makes(flow'[j])
    BY <1>3, <2>1 DEF MakeInv
  <2> QED
    BY <1>4, <2>2, <2>3, MakeKept
<1>8. CASE home' = home
  BY <1>4, <1>6, <1>8, MakeKept
<1>9. f.call # "make" \/ ~Allowed(f) => home' = home
  BY <1>1 DEF ServeForm, RefusedForm, MadeWs, PatchedForm, ArchivedForm, server
<1> QED
  BY <1>7, <1>8, <1>9

AloneOnly ==
    \A i \in Slots : flow[i].kind # "no" /\ flow[i].alone =>
        /\ flow[i].by = user /\ user # None
        /\ \A j \in Slots : j # i => flow[j].kind = "no"

(***************************************************************************)
(* Without overlap and with one user a flow is alone, and a start is on    *)
(* its way only when nothing is shown.                                     *)
(***************************************************************************)
OneByOne == ~May("overlap") /\ ~May("users")
SoloInv ==
    OneByOne =>
      \A i \in Slots : flow[i].kind # "no" =>
        flow[i].alone /\ IF flow[i].kind = "boot" THEN flow[i].live ELSE store.id # None

\* Every step of the tab keeps MakeInv.
LEMMA MakeStep ==
    ASSUME NavShape, MakeInv, NavNext
    PROVE  MakeInv'
<1>1. ASSUME NEW i \in Slots, Starts(i, "boot", "workspaces", None, None)
      PROVE  MakeInv'
  BY <1>1, MakeStarts
<1>2. ASSUME NEW i \in Slots, ClickForm(i)
      PROVE  MakeInv'
  BY <1>2, MakeStarts DEF ClickForm
<1>3. ASSUME NEW u, BecomeForm(u)
      PROVE  MakeInv'
  <2>1. \A j \in Slots : /\ flow'[j].kind = flow[j].kind /\ flow'[j].call = flow[j].call
                         /\ flow'[j].ans.how = flow[j].ans.how
    BY <1>3 DEF BecomeForm, Becomes
  <2>2. home' = home
    BY <1>3 DEF BecomeForm, server
  <2>3. \A j \in Slots : Makes(flow'[j]) => Makes(flow[j])
    BY <2>1 DEF Makes
  <2>4. \A j \in Slots : Unmade(flow'[j]) => Unmade(flow[j])
    BY <2>1 DEF Unmade
  <2> QED
    BY <2>2, <2>3, <2>4, MakeKept
<1> QED
  BY <1>1, <1>2, <1>3, StepFormed, MakeAnswer, MakeServe

\* A flow that begins is alone only if nothing else is on its way.
LEMMA AloneStarts ==
    ASSUME NEW i \in Slots, NEW kind, NEW call, NEW ws, NEW pj, Starts(i, kind, call, ws, pj),
           user # None
    PROVE  AloneOnly'
<1>1. /\ flow'[i].kind = kind /\ flow'[i].alone = Quiet /\ flow'[i].by = user /\ user' = user
      /\ \A j \in Slots \ {i} : flow'[j].kind = flow[j].kind /\ ~flow'[j].alone
  BY DEF Starts, Becomes
<1> QED
  BY <1>1 DEF AloneOnly, Quiet

\* Every step of the tab keeps AloneOnly.
LEMMA AloneStep ==
    ASSUME NavShape, AloneOnly, NavNext
    PROVE  AloneOnly'
<1>1. ASSUME NEW i \in Slots, ClickForm(i), Shown
      PROVE  AloneOnly'
  BY <1>1, AloneStarts DEF ClickForm, Shown
<1>2. ASSUME NEW i \in Slots, NEW how, NEW val, ServeForm(i, flow[i], how, val)
      PROVE  AloneOnly'
  <2>1. Told(i, how, val) /\ user' = user
    BY <1>2 DEF ServeForm
  <2>2. \A j \in Slots : flow'[j].kind = flow[j].kind /\ flow'[j].alone = flow[j].alone
                         /\ flow'[j].by = flow[j].by
    BY <2>1 DEF Told, Becomes
  <2> QED
    BY <2>1, <2>2 DEF AloneOnly
<1>3. ASSUME NEW i \in Slots, AnswerForm(i, flow[i], flow[i].ans.val)
      PROVE  AloneOnly'
  <2>1. user' = user /\ flow[i].kind # "no"
    BY <1>3, AnswerGoes
  <2>2. CASE Stops(i)
    <3>1. /\ flow'[i].kind = "no"
          /\ \A j \in Slots \ {i} : flow'[j].kind = flow[j].kind /\ flow'[j].alone = flow[j].alone
                                    /\ flow'[j].by = flow[j].by
      BY <2>2 DEF Stops, Becomes
    <3> QED
      BY <2>1, <3>1 DEF AloneOnly
  <2>3. ASSUME NEW call, NEW ws, NEW pj, GoesOn(i, call, ws, pj)
        PROVE  AloneOnly'
    <3>1. /\ flow'[i].kind = flow[i].kind /\ flow'[i].alone = flow[i].alone /\ flow'[i].by = user
          /\ \A j \in Slots \ {i} : flow'[j] = flow[j]
      BY <2>3 DEF GoesOn, Becomes
    <3> QED
      BY <2>1, <3>1 DEF AloneOnly
  <2> QED
    BY <1>3, <2>2, <2>3, AnswerGoes
<1>4. ASSUME NEW u, BecomeForm(u)
      PROVE  AloneOnly'
  <2>1. \A j \in Slots : ~flow'[j].alone
    BY <1>4 DEF BecomeForm, Becomes
  <2> QED
    BY <2>1 DEF AloneOnly
<1> QED
  BY <1>1, <1>2, <1>3, <1>4, StepFormed, AloneStarts DEF BootDue

\* Then only one flow is on its way.
LEMMA OnlyOne ==
    ASSUME NavShape, SoloInv, AloneOnly, OneByOne, NEW i \in Slots, flow[i].kind # "no"
    PROVE  /\ \A j \in Slots : j # i => flow[j].kind = "no" /\ ~flow[j].live
           /\ flow[i].alone /\ flow[i].by = user
<1>1. flow[i].alone /\ flow[i].by = user /\ \A j \in Slots : j # i => flow[j].kind = "no"
  BY DEF SoloInv, AloneOnly
<1>2. \A j \in Slots : flow[j].kind = "no" => ~flow[j].live
  BY DEF NavShape, FlowsOK, FlowOK
<1> QED
  BY <1>1, <1>2

\* Every step of the tab keeps SoloInv.
LEMMA SoloStep ==
    ASSUME NavShape, SoloInv, AloneOnly, NavNext
    PROVE  SoloInv'
<1> SUFFICES ASSUME OneByOne'
             PROVE  \A i \in Slots : flow'[i].kind # "no" =>
                      flow'[i].alone /\ IF flow'[i].kind = "boot" THEN flow'[i].live ELSE store'.id # None
  BY DEF SoloInv
<1>1. OneByOne
  <2>1. faults' = faults
    BY StepFormed, AnswerGoes DEF Starts, ClickForm, ServeForm, BecomeForm
  <2> QED
    BY <2>1 DEF OneByOne, May
<1>2. ASSUME NEW i \in Slots, Starts(i, "boot", "workspaces", None, None), BootDue, store' = store
      PROVE  \A k \in Slots : flow'[k].kind # "no" =>
               flow'[k].alone /\ IF flow'[k].kind = "boot" THEN flow'[k].live ELSE store'.id # None
  <2>1. Quiet
    BY <1>1, <1>2 DEF BootDue, SoloInv, Quiet
  <2>2. flow'[i].alone = Quiet /\ flow'[i].live = TRUE /\ flow'[i].kind = "boot"
    BY <1>2 DEF Starts, Becomes
  <2>3. \A j \in Slots \ {i} : flow'[j].kind = flow[j].kind
    BY <1>2 DEF Starts, Becomes
  <2> QED
    BY <2>1, <2>2, <2>3 DEF Quiet
<1>3. ASSUME NEW i \in Slots, ClickForm(i), Shown
      PROVE  \A k \in Slots : flow'[k].kind # "no" =>
               flow'[k].alone /\ IF flow'[k].kind = "boot" THEN flow'[k].live ELSE store'.id # None
  <2>1. store'.id = store.id /\ store.id # None
    BY <1>3 DEF ClickForm, Keeps, Holds, Stays, Shown
  <2>2. ASSUME NEW kind, NEW call, NEW ws, NEW pj, Starts(i, kind, call, ws, pj), kind # "boot"
        PROVE  \A k \in Slots : flow'[k].kind # "no" =>
                 flow'[k].alone /\ IF flow'[k].kind = "boot" THEN flow'[k].live ELSE store'.id # None
    <3>1. Quiet
      BY <1>1, <2>2 DEF Starts, OneByOne
    <3>2. flow'[i].alone = Quiet /\ flow'[i].kind # "boot"
      BY <2>2 DEF Starts, Becomes
    <3>3. \A j \in Slots \ {i} : flow'[j].kind = "no"
      BY <2>2, <3>1 DEF Starts, Becomes, Quiet
    <3> QED
      BY <2>1, <3>1, <3>2, <3>3
  <2> QED
    BY <1>3, <2>2 DEF ClickForm
<1>4. ASSUME NEW i \in Slots, NEW how, NEW val, ServeForm(i, flow[i], how, val)
      PROVE  \A k \in Slots : flow'[k].kind # "no" =>
               flow'[k].alone /\ IF flow'[k].kind = "boot" THEN flow'[k].live ELSE store'.id # None
  <2>1. Told(i, how, val) /\ store' = store
    BY <1>4 DEF ServeForm
  <2>2. \A j \in Slots : flow'[j].kind = flow[j].kind /\ flow'[j].alone = flow[j].alone
                         /\ flow'[j].live = flow[j].live
    BY <2>1 DEF Told, Becomes
  <2> QED
    BY <1>1, <2>1, <2>2 DEF SoloInv
<1>5. ASSUME NEW i \in Slots, AnswerForm(i, flow[i], flow[i].ans.val)
      PROVE  \A k \in Slots : flow'[k].kind # "no" =>
               flow'[k].alone /\ IF flow'[k].kind = "boot" THEN flow'[k].live ELSE store'.id # None
  <2>1. flow[i].kind # "no" /\ \A j \in Slots \ {i} : flow[j].kind = "no"
    BY <1>1, <1>5, AnswerGoes, OnlyOne
  <2>2. CASE Stops(i)
    <3>1. flow'[i].kind = "no" /\ \A j \in Slots \ {i} : flow'[j].kind = flow[j].kind
      BY <2>2 DEF Stops, Becomes
    <3> QED
      BY <2>1, <3>1
  <2>3. ASSUME NEW call, NEW ws, NEW pj, GoesOn(i, call, ws, pj), store'.id = store.id
        PROVE  \A k \in Slots : flow'[k].kind # "no" =>
                 flow'[k].alone /\ IF flow'[k].kind = "boot" THEN flow'[k].live ELSE store'.id # None
    <3>1. /\ flow'[i].kind = flow[i].kind /\ flow'[i].alone = flow[i].alone /\ flow'[i].live = flow[i].live
          /\ \A j \in Slots \ {i} : flow'[j] = flow[j]
      BY <2>3 DEF GoesOn, Becomes
    <3> QED
      BY <1>1, <2>3, <3>1 DEF SoloInv
  <2> QED
    BY <1>5, <2>2, <2>3, AnswerGoes
<1>6. ASSUME NEW u, BecomeForm(u)
      PROVE  FALSE
  BY <1>1, <1>6 DEF BecomeForm, OneByOne
<1> QED
  BY <1>2, <1>3, <1>4, <1>5, <1>6, StepFormed

\* Every step of the tab keeps the shape.
LEMMA ShapeStep ==
    ASSUME KeptInv, NavShape, MakeInv, NavNext
    PROVE  NavShape'
  BY StepFormed, ShapeBoot, ShapeClick, ShapeServe, ShapeAnswer, ShapeBecome

(***************************************************************************)
(* The roles that are told of a user are the user's.                       *)
(***************************************************************************)
TrueFor(u, list, m) == \A k \in 1 .. Len(list) : list[k].role = m[list[k].id][u]
ToldTrue ==
    ~May("rivals") =>
      \A i \in Slots : flow[i].call = "workspaces" /\ flow[i].ans.how = "ok" =>
        flow[i].by # None /\ TrueFor(flow[i].by, flow[i].ans.val, member)
MineTrue ==
    ~May("rivals") /\ ~May("users") =>
      /\ TrueFor(user, store.spaces, member)
      /\ \A i \in Slots : flow[i].kind # "no" => flow[i].by = user

\* A workspace that is made is none that anybody has a role in.
LEMMA TrueStays ==
    ASSUME KeptInv, NEW u \in Users, NEW list \in Seq(Space), TrueFor(u, list, member),
           NEW w \in Workspaces, ~InUse(w, spaces), NEW x, member' = [member EXCEPT ![w][x] = "owner"]
    PROVE  TrueFor(u, list, member')
<1>1. ASSUME NEW k \in 1 .. Len(list)
      PROVE  list[k].id \in Workspaces /\ list[k].role # None
  <2>1. list[k] \in Space
    BY ElementOfSeq
  <2> QED
    BY <2>1, NavNames DEF Space
<1>2. member[w][u] = None
  BY DEF KeptInv, Tables, NoneYet
<1>3. \A v \in Workspaces : v # w => member'[v] = member[v]
  BY DEF KeptInv, Tables
<1> QED
  BY <1>1, <1>2, <1>3 DEF TrueFor

\* What the server lists of a user is true for the user.
LEMMA SpacesTrue ==
    ASSUME KeptInv, NEW u
    PROVE  TrueFor(u, SpacesOf(u), member)
<1> DEFINE mine == Sift(spaces, {w \in Workspaces : member[w][u] # None})
<1>1. Len(mine) \in Nat
  BY SiftKeeps, LenProperties DEF KeptInv, Tables
<1>2. SpacesOf(u) = [k \in 1 .. Len(mine) |-> [id |-> mine[k], role |-> member[mine[k]][u]]]
  BY DEF SpacesOf
<1> HIDE DEF mine
<1>3. Len(SpacesOf(u)) = Len(mine)
  BY <1>1, <1>2
<1>4. \A k \in 1 .. Len(mine) : SpacesOf(u)[k].role = member[SpacesOf(u)[k].id][u]
  BY <1>2
<1> QED
  BY <1>3, <1>4 DEF TrueFor

\* What may go wrong never changes.
LEMMA FaultsStay ==
    ASSUME NavShape, NavNext
    PROVE  faults' = faults
  BY StepFormed, AnswerGoes DEF Starts, ClickForm, ServeForm, BecomeForm

\* The members change only when a workspace is made.
LEMMA MembersServe ==
    ASSUME NavShape, NEW i \in Slots, NEW how, NEW val, ServeForm(i, flow[i], how, val)
    PROVE  member' = member \/ (flow[i].call = "makeWs" /\ flow[i].by # None /\ MadeWs(flow[i], how, val))
  BY DEF ServeForm, RefusedForm, MadeForm, PatchedForm, ArchivedForm, server

\* A flow that begins was told nothing.
LEMMA ToldStarts ==
    ASSUME ToldTrue, NEW i \in Slots, NEW kind, NEW call, NEW ws, NEW pj, Starts(i, kind, call, ws, pj)
    PROVE  ToldTrue'
<1>1. member' = member /\ faults' = faults /\ flow'[i].ans.how = "no"
  BY DEF Starts, server, Becomes
<1>2. \A j \in Slots \ {i} : /\ flow'[j].call = flow[j].call /\ flow'[j].by = flow[j].by
                              /\ flow'[j].ans.how = flow[j].ans.how /\ flow'[j].ans.val = flow[j].ans.val
  BY DEF Starts, Becomes
<1> QED
  BY <1>1, <1>2 DEF ToldTrue, May

\* What a call is told of roles is true.
LEMMA ToldServe ==
    ASSUME KeptInv, NavShape, ToldTrue, NEW i \in Slots, NEW how, NEW val, ServeForm(i, flow[i], how, val)
    PROVE  ToldTrue'
<1>1. Told(i, how, val) /\ faults' = faults
  BY DEF ServeForm
<1>2. /\ flow'[i].call = flow[i].call /\ flow'[i].by = flow[i].by
      /\ flow'[i].ans.how = how /\ flow'[i].ans.val = val
      /\ \A j \in Slots \ {i} : flow'[j] = flow[j]
  BY <1>1 DEF Told, Becomes
<1>3. \A j \in Slots : FlowOK(flow[j], home, store.id, user)
  BY DEF NavShape, FlowsOK
<1>4. CASE member' = member
  <2>1. flow[i].call = "workspaces" /\ how = "ok" =>
          flow[i].by # None /\ val = SpacesOf(flow[i].by)
    BY DEF ServeForm, RefusedForm, Does, Spaced
  <2>2. flow[i].call = "workspaces" /\ how = "ok" => TrueFor(flow[i].by, val, member)
    BY <2>1, SpacesTrue
  <2> QED
    BY <1>1, <1>2, <1>4, <2>1, <2>2 DEF ToldTrue, May
<1>5. CASE flow[i].call = "makeWs" /\ MadeWs(flow[i], how, val)
  <2>1. PICK w \in Workspaces :
          ~InUse(w, spaces) /\ member' = [member EXCEPT ![w][flow[i].by] = "owner"]
    BY <1>5 DEF MadeWs
  <2>2. ASSUME NEW j \in Slots, ~May("rivals"), flow'[j].call = "workspaces", flow'[j].ans.how = "ok"
        PROVE  flow'[j].by # None /\ TrueFor(flow'[j].by, flow'[j].ans.val, member')
    <3>1. j # i /\ flow'[j] = flow[j]
      BY <1>2, <1>5, <2>2
    <3>2. flow[j].by # None /\ TrueFor(flow[j].by, flow[j].ans.val, member)
      BY <2>2, <3>1 DEF ToldTrue
    <3>3. flow[j].by \in Users /\ flow[j].ans.val \in Seq(Space)
      BY <1>3, <2>2, <3>1, <3>2 DEF FlowOK, AnswerOK
    <3> QED
      BY <2>1, <3>1, <3>2, <3>3, TrueStays
  <2> QED
    BY <1>1, <2>2 DEF ToldTrue, May
<1> QED
  BY <1>4, <1>5, MembersServe

\* Every step of the tab keeps ToldTrue.
LEMMA ToldStep ==
    ASSUME KeptInv, NavShape, ToldTrue, NavNext
    PROVE  ToldTrue'
<1>1. ASSUME NEW i \in Slots, ClickForm(i)
      PROVE  ToldTrue'
  BY <1>1, ToldStarts DEF ClickForm
<1>2. ASSUME NEW i \in Slots, AnswerForm(i, flow[i], flow[i].ans.val)
      PROVE  ToldTrue'
  <2>1. member' = member /\ faults' = faults
    BY <1>2, AnswerGoes DEF server
  <2>2. CASE Stops(i)
    <3>1. flow'[i].call = "no"
          /\ \A j \in Slots \ {i} : /\ flow'[j].call = flow[j].call /\ flow'[j].by = flow[j].by
                              /\ flow'[j].ans.how = flow[j].ans.how /\ flow'[j].ans.val = flow[j].ans.val
      BY <2>2 DEF Stops, Becomes
    <3> QED
      BY <2>1, <3>1 DEF ToldTrue, May
  <2>3. ASSUME NEW call, NEW ws, NEW pj, GoesOn(i, call, ws, pj)
        PROVE  ToldTrue'
    <3>1. flow'[i].ans.how = "no" /\ \A j \in Slots \ {i} : flow'[j] = flow[j]
      BY <2>3 DEF GoesOn, Becomes
    <3> QED
      BY <2>1, <3>1 DEF ToldTrue, May
  <2> QED
    BY <1>2, <2>2, <2>3, AnswerGoes
<1>3. ASSUME NEW u, BecomeForm(u)
      PROVE  ToldTrue'
  <2>1. member' = member /\ faults' = faults
    BY <1>3 DEF BecomeForm, server
  <2>2. \A j \in Slots : /\ flow'[j].call = flow[j].call /\ flow'[j].by = flow[j].by
                         /\ flow'[j].ans.how = flow[j].ans.how /\ flow'[j].ans.val = flow[j].ans.val
    BY <1>3 DEF BecomeForm, Becomes
  <2> QED
    BY <2>1, <2>2 DEF ToldTrue, May
<1> QED
  BY <1>1, <1>2, <1>3, StepFormed, ToldStarts, ToldServe

\* Every step of the tab keeps MineTrue.
LEMMA MineStep ==
    ASSUME KeptInv, NavShape, ToldTrue, MineTrue, NavNext
    PROVE  MineTrue'
<1> SUFFICES ASSUME (~May("rivals") /\ ~May("users"))'
             PROVE  /\ TrueFor(user', store'.spaces, member')
                    /\ \A i \in Slots : flow'[i].kind # "no" => flow'[i].by = user'
  BY DEF MineTrue
<1>1. ~May("rivals") /\ ~May("users")
  BY FaultsStay DEF May
<1>2. TrueFor(user, store.spaces, member) /\ \A i \in Slots : flow[i].kind # "no" => flow[i].by = user
  BY <1>1 DEF MineTrue
<1>3. ASSUME NEW i \in Slots, NEW kind, NEW call, NEW ws, NEW pj, Starts(i, kind, call, ws, pj),
             store'.spaces = store.spaces
      PROVE  /\ TrueFor(user', store'.spaces, member')
             /\ \A j \in Slots : flow'[j].kind # "no" => flow'[j].by = user'
  <2>1. /\ user' = user /\ member' = member /\ flow'[i].by = user
        /\ \A j \in Slots \ {i} : flow'[j].kind = flow[j].kind /\ flow'[j].by = flow[j].by
    BY <1>3 DEF Starts, Becomes, server
  <2> QED
    BY <1>2, <1>3, <2>1
<1>4. ASSUME NEW i \in Slots, ClickForm(i)
      PROVE  /\ TrueFor(user', store'.spaces, member')
             /\ \A j \in Slots : flow'[j].kind # "no" => flow'[j].by = user'
  <2>1. store'.spaces = store.spaces
    BY <1>4 DEF ClickForm, Stays, Keeps, Holds
  <2> QED
    BY <1>3, <1>4, <2>1 DEF ClickForm
<1>5. ASSUME NEW i \in Slots, NEW how, NEW val, ServeForm(i, flow[i], how, val)
      PROVE  /\ TrueFor(user', store'.spaces, member')
             /\ \A j \in Slots : flow'[j].kind # "no" => flow'[j].by = user'
  <2>1. Told(i, how, val) /\ user' = user /\ store' = store
    BY <1>5 DEF ServeForm
  <2>2. \A j \in Slots : flow'[j].kind = flow[j].kind /\ flow'[j].by = flow[j].by
    BY <2>1 DEF Told, Becomes
  <2>3. CASE member' = member
    BY <1>2, <2>1, <2>2, <2>3
  <2>4. CASE MadeWs(flow[i], how, val)
    <3>1. PICK w \in Workspaces :
            ~InUse(w, spaces) /\ member' = [member EXCEPT ![w][flow[i].by] = "owner"]
      BY <2>4 DEF MadeWs
    <3>2. user \in Users /\ store.spaces \in Seq(Space)
      BY <1>1 DEF NavShape, StoreOK, Stores
    <3>3. TrueFor(user, store.spaces, member')
      BY <1>2, <3>1, <3>2, TrueStays
    <3> QED
      BY <1>2, <2>1, <2>2, <3>3
  <2> QED
    BY <1>5, <2>3, <2>4, MembersServe
<1>6. ASSUME NEW i \in Slots, AnswerForm(i, flow[i], flow[i].ans.val)
      PROVE  /\ TrueFor(user', store'.spaces, member')
             /\ \A j \in Slots : flow'[j].kind # "no" => flow'[j].by = user'
  <2>1. user' = user /\ member' = member /\ flow[i].kind # "no"
    BY <1>6, AnswerGoes DEF server
  <2>2. \A j \in Slots : flow'[j].kind # "no" => flow'[j].by = user
    <3>1. CASE Stops(i)
      <4>1. flow'[i].kind = "no"
            /\ \A j \in Slots \ {i} : flow'[j].kind = flow[j].kind /\ flow'[j].by = flow[j].by
        BY <3>1 DEF Stops, Becomes
      <4> QED
        BY <1>2, <4>1
    <3>2. ASSUME NEW call, NEW ws, NEW pj, GoesOn(i, call, ws, pj)
          PROVE  \A j \in Slots : flow'[j].kind # "no" => flow'[j].by = user
      <4>1. flow'[i].by = user /\ \A j \in Slots \ {i} : flow'[j] = flow[j]
        BY <3>2 DEF GoesOn, Becomes
      <4> QED
        BY <1>2, <4>1
    <3> QED
      BY <1>6, <3>1, <3>2, AnswerGoes
  <2>3. \/ store'.spaces = store.spaces \/ store'.spaces = <<>>
        \/ /\ flow[i].call = "workspaces" /\ flow[i].ans.how = "ok"
           /\ store'.spaces = flow[i].ans.val
    BY <1>6 DEF AnswerForm, SpacesForm, ProjectsForm, GetForm, PatchForm, FailForm, Stays, Listed, Clears,
                ShowsMock, Keeps, Holds
  <2>4. TrueFor(user, store'.spaces, member)
    <3>1. CASE store'.spaces = <<>>
      <4>1. Len(<<>>) = 0
        BY EmptySeq
      <4> QED
        BY <3>1, <4>1 DEF TrueFor
    <3>2. CASE flow[i].call = "workspaces" /\ flow[i].ans.how = "ok" /\ store'.spaces = flow[i].ans.val
      BY <1>1, <1>2, <2>1, <3>2 DEF ToldTrue
    <3> QED
      BY <1>2, <2>3, <3>1, <3>2
  <2> QED
    BY <2>1, <2>2, <2>4
<1>7. ASSUME NEW u, BecomeForm(u)
      PROVE  FALSE
  BY <1>1, <1>7 DEF BecomeForm
<1> QED
  BY <1>3, <1>4, <1>5, <1>6, <1>7, StepFormed

(***************************************************************************)
(* How far a flow is that is alone: what it has put in the store and what  *)
(* it was answered are of one workspace, and of one user.                  *)
(***************************************************************************)
Fresh(f) == f.kind \in {"boot", "select", "createWs"}
Seen(f, s, now, h) ==
    LET ok == f.ans.how = "ok" IN
    /\ f.call \in {"make", "tracks", "projects"} => f.ws = s.ws
    /\ f.call = "make" /\ ok => h[f.ans.val] = s.ws
    /\ f.call = "tracks" \/ (f.call = "projects" /\ f.kind = "createWs") => h[f.pj] = s.ws
    /\ f.call = "projects" /\ ok => f.ans.val = now
    /\ f.call = "get" => h[f.pj] = s.ws /\ s.list = now
Ranked(f, s, m, u, many) ==
    /\ f.call = "makeWs" /\ f.ans.how = "ok" => m[f.ans.val][u] = "owner"
    /\ f.call = "workspaces" /\ f.kind = "createWs" => m[f.ws][u] = "owner"
    /\ f.call \in {"make", "tracks", "projects", "get"} /\ (f.kind = "select" => ~many)
         => s.ws \in Workspaces /\ s.role = m[s.ws][u]
AloneInv ==
    \A i \in Slots : flow[i].kind # "no" /\ flow[i].alone /\ Fresh(flow[i]) =>
        /\ Seen(flow[i], store, ListOf(store.ws), home)
        /\ ~May("rivals") => Ranked(flow[i], store, member, user, May("users"))

\* What a list holds.
LEMMA ListHolds ==
    ASSUME TablesOK, NEW w, NEW k \in 1 .. Len(ListOf(w))
    PROVE  ListOf(w)[k] \in Projects \ archived /\ home[ListOf(w)[k]] = w
<1> DEFINE S == {p \in Projects : home[p] = w /\ p \notin archived}
           s == Sift(recent, S)
<1>1. s \in Seq(Projects \cap S) /\ s = ListOf(w)
  BY SiftKeeps DEF TablesOK, ListOf
<1> HIDE DEF s, S
<1>2. s[k] \in Projects \cap S
  BY <1>1, ElementOfSeq
<1> QED
  BY <1>1, <1>2 DEF S

\* A list that is not empty has a first.
LEMMA FirstOf ==
    ASSUME NEW S, NEW s \in Seq(S), s # <<>>
    PROVE  1 \in 1 .. Len(s) /\ s[1] \in S
<1>1. Len(s) \in Nat /\ Len(s) # 0
  BY LenProperties, EmptySeq
<1>2. 1 \in 1 .. Len(s)
  BY <1>1
<1> QED
  BY <1>2, ElementOfSeq

\* A flow that begins is at its first stage.
LEMMA StageStarts ==
    ASSUME NavShape, NEW i \in Slots, NEW kind, NEW call, NEW ws, NEW pj, Starts(i, kind, call, ws, pj),
           kind = "boot" => call = "workspaces", kind = "createWs" => call = "makeWs",
           kind = "select" => /\ call = "projects" /\ ws = store'.ws
                              /\ ~May("rivals") /\ ~May("users") =>
                                   store'.ws \in Workspaces /\ store'.role = member[store'.ws][user]
    PROVE  AloneInv'
<1>1. /\ flow'[i].kind = kind /\ flow'[i].call = call /\ flow'[i].ws = ws /\ flow'[i].ans.how = "no"
      /\ \A j \in Slots \ {i} : ~flow'[j].alone
      /\ member' = member /\ user' = user /\ faults' = faults
  BY DEF Starts, Becomes, server
<1>2. CASE Fresh(flow'[i])
  <2>1. Seen(flow'[i], store', ListOf(store.ws)', home')
    BY <1>1, <1>2 DEF Seen, Fresh
  <2>2. ~May("rivals") => Ranked(flow'[i], store', member', user', May("users"))
    BY <1>1, <1>2 DEF Ranked, Fresh
  <2> QED
    BY <1>1, <2>1, <2>2 DEF AloneInv, May
<1>3. CASE ~Fresh(flow'[i])
  BY <1>1, <1>3 DEF AloneInv
<1> QED
  BY <1>2, <1>3

\* After a click the flow that is alone is where it should be.
LEMMA StageClick ==
    ASSUME NavShape, MineTrue, NEW i \in Slots, ClickForm(i)
    PROVE  AloneInv'
<1>1. ASSUME NEW k \in 1 .. Len(store.spaces),
             Starts(i, "select", "projects", store.spaces[k].id, None),
             Keeps(store.spaces[k].id, store.spaces[k].role, store.spaces, store.list)
      PROVE  AloneInv'
  <2> DEFINE w == store.spaces[k]
  <2>1. store'.ws = w.id /\ store'.role = w.role
    BY <1>1 DEF Keeps, Holds
  <2>2. w \in Space
    BY ElementOfSeq DEF NavShape, StoreOK, Stores
  <2>3. ~May("rivals") /\ ~May("users") => w.role = member[w.id][user]
    BY DEF MineTrue, TrueFor
  <2>4. ~May("rivals") /\ ~May("users") => store'.ws \in Workspaces /\ store'.role = member[store'.ws][user]
    BY <2>1, <2>2, <2>3 DEF Space
  <2>5. Starts(i, "select", "projects", w.id, None)
    BY <1>1
  <2> HIDE DEF w
  <2> QED
    BY <2>1, <2>4, <2>5, StageStarts
<1> QED
  BY <1>1, StageStarts DEF ClickForm

\* The list of a workspace is as it was when nothing was written.
LEMMA ServeKeeps ==
    ASSUME NavShape, NEW i \in Slots, NEW how, NEW val, ServeForm(i, flow[i], how, val),
           flow[i].call \notin {"make", "patch", "archive"}
    PROVE  home' = home /\ recent' = recent /\ archived' = archived /\ edits' = edits
  BY DEF ServeForm, RefusedForm, MadeWs, server

\* A call that is served keeps its flow where it should be.
LEMMA StageServe ==
    ASSUME KeptInv, NavShape, MakeInv, AloneOnly, AloneInv, NEW i \in Slots, NEW how, NEW val,
           ServeForm(i, flow[i], how, val)
    PROVE  AloneInv'
<1> DEFINE f == flow[i]
           g == flow'[i]
<1>1. Told(i, how, val) /\ user' = user /\ store' = store /\ faults' = faults /\ f.kind # "no"
  BY DEF ServeForm
<1>2. /\ g.kind = f.kind /\ g.call = f.call /\ g.ws = f.ws /\ g.pj = f.pj /\ g.alone = f.alone
      /\ g.ans.how = how /\ g.ans.val = val
      /\ \A j \in Slots \ {i} : flow'[j] = flow[j]
  BY <1>1 DEF Told, Becomes
<1> SUFFICES ASSUME f.alone, Fresh(f)
             PROVE  /\ Seen(g, store', ListOf(store.ws)', home')
                    /\ ~May("rivals") => Ranked(g, store', member', user', May("users"))
  <2>1. \A j \in Slots \ {i} : flow[j].kind # "no" => ~flow[j].alone
    BY <1>1 DEF AloneOnly
  <2> QED
    BY <1>1, <1>2, <2>1 DEF AloneInv, Fresh, May
<1>3. /\ f.by = user /\ user # None /\ Seen(f, store, ListOf(store.ws), home)
      /\ ~May("rivals") => Ranked(f, store, member, user, May("users"))
  BY <1>1 DEF AloneInv, AloneOnly
<1>4. FlowOK(f, home, store.id, user) /\ f.call \in {"makeWs", "workspaces", "make", "tracks", "projects", "get"}
  BY <1>1 DEF NavShape, FlowsOK, FlowOK, CallsOf, Kinds, Fresh
<1>5. f.ans.how = "no"
  BY DEF ServeForm
<1>6. (ListOf(store.ws)' = ListOf(store.ws) /\ home' = home) \/ f.call = "make"
  BY <1>1, <1>4, ServeKeeps DEF ListOf
<1>7. Seen(g, store', ListOf(store.ws)', home')
  <2>1. CASE f.call = "make"
    <3>1. how = "ok" => MadeForm(f, how, val)
      BY <2>1 DEF ServeForm, RefusedForm, Spaced
    <3>2. how = "ok" => val = Makable /\ home' = [home EXCEPT ![Makable] = f.ws]
      BY <3>1 DEF MadeForm, Does
    <3>3. \E p \in Projects : home[p] = None
      <4>1. Makes(f) /\ Unmade(f)
        BY <1>1, <1>4, <1>5, <2>1 DEF FlowOK, Makes, Unmade, CallsOf, Kinds
      <4> QED
        BY <4>1 DEF MakeInv
    <3>4. Makable \in Projects
      BY <3>3 DEF Makable
    <3>5. how = "ok" => home'[val] = f.ws
      BY <3>2, <3>4 DEF NavShape, TablesOK
    <3> QED
      BY <1>1, <1>2, <1>3, <2>1, <3>5 DEF Seen
  <2>2. CASE f.call = "projects"
    <3>1. how = "ok" => val = ListOf(f.ws)
      BY <2>2 DEF ServeForm, RefusedForm, Spaced, Does
    <3> QED
      BY <1>1, <1>2, <1>3, <1>6, <2>2, <3>1 DEF Seen
  <2>3. CASE f.call \notin {"make", "projects"}
    BY <1>1, <1>2, <1>3, <1>6, <2>3 DEF Seen
  <2> QED
    BY <2>1, <2>2, <2>3
<1>8. ASSUME ~May("rivals")
      PROVE  Ranked(g, store', member', user', May("users"))
  <2>1. CASE member' = member /\ f.call # "makeWs"
    BY <1>1, <1>2, <1>3, <1>8, <2>1 DEF Ranked
  <2>2. CASE f.call = "makeWs"
    <3>1. how = "ok" => MadeWs(f, how, val)
      BY <2>2 DEF ServeForm, RefusedForm, Spaced
    <3>2. how = "ok" => val \in Workspaces /\ member' = [member EXCEPT ![val][user] = "owner"]
      BY <1>3, <3>1 DEF MadeWs, Does
    <3>3. how = "ok" => member'[val][user] = "owner"
      BY <1>3, <3>2 DEF KeptInv, Tables, NavShape
    <3> QED
      BY <1>1, <1>2, <2>2, <3>3 DEF Ranked
  <2> QED
    BY <2>1, <2>2, MembersServe
<1> QED
  BY <1>7, <1>8

\* An answer takes its flow to the next stage.
LEMMA StageAnswer ==
    ASSUME KeptInv, NavShape, ToldTrue, AloneOnly, AloneInv, NEW i \in Slots,
           AnswerForm(i, flow[i], flow[i].ans.val)
    PROVE  AloneInv'
<1> DEFINE f == flow[i]
           g == flow'[i]
           got == f.ans.val
           now == ListOf(store.ws)
           many == May("users")
<1>1. f.kind # "no" /\ user' = user /\ UNCHANGED <<server, flows, faults>>
  BY AnswerGoes
<1>2. home' = home /\ member' = member /\ \A w : ListOf(w)' = ListOf(w)
  BY <1>1 DEF server, ListOf
<1>3. CASE Stops(i)
  <2>1. g.kind = "no"
        /\ \A j \in Slots \ {i} : flow'[j].kind = flow[j].kind /\ flow'[j].alone = flow[j].alone
    BY <1>3 DEF Stops, Becomes
  <2>2. \A j \in Slots \ {i} : flow[j].kind # "no" => ~flow[j].alone
    BY <1>1 DEF AloneOnly
  <2> QED
    BY <2>1, <2>2 DEF AloneInv
<1>4. ASSUME NEW call, NEW ws, NEW pj, GoesOn(i, call, ws, pj),
             f.alone /\ Fresh(f) =>
               /\ Seen(g, store', ListOf(store'.ws), home)
               /\ ~May("rivals") => Ranked(g, store', member, user, many)
      PROVE  AloneInv'
  <2>1. /\ g.kind = f.kind /\ g.alone = f.alone /\ \A j \in Slots \ {i} : flow'[j] = flow[j]
    BY <1>4 DEF GoesOn, Becomes
  <2>2. \A j \in Slots \ {i} : flow[j].kind # "no" => ~flow[j].alone
    BY <1>1 DEF AloneOnly
  <2>3. ListOf(store.ws)' = ListOf(store'.ws)
    BY <1>2
  <2>4. f.alone /\ Fresh(f) =>
          /\ Seen(g, store', ListOf(store.ws)', home')
          /\ ~May("rivals") => Ranked(g, store', member', user', May("users"))
    BY <1>1, <1>2, <1>4, <2>3
  <2> QED
    BY <1>1, <2>1, <2>2, <2>4 DEF AloneInv, Fresh, May
<1>5. ASSUME f.alone, Fresh(f)
      PROVE  /\ f.by = user /\ user # None /\ Seen(f, store, now, home)
             /\ ~May("rivals") => Ranked(f, store, member, user, many)
             /\ FlowOK(f, home, store.id, user)
             /\ f.call \in {"makeWs", "workspaces", "make", "tracks", "projects", "get"}
  <2>1. FlowOK(f, home, store.id, user)
    BY DEF NavShape, FlowsOK
  <2>2. f.call \in {"makeWs", "workspaces", "make", "tracks", "projects", "get"}
    BY <1>1, <1>5, <2>1 DEF FlowOK, CallsOf, Kinds, Fresh
  <2>3. f.by = user /\ user # None
    BY <1>1, <1>5 DEF AloneOnly
  <2>4. Seen(f, store, now, home) /\ (~May("rivals") => Ranked(f, store, member, user, many))
    BY <1>1, <1>5 DEF AloneInv
  <2> QED
    BY <2>1, <2>2, <2>3, <2>4
<1>6. ASSUME f.ans.how = "ok", f.call = "workspaces", SpacesForm(i, f, got)
      PROVE  AloneInv'
  <2>1. CASE f.kind = "createWs" /\ GoesOn(i, "make", f.ws, f.pj) /\ Keeps(f.ws, "owner", got, <<>>)
    <3>1. /\ g.kind = f.kind /\ g.call = "make" /\ g.ws = f.ws /\ g.ans.how = "no"
          /\ store'.ws = f.ws /\ store'.role = "owner"
      BY <2>1 DEF GoesOn, Becomes, Keeps, Holds
    <3>2. Seen(g, store', ListOf(store'.ws), home)
      BY <2>1, <3>1 DEF Seen
    <3>3. ASSUME f.alone, ~May("rivals")
          PROVE  Ranked(g, store', member, user, many)
      <4>1. member[f.ws][user] = "owner" /\ f.ws \in Workspaces
        BY <1>5, <1>6, <2>1, <3>3 DEF Ranked, Fresh, FlowOK, OfWorkspace
      <4> QED
        BY <2>1, <3>1, <4>1 DEF Ranked
    <3> QED
      BY <1>4, <2>1, <3>2, <3>3
  <2>2. CASE /\ f.kind = "boot" /\ f.live /\ got # <<>> /\ GoesOn(i, "projects", got[1].id, f.pj)
             /\ Keeps(got[1].id, got[1].role, got, store.list)
    <3>1. /\ g.kind = f.kind /\ g.call = "projects" /\ g.ws = got[1].id /\ g.ans.how = "no"
          /\ store'.ws = got[1].id /\ store'.role = got[1].role
      BY <2>2 DEF GoesOn, Becomes, Keeps, Holds
    <3>2. Seen(g, store', ListOf(store'.ws), home)
      BY <2>2, <3>1 DEF Seen
    <3>3. ASSUME f.alone, ~May("rivals")
          PROVE  Ranked(g, store', member, user, many)
      <4>1. got \in Seq(Space) /\ TrueFor(user, got, member)
        BY <1>5, <1>6, <2>2, <3>3 DEF Fresh, FlowOK, AnswerOK, ToldTrue
      <4>2. 1 \in 1 .. Len(got) /\ got[1] \in Space
        BY <2>2, <4>1, FirstOf
      <4>3. got[1].role = member[got[1].id][user] /\ got[1].id \in Workspaces
        BY <4>1, <4>2 DEF TrueFor, Space
      <4> QED
        BY <2>2, <3>1, <4>3 DEF Ranked
    <3> DEFINE w == got[1].id
    <3>4. GoesOn(i, "projects", w, f.pj)
      BY <2>2
    <3> HIDE DEF w
    <3> QED
      BY <1>4, <3>2, <3>3, <3>4
  <2> QED
    BY <1>3, <1>6, <2>1, <2>2 DEF SpacesForm
<1>7. ASSUME f.ans.how = "ok", f.call = "projects", ProjectsForm(i, f, got)
      PROVE  AloneInv'
  <2>1. ASSUME NEW pj, f.kind \in {"boot", "select", "createWs"}, GoesOn(i, "get", f.ws, pj), Listed(got),
               f.alone => home[pj] = store.ws
        PROVE  AloneInv'
    <3>1. /\ g.kind = f.kind /\ g.call = "get" /\ g.pj = pj /\ g.ans.how = "no"
          /\ store'.ws = store.ws /\ store'.role = store.role /\ store'.list = got
      BY <2>1 DEF GoesOn, Becomes, Listed, Keeps, Holds
    <3>2. f.alone => got = now /\ home[pj] = store.ws
      BY <1>5, <1>7, <2>1 DEF Seen, Fresh
    <3>3. f.alone => Seen(g, store', ListOf(store'.ws), home)
      BY <3>1, <3>2 DEF Seen
    <3>4. f.alone /\ ~May("rivals") => Ranked(g, store', member, user, many)
      BY <1>5, <1>7, <2>1, <3>1 DEF Ranked, Fresh
    <3> QED
      BY <1>4, <2>1, <3>3, <3>4
  <2>2. CASE f.kind \in {"create", "createWs"} /\ GoesOn(i, "get", f.ws, f.pj) /\ Listed(got)
    <3>1. CASE f.kind = "createWs"
      <4>1. f.alone => home[f.pj] = store.ws
        BY <1>5, <1>7, <3>1 DEF Seen, Fresh
      <4> QED
        BY <2>1, <2>2, <3>1, <4>1
    <3>2. CASE f.kind = "create"
      BY <1>4, <2>2, <3>2 DEF Fresh
    <3> QED
      BY <2>2, <3>1, <3>2
  <2>3. CASE f.kind \in {"boot", "select"} /\ got # <<>> /\ GoesOn(i, "get", f.ws, got[1]) /\ Listed(got)
    <3> DEFINE p == got[1]
    <3>1. ASSUME f.alone
          PROVE  home[p] = store.ws
      <4>1. got = now /\ got \in Seq(Projects)
        BY <1>5, <1>7, <2>3, <3>1 DEF Seen, Fresh, FlowOK, AnswerOK
      <4>2. 1 \in 1 .. Len(now)
        BY <2>3, <4>1, FirstOf
      <4> QED
        BY <4>1, <4>2, ListHolds DEF NavShape
    <3>2. GoesOn(i, "get", f.ws, p)
      BY <2>3
    <3> HIDE DEF p
    <3> QED
      BY <2>1, <2>3, <3>1, <3>2
  <2>4. CASE f.kind = "archive" /\ \E pj : GoesOn(i, "get", f.ws, pj)
    BY <1>4, <2>4 DEF Fresh
  <2> QED
    BY <1>3, <1>7, <2>2, <2>3, <2>4 DEF ProjectsForm
<1>8. ASSUME Stays, NEW call, NEW ws, NEW pj, GoesOn(i, call, ws, pj), f.ans.how = "ok",
             \/ f.call = "makeWs" /\ call = "workspaces" /\ ws = got
             \/ f.call = "make" /\ call = "tracks" /\ ws = f.ws /\ pj = got
             \/ f.call = "tracks" /\ call = "projects" /\ ws = f.ws /\ pj = f.pj
             \/ f.call \in {"track", "archive", "patch"}
      PROVE  AloneInv'
  <2>1. /\ g.kind = f.kind /\ g.call = call /\ g.ws = ws /\ g.pj = pj /\ g.ans.how = "no" /\ store' = store
    BY <1>8 DEF GoesOn, Becomes, Stays
  <2>2. f.alone /\ Fresh(f) => Seen(g, store', ListOf(store'.ws), home)
    BY <1>5, <1>8, <2>1 DEF Seen
  <2>3. f.alone /\ Fresh(f) /\ ~May("rivals") => Ranked(g, store', member, user, many)
    BY <1>5, <1>8, <2>1 DEF Ranked
  <2> QED
    BY <1>4, <1>8, <2>2, <2>3
<1>9. ASSUME f.ans.how = "ok", f.call = "patch", PatchForm(i, f, got)
      PROVE  AloneInv'
  <2>1. ~(f.alone /\ Fresh(f))
    BY <1>5, <1>9
  <2> QED
    BY <1>4, <1>9, <2>1 DEF PatchForm
<1> HIDE DEF f, got, g
<1>10. AnswerForm(i, f, got)
  BY DEF f, got
<1> QED
  BY <1>3, <1>6, <1>7, <1>8, <1>9, <1>10 DEF AnswerForm, FailForm, GetForm

\* Every step of the tab keeps AloneInv.
LEMMA StageStep ==
    ASSUME KeptInv, NavShape, MakeInv, ToldTrue, MineTrue, AloneOnly, AloneInv, NavNext
    PROVE  AloneInv'
<1>1. ASSUME NEW i \in Slots, Starts(i, "boot", "workspaces", None, None)
      PROVE  AloneInv'
  BY <1>1, StageStarts
<1>2. ASSUME NEW u, BecomeForm(u)
      PROVE  AloneInv'
  <2>1. \A j \in Slots : ~flow'[j].alone
    BY <1>2 DEF BecomeForm, Becomes
  <2> QED
    BY <2>1 DEF AloneInv
<1> QED
  BY <1>1, <1>2, StepFormed, StageClick, StageServe, StageAnswer

(***************************************************************************)
(* The requests of the panels.  Those of the tab are of its user, who      *)
(* never changes the user's own role, and only rivals do it from outside.  *)
(***************************************************************************)
Rowss == [Users -> Roles \cup {None}]
Panels == [open : BOOLEAN, rows : Rowss, loading : BOOLEAN, error : BOOLEAN]
Requests == [what : {"list", "role", "remove", "invite"}, by : Users, ws : Workspaces \cup {Mock},
             of : Users \cup {None}, to : Granted \cup {None},
             at : {"check", "see", "act", "ok", "failed"}, rows : Rowss]
Changing(r) == r.what \in {"role", "remove"}
Proper(u, spared) ==
    {r \in Requests :
       /\ ~Changing(r) \/ r.at \in {"ok", "failed"} => r.by = u
       /\ Changing(r) => r.of \in Users \ spared}
Spared == IF May("rivals") THEN {} ELSE {user}
AsksInv ==
    /\ panel \in Panels /\ changes \in 0 .. MaxChanges
    /\ asks \in Seq(Proper(user, Spared))
    /\ asks # <<>> => May("panel") \/ May("rivals")
    /\ panel.open => May("panel")

\* What a request and a panel hold, field by field.
AskIs(r, what, by, ws, of, to, at, rows) ==
    r = [what |-> what, by |-> by, ws |-> ws, of |-> of, to |-> to, at |-> at, rows |-> rows]
PanelIs(p, open, rows, loading, error) ==
    p = [open |-> open, rows |-> rows, loading |-> loading, error |-> error]

\* A request with one field set.
LEMMA AskSet ==
    ASSUME NEW r \in Requests, NEW at, NEW rows
    PROVE  /\ AskIs(r, r.what, r.by, r.ws, r.of, r.to, r.at, r.rows)
           /\ AskIs([r EXCEPT !.at = at], r.what, r.by, r.ws, r.of, r.to, at, r.rows)
           /\ AskIs([r EXCEPT !.at = at, !.rows = rows], r.what, r.by, r.ws, r.of, r.to, at, rows)
<1>1. AskIs(r, r.what, r.by, r.ws, r.of, r.to, r.at, r.rows)
  BY DEF Requests, AskIs
<1> DEFINE r1 == [r EXCEPT !.at = at]
<1>2. AskIs(r1, r.what, r.by, r.ws, r.of, r.to, at, r.rows)
  BY <1>1 DEF AskIs
<1>3. [r EXCEPT !.at = at, !.rows = rows] = [r1 EXCEPT !.rows = rows]
  BY Zenon
<1>4. AskIs([r1 EXCEPT !.rows = rows], r.what, r.by, r.ws, r.of, r.to, at, rows)
  <2> HIDE DEF r1
  <2> QED
    BY <1>2 DEF AskIs
<1> QED
  BY <1>1, <1>2, <1>3, <1>4

\* The panel with its fields set.
LEMMA PanelSet ==
    ASSUME NEW p \in Panels, NEW x, NEW y, NEW u
    PROVE  /\ PanelIs(p, p.open, p.rows, p.loading, p.error)
           /\ PanelIs([p EXCEPT !.open = x], x, p.rows, p.loading, p.error)
           /\ PanelIs([p EXCEPT !.loading = x, !.error = y], p.open, p.rows, x, y)
           /\ PanelIs([p EXCEPT !.error = x, !.loading = y], p.open, p.rows, y, x)
           /\ PanelIs([p EXCEPT !.rows = x, !.loading = y], p.open, x, y, p.error)
           /\ PanelIs([p EXCEPT !.rows[u] = x], p.open, [p.rows EXCEPT ![u] = x], p.loading, p.error)
<1>1. PanelIs(p, p.open, p.rows, p.loading, p.error)
  BY DEF Panels, PanelIs
<1>2. PanelIs([p EXCEPT !.open = x], x, p.rows, p.loading, p.error)
  BY <1>1 DEF PanelIs
<1>3. PanelIs([p EXCEPT !.loading = x, !.error = y], p.open, p.rows, x, y)
  <2> DEFINE p1 == [p EXCEPT !.loading = x]
  <2>1. [p EXCEPT !.loading = x, !.error = y] = [p1 EXCEPT !.error = y]
    BY Zenon
  <2>2. PanelIs(p1, p.open, p.rows, x, p.error)
    BY <1>1 DEF PanelIs
  <2> HIDE DEF p1
  <2>3. PanelIs([p1 EXCEPT !.error = y], p.open, p.rows, x, y)
    BY <2>2 DEF PanelIs
  <2> QED
    BY <2>1, <2>3
<1>4. PanelIs([p EXCEPT !.error = x, !.loading = y], p.open, p.rows, y, x)
  <2> DEFINE p1 == [p EXCEPT !.error = x]
  <2>1. [p EXCEPT !.error = x, !.loading = y] = [p1 EXCEPT !.loading = y]
    BY Zenon
  <2>2. PanelIs(p1, p.open, p.rows, p.loading, x)
    BY <1>1 DEF PanelIs
  <2> HIDE DEF p1
  <2>3. PanelIs([p1 EXCEPT !.loading = y], p.open, p.rows, y, x)
    BY <2>2 DEF PanelIs
  <2> QED
    BY <2>1, <2>3
<1>5. PanelIs([p EXCEPT !.rows = x, !.loading = y], p.open, x, y, p.error)
  <2> DEFINE p1 == [p EXCEPT !.rows = x]
  <2>1. [p EXCEPT !.rows = x, !.loading = y] = [p1 EXCEPT !.loading = y]
    BY Zenon
  <2>2. PanelIs(p1, p.open, x, p.loading, p.error)
    BY <1>1 DEF PanelIs
  <2> HIDE DEF p1
  <2>3. PanelIs([p1 EXCEPT !.loading = y], p.open, x, y, p.error)
    BY <2>2 DEF PanelIs
  <2> QED
    BY <2>1, <2>3
<1>6. PanelIs([p EXCEPT !.rows[u] = x], p.open, [p.rows EXCEPT ![u] = x], p.loading, p.error)
  BY <1>1 DEF PanelIs
<1> QED
  BY <1>1, <1>2, <1>3, <1>4, <1>5, <1>6

(***************************************************************************)
(* The steps of the panels and of the handlers, told by what becomes of    *)
(* the panel and of the requests.                                          *)
(***************************************************************************)
LoadForm(open, rows, loading, error, queue, ws) ==
    \/ ws = None /\ PanelIs(panel', open, rows, loading, error) /\ asks' = queue
    \/ /\ ws # None /\ PanelIs(panel', open, rows, TRUE, FALSE)
       /\ \E r : AskIs(r, "list", user, ws, None, None, "check", NoRows) /\ asks' = Append(queue, r)
SendForm(what, by, ws, of, to) ==
    \E r : AskIs(r, what, by, ws, of, to, "check", NoRows) /\ asks' = Append(asks, r)
MoveForm(i, r, at, rows) ==
    \E g : AskIs(g, r.what, r.by, r.ws, r.of, r.to, at, rows) /\ asks' = [asks EXCEPT ![i] = g]
EndForm(i, r, at) ==
    (r.by = user /\ MoveForm(i, r, at, r.rows)) \/ (r.by # user /\ asks' = RemoveAt(asks, i))

\* To load the list is of this form.
LEMMA LoadFormed ==
    ASSUME NEW p \in Panels, NEW queue, NEW ws, LoadInto(p, queue, ws)
    PROVE  LoadForm(p.open, p.rows, p.loading, p.error, queue, ws)
<1>1. CASE ws = None
  BY <1>1, PanelSet DEF LoadInto, LoadForm
<1>2. CASE ws # None
  <2> DEFINE r == Ask("list", user, ws, None, None)
  <2>1. AskIs(r, "list", user, ws, None, None, "check", NoRows)
    BY DEF Ask, AskIs
  <2>2. PanelIs(panel', p.open, p.rows, TRUE, FALSE) /\ asks' = Append(queue, r)
    <3> DEFINE yes == TRUE
               no == FALSE
    <3>1. panel' = [p EXCEPT !.loading = yes, !.error = no] /\ asks' = Append(queue, r)
      BY <1>2 DEF LoadInto
    <3> HIDE DEF yes, no
    <3>2. PanelIs(panel', p.open, p.rows, yes, no)
      BY <3>1, PanelSet
    <3> QED
      BY <3>1, <3>2 DEF yes, no
  <2> QED
    BY <1>2, <2>1, <2>2 DEF LoadForm
<1> QED
  BY <1>1, <1>2

\* A request that was handled is of this form.
LEMMA EndFormed ==
    ASSUME NEW i, asks[i] \in Requests, NEW at, EndsAsk(i, at)
    PROVE  EndForm(i, asks[i], at)
<1> DEFINE r == asks[i]
           g == [r EXCEPT !.at = at]
<1>1. AskIs(g, r.what, r.by, r.ws, r.of, r.to, at, r.rows)
  <2> DEFINE q == r
  <2> HIDE DEF q
  <2>1. q \in Requests
    BY DEF q
  <2>2. AskIs([q EXCEPT !.at = at], q.what, q.by, q.ws, q.of, q.to, at, q.rows)
    BY <2>1, AskSet
  <2> QED
    BY <2>2 DEF q
<1>2. r.by = user => asks' = [asks EXCEPT ![i] = g]
  BY DEF EndsAsk, Mine
<1>3. r.by # user => asks' = RemoveAt(asks, i)
  BY DEF EndsAsk, Mine
<1> HIDE DEF g, r
<1>4. EndForm(i, r, at)
  BY <1>1, <1>2, <1>3 DEF EndForm, MoveForm
<1> QED
  BY <1>4 DEF r

OpenForm ==
    /\ May("panel") /\ Shown /\ Patient /\ changes < MaxChanges /\ changes' = changes + 1
    /\ UNCHANGED vars
    /\ \/ panel.open /\ PanelIs(panel', FALSE, panel.rows, panel.loading, panel.error) /\ asks' = asks
       \/ ~panel.open /\ LoadForm(TRUE, panel.rows, panel.loading, panel.error, asks, PanelWs)
ClickedForm(what, of, to) ==
    /\ May("panel") /\ Shown /\ Patient /\ changes < MaxChanges /\ changes' = changes + 1
    /\ UNCHANGED <<vars, panel>> /\ PanelWs # None /\ panel.open
    /\ \/ what \in {"role", "remove"} /\ of \in Users \ {user} /\ to \in Granted \cup {None} /\ ~panel.error
       \/ what = "invite" /\ of = None /\ to = None
    /\ SendForm(what, user, PanelWs, of, to)
RivalForm(what, by, ws, of, to) ==
    /\ May("rivals") /\ changes < MaxChanges /\ changes' = changes + 1 /\ UNCHANGED <<vars, panel>>
    /\ what \in {"role", "remove"} /\ by \in Users \ {user} /\ ws \in Workspaces /\ of \in Users
    /\ to \in Granted \cup {None}
    /\ SendForm(what, by, ws, of, to)
HearForm(i, r) ==
    /\ UNCHANGED <<vars, changes>>
    /\ \/ /\ r.at = "ok" /\ r.what = "list"
          /\ PanelIs(panel', panel.open, r.rows, FALSE, panel.error) /\ asks' = RemoveAt(asks, i)
       \/ /\ r.at = "ok" /\ Changing(r)
          /\ PanelIs(panel', panel.open,
                     [panel.rows EXCEPT ![r.of] = IF panel.rows[r.of] = None THEN None ELSE r.to],
                     panel.loading, panel.error)
          /\ asks' = RemoveAt(asks, i)
       \/ /\ r.at = "ok" /\ r.what = "invite"
          /\ LoadForm(panel.open, panel.rows, panel.loading, panel.error, RemoveAt(asks, i), r.ws)
       \/ /\ r.at = "failed"
          /\ \E loading \in BOOLEAN, error \in BOOLEAN :
               /\ PanelIs(panel', panel.open, panel.rows, loading, error)
               /\ error <=> panel.error \/ r.what # "invite"
          /\ asks' = RemoveAt(asks, i)
HandleForm(i, r) ==
    /\ UNCHANGED <<panel, changes, spaces, home, archived, recent, edits, user, store, flow, busy, flows, faults>>
    /\ \/ /\ r.at \in {"check", "see"} /\ member' = member
          /\ (\E at \in {"see", "act"} : MoveForm(i, r, at, r.rows)) \/ EndForm(i, r, "failed")
       \/ /\ r.at = "act" /\ Changing(r) /\ member' = Written(r)
          /\ \E at \in {"ok", "failed"} :
               /\ EndForm(i, r, at)
               /\ at = "failed" => r.what = "role"
       \/ r.at = "act" /\ ~Changing(r) /\ member' = member /\ MoveForm(i, r, "ok", Row(r))
       \/ r.by = user /\ member' = member /\ MoveForm(i, r, "failed", r.rows)
RestForm ==
    /\ NavNext /\ changes' = changes
    /\ May("panel") => flows' = flows \/ (~May("rivals") /\ Patient)
    /\ \/ UNCHANGED <<panel, asks>> /\ (panel.open => PanelWs' = PanelWs)
       \/ /\ panel.open /\ PanelWs' # PanelWs
          /\ LoadForm(panel.open, panel.rows, panel.loading, panel.error, asks, PanelWs')

\* What the user does at the panel is of one of the forms.
LEMMA PanelsFormed ==
    ASSUME AsksInv,
           \/ TogglePanel \/ Invite
           \/ \E u \in Users : RemoveMember(u) \/ \E role \in Granted : RoleChange(u, role)
    PROVE  OpenForm \/ \E what, of, to : ClickedForm(what, of, to)
<1>0. panel \in Panels
  BY DEF AsksInv
<1>1. CASE TogglePanel
  <2> DEFINE open == ~panel.open
             p == [panel EXCEPT !.open = open]
  <2>1. /\ May("panel") /\ Shown /\ Patient /\ changes < MaxChanges /\ changes' = changes + 1
        /\ UNCHANGED vars
    BY <1>1 DEF TogglePanel, Uses
  <2>2. IF p.open THEN LoadInto(p, asks, PanelWs) ELSE panel' = p /\ asks' = asks
    BY <1>1 DEF TogglePanel
  <2>3. panel.open \in BOOLEAN /\ open \in BOOLEAN
    BY <1>0 DEF Panels
  <2> HIDE DEF open
  <2>4. PanelIs(p, open, panel.rows, panel.loading, panel.error)
    BY <1>0, PanelSet
  <2>5. p \in Panels
    BY <1>0, <2>3, <2>4 DEF PanelIs, Panels
  <2> HIDE DEF p
  <2>6. p.open = open /\ p.rows = panel.rows /\ p.loading = panel.loading /\ p.error = panel.error
    BY <2>4 DEF PanelIs
  <2>7. CASE open
    <3>1. LoadForm(p.open, p.rows, p.loading, p.error, asks, PanelWs)
      BY <2>2, <2>5, <2>6, <2>7, LoadFormed
    <3>2. p.open = TRUE /\ ~panel.open
      BY <2>3, <2>6, <2>7 DEF open
    <3>3. LoadForm(TRUE, panel.rows, panel.loading, panel.error, asks, PanelWs)
      BY <2>6, <3>1, <3>2
    <3> QED
      BY <2>1, <3>2, <3>3 DEF OpenForm
  <2>8. CASE ~open
    <3>1. panel' = p /\ asks' = asks /\ open = FALSE /\ panel.open
      BY <2>2, <2>3, <2>6, <2>8 DEF open
    <3>2. PanelIs(panel', FALSE, panel.rows, panel.loading, panel.error)
      BY <2>4, <3>1
    <3> QED
      BY <2>1, <3>1, <3>2 DEF OpenForm
  <2> QED
    BY <2>7, <2>8
<1>2. ASSUME NEW what, NEW of, NEW to, Sends(what, of, to), panel.open,
             \/ /\ what \in {"role", "remove"} /\ of \in Users \ {user} /\ to \in Granted \cup {None}
                /\ ~panel.error
             \/ what = "invite" /\ of = None /\ to = None
      PROVE  ClickedForm(what, of, to)
  <2> DEFINE r == Ask(what, user, PanelWs, of, to)
  <2>1. AskIs(r, what, user, PanelWs, of, to, "check", NoRows)
    BY DEF Ask, AskIs
  <2>2. asks' = Append(asks, r) /\ panel' = panel /\ Uses /\ PanelWs # None
    BY <1>2 DEF Sends
  <2> HIDE DEF r
  <2>3. SendForm(what, user, PanelWs, of, to)
    BY <2>1, <2>2 DEF SendForm
  <2> QED
    BY <1>2, <2>2, <2>3 DEF ClickedForm, Uses
<1>3. CASE Invite
  <2>1. ClickedForm("invite", None, None)
    BY <1>2, <1>3 DEF Invite
  <2> QED
    BY <2>1
<1>4. ASSUME NEW u \in Users, RemoveMember(u)
      PROVE  \E what, of, to : ClickedForm(what, of, to)
  <2>1. ClickedForm("remove", u, None)
    BY <1>2, <1>4 DEF RemoveMember, CanModify
  <2> QED
    BY <2>1
<1>5. ASSUME NEW u \in Users, NEW role \in Granted, RoleChange(u, role)
      PROVE  \E what, of, to : ClickedForm(what, of, to)
  <2>1. ClickedForm("role", u, role)
    BY <1>2, <1>5 DEF RoleChange, CanModify
  <2> QED
    BY <2>1
<1> QED
  BY <1>1, <1>3, <1>4, <1>5

\* So is what another admin does.
LEMMA RivalFormed ==
    ASSUME NEW u \in Users, NEW of \in Users, NEW w \in Workspaces, NEW what \in {"role", "remove"},
           NEW role \in OthersGive, Rival(u, what, w, of, role)
    PROVE  \E to : RivalForm(what, u, w, of, to)
<1> DEFINE to == IF what = "role" THEN role ELSE None
           r == Ask(what, u, w, of, to)
<1>1. to \in Granted \cup {None}
  BY OthersGiveRoles
<1>2. AskIs(r, what, u, w, of, to, "check", NoRows)
  BY DEF Ask, AskIs
<1>3. asks' = Append(asks, r) /\ u # user
  BY DEF Rival
<1> HIDE DEF r, to
<1>4. SendForm(what, u, w, of, to)
  BY <1>2, <1>3 DEF SendForm
<1>5. RivalForm(what, u, w, of, to)
  BY <1>1, <1>3, <1>4 DEF RivalForm, Rival
<1> QED
  BY <1>5

\* So is what the rest of the tab does.
LEMMA RestFormed ==
    ASSUME AsksInv, Elsewhere
    PROVE  RestForm
<1>1. panel \in Panels
  BY DEF AsksInv
<1>2. CASE panel.open /\ PanelWs' # PanelWs
  <2>1. LoadInto(panel, asks, PanelWs')
    BY <1>2 DEF Elsewhere, PanelEffect
  <2> DEFINE ws == PanelWs'
  <2>2. LoadInto(panel, asks, ws)
    BY <2>1
  <2> HIDE DEF ws
  <2>3. LoadForm(panel.open, panel.rows, panel.loading, panel.error, asks, ws)
    BY <1>1, <2>2, LoadFormed
  <2> QED
    BY <1>2, <2>3 DEF Elsewhere, RestForm, ws
<1>3. CASE ~(panel.open /\ PanelWs' # PanelWs)
  BY <1>3 DEF Elsewhere, PanelEffect, RestForm
<1> QED
  BY <1>2, <1>3

\* So is what the tab hears.
LEMMA HearFormed ==
    ASSUME AsksInv, NEW i \in 1 .. Len(asks), asks[i] \in Requests, Hear(i)
    PROVE  HearForm(i, asks[i])
<1> DEFINE r == asks[i]
           rest == RemoveAt(asks, i)
<1>0. panel \in Panels
  BY DEF AsksInv
<1>1. UNCHANGED <<vars, changes>>
  BY DEF Hear
<1>2. CASE r.at = "ok" /\ r.what = "list" /\ asks' = rest
           /\ panel' = [panel EXCEPT !.rows = r.rows, !.loading = FALSE]
  <2> DEFINE no == FALSE
             x == r.rows
  <2>1. panel' = [panel EXCEPT !.rows = x, !.loading = no]
    BY <1>2
  <2> HIDE DEF no, x
  <2>2. PanelIs(panel', panel.open, x, no, panel.error)
    BY <1>0, <2>1, PanelSet
  <2> QED
    BY <1>1, <1>2, <2>2 DEF HearForm, no, x
<1>3. CASE r.at = "ok" /\ Changing(r) /\ asks' = rest
           /\ panel' = [panel EXCEPT !.rows[r.of] = IF @ = None THEN None ELSE r.to]
  <2> DEFINE u == r.of
             x == IF panel.rows[u] = None THEN None ELSE r.to
  <2>1. panel' = [panel EXCEPT !.rows[u] = x]
    BY <1>3
  <2> HIDE DEF u, x
  <2>2. PanelIs(panel', panel.open, [panel.rows EXCEPT ![u] = x], panel.loading, panel.error)
    BY <1>0, <2>1, PanelSet
  <2> QED
    BY <1>1, <1>3, <2>2 DEF HearForm, u, x
<1>4. CASE r.at = "ok" /\ r.what = "invite" /\ LoadInto(panel, rest, r.ws)
  <2>1. LoadForm(panel.open, panel.rows, panel.loading, panel.error, rest, r.ws)
    BY <1>0, <1>4, LoadFormed
  <2> QED
    BY <1>1, <1>4, <2>1 DEF HearForm
<1>5. CASE r.at = "failed" /\ HearFailed(r, rest)
  <2> DEFINE error == panel.error \/ r.what # "invite"
             loading == panel.loading /\ r.what # "list"
  <2>1. panel' = [panel EXCEPT !.error = error, !.loading = loading] /\ asks' = rest
    BY <1>5 DEF HearFailed
  <2>2. error \in BOOLEAN /\ loading \in BOOLEAN /\ (error <=> panel.error \/ r.what # "invite")
    BY <1>0 DEF Panels
  <2> HIDE DEF error, loading
  <2>3. PanelIs(panel', panel.open, panel.rows, loading, error)
    BY <1>0, <2>1, PanelSet
  <2> HIDE DEF r, rest
  <2>4. HearForm(i, r)
    BY <1>1, <1>5, <2>1, <2>2, <2>3 DEF HearForm, rest
  <2> QED
    BY <2>4 DEF r
<1> QED
  BY <1>2, <1>3, <1>4, <1>5 DEF Hear, HearOk, Changing

\* So is what a handler does.
LEMMA HandleFormed ==
    ASSUME NEW i \in 1 .. Len(asks), asks[i] \in Requests,
           \/ CheckRole(i) \/ SeeTarget(i) \/ WriteMember(i) \/ ListMembers(i) \/ LoseAsk(i)
    PROVE  HandleForm(i, asks[i])
<1> DEFINE r == asks[i]
<1>1. ASSUME NEW at, asks' = [asks EXCEPT ![i].at = at]
      PROVE  MoveForm(i, r, at, r.rows)
  <2> DEFINE q == asks[i]
             g == [q EXCEPT !.at = at]
  <2>1. asks' = [asks EXCEPT ![i] = g] /\ q \in Requests
    BY <1>1
  <2> HIDE DEF q
  <2>2. AskIs(g, q.what, q.by, q.ws, q.of, q.to, at, q.rows)
    BY <2>1, AskSet
  <2> HIDE DEF g
  <2> QED
    BY <2>1, <2>2 DEF MoveForm, q
<1>2. UNCHANGED <<panel, changes, spaces, home, archived, recent, edits, user, store, flow, busy, flows, faults>>
  BY DEF CheckRole, SeeTarget, WriteMember, ListMembers, LoseAsk, vars, server
<1>3. CASE CheckRole(i)
  <2>1. r.at = "check" /\ member' = member
    BY <1>3 DEF CheckRole, vars, server
  <2>2. \/ \E at \in {"see", "act"} : asks' = [asks EXCEPT ![i].at = at]
        \/ EndsAsk(i, "failed")
    BY <1>3 DEF CheckRole
  <2>3. (\E at \in {"see", "act"} : MoveForm(i, r, at, r.rows)) \/ EndForm(i, r, "failed")
    BY <1>1, <2>2, EndFormed
  <2> QED
    BY <1>2, <2>1, <2>3 DEF HandleForm
<1>4. CASE SeeTarget(i)
  <2>1. r.at = "see" /\ member' = member
    BY <1>4 DEF SeeTarget, vars, server
  <2>2. asks' = [asks EXCEPT ![i].at = "act"] \/ EndsAsk(i, "failed")
    BY <1>4 DEF SeeTarget
  <2>3. (\E at \in {"see", "act"} : MoveForm(i, r, at, r.rows)) \/ EndForm(i, r, "failed")
    BY <1>1, <2>2, EndFormed
  <2> QED
    BY <1>2, <2>1, <2>3 DEF HandleForm
<1>5. CASE WriteMember(i)
  <2>1. r.at = "act" /\ Changing(r) /\ member' = Written(r)
    BY <1>5 DEF WriteMember, Changing
  <2>2. PICK at \in {"ok", "failed"} : EndsAsk(i, at) /\ (at = "failed" => r.what = "role")
    BY <1>5 DEF WriteMember
  <2>3. EndForm(i, r, at)
    BY <2>2, EndFormed
  <2> QED
    BY <1>2, <2>1, <2>2, <2>3 DEF HandleForm
<1>6. CASE ListMembers(i)
  <2>1. r.at = "act" /\ ~Changing(r) /\ member' = member
        /\ asks' = [asks EXCEPT ![i].at = "ok", ![i].rows = Row(asks[i])]
    BY <1>6 DEF ListMembers, Changing, vars, server
  <2>2. MoveForm(i, r, "ok", Row(r))
    <3> DEFINE q == asks[i]
               row == Row(q)
               g == [q EXCEPT !.at = "ok", !.rows = row]
    <3>1. asks' = [asks EXCEPT ![i] = g] /\ q \in Requests
      BY <2>1
    <3> HIDE DEF q, row
    <3>2. AskIs(g, q.what, q.by, q.ws, q.of, q.to, "ok", row)
      BY <3>1, AskSet
    <3> HIDE DEF g
    <3> QED
      BY <3>1, <3>2 DEF MoveForm, q, row
  <2> QED
    BY <1>2, <2>1, <2>2 DEF HandleForm
<1>7. CASE LoseAsk(i)
  <2>1. r.by = user /\ member' = member /\ MoveForm(i, r, "failed", r.rows)
    BY <1>1, <1>7 DEF LoseAsk, Mine, vars, server
  <2> QED
    BY <1>2, <2>1 DEF HandleForm
<1> QED
  BY <1>3, <1>4, <1>5, <1>6, <1>7

\* Every step is of one of the forms.
LEMMA MembersFormed ==
    ASSUME AsksInv, MembersNext
    PROVE  \/ RestForm \/ OpenForm \/ \E what, of, to : ClickedForm(what, of, to)
           \/ \E what, by, ws, of, to : RivalForm(what, by, ws, of, to)
           \/ \E i \in 1 .. Len(asks) : HearForm(i, asks[i]) \/ HandleForm(i, asks[i])
<1>1. ASSUME NEW i \in 1 .. Len(asks)
      PROVE  asks[i] \in Requests
  BY ElementOfSeq DEF AsksInv, Proper
<1>2. ASSUME NEW u \in Users, NEW of \in Users, NEW w \in Workspaces, NEW what \in {"role", "remove"},
             NEW role \in OthersGive, Rival(u, what, w, of, role)
      PROVE  \E a, by, ws, o, to : RivalForm(a, by, ws, o, to)
  BY <1>2, RivalFormed
<1>3. ASSUME NEW i \in 1 .. Len(asks),
             \/ CheckRole(i) \/ SeeTarget(i) \/ WriteMember(i) \/ ListMembers(i) \/ LoseAsk(i) \/ Hear(i)
      PROVE  HearForm(i, asks[i]) \/ HandleForm(i, asks[i])
  BY <1>1, <1>3, HearFormed, HandleFormed
<1> QED
  BY <1>2, <1>3, PanelsFormed, RestFormed DEF MembersNext

\* What appending, removing and changing a request leave of a queue.
LEMMA ProperQueue ==
    ASSUME NEW G, NEW s \in Seq(G)
    PROVE  /\ \A r \in G : Append(s, r) \in Seq(G)
           /\ \A i \in 1 .. Len(s) : s[i] \in G /\ RemoveAt(s, i) \in Seq(G)
           /\ \A i \in 1 .. Len(s), r \in G : [s EXCEPT ![i] = r] \in Seq(G)
<1>1. DOMAIN s = 1 .. Len(s)
  BY LenProperties
<1>2. \A i \in 1 .. Len(s) : s[i] \in G /\ RemoveAt(s, i) \in Seq(G)
  BY <1>1, ElementOfSeq, RemoveAtKeeps
<1>3. \A i \in 1 .. Len(s), r \in G : [s EXCEPT ![i] = r] \in Seq(G)
  BY ExceptSeq
<1>4. \A r \in G : Append(s, r) \in Seq(G)
  BY AppendProperties
<1> QED
  BY <1>2, <1>3, <1>4

\* The workspace of the panel, when a project is shown.
LEMMA WsShown ==
    ASSUME NavShape
    PROVE  PanelWs \in Workspaces \cup {Mock, None} /\ (store.id # None => PanelWs # None)
<1>1. store.id \in Shownable /\ (store.id \in Projects => home[store.id] \in Workspaces)
  BY DEF NavShape, StoreOK, Stores, TablesOK
<1> QED
  BY <1>1, NavNames DEF PanelWs, Shownable

\* The workspace of the panel at any time.
LEMMA WsThere == NavShape => PanelWs \in Workspaces \cup {Mock, None}
  BY WsShown

\* ... and after a step.
LEMMA WsNext == NavShape' => PanelWs' \in Workspaces \cup {Mock, None}
<1>1. (NavShape => PanelWs \in Workspaces \cup {Mock, None})'
  BY WsThere, PTL
<1> QED
  BY <1>1

\* A request that was made, whoever reads it.
LEMMA AskIn ==
    ASSUME NEW r, NEW what \in {"list", "role", "remove", "invite"}, NEW by \in Users,
           NEW ws \in Workspaces \cup {Mock}, NEW of \in Users \cup {None}, NEW to \in Granted \cup {None},
           NEW at \in {"check", "see", "act", "ok", "failed"}, NEW rows \in Rowss,
           AskIs(r, what, by, ws, of, to, at, rows), NEW u, NEW spared,
           what \notin {"role", "remove"} \/ at \in {"ok", "failed"} => by = u,
           what \in {"role", "remove"} => of \in Users \ spared
    PROVE  r \in Proper(u, spared)
  BY DEF AskIs, Proper, Requests, Changing

\* The panel with its fields changed is a panel.
LEMMA PanelIn ==
    ASSUME NEW p, NEW open \in BOOLEAN, NEW rows \in Rowss, NEW loading \in BOOLEAN, NEW error \in BOOLEAN,
           PanelIs(p, open, rows, loading, error)
    PROVE  p \in Panels /\ p.open = open
  BY DEF PanelIs, Panels

\* An empty list of members is one.
LEMMA NoRowsIn == NoRows \in Rowss
  BY DEF NoRows, Rowss

\* What a load leaves behind.
LEMMA LoadKeeps ==
    ASSUME user \in Users, NEW spared, NEW queue \in Seq(Proper(user, spared)), NEW ws \in Workspaces \cup {Mock, None},
           NEW open \in BOOLEAN, NEW rows \in Rowss, NEW loading \in BOOLEAN, NEW error \in BOOLEAN,
           LoadForm(open, rows, loading, error, queue, ws)
    PROVE  /\ panel' \in Panels /\ panel'.open = open
           /\ asks' \in Seq(Proper(user, spared))
<1>1. CASE ws = None
  BY <1>1, PanelIn DEF LoadForm
<1>2. CASE ws # None
  <2>1. PanelIs(panel', open, rows, TRUE, FALSE)
    BY <1>2 DEF LoadForm
  <2>2. PICK r : AskIs(r, "list", user, ws, None, None, "check", NoRows) /\ asks' = Append(queue, r)
    BY <1>2 DEF LoadForm
  <2>3. r \in Proper(user, spared)
    BY <1>2, <2>2, NoRowsIn, AskIn
  <2>4. asks' \in Seq(Proper(user, spared))
    BY <2>2, <2>3, ProperQueue
  <2> DEFINE yes == TRUE
             no == FALSE
  <2>5. PanelIs(panel', open, rows, yes, no) /\ yes \in BOOLEAN /\ no \in BOOLEAN
    BY <2>1
  <2> HIDE DEF yes, no
  <2>6. panel' \in Panels /\ panel'.open = open
    BY <2>5, PanelIn
  <2> QED
    BY <2>4, <2>6
<1> QED
  BY <1>1, <1>2

\* The user stays where there are panels.
LEMMA PanelsUser ==
    ASSUME NavShape, May("panel") \/ May("rivals")
    PROVE  ~May("users") /\ user \in Users
<1>1. faults \in FaultSets /\ faults \cap {"panel", "rivals"} # {}
  BY DEF NavShape, May
<1>2. ~May("users")
  BY <1>1, OneUserAtThePanel DEF May
<1> QED
  BY <1>2, NavUsers DEF NavShape

\* Beside a panel or rivals the user stays.
LEMMA UserStays ==
    ASSUME NavShape, NavNext
    PROVE  user' = user \/ May("users")
  BY StepFormed, AnswerGoes DEF Starts, ClickForm, ServeForm, BecomeForm

\* The rest of the tab keeps the requests proper.
LEMMA AsksRest ==
    ASSUME NavShape, NavShape', AsksInv, RestForm
    PROVE  AsksInv'
<1>1. faults' = faults /\ changes' = changes
  BY FaultsStay DEF RestForm
<1>2. /\ panel \in Panels /\ changes \in 0 .. MaxChanges
      /\ asks \in Seq(Proper(user, Spared))
      /\ asks # <<>> => May("panel") \/ May("rivals")
      /\ panel.open => May("panel")
  BY DEF AsksInv
<1>3. CASE May("panel") \/ May("rivals")
  <2>1. user' = user /\ user \in Users
    BY <1>3, PanelsUser, UserStays DEF RestForm
  <2>2. CASE UNCHANGED <<panel, asks>>
    BY <1>1, <1>2, <1>3, <2>1, <2>2 DEF AsksInv, Spared, May
  <2>3. CASE /\ panel.open
             /\ LoadForm(panel.open, panel.rows, panel.loading, panel.error, asks, PanelWs')
    <3> DEFINE ws == PanelWs'
               spared == Spared
    <3>1. ws \in Workspaces \cup {Mock, None}
      BY WsNext
    <3>2. panel.open \in BOOLEAN /\ panel.rows \in Rowss /\ panel.loading \in BOOLEAN /\ panel.error \in BOOLEAN
      BY <1>2 DEF Panels
    <3>3. LoadForm(panel.open, panel.rows, panel.loading, panel.error, asks, ws)
      BY <2>3
    <3>4. asks \in Seq(Proper(user, spared))
      BY <1>2
    <3> HIDE DEF ws, spared
    <3>5. panel' \in Panels /\ panel'.open = panel.open /\ asks' \in Seq(Proper(user, spared))
      BY <2>1, <3>1, <3>2, <3>3, <3>4, LoadKeeps
    <3>6. panel' \in Panels /\ panel'.open = panel.open /\ asks' \in Seq(Proper(user', Spared'))
      BY <1>1, <2>1, <3>5 DEF spared, Spared, May
    <3> QED
      BY <1>1, <1>2, <1>3, <3>6 DEF AsksInv, May
  <2> QED
    BY <2>2, <2>3 DEF RestForm
<1>4. CASE ~May("panel") /\ ~May("rivals")
  <2>1. asks = <<>> /\ ~panel.open
    BY <1>2, <1>4
  <2>2. asks' = asks /\ panel' = panel
    BY <2>1 DEF RestForm
  <2>3. asks' \in Seq(Proper(user', Spared'))
    BY <2>1, <2>2, EmptySeq
  <2> QED
    BY <1>1, <1>2, <2>1, <2>2, <2>3 DEF AsksInv, May
<1> QED
  BY <1>3, <1>4

\* The members of the workspace of a request.
LEMMA RowTyped ==
    ASSUME KeptInv, NEW r
    PROVE  Row(r) \in Rowss
  BY NoRowsIn DEF Row, KeptInv, Tables, Rowss

\* What a step has to leave of panel and requests.
LEMMA AsksKeep ==
    ASSUME AsksInv, faults' = faults, user' = user, panel' \in Panels, panel'.open => May("panel"),
           changes' \in 0 .. MaxChanges, asks' \in Seq(Proper(user, Spared)),
           asks' # <<>> => May("panel") \/ May("rivals")
    PROVE  AsksInv'
  BY DEF AsksInv, Spared, May

\* To open or close the panel keeps the requests proper.
LEMMA AsksOpen ==
    ASSUME NavShape, AsksInv, OpenForm
    PROVE  AsksInv'
<1> DEFINE spared == Spared
<1>1. /\ May("panel") /\ faults' = faults /\ user' = user /\ changes' \in 0 .. MaxChanges
      /\ asks \in Seq(Proper(user, spared)) /\ panel \in Panels /\ store.id # None
  BY OthersGiveRoles DEF OpenForm, vars, AsksInv, Shown
<1>2. user \in Users /\ PanelWs \in Workspaces \cup {Mock, None}
  BY <1>1, PanelsUser, WsShown
<1>3. panel.open \in BOOLEAN /\ panel.rows \in Rowss /\ panel.loading \in BOOLEAN /\ panel.error \in BOOLEAN
  BY <1>1 DEF Panels
<1> HIDE DEF spared
<1>5. asks \in Seq(Proper(user, spared))
  BY <1>1
<1>4. panel' \in Panels /\ asks' \in Seq(Proper(user, spared))
  <2> DEFINE yes == TRUE
             no == FALSE
  <2>0. yes \in BOOLEAN /\ no \in BOOLEAN
    OBVIOUS
  <2>1. CASE PanelIs(panel', FALSE, panel.rows, panel.loading, panel.error) /\ asks' = asks
    <3>1. PanelIs(panel', no, panel.rows, panel.loading, panel.error)
      BY <2>1
    <3> HIDE DEF yes, no
    <3> QED
      BY <1>5, <1>3, <2>0, <2>1, <3>1, PanelIn
  <2>2. CASE LoadForm(TRUE, panel.rows, panel.loading, panel.error, asks, PanelWs)
    <3>1. LoadForm(yes, panel.rows, panel.loading, panel.error, asks, PanelWs)
      BY <2>2
    <3> HIDE DEF yes, no
    <3> QED
      BY <1>5, <1>2, <1>3, <2>0, <3>1, LoadKeeps
  <2> QED
    BY <2>1, <2>2 DEF OpenForm
<1> QED
  BY <1>1, <1>4, AsksKeep DEF spared

\* So does to send one.
LEMMA AsksSend ==
    ASSUME NavShape, AsksInv, NEW what, NEW by, NEW ws, NEW of, NEW to,
           (ClickedForm(what, of, to) /\ by = user /\ ws = PanelWs) \/ RivalForm(what, by, ws, of, to)
    PROVE  AsksInv'
<1> DEFINE spared == Spared
<1>1. /\ May("panel") \/ May("rivals")
      /\ faults' = faults /\ user' = user /\ changes' \in 0 .. MaxChanges
      /\ panel' = panel /\ asks \in Seq(Proper(user, spared)) /\ panel \in Panels
      /\ panel.open => May("panel")
  BY OthersGiveRoles DEF ClickedForm, RivalForm, vars, AsksInv
<1>2. user \in Users /\ PanelWs \in Workspaces \cup {Mock, None}
  BY <1>1, PanelsUser, WsShown
<1>3. faults' = faults /\ user' = user /\ (May("panel") \/ May("rivals"))
  BY DEF ClickedForm, RivalForm, vars
<1> HIDE DEF spared
<1>5. asks \in Seq(Proper(user, spared))
  BY <1>1 DEF spared
<1>4. asks' \in Seq(Proper(user, spared))
  <2>1. PICK r : AskIs(r, what, by, ws, of, to, "check", NoRows) /\ asks' = Append(asks, r)
    BY DEF ClickedForm, RivalForm, SendForm
  <2>2. /\ what \in {"list", "role", "remove", "invite"} /\ by \in Users /\ ws \in Workspaces \cup {Mock}
        /\ of \in Users \cup {None} /\ to \in Granted \cup {None}
    BY <1>2 DEF ClickedForm, RivalForm
  <2>3. /\ what \notin {"role", "remove"} => by = user
        /\ what \in {"role", "remove"} => of \in Users \ spared
    BY DEF ClickedForm, RivalForm, spared, Spared
  <2>5. AskIs(r, what, by, ws, of, to, "check", NoRows)
    BY <2>1
  <2>4. r \in Proper(user, spared)
    <3> DEFINE at == "check"
               rows == NoRows
    <3>1. AskIs(r, what, by, ws, of, to, at, rows) /\ at \in {"check", "see", "act", "ok", "failed"}
          /\ rows \in Rowss /\ at \notin {"ok", "failed"}
      BY <2>5, NoRowsIn
    <3> HIDE DEF at, rows
    <3> QED
      BY <2>2, <2>3, <3>1 DEF AskIs, Proper, Requests, Changing
  <2> QED
    BY <1>5, <2>1, <2>4, ProperQueue
<1> QED
  BY <1>1, <1>3, <1>4, AsksKeep DEF spared

\* So does to hear an answer.
LEMMA AsksHear ==
    ASSUME NavShape, AsksInv, NEW i \in 1 .. Len(asks), HearForm(i, asks[i])
    PROVE  AsksInv'
<1> DEFINE spared == Spared
           r == asks[i]
           rest == RemoveAt(asks, i)
<1>1. /\ May("panel") \/ May("rivals")
      /\ asks \in Seq(Proper(user, spared)) /\ panel \in Panels /\ (panel.open => May("panel"))
      /\ changes \in 0 .. MaxChanges
  <2>1. asks # <<>>
    BY EmptySeq
  <2> QED
    BY <2>1 DEF AsksInv
<1>2. user \in Users /\ PanelWs \in Workspaces \cup {Mock, None} /\ faults' = faults /\ user' = user
      /\ changes' = changes
  BY <1>1, PanelsUser, WsShown DEF HearForm, vars
<1>3. panel.open \in BOOLEAN /\ panel.rows \in Rowss /\ panel.loading \in BOOLEAN /\ panel.error \in BOOLEAN
  BY <1>1 DEF Panels
<1>4. rest \in Seq(Proper(user, spared)) /\ r \in Proper(user, spared)
  BY <1>1, ProperQueue
<1>5. r \in Requests /\ (Changing(r) => r.of \in Users)
  BY <1>4 DEF Proper
<1> HIDE DEF spared
<1>6. HearForm(i, r) /\ RemoveAt(asks, i) = rest
  OBVIOUS
<1> HIDE DEF r, rest
<1>8. user \in Users
  BY <1>2
<1>7. panel' \in Panels /\ panel'.open = panel.open /\ asks' \in Seq(Proper(user, spared))
  <2>1. CASE PanelIs(panel', panel.open, r.rows, FALSE, panel.error) /\ asks' = rest
    <3> DEFINE no == FALSE
    <3>1. PanelIs(panel', panel.open, r.rows, no, panel.error) /\ no \in BOOLEAN /\ r.rows \in Rowss
      BY <1>5, <2>1 DEF Requests
    <3> HIDE DEF no
    <3> QED
      BY <1>3, <1>4, <2>1, <3>1, PanelIn
  <2>2. CASE /\ Changing(r) /\ asks' = rest
             /\ PanelIs(panel', panel.open,
                        [panel.rows EXCEPT ![r.of] = IF panel.rows[r.of] = None THEN None ELSE r.to],
                        panel.loading, panel.error)
    <3> DEFINE rows == [panel.rows EXCEPT ![r.of] = IF panel.rows[r.of] = None THEN None ELSE r.to]
    <3>1. r.of \in Users /\ r.to \in Roles \cup {None}
      BY <1>5, <2>2 DEF Requests, Granted
    <3>2. rows \in Rowss
      BY <1>3, <3>1 DEF Rowss
    <3>3. PanelIs(panel', panel.open, rows, panel.loading, panel.error)
      BY <2>2
    <3> HIDE DEF rows
    <3> QED
      BY <1>3, <1>4, <2>2, <3>2, <3>3, PanelIn
  <2>3. CASE LoadForm(panel.open, panel.rows, panel.loading, panel.error, rest, r.ws)
    <3>1. r.ws \in Workspaces \cup {Mock, None}
      BY <1>5 DEF Requests
    <3> QED
      BY <1>8, <1>3, <1>4, <2>3, <3>1, LoadKeeps
  <2>4. CASE \E loading \in BOOLEAN, error \in BOOLEAN :
               PanelIs(panel', panel.open, panel.rows, loading, error) /\ asks' = rest
    BY <1>3, <1>4, <2>4, PanelIn
  <2> QED
    BY <1>6, <2>1, <2>2, <2>3, <2>4 DEF HearForm
<1> QED
  BY <1>1, <1>2, <1>7, AsksKeep DEF spared

\* So does every statement of a handler.
LEMMA AsksHandle ==
    ASSUME KeptInv, NavShape, AsksInv, NEW i \in 1 .. Len(asks), HandleForm(i, asks[i])
    PROVE  AsksInv'
<1> DEFINE spared == Spared
           r == asks[i]
<1>1. /\ May("panel") \/ May("rivals")
      /\ asks \in Seq(Proper(user, spared)) /\ panel \in Panels /\ (panel.open => May("panel"))
      /\ changes \in 0 .. MaxChanges
  <2>1. asks # <<>>
    BY EmptySeq
  <2> QED
    BY <2>1 DEF AsksInv
<1>2. faults' = faults /\ user' = user /\ changes' = changes /\ panel' = panel
  BY DEF HandleForm
<1>4. RemoveAt(asks, i) \in Seq(Proper(user, spared)) /\ r \in Proper(user, spared)
  BY <1>1, ProperQueue
<1> HIDE DEF spared
<1>9. asks \in Seq(Proper(user, spared))
  BY <1>1 DEF spared
<1>5. r \in Requests /\ (Changing(r) => r.of \in Users \ spared)
      /\ (~Changing(r) \/ r.at \in {"ok", "failed"} => r.by = user)
  BY <1>4 DEF Proper
<1>6. HandleForm(i, r) /\ Row(r) \in Rowss
  BY RowTyped
<1> HIDE DEF r
<1>7. ASSUME NEW at \in {"check", "see", "act", "ok", "failed"}, NEW rows \in Rowss, MoveForm(i, r, at, rows),
             at \in {"ok", "failed"} => r.by = user
      PROVE  asks' \in Seq(Proper(user, spared))
  <2>1. PICK g : AskIs(g, r.what, r.by, r.ws, r.of, r.to, at, rows) /\ asks' = [asks EXCEPT ![i] = g]
    BY <1>7 DEF MoveForm
  <2>2. /\ r.what \in {"list", "role", "remove", "invite"} /\ r.by \in Users /\ r.ws \in Workspaces \cup {Mock}
        /\ r.of \in Users \cup {None} /\ r.to \in Granted \cup {None}
    BY <1>5 DEF Requests
  <2>3. /\ r.what \notin {"role", "remove"} \/ at \in {"ok", "failed"} => r.by = user
        /\ r.what \in {"role", "remove"} => r.of \in Users \ spared
    BY <1>5, <1>7 DEF Changing
  <2>5. AskIs(g, r.what, r.by, r.ws, r.of, r.to, at, rows)
    BY <2>1
  <2>4. g \in Proper(user, spared)
    BY <2>2, <2>3, <2>5 DEF AskIs, Proper, Requests, Changing
  <2> QED
    BY <1>9, <2>1, <2>4, ProperQueue
<1>8. asks' \in Seq(Proper(user, spared))
  <2>1. ASSUME NEW at \in {"ok", "failed"}, EndForm(i, r, at)
        PROVE  asks' \in Seq(Proper(user, spared))
    <3>1. r.rows \in Rowss
      BY <1>5 DEF Requests
    <3>2. CASE r.by = user /\ MoveForm(i, r, at, r.rows)
      BY <1>7, <3>1, <3>2
    <3> QED
      BY <1>4, <2>1, <3>2 DEF EndForm
  <2>2. ASSUME NEW at \in {"see", "act", "failed"}, MoveForm(i, r, at, r.rows), at = "failed" => r.by = user
        PROVE  asks' \in Seq(Proper(user, spared))
    <3>1. r.rows \in Rowss
      BY <1>5 DEF Requests
    <3> QED
      BY <1>7, <2>2, <3>1
  <2>3. CASE ~Changing(r) /\ MoveForm(i, r, "ok", Row(r))
    BY <1>5, <1>6, <1>7, <2>3
  <2> QED
    BY <1>6, <2>1, <2>2, <2>3 DEF HandleForm
<1> QED
  BY <1>1, <1>2, <1>8, AsksKeep DEF spared

NavInv == NavShape /\ MakeInv /\ SoloInv /\ AloneOnly /\ ToldTrue /\ MineTrue /\ AloneInv

\* A step beside the flows changes nothing they look at but the roles of others.
Beside ==
    /\ UNCHANGED <<spaces, home, archived, recent, edits, user, store, flow, busy, flows, faults>>
    /\ \/ member' = member
       \/ /\ ~May("users") /\ user \in Users
          /\ ~May("rivals") => \A w \in Workspaces : member'[w][user] = member[w][user]

\* A handler leaves the rest of the tab as it is and, without rivals, the roles of the user.
LEMMA HandleBeside ==
    ASSUME KeptInv, NavShape, AsksInv, NEW i \in 1 .. Len(asks), HandleForm(i, asks[i])
    PROVE  Beside
<1> DEFINE r == asks[i]
<1>1. /\ May("panel") \/ May("rivals")
      /\ asks \in Seq(Proper(user, Spared))
  <2>1. asks # <<>>
    BY EmptySeq
  <2> QED
    BY <2>1 DEF AsksInv
<1>2. ~May("users") /\ user \in Users
  BY <1>1, PanelsUser
<1>3. r \in Proper(user, Spared)
  BY <1>1, ProperQueue
<1>4. AskOK(r, member, spaces) /\ HandleForm(i, r)
  BY DEF KeptInv, AsksOK
<1> HIDE DEF r
<1>5. UNCHANGED <<spaces, home, archived, recent, edits, user, store, flow, busy, flows, faults>>
  BY <1>4 DEF HandleForm
<1>6. CASE member' = member
  BY <1>5, <1>6 DEF Beside
<1>7. CASE r.at = "act" /\ Changing(r) /\ member' = Written(r)
  <2>1. r.ws \in Workspaces /\ r.of \in Users /\ (~May("rivals") => r.of # user)
    BY <1>3, <1>4, <1>7 DEF AskOK, Changing, Proper, Spared
  <2>2. \A w \in Workspaces, u \in Users : u # r.of => member'[w][u] = member[w][u]
    BY <1>7, <2>1 DEF Written, KeptInv, Tables
  <2>3. ~May("rivals") => \A w \in Workspaces : member'[w][user] = member[w][user]
    BY <1>2, <2>1, <2>2
  <2> QED
    BY <1>2, <1>5, <2>3 DEF Beside
<1> QED
  BY <1>4, <1>6, <1>7 DEF HandleForm

\* What was told of the user stays true beside the panel.
LEMMA TrueBeside ==
    ASSUME NEW u, NEW list \in Seq(Space), TrueFor(u, list, member),
           \A w \in Workspaces : member'[w][u] = member[w][u]
    PROVE  TrueFor(u, list, member')
<1>1. ASSUME NEW k \in 1 .. Len(list)
      PROVE  list[k].role = member'[list[k].id][u]
  <2>1. list[k] \in Space
    BY ElementOfSeq
  <2>2. list[k].id \in Workspaces
    BY <2>1 DEF Space
  <2>3. list[k].role = member[list[k].id][u]
    BY DEF TrueFor
  <2> QED
    BY <2>2, <2>3
<1> QED
  BY <1>1 DEF TrueFor

\* What happens at the panel keeps the invariant of the tab.
LEMMA NavBeside ==
    ASSUME NavInv, Beside
    PROVE  NavInv'
<1>1. /\ spaces' = spaces /\ home' = home /\ archived' = archived /\ recent' = recent /\ edits' = edits
      /\ user' = user /\ store' = store /\ flow' = flow /\ busy' = busy /\ flows' = flows
      /\ faults' = faults
  BY DEF Beside
<1>2. NavShape' /\ MakeInv' /\ SoloInv' /\ AloneOnly'
  BY <1>1 DEF NavInv, NavShape, TablesOK, FlowsOK, MakeInv, SoloInv, OneByOne, AloneOnly, May
<1>3. ListOf(store.ws)' = ListOf(store.ws)
  BY <1>1 DEF ListOf
<1>4. CASE member' = member
  <2>1. ToldTrue' /\ MineTrue'
    BY <1>1, <1>4 DEF NavInv, ToldTrue, MineTrue, May
  <2>2. AloneInv'
    BY <1>1, <1>3, <1>4 DEF NavInv, AloneInv, May
  <2> QED
    BY <1>2, <2>1, <2>2 DEF NavInv
<1>5. CASE /\ ~May("users") /\ user \in Users
           /\ ~May("rivals") => \A w \in Workspaces : member'[w][user] = member[w][user]
  <2>1. ASSUME ~May("rivals")
        PROVE  /\ TrueFor(user, store.spaces, member')
               /\ \A i \in Slots : flow[i].kind # "no" => flow[i].by = user
    <3>1. /\ TrueFor(user, store.spaces, member) /\ store.spaces \in Seq(Space)
          /\ \A i \in Slots : flow[i].kind # "no" => flow[i].by = user
      BY <1>5, <2>1 DEF NavInv, MineTrue, NavShape, StoreOK, Stores
    <3> QED
      BY <1>5, <2>1, <3>1, TrueBeside
  <2>2. MineTrue'
    BY <1>1, <2>1 DEF MineTrue, May
  <2>3. ASSUME ~May("rivals"), NEW i \in Slots, flow[i].call = "workspaces", flow[i].ans.how = "ok"
        PROVE  flow[i].by # None /\ TrueFor(flow[i].by, flow[i].ans.val, member')
    <3>1. FlowOK(flow[i], home, store.id, user)
      BY DEF NavInv, NavShape, FlowsOK
    <3>2. flow[i].kind # "no" /\ flow[i].ans.val \in Seq(Space)
      BY <2>3, <3>1 DEF FlowOK, AnswerOK
    <3>3. flow[i].by = user /\ flow[i].by # None /\ TrueFor(flow[i].by, flow[i].ans.val, member)
      BY <2>1, <2>3, <3>2 DEF NavInv, ToldTrue
    <3> QED
      BY <1>5, <2>3, <3>2, <3>3, TrueBeside
  <2>4. ToldTrue'
    BY <1>1, <2>3 DEF ToldTrue, May
  <2>5. ASSUME NEW i \in Slots, flow[i].kind # "no", flow[i].alone, Fresh(flow[i])
        PROVE  /\ Seen(flow[i], store, ListOf(store.ws), home)
               /\ ~May("rivals") => Ranked(flow[i], store, member', user, May("users"))
    <3> DEFINE f == flow[i]
    <3>1. FlowOK(f, home, store.id, user)
      BY DEF NavInv, NavShape, FlowsOK
    <3>2. Seen(f, store, ListOf(store.ws), home)
      BY <2>5 DEF NavInv, AloneInv
    <3>3. ASSUME ~May("rivals")
          PROVE  Ranked(f, store, member', user, May("users"))
      <4>1. Ranked(f, store, member, user, May("users"))
        BY <2>5, <3>3 DEF NavInv, AloneInv
      <4>2. /\ f.call = "makeWs" /\ f.ans.how = "ok" => f.ans.val \in Workspaces
            /\ f.call = "workspaces" /\ f.kind = "createWs" => f.ws \in Workspaces
        BY <3>1 DEF FlowOK, AnswerOK, OfWorkspace
      <4>3. \A w \in Workspaces : member'[w][user] = member[w][user]
        BY <1>5, <3>3
      <4> HIDE DEF f
      <4> QED
        BY <4>1, <4>2, <4>3 DEF Ranked
    <3> QED
      BY <3>2, <3>3
  <2>6. AloneInv'
    BY <1>1, <1>3, <2>5 DEF AloneInv, May
  <2> QED
    BY <1>2, <2>2, <2>4, <2>6 DEF NavInv
<1> QED
  BY <1>4, <1>5 DEF Beside

\* So does every step of the tab.
LEMMA NavInvStep ==
    ASSUME KeptInv, NavInv, NavNext
    PROVE  NavInv'
  BY ShapeStep, MakeStep, AloneStep, SoloStep, ToldStep, MineStep, StageStep DEF NavInv

(***************************************************************************)
(* Together.                                                               *)
(***************************************************************************)
TabInv == KeptInv /\ NavInv /\ AsksInv

\* Every step keeps the invariant.
LEMMA TabStep ==
    ASSUME TabInv, [MembersNext]_mvars
    PROVE  TabInv'
<1>1. KeptInv /\ NavInv /\ AsksInv /\ NavShape
  BY DEF TabInv, NavInv
<1>2. KeptInv'
  BY <1>1, KeptStep
<1>3. CASE UNCHANGED mvars
  <2>1. Beside
    BY <1>3 DEF mvars, vars, server, Beside
  <2>2. AsksInv'
    BY <1>1, <1>3 DEF mvars, vars, AsksInv, Spared, May
  <2> QED
    BY <1>1, <1>2, <2>1, <2>2, NavBeside DEF TabInv
<1>4. CASE RestForm
  <2>1. NavInv'
    BY <1>1, <1>4, NavInvStep DEF RestForm
  <2>2. AsksInv'
    BY <1>1, <1>4, <2>1, AsksRest DEF NavInv
  <2> QED
    BY <1>2, <2>1, <2>2 DEF TabInv
<1>5. CASE OpenForm
  <2>1. Beside
    BY <1>5 DEF OpenForm, vars, server, Beside
  <2> QED
    BY <1>1, <1>2, <1>5, <2>1, NavBeside, AsksOpen DEF TabInv
<1>6. ASSUME NEW what, NEW of, NEW to, ClickedForm(what, of, to)
      PROVE  TabInv'
  <2>1. Beside
    BY <1>6 DEF ClickedForm, vars, server, Beside
  <2>2. AsksInv'
    BY <1>1, <1>6, AsksSend
  <2> QED
    BY <1>1, <1>2, <2>1, <2>2, NavBeside DEF TabInv
<1>7. ASSUME NEW what, NEW by, NEW ws, NEW of, NEW to, RivalForm(what, by, ws, of, to)
      PROVE  TabInv'
  <2>1. Beside
    BY <1>7 DEF RivalForm, vars, server, Beside
  <2>2. AsksInv'
    BY <1>1, <1>7, AsksSend
  <2> QED
    BY <1>1, <1>2, <2>1, <2>2, NavBeside DEF TabInv
<1>8. ASSUME NEW i \in 1 .. Len(asks), HearForm(i, asks[i])
      PROVE  TabInv'
  <2>1. Beside
    BY <1>8 DEF HearForm, vars, server, Beside
  <2> QED
    BY <1>1, <1>2, <1>8, <2>1, NavBeside, AsksHear DEF TabInv
<1>9. ASSUME NEW i \in 1 .. Len(asks), HandleForm(i, asks[i])
      PROVE  TabInv'
  BY <1>1, <1>2, <1>9, NavBeside, HandleBeside, AsksHandle DEF TabInv
<1> QED
  BY <1>1, <1>3, <1>4, <1>5, <1>6, <1>7, <1>8, <1>9, MembersFormed

\* The invariant holds at first.
LEMMA TabInit ==
    ASSUME MembersInit
    PROVE  TabInv
<1>1. /\ spaces = Made /\ member = Members0 /\ home = Home0 /\ recent = Recent0
      /\ archived = {} /\ edits = [p \in Projects |-> 0] /\ user \in Here
      /\ store = [ws |-> None, role |-> None, spaces |-> <<>>, list |-> <<>>,
                  id |-> None, of |-> None, edits |-> 0]
      /\ flow = [i \in Slots |-> NoFlow] /\ busy = FALSE /\ flows = 0 /\ faults \in FaultSets
      /\ panel = [open |-> FALSE, rows |-> NoRows, loading |-> FALSE, error |-> FALSE]
      /\ asks = <<>> /\ changes = 0
  BY DEF MembersInit, NavInit
<1>2. TablesOK
  <2>1. \A k \in 1 .. Len(Made) : Made[k] \in Workspaces
    BY NavTables, ElementOfSeq
  <2>2. home \in [Projects -> Workspaces \cup {None}]
    BY <1>1, <2>1, NavTables
  <2>3. ASSUME NEW p \in Projects, home[p] # None
        PROVE  InUse(home[p], spaces)
    BY <1>1, <2>3, NavTables DEF InUse
  <2>4. recent \in Seq(Projects) /\ edits \in [Projects -> Nat] /\ archived \subseteq {p \in Projects : home[p] # None}
    BY <1>1, NavTables
  <2> QED
    BY <2>2, <2>3, <2>4 DEF TablesOK
<1>3. StoreOK(store, home)
  <2>1. <<>> \in Seq(Space) /\ <<>> \in Seq(Projects)
    BY EmptySeq
  <2>2. Holds(store, None, None, <<>>, <<>>, None, None, 0)
    BY <1>1 DEF Holds
  <2>3. None \in Workspaces \cup {None} /\ None \in Roles \cup {None} /\ None \in Shownable /\ 0 \in Nat
        /\ None \notin Projects
    BY NavNames DEF Shownable
  <2>4. store \in Stores /\ store.ws = None /\ store.id \notin Projects
    BY <2>1, <2>2, <2>3 DEF Holds, Stores
  <2> QED
    BY <2>4 DEF StoreOK
<1>4. ASSUME NEW i \in Slots
      PROVE  /\ Becomes(flow[i], "no", "no", None, None, None, FALSE, FALSE, "no", None)
             /\ FlowOK(flow[i], home, store.id, user) /\ flow[i].kind = "no" /\ ~flow[i].alone
             /\ flow[i].ans.how = "no"
  <2>1. Becomes(flow[i], "no", "no", None, None, None, FALSE, FALSE, "no", None)
    BY <1>1, NoFlowFields DEF NoFlowIs
  <2>2. FlowOK(flow[i], home, store.id, user)
    BY <2>1, FlowEnds
  <2> QED
    BY <2>1, <2>2 DEF Becomes
<1>5. user \in Users /\ user # None
  BY <1>1, NavUsers, NavNames
<1>6. NavShape
  <2>1. flow = [i \in Slots |-> flow[i]]
    BY <1>1
  <2>2. flows \in 0 .. MaxFlows
    BY <1>1, NavUsers
  <2>3. busy \in BOOLEAN /\ faults \in FaultSets
    BY <1>1
  <2>4. FlowsOK
    BY <1>4 DEF FlowsOK
  <2> QED
    BY <1>2, <1>3, <1>5, <2>1, <2>2, <2>3, <2>4 DEF NavShape
<1>7. MakeInv /\ SoloInv /\ AloneOnly /\ ToldTrue /\ AloneInv
  BY <1>4 DEF MakeInv, Makes, SoloInv, AloneOnly, ToldTrue, AloneInv
<1>8. MineTrue
  <2>1. store.spaces = <<>>
    BY <1>1
  <2>2. Len(store.spaces) = 0
    BY <2>1, EmptySeq
  <2>3. TrueFor(user, store.spaces, member)
    BY <2>2 DEF TrueFor
  <2> QED
    BY <1>4, <2>3 DEF MineTrue
<1>9. AsksInv
  <2>1. changes \in 0 .. MaxChanges
    BY <1>1, OthersGiveRoles
  <2>3. asks \in Seq(Proper(user, Spared))
    BY <1>1, EmptySeq
  <2>2. panel \in Panels /\ ~panel.open
    BY <1>1, NoRowsIn DEF Panels
  <2> QED
    BY <1>1, <2>1, <2>2, <2>3 DEF AsksInv
<1> QED
  BY <1>6, <1>7, <1>8, <1>9, KeptInit DEF TabInv, NavInv

\* The tab, its flows and its panel are as the invariant says, at any time.
LEMMA TabInvariant == MembersSpec => []TabInv
<1>1. MembersInit => TabInv
  BY TabInit
<1>2. TabInv /\ [MembersNext]_mvars => TabInv'
  BY TabStep
<1> QED
  BY <1>1, <1>2, PTL DEF MembersSpec

\* A flow is over only by an answer of its own.
LEMMA EndsByAnswer ==
    ASSUME NavShape, NavNext, NEW i \in Slots, flow[i].kind # "no", flow'[i].kind = "no"
    PROVE  AnswerForm(i, flow[i], flow[i].ans.val) /\ Stops(i)
<1>1. ASSUME NEW j \in Slots, NEW kind, NEW call, NEW ws, NEW pj, Starts(j, kind, call, ws, pj)
      PROVE  FALSE
  <2>1. flow[j].kind = "no" /\ \A k \in Slots \ {j} : flow'[k].kind = flow[k].kind
    BY <1>1 DEF Starts, Becomes
  <2> QED
    BY <2>1
<1>2. ASSUME NEW j \in Slots, ClickForm(j)
      PROVE  FALSE
  BY <1>1, <1>2 DEF ClickForm
<1>3. ASSUME NEW j \in Slots, NEW how, NEW val, ServeForm(j, flow[j], how, val)
      PROVE  FALSE
  <2>1. Told(j, how, val)
    BY <1>3 DEF ServeForm
  <2>2. \A k \in Slots : flow'[k].kind = flow[k].kind
    BY <2>1 DEF Told, Becomes
  <2> QED
    BY <2>2
<1>4. ASSUME NEW u, BecomeForm(u)
      PROVE  FALSE
  BY <1>4 DEF BecomeForm, Becomes
<1>5. ASSUME NEW j \in Slots, AnswerForm(j, flow[j], flow[j].ans.val)
      PROVE  j = i /\ Stops(i)
  <2>1. CASE Stops(j)
    <3>1. \A k \in Slots \ {j} : flow'[k].kind = flow[k].kind
      BY <2>1 DEF Stops, Becomes
    <3> QED
      BY <2>1, <3>1
  <2>2. ASSUME NEW call, NEW ws, NEW pj, GoesOn(j, call, ws, pj)
        PROVE  FALSE
    <3>1. \A k \in Slots : flow'[k].kind = flow[k].kind
      BY <2>2 DEF GoesOn, Becomes
    <3> QED
      BY <3>1
  <2> QED
    BY <1>5, <2>1, <2>2, AnswerGoes
<1> QED
  BY <1>1, <1>2, <1>3, <1>4, <1>5, StepFormed

\* A flow that was alone to its last answer leaves a selection that fits.
LEMMA FitsAtEnd ==
    ASSUME TabInv, [MembersNext]_mvars, NEW i \in Slots, flow[i].alone,
           flow[i].kind \in {"boot", "select", "createWs"}, Answered(i, "get"), flow'[i].kind = "no"
    PROVE  /\ Fits'
           /\ (flow[i].kind = "select" /\ May("users")) \/ May("rivals") \/ RoleFits'
<1> DEFINE f == flow[i]
           got == f.ans.val
<1>1. f.kind # "no" /\ f.call = "get" /\ f.ans.how = "ok" /\ Fresh(f)
  BY DEF Answered, Fresh
<1>2. NavShape /\ AsksInv
  BY DEF TabInv, NavInv
<1>3. NavNext
  <2>1. ASSUME flow' = flow
        PROVE  FALSE
    BY <1>1, <2>1
  <2>2. CASE UNCHANGED mvars
    BY <2>1, <2>2 DEF mvars, vars
  <2>3. CASE MembersNext
    BY <1>2, <2>1, <2>3, MembersFormed
      DEF RestForm, OpenForm, ClickedForm, RivalForm, HearForm, HandleForm, vars
  <2> QED
    BY <2>2, <2>3
<1>4. AnswerForm(i, f, got) /\ Stops(i)
  BY <1>1, <1>2, <1>3, EndsByAnswer
<1>5. GetForm(i, f, got) /\ user' = user /\ server' = server
  BY <1>1, <1>4 DEF AnswerForm
<1>6. /\ store'.ws = store.ws /\ store'.role = store.role /\ store'.list = store.list
      /\ store'.id = f.pj /\ store'.of = f.pj
  BY <1>5 DEF GetForm, Holds
<1>7. /\ f.by = user /\ user # None /\ f.pj \in Projects
      /\ Seen(f, store, ListOf(store.ws), home)
      /\ ~May("rivals") => Ranked(f, store, member, user, May("users"))
  BY <1>1, <1>2 DEF TabInv, NavInv, AloneOnly, AloneInv, NavShape, FlowsOK, FlowOK, OfProject
<1>8. home' = home /\ member' = member /\ recent' = recent /\ archived' = archived
  BY <1>5 DEF server
<1>9. ListOf(store.ws)' = ListOf(store.ws)
  BY <1>6, <1>8 DEF ListOf
<1>10. Fits'
  BY <1>1, <1>6, <1>7, <1>8, <1>9 DEF Fits, Seen
<1>11. ASSUME ~May("rivals"), ~(f.kind = "select" /\ May("users"))
       PROVE  RoleFits'
  <2>1. store.ws \in Workspaces /\ store.role = member[store.ws][user]
    BY <1>1, <1>7, <1>11 DEF Ranked
  <2>2. RoleOf(store.ws, user)' = member[store.ws][user]
    BY <1>5, <1>6, <1>7, <1>8, <2>1, NavNames DEF RoleOf
  <2> QED
    BY <1>6, <2>1, <2>2 DEF RoleFits
<1> QED
  BY <1>10, <1>11

\* Whatever went wrong before, with overlapping flows, failures and other users: a choice of a
\* workspace, a new one and a start put project, list and role of one workspace on the screen,
\* when they get to their end alone.
THEOREM SelectionsFit == MembersSpec => SelectionFits
<1>1. TabInv /\ [MembersNext]_mvars =>
        [\A i \in Slots :
           (flow[i].alone /\ flow[i].kind \in {"boot", "select", "createWs"} /\ Answered(i, "get")
              /\ flow'[i].kind = "no")
             => Fits' /\ ((flow[i].kind = "select" /\ May("users")) \/ May("rivals") \/ RoleFits')]_vars
  BY FitsAtEnd
<1> QED
  BY <1>1, TabInvariant, PTL DEF MembersSpec, SelectionFits

(***************************************************************************)
(* The calm tab: nothing fails but what is refused, one flow at a time,    *)
(* one user, no rivals.  What is shown is true at rest and as long as the  *)
(* flow may still be refused; the calls that follow cannot be.             *)
(* Here s is the store, now the list of its workspace, h, a and e what the *)
(* server has of the projects, m the members and u the user.               *)
(***************************************************************************)
Calm == faults \subseteq {"panel"}
RoleIn(m, w, u) == IF w = None \/ u = None THEN None ELSE m[w][u]
Belongs(s, m, u) == s.ws # None => RoleIn(m, s.ws, u) # None
ListTrue(s, now) == s.list = IF s.ws = None THEN <<>> ELSE now
HomeTrue(s, now, h) == s.id \in Projects => h[s.id] = s.ws \/ now = <<>>
ShownTrue(s, h, a, e, m, u) ==
    s.id \in Projects =>
      /\ s.ws # None /\ s.id \notin a /\ RoleIn(m, h[s.id], u) # None
      /\ s.of = s.id /\ s.edits = e[s.id]
Rest(s, now, h, a, e, m, u) == ListTrue(s, now) /\ HomeTrue(s, now, h) /\ ShownTrue(s, h, a, e, m, u)

\* A project that was made, and one that is going to be shown.
Good(p, s, h, a) == p \in Projects /\ p \notin a /\ h[p] = s.ws /\ s.ws # None
Showable(p, s, now, h, a, m, u) ==
    /\ p \in Projects /\ p \notin a /\ RoleIn(m, h[p], u) # None /\ s.ws # None
    /\ h[p] = s.ws \/ now = <<>>
Editing(s, m, u) == AtLeast(RoleIn(m, s.ws, u), "editor")

CalmMade(f, s, h, a, m, u) ==
    LET ok == f.ans.how = "ok" IN
    /\ f.kind = "createWs" /\ f.call \notin {"makeWs", "workspaces"} => Editing(s, m, u)
    /\ f.call = "make" => f.ws = s.ws /\ (ok => Good(f.ans.val, s, h, a) /\ Editing(s, m, u))
    /\ f.call = "tracks" => f.ws = s.ws /\ Good(f.pj, s, h, a) /\ Editing(s, m, u)
    /\ f.call = "projects" /\ f.kind \in {"create", "createWs"} => Good(f.pj, s, h, a)
CalmShown(f, s, now, h, a, e, m, u) ==
    LET ok == f.ans.how = "ok" IN
    /\ f.kind = "boot" /\ f.call = "workspaces" => ListTrue(s, now)
    /\ f.call = "projects" =>
         /\ f.ws = s.ws /\ s.ws # None /\ (ok => f.ans.val = now)
         /\ f.kind \in {"select", "update"} => ShownTrue(s, h, a, e, m, u)
         /\ f.kind = "update" => s.id \in Projects /\ h[s.id] = s.ws
    /\ f.call = "get" => Showable(f.pj, s, now, h, a, m, u) /\ ListTrue(s, now) /\ (ok => f.ans.val = e[f.pj])
CalmDone(f, s, now, h, a, e, m, u) ==
    LET ok == f.ans.how = "ok" IN
    /\ f.call \notin {"make", "archive", "track", "patch"} \/ f.kind = "createWs" => f.ans.how \in {"no", "ok"}
    /\ (f.call = "make" /\ f.kind = "create" /\ ~ok) \/ (f.call = "archive" /\ ~ok)
         \/ f.call = "track" \/ (f.call = "patch" /\ ~ok) => Rest(s, now, h, a, e, m, u)
    /\ f.call = "archive" => s.ws # None
    /\ f.call = "track" => f.pj = s.id
    /\ f.call = "patch" =>
         /\ f.ws = s.ws /\ s.ws # None /\ f.pj = s.id /\ h[f.pj] = s.ws
         /\ ok => f.pj \notin a /\ RoleIn(m, h[f.pj], u) # None /\ f.ans.val = e[f.pj]
CalmStage(f, s, now, h, a, e, m, u) ==
    CalmMade(f, s, h, a, m, u) /\ CalmShown(f, s, now, h, a, e, m, u) /\ CalmDone(f, s, now, h, a, e, m, u)

CalmInv ==
    Calm => /\ Belongs(store, member, user)
            /\ Quiet => Rest(store, ListOf(store.ws), home, archived, edits, member, user)
            /\ \A i \in Slots : flow[i].kind # "no" =>
                 CalmStage(flow[i], store, ListOf(store.ws), home, archived, edits, member, user)

\* A calm tab has one user, and one flow at a time.
LEMMA CalmAlone ==
    ASSUME NavInv, Calm
    PROVE  /\ OneByOne /\ ~May("net") /\ ~May("rivals") /\ ~May("users") /\ ~May("overlap")
           /\ user \in Users /\ user # None
           /\ \A i \in Slots : flow[i].kind # "no" =>
                /\ flow[i].alone /\ flow[i].by = user
                /\ (flow[i].kind = "boot" => flow[i].live)
                /\ \A j \in Slots : j # i => flow[j].kind = "no"
<1>1. ~May("net") /\ ~May("rivals") /\ ~May("users") /\ ~May("overlap")
  BY DEF Calm, May
<1>2. user \in Users /\ user # None
  BY <1>1, NavNames DEF NavInv, NavShape
<1>3. OneByOne
  BY <1>1 DEF OneByOne
<1> QED
  BY <1>1, <1>2, <1>3, OnlyOne DEF NavInv, SoloInv

\* What a calm flow has to be when it goes on.
LEMMA CalmGoes ==
    ASSUME NEW i \in Slots, flow'[i].kind # "no", \A j \in Slots \ {i} : flow'[j].kind = "no",
           Belongs(store', member', user'),
           CalmStage(flow'[i], store', ListOf(store.ws)', home', archived', edits', member', user')
    PROVE  CalmInv'
<1>1. ~Quiet'
  BY DEF Quiet
<1> QED
  BY <1>1 DEF CalmInv

\* ... and what is shown when it is over.
LEMMA CalmStops ==
    ASSUME NEW i \in Slots, flow'[i].kind = "no", \A j \in Slots \ {i} : flow'[j].kind = "no",
           Belongs(store', member', user'),
           Rest(store', ListOf(store.ws)', home', archived', edits', member', user')
    PROVE  CalmInv'
  BY DEF CalmInv

\* The projects of a list are there, and of one workspace.
LEMMA ListIs ==
    ASSUME TablesOK, NEW w
    PROVE  ListOf(w) \in Seq({p \in Projects : home[p] = w /\ p \notin archived})
<1> DEFINE S == {p \in Projects : home[p] = w /\ p \notin archived}
<1>1. Sift(recent, S) \in Seq(Projects \cap S)
  BY SiftKeeps DEF TablesOK
<1>2. Projects \cap S = S
  OBVIOUS
<1> HIDE DEF S
<1>3. Sift(recent, S) \in Seq(S)
  BY <1>1, <1>2
<1> QED
  BY <1>3 DEF ListOf, S

\* ... and what a flow is when it begins.
LEMMA CalmStarts ==
    ASSUME NavInv, CalmInv, Calm, Quiet, NEW i \in Slots, NEW kind \in Kinds, NEW call, NEW ws, NEW pj,
           Starts(i, kind, call, ws, pj), Belongs(store', member, user),
           \A g : Becomes(g, kind, call, ws, pj, user, kind = "boot", Quiet, "no", None) =>
             CalmStage(g, store', ListOf(store'.ws), home, archived, edits, member, user)
    PROVE  CalmInv'
<1>1. /\ home' = home /\ archived' = archived /\ recent' = recent /\ edits' = edits
      /\ member' = member /\ user' = user
  BY DEF Starts, server
<1>2. ListOf(store.ws)' = ListOf(store'.ws)
  BY <1>1 DEF ListOf
<1>3. Becomes(flow'[i], kind, call, ws, pj, user, kind = "boot", Quiet, "no", None)
  BY DEF Starts
<1>4. CalmStage(flow'[i], store', ListOf(store'.ws), home, archived, edits, member, user)
  BY <1>3
<1>5. flow'[i].kind # "no"
  BY <1>3 DEF Becomes, Kinds
<1>6. \A j \in Slots \ {i} : flow'[j].kind = "no"
  BY DEF Starts, Becomes, Quiet
<1> QED
  BY <1>1, <1>2, <1>4, <1>5, <1>6, CalmGoes

\* When a start is due and the tab is calm nothing is on its way.
LEMMA CalmQuiet ==
    ASSUME NavInv, Calm, BootDue
    PROVE  Quiet
<1>1. ASSUME NEW i \in Slots, flow[i].kind # "no"
      PROVE  FALSE
  BY <1>1, CalmAlone DEF BootDue, NavInv, SoloInv
<1> QED
  BY <1>1 DEF Quiet

\* A start keeps CalmInv.
LEMMA CalmBoot ==
    ASSUME NavInv, CalmInv, NEW i \in Slots, Starts(i, "boot", "workspaces", None, None),
           BootDue, store' = store
    PROVE  CalmInv'
<1>1. faults' = faults
  BY DEF Starts
<1>2. CASE ~Calm
  BY <1>1, <1>2 DEF CalmInv, Calm
<1>3. CASE Calm
  <2>1. Quiet
    BY <1>3, CalmQuiet
  <2>2. /\ Belongs(store, member, user)
        /\ ListTrue(store, ListOf(store.ws))
    BY <1>3, <2>1 DEF CalmInv, Rest
  <2>3. ASSUME NEW g, Becomes(g, "boot", "workspaces", None, None, user, TRUE, Quiet, "no", None)
        PROVE  CalmStage(g, store', ListOf(store'.ws), home, archived, edits, member, user)
    <3>1. g.kind = "boot" /\ g.call = "workspaces" /\ g.ans.how = "no"
      BY <2>3 DEF Becomes
    <3> QED
      BY <3>1, <2>2 DEF CalmStage, CalmMade, CalmShown, CalmDone
  <2>4. Belongs(store', member, user)
    BY <2>2
  <2>5. "boot" \in Kinds /\ ("boot" = "boot") = TRUE
    BY DEF Kinds
  <2> QED
    BY <1>3, <2>1, <2>3, <2>4, <2>5, CalmStarts
<1> QED
  BY <1>2, <1>3

\* The flow that a click begins, when all was as it should be.
LEMMA CalmFirst ==
    ASSUME NavShape, NEW g, NEW s, NEW now, Rest(store, ListOf(store.ws), home, archived, edits, member, user),
           Belongs(store, member, user), now = ListOf(s.ws), g.ans.how = "no",
           s.id = store.id, s.of = store.of, s.edits = store.edits, s.list = store.list,
           \/ g.kind = "select" /\ g.call = "projects" /\ g.ws = s.ws /\ s.ws # None
           \/ s = store /\ g.kind = "createWs" /\ g.call = "makeWs"
           \/ s = store /\ g.kind = "create" /\ g.call = "make" /\ g.ws = s.ws
           \/ /\ s = store /\ \E k \in 1 .. Len(store.list) : store.list[k] = g.pj
              /\ \/ g.kind = "open" /\ g.call = "get"
                 \/ g.kind = "archive" /\ g.call = "archive"
                 \/ g.kind = "update" /\ g.call = "patch" /\ g.ws = s.ws /\ g.pj = s.id
           \/ s = store /\ g.kind = "track" /\ g.call = "track" /\ g.pj = s.id
    PROVE  CalmStage(g, s, now, home, archived, edits, member, user)
<1>1. CASE g.kind = "select" /\ g.call = "projects" /\ g.ws = s.ws /\ s.ws # None
  <2>1. ShownTrue(s, home, archived, edits, member, user)
    BY <1>1 DEF Rest, ShownTrue
  <2> QED
    BY <1>1, <2>1 DEF CalmStage, CalmMade, CalmShown, CalmDone
<1>2. CASE s = store /\ g.kind = "createWs" /\ g.call = "makeWs"
  BY <1>2 DEF CalmStage, CalmMade, CalmShown, CalmDone
<1>3. CASE s = store /\ g.kind = "create" /\ g.call = "make" /\ g.ws = s.ws
  BY <1>3 DEF CalmStage, CalmMade, CalmShown, CalmDone
<1>4. CASE s = store /\ g.kind = "track" /\ g.call = "track" /\ g.pj = s.id
  BY <1>4 DEF CalmStage, CalmMade, CalmShown, CalmDone
<1>5. ASSUME s = store, NEW k \in 1 .. Len(store.list), store.list[k] = g.pj
      PROVE  s.ws # None /\ g.pj \in Projects \ archived /\ home[g.pj] = s.ws /\ ListTrue(s, now)
  <2>1. ListTrue(s, now)
    BY <1>5 DEF Rest
  <2>2. CASE s.ws = None
    BY <1>5, <2>1, <2>2 DEF ListTrue
  <2>3. CASE s.ws # None
    <3>1. store.list = ListOf(s.ws)
      BY <1>5, <2>1, <2>3 DEF ListTrue
    <3>2. k \in 1 .. Len(ListOf(s.ws))
      BY <3>1, <1>5
    <3>3. ListOf(s.ws)[k] \in Projects \ archived /\ home[ListOf(s.ws)[k]] = s.ws
      BY <3>2, ListHolds DEF NavShape
    <3> QED
      BY <1>5, <2>1, <2>3, <3>1, <3>3
  <2> QED
    BY <2>2, <2>3
<1>6. CASE /\ s = store /\ \E k \in 1 .. Len(store.list) : store.list[k] = g.pj
           /\ \/ g.kind = "open" /\ g.call = "get"
              \/ g.kind = "archive" /\ g.call = "archive"
              \/ g.kind = "update" /\ g.call = "patch" /\ g.ws = s.ws /\ g.pj = s.id
  <2>1. s.ws # None /\ g.pj \in Projects /\ g.pj \notin archived /\ home[g.pj] = s.ws /\ ListTrue(s, now)
    BY <1>5, <1>6
  <2>2. CASE g.kind = "open" /\ g.call = "get"
    <3>1. RoleIn(member, home[g.pj], user) # None
      BY <2>1, <1>6 DEF Belongs
    <3>2. Showable(g.pj, s, now, home, archived, member, user)
      BY <2>1, <3>1 DEF Showable
    <3> QED
      BY <2>1, <2>2, <3>2 DEF CalmStage, CalmMade, CalmShown, CalmDone
  <2>3. CASE g.kind = "archive" /\ g.call = "archive"
    BY <2>1, <2>3, <1>6 DEF CalmStage, CalmMade, CalmShown, CalmDone
  <2>4. CASE g.kind = "update" /\ g.call = "patch" /\ g.ws = s.ws /\ g.pj = s.id
    BY <2>1, <2>4, <1>6 DEF CalmStage, CalmMade, CalmShown, CalmDone
  <2> QED
    BY <1>6, <2>2, <2>3, <2>4
<1> QED
  BY <1>1, <1>2, <1>3, <1>4, <1>6

\* A click keeps CalmInv.
LEMMA CalmClick ==
    ASSUME NavInv, CalmInv, NEW i \in Slots, ClickForm(i)
    PROVE  CalmInv'
<1>1. faults' = faults
  BY DEF ClickForm, Starts
<1>2. CASE ~Calm
  BY <1>1, <1>2 DEF CalmInv, Calm
<1>3. CASE Calm
  <2>1. Quiet
    BY <1>3, CalmAlone DEF ClickForm, Starts
  <2>2. NavShape /\ MineTrue /\ ~May("rivals") /\ ~May("users")
    BY <1>3, CalmAlone DEF NavInv
  <2>3. /\ Rest(store, ListOf(store.ws), home, archived, edits, member, user)
        /\ Belongs(store, member, user)
    BY <1>3, <2>1 DEF CalmInv
  <2>4. ASSUME NEW k \in 1 .. Len(store.spaces),
               Starts(i, "select", "projects", store.spaces[k].id, None),
               Keeps(store.spaces[k].id, store.spaces[k].role, store.spaces, store.list)
        PROVE  CalmInv'
    <3> DEFINE w == store.spaces[k].id
    <3>1. store.spaces[k] \in Space
      <4>1. store.spaces \in Seq(Space)
        BY <2>2 DEF NavShape, StoreOK, Stores
      <4> QED
        BY <2>4, <4>1, ElementOfSeq
    <3>2. w \in Workspaces /\ w # None /\ store.spaces[k].role \in Roles /\ store.spaces[k].role # None
      BY <3>1, NavNames DEF Space
    <3>3. member[w][user] = store.spaces[k].role
      BY <2>2, <2>4 DEF MineTrue, TrueFor
    <3>4. /\ store'.ws = w /\ store'.id = store.id /\ store'.of = store.of /\ store'.edits = store.edits
          /\ store'.list = store.list
      BY <2>4 DEF Keeps, Holds
    <3> HIDE DEF w
    <3>5. user # None
      BY <1>3, CalmAlone
    <3>6. Belongs(store', member, user)
      BY <3>2, <3>3, <3>4, <3>5 DEF Belongs, RoleIn
    <3>7. ASSUME NEW g, Becomes(g, "select", "projects", w, None, user, "select" = "boot", Quiet, "no", None)
          PROVE  CalmStage(g, store', ListOf(store'.ws), home, archived, edits, member, user)
      <4>1. g.kind = "select" /\ g.call = "projects" /\ g.ws = w /\ g.ans.how = "no"
        BY <3>7 DEF Becomes
      <4>2. g.ws = store'.ws /\ store'.ws # None
        BY <4>1, <3>2, <3>4
      <4> QED
        BY <4>1, <4>2, <3>4, <2>2, <2>3, CalmFirst
    <3>8. "select" \in Kinds /\ Starts(i, "select", "projects", w, None)
      BY <2>4 DEF Kinds, w
    <3> QED
      BY <1>3, <2>1, <3>6, <3>7, <3>8, CalmStarts
  <2>5. ASSUME NEW kind \in Kinds, NEW call, NEW ws, NEW pj, Starts(i, kind, call, ws, pj), Stays,
               \/ kind = "createWs" /\ call = "makeWs"
               \/ kind = "create" /\ call = "make" /\ ws = store.ws
               \/ /\ \E k \in 1 .. Len(store.list) : store.list[k] = pj
                  /\ \/ kind = "open" /\ call = "get"
                     \/ kind = "archive" /\ call = "archive"
                     \/ kind = "update" /\ call = "patch" /\ ws = store.ws /\ pj = store.id
               \/ kind = "track" /\ call = "track" /\ pj = store.id
        PROVE  CalmInv'
    <3>1. store' = store
      BY <2>5 DEF Stays
    <3>2. Belongs(store', member, user)
      BY <2>3, <3>1
    <3>3. ASSUME NEW g, Becomes(g, kind, call, ws, pj, user, kind = "boot", Quiet, "no", None)
          PROVE  CalmStage(g, store', ListOf(store'.ws), home, archived, edits, member, user)
      <4>1. g.kind = kind /\ g.call = call /\ g.ws = ws /\ g.pj = pj /\ g.ans.how = "no"
        BY <3>3 DEF Becomes
      <4>2. CalmStage(g, store, ListOf(store.ws), home, archived, edits, member, user)
        BY <4>1, <2>2, <2>3, <2>5, CalmFirst
      <4> QED
        BY <4>2, <3>1
    <3> QED
      BY <1>3, <2>1, <2>5, <3>2, <3>3, CalmStarts
  <2>6. {"open", "create", "createWs", "archive", "track", "update"} \subseteq Kinds
    BY DEF Kinds
  <2> QED
    BY <2>4, <2>5, <2>6 DEF ClickForm
<1> QED
  BY <1>2, <1>3

\* A role of a user is one, or none.
LEMMA RoleIs ==
    ASSUME KeptInv, NEW u \in Users, NEW w \in Workspaces
    PROVE  RoleIn(member, w, u) \in Roles \cup {None} /\ RoleIn(member, w, u) = RoleOf(w, u)
  BY NavNames DEF KeptInv, Tables, RoleIn, RoleOf

\* What the calls of a calm tab may not be refused.
LEMMA CalmGranted ==
    ASSUME KeptInv, NavInv, CalmInv, Calm, NEW i \in Slots, flow[i].kind # "no",
           \/ flow[i].call \in {"projects", "get", "tracks"}
           \/ flow[i].call = "make" /\ flow[i].kind = "createWs"
    PROVE  Allowed(flow[i])
<1> DEFINE f == flow[i]
<1>1. /\ CalmStage(f, store, ListOf(store.ws), home, archived, edits, member, user)
      /\ Belongs(store, member, user)
  BY DEF CalmInv
<1>2. f.by = user /\ user \in Users /\ user # None
  BY CalmAlone
<1>3. store.ws \in Workspaces \cup {None} /\ home \in [Projects -> Workspaces \cup {None}]
  BY DEF NavInv, NavShape, StoreOK, Stores, TablesOK
<1> SUFFICES Allowed(f)
  OBVIOUS
<1>0. flow[i].kind # "no" /\ (f.call \in {"projects", "get", "tracks"} \/ (f.call = "make" /\ f.kind = "createWs"))
  OBVIOUS
<1> HIDE DEF f
<1>4. CASE f.call = "projects"
  <2>1. f.ws = store.ws /\ store.ws # None
    BY <1>1, <1>4 DEF CalmStage, CalmShown
  <2>2. RoleOf(f.ws, f.by) \in Roles
    BY <1>1, <1>2, <1>3, <2>1, RoleIs DEF Belongs
  <2>3. Needs(f.call) = "viewer" /\ AtLeast(RoleOf(f.ws, f.by), "viewer")
    BY <1>4, <2>2 DEF Needs, AtLeast
  <2> QED
    BY <1>4, <2>3 DEF Allowed, Grants
<1>5. CASE f.call = "get"
  <2>1. f.pj \in Projects /\ f.pj \notin archived /\ RoleIn(member, home[f.pj], user) # None
    BY <1>1, <1>5 DEF CalmStage, CalmShown, Showable
  <2>2. home[f.pj] \in Workspaces
    BY <1>3, <2>1 DEF RoleIn
  <2>3. RoleOf(home[f.pj], f.by) \in Roles
    BY <1>2, <2>1, <2>2, RoleIs
  <2>4. Needs(f.call) = "viewer" /\ AtLeast(RoleOf(home[f.pj], f.by), "viewer")
    BY <1>5, <2>3 DEF Needs, AtLeast
  <2> QED
    BY <1>5, <2>1, <2>4 DEF Allowed, Grants
<1>6. CASE f.call = "tracks"
  <2>1. f.pj \in Projects /\ f.pj \notin archived /\ home[f.pj] = store.ws /\ Editing(store, member, user)
    BY <1>1, <1>6 DEF CalmStage, CalmMade, Good
  <2>2. AtLeast(RoleOf(home[f.pj], f.by), "editor")
    BY <1>2, <2>1 DEF Editing, RoleIn, RoleOf
  <2>3. Needs(f.call) = "editor"
    BY <1>6 DEF Needs
  <2> QED
    BY <1>6, <2>1, <2>2, <2>3 DEF Allowed, Grants
<1>7. CASE f.call = "make" /\ f.kind = "createWs"
  <2>1. f.ws = store.ws /\ Editing(store, member, user)
    BY <1>1, <1>7 DEF CalmStage, CalmMade
  <2>2. AtLeast(RoleOf(f.ws, f.by), "editor")
    BY <1>2, <2>1 DEF Editing, RoleIn, RoleOf
  <2>3. Needs(f.call) = "editor"
    BY <1>7 DEF Needs
  <2> QED
    BY <1>7, <2>2, <2>3 DEF Allowed, Grants
<1> QED
  BY <1>0, <1>4, <1>5, <1>6, <1>7

\* A call that is served, or refused, keeps CalmInv.
LEMMA CalmServe ==
    ASSUME KeptInv, NavInv, CalmInv, NEW i \in Slots, NEW how, NEW val, ServeForm(i, flow[i], how, val)
    PROVE  CalmInv'
<1> DEFINE f == flow[i]
           g == flow'[i]
           now == ListOf(store.ws)
<1>1. /\ faults' = faults /\ user' = user /\ store' = store
      /\ f.kind # "no" /\ f.ans.how = "no" /\ Told(i, how, val)
  BY DEF ServeForm
<1>2. CASE ~Calm
  BY <1>1, <1>2 DEF CalmInv, Calm
<1>3. CASE Calm
  <2>1. /\ ~May("net") /\ ~May("rivals") /\ ~May("users") /\ user \in Users /\ user # None
        /\ f.by = user /\ \A j \in Slots : j # i => flow[j].kind = "no"
    BY <1>1, <1>3, CalmAlone
  <2>2. /\ CalmStage(f, store, now, home, archived, edits, member, user)
        /\ Belongs(store, member, user)
    BY <1>1, <1>3 DEF CalmInv
  <2>3. /\ g.kind = f.kind /\ g.call = f.call /\ g.ws = f.ws /\ g.pj = f.pj /\ g.ans.how = how /\ g.ans.val = val
        /\ \A j \in Slots \ {i} : flow'[j].kind = "no"
    BY <1>1, <2>1 DEF Told, Becomes
  <2>4. f.call \in CallsOf(f.kind) /\ f.kind \in Kinds /\ (f.kind = "create" /\ f.call = "make" => f.ws \in Workspaces)
        /\ (f.kind = "createWs" /\ f.call # "makeWs" => f.ws \in Workspaces)
        /\ (f.call \in {"patch", "get", "tracks"} => f.pj \in Projects)
    BY <1>1 DEF NavInv, NavShape, FlowsOK, FlowOK, OfWorkspace, OfProject
  <2>5. TablesOK
    BY DEF NavInv, NavShape
  <2>6. ASSUME Belongs(store, member', user),
               CalmStage(g, store, ListOf(store.ws)', home', archived', edits', member', user)
        PROVE  CalmInv'
    BY <1>1, <2>3, <2>6, CalmGoes
  <2>7. SUFFICES /\ Belongs(store, member', user)
                 /\ CalmStage(g, store, ListOf(store.ws)', home', archived', edits', member', user)
    BY <2>6
  <2>8. f.call \in {"projects", "get", "tracks"} \/ (f.call = "make" /\ f.kind = "createWs") => Allowed(f)
    BY <1>1, <1>3, CalmGranted
  <2>9. ASSUME UNCHANGED server
        PROVE  /\ Belongs(store, member', user)
               /\ CalmStage(f, store, ListOf(store.ws)', home', archived', edits', member', user)
    BY <2>2, <2>9, <1>1 DEF server, ListOf
  <2>10. ServeForm(i, f, how, val)
    OBVIOUS
  <2>11. RefusedForm(f, how) => how = "failed" /\ UNCHANGED server /\ ~Spaced(f) /\ ~Allowed(f)
    BY <2>1 DEF RefusedForm
  <2> HIDE DEF f, g, now
  <2>12. CASE RefusedForm(f, how)
    <3>1. how = "failed" /\ UNCHANGED server /\ f.call \in {"make", "archive", "track", "patch"} /\ f.kind # "createWs"
      BY <2>4, <2>8, <2>11, <2>12 DEF CallsOf, Kinds, Spaced
    <3>2. CalmStage(f, store, ListOf(store.ws)', home', archived', edits', member', user) /\ Belongs(store, member', user)
      BY <2>9, <3>1
    <3>3. CalmStage(g, store, ListOf(store.ws)', home', archived', edits', member', user)
      BY <1>1, <2>3, <2>4, <3>1, <3>2 DEF CalmStage, CalmMade, CalmShown, CalmDone
    <3> QED
      BY <3>2, <3>3
  <2>13. CASE f.call \in {"workspaces", "tracks", "track"} /\ how = "ok" /\ UNCHANGED server
    <3>1. CalmStage(f, store, ListOf(store.ws)', home', archived', edits', member', user) /\ Belongs(store, member', user)
      BY <2>9, <2>13
    <3>2. CalmStage(g, store, ListOf(store.ws)', home', archived', edits', member', user)
      BY <1>1, <2>3, <2>4, <2>13, <3>1 DEF CalmStage, CalmMade, CalmShown, CalmDone
    <3> QED
      BY <3>1, <3>2
  <2>14. CASE f.call = "projects" /\ how = "ok" /\ val = ListOf(f.ws) /\ UNCHANGED server
    <3>1. CalmStage(f, store, ListOf(store.ws)', home', archived', edits', member', user) /\ Belongs(store, member', user)
      BY <2>9, <2>14
    <3>2. val = ListOf(store.ws)'
      <4>1. f.ws = store.ws
        BY <2>2, <2>14 DEF CalmStage, CalmShown
      <4> QED
        BY <1>1, <2>14, <4>1 DEF ListOf, server
    <3>3. CalmStage(g, store, ListOf(store.ws)', home', archived', edits', member', user)
      BY <1>1, <2>3, <2>4, <2>14, <3>1, <3>2 DEF CalmStage, CalmMade, CalmShown, CalmDone
    <3> QED
      BY <3>1, <3>3
  <2>15. CASE f.call = "get" /\ how = "ok" /\ val = edits[f.pj] /\ UNCHANGED server
    <3>1. CalmStage(f, store, ListOf(store.ws)', home', archived', edits', member', user) /\ Belongs(store, member', user)
      BY <2>9, <2>15
    <3>2. val = edits'[f.pj]
      BY <2>15 DEF server
    <3>3. CalmStage(g, store, ListOf(store.ws)', home', archived', edits', member', user)
      BY <1>1, <2>3, <2>4, <2>15, <3>1, <3>2 DEF CalmStage, CalmMade, CalmShown, CalmDone
    <3> QED
      BY <3>1, <3>3
  <2>16. CASE f.call = "makeWs" /\ MadeWs(f, how, val)
    <3>1. PICK w \in Workspaces : /\ ~InUse(w, spaces) /\ spaces' = Append(spaces, w)
                                  /\ member' = [member EXCEPT ![w][f.by] = "owner"]
                                  /\ Does(f, how, val, w) /\ UNCHANGED <<home, archived, recent, edits>>
      BY <2>16 DEF MadeWs
    <3>2. how = "ok"
      BY <2>1, <3>1 DEF Does
    <3>3. member \in [Workspaces -> [Users -> Roles \cup {None}]] /\ "owner" # None
      BY NavNames DEF KeptInv, Tables, Roles
    <3>4. \A v \in Workspaces : RoleIn(member', v, user) # None \/ RoleIn(member', v, user) = RoleIn(member, v, user)
      BY <2>1, <3>1, <3>3 DEF RoleIn
    <3>5. store.ws \in Workspaces \cup {None}
      BY DEF NavInv, NavShape, StoreOK, Stores
    <3>6. Belongs(store, member', user)
      BY <2>2, <3>4, <3>5 DEF Belongs
    <3>7. CalmStage(g, store, ListOf(store.ws)', home', archived', edits', member', user)
      BY <2>3, <2>4, <2>16, <3>2 DEF CalmStage, CalmMade, CalmShown, CalmDone, CallsOf, Kinds
    <3> QED
      BY <3>6, <3>7
  <2>17. CASE f.call = "make" /\ MadeForm(f, how, val) /\ Allowed(f)
    <3>1. /\ home' = [home EXCEPT ![Makable] = f.ws] /\ how = "ok" /\ val = Makable
          /\ member' = member /\ archived' = archived /\ edits' = edits
      BY <2>1, <2>17 DEF MadeForm, Does
    <3>2. f.kind \in {"create", "createWs"} /\ f.ws \in Workspaces /\ f.ws # None
      BY <2>4, <2>17, NavNames DEF CallsOf, Kinds
    <3>3. Makable \in Projects /\ home[Makable] = None
      <4>1. \E p \in Projects : home[p] = None
        BY <1>1, <2>17, <3>2 DEF NavInv, MakeInv, Makes, Unmade, f
      <4> QED
        BY <4>1 DEF Makable
    <3>4. Makable \notin archived /\ home'[Makable] = f.ws
      BY <2>5, <3>1, <3>3 DEF TablesOK
    <3>5. f.ws = store.ws
      BY <2>2, <2>17 DEF CalmStage, CalmMade
    <3>6. Editing(store, member, user)
      BY <2>1, <2>17, <3>5 DEF Allowed, Needs, Grants, Editing, RoleOf, RoleIn
    <3>7. Good(val, store, home', archived')
      BY <3>1, <3>2, <3>3, <3>4, <3>5 DEF Good
    <3>8. CalmStage(g, store, ListOf(store.ws)', home', archived', edits', member', user)
      BY <2>3, <2>17, <3>1, <3>2, <3>5, <3>6, <3>7 DEF CalmStage, CalmMade, CalmShown, CalmDone
    <3> QED
      BY <2>2, <3>1, <3>8
  <2>18. CASE f.call = "patch" /\ PatchedForm(f, how, val) /\ Allowed(f)
    <3>1. /\ edits' = [edits EXCEPT ![f.pj] = @ + 1] /\ how = "ok" /\ val = edits[f.pj] + 1
          /\ member' = member /\ archived' = archived /\ home' = home
      BY <2>1, <2>18 DEF PatchedForm, Does
    <3>2. f.kind = "update" /\ f.pj \in Projects
      BY <2>4, <2>18 DEF CallsOf, Kinds
    <3>3. val = edits'[f.pj]
      BY <2>5, <3>1, <3>2 DEF TablesOK
    <3>4. f.pj \notin archived /\ RoleIn(member, home[f.pj], user) # None
      BY <2>1, <2>18, <3>2, NavNames DEF Allowed, Needs, Grants, AtLeast, RoleOf, RoleIn, Roles
    <3>5. f.ws = store.ws /\ store.ws # None /\ f.pj = store.id /\ home[f.pj] = store.ws
      BY <2>2, <2>18 DEF CalmStage, CalmDone
    <3>6. CalmStage(g, store, ListOf(store.ws)', home', archived', edits', member', user)
      BY <2>3, <2>18, <3>1, <3>2, <3>3, <3>4, <3>5 DEF CalmStage, CalmMade, CalmShown, CalmDone
    <3> QED
      BY <2>2, <3>1, <3>6
  <2>19. CASE f.call = "archive" /\ ArchivedForm(f, how, val)
    <3>1. how = "ok" /\ member' = member /\ home' = home
      BY <2>1, <2>19 DEF ArchivedForm, Does
    <3>2. f.kind = "archive"
      BY <2>4, <2>19 DEF CallsOf, Kinds
    <3>3. store.ws # None
      BY <2>2, <2>19 DEF CalmStage, CalmDone
    <3>4. CalmStage(g, store, ListOf(store.ws)', home', archived', edits', member', user)
      BY <2>3, <2>19, <3>1, <3>2, <3>3 DEF CalmStage, CalmMade, CalmShown, CalmDone
    <3> QED
      BY <2>2, <3>1, <3>4
  <2> QED
    BY <2>1, <2>10, <2>12, <2>13, <2>14, <2>15, <2>16, <2>17, <2>18, <2>19 DEF ServeForm, Does
<1> QED
  BY <1>2, <1>3

\* A calm flow goes on.
LEMMA CalmOn ==
    ASSUME NavInv, Calm, NEW i \in Slots, flow[i].kind # "no", NEW call, NEW ws, NEW pj,
           GoesOn(i, call, ws, pj), UNCHANGED <<server, user>>, Belongs(store', member, user),
           \A g : (g.kind = flow[i].kind /\ g.call = call /\ g.ws = ws /\ g.pj = pj /\ g.ans.how = "no")
             => CalmStage(g, store', ListOf(store'.ws), home, archived, edits, member, user)
    PROVE  CalmInv'
<1>1. /\ home' = home /\ archived' = archived /\ edits' = edits /\ recent' = recent
      /\ member' = member /\ user' = user
  BY DEF server
<1>2. ListOf(store.ws)' = ListOf(store'.ws)
  BY <1>1 DEF ListOf
<1>3. flow'[i].kind = flow[i].kind /\ flow'[i].call = call /\ flow'[i].ws = ws /\ flow'[i].pj = pj
      /\ flow'[i].ans.how = "no"
  BY DEF GoesOn, Becomes
<1>4. \A j \in Slots \ {i} : flow'[j].kind = "no"
  BY CalmAlone DEF GoesOn
<1>5. CalmStage(flow'[i], store', ListOf(store'.ws), home, archived, edits, member, user)
  BY <1>3
<1> QED
  BY <1>1, <1>2, <1>3, <1>4, <1>5, CalmGoes

\* A calm flow is over.
LEMMA CalmOver ==
    ASSUME NavInv, Calm, NEW i \in Slots, flow[i].kind # "no", Stops(i), UNCHANGED <<server, user>>,
           Belongs(store', member, user),
           Rest(store', ListOf(store'.ws), home, archived, edits, member, user)
    PROVE  CalmInv'
<1>1. /\ home' = home /\ archived' = archived /\ edits' = edits /\ recent' = recent
      /\ member' = member /\ user' = user
  BY DEF server
<1>2. ListOf(store.ws)' = ListOf(store'.ws)
  BY <1>1 DEF ListOf
<1>3. flow'[i].kind = "no" /\ \A j \in Slots \ {i} : flow'[j].kind = "no"
  BY CalmAlone DEF Stops, Becomes
<1> QED
  BY <1>1, <1>2, <1>3, CalmStops

\* The workspaces of a calm tab come.
LEMMA CalmSpaces ==
    ASSUME KeptInv, NavInv, CalmInv, Calm, NEW i \in Slots, flow[i].kind # "no", flow[i].call = "workspaces",
           flow[i].ans.how = "ok", SpacesForm(i, flow[i], flow[i].ans.val), UNCHANGED <<server, user>>
    PROVE  CalmInv'
<1> DEFINE f == flow[i]
           got == f.ans.val
           now == ListOf(store.ws)
<1>1. /\ ~May("rivals") /\ ~May("users") /\ user \in Users /\ user # None
      /\ f.by = user /\ f.alone /\ (f.kind = "boot" => f.live)
  BY CalmAlone
<1>2. CalmStage(f, store, now, home, archived, edits, member, user) /\ Belongs(store, member, user)
  BY DEF CalmInv
<1>3. got \in Seq(Space) /\ f.ws \in Workspaces \cup {None} /\ (f.kind = "createWs" => f.ws \in Workspaces)
  BY DEF NavInv, NavShape, FlowsOK, FlowOK, AnswerOK, OfWorkspace
<1>4. TrueFor(user, got, member)
  BY <1>1 DEF NavInv, ToldTrue
<1>5. f.kind = "createWs" => member[f.ws][user] = "owner"
  BY <1>1 DEF NavInv, AloneInv, Fresh, Ranked
<1>6. SpacesForm(i, f, got)
  OBVIOUS
<1>7. ASSUME NEW call, NEW ws, NEW pj, GoesOn(i, call, ws, pj), Belongs(store', member, user),
             \A g : (g.kind = f.kind /\ g.call = call /\ g.ws = ws /\ g.pj = pj /\ g.ans.how = "no")
               => CalmStage(g, store', ListOf(store'.ws), home, archived, edits, member, user)
      PROVE  CalmInv'
  BY <1>7, CalmOn
<1>8. f.call = "workspaces" /\ f.ans.how = "ok"
  OBVIOUS
<1> HIDE DEF f, got, now
<1>9. CASE f.kind = "createWs" /\ GoesOn(i, "make", f.ws, f.pj) /\ Keeps(f.ws, "owner", got, <<>>)
  <2>1. store'.ws = f.ws
    BY <1>9 DEF Keeps, Holds
  <2>2. RoleIn(member, store'.ws, user) = "owner"
    BY <1>1, <1>3, <1>5, <1>9, <2>1, NavNames DEF RoleIn
  <2>3. Belongs(store', member, user)
    BY <2>2, NavNames DEF Belongs, Roles
  <2>4. Editing(store', member, user)
    BY <2>2 DEF Editing, AtLeast
  <2>5. ASSUME NEW g, g.kind = f.kind, g.call = "make", g.ws = f.ws, g.pj = f.pj, g.ans.how = "no"
        PROVE  CalmStage(g, store', ListOf(store'.ws), home, archived, edits, member, user)
    BY <1>9, <2>1, <2>4, <2>5 DEF CalmStage, CalmMade, CalmShown, CalmDone
  <2> QED
    BY <1>7, <1>9, <2>3, <2>5
<1>10. CASE f.kind = "boot" /\ Stops(i) /\ ShowsMock(<<>>, store.list)
  <2>1. store'.ws = store.ws /\ store'.list = store.list /\ store'.id = Mock
    BY <1>10 DEF ShowsMock, Holds
  <2>2. ListTrue(store, now)
    BY <1>2, <1>8, <1>10 DEF CalmStage, CalmShown
  <2>3. Rest(store', ListOf(store'.ws), home, archived, edits, member, user)
    BY <2>1, <2>2, NavNames DEF Rest, ListTrue, HomeTrue, ShownTrue, now
  <2>4. Belongs(store', member, user)
    BY <1>2, <2>1 DEF Belongs
  <2> QED
    BY <1>10, <2>3, <2>4, CalmOver
<1>11. CASE /\ f.kind = "boot" /\ got # <<>> /\ GoesOn(i, "projects", got[1].id, f.pj)
            /\ Keeps(got[1].id, got[1].role, got, store.list)
  <2>1. got[1] \in Space /\ 1 \in 1 .. Len(got)
    BY <1>3, <1>11, FirstOf
  <2>2. got[1].role = member[got[1].id][user] /\ got[1].role # None /\ got[1].id # None
    BY <1>4, <2>1, NavNames DEF TrueFor, Space
  <2>3. store'.ws = got[1].id
    BY <1>11 DEF Keeps, Holds
  <2>4. Belongs(store', member, user)
    BY <1>1, <2>2, <2>3 DEF Belongs, RoleIn
  <2>5. ASSUME NEW g, g.kind = f.kind, g.call = "projects", g.ws = got[1].id, g.pj = f.pj, g.ans.how = "no"
        PROVE  CalmStage(g, store', ListOf(store'.ws), home, archived, edits, member, user)
    BY <1>11, <2>2, <2>3, <2>5 DEF CalmStage, CalmMade, CalmShown, CalmDone
  <2> QED
    BY <1>7, <1>11, <2>4, <2>5
<1> QED
  BY <1>1, <1>6, <1>9, <1>10, <1>11 DEF SpacesForm

\* The projects of a calm tab come.
LEMMA CalmProjects ==
    ASSUME KeptInv, NavInv, CalmInv, Calm, NEW i \in Slots, flow[i].kind # "no", flow[i].call = "projects",
           flow[i].ans.how = "ok", ProjectsForm(i, flow[i], flow[i].ans.val), UNCHANGED <<server, user>>
    PROVE  CalmInv'
<1> DEFINE f == flow[i]
           got == f.ans.val
           now == ListOf(store.ws)
<1>1. f.kind = "boot" => f.live
  BY CalmAlone
<1>2. CalmStage(f, store, now, home, archived, edits, member, user) /\ Belongs(store, member, user)
  BY DEF CalmInv
<1>3. TablesOK /\ store.ws \in Workspaces \cup {None}
  BY DEF NavInv, NavShape, StoreOK, Stores
<1>4. ProjectsForm(i, f, got)
  OBVIOUS
<1>5. ASSUME NEW call, NEW ws, NEW pj, GoesOn(i, call, ws, pj), Belongs(store', member, user),
             \A g : (g.kind = f.kind /\ g.call = call /\ g.ws = ws /\ g.pj = pj /\ g.ans.how = "no")
               => CalmStage(g, store', ListOf(store'.ws), home, archived, edits, member, user)
      PROVE  CalmInv'
  BY <1>5, CalmOn
<1>6. f.call = "projects" /\ f.ans.how = "ok" /\ f.kind # "no"
  OBVIOUS
<1>7. now \in Seq({p \in Projects : home[p] = store.ws /\ p \notin archived})
  BY <1>3, ListIs
<1>8. now = ListOf(store.ws) /\ got = f.ans.val
  OBVIOUS
<1>9. ASSUME Stops(i), Belongs(store', member, user),
             Rest(store', ListOf(store'.ws), home, archived, edits, member, user)
      PROVE  CalmInv'
  BY <1>9, CalmOver
<1> HIDE DEF f, got, now
<1>10. f.ws = store.ws /\ store.ws # None /\ got = now
  BY <1>2, <1>6, <1>8 DEF CalmStage, CalmShown
<1>11. /\ f.kind \in {"create", "createWs"} => Good(f.pj, store, home, archived)
       /\ f.kind = "createWs" => Editing(store, member, user)
  BY <1>2, <1>6 DEF CalmStage, CalmMade
<1>12. /\ f.kind \in {"select", "update"} => ShownTrue(store, home, archived, edits, member, user)
       /\ f.kind = "update" => store.id \in Projects /\ home[store.id] = store.ws
  BY <1>2, <1>6 DEF CalmStage, CalmShown
\* One of the workspace is shown next.
<1>13. ASSUME NEW p \in Projects, p \notin archived, home[p] = store.ws,
              GoesOn(i, "get", f.ws, p), Listed(got)
       PROVE  CalmInv'
  <2>1. store'.ws = store.ws /\ store'.list = now
    BY <1>10, <1>13 DEF Listed, Keeps, Holds
  <2>2. Belongs(store', member, user)
    BY <1>2, <2>1 DEF Belongs
  <2>3. RoleIn(member, home[p], user) # None
    BY <1>2, <1>10, <1>13 DEF Belongs
  <2>4. Showable(p, store', ListOf(store'.ws), home, archived, member, user) /\ ListTrue(store', ListOf(store'.ws))
    BY <1>8, <1>10, <1>13, <2>1, <2>3 DEF Showable, ListTrue
  <2>5. ASSUME NEW g, g.kind = f.kind, g.call = "get", g.ws = f.ws, g.pj = p, g.ans.how = "no"
        PROVE  CalmStage(g, store', ListOf(store'.ws), home, archived, edits, member, user)
    BY <1>11, <2>1, <2>4, <2>5 DEF CalmStage, CalmMade, CalmShown, CalmDone, Editing
  <2> QED
    BY <1>5, <1>13, <2>2, <2>5
<1>14. CASE /\ f.kind = "archive" /\ Sift(got, Projects \ {f.pj}) # <<>>
            /\ GoesOn(i, "get", f.ws, Sift(got, Projects \ {f.pj})[1]) /\ Listed(got)
  <2> DEFINE T == {p \in Projects : home[p] = store.ws /\ p \notin archived}
             others == Sift(got, Projects \ {f.pj})
  <2>1. got \in Seq(T)
    BY <1>7, <1>10
  <2>2. others \in Seq(T \cap (Projects \ {f.pj}))
    <3> HIDE DEF T
    <3> QED
      BY <2>1, SiftKeeps
  <2>3. others # <<>> /\ GoesOn(i, "get", f.ws, others[1])
    BY <1>14
  <2>4. others[1] \in T
    <3> HIDE DEF T, others
    <3> QED
      BY <2>2, <2>3, FirstOf
  <2>5. others[1] \in Projects /\ others[1] \notin archived /\ home[others[1]] = store.ws
    BY <2>4
  <2> HIDE DEF others
  <2> QED
    BY <1>13, <1>14, <2>3, <2>5
<1>15. CASE f.kind \in {"boot", "select"} /\ got # <<>> /\ GoesOn(i, "get", f.ws, got[1]) /\ Listed(got)
  <2> DEFINE T == {p \in Projects : home[p] = store.ws /\ p \notin archived}
  <2>1. got \in Seq(T)
    BY <1>7, <1>10
  <2>2. got[1] \in T
    <3> HIDE DEF T
    <3> QED
      BY <2>1, <1>15, FirstOf
  <2>3. got[1] \in Projects /\ got[1] \notin archived /\ home[got[1]] = store.ws
    BY <2>2
  <2> QED
    BY <1>13, <1>15, <2>3
<1>16. CASE f.kind \in {"create", "createWs"} /\ GoesOn(i, "get", f.ws, f.pj) /\ Listed(got)
  BY <1>11, <1>13, <1>16 DEF Good
<1>17. CASE f.kind = "archive" /\ Stops(i) /\ Clears(got)
  <2>1. store'.ws = store.ws /\ store'.list = now /\ store'.id = None
    BY <1>10, <1>17 DEF Clears, Holds
  <2>2. Rest(store', ListOf(store'.ws), home, archived, edits, member, user)
    BY <1>8, <1>10, <2>1, NavNames DEF Rest, ListTrue, HomeTrue, ShownTrue
  <2>3. Belongs(store', member, user)
    BY <1>2, <2>1 DEF Belongs
  <2> QED
    BY <1>9, <1>17, <2>2, <2>3
<1>18. CASE f.kind = "boot" /\ Stops(i) /\ ShowsMock(store.spaces, got)
  <2>1. store'.ws = store.ws /\ store'.list = now /\ store'.id = Mock
    BY <1>10, <1>18 DEF ShowsMock, Holds
  <2>2. Rest(store', ListOf(store'.ws), home, archived, edits, member, user)
    BY <1>8, <1>10, <2>1, NavNames DEF Rest, ListTrue, HomeTrue, ShownTrue
  <2>3. Belongs(store', member, user)
    BY <1>2, <2>1 DEF Belongs
  <2> QED
    BY <1>9, <1>18, <2>2, <2>3
<1>19. CASE (f.kind = "update" \/ (f.kind = "select" /\ got = <<>>)) /\ Stops(i) /\ Listed(got)
  <2>1. /\ store'.ws = store.ws /\ store'.list = now /\ store'.id = store.id /\ store'.of = store.of
        /\ store'.edits = store.edits
    BY <1>10, <1>19 DEF Listed, Keeps, Holds
  <2>2. ListTrue(store', ListOf(store'.ws))
    BY <1>8, <1>10, <2>1 DEF ListTrue
  <2>3. HomeTrue(store', ListOf(store'.ws), home)
    BY <1>8, <1>10, <1>12, <1>19, <2>1 DEF HomeTrue
  <2>4. ShownTrue(store', home, archived, edits, member, user)
    BY <1>12, <1>19, <2>1 DEF ShownTrue
  <2>5. Belongs(store', member, user)
    BY <1>2, <2>1 DEF Belongs
  <2> QED
    BY <1>9, <1>19, <2>2, <2>3, <2>4, <2>5 DEF Rest
<1>20. f.live => f.kind = "boot"
  BY DEF NavInv, NavShape, FlowsOK, FlowOK, f
<1> QED
  BY <1>1, <1>4, <1>14, <1>15, <1>16, <1>17, <1>18, <1>19, <1>20 DEF ProjectsForm

\* The other answers of a calm tab.
LEMMA CalmRest ==
    ASSUME KeptInv, NavInv, CalmInv, Calm, NEW i \in Slots, flow[i].kind # "no", UNCHANGED <<server, user>>,
           flow[i].ans.how = "ok",
           \/ flow[i].call = "get" /\ GetForm(i, flow[i], flow[i].ans.val)
           \/ flow[i].call = "makeWs" /\ GoesOn(i, "workspaces", flow[i].ans.val, flow[i].pj) /\ Stays
           \/ flow[i].call = "make" /\ GoesOn(i, "tracks", flow[i].ws, flow[i].ans.val) /\ Stays
           \/ flow[i].call = "tracks" /\ GoesOn(i, "projects", flow[i].ws, flow[i].pj) /\ Stays
           \/ flow[i].call = "track" /\ GoesOn(i, "get", flow[i].ws, flow[i].pj) /\ Stays
           \/ flow[i].call = "archive" /\ GoesOn(i, "projects", store.ws, flow[i].pj) /\ Stays
           \/ flow[i].call = "patch" /\ PatchForm(i, flow[i], flow[i].ans.val)
    PROVE  CalmInv'
<1> DEFINE f == flow[i]
           got == f.ans.val
           now == ListOf(store.ws)
<1>1. f.ans.how = "ok"
  OBVIOUS
<1>2. CalmStage(f, store, now, home, archived, edits, member, user) /\ Belongs(store, member, user)
  BY DEF CalmInv
<1>3. /\ f.call \in CallsOf(f.kind) /\ f.kind \in Kinds
      /\ (f.call = "track" => f.pj \in Projects) /\ (f.call = "patch" => f.pj \in Projects)
  BY DEF NavInv, NavShape, FlowsOK, FlowOK, AnswerOK, OfProject
<1>4. \/ f.call = "get" /\ GetForm(i, f, got)
      \/ f.call = "makeWs" /\ GoesOn(i, "workspaces", got, f.pj) /\ Stays
      \/ f.call = "make" /\ GoesOn(i, "tracks", f.ws, got) /\ Stays
      \/ f.call = "tracks" /\ GoesOn(i, "projects", f.ws, f.pj) /\ Stays
      \/ f.call = "track" /\ GoesOn(i, "get", f.ws, f.pj) /\ Stays
      \/ f.call = "archive" /\ GoesOn(i, "projects", store.ws, f.pj) /\ Stays
      \/ f.call = "patch" /\ PatchForm(i, f, got)
  OBVIOUS
<1>5. ASSUME NEW call, NEW ws, NEW pj, GoesOn(i, call, ws, pj), Belongs(store', member, user),
             \A g : (g.kind = f.kind /\ g.call = call /\ g.ws = ws /\ g.pj = pj /\ g.ans.how = "no")
               => CalmStage(g, store', ListOf(store'.ws), home, archived, edits, member, user)
      PROVE  CalmInv'
  BY <1>5, CalmOn
<1>6. ASSUME NEW call, NEW ws, NEW pj, GoesOn(i, call, ws, pj), Stays,
             \A g : (g.kind = f.kind /\ g.call = call /\ g.ws = ws /\ g.pj = pj /\ g.ans.how = "no")
               => CalmStage(g, store, now, home, archived, edits, member, user)
      PROVE  CalmInv'
  <2>1. store' = store /\ Belongs(store', member, user) /\ now = ListOf(store'.ws)
    BY <1>2, <1>6 DEF Stays
  <2>2. ASSUME NEW g, g.kind = f.kind, g.call = call, g.ws = ws, g.pj = pj, g.ans.how = "no"
        PROVE  CalmStage(g, store', ListOf(store'.ws), home, archived, edits, member, user)
    <3>1. CalmStage(g, store, now, home, archived, edits, member, user)
      BY <1>6, <2>2
    <3> QED
      BY <2>1, <3>1
  <2> QED
    BY <1>5, <1>6, <2>1, <2>2
<1>7. now = ListOf(store.ws) /\ got = f.ans.val
  OBVIOUS
<1> HIDE DEF f, got, now
<1>8. CASE f.call = "get" /\ GetForm(i, f, got)
  <2>1. Showable(f.pj, store, now, home, archived, member, user) /\ ListTrue(store, now) /\ got = edits[f.pj]
    BY <1>1, <1>2, <1>7, <1>8 DEF CalmStage, CalmShown
  <2>2. /\ store'.ws = store.ws /\ store'.list = store.list /\ store'.id = f.pj /\ store'.of = f.pj
        /\ store'.edits = got /\ Stops(i)
    BY <1>8 DEF GetForm, Holds
  <2>3. Rest(store', ListOf(store'.ws), home, archived, edits, member, user)
    BY <1>7, <2>1, <2>2 DEF Rest, ListTrue, HomeTrue, ShownTrue, Showable
  <2>4. Belongs(store', member, user)
    BY <1>2, <2>2 DEF Belongs
  <2> QED
    BY <2>2, <2>3, <2>4, CalmOver
<1>9. CASE f.call = "makeWs" /\ GoesOn(i, "workspaces", got, f.pj) /\ Stays
  <2>1. f.kind = "createWs"
    BY <1>3, <1>9 DEF CallsOf, Kinds
  <2>2. ASSUME NEW g, g.kind = f.kind, g.call = "workspaces", g.ws = got, g.pj = f.pj, g.ans.how = "no"
        PROVE  CalmStage(g, store, now, home, archived, edits, member, user)
    BY <2>1, <2>2 DEF CalmStage, CalmMade, CalmShown, CalmDone
  <2> QED
    BY <1>6, <1>9, <2>2
<1>10. CASE f.call = "make" /\ GoesOn(i, "tracks", f.ws, got) /\ Stays
  <2>1. f.ws = store.ws /\ Good(got, store, home, archived) /\ Editing(store, member, user)
    BY <1>1, <1>2, <1>7, <1>10 DEF CalmStage, CalmMade
  <2>2. ASSUME NEW g, g.kind = f.kind, g.call = "tracks", g.ws = f.ws, g.pj = got, g.ans.how = "no"
        PROVE  CalmStage(g, store, now, home, archived, edits, member, user)
    BY <2>1, <2>2 DEF CalmStage, CalmMade, CalmShown, CalmDone
  <2> QED
    BY <1>6, <1>10, <2>2
<1>11. CASE f.call = "tracks" /\ GoesOn(i, "projects", f.ws, f.pj) /\ Stays
  <2>1. f.kind \in {"create", "createWs"}
    BY <1>3, <1>11 DEF CallsOf, Kinds
  <2>2. f.ws = store.ws /\ Good(f.pj, store, home, archived) /\ Editing(store, member, user)
    BY <1>2, <1>11 DEF CalmStage, CalmMade
  <2>3. ASSUME NEW g, g.kind = f.kind, g.call = "projects", g.ws = f.ws, g.pj = f.pj, g.ans.how = "no"
        PROVE  CalmStage(g, store, now, home, archived, edits, member, user)
    BY <2>1, <2>2, <2>3 DEF CalmStage, CalmMade, CalmShown, CalmDone, Good
  <2> QED
    BY <1>6, <1>11, <2>3
<1>12. CASE f.call = "track" /\ GoesOn(i, "get", f.ws, f.pj) /\ Stays
  <2>1. f.kind = "track"
    BY <1>3, <1>12 DEF CallsOf, Kinds
  <2>2. Rest(store, now, home, archived, edits, member, user) /\ f.pj = store.id /\ f.pj \in Projects
    BY <1>2, <1>3, <1>12 DEF CalmStage, CalmDone
  <2>3. Showable(f.pj, store, now, home, archived, member, user) /\ ListTrue(store, now)
    BY <2>2 DEF Rest, Showable, HomeTrue, ShownTrue
  <2>4. ASSUME NEW g, g.kind = f.kind, g.call = "get", g.ws = f.ws, g.pj = f.pj, g.ans.how = "no"
        PROVE  CalmStage(g, store, now, home, archived, edits, member, user)
    BY <2>1, <2>3, <2>4 DEF CalmStage, CalmMade, CalmShown, CalmDone
  <2> QED
    BY <1>6, <1>12, <2>4
<1>13. CASE f.call = "archive" /\ GoesOn(i, "projects", store.ws, f.pj) /\ Stays
  <2>1. f.kind = "archive" /\ store.ws # None
    BY <1>2, <1>3, <1>13 DEF CallsOf, Kinds, CalmStage, CalmDone
  <2>2. ASSUME NEW g, g.kind = f.kind, g.call = "projects", g.ws = store.ws, g.pj = f.pj, g.ans.how = "no"
        PROVE  CalmStage(g, store, now, home, archived, edits, member, user)
    BY <2>1, <2>2 DEF CalmStage, CalmMade, CalmShown, CalmDone
  <2> QED
    BY <1>6, <1>13, <2>2
<1>14. CASE f.call = "patch" /\ PatchForm(i, f, got)
  <2>1. f.kind = "update" /\ f.pj \in Projects /\ f.pj # None
    BY <1>3, <1>14, NavNames DEF CallsOf, Kinds
  <2>2. /\ f.ws = store.ws /\ store.ws # None /\ f.pj = store.id /\ home[f.pj] = store.ws
        /\ f.pj \notin archived /\ RoleIn(member, home[f.pj], user) # None /\ got = edits[f.pj]
    BY <1>1, <1>2, <1>7, <1>14 DEF CalmStage, CalmDone
  <2>3. /\ store'.ws = store.ws /\ store'.id = store.id /\ store'.of = f.pj /\ store'.edits = got
        /\ GoesOn(i, "projects", f.ws, f.pj)
    BY <1>14, <2>1, <2>2 DEF PatchForm, Holds
  <2>4. ShownTrue(store', home, archived, edits, member, user)
    BY <2>2, <2>3 DEF ShownTrue
  <2>5. ASSUME NEW g, g.kind = f.kind, g.call = "projects", g.ws = f.ws, g.pj = f.pj, g.ans.how = "no"
        PROVE  CalmStage(g, store', ListOf(store'.ws), home, archived, edits, member, user)
    BY <2>1, <2>2, <2>3, <2>4, <2>5 DEF CalmStage, CalmMade, CalmShown, CalmDone
  <2>6. Belongs(store', member, user)
    BY <1>2, <2>3 DEF Belongs
  <2> QED
    BY <1>5, <2>3, <2>5, <2>6
<1> QED
  BY <1>4, <1>8, <1>9, <1>10, <1>11, <1>12, <1>13, <1>14

\* A call that was refused ends its flow, and all is as it was before.
LEMMA CalmFails ==
    ASSUME KeptInv, NavInv, CalmInv, Calm, NEW i \in Slots, flow[i].kind # "no", UNCHANGED <<server, user>>,
           flow[i].ans.how \in {"failed", "401"}, FailForm(i, flow[i])
    PROVE  CalmInv'
<1> DEFINE f == flow[i]
           now == ListOf(store.ws)
<1>1. f.kind # "no" /\ f.ans.how \in {"failed", "401"} /\ FailForm(i, f) /\ now = ListOf(store.ws)
  OBVIOUS
<1>2. CalmStage(f, store, now, home, archived, edits, member, user) /\ Belongs(store, member, user)
  BY DEF CalmInv
<1>3. /\ f.call \in CallsOf(f.kind) /\ f.kind \in Kinds /\ (f.live => f.kind = "boot")
  BY DEF NavInv, NavShape, FlowsOK, FlowOK
<1> HIDE DEF f, now
<1>4. f.call \in {"make", "archive", "track", "patch"} /\ f.kind # "createWs"
  BY <1>1, <1>2 DEF CalmStage, CalmDone
<1>5. ~f.live /\ (f.call = "make" => f.kind = "create")
  BY <1>3, <1>4 DEF CallsOf, Kinds
<1>6. Rest(store, now, home, archived, edits, member, user)
  BY <1>1, <1>2, <1>4, <1>5 DEF CalmStage, CalmDone
<1>7. store' = store /\ Stops(i)
  BY <1>1, <1>5 DEF FailForm, Stays
<1>8. Rest(store', ListOf(store'.ws), home, archived, edits, member, user) /\ Belongs(store', member, user)
  BY <1>1, <1>2, <1>6, <1>7
<1> QED
  BY <1>7, <1>8, CalmOver

\* Every step of the tab keeps CalmInv.
LEMMA CalmStep ==
    ASSUME KeptInv, NavInv, CalmInv, NavNext
    PROVE  CalmInv'
<1>1. NavShape
  BY DEF NavInv
<1>2. faults' = faults
  BY <1>1, FaultsStay
<1>3. CASE ~Calm
  BY <1>2, <1>3 DEF CalmInv, Calm
<1>4. CASE Calm
  <2>1. ASSUME NEW i \in Slots, AnswerForm(i, flow[i], flow[i].ans.val)
        PROVE  CalmInv'
    <3>1. flow[i].kind # "no" /\ UNCHANGED <<server, user>>
      BY <1>1, <2>1, AnswerGoes, <1>4, CalmAlone DEF AnswerForm, FailForm
    <3> QED
      BY <1>4, <2>1, <3>1, CalmSpaces, CalmProjects, CalmRest, CalmFails DEF AnswerForm
  <2>2. ASSUME NEW u, BecomeForm(u)
        PROVE  CalmInv'
    BY <1>4, <2>2, CalmAlone DEF BecomeForm
  <2> QED
    BY <1>1, <2>1, <2>2, StepFormed, CalmBoot, CalmClick, CalmServe
<1> QED
  BY <1>3, <1>4

\* So does what happens at the panel.
LEMMA CalmBeside ==
    ASSUME NavInv, CalmInv, Beside
    PROVE  CalmInv'
<1>1. /\ home' = home /\ archived' = archived /\ recent' = recent /\ edits' = edits
      /\ user' = user /\ store' = store /\ flow' = flow /\ faults' = faults
  BY DEF Beside
<1>2. CASE ~Calm
  BY <1>1, <1>2 DEF CalmInv, Calm
<1>3. CASE Calm
  <2> DEFINE now == ListOf(store.ws)
  <2>1. \A w \in Workspaces \cup {None} : RoleIn(member', w, user) = RoleIn(member, w, user)
    BY <1>3, CalmAlone DEF Beside, RoleIn
  <2>2. store.ws \in Workspaces \cup {None} /\ home \in [Projects -> Workspaces \cup {None}]
    BY DEF NavInv, NavShape, StoreOK, Stores, TablesOK
  <2>3. \A p \in Projects : RoleIn(member', home[p], user) = RoleIn(member, home[p], user)
    BY <2>1, <2>2
  <2>4. RoleIn(member', store.ws, user) = RoleIn(member, store.ws, user)
    BY <2>1, <2>2
  <2>5. Quiet' = Quiet /\ ListOf(store.ws)' = now /\ Calm'
    BY <1>1, <1>3 DEF Quiet, ListOf, Calm
  <2>6. Belongs(store, member', user)
    BY <1>3, <2>4 DEF CalmInv, Belongs
  <2> HIDE DEF now
  <2>7. Rest(store, now, home, archived, edits, member, user) => Rest(store, now, home, archived, edits, member', user)
    BY <2>3 DEF Rest, ListTrue, HomeTrue, ShownTrue
  <2>8. ASSUME NEW f, FlowOK(f, home, store.id, user),
               CalmStage(f, store, now, home, archived, edits, member, user)
        PROVE  CalmStage(f, store, now, home, archived, edits, member', user)
    <3>1. CalmMade(f, store, home, archived, member', user)
      BY <2>4, <2>8 DEF CalmStage, CalmMade, Editing
    <3>2. CalmShown(f, store, now, home, archived, edits, member', user)
      BY <2>3, <2>8 DEF CalmStage, CalmShown, Showable, ShownTrue
    <3>3. f.call = "patch" => f.pj \in Projects
      BY <2>8 DEF FlowOK, OfProject
    <3>4. CalmDone(f, store, now, home, archived, edits, member', user)
      BY <2>3, <2>7, <2>8, <3>3 DEF CalmStage, CalmDone
    <3> QED
      BY <3>1, <3>2, <3>4 DEF CalmStage
  <2>9. \A i \in Slots : flow[i].kind # "no" => CalmStage(flow[i], store, now, home, archived, edits, member, user)
    BY <1>3 DEF CalmInv, now
  <2>10. \A i \in Slots : flow[i].kind # "no" => CalmStage(flow[i], store, now, home, archived, edits, member', user)
    BY <2>8, <2>9 DEF NavInv, NavShape, FlowsOK
  <2>11. Quiet => Rest(store, now, home, archived, edits, member', user)
    BY <1>3, <2>7 DEF CalmInv, now
  <2> QED
    BY <1>1, <2>5, <2>6, <2>10, <2>11 DEF CalmInv, now
<1> QED
  BY <1>2, <1>3

(***************************************************************************)
(* The panel of a user who waits, with nobody else at work: the members on *)
(* screen are true, or what will make them so is the one request on its    *)
(* way.                                                                    *)
(***************************************************************************)
PanelCalm == faults \cap {"overlap", "rivals", "users"} = {}
Screen(p, w, m) == p.open /\ ~p.error /\ w \in Workspaces => p.rows = m[w]
Mended(rows, r) == [rows EXCEPT ![r.of] = IF rows[r.of] = None THEN None ELSE r.to]
OnItsWay(r, p, w, m, u) ==
    /\ r.by = u /\ r.ws = w
    /\ r.what = "list" /\ r.at = "ok" /\ w \in Workspaces => r.rows = m[w]
    /\ r.what = "invite" => Screen(p, w, m)
    /\ Changing(r) =>
         /\ r.at \notin {"ok", "failed"} => Screen(p, w, m)
         /\ r.at = "ok" /\ p.open /\ ~p.error /\ w \in Workspaces => Mended(p.rows, r) = m[w]
PanelInv ==
    PanelCalm =>
      \/ asks = <<>> /\ Screen(panel, PanelWs, member)
      \/ \E r : asks = <<r>> /\ Quiet /\ store.id # None /\ OnItsWay(r, panel, PanelWs, member, user)

\* A queue of one request.
LEMMA OneAsk ==
    ASSUME NEW r, NEW g
    PROVE  /\ Append(<<>>, r) = <<r>> /\ 1 .. Len(<<r>>) = {1} /\ <<r>>[1] = r
           /\ RemoveAt(<<r>>, 1) = <<>> /\ [<<r>> EXCEPT ![1] = g] = <<g>>
<1>1. Append(<<>>, r) = <<r>> /\ 1 .. Len(<<r>>) = {1} /\ <<r>>[1] = r
  OBVIOUS
<1>2. [<<r>> EXCEPT ![1] = g] = <<g>>
  OBVIOUS
<1>3. RemoveAt(<<r>>, 1) = <<>>
  <2>1. RemoveAt(<<r>>, 1) = SubSeq(<<r>>, 1, 0) \o SubSeq(<<r>>, 2, 1)
    BY DEF RemoveAt
  <2>2. SubSeq(<<r>>, 1, 0) = <<>> /\ SubSeq(<<r>>, 2, 1) = <<>>
    <3>1. <<r>> \in Seq({r})
      OBVIOUS
    <3> QED
      BY <3>1, SubSeqProperties, EmptySeq
  <2> QED
    BY <2>1, <2>2
<1> QED
  BY <1>1, <1>2, <1>3

\* What the tab shows changes only at the end of a flow.
LEMMA WsStays ==
    ASSUME NavInv, NavNext, PanelCalm, PanelWs' # PanelWs
    PROVE  Quiet'
<1>1. NavShape /\ ~May("users") /\ OneByOne
  BY DEF NavInv, PanelCalm, May, OneByOne
<1>2. store.id \in Projects => home[store.id] # None /\ home[store.id] \in Workspaces
  BY <1>1, NavNames DEF NavShape, StoreOK, TablesOK
<1>3. ASSUME NEW i \in Slots, NEW kind, NEW call, NEW ws, NEW pj, Starts(i, kind, call, ws, pj), store'.id = store.id
      PROVE  FALSE
  BY <1>3 DEF Starts, server, PanelWs
<1>4. ASSUME NEW i \in Slots, NEW how, NEW val, ServeForm(i, flow[i], how, val)
      PROVE  FALSE
  <2>1. store' = store
    BY <1>4 DEF ServeForm
  <2>2. home' = home \/ (MakeInv /\ flow[i].call = "make" /\ MadeForm(flow[i], how, val))
    BY <1>4 DEF ServeForm, RefusedForm, MadeWs, PatchedForm, ArchivedForm, server, NavInv
  <2>3. CASE flow[i].call = "make" /\ MadeForm(flow[i], how, val)
    <3>1. /\ flow[i].kind \in {"create", "createWs"} /\ flow[i].ans.how = "no"
      BY <1>1, <1>4, <2>3 DEF ServeForm, NavShape, FlowsOK, FlowOK, CallsOf, Kinds
    <3>2. \E p \in Projects : home[p] = None
      BY <2>3, <3>1 DEF NavInv, MakeInv, Makes, Unmade
    <3>3. Makable \in Projects /\ home[Makable] = None
      BY <3>2 DEF Makable
    <3>4. home' = [home EXCEPT ![Makable] = flow[i].ws]
      BY <2>3 DEF MadeForm
    <3>5. store.id \in Projects => home'[store.id] = home[store.id]
      BY <1>1, <1>2, <3>3, <3>4 DEF NavShape, TablesOK
    <3> QED
      BY <2>1, <3>5 DEF PanelWs
  <2> QED
    BY <2>1, <2>2, <2>3 DEF PanelWs
<1>5. ASSUME NEW i \in Slots, AnswerForm(i, flow[i], flow[i].ans.val)
      PROVE  Quiet'
  <2>1. flow[i].kind # "no" /\ home' = home /\ (Stops(i) \/ store'.id = store.id)
    BY <1>1, <1>5, AnswerGoes DEF server
  <2>2. Stops(i)
    BY <2>1 DEF PanelWs
  <2>3. \A j \in Slots : j # i => flow[j].kind = "no"
    BY <1>1, <2>1, OnlyOne DEF NavInv
  <2>4. \A j \in Slots : flow'[j].kind = "no"
    BY <2>2, <2>3 DEF Stops, Becomes
  <2> QED
    BY <2>4 DEF Quiet
<1>6. ASSUME NEW i \in Slots, ClickForm(i)
      PROVE  FALSE
  BY <1>3, <1>6 DEF ClickForm, Stays, Keeps, Holds
<1> QED
  BY <1>1, <1>3, <1>4, <1>5, <1>6, StepFormed DEF BecomeForm

\* The members of the workspace on screen stay as they are beside the flows of the tab.
LEMMA RowsStay ==
    ASSUME KeptInv, NavInv, NavNext, PanelWs \in Workspaces
    PROVE  member'[PanelWs] = member[PanelWs]
<1>1. NavShape
  BY DEF NavInv
<1>2. InUse(PanelWs, spaces)
  BY <1>1, NavNames DEF NavShape, StoreOK, TablesOK, Stores, Shownable, PanelWs
<1>3. ASSUME NEW i \in Slots, NEW how, NEW val, ServeForm(i, flow[i], how, val)
      PROVE  member'[PanelWs] = member[PanelWs]
  <2>1. CASE MadeWs(flow[i], how, val)
    <3>1. PICK w \in Workspaces : ~InUse(w, spaces) /\ member' = [member EXCEPT ![w][flow[i].by] = "owner"]
      BY <2>1 DEF MadeWs
    <3>2. w # PanelWs
      BY <1>2, <3>1
    <3>3. member \in [Workspaces -> [Users -> Roles \cup {None}]]
      BY DEF KeptInv, Tables
    <3> QED
      BY <3>1, <3>2, <3>3
  <2> QED
    BY <1>1, <1>3, <2>1, MembersServe
<1>4. ASSUME NEW i \in Slots, AnswerForm(i, flow[i], flow[i].ans.val)
      PROVE  member' = member
  BY <1>1, <1>4, AnswerGoes DEF server
<1> QED
  BY <1>1, <1>3, <1>4, StepFormed DEF Starts, ClickForm, BecomeForm, server

\* While a request is on its way the rest of a patient tab stands still.
LEMMA RestStill ==
    ASSUME NavInv, AsksInv, PanelCalm, RestForm, NEW r, asks = <<r>>, r.by = user, Quiet, store.id # None
    PROVE  FALSE
<1>1. NavShape /\ ~May("users") /\ ~May("overlap") /\ ~May("rivals")
  BY DEF NavInv, PanelCalm, May
<1>2. NavNext /\ (May("panel") => flows' = flows \/ Patient)
  BY DEF RestForm
<1>3. May("panel")
  BY <1>1 DEF AsksInv
<1>4. ~Patient
  <2>1. 1 \in 1 .. Len(asks) /\ asks[1] = r
    BY OneAsk
  <2> QED
    BY <1>1, <2>1 DEF Patient, Mine
<1>5. flows' = flows /\ flows \in Nat
  BY <1>1, <1>2, <1>3, <1>4, NavUsers DEF NavShape
<1>6. flows' # flows + 1
  BY <1>5
<1> QED
  BY <1>1, <1>2, <1>6, StepFormed DEF BootDue, Quiet, ServeForm, AnswerForm, BecomeForm

\* A list that is asked for makes the panel true.
LEMMA PanelLoads ==
    ASSUME NEW open, NEW rows, NEW loading, NEW error, NEW ws,
           LoadForm(open, rows, loading, error, <<>>, ws), ws # None, ws = PanelWs', user' = user,
           Quiet', store'.id # None
    PROVE  PanelInv'
<1>1. PICK r : AskIs(r, "list", user, ws, None, None, "check", NoRows) /\ asks' = Append(<<>>, r)
  BY DEF LoadForm
<1>2. asks' = <<r>>
  BY <1>1, OneAsk
<1>3. r.by = user' /\ r.ws = PanelWs' /\ r.what = "list" /\ r.at = "check"
  BY <1>1 DEF AskIs
<1>4. OnItsWay(r, panel', PanelWs', member', user')
  BY <1>3 DEF OnItsWay, Changing
<1> QED
  BY <1>2, <1>4 DEF PanelInv

\* What the user does at the panel.
LEMMA PanelUsed ==
    ASSUME NavInv, AsksInv, PanelInv,
           OpenForm \/ \E what, of, to : ClickedForm(what, of, to)
    PROVE  PanelInv'
<1>1. Patient /\ UNCHANGED vars /\ Shown
  BY DEF OpenForm, ClickedForm
<1>2. /\ faults' = faults /\ user' = user /\ store' = store /\ home' = home /\ member' = member /\ flow' = flow
  BY <1>1 DEF vars, server
<1>3. PanelWs' = PanelWs /\ Quiet' = Quiet
  BY <1>2 DEF PanelWs, Quiet
<1>4. CASE ~PanelCalm
  BY <1>2, <1>4 DEF PanelInv, PanelCalm
<1>5. CASE PanelCalm
  <2>1. Quiet /\ \A k \in 1 .. Len(asks) : ~Mine(asks[k])
    BY <1>1, <1>5 DEF Patient, PanelCalm, May
  <2>2. asks = <<>> /\ Screen(panel, PanelWs, member)
    <3>1. ASSUME NEW r, asks = <<r>>, r.by = user
          PROVE  FALSE
      BY <2>1, <3>1, OneAsk DEF Mine
    <3> QED
      BY <1>5, <3>1 DEF PanelInv, OnItsWay
  <2>3. store.id # None /\ PanelWs # None
    BY <1>1, WsShown DEF Shown, NavInv
  <2>4. CASE OpenForm /\ panel.open
    <3>1. asks' = <<>> /\ panel'.open = FALSE
      BY <2>2, <2>4 DEF OpenForm, PanelIs
    <3> QED
      BY <3>1 DEF PanelInv, Screen
  <2>5. CASE OpenForm /\ ~panel.open
    <3>1. LoadForm(TRUE, panel.rows, panel.loading, panel.error, <<>>, PanelWs)
      BY <2>2, <2>5 DEF OpenForm
    <3> DEFINE yes == TRUE
    <3>2. LoadForm(yes, panel.rows, panel.loading, panel.error, <<>>, PanelWs)
      BY <3>1
    <3>3. Quiet' /\ store'.id # None /\ PanelWs = PanelWs'
      BY <1>2, <1>3, <2>1, <2>3
    <3> HIDE DEF yes
    <3> QED
      BY <1>2, <2>3, <3>2, <3>3, PanelLoads
  <2>6. ASSUME NEW what, NEW of, NEW to, ClickedForm(what, of, to)
        PROVE  PanelInv'
    <3>1. panel' = panel
      BY <2>6 DEF ClickedForm
    <3>2. PICK r : AskIs(r, what, user, PanelWs, of, to, "check", NoRows) /\ asks' = Append(asks, r)
      BY <2>6 DEF ClickedForm, SendForm
    <3>3. asks' = <<r>>
      BY <2>2, <3>2, OneAsk
    <3>4. r.by = user /\ r.ws = PanelWs /\ r.what = what /\ r.at = "check"
      BY <3>2 DEF AskIs
    <3>5. what # "list"
      BY <2>6 DEF ClickedForm
    <3>6. OnItsWay(r, panel, PanelWs, member, user)
      BY <2>2, <3>4, <3>5 DEF OnItsWay
    <3>7. Quiet' /\ store'.id # None /\ OnItsWay(r, panel', PanelWs', member', user')
      BY <1>2, <1>3, <2>1, <2>3, <3>1, <3>6
    <3> QED
      BY <3>3, <3>7 DEF PanelInv
  <2> QED
    BY <2>4, <2>5, <2>6
<1> QED
  BY <1>4, <1>5

\* What the tab hears.
LEMMA PanelHears ==
    ASSUME NavInv, AsksInv, PanelInv, NEW i \in 1 .. Len(asks), HearForm(i, asks[i])
    PROVE  PanelInv'
<1>1. UNCHANGED vars
  BY DEF HearForm
<1>2. /\ faults' = faults /\ user' = user /\ store' = store /\ home' = home /\ member' = member /\ flow' = flow
  BY <1>1 DEF vars, server
<1>3. PanelWs' = PanelWs /\ Quiet' = Quiet
  BY <1>2 DEF PanelWs, Quiet
<1>4. CASE ~PanelCalm
  BY <1>2, <1>4 DEF PanelInv, PanelCalm
<1>5. CASE PanelCalm
  <2>1. asks # <<>>
    OBVIOUS
  <2>2. PICK r : asks = <<r>> /\ Quiet /\ store.id # None /\ OnItsWay(r, panel, PanelWs, member, user)
    BY <1>5, <2>1 DEF PanelInv
  <2>3. i = 1 /\ asks[i] = r /\ RemoveAt(asks, i) = <<>>
    BY <2>2, OneAsk
  <2>4. PanelWs # None
    BY <2>2, WsShown DEF NavInv
  <2>5. HearForm(i, r)
    BY <2>3
  <2>6. r.what \in {"list", "role", "remove", "invite"}
    BY <2>2, <2>3, ElementOfSeq DEF AsksInv, Proper, Requests
  <2>7. ASSUME asks' = <<>>, Screen(panel', PanelWs, member)
        PROVE  PanelInv'
    BY <1>2, <1>3, <2>7 DEF PanelInv
  <2>8. CASE r.at = "ok" /\ r.what = "list" /\ asks' = <<>> /\ PanelIs(panel', panel.open, r.rows, FALSE, panel.error)
    <3>1. panel'.rows = r.rows
      BY <2>8 DEF PanelIs
    <3>2. Screen(panel', PanelWs, member)
      BY <2>2, <2>8, <3>1 DEF Screen, OnItsWay
    <3> QED
      BY <2>7, <2>8, <3>2
  <2>9. CASE /\ r.at = "ok" /\ Changing(r) /\ asks' = <<>>
             /\ PanelIs(panel', panel.open,
                        [panel.rows EXCEPT ![r.of] = IF panel.rows[r.of] = None THEN None ELSE r.to],
                        panel.loading, panel.error)
    <3>1. panel'.rows = Mended(panel.rows, r) /\ panel'.open = panel.open /\ panel'.error = panel.error
      BY <2>9 DEF PanelIs, Mended
    <3>2. Screen(panel', PanelWs, member)
      BY <2>2, <2>9, <3>1 DEF Screen, OnItsWay
    <3> QED
      BY <2>7, <2>9, <3>2
  <2>10. CASE LoadForm(panel.open, panel.rows, panel.loading, panel.error, <<>>, r.ws)
    <3>1. r.ws = PanelWs' /\ r.ws # None /\ Quiet' /\ store'.id # None
      BY <1>2, <1>3, <2>2, <2>4 DEF OnItsWay
    <3> QED
      BY <1>2, <2>10, <3>1, PanelLoads
  <2>11. ASSUME r.at = "failed", asks' = <<>>, NEW loading \in BOOLEAN, NEW error \in BOOLEAN,
                PanelIs(panel', panel.open, panel.rows, loading, error),
                error <=> panel.error \/ r.what # "invite"
         PROVE  PanelInv'
    <3>1. panel'.open = panel.open /\ panel'.rows = panel.rows /\ panel'.error = error
      BY <2>11 DEF PanelIs
    <3>2. CASE r.what = "invite"
      <4>1. panel'.error = panel.error \/ panel'.error = TRUE \/ ~panel.error
        BY <2>11, <3>1, <3>2
      <4>2. Screen(panel, PanelWs, member)
        BY <2>2, <3>2 DEF OnItsWay
      <4>3. ~panel'.error => ~panel.error
        BY <2>11, <3>1
      <4>4. Screen(panel', PanelWs, member)
        BY <3>1, <4>2, <4>3 DEF Screen
      <4> QED
        BY <2>7, <2>11, <4>4
    <3>3. CASE r.what # "invite"
      <4>1. panel'.error
        BY <2>11, <3>1, <3>3
      <4> QED
        BY <2>7, <2>11, <4>1 DEF Screen
    <3> QED
      BY <3>2, <3>3
  <2> QED
    BY <2>3, <2>5, <2>8, <2>9, <2>10, <2>11 DEF HearForm
<1> QED
  BY <1>4, <1>5

\* What a handler does.
LEMMA PanelHandles ==
    ASSUME KeptInv, NavInv, AsksInv, PanelInv, NEW i \in 1 .. Len(asks), HandleForm(i, asks[i])
    PROVE  PanelInv'
<1>1. /\ faults' = faults /\ user' = user /\ store' = store /\ home' = home /\ flow' = flow /\ panel' = panel
  BY DEF HandleForm
<1>2. PanelWs' = PanelWs /\ Quiet' = Quiet
  BY <1>1 DEF PanelWs, Quiet
<1>3. CASE ~PanelCalm
  BY <1>1, <1>3 DEF PanelInv, PanelCalm
<1>4. CASE PanelCalm
  <2>1. asks # <<>>
    OBVIOUS
  <2>2. PICK r : asks = <<r>> /\ Quiet /\ store.id # None /\ OnItsWay(r, panel, PanelWs, member, user)
    BY <1>4, <2>1 DEF PanelInv
  <2>3. i = 1 /\ asks[i] = r
    BY <2>2, OneAsk
  <2>4. HandleForm(i, r)
    BY <2>3
  <2>5. r \in Requests /\ r.by = user /\ r.ws = PanelWs
    BY <2>2, <2>3, ElementOfSeq DEF AsksInv, Proper, OnItsWay
  <2>6. ASSUME NEW at, NEW rows, MoveForm(i, r, at, rows),
               \A g : AskIs(g, r.what, r.by, r.ws, r.of, r.to, at, rows)
                        => OnItsWay(g, panel, PanelWs, member', user)
        PROVE  PanelInv'
    <3>1. PICK g : AskIs(g, r.what, r.by, r.ws, r.of, r.to, at, rows) /\ asks' = [asks EXCEPT ![i] = g]
      BY <2>6 DEF MoveForm
    <3>2. asks' = <<g>>
      BY <2>2, <2>3, <3>1, OneAsk
    <3>3. OnItsWay(g, panel', PanelWs', member', user')
      BY <1>1, <1>2, <2>6, <3>1
    <3> QED
      BY <1>1, <1>2, <2>2, <3>2, <3>3 DEF PanelInv
  <2>7. ASSUME NEW at \in {"see", "act", "failed"}, MoveForm(i, r, at, r.rows), member' = member,
               at = "failed" \/ r.at \in {"check", "see"}
        PROVE  PanelInv'
    <3>1. ASSUME NEW g, AskIs(g, r.what, r.by, r.ws, r.of, r.to, at, r.rows)
          PROVE  OnItsWay(g, panel, PanelWs, member', user)
      <4>1. g.what = r.what /\ g.by = user /\ g.ws = PanelWs /\ g.at = at /\ g.of = r.of /\ g.to = r.to
        BY <2>5, <3>1 DEF AskIs
      <4> QED
        BY <2>2, <2>7, <4>1 DEF OnItsWay, Changing
    <3> QED
      BY <2>6, <2>7, <3>1
  <2>8. CASE r.at = "act" /\ ~Changing(r) /\ member' = member /\ MoveForm(i, r, "ok", Row(r))
    <3>1. ASSUME NEW g, AskIs(g, r.what, r.by, r.ws, r.of, r.to, "ok", Row(r))
          PROVE  OnItsWay(g, panel, PanelWs, member', user)
      <4>1. g.what = r.what /\ g.by = user /\ g.ws = PanelWs /\ g.at = "ok" /\ g.rows = Row(r)
        BY <2>5, <3>1 DEF AskIs
      <4>2. PanelWs \in Workspaces => g.rows = member[PanelWs]
        BY <2>5, <4>1 DEF Row
      <4> QED
        BY <2>2, <2>8, <4>1, <4>2 DEF OnItsWay, Changing
    <3> QED
      BY <2>6, <2>8, <3>1
  <2>9. ASSUME r.at = "act", Changing(r), member' = Written(r), NEW at \in {"ok", "failed"}, MoveForm(i, r, at, r.rows)
        PROVE  PanelInv'
    <3>1. Screen(panel, PanelWs, member)
      BY <2>2, <2>9 DEF OnItsWay
    <3>2. member' = [member EXCEPT ![r.ws][r.of] = IF @ = None THEN None ELSE r.to]
      BY <2>9 DEF Written
    <3>3. PanelWs \in Workspaces => member'[PanelWs] = Mended(member[PanelWs], r)
      BY <2>5, <3>2 DEF KeptInv, Tables, Mended
    <3>4. panel.open /\ ~panel.error /\ PanelWs \in Workspaces => Mended(panel.rows, r) = member'[PanelWs]
      BY <3>1, <3>3 DEF Screen
    <3>5. ASSUME NEW g, AskIs(g, r.what, r.by, r.ws, r.of, r.to, at, r.rows)
          PROVE  OnItsWay(g, panel, PanelWs, member', user)
      <4>1. g.what = r.what /\ g.by = user /\ g.ws = PanelWs /\ g.at = at /\ g.of = r.of /\ g.to = r.to
        BY <2>5, <3>5 DEF AskIs
      <4>2. Mended(panel.rows, g) = Mended(panel.rows, r)
        BY <4>1 DEF Mended
      <4> QED
        BY <2>9, <3>4, <4>1, <4>2 DEF OnItsWay, Changing
    <3> QED
      BY <2>6, <2>9, <3>5
  <2> QED
    BY <2>4, <2>5, <2>7, <2>8, <2>9 DEF HandleForm, EndForm
<1> QED
  BY <1>3, <1>4

\* The rest of the tab.
LEMMA PanelBeside ==
    ASSUME KeptInv, NavInv, AsksInv, PanelInv, RestForm, PanelWs' \in Workspaces \cup {Mock, None}
    PROVE  PanelInv'
<1>1. NavShape /\ NavNext
  BY DEF NavInv, RestForm
<1>2. faults' = faults
  BY <1>1, FaultsStay
<1>3. CASE ~PanelCalm
  BY <1>2, <1>3 DEF PanelInv, PanelCalm
<1>4. CASE PanelCalm
  <2>1. user' = user
    BY <1>1, <1>4, UserStays DEF PanelCalm, May
  <2>2. asks = <<>> /\ Screen(panel, PanelWs, member)
    <3>1. ASSUME NEW r, asks = <<r>>, Quiet, store.id # None, OnItsWay(r, panel, PanelWs, member, user)
          PROVE  FALSE
      BY <1>4, <3>1, RestStill DEF OnItsWay
    <3> QED
      BY <1>4, <3>1 DEF PanelInv
  <2>3. CASE UNCHANGED <<panel, asks>> /\ (panel.open => PanelWs' = PanelWs)
    <3>1. Screen(panel', PanelWs', member')
      BY <1>1, <2>2, <2>3, RowsStay DEF Screen
    <3> QED
      BY <2>2, <2>3, <3>1 DEF PanelInv
  <2>4. CASE /\ panel.open /\ PanelWs' # PanelWs
             /\ LoadForm(panel.open, panel.rows, panel.loading, panel.error, asks, PanelWs')
    <3>1. LoadForm(panel.open, panel.rows, panel.loading, panel.error, <<>>, PanelWs')
      BY <2>2, <2>4
    <3>2. CASE PanelWs' = None
      <4>1. asks' = <<>>
        BY <3>1, <3>2 DEF LoadForm
      <4>2. Screen(panel', PanelWs', member')
        BY <3>2, NavNames DEF Screen
      <4> QED
        BY <4>1, <4>2 DEF PanelInv
    <3>3. CASE PanelWs' # None
      <4>1. Quiet'
        BY <1>1, <1>4, <2>4, WsStays
      <4>2. store'.id # None
        BY <3>3, NavNames DEF PanelWs
      <4> DEFINE ws == PanelWs'
      <4>3. ws # None /\ ws = PanelWs' /\ LoadForm(panel.open, panel.rows, panel.loading, panel.error, <<>>, ws)
        BY <3>1, <3>3
      <4> HIDE DEF ws
      <4> QED
        BY <2>1, <4>1, <4>2, <4>3, PanelLoads
    <3> QED
      BY <3>2, <3>3
  <2> QED
    BY <2>3, <2>4 DEF RestForm
<1> QED
  BY <1>3, <1>4

(***************************************************************************)
(* The whole invariant.                                                    *)
(***************************************************************************)
ShownInv == TabInv /\ CalmInv /\ PanelInv

\* Every step keeps it.
LEMMA ShownStep ==
    ASSUME ShownInv, [MembersNext]_mvars
    PROVE  ShownInv'
<1>1. TabInv /\ KeptInv /\ NavInv /\ AsksInv /\ CalmInv /\ PanelInv /\ NavShape
  BY DEF ShownInv, TabInv, NavInv
<1>2. TabInv'
  BY <1>1, TabStep
<1>3. PanelWs' \in Workspaces \cup {Mock, None}
  BY <1>2, WsNext DEF TabInv, NavInv
<1>4. CASE UNCHANGED mvars
  <2>1. /\ UNCHANGED <<spaces, member, home, archived, recent, edits, user, store, flow, busy, flows, faults>>
        /\ panel' = panel /\ asks' = asks
    BY <1>4 DEF mvars, vars, server
  <2>2. Beside
    BY <2>1 DEF Beside
  <2>3. CalmInv'
    BY <1>1, <2>2, CalmBeside
  <2>4. PanelInv'
    BY <1>1, <2>1 DEF PanelInv, PanelCalm, PanelWs, Quiet
  <2> QED
    BY <1>2, <2>3, <2>4 DEF ShownInv
<1>5. CASE MembersNext
  <2>1. CASE RestForm
    BY <1>1, <1>2, <1>3, <2>1, CalmStep, PanelBeside DEF ShownInv, RestForm
  <2>2. ASSUME UNCHANGED vars
        PROVE  CalmInv'
    <3>1. Beside
      BY <2>2 DEF Beside, vars, server
    <3> QED
      BY <1>1, <3>1, CalmBeside
  <2>3. CASE OpenForm \/ \E what, of, to : ClickedForm(what, of, to)
    <3>1. UNCHANGED vars
      BY <2>3 DEF OpenForm, ClickedForm
    <3> QED
      BY <1>1, <1>2, <2>2, <2>3, <3>1, PanelUsed DEF ShownInv
  <2>4. ASSUME NEW what, NEW by, NEW ws, NEW of, NEW to, RivalForm(what, by, ws, of, to)
        PROVE  ShownInv'
    <3>1. UNCHANGED vars /\ May("rivals")
      BY <2>4 DEF RivalForm
    <3>2. faults' = faults
      BY <3>1 DEF vars
    <3>3. PanelInv'
      BY <3>1, <3>2 DEF PanelInv, PanelCalm, May
    <3> QED
      BY <1>2, <2>2, <3>1, <3>3 DEF ShownInv
  <2>5. ASSUME NEW i \in 1 .. Len(asks), HearForm(i, asks[i])
        PROVE  ShownInv'
    <3>1. UNCHANGED vars
      BY <2>5 DEF HearForm
    <3> QED
      BY <1>1, <1>2, <2>2, <2>5, <3>1, PanelHears DEF ShownInv
  <2>6. ASSUME NEW i \in 1 .. Len(asks), HandleForm(i, asks[i])
        PROVE  ShownInv'
    <3>1. CalmInv'
      BY <1>1, <2>6, HandleBeside, CalmBeside
    <3> QED
      BY <1>1, <1>2, <2>6, <3>1, PanelHandles DEF ShownInv
  <2> QED
    BY <1>1, <1>5, <2>1, <2>3, <2>4, <2>5, <2>6, MembersFormed
<1> QED
  BY <1>4, <1>5

\* It holds at first.
LEMMA ShownInit ==
    ASSUME MembersInit
    PROVE  ShownInv
<1>1. TabInv
  BY TabInit
<1>2. /\ store.ws = None /\ store.list = <<>> /\ store.id = None /\ \A i \in Slots : flow[i].kind = "no"
      /\ asks = <<>> /\ panel.open = FALSE
  BY DEF MembersInit, NavInit, NoFlow
<1>3. CalmInv
  BY <1>2, NavNames DEF CalmInv, Belongs, Rest, ListTrue, HomeTrue, ShownTrue
<1>4. PanelInv
  BY <1>2 DEF PanelInv, Screen
<1> QED
  BY <1>1, <1>3, <1>4 DEF ShownInv

\* It is all that MembersOK says.
LEMMA ShownMeans ==
    ASSUME ShownInv
    PROVE  MembersOK
<1>1. KeptInv /\ NavInv /\ NavShape /\ AsksInv /\ CalmInv /\ PanelInv
  BY DEF ShownInv, TabInv, NavInv
<1>2. NavTypeOK
  <2>1. \A k \in 1 .. Len(spaces) : spaces[k] \in Workspaces
    BY <1>1, ElementOfSeq DEF KeptInv, Tables
  <2>2. member \in [Workspaces -> [Users -> Roles \cup {None}]]
    BY <1>1 DEF KeptInv, Tables
  <2>3. home \in [Projects -> Workspaces \cup {None}] /\ archived \subseteq Projects /\ edits \in [Projects -> Nat]
    BY <1>1 DEF NavShape, TablesOK
  <2>4. /\ store.ws \in Workspaces \cup {None} /\ store.role \in Roles \cup {None}
        /\ store.id \in Projects \cup {Mock, None} /\ (store.ws # None => store.role # None)
    BY <1>1 DEF NavShape, StoreOK, Stores, Shownable
  <2>5. \A i \in Slots :
          /\ flow[i].kind \in Kinds \cup {"no"} /\ flow[i].by \in Users \cup {None}
          /\ flow[i].live => store.id = None /\ user # None
    BY <1>1 DEF NavShape, FlowsOK, FlowOK
  <2>6. user \in Users \cup {None} /\ busy \in BOOLEAN /\ flows \in 0 .. MaxFlows /\ faults \in FaultSets
    BY <1>1 DEF NavShape
  <2> QED
    BY <2>1, <2>2, <2>3, <2>4, <2>5, <2>6 DEF NavTypeOK
<1>3. AtRestFits
  BY <1>1 DEF AtRestFits, CalmInv, Calm, Rest, ListTrue, HomeTrue, ShownTrue
<1>4. MembersTypeOK
  <2>1. \A k \in 1 .. Len(asks) : asks[k] \in Proper(user, Spared)
    BY <1>1, ElementOfSeq DEF AsksInv
  <2>2. \A r \in Proper(user, Spared) :
          /\ r.what \in {"list", "role", "remove", "invite"}
          /\ r.at \in {"check", "see", "act", "ok", "failed"}
          /\ r.at \in {"ok", "failed"} => r.by = user
          /\ r.by \in Users /\ r.ws \in Workspaces \cup {Mock}
    BY DEF Proper, Requests
  <2>3. panel \in Panels /\ changes \in 0 .. MaxChanges
    BY <1>1 DEF AsksInv
  <2> QED
    BY <2>1, <2>2, <2>3 DEF MembersTypeOK, Mine, Panels, Rowss
<1>5. PanelTrue
  <2>1. ASSUME NEW r, asks = <<r>>
        PROVE  asks # <<>>
    BY <2>1
  <2> QED
    BY <1>1, <2>1 DEF PanelTrue, PanelInv, PanelCalm, Screen
<1> QED
  BY <1>2, <1>3, <1>4, <1>5 DEF MembersOK, NavOK

\* For any users, workspaces, projects and requests: types; what is shown at rest is what the
\* server has when nothing failed and no two flows overlapped; and the members on screen are those
\* of the project's workspace, whatever failed, if one thing was done after the other.
THEOREM MembersCorrect == MembersSpec => []MembersOK
<1>1. MembersInit => ShownInv
  BY ShownInit
<1>2. ShownInv /\ [MembersNext]_mvars => ShownInv'
  BY ShownStep
<1>3. ShownInv => MembersOK
  BY ShownMeans
<1> QED
  BY <1>1, <1>2, <1>3, PTL DEF MembersSpec
=============================================================================
