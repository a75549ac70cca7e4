-------------------------- MODULE ConnectionProofs --------------------------
(***************************************************************************)
(* What the two modules about a tab's connections guarantee: Session, for  *)
(* any number of tabs, users, calls and tokens and all faults, and         *)
(* Presence, for any number of other tabs and users, positions and         *)
(* projects.  The two have nothing in common but this file.                *)
(***************************************************************************)
EXTENDS Session, Presence, SequenceTheorems, TLAPS

(***************************************************************************)
(* SESSION                                                                 *)
(***************************************************************************)
AllCalls == Calls \cup {Logout}

Forms == [at : {"no", "sent", "answer"}, user : Users \cup {None}, token : AccessTokens \cup {None}]
Refreshes == [at : {"no", "sent", "answer"}, token : Tokens \cup {None},
              access : AccessTokens \cup {None}]
CallRecords == [at : {"no", "sent", "ok", "failed", "refused", "waiting"},
                access : AccessTokens \cup {None}, again : BOOLEAN,
                by : Users \cup {None}, token : Tokens \cup {None}]

(***************************************************************************)
(* A session names a user exactly if it has a refresh token, and that is   *)
(* the user's.  An access token comes from a refresh token that was given  *)
(* out, is no newer than the epoch, and no newer than the end of the token *)
(* it comes from: that is what makes LogoutReachesAll inductive.           *)
(***************************************************************************)
SoundIn(s, o) ==
    /\ s \in Sessions
    /\ s.user = None <=> s.refresh = None
    /\ s.user # None => o[s.refresh] = s.user
Sound(s) == SoundIn(s, owner)

HeldIn(a, o, v, e) ==
    /\ a \in AccessTokens \cup {None}
    /\ a # None => o[a.from] # None /\ a.epoch <= e /\ (v[a.from] # None => a.epoch <= v[a.from])
Held(a) == HeldIn(a, owner, revoked, epoch)

ServerOK ==
    /\ owner \in [Tokens -> Users \cup {None}]
    /\ revoked \in [Tokens -> (0 .. MaxEpoch) \cup {None}]
    /\ lapsed \subseteq Tokens /\ epoch \in 0 .. MaxEpoch
    /\ \A k \in Tokens : revoked[k] # None => owner[k] # None
    /\ reloads \in 0 .. MaxReloads /\ faults \in FaultSets

TabOK(t) ==
    /\ form[t] \in Forms /\ refreshing[t] \in Refreshes /\ call[t] \in [AllCalls -> CallRecords]
    /\ Sound(session[t]) /\ Held(session[t].access)
    /\ form[t].at # "no" => form[t].user \in Users
    /\ form[t].at = "answer" =>
         /\ form[t].token \in AccessTokens /\ Held(form[t].token)
         /\ owner[form[t].token.from] # None
    /\ Held(refreshing[t].access)
    /\ refreshing[t].at # "no" => refreshing[t].token \in Tokens /\ owner[refreshing[t].token] # None
    /\ refreshing[t].access # None => refreshing[t].access.from = refreshing[t].token
    /\ refreshing[t].at = "no" => refreshing[t].access = None
    /\ \A c \in AllCalls : Held(call[t][c].access)
    /\ \A c \in AllCalls : call[t][c].token # None => owner[call[t][c].token] # None

(***************************************************************************)
(* While nobody signs in before the answers to the calls of the session    *)
(* before have come, all that is on its way in a tab is of its one user.   *)
(***************************************************************************)
Single(s) == s.user # None /\ s.access # None => s.access.from = s.refresh

OwnCall(t, c) ==
    call[t][c] # Unsent =>
      /\ session[t].user # None => call[t][c].by = session[t].user
      /\ refreshing[t].at # "no" => owner[refreshing[t].token] = call[t][c].by
      /\ call[t][c].access # None => owner[call[t][c].access.from] = call[t][c].by
      /\ call[t][c].at = "waiting" => refreshing[t].at # "no"
      /\ call[t][c].at = "ok" => call[t][c].access # None

OneUser(t) ==
    /\ Single(session[t])
    /\ form[t] # Blank => Idle(t) /\ ~Authed(t)
    /\ refreshing[t].at # "no" /\ session[t].user # None => refreshing[t].token = session[t].refresh
    /\ \A c \in AllCalls : OwnCall(t, c)

Shapes ==
    /\ session = [t \in Tabs |-> session[t]] /\ form = [t \in Tabs |-> form[t]]
    /\ refreshing = [t \in Tabs |-> refreshing[t]] /\ call = [t \in Tabs |-> call[t]]

StoredOK == Sound(stored) /\ Held(stored.access) /\ (~May("late") => Single(stored))
Good(t) == TabOK(t) /\ (~May("late") => OneUser(t))

SessionInv == ServerOK /\ Shapes /\ StoredOK /\ \A t \in Tabs : Good(t)

-----------------------------------------------------------------------------
(* What no step takes back.                                                 *)

\* Tokens are given out once and revoked once, and the epoch goes on.
Later ==
    /\ \A k \in Tokens : owner[k] # None => owner'[k] = owner[k]
    /\ \A k \in Tokens : /\ revoked[k] # None => revoked'[k] = revoked[k]
                         /\ revoked'[k] \in {revoked[k], epoch}
    /\ epoch' \in Nat /\ epoch <= epoch'

\* A token that was held may still be held.
LEMMA HeldLater ==
    ASSUME ServerOK, Later, NEW a, Held(a)
    PROVE  HeldIn(a, owner', revoked', epoch')
<1> SUFFICES ASSUME a # None PROVE HeldIn(a, owner', revoked', epoch')
  BY DEF Held, HeldIn
<1>1. a \in AccessTokens /\ a.from \in Tokens /\ a.epoch \in Nat /\ epoch \in Nat
  BY SessionBounds DEF Held, HeldIn, AccessTokens, ServerOK
<1> QED
  BY <1>1 DEF Held, HeldIn, Later

\* A session that named a user rightly still does.
LEMMA SoundLater ==
    ASSUME Later, NEW s, Sound(s)
    PROVE  SoundIn(s, owner')
  BY NamesApart DEF Sound, SoundIn, Later, Sessions

\* A tab in which nothing happened is as good as before.
LEMMA Untouched ==
    ASSUME ServerOK, Later, NEW t \in Tabs, Good(t), faults' = faults,
           session'[t] = session[t], form'[t] = form[t], refreshing'[t] = refreshing[t],
           call'[t] = call[t]
    PROVE  Good(t)'
<1>1. Sound(session[t])' /\ Held(session[t].access)' /\ Held(refreshing[t].access)'
      /\ (form[t].at = "answer" => Held(form[t].token)')
      /\ \A c \in AllCalls : Held(call[t][c].access)'
  BY HeldLater, SoundLater DEF Good, TabOK, Sound, Held
<1>7. ASSUME NEW c \in AllCalls, call[t][c].token # None
      PROVE  owner'[call[t][c].token] # None
  BY <1>7 DEF Good, TabOK, Later, CallRecords
<1>2. form[t].at = "answer" => owner'[form[t].token.from] # None
  BY <1>1 DEF Good, TabOK, Later, AccessTokens
<1>3. refreshing[t].at # "no" => owner'[refreshing[t].token] = owner[refreshing[t].token]
  BY DEF Good, TabOK, Later
<1>4. TabOK(t)'
  BY <1>1, <1>2, <1>3, <1>7 DEF Good, TabOK
<1>5. ASSUME NEW c \in AllCalls, call[t][c].access # None
      PROVE  owner'[call[t][c].access.from] = owner[call[t][c].access.from]
  <2>1. Held(call[t][c].access)
    BY DEF Good, TabOK
  <2> QED
    BY <1>5, <2>1 DEF Held, HeldIn, AccessTokens, Later
<1>6. ASSUME ~May("late") PROVE OneUser(t)'
  BY <1>3, <1>5, <1>6 DEF Good, OneUser, OwnCall, Single, Idle, Authed
<1> QED
  BY <1>4, <1>6 DEF Good, May

-----------------------------------------------------------------------------
(* Each step, in the tab that takes it.                                     *)

LEMMA SignInTab ==
    ASSUME SessionInv, NEW t \in Tabs, NEW u \in Users, SignIn(t, u)
    PROVE  Good(t)'
<1>1. /\ session'[t] = session[t] /\ form'[t] = [Blank EXCEPT !.at = "sent", !.user = u]
      /\ refreshing' = refreshing /\ call' = call /\ faults' = faults
      /\ owner' = owner /\ revoked' = revoked /\ epoch' = epoch
  BY DEF SignIn, Put, SessionInv, Shapes, serverVars
<1>2. Good(t) /\ ~Authed(t) /\ (May("late") \/ Idle(t))
  BY DEF SignIn, SessionInv
<1> QED
  BY <1>1, <1>2, NamesApart DEF Good, TabOK, OneUser, OwnCall, Sound, Held, Single, Idle, Authed,
     Blank, Forms, May

LEMMA IssueTokenPairTab ==
    ASSUME SessionInv, Later, NEW t \in Tabs, IssueTokenPair(t)
    PROVE  Good(t)'
<1>1. PICK k \in Tokens :
        /\ owner[k] = None /\ owner' = [owner EXCEPT ![k] = form[t].user]
        /\ form' = [form EXCEPT ![t].at = "answer", ![t].token = [from |-> k, epoch |-> epoch]]
  BY DEF IssueTokenPair
<1> DEFINE a == [from |-> k, epoch |-> epoch]
<1>2. /\ session' = session /\ refreshing' = refreshing /\ call' = call /\ faults' = faults
      /\ revoked' = revoked /\ epoch' = epoch /\ form[t].at = "sent"
      /\ form'[t] = [form[t] EXCEPT !.at = "answer", !.token = a]
  BY <1>1 DEF IssueTokenPair, SessionInv, Shapes
<1>3. Good(t) /\ ServerOK
  BY DEF SessionInv
<1>4. /\ a \in AccessTokens /\ owner'[k] = form[t].user /\ owner'[k] # None /\ revoked[k] = None
      /\ form[t].user \in Users
  BY <1>1, <1>2, <1>3, NamesApart DEF Good, TabOK, ServerOK, AccessTokens
<1>5. HeldIn(a, owner', revoked', epoch')
  BY <1>2, <1>3, <1>4, SessionBounds DEF HeldIn, ServerOK
<1>6. /\ form'[t] \in Forms /\ form'[t].at = "answer" /\ form'[t].token = a
      /\ form'[t].user = form[t].user
  BY <1>2, <1>3, <1>4 DEF Good, TabOK, Forms
<1>7. /\ Sound(session[t])' /\ Held(session[t].access)' /\ Held(refreshing[t].access)'
      /\ \A c \in AllCalls : Held(call[t][c].access)'
  BY <1>2, <1>3, HeldLater, SoundLater DEF Good, TabOK, Sound, Held
<1>11. ASSUME NEW c \in AllCalls, call[t][c].token # None
       PROVE  owner'[call[t][c].token] # None
  BY <1>3, <1>11 DEF Good, TabOK, Later, CallRecords
<1>8. refreshing[t].at # "no" => owner'[refreshing[t].token] = owner[refreshing[t].token]
  BY <1>3 DEF Good, TabOK, Later
<1>9. TabOK(t)'
  BY <1>2, <1>3, <1>4, <1>5, <1>6, <1>7, <1>8, <1>11 DEF Good, TabOK, Held
<1>10. ASSUME ~May("late") PROVE OneUser(t)'
  <2>1. Idle(t) /\ ~Authed(t) /\ Single(session[t])
    BY <1>2, <1>3, <1>10 DEF Good, OneUser, Blank
  <2> QED
    BY <1>2, <2>1 DEF OneUser, OwnCall, Single, Idle, Authed, NoRefresh, AllCalls
<1> QED
  BY <1>2, <1>9, <1>10 DEF Good, May

LEMMA AnswerSignInTab ==
    ASSUME SessionInv, NEW t \in Tabs, AnswerSignIn(t)
    PROVE  Good(t)' /\ Sound(session[t])' /\ Held(session[t].access)' /\ Single(session[t])'
<1> DEFINE a == form[t].token
           s == [user |-> owner[a.from], access |-> a, refresh |-> a.from]
<1>1. /\ session'[t] = s /\ form'[t] = Blank /\ form[t].at = "answer"
      /\ refreshing' = refreshing /\ call' = call /\ faults' = faults
      /\ owner' = owner /\ revoked' = revoked /\ epoch' = epoch
  BY DEF AnswerSignIn, Put, SessionInv, Shapes, serverVars
<1>2. Good(t) /\ ServerOK
  BY DEF SessionInv
<1>3. /\ a \in AccessTokens /\ a.from \in Tokens /\ Held(a)
      /\ owner[a.from] # None /\ owner[a.from] \in Users
  BY <1>1, <1>2 DEF Good, TabOK, AccessTokens, ServerOK
<1>4. Sound(s) /\ Single(s) /\ Blank \in Forms /\ s.access = a
  BY <1>3, NamesApart DEF Sound, SoundIn, Single, Sessions, Blank, Forms
<1>5. TabOK(t)'
  BY <1>1, <1>2, <1>3, <1>4 DEF Good, TabOK, Sound, Held, Blank
<1>6. ASSUME ~May("late") PROVE OneUser(t)'
  <2>1. Idle(t)
    BY <1>1, <1>2, <1>6 DEF Good, OneUser, Blank
  <2> QED
    BY <1>1, <1>4, <2>1 DEF OneUser, OwnCall, Idle, Single, NoRefresh, AllCalls
<1> QED
  BY <1>1, <1>3, <1>4, <1>5, <1>6 DEF Good, May, Sound, Held, Single

LEMMA FailSignInTab ==
    ASSUME SessionInv, NEW t \in Tabs, FailSignIn(t)
    PROVE  Good(t)'
<1>1. /\ session'[t] = session[t] /\ form'[t] = Blank
      /\ refreshing' = refreshing /\ call' = call /\ faults' = faults
      /\ owner' = owner /\ revoked' = revoked /\ epoch' = epoch
  BY DEF FailSignIn, Put, SessionInv, Shapes, serverVars
<1>2. Good(t) /\ Blank \in Forms
  BY DEF SessionInv, Blank, Forms
<1> QED
  BY <1>1, <1>2 DEF Good, TabOK, OneUser, OwnCall, Sound, Held, Single, Idle, Authed, Blank, May

\* A call that begins, with the session's own token.
LEMMA Begins ==
    ASSUME NEW t \in Tabs, Good(t), NEW c \in AllCalls, NEW r \in CallRecords, Authed(t),
           r.access = session[t].access, r.by = session[t].user, r.at = "sent",
           r.token \in {None, session[t].refresh},
           session'[t] = session[t], form' = form, refreshing' = refreshing, faults' = faults,
           owner' = owner, revoked' = revoked, epoch' = epoch,
           call'[t] = [call[t] EXCEPT ![c] = r]
    PROVE  Good(t)'
<1>1. \A d \in AllCalls : call'[t][d] = IF d = c THEN r ELSE call[t][d]
  BY DEF Good, TabOK
<1>2. TabOK(t)'
  BY <1>1 DEF Good, TabOK, Sound, SoundIn, Sessions, Held
<1>3. ASSUME ~May("late") PROVE OneUser(t)'
  <2>1. form[t] = Blank /\ Single(session[t])
        /\ (refreshing[t].at # "no" => refreshing[t].token = session[t].refresh)
        /\ \A d \in AllCalls : OwnCall(t, d)
    BY <1>3 DEF Good, OneUser, Authed
  <2>2. owner[session[t].refresh] = session[t].user
    BY DEF Good, TabOK, Sound, SoundIn, Authed
  <2>3. OwnCall(t, c)'
    BY <1>1, <2>1, <2>2 DEF OwnCall, Single, Authed
  <2>4. ASSUME NEW d \in AllCalls, d # c PROVE OwnCall(t, d)'
    BY <1>1, <2>1, <2>4 DEF OwnCall
  <2> QED
    BY <2>1, <2>3, <2>4 DEF OneUser, Single
<1> QED
  BY <1>2, <1>3 DEF Good, May

LEMMA SendTab ==
    ASSUME SessionInv, NEW t \in Tabs, NEW c \in Calls, Send(t, c)
    PROVE  Good(t)'
<1> DEFINE r == [Unsent EXCEPT !.at = "sent", !.access = session[t].access, !.by = session[t].user]
<1>1. /\ session'[t] = session[t] /\ form' = form /\ refreshing' = refreshing /\ faults' = faults
      /\ owner' = owner /\ revoked' = revoked /\ epoch' = epoch
      /\ call'[t] = [call[t] EXCEPT ![c] = r] /\ Authed(t)
  BY DEF Send, SessionInv, Shapes, serverVars, ToCall
<1>2. Good(t) /\ c \in AllCalls
  BY DEF SessionInv, AllCalls
<1>3. r \in CallRecords
  BY <1>2 DEF Good, TabOK, Sound, SoundIn, Sessions, Unsent, CallRecords
<1>4. r.access = session[t].access /\ r.by = session[t].user /\ r.at = "sent" /\ r.token = None
  BY DEF Unsent
<1> HIDE DEF r
<1> QED
  BY <1>1, <1>2, <1>3, <1>4, Begins

\* A session that is over: what is on its way is of nobody's, or of who comes next.
LEMMA Ends ==
    ASSUME NEW t \in Tabs, Good(t),
           session'[t] = Nobody, form' = form, refreshing' = refreshing, faults' = faults,
           owner' = owner, revoked' = revoked, epoch' = epoch,
           call'[t] \in [AllCalls -> CallRecords],
           \A d \in AllCalls : call'[t][d] \in {call[t][d], Unsent}
    PROVE  Good(t)' /\ Sound(session[t])' /\ Held(session[t].access)' /\ Single(session[t])'
<1>1. Sound(session[t])' /\ Held(session[t].access)' /\ Single(session[t])' /\ ~Authed(t)'
  BY DEF Sound, SoundIn, Held, HeldIn, Single, Nobody, Sessions, Authed
<1>2. /\ \A d \in AllCalls : Held(call[t][d].access)'
      /\ \A d \in AllCalls : call'[t][d].token # None => owner[call'[t][d].token] # None
  BY DEF Good, TabOK, Held, HeldIn, Unsent
<1>3. TabOK(t)'
  BY <1>1, <1>2 DEF Good, TabOK, Held
<1>4. ASSUME ~May("late") PROVE OneUser(t)'
  <2>1. \A d \in AllCalls : OwnCall(t, d)'
    BY <1>4 DEF Good, OneUser, OwnCall, Nobody
  <2>2. Idle(t) => Idle(t)'
    BY DEF Idle, AllCalls
  <2> QED
    BY <1>1, <1>4, <2>1, <2>2 DEF Good, OneUser, Nobody
<1> QED
  BY <1>1, <1>3, <1>4 DEF Good, May

LEMMA SignOutTab ==
    ASSUME SessionInv, NEW t \in Tabs, SignOut(t)
    PROVE  Good(t)' /\ Sound(stored)' /\ Held(stored.access)' /\ (~May("late") => Single(stored))'
<1> DEFINE r == [at |-> "sent", access |-> session[t].access, again |-> FALSE,
                 by |-> session[t].user, token |-> session[t].refresh]
<1>1. /\ form' = form /\ refreshing' = refreshing /\ faults' = faults
      /\ owner' = owner /\ revoked' = revoked /\ epoch' = epoch /\ Authed(t)
  BY DEF SignOut, serverVars
<1>2. Good(t) /\ StoredOK /\ Logout \in AllCalls
  BY DEF SessionInv, AllCalls
<1>3. CASE session[t].refresh = None
  BY <1>1, <1>2, <1>3 DEF Good, TabOK, Sound, SoundIn, Authed
<1>4. CASE session[t].refresh # None
  <2>1. /\ call'[t] = [call[t] EXCEPT ![Logout] = r] /\ session'[t] = session[t] /\ stored' = stored
    BY <1>4 DEF SignOut, ToCall, SessionInv, Shapes
  <2>2. r \in CallRecords
    BY <1>2 DEF Good, TabOK, Sound, SoundIn, Sessions, CallRecords
  <2>3. /\ r.access = session[t].access /\ r.by = session[t].user /\ r.at = "sent"
        /\ r.token = session[t].refresh
    OBVIOUS
  <2> HIDE DEF r
  <2>4. Good(t)'
    BY <1>1, <1>2, <2>1, <2>2, <2>3, Begins
  <2> QED
    BY <1>1, <1>2, <2>1, <2>4 DEF StoredOK, Sound, Held, May
<1> QED
  BY <1>3, <1>4

LEMMA ServeTab ==
    ASSUME SessionInv, Later, NEW t \in Tabs, NEW c \in AllCalls, Serve(t, c)
    PROVE  Good(t)'
<1>1. /\ session' = session /\ form' = form /\ refreshing' = refreshing /\ faults' = faults
      /\ owner' = owner /\ epoch' = epoch /\ call[t][c].at = "sent"
  BY DEF Serve
<1>2. Good(t) /\ ServerOK
  BY DEF SessionInv
<1>3. PICK how \in {"ok", "failed", "refused"} :
        call'[t] = [call[t] EXCEPT ![c].at = how] /\ (how = "ok" => call[t][c].access # None)
  BY DEF Serve, SessionInv, Shapes, Valid
<1>4. /\ call'[t] \in [AllCalls -> CallRecords]
      /\ \A d \in AllCalls : d # c => call'[t][d] = call[t][d]
      /\ call'[t][c] = [call[t][c] EXCEPT !.at = how] /\ call[t][c] \in CallRecords
  BY <1>2, <1>3 DEF Good, TabOK, CallRecords
<1>5. /\ call'[t][c].access = call[t][c].access /\ call'[t][c].by = call[t][c].by
      /\ call'[t][c].at # "waiting" /\ call'[t][c].token = call[t][c].token
      /\ call'[t][c].at = "ok" => call[t][c].access # None
  BY <1>3, <1>4 DEF CallRecords
<1>6. /\ Sound(session[t])' /\ Held(session[t].access)' /\ Held(refreshing[t].access)'
      /\ (form[t].at = "answer" => Held(form[t].token)')
      /\ \A d \in AllCalls : HeldIn(call[t][d].access, owner', revoked', epoch')
  BY <1>1, <1>2, HeldLater, SoundLater DEF Good, TabOK, Sound, Held
<1>7. /\ \A d \in AllCalls : Held(call[t][d].access)'
      /\ \A d \in AllCalls : call'[t][d].token # None => owner[call'[t][d].token] # None
  BY <1>2, <1>4, <1>5, <1>6 DEF Good, TabOK, Held
<1>8. TabOK(t)'
  BY <1>1, <1>2, <1>4, <1>6, <1>7 DEF Good, TabOK
<1>9. ASSUME ~May("late") PROVE OneUser(t)'
  <2>1. call[t][c] # Unsent /\ form[t] = Blank
    BY <1>1, <1>2, <1>9 DEF Good, OneUser, Idle, Unsent, AllCalls
  <2>2. OwnCall(t, c)'
    BY <1>1, <1>2, <1>5, <1>9, <2>1 DEF Good, OneUser, OwnCall
  <2>3. ASSUME NEW d \in AllCalls, d # c PROVE OwnCall(t, d)'
    BY <1>1, <1>2, <1>4, <1>9, <2>3 DEF Good, OneUser, OwnCall
  <2> QED
    BY <1>1, <1>2, <1>9, <2>1, <2>2, <2>3 DEF Good, OneUser, Single
<1> QED
  BY <1>1, <1>8, <1>9 DEF Good, May

\* A call that ends, with the session if it was the one that signs out.
LEMMA FinishTab ==
    ASSUME SessionInv, NEW t \in Tabs, NEW c \in AllCalls, Answer(t, c) \/ FailCall(t, c)
    PROVE  Good(t)' /\ Sound(stored)' /\ Held(stored.access)' /\ (~May("late") => Single(stored))'
<1>1. /\ form' = form /\ refreshing' = refreshing /\ faults' = faults
      /\ owner' = owner /\ revoked' = revoked /\ epoch' = epoch
  BY DEF Answer, FailCall, serverVars
<1>2. Good(t) /\ StoredOK /\ Unsent \in CallRecords
  BY DEF SessionInv, Unsent, CallRecords
<1>3. call'[t] = [call[t] EXCEPT ![c] = Unsent]
  BY DEF Answer, FailCall, Finish, ToCall, SessionInv, Shapes
<1>4. /\ call'[t] \in [AllCalls -> CallRecords]
      /\ \A d \in AllCalls : call'[t][d] = IF d = c THEN Unsent ELSE call[t][d]
  BY <1>2, <1>3 DEF Good, TabOK
<1>5. CASE c = Logout
  <2>1. session'[t] = Nobody /\ stored' = Nobody
    BY <1>5 DEF Answer, FailCall, Finish, Put, SessionInv, Shapes
  <2>2. Good(t)' /\ Sound(session[t])' /\ Held(session[t].access)' /\ Single(session[t])'
    BY <1>1, <1>2, <1>4, <2>1, Ends
  <2> QED
    BY <2>1, <2>2 DEF Sound, Held, Single
<1>6. CASE c # Logout
  <2>1. session' = session /\ stored' = stored
    BY <1>6 DEF Answer, FailCall, Finish
  <2>2. TabOK(t)'
    BY <1>1, <1>2, <1>4, <2>1 DEF Good, TabOK, Sound, Held, HeldIn, Unsent
  <2>3. ASSUME ~May("late") PROVE OneUser(t)'
    <3>1. \A d \in AllCalls : OwnCall(t, d)'
      BY <1>1, <1>2, <1>4, <2>1, <2>3 DEF Good, OneUser, OwnCall
    <3>2. Idle(t) => Idle(t)'
      BY <1>1, <1>4 DEF Idle, AllCalls
    <3> QED
      BY <1>1, <1>2, <2>1, <2>3, <3>1, <3>2 DEF Good, OneUser, Single, Authed
  <2> QED
    BY <1>1, <1>2, <2>1, <2>2, <2>3 DEF Good, StoredOK, Sound, Held, May
<1> QED
  BY <1>5, <1>6

LEMMA AwaitRefreshTab ==
    ASSUME SessionInv, NEW t \in Tabs, NEW c \in AllCalls, AwaitRefresh(t, c)
    PROVE  Good(t)'
<1> DEFINE f == [NoRefresh EXCEPT !.at = "sent", !.token = session[t].refresh]
<1>1. /\ session' = session /\ form' = form /\ faults' = faults
      /\ owner' = owner /\ revoked' = revoked /\ epoch' = epoch
      /\ call[t][c].at = "refused" /\ (refreshing[t].at # "no" \/ session[t].refresh # None)
      /\ call'[t] = [call[t] EXCEPT ![c] = [call[t][c] EXCEPT !.at = "waiting"]]
      /\ refreshing'[t] = IF refreshing[t].at # "no" THEN refreshing[t] ELSE f
  BY DEF AwaitRefresh, ToCall, SessionInv, Shapes, serverVars
<1>2. Good(t)
  BY DEF SessionInv
<1>3. /\ call'[t] \in [AllCalls -> CallRecords]
      /\ \A d \in AllCalls : d # c => call'[t][d] = call[t][d]
      /\ call'[t][c] = [call[t][c] EXCEPT !.at = "waiting"] /\ call[t][c] \in CallRecords
  BY <1>1, <1>2 DEF Good, TabOK, CallRecords
<1>4. /\ call'[t][c].access = call[t][c].access /\ call'[t][c].by = call[t][c].by
      /\ call'[t][c].token = call[t][c].token /\ call'[t][c].at = "waiting"
  BY <1>3 DEF CallRecords
<1>5. /\ f \in Refreshes /\ f.at = "sent" /\ f.token = session[t].refresh /\ f.access = None
      /\ session[t].refresh # None =>
           /\ session[t].refresh \in Tokens /\ session[t].user \in Users
           /\ owner[session[t].refresh] = session[t].user
  BY <1>2 DEF Good, TabOK, Sound, SoundIn, Sessions, NoRefresh, Refreshes
<1> HIDE DEF f
<1>6. TabOK(t)'
  BY <1>1, <1>2, <1>3, <1>4, <1>5, NamesApart DEF Good, TabOK, Sound, Held, HeldIn
<1>7. ASSUME ~May("late") PROVE OneUser(t)'
  <2>1. call[t][c] # Unsent /\ form[t] = Blank
    BY <1>1, <1>2, <1>7 DEF Good, OneUser, Idle, Unsent, AllCalls
  <2>2. ASSUME NEW d \in AllCalls PROVE OwnCall(t, d)'
    <3>1. OwnCall(t, d) /\ OwnCall(t, c)
      BY <1>2, <1>7 DEF Good, OneUser
    <3>2. session[t].refresh # None => session[t].user # None
      BY <1>2 DEF Good, TabOK, Sound, SoundIn
    <3>3. CASE d = c
      BY <1>1, <1>4, <1>5, <2>1, <3>1, <3>2, <3>3 DEF OwnCall
    <3>4. CASE d # c
      BY <1>1, <1>3, <1>5, <2>1, <3>1, <3>2, <3>4 DEF OwnCall
    <3> QED
      BY <3>3, <3>4
  <2> QED
    BY <1>1, <1>2, <1>5, <1>7, <2>1, <2>2 DEF Good, OneUser, Single
<1> QED
  BY <1>1, <1>6, <1>7 DEF Good, May

LEMMA ServeRefreshTab ==
    ASSUME SessionInv, NEW t \in Tabs, ServeRefresh(t)
    PROVE  Good(t)'
<1> DEFINE k == refreshing[t].token
           a == [from |-> k, epoch |-> epoch]
<1>1. /\ session' = session /\ form' = form /\ faults' = faults /\ call' = call
      /\ owner' = owner /\ revoked' = revoked /\ epoch' = epoch /\ refreshing[t].at = "sent"
  BY DEF ServeRefresh, serverVars
<1>2. Good(t) /\ ServerOK
  BY DEF SessionInv
<1>3. PICK got \in {a, None, refreshing[t].access} :
        /\ refreshing'[t] = [refreshing[t] EXCEPT !.at = "answer", !.access = got]
        /\ got = a => Usable(k) \/ a = None \/ a = refreshing[t].access
  <2>1. CASE refreshing' = [refreshing EXCEPT ![t].at = "answer",
                              ![t].access = IF Usable(k) THEN a ELSE None]
    BY <2>1 DEF SessionInv, Shapes
  <2>2. CASE refreshing' = [refreshing EXCEPT ![t].at = "answer"]
    <3>1. refreshing'[t] = [refreshing[t] EXCEPT !.at = "answer"]
      BY <2>2 DEF SessionInv, Shapes
    <3>2. @ = [refreshing[t] EXCEPT !.at = "answer", !.access = refreshing[t].access]
      BY <1>2 DEF Good, TabOK, Refreshes
    <3> QED
      BY <3>1, <3>2
  <2> QED
    BY <2>1, <2>2 DEF ServeRefresh
<1>4. k \in Tokens /\ owner[k] # None
  BY <1>1, <1>2 DEF Good, TabOK
<1>5. Usable(k) => a \in AccessTokens /\ HeldIn(a, owner, revoked, epoch) /\ a.from = k
  BY <1>2, <1>4, SessionBounds DEF Usable, HeldIn, AccessTokens, ServerOK
<1>6. HeldIn(got, owner, revoked, epoch) /\ (got # None => got.from = k)
  BY <1>2, <1>3, <1>5 DEF Good, TabOK, Held, HeldIn
<1>7. /\ refreshing'[t] \in Refreshes /\ refreshing'[t].at = "answer" /\ refreshing'[t].token = k
      /\ refreshing'[t].access = got
  BY <1>2, <1>3, <1>6 DEF Good, TabOK, Refreshes, HeldIn
<1>8. TabOK(t)'
  BY <1>1, <1>2, <1>4, <1>6, <1>7 DEF Good, TabOK, Sound, Held
<1>9. ASSUME ~May("late") PROVE OneUser(t)'
  <2>1. refreshing[t] # NoRefresh /\ form[t] = Blank
    BY <1>1, <1>2, <1>9 DEF Good, OneUser, Idle, NoRefresh
  <2> QED
    BY <1>1, <1>2, <1>7, <1>9, <2>1 DEF Good, OneUser, OwnCall, Single
<1> QED
  BY <1>1, <1>8, <1>9 DEF Good, May

LEMMA AnswerRefreshTab ==
    ASSUME SessionInv, NEW t \in Tabs, AnswerRefresh(t)
    PROVE  Good(t)' /\ Sound(stored)' /\ Held(stored.access)' /\ (~May("late") => Single(stored))'
<1> DEFINE a == refreshing[t].access
           s == IF a = None THEN Nobody ELSE [session[t] EXCEPT !.access = a]
           again(c) == [call[t][c] EXCEPT !.at = "sent", !.again = TRUE, !.access = s.access]
<1>1. /\ session'[t] = s /\ stored' = s /\ form' = form /\ faults' = faults
      /\ owner' = owner /\ revoked' = revoked /\ epoch' = epoch
      /\ refreshing[t].at = "answer" /\ refreshing'[t] = NoRefresh
  BY DEF AnswerRefresh, Put, SessionInv, Shapes, serverVars
<1>10. call'[t] = [c \in AllCalls |-> IF call[t][c].at # "waiting" THEN call[t][c]
                                     ELSE IF a = None THEN Unsent ELSE again(c)]
  BY DEF AnswerRefresh, Retry, SessionInv, Shapes, AllCalls
<1>2. Good(t)
  BY DEF SessionInv
<1>3. /\ NoRefresh \in Refreshes /\ NoRefresh.at = "no" /\ NoRefresh.access = None
      /\ Unsent \in CallRecords /\ Unsent.access = None /\ Unsent.token = None
  BY DEF NoRefresh, Refreshes, Unsent, CallRecords
<1>4. Held(a) /\ (a # None => a.from = refreshing[t].token)
  BY <1>2 DEF Good, TabOK
<1>5. /\ Sound(s) /\ Held(s.access)
      /\ a # None => s.access = a /\ s.user = session[t].user /\ s.refresh = session[t].refresh
      /\ a = None => s = Nobody
  <2>1. CASE a = None
    BY <2>1 DEF Sound, SoundIn, Held, HeldIn, Nobody, Sessions
  <2>2. CASE a # None
    <3>1. /\ s = [session[t] EXCEPT !.access = a] /\ session[t] \in Sessions
          /\ a \in AccessTokens \cup {None}
      BY <1>2, <1>4, <2>2 DEF Good, TabOK, Sound, SoundIn, Held, HeldIn
    <3>2. s \in Sessions /\ s.access = a /\ s.user = session[t].user /\ s.refresh = session[t].refresh
      BY <3>1 DEF Sessions
    <3> QED
      BY <1>2, <1>4, <2>2, <3>2 DEF Good, TabOK, Sound, SoundIn
  <2> QED
    BY <2>1, <2>2
<1> HIDE DEF s
<1>6. ASSUME NEW c \in AllCalls
      PROVE  /\ call[t][c].at # "waiting" => call'[t][c] = call[t][c]
             /\ call[t][c].at = "waiting" /\ a = None => call'[t][c] = Unsent
             /\ call[t][c].at = "waiting" /\ a # None =>
                  /\ call'[t][c].at = "sent" /\ call'[t][c].by = call[t][c].by
                  /\ call'[t][c].access = a
             /\ call'[t][c] \in CallRecords /\ Held(call[t][c].access)'
             /\ call'[t][c].token \in {None, call[t][c].token}
  <2>1. call[t][c] \in CallRecords /\ Held(call[t][c].access) /\ a \in AccessTokens \cup {None}
    BY <1>2, <1>4 DEF Good, TabOK, Held, HeldIn
  <2>2. call[t][c].at = "waiting" /\ a # None =>
          /\ call'[t][c] = again(c) /\ again(c).at = "sent" /\ again(c).by = call[t][c].by
          /\ again(c).access = a /\ again(c) \in CallRecords /\ again(c).token = call[t][c].token
    BY <1>5, <1>10, <2>1 DEF CallRecords
  <2>3. /\ call[t][c].at # "waiting" => call'[t][c] = call[t][c]
        /\ call[t][c].at = "waiting" /\ a = None => call'[t][c] = Unsent
    BY <1>10
  <2> HIDE DEF a, again
  <2> QED
    BY <1>1, <1>3, <1>4, <2>1, <2>2, <2>3 DEF Held, HeldIn
<1>7. call'[t] \in [AllCalls -> CallRecords]
  BY <1>6, <1>10
<1> HIDE DEF again
<1>8. TabOK(t)'
  <2>1. /\ form'[t] \in Forms /\ refreshing'[t] \in Refreshes /\ Sound(session[t])'
        /\ Held(session[t].access)' /\ (form[t].at = "answer" => Held(form[t].token)')
        /\ \A c \in AllCalls : Held(call[t][c].access)'
    BY <1>1, <1>2, <1>3, <1>5, <1>6 DEF Good, TabOK, Sound, Held
  <2>2. Held(refreshing[t].access)' /\ refreshing'[t].access = None /\ refreshing'[t].at = "no"
    BY <1>1, <1>3 DEF Held, HeldIn
  <2>3. \A c \in AllCalls : call'[t][c].token # None => owner'[call'[t][c].token] # None
    BY <1>1, <1>2, <1>6 DEF Good, TabOK
  <2> QED
    BY <1>1, <1>2, <1>7, <2>1, <2>2, <2>3 DEF Good, TabOK
<1>9. ASSUME ~May("late") PROVE OneUser(t)' /\ Single(s)
  <2>1. OneUser(t) /\ refreshing[t] # NoRefresh
    BY <1>1, <1>2, <1>3, <1>9 DEF Good
  <2>4. form[t] = Blank
    BY <2>1 DEF OneUser, Idle
  <2>2. Single(s)
    <3>1. CASE a = None
      BY <1>5, <3>1 DEF Single, Nobody
    <3>2. CASE a # None
      BY <1>1, <1>4, <1>5, <2>1, <3>2 DEF OneUser, Single
    <3> QED
      BY <3>1, <3>2
  <2>3. ASSUME NEW c \in AllCalls PROVE OwnCall(t, c)'
    <3>1. OwnCall(t, c)
      BY <2>1 DEF OneUser
    <3>2. call[t][c].at = "waiting" => call[t][c] # Unsent
      BY DEF Unsent
    <3>3. CASE a = None
      <4>1. session'[t].user = None
        BY <1>1, <1>5, <3>3 DEF Nobody
      <4> QED
        BY <1>1, <1>3, <1>6, <3>1, <3>3, <4>1 DEF OwnCall
    <3>4. CASE a # None
      <4>1. session'[t].user = session[t].user /\ refreshing'[t].at = "no"
        BY <1>1, <1>3, <1>5, <3>4
      <4>2. CASE call[t][c].at = "waiting"
        BY <1>1, <1>4, <1>6, <3>1, <3>2, <3>4, <4>1, <4>2 DEF OwnCall
      <4>3. CASE call[t][c].at # "waiting"
        BY <1>1, <1>6, <3>1, <4>1, <4>3 DEF OwnCall
      <4> QED
        BY <4>2, <4>3
    <3> QED
      BY <3>3, <3>4
  <2> QED
    BY <1>1, <1>3, <2>2, <2>3, <2>4 DEF OneUser, Single
<1> QED
  BY <1>1, <1>5, <1>8, <1>9 DEF Good, May, Sound, Held, Single

LEMMA ReloadTab ==
    ASSUME SessionInv, NEW t \in Tabs, Reload(t)
    PROVE  Good(t)'
<1>1. /\ session'[t] = stored /\ form'[t] = Blank /\ refreshing'[t] = NoRefresh /\ faults' = faults
      /\ owner' = owner /\ revoked' = revoked /\ epoch' = epoch
      /\ call'[t] = [c \in AllCalls |-> Unsent]
  BY DEF Reload, SessionInv, Shapes, serverVars, AllCalls
<1>2. /\ Blank \in Forms /\ Blank.at = "no" /\ NoRefresh \in Refreshes /\ NoRefresh.at = "no"
      /\ NoRefresh.access = None /\ Unsent \in CallRecords /\ Unsent.access = None
      /\ Unsent.token = None
  BY DEF Blank, Forms, NoRefresh, Refreshes, Unsent, CallRecords
<1>3. StoredOK /\ \A c \in AllCalls : call'[t][c] = Unsent
  BY <1>1 DEF SessionInv
<1>4. TabOK(t)'
  BY <1>1, <1>2, <1>3 DEF StoredOK, TabOK, Sound, Held, HeldIn
<1>5. ASSUME ~May("late") PROVE OneUser(t)'
  BY <1>1, <1>2, <1>3, <1>5 DEF StoredOK, OneUser, OwnCall, Single
<1> QED
  BY <1>1, <1>4, <1>5 DEF Good, May

-----------------------------------------------------------------------------
(* The steps together.                                                      *)

TabStep(t) ==
    \/ \E u \in Users : SignIn(t, u)
    \/ FailSignIn(t) \/ SignOut(t) \/ Reload(t)
    \/ \E c \in Calls : Send(t, c)
    \/ IssueTokenPair(t) \/ AnswerSignIn(t) \/ ServeRefresh(t) \/ AnswerRefresh(t)
    \/ \E c \in AllCalls : Serve(t, c) \/ Answer(t, c) \/ AwaitRefresh(t, c) \/ FailCall(t, c)

\* What the server gives out or takes back, whoever asked for it.
LEMMA ServerStep ==
    ASSUME SessionInv, NEW t \in Tabs, TabStep(t)
    PROVE  ServerOK' /\ Later
<1>1. ServerOK /\ Good(t) /\ epoch \in Nat
  BY SessionBounds DEF SessionInv, ServerOK
<1> USE NamesApart, SessionBounds DEF ServerOK, Later
<1>2. ASSUME IssueTokenPair(t) PROVE ServerOK' /\ Later
  BY <1>1, <1>2 DEF IssueTokenPair, Good, TabOK
<1>3. ASSUME NEW c \in AllCalls, Serve(t, c) PROVE ServerOK' /\ Later
  <2>1. \/ revoked' = revoked
        \/ /\ c = Logout /\ revoked[call[t][c].token] = None
           /\ revoked' = [revoked EXCEPT ![call[t][c].token] = epoch]
    BY <1>3 DEF Serve
  <2>2. /\ owner' = owner /\ lapsed' = lapsed /\ epoch' = epoch /\ reloads' = reloads
        /\ faults' = faults
    BY <1>3 DEF Serve
  <2>3. call[t][c].token # None => owner[call[t][c].token] # None
    BY <1>1 DEF Good, TabOK
  <2> QED
    BY <1>1, <2>1, <2>2, <2>3
<1>4. ASSUME Reload(t) PROVE ServerOK' /\ Later
  BY <1>1, <1>4 DEF Reload, serverVars
<1>5. ASSUME UNCHANGED <<serverVars, reloads, faults>> PROVE ServerOK' /\ Later
  BY <1>1, <1>5 DEF serverVars
<1>6. CASE \/ \E u \in Users : SignIn(t, u)
           \/ FailSignIn(t) \/ SignOut(t) \/ AnswerSignIn(t) \/ ServeRefresh(t) \/ AnswerRefresh(t)
           \/ \E c \in Calls : Send(t, c)
           \/ \E c \in AllCalls : Answer(t, c) \/ AwaitRefresh(t, c) \/ FailCall(t, c)
  <2>1. UNCHANGED <<serverVars, reloads, faults>>
    BY <1>6 DEF SignIn, FailSignIn, SignOut, AnswerSignIn, ServeRefresh, AnswerRefresh, Send, Answer,
       AwaitRefresh, FailCall
  <2> QED
    BY <1>5, <2>1
<1> QED
  BY <1>2, <1>3, <1>4, <1>6 DEF TabStep

\* A step of one tab leaves the others alone.
Apart(t) ==
    /\ \A s \in Tabs \ {t} : /\ session'[s] = session[s] /\ form'[s] = form[s]
                             /\ refreshing'[s] = refreshing[s] /\ call'[s] = call[s]
    /\ Shapes' /\ faults' = faults

LEMMA Elsewhere ==
    ASSUME SessionInv, NEW t \in Tabs, TabStep(t)
    PROVE  Apart(t)
<1> USE DEF SessionInv, Shapes, Apart
<1>1. ASSUME NEW u \in Users, SignIn(t, u) PROVE Apart(t)
  BY <1>1 DEF SignIn, Put
<1>2. ASSUME FailSignIn(t) \/ AnswerSignIn(t) PROVE Apart(t)
  BY <1>2 DEF FailSignIn, AnswerSignIn, Put
<1>3. ASSUME SignOut(t) PROVE Apart(t)
  BY <1>3 DEF SignOut, Put, ToCall
<1>4. ASSUME Reload(t) PROVE Apart(t)
  BY <1>4 DEF Reload
<1>5. ASSUME NEW c \in Calls, Send(t, c) PROVE Apart(t)
  BY <1>5 DEF Send, ToCall
<1>6. ASSUME IssueTokenPair(t) \/ ServeRefresh(t) PROVE Apart(t)
  BY <1>6 DEF IssueTokenPair, ServeRefresh
<1>7. ASSUME AnswerRefresh(t) PROVE Apart(t)
  BY <1>7 DEF AnswerRefresh, Put, Retry
<1>8. ASSUME NEW c \in AllCalls, Serve(t, c) \/ AwaitRefresh(t, c) PROVE Apart(t)
  BY <1>8 DEF Serve, AwaitRefresh, ToCall
<1>9. ASSUME NEW c \in AllCalls, Answer(t, c) \/ FailCall(t, c) PROVE Apart(t)
  BY <1>9 DEF Answer, FailCall, Finish, Put, ToCall
<1> QED
  BY <1>1, <1>2, <1>3, <1>4, <1>5, <1>6, <1>7, <1>8, <1>9 DEF TabStep

\* What is stored is what was stored or the session of the tab that writes.
LEMMA StoredStep ==
    ASSUME SessionInv, ServerOK', Later, NEW t \in Tabs, TabStep(t), Good(t)'
    PROVE  StoredOK'
<1>1. StoredOK /\ ServerOK /\ Good(t)
  BY DEF SessionInv
<1>2. faults' = faults
  BY Elsewhere DEF Apart
<1>3. ASSUME stored' = stored PROVE StoredOK'
  BY <1>1, <1>2, <1>3, HeldLater, SoundLater DEF StoredOK, Sound, Held, Single, May
<1>4. ASSUME stored' = session'[t] PROVE StoredOK'
  BY <1>2, <1>4 DEF StoredOK, Good, TabOK, OneUser, Sound, Held, Single, May
<1>5. stored' = stored \/ stored' = session'[t]
  <2> USE DEF SessionInv, Shapes, Put
  <2>1. ASSUME NEW u \in Users, SignIn(t, u) PROVE stored' = session'[t]
    BY <2>1 DEF SignIn
  <2>2. ASSUME FailSignIn(t) \/ AnswerSignIn(t) \/ AnswerRefresh(t) PROVE stored' = session'[t]
    BY <2>2 DEF FailSignIn, AnswerSignIn, AnswerRefresh
  <2>3. ASSUME SignOut(t) PROVE stored' = stored \/ stored' = session'[t]
    BY <2>3 DEF SignOut
  <2>4. ASSUME Reload(t) \/ IssueTokenPair(t) \/ ServeRefresh(t) PROVE stored' = stored
    BY <2>4 DEF Reload, IssueTokenPair, ServeRefresh
  <2>5. ASSUME NEW c \in Calls, Send(t, c) PROVE stored' = stored
    BY <2>5 DEF Send
  <2>6. ASSUME NEW c \in AllCalls, Serve(t, c) \/ AwaitRefresh(t, c) PROVE stored' = stored
    BY <2>6 DEF Serve, AwaitRefresh
  <2>7. ASSUME NEW c \in AllCalls, Answer(t, c) \/ FailCall(t, c)
        PROVE  stored' = stored \/ stored' = session'[t]
    BY <2>7 DEF Answer, FailCall, Finish
  <2> QED
    BY <2>1, <2>2, <2>3, <2>4, <2>5, <2>6, <2>7 DEF TabStep
<1> QED
  BY <1>3, <1>4, <1>5

LEMMA SessionStep ==
    ASSUME SessionInv, [SessionNext]_vars
    PROVE  SessionInv'
<1>1. ASSUME NEW t \in Tabs, TabStep(t) PROVE SessionInv'
  <2>1. ServerOK' /\ Later /\ Apart(t) /\ ServerOK
    BY <1>1, ServerStep, Elsewhere DEF SessionInv
  <2>2. Good(t)'
    BY <1>1, <2>1, SignInTab, FailSignInTab, SignOutTab, ReloadTab, SendTab, IssueTokenPairTab,
       AnswerSignInTab, ServeRefreshTab, AnswerRefreshTab, ServeTab, FinishTab, AwaitRefreshTab
       DEF TabStep
  <2>3. ASSUME NEW s \in Tabs, s # t PROVE Good(s)'
    BY <2>1, <2>3, Untouched DEF SessionInv, Apart
  <2>4. StoredOK'
    BY <1>1, <2>1, <2>2, StoredStep
  <2> QED
    BY <2>1, <2>2, <2>3, <2>4 DEF SessionInv, Apart
<1>2. ASSUME /\ ServerOK' /\ Later /\ faults' = faults
             /\ UNCHANGED <<session, stored, form, refreshing, call>>
      PROVE  SessionInv'
  <2>1. \A s \in Tabs : Good(s)'
    BY <1>2, Untouched DEF SessionInv
  <2>2. StoredOK'
    BY <1>2, HeldLater, SoundLater DEF SessionInv, StoredOK, Sound, Held, Single, May
  <2> QED
    BY <1>2, <2>1, <2>2 DEF SessionInv, Shapes
<1>3. CASE ExpireAccess
  BY <1>2, <1>3, SessionBounds DEF ExpireAccess, SessionInv, ServerOK, Later
<1>4. ASSUME NEW k \in Tokens, LapseRefresh(k) PROVE SessionInv'
  BY <1>2, <1>4, SessionBounds DEF LapseRefresh, SessionInv, ServerOK, Later
<1>5. CASE UNCHANGED vars
  BY <1>2, <1>5, SessionBounds DEF vars, serverVars, SessionInv, ServerOK, Later
<1> QED
  BY <1>1, <1>3, <1>4, <1>5 DEF SessionNext, Handle, TabStep, AllCalls

LEMMA SessionStart == ASSUME SessionInit PROVE SessionInv
<1>1. ServerOK /\ Shapes
  BY SessionBounds DEF SessionInit, ServerOK, Shapes
<1>2. Sound(Nobody) /\ Held(Nobody.access) /\ Single(Nobody)
  BY DEF Sound, SoundIn, Held, HeldIn, Single, Nobody, Sessions
<1>3. /\ Blank \in Forms /\ Blank.at = "no" /\ NoRefresh \in Refreshes /\ NoRefresh.at = "no"
      /\ NoRefresh.access = None /\ Unsent \in CallRecords /\ Unsent.access = None
      /\ Unsent.token = None
  BY DEF Blank, Forms, NoRefresh, Refreshes, Unsent, CallRecords
<1>4. ASSUME NEW t \in Tabs PROVE Good(t)
  <2>1. /\ session[t] = Nobody /\ form[t] = Blank /\ refreshing[t] = NoRefresh
        /\ call[t] = [c \in AllCalls |-> Unsent] /\ \A c \in AllCalls : call[t][c] = Unsent
    BY DEF SessionInit, AllCalls
  <2> QED
    BY <1>2, <1>3, <2>1 DEF Good, TabOK, OneUser, OwnCall, Held, HeldIn
<1> QED
  BY <1>1, <1>2, <1>4 DEF SessionInv, StoredOK, SessionInit

LEMMA SessionInvariant == SessionSpec => []SessionInv
<1>1. SessionInit => SessionInv
  BY SessionStart
<1>2. SessionInv /\ [SessionNext]_vars => SessionInv'
  BY SessionStep
<1> QED
  BY <1>1, <1>2, PTL DEF SessionSpec

-----------------------------------------------------------------------------
(* What a reader should know.                                               *)

\* The tab acts as the user it shows: authStore.ts gives its calls, the second try
\* included, tokens of that user only, unless somebody signs in before an answer to
\* the session before has come.
THEOREM SessionActsAsUser == SessionSpec => []SessionOK
<1>1. SessionInv => SessionTypeOK
  <2> SUFFICES ASSUME SessionInv PROVE SessionTypeOK
    OBVIOUS
  <2>1. \A t \in Tabs : /\ session[t] \in Sessions /\ form[t] \in Forms /\ refreshing[t] \in Refreshes
                        /\ call[t] \in [AllCalls -> CallRecords]
                        /\ session[t].user = None <=> session[t].refresh = None
    BY DEF SessionInv, Good, TabOK, Sound, SoundIn
  <2>2. stored \in Sessions
    BY DEF SessionInv, StoredOK, Sound, SoundIn
  <2>3. /\ session \in [Tabs -> Sessions] /\ form \in [Tabs -> Forms]
        /\ refreshing \in [Tabs -> Refreshes] /\ call \in [Tabs -> [AllCalls -> CallRecords]]
    BY <2>1 DEF SessionInv, Shapes
  <2> QED
    BY <2>1, <2>2, <2>3 DEF SessionInv, ServerOK, SessionTypeOK, Forms, Refreshes, CallRecords, AllCalls
<1>2. SessionInv => ActsAsUser
  <2> SUFFICES ASSUME SessionInv, ~May("late"), NEW t \in Tabs
               PROVE  /\ Authed(t) => /\ owner[session[t].access.from] = session[t].user
                                      /\ session[t].refresh = session[t].access.from
                      /\ \A c \in Calls \cup {Logout} :
                           call[t][c].at = "ok" => owner[call[t][c].access.from] = call[t][c].by
    BY DEF ActsAsUser
  <2>1. OneUser(t) /\ TabOK(t)
    BY DEF SessionInv, Good
  <2>2. ASSUME Authed(t)
        PROVE  owner[session[t].access.from] = session[t].user
               /\ session[t].refresh = session[t].access.from
    BY <2>1, <2>2 DEF OneUser, TabOK, Sound, SoundIn, Single, Authed
  <2>3. ASSUME NEW c \in AllCalls, call[t][c].at = "ok"
        PROVE  owner[call[t][c].access.from] = call[t][c].by
    BY <2>1, <2>3 DEF OneUser, OwnCall, Unsent
  <2> QED
    BY <2>2, <2>3 DEF AllCalls
<1> QED
  BY <1>1, <1>2, SessionInvariant, PTL DEF SessionOK

\* Signing out reaches every tab: what was given out before routes.rs revoked a refresh
\* token runs out, and nothing new comes from it.
THEOREM SessionLogout == SessionSpec => []LogoutReachesAll
<1>1. SessionInv => LogoutReachesAll
  BY DEF SessionInv, StoredOK, Good, TabOK, Held, HeldIn, LogoutReachesAll, AllCalls
<1> QED
  BY <1>1, SessionInvariant, PTL

(***************************************************************************)
(* PRESENCE                                                                *)
(***************************************************************************)
(***************************************************************************)
(* The list.  RosterTrue looks at all messages under way; of a pointer or  *)
(* a playhead that is among them one has to know that its user is listed   *)
(* by the time it is handled, which is what the messages before it say.    *)
(***************************************************************************)

Spoken == Panels \cup {"head"}
MessageOK(msg) ==
    /\ msg \in [kind : Kinds, who : SUBSET People, val : Nat]
    /\ msg.kind # "succeeded" => \E u \in People : msg.who = {u}
    /\ msg.kind = "head" => msg.val \in Times
Messages == {msg \in [kind : Kinds, who : SUBSET People, val : Nat] : MessageOK(msg)}

\* What a message about u makes of the list.
Says(msg, u) == msg.kind # "removed" /\ u \in msg.who

-----------------------------------------------------------------------------
(* Sequences of messages.                                                   *)

LEMMA KindsApart ==
    /\ "succeeded" \notin Panels /\ "added" \notin Panels /\ "removed" \notin Panels
    /\ "head" \notin Panels /\ "clip" \notin Panels
    /\ Panels = {"timeline", "viewport"}
BY DEF Panels

LEMMA Appended ==
    ASSUME NEW q \in Seq(Messages), NEW msg \in Messages
    PROVE  /\ q \o <<msg>> \in Seq(Messages)
           /\ Len(q) \in Nat /\ Len(q \o <<msg>>) = Len(q) + 1
           /\ \A i \in 1 .. Len(q) : (q \o <<msg>>)[i] = q[i]
           /\ (q \o <<msg>>)[Len(q) + 1] = msg
<1>1. <<msg>> \in Seq(Messages) /\ Len(<<msg>>) = 1 /\ <<msg>>[1] = msg
  OBVIOUS
<1> QED
  BY <1>1, ConcatProperties, LenProperties

LEMMA Popped ==
    ASSUME NEW q \in Seq(Messages), q # <<>>
    PROVE  /\ Tail(q) \in Seq(Messages) /\ Head(q) = q[1] /\ q[1] \in Messages
           /\ Len(Tail(q)) \in Nat /\ Len(q) = Len(Tail(q)) + 1
           /\ \A i \in 1 .. Len(Tail(q)) : Tail(q)[i] = q[i + 1]
<1>1. /\ Tail(q) \in Seq(Messages) /\ Len(Tail(q)) = Len(q) - 1 /\ Head(q) = q[1]
      /\ Head(q) \in Messages /\ Len(q) \in Nat /\ Len(Tail(q)) \in Nat
      /\ \A i \in 1 .. Len(q) - 1 : Tail(q)[i] = q[i + 1]
  BY HeadTailProperties, LenProperties
<1> QED
  BY <1>1

LEMMA Element ==
    ASSUME NEW q \in Seq(Messages), NEW i \in 1 .. Len(q)
    PROVE  /\ q[i] \in Messages /\ MessageOK(q[i])
BY ElementOfSeq DEF Messages

-----------------------------------------------------------------------------
(* ListedAfter.                                                             *)

\* It looks at the first n messages only.
LEMMA SamePrefix ==
    ASSUME NEW l, NEW q, NEW r, NEW n \in Nat, NEW u, \A i \in 1 .. n : q[i] = r[i]
    PROVE  ListedAfter(l, q, n, u) <=> ListedAfter(l, r, n, u)
<1>1. \A i \in 1 .. n : i \in Nat /\ \A j \in i + 1 .. n : j \in 1 .. n
  OBVIOUS
<1>2. (\A i \in 1 .. n : ~Tells(q[i], u)) <=> (\A i \in 1 .. n : ~Tells(r[i], u))
  OBVIOUS
<1>3. ASSUME NEW i \in 1 .. n
      PROVE  (\A j \in i + 1 .. n : ~Tells(q[j], u)) <=> (\A j \in i + 1 .. n : ~Tells(r[j], u))
  BY <1>1
<1> QED
  BY <1>2, <1>3 DEF ListedAfter

\* The last message decides, if it says anything.
LEMMA LastWord ==
    ASSUME NEW l, NEW q, NEW n \in Nat, NEW u, q[n + 1] \in Messages
    PROVE  ListedAfter(l, q, n + 1, u)
           <=> IF Tells(q[n + 1], u) THEN Says(q[n + 1], u) ELSE ListedAfter(l, q, n, u)
<1> DEFINE m == n + 1
<1>1. /\ \A i \in 1 .. m : i \in 1 .. n \/ i = m
      /\ \A i \in 1 .. n : i \in 1 .. m /\ m \in i + 1 .. m
      /\ \A i \in 1 .. n : \A j \in i + 1 .. m : j \in i + 1 .. n \/ j = m
      /\ \A i \in 1 .. n : \A j \in i + 1 .. n : j \in i + 1 .. m
      /\ \A j \in m + 1 .. m : FALSE
      /\ m \in 1 .. m
  OBVIOUS
<1>2. CASE Tells(q[m], u)
  <2>1. ListedAfter(l, q, m, u) <=> q[m].kind \in {"succeeded", "added"} /\ u \in q[m].who
    BY <1>1, <1>2 DEF ListedAfter
  <2>2. q[m].kind \in {"succeeded", "added", "removed"}
    BY <1>2 DEF Tells
  <2> QED
    BY <1>2, <2>1, <2>2 DEF Says
<1>3. CASE ~Tells(q[m], u)
  <2>1. ~(q[m].kind \in {"succeeded", "added"} /\ u \in q[m].who)
    BY <1>3 DEF Tells
  <2>2. (\A i \in 1 .. m : ~Tells(q[i], u)) <=> (\A i \in 1 .. n : ~Tells(q[i], u))
    BY <1>1, <1>3
  <2>3. ASSUME NEW i \in 1 .. n
        PROVE  (\A j \in i + 1 .. m : ~Tells(q[j], u)) <=> (\A j \in i + 1 .. n : ~Tells(q[j], u))
    BY <1>1, <1>3
  <2>4. (\E i \in 1 .. m : /\ q[i].kind \in {"succeeded", "added"} /\ u \in q[i].who
                           /\ \A j \in i + 1 .. m : ~Tells(q[j], u))
        <=> (\E i \in 1 .. n : /\ q[i].kind \in {"succeeded", "added"} /\ u \in q[i].who
                               /\ \A j \in i + 1 .. n : ~Tells(q[j], u))
    BY <1>1, <2>1, <2>3
  <2> QED
    BY <1>3, <2>2, <2>4 DEF ListedAfter
<1> QED
  BY <1>2, <1>3

\* The first message has been handled, and k is the list with it.
LEMMA FirstWord ==
    ASSUME NEW l, NEW k, NEW q, NEW r, NEW n \in Nat, NEW u,
           \A i \in 1 .. n : r[i] = q[i + 1],
           u \in k <=> IF Tells(q[1], u) THEN Says(q[1], u) ELSE u \in l
    PROVE  ListedAfter(l, q, n + 1, u) <=> ListedAfter(k, r, n, u)
<1> DEFINE m == n + 1
           Yes(s, i) == s[i].kind \in {"succeeded", "added"} /\ u \in s[i].who
           StillNot(s, i, o) == \A j \in i + 1 .. o : ~Tells(s[j], u)
<1>1. /\ \A i \in 1 .. n : i + 1 \in 1 .. m /\ i + 1 # 1
      /\ \A i \in 1 .. m : i = 1 \/ (i - 1 \in 1 .. n /\ (i - 1) + 1 = i)
      /\ 1 \in 1 .. m
      /\ \A i \in 1 .. n : i \in Int
  OBVIOUS
<1>2. (\A i \in 1 .. m : ~Tells(q[i], u)) <=> (~Tells(q[1], u) /\ \A i \in 1 .. n : ~Tells(r[i], u))
  BY <1>1
<1>3. ASSUME NEW i \in 1 .. n
      PROVE  (Yes(r, i) /\ StillNot(r, i, n)) <=> (Yes(q, i + 1) /\ StillNot(q, i + 1, m))
  <2>1. /\ \A j \in i + 1 .. n : j \in 1 .. n /\ j + 1 \in (i + 1) + 1 .. m
        /\ \A j \in (i + 1) + 1 .. m : j - 1 \in i + 1 .. n /\ j - 1 \in 1 .. n /\ (j - 1) + 1 = j
    OBVIOUS
  <2>2. StillNot(r, i, n) <=> StillNot(q, i + 1, m)
    BY <2>1
  <2> QED
    BY <2>2
<1>4. StillNot(q, 1, m) <=> \A i \in 1 .. n : ~Tells(r[i], u)
  <2>1. /\ \A j \in 1 + 1 .. m : j - 1 \in 1 .. n /\ (j - 1) + 1 = j
        /\ \A j \in 1 .. n : j + 1 \in 1 + 1 .. m
    OBVIOUS
  <2> QED
    BY <2>1
<1>5. (\E i \in 1 .. m : Yes(q, i) /\ StillNot(q, i, m))
      <=> \/ Yes(q, 1) /\ \A i \in 1 .. n : ~Tells(r[i], u)
          \/ \E i \in 1 .. n : Yes(r, i) /\ StillNot(r, i, n)
  <2>1. ASSUME NEW i \in 1 .. m, Yes(q, i), StillNot(q, i, m), i # 1
        PROVE  \E j \in 1 .. n : Yes(r, j) /\ StillNot(r, j, n)
    <3>1. i - 1 \in 1 .. n /\ (i - 1) + 1 = i
      BY <1>1, <2>1
    <3>2. Yes(r, i - 1) /\ StillNot(r, i - 1, n)
      BY <1>3, <2>1, <3>1
    <3> QED
      BY <3>1, <3>2
  <2>2. ASSUME NEW j \in 1 .. n, Yes(r, j), StillNot(r, j, n)
        PROVE  \E i \in 1 .. m : Yes(q, i) /\ StillNot(q, i, m)
    BY <1>1, <1>3, <2>2
  <2> HIDE DEF Yes, StillNot
  <2> QED
    BY <1>1, <1>4, <2>1, <2>2
<1>6. ListedAfter(l, q, m, u)
      <=> \/ u \in l /\ \A i \in 1 .. m : ~Tells(q[i], u)
          \/ \E i \in 1 .. m : Yes(q, i) /\ StillNot(q, i, m)
  BY DEF ListedAfter
<1>7. ListedAfter(k, r, n, u)
      <=> \/ u \in k /\ \A i \in 1 .. n : ~Tells(r[i], u)
          \/ \E i \in 1 .. n : Yes(r, i) /\ StillNot(r, i, n)
  BY DEF ListedAfter
<1>8. Yes(q, 1) => Tells(q[1], u) /\ Says(q[1], u)
  BY DEF Tells, Says
<1>9. Tells(q[1], u) /\ Says(q[1], u) => Yes(q, 1)
  BY DEF Tells, Says
<1> HIDE DEF Yes, StillNot
<1> QED
  BY <1>2, <1>5, <1>6, <1>7, <1>8, <1>9

-----------------------------------------------------------------------------
(* The invariant.                                                           *)

\* The subscription: a list of members is under way only as the first message of a
\* subscription that the tab does not know of yet.
LinkOK ==
    /\ inbox \in Seq(Messages)
    /\ opening = Null \/ opening \in [to : Projects, clip : Nat]
    /\ proj \in Projects /\ show \in BOOLEAN /\ conn \in BOOLEAN /\ expired \in BOOLEAN
    /\ sub \in {"none", "waits", "auth", "asked", "in", "refused"} /\ joined \in BOOLEAN
    /\ sub = "in" => joined
    /\ joined => sub \in {"asked", "in"}
    /\ sub \in {"auth", "asked", "in"} => conn
    /\ sub # "none" => show
    /\ ~joined => inbox = <<>>
    /\ joined /\ sub = "asked" => inbox # <<>> /\ inbox[1].kind = "succeeded"
    /\ \A i \in 1 .. Len(inbox) : inbox[i].kind = "succeeded" => i = 1 /\ sub = "asked"

PeersOK ==
    /\ here \subseteq Others /\ over \in [Others -> Panels \cup {Null}]
    /\ hot \in [Others -> SUBSET Panels]
    /\ time \in [Others -> Times] /\ last \in [Others -> Times] /\ rested \in [Others -> BOOLEAN]
    /\ swallowed \subseteq Others

\* Who points or seeks is listed by the time it is heard.
SpeakersListed ==
    \A i \in 1 .. Len(inbox) : inbox[i].kind \in Spoken =>
        \A u \in inbox[i].who : ListedAfter(list, inbox, i - 1, u)

RosterInv == LinkOK /\ PeersOK /\ list \subseteq People /\ RosterTrue /\ SpeakersListed

-----------------------------------------------------------------------------
(* What a step does to the channel.                                         *)

LEMMA MessageTyped ==
    ASSUME NEW kind \in Kinds, kind # "succeeded", NEW u \in People, NEW val \in Nat,
           kind = "head" => val \in Times
    PROVE  /\ Message(kind, {u}, val) \in Messages
           /\ Message(kind, {u}, val).kind = kind
           /\ Message(kind, {u}, val).who = {u}
           /\ Message(kind, {u}, val).val = val
BY DEF Message, Messages, MessageOK

LEMMA KindsKnown ==
    /\ \A kind \in {"added", "removed", "clip"} \cup Panels :
           kind \in Kinds /\ kind # "succeeded" /\ kind # "head"
    /\ "head" \in Kinds
BY DEF Kinds, Panels

LEMMA UsersKnown == Me \in People /\ \A t \in Others : UserOf[t] \in People
BY DEF People

LEMMA SilenceSent ==
    ASSUME LinkOK, Sent(<<>>)
    PROVE  UNCHANGED inbox
<1>1. inbox \o <<>> = inbox
  BY ConcatEmptySeq DEF LinkOK
<1> QED
  BY <1>1 DEF Sent

\* The tab that comes or goes changes the members as its message says.
LEMMA ComeSays ==
    ASSUME LinkOK, PeersOK, NEW t \in Others, Come(t)
    PROVE  /\ UNCHANGED <<window, link, store>>
           /\ PeersOK'
           /\ \/ UNCHANGED inbox /\ (joined => Members' = Members)
              \/ \E msg \in Messages :
                   /\ Hears /\ inbox' = inbox \o <<msg>> /\ msg.kind = "added"
                   /\ \A u \in People :
                        u \in Members' <=> IF Tells(msg, u) THEN Says(msg, u) ELSE u \in Members
<1>1. /\ UNCHANGED <<window, link, store, over, hot, time, last, rested, swallowed>>
      /\ here' = here \cup {t} /\ t \notin here
      /\ Sent(IF UserOf[t] \in Members THEN <<>> ELSE <<Message("added", {UserOf[t]}, 0)>>)
  BY DEF Come
<1>2. PeersOK' /\ UNCHANGED <<window, link, store>>
  BY <1>1 DEF PeersOK
<1>3. proj' = proj /\ joined' = joined
  BY <1>1 DEF window, link
<1>4. Members' = IF proj = Shared THEN Members \cup {UserOf[t]} ELSE Members
  BY <1>1, <1>3 DEF Members, Present
<1>5. CASE UserOf[t] \in Members
  <2>1. UNCHANGED inbox
    BY <1>1, <1>5, SilenceSent
  <2> QED
    BY <1>2, <1>4, <1>5, <2>1
<1>6. CASE UserOf[t] \notin Members /\ ~Hears
  <2>1. UNCHANGED inbox
    BY <1>1, <1>6 DEF Sent
  <2> QED
    BY <1>2, <1>4, <1>6, <2>1 DEF Hears
<1>7. CASE UserOf[t] \notin Members /\ Hears
  <2> DEFINE msg == Message("added", {UserOf[t]}, 0)
  <2>1. msg \in Messages /\ msg.kind = "added" /\ msg.who = {UserOf[t]}
    <3>1. UserOf[t] \in People /\ "added" \in Kinds /\ "added" # "succeeded" /\ "added" # "head" /\ 0 \in Nat
      BY UsersKnown, KindsKnown
    <3> QED
      BY <3>1 DEF Message, Messages, MessageOK
  <2>2. inbox' = inbox \o <<msg>>
    BY <1>1, <1>7 DEF Sent
  <2>3. Members' = Members \cup {UserOf[t]}
    BY <1>4, <1>7 DEF Hears
  <2> HIDE DEF msg
  <2>4. \A u \in People :
           u \in Members' <=> IF Tells(msg, u) THEN Says(msg, u) ELSE u \in Members
    BY <2>1, <2>3 DEF Tells, Says
  <2> QED
    BY <1>2, <1>7, <2>1, <2>2, <2>4
<1> QED
  BY <1>5, <1>6, <1>7

LEMMA GoSays ==
    ASSUME LinkOK, PeersOK, NEW t \in Others, Go(t)
    PROVE  /\ UNCHANGED <<window, link, store>>
           /\ PeersOK'
           /\ \/ UNCHANGED inbox /\ (joined => Members' = Members)
              \/ \E msg \in Messages :
                   /\ Hears /\ inbox' = inbox \o <<msg>> /\ msg.kind = "removed"
                   /\ \A u \in People :
                        u \in Members' <=> IF Tells(msg, u) THEN Says(msg, u) ELSE u \in Members
<1> DEFINE others == UserOf[t] = Me \/ \E s \in here' : UserOf[s] = UserOf[t]
<1>1. /\ UNCHANGED <<window, link, store, over, hot, time, last, rested, swallowed>>
      /\ here' = here \ {t} /\ t \in here
      /\ Sent(IF others THEN <<>> ELSE <<Message("removed", {UserOf[t]}, 0)>>)
  BY DEF Go
<1>2. PeersOK' /\ UNCHANGED <<window, link, store>>
  BY <1>1 DEF PeersOK
<1>3. proj' = proj /\ joined' = joined
  BY <1>1 DEF window, link
<1>4. /\ others => Members' = Members
      /\ ~others /\ proj = Shared => Members' = Members \ {UserOf[t]}
      /\ proj # Shared => Members' = Members
  BY <1>1, <1>3 DEF Members, Present
<1> HIDE DEF others
<1>5. CASE others
  <2>1. UNCHANGED inbox
    BY <1>1, <1>5, SilenceSent
  <2> QED
    BY <1>2, <1>4, <1>5, <2>1
<1>6. CASE ~others /\ ~Hears
  <2>1. UNCHANGED inbox
    BY <1>1, <1>6 DEF Sent
  <2> QED
    BY <1>2, <1>4, <1>6, <2>1 DEF Hears
<1>7. CASE ~others /\ Hears
  <2> DEFINE msg == Message("removed", {UserOf[t]}, 0)
  <2>1. msg \in Messages /\ msg.kind = "removed" /\ msg.who = {UserOf[t]}
    <3>1. UserOf[t] \in People /\ "removed" \in Kinds /\ "removed" # "succeeded" /\ "removed" # "head" /\ 0 \in Nat
      BY UsersKnown, KindsKnown
    <3> QED
      BY <3>1 DEF Message, Messages, MessageOK
  <2>2. inbox' = inbox \o <<msg>>
    BY <1>1, <1>7 DEF Sent
  <2>3. Members' = Members \ {UserOf[t]}
    BY <1>4, <1>7 DEF Hears
  <2> HIDE DEF msg
  <2>4. \A u \in People :
           u \in Members' <=> IF Tells(msg, u) THEN Says(msg, u) ELSE u \in Members
    BY <2>1, <2>3 DEF Tells, Says
  <2> QED
    BY <1>2, <1>7, <2>1, <2>2, <2>4
<1> QED
  BY <1>5, <1>6, <1>7

\* Pointers, playheads and edits leave the members alone.
Chatters(t) ==
    \/ \E panel \in Panels : Point(t, panel)
    \/ PointAway(t) \/ Rest(t)
    \/ \E x \in Times : Seek(t, x)
    \/ \E published \in BOOLEAN : Edit(t, published)

\* What is sent comes from a member, but for the event of an edit.
Chat(msg, t) ==
    /\ msg \in Messages /\ msg.kind \in Spoken \cup {"clip"} /\ msg.who = {UserOf[t]}
    /\ msg.kind \in Spoken => t \in here

LEMMA BroadcastSays ==
    ASSUME LinkOK, NEW t \in Others, NEW panel \in Panels, NEW visible \in Nat,
           Broadcast(t, panel, visible)
    PROVE  UNCHANGED inbox \/ \E msg : /\ Chat(msg, t) /\ Hears /\ inbox' = inbox \o <<msg>>
                                      /\ msg.kind \in Panels
<1> DEFINE msg == Message(panel, {UserOf[t]}, visible)
           said == IF panel \notin hot[t] /\ t \in here THEN <<msg>> ELSE <<>>
<1>1. msg \in Messages /\ msg.kind = panel /\ msg.who = {UserOf[t]}
  <2>1. UserOf[t] \in People /\ panel \in Kinds /\ panel # "succeeded" /\ panel # "head"
    BY UsersKnown, KindsKnown
  <2> QED
    BY <2>1, MessageTyped
<1>2. CASE Sent(said) /\ panel \notin hot[t] /\ t \in here /\ Hears
  <2>1. inbox' = inbox \o <<msg>>
    BY <1>2 DEF Sent
  <2>2. Chat(msg, t)
    BY <1>1, <1>2 DEF Chat, Spoken
  <2> HIDE DEF msg
  <2> QED
    BY <1>1, <1>2, <2>1, <2>2
<1>3. CASE Sent(said) /\ ~(panel \notin hot[t] /\ t \in here)
  BY <1>3, SilenceSent
<1>4. CASE Sent(said) /\ ~Hears
  BY <1>4 DEF Sent
<1>5. Sent(said) \/ UNCHANGED inbox
  BY DEF Broadcast
<1> QED
  BY <1>2, <1>3, <1>4, <1>5

LEMMA PointSays ==
    ASSUME LinkOK, PeersOK, NEW t \in Others, NEW panel \in Panels, Point(t, panel)
    PROVE  /\ UNCHANGED <<window, link, store, here, time, last, rested, swallowed, edits>> /\ PeersOK'
           /\ UNCHANGED inbox \/ \E msg : /\ Chat(msg, t) /\ Hears /\ inbox' = inbox \o <<msg>>
                                         /\ msg.kind \in Panels
<1>1. /\ UNCHANGED <<window, link, store, here, time, last, rested, swallowed, edits>>
      /\ over' = [over EXCEPT ![t] = panel] /\ hot' = [hot EXCEPT ![t] = @ \cup {panel}]
      /\ Broadcast(t, panel, 1)
  BY DEF Point, Broadcast
<1>2. PeersOK'
  BY <1>1 DEF PeersOK
<1> QED
  BY <1>1, <1>2, BroadcastSays

LEMMA PointAwaySays ==
    ASSUME LinkOK, PeersOK, NEW t \in Others, PointAway(t)
    PROVE  /\ UNCHANGED <<window, link, store, here, time, last, rested, swallowed, edits>> /\ PeersOK'
           /\ UNCHANGED inbox \/ \E msg : /\ Chat(msg, t) /\ Hears /\ inbox' = inbox \o <<msg>>
                                         /\ msg.kind \in Panels
<1>1. /\ UNCHANGED <<window, link, store, here, time, last, rested, swallowed, edits>>
      /\ over' = [over EXCEPT ![t] = Null] /\ hot' = [hot EXCEPT ![t] = @ \cup {over[t]}]
      /\ Broadcast(t, over[t], 0) /\ over[t] \in Panels
  BY DEF PointAway, Broadcast, PeersOK
<1>2. PeersOK'
  BY <1>1 DEF PeersOK
<1> QED
  BY <1>1, <1>2, BroadcastSays

LEMMA RestSays ==
    ASSUME PeersOK, NEW t \in Others, Rest(t)
    PROVE  UNCHANGED <<window, link, inbox, store, here, time, last, swallowed, edits>> /\ PeersOK'
<1>1. /\ UNCHANGED <<window, link, inbox, store, here, over, time, last, swallowed, edits>>
      /\ rested' = [rested EXCEPT ![t] = TRUE] /\ hot' = [hot EXCEPT ![t] = {}]
  BY DEF Rest
<1> QED
  BY <1>1 DEF PeersOK

\* A seek that is told tells the new position, if the tab is heard and nothing is lost.
LEMMA SeekSays ==
    ASSUME LinkOK, PeersOK, NEW t \in Others, NEW x \in Times, Seek(t, x)
    PROVE  /\ UNCHANGED <<window, link, store, here, edits>> /\ PeersOK'
           /\ time' = [time EXCEPT ![t] = x]
           /\ \A s \in Others \ {t} : s \in swallowed' <=> s \in swallowed
           /\ \/ ~Told(t, x) /\ UNCHANGED <<last, inbox, swallowed>>
              \/ /\ last' = [last EXCEPT ![t] = x] /\ UNCHANGED inbox
                 /\ ~(Hears /\ t \in here) \/ t \in swallowed'
              \/ /\ last' = [last EXCEPT ![t] = x]
                 /\ \E msg : /\ Chat(msg, t) /\ Hears /\ inbox' = inbox \o <<msg>>
                             /\ msg.kind = "head" /\ msg.val = x
<1>1. /\ UNCHANGED <<window, link, store, here, over, hot, edits>>
      /\ time' = [time EXCEPT ![t] = x]
  BY DEF Seek
<1>2. CASE ~Told(t, x)
  <2>1. UNCHANGED <<rested, last, swallowed, inbox>>
    BY <1>2 DEF Seek
  <2> QED
    BY <1>1, <1>2, <2>1 DEF PeersOK
<1>3. CASE Told(t, x)
  <2> DEFINE msg == Message("head", {UserOf[t]}, x)
             said == IF t \in here THEN <<msg>> ELSE <<>>
  <2>1. /\ rested' = [rested EXCEPT ![t] = FALSE] /\ last' = [last EXCEPT ![t] = x]
        /\ \/ Sent(said) /\ swallowed' = swallowed \ {t}
           \/ swallowed' = swallowed \cup {t} /\ UNCHANGED inbox
    BY <1>3 DEF Seek
  <2>2. PeersOK' /\ \A s \in Others \ {t} : s \in swallowed' <=> s \in swallowed
    BY <1>1, <2>1 DEF PeersOK
  <2>3. msg \in Messages /\ msg.kind = "head" /\ msg.who = {UserOf[t]} /\ msg.val = x
    <3>1. UserOf[t] \in People /\ "head" \in Kinds /\ x \in Nat /\ "head" # "succeeded"
      BY UsersKnown, KindsKnown, PresenceTimes
    <3> QED
      BY <3>1 DEF Message, Messages, MessageOK
  <2>4. CASE Sent(said) /\ t \in here /\ Hears
    <3>1. inbox' = inbox \o <<msg>>
      BY <2>4 DEF Sent
    <3>2. Chat(msg, t)
      BY <2>3, <2>4 DEF Chat, Spoken
    <3> HIDE DEF msg
    <3> QED
      BY <1>1, <2>1, <2>2, <2>3, <2>4, <3>1, <3>2
  <2>5. CASE Sent(said) /\ t \notin here
    <3>1. UNCHANGED inbox
      BY <2>5, SilenceSent
    <3> QED
      BY <1>1, <2>1, <2>2, <2>5, <3>1
  <2>6. CASE Sent(said) /\ ~Hears
    <3>1. UNCHANGED inbox
      BY <2>6 DEF Sent
    <3> QED
      BY <1>1, <2>1, <2>2, <2>6, <3>1
  <2>7. CASE swallowed' = swallowed \cup {t} /\ UNCHANGED inbox
    BY <1>1, <2>1, <2>2, <2>7
  <2> QED
    BY <2>1, <2>4, <2>5, <2>6, <2>7
<1> QED
  BY <1>2, <1>3

LEMMA EditSays ==
    ASSUME LinkOK, PeersOK, row \in Nat, NEW t \in Others, NEW published \in BOOLEAN,
           Edit(t, published)
    PROVE  /\ UNCHANGED <<window, link, store, peers>> /\ PeersOK' /\ row' = row + 1
           /\ \/ published /\ Hears
                 /\ \E msg : /\ Chat(msg, t) /\ inbox' = inbox \o <<msg>>
                             /\ msg.kind = "clip" /\ msg.val = row'
              \/ ~(published /\ Hears) /\ UNCHANGED inbox
<1>1. /\ UNCHANGED <<window, link, store, peers>> /\ row' = row + 1
      /\ Sent(IF published THEN <<Message("clip", {UserOf[t]}, row')>> ELSE <<>>)
  BY DEF Edit
<1>2. PeersOK'
  BY <1>1 DEF PeersOK, peers
<1>3. CASE published /\ Hears
  <2> DEFINE msg == Message("clip", {UserOf[t]}, row')
  <2>1. msg \in Messages /\ msg.kind = "clip" /\ msg.who = {UserOf[t]} /\ msg.val = row'
    <3>1. UserOf[t] \in People /\ "clip" \in Kinds /\ row' \in Nat
           /\ "clip" # "succeeded" /\ "clip" # "head"
      BY <1>1, UsersKnown, KindsKnown
    <3> QED
      BY <3>1 DEF Message, Messages, MessageOK
  <2>2. inbox' = inbox \o <<msg>>
    BY <1>1, <1>3 DEF Sent
  <2>3. Chat(msg, t)
    BY <2>1, KindsApart DEF Chat, Spoken
  <2> HIDE DEF msg
  <2> QED
    BY <1>1, <1>2, <1>3, <2>1, <2>2, <2>3
<1>4. CASE ~published
  <2>1. UNCHANGED inbox
    BY <1>1, <1>4, SilenceSent
  <2> QED
    BY <1>1, <1>2, <1>4, <2>1
<1>5. CASE ~Hears
  <2>1. UNCHANGED inbox
    BY <1>1, <1>5 DEF Sent
  <2> QED
    BY <1>1, <1>2, <1>5, <2>1
<1> QED
  BY <1>3, <1>4, <1>5

-----------------------------------------------------------------------------
(* The list: what each kind of step does to RosterInv.                      *)

LEMMA RosterStays ==
    ASSUME RosterTrue, SpeakersListed, UNCHANGED <<inbox, joined, list>>,
           joined => Members' = Members
    PROVE  RosterTrue' /\ SpeakersListed'
<1>1. inbox' = inbox /\ joined' = joined /\ list' = list
  OBVIOUS
<1>2. RosterTrue'
  BY <1>1 DEF RosterTrue
<1> QED
  BY <1>1, <1>2 DEF SpeakersListed

LEMMA RosterOff ==
    ASSUME inbox' = <<>>, joined' = FALSE
    PROVE  RosterTrue' /\ SpeakersListed'
BY DEF RosterTrue, SpeakersListed

\* Off the channel nothing is under way.
LEMMA LinkOff ==
    ASSUME LinkOK, inbox' = <<>>, joined' = FALSE, sub' \in {"none", "waits", "auth", "refused"},
           opening' \in [to : Projects, clip : Nat] \/ opening' = Null,
           proj' \in Projects, show' \in BOOLEAN, conn' \in BOOLEAN, expired' \in BOOLEAN,
           sub' = "auth" => conn', sub' # "none" => show'
    PROVE  LinkOK'
<1>1. inbox' \in Seq(Messages) /\ Len(inbox') = 0
  BY EmptySeq
<1>2. \A i \in 1 .. Len(inbox') : FALSE
  BY <1>1
<1>3. sub' # "in" /\ sub' # "asked"
  OBVIOUS
<1> QED
  BY <1>1, <1>2, <1>3 DEF LinkOK

\* Something was sent to the tab.
LEMMA LinkAppended ==
    ASSUME LinkOK, UNCHANGED <<window, link>>, Hears, NEW msg \in Messages,
           msg.kind # "succeeded", inbox' = inbox \o <<msg>>
    PROVE  LinkOK'
<1>1. UNCHANGED <<proj, opening, show, conn, expired, sub, joined>> /\ joined
  BY DEF window, link, Hears
<1>2. /\ inbox' \in Seq(Messages) /\ Len(inbox') = Len(inbox) + 1 /\ Len(inbox) \in Nat
      /\ \A i \in 1 .. Len(inbox) : inbox'[i] = inbox[i]
      /\ inbox'[Len(inbox) + 1] = msg
  BY Appended DEF LinkOK
<1>3. inbox' # <<>>
  BY <1>2
<1>4. sub = "asked" => inbox'[1].kind = "succeeded"
  <2>1. ASSUME sub = "asked"
        PROVE  inbox # <<>> /\ inbox[1].kind = "succeeded"
    BY <1>1, <2>1 DEF LinkOK
  <2>2. ASSUME sub = "asked"
        PROVE  1 \in 1 .. Len(inbox)
    BY <1>2, <2>1, <2>2, EmptySeq DEF LinkOK
  <2> QED
    BY <1>2, <2>1, <2>2
<1>5. \A i \in 1 .. Len(inbox') : inbox'[i].kind = "succeeded" => i = 1 /\ sub = "asked"
  <2>1. \A i \in 1 .. Len(inbox') : i \in 1 .. Len(inbox) \/ i = Len(inbox) + 1
    BY <1>2
  <2> QED
    BY <1>2, <2>1 DEF LinkOK
<1> QED
  BY <1>1, <1>2, <1>3, <1>4, <1>5 DEF LinkOK

LEMMA RosterAppended ==
    ASSUME LinkOK, RosterTrue, SpeakersListed,
           UNCHANGED <<link, list>>, Hears, NEW msg \in Messages,
           inbox' = inbox \o <<msg>>,
           \A u \in People : u \in Members' <=> IF Tells(msg, u) THEN Says(msg, u) ELSE u \in Members,
           msg.kind \in Spoken => msg.who \subseteq Members
    PROVE  RosterTrue' /\ SpeakersListed'
<1> DEFINE n == Len(inbox)
<1>1. joined /\ joined' = joined /\ list' = list
  BY DEF link, Hears
<1>2. /\ inbox' \in Seq(Messages) /\ Len(inbox') = n + 1 /\ n \in Nat
      /\ \A i \in 1 .. n : inbox'[i] = inbox[i]
      /\ inbox'[n + 1] = msg
  BY Appended DEF LinkOK
<1> HIDE DEF n
<1>3. ASSUME NEW u
      PROVE  ListedAfter(list, inbox', n, u) <=> ListedAfter(list, inbox, n, u)
  BY <1>2, SamePrefix
<1>4. \A u \in People : ListedAfter(list, inbox, n, u) <=> u \in Members
  BY <1>1 DEF RosterTrue, n
<1>5. RosterTrue'
  <2>1. ASSUME NEW u \in People
        PROVE  ListedAfter(list, inbox', n + 1, u) <=> u \in Members'
    <3>1. ListedAfter(list, inbox', n + 1, u)
          <=> IF Tells(msg, u) THEN Says(msg, u) ELSE ListedAfter(list, inbox', n, u)
      BY <1>2, LastWord
    <3> QED
      BY <1>3, <1>4, <3>1
  <2>2. \A u \in People : ListedAfter(list', inbox', Len(inbox'), u) <=> u \in Members'
    BY <1>1, <1>2, <2>1
  <2> QED
    BY <2>2 DEF RosterTrue
<1>6. SpeakersListed'
  <2>1. ASSUME NEW i \in 1 .. Len(inbox'), inbox'[i].kind \in Spoken, NEW u \in inbox'[i].who
        PROVE  ListedAfter(list, inbox', i - 1, u)
    <3>1. CASE i \in 1 .. n
      <4>1. inbox'[i] = inbox[i] /\ i - 1 \in Nat /\ \A j \in 1 .. i - 1 : j \in 1 .. n
        BY <1>2, <3>1
      <4>2. ListedAfter(list, inbox, i - 1, u)
        BY <2>1, <3>1, <4>1 DEF SpeakersListed, n
      <4>3. \A j \in 1 .. i - 1 : inbox[j] = inbox'[j]
        BY <1>2, <4>1
      <4> QED
        BY <4>1, <4>2, <4>3, SamePrefix
    <3>2. CASE i = n + 1
      <4>1. inbox'[i] = msg /\ i - 1 = n
        BY <1>2, <3>2
      <4>2. msg \in [kind : Kinds, who : SUBSET People, val : Nat]
        BY DEF Messages
      <4>3. u \in Members /\ u \in People
        BY <2>1, <4>1, <4>2
      <4>4. ListedAfter(list, inbox, n, u)
        BY <1>4, <4>3
      <4> QED
        BY <1>3, <4>1, <4>4
    <3>3. i \in 1 .. n + 1 /\ n \in Nat
      BY <1>2
    <3> QED
      BY <3>1, <3>2, <3>3
  <2> QED
    BY <1>1, <2>1 DEF SpeakersListed
<1> QED
  BY <1>5, <1>6

\* The service takes the subscription: the list of members is all that is under way.
LEMMA JoinRoster ==
    ASSUME LinkOK, PeersOK, Join
    PROVE  LinkOK' /\ RosterTrue' /\ SpeakersListed'
<1> DEFINE msg == Message("succeeded", Members, 0)
<1>1. /\ UNCHANGED <<window, conn, expired, sub, store, peers>>
      /\ sub = "asked" /\ ~joined /\ joined' = TRUE /\ inbox' = Append(inbox, msg)
  BY DEF Join
<1>2. inbox = <<>> /\ UNCHANGED <<proj, opening, show, conn, expired, sub, list, here>>
  BY <1>1 DEF LinkOK, window, store, peers
<1>3. Members \subseteq People
  BY UsersKnown DEF PeersOK, Members, Present

<1>4. msg \in Messages /\ msg.kind = "succeeded" /\ msg.who = Members
  BY <1>3 DEF Message, Messages, MessageOK, Kinds
<1> HIDE DEF msg
<1>5. /\ inbox' \in Seq(Messages) /\ Len(inbox') = 1 /\ inbox'[1] = msg /\ inbox' # <<>>
  <2>1. <<>> \in Seq(Messages) /\ Len(<<>>) = 0
    BY EmptySeq
  <2> QED
    BY <1>1, <1>2, <1>4, <2>1, AppendProperties
<1>6. LinkOK'
  BY <1>1, <1>2, <1>4, <1>5 DEF LinkOK
<1>7. Members' = Members
  BY <1>2 DEF Members, Present
<1>8. RosterTrue'
  <2>1. ASSUME NEW u \in People
        PROVE  ListedAfter(list, inbox', 1, u) <=> u \in Members
    <3>1. ListedAfter(list, inbox', 0 + 1, u)
          <=> IF Tells(msg, u) THEN Says(msg, u) ELSE ListedAfter(list, inbox', 0, u)
      BY <1>4, <1>5, LastWord
    <3>2. Tells(msg, u) /\ (Says(msg, u) <=> u \in Members)
      BY <1>4 DEF Tells, Says
    <3> QED
      BY <3>1, <3>2
  <2> QED
    BY <1>2, <1>5, <1>7, <2>1 DEF RosterTrue
<1>9. SpeakersListed'
  BY <1>4, <1>5, KindsApart DEF SpeakersListed, Spoken
<1> QED
  BY <1>6, <1>8, <1>9

\* The list makes of the first message what it says.
LEMMA HeardSays ==
    ASSUME NEW msg \in Messages, list \subseteq People, Heard(msg)
    PROVE  /\ list' \subseteq People
           /\ sub' = IF msg.kind = "succeeded" THEN "in" ELSE sub
           /\ \A u \in People : u \in list' <=> IF Tells(msg, u) THEN Says(msg, u) ELSE u \in list
<1>1. MessageOK(msg) /\ msg.kind \in Kinds /\ msg.who \subseteq People
  BY DEF Messages
<1> DEFINE w == CHOOSE x \in msg.who : TRUE
<1>2. msg.kind # "succeeded" => msg.who = {w} /\ w \in People
  BY <1>1 DEF MessageOK
<1> HIDE DEF w
<1>3. CASE msg.kind = "succeeded"
  <2>1. list' = msg.who /\ sub' = "in"
    BY <1>3, KindsApart DEF Heard, Listed
  <2> QED
    BY <1>1, <1>3, <2>1 DEF Tells, Says
<1>4. CASE msg.kind = "added"
  <2>1. list' = list \cup {w} /\ sub' = sub
    BY <1>4, KindsApart DEF Heard, w
  <2> QED
    BY <1>2, <1>4, <2>1 DEF Tells, Says
<1>5. CASE msg.kind = "removed"
  <2>1. list' = list \ {w} /\ sub' = sub
    BY <1>5, KindsApart DEF Heard, w, Removed
  <2> QED
    BY <1>2, <1>5, <2>1 DEF Tells, Says
<1>6. CASE msg.kind \in Panels \cup {"head", "clip"}
  <2>1. list' = list /\ sub' = sub
    <3>1. CASE msg.kind \in Panels
      BY <3>1, KindsApart DEF Heard
    <3>2. CASE msg.kind = "head"
      BY <3>2, KindsApart DEF Heard
    <3>3. CASE msg.kind = "clip"
      BY <3>3, KindsApart DEF Heard
    <3> QED
      BY <1>6, <3>1, <3>2, <3>3
  <2>2. \A u : ~Tells(msg, u)
    BY <1>6, KindsApart DEF Tells
  <2> QED
    BY <1>6, <2>1, <2>2, KindsApart
<1> QED
  BY <1>1, <1>3, <1>4, <1>5, <1>6 DEF Kinds

\* The next message is handled.
LEMMA DeliverRoster ==
    ASSUME LinkOK, list \subseteq People, RosterTrue, SpeakersListed, Deliver
    PROVE  LinkOK' /\ list' \subseteq People /\ RosterTrue' /\ SpeakersListed'
<1> DEFINE n == Len(inbox')
           msg == inbox[1]
<1>1. /\ inbox # <<>> /\ inbox' = Tail(inbox) /\ Heard(Head(inbox))
      /\ UNCHANGED <<window, conn, expired, joined, peers, edits>>
  BY DEF Deliver
<1>2. /\ inbox' \in Seq(Messages) /\ Head(inbox) = msg /\ msg \in Messages
      /\ n \in Nat /\ Len(inbox) = n + 1
      /\ \A i \in 1 .. n : inbox'[i] = inbox[i + 1]
  BY <1>1, Popped DEF LinkOK
<1>3. UNCHANGED <<proj, opening, show, conn, expired, joined, here>> /\ joined
  BY <1>1 DEF window, peers, LinkOK
<1>4. /\ list' \subseteq People
      /\ sub' = IF msg.kind = "succeeded" THEN "in" ELSE sub
      /\ \A u \in People : u \in list' <=> IF Tells(msg, u) THEN Says(msg, u) ELSE u \in list
  BY <1>1, <1>2, HeardSays
<1>5. sub = "asked" => msg.kind = "succeeded"
  BY <1>3 DEF LinkOK
<1>6. \A i \in 1 .. n : i + 1 \in 1 .. Len(inbox) /\ i + 1 # 1
  BY <1>2
<1> HIDE DEF n, msg
<1>7. \A i \in 1 .. n : inbox'[i].kind # "succeeded"
  BY <1>2, <1>6 DEF LinkOK
<1>8. sub' = "in" /\ sub \in {"asked", "in"}
  BY <1>3, <1>4, <1>5 DEF LinkOK
<1>9. LinkOK'
  BY <1>2, <1>3, <1>7, <1>8 DEF LinkOK, n
<1>10. ASSUME NEW u \in People, NEW k \in Nat, k <= n
       PROVE  ListedAfter(list, inbox, k + 1, u) <=> ListedAfter(list', inbox', k, u)
  <2>1. \A i \in 1 .. k : inbox'[i] = inbox[i + 1]
    BY <1>2, <1>10
  <2>2. u \in list' <=> IF Tells(inbox[1], u) THEN Says(inbox[1], u) ELSE u \in list
    BY <1>4 DEF msg
  <2> QED
    BY <2>1, <2>2, FirstWord
<1>11. RosterTrue'
  <2>1. Members' = Members
    BY <1>3 DEF Members, Present
  <2>2. ASSUME NEW u \in People
        PROVE  ListedAfter(list', inbox', n, u) <=> u \in Members
    <3>1. ListedAfter(list, inbox, n + 1, u) <=> u \in Members
      BY <1>2, <1>3 DEF RosterTrue
    <3> QED
      BY <1>2, <1>10, <3>1
  <2> QED
    BY <2>1, <2>2 DEF RosterTrue, n
<1>12. SpeakersListed'
  <2>1. ASSUME NEW i \in 1 .. n, inbox'[i].kind \in Spoken, NEW u \in inbox'[i].who
        PROVE  ListedAfter(list', inbox', i - 1, u)
    <3>1. inbox'[i] = inbox[i + 1] /\ i + 1 \in 1 .. Len(inbox) /\ (i + 1) - 1 = (i - 1) + 1
          /\ i - 1 \in Nat /\ i - 1 <= n
      BY <1>2, <1>6
    <3>2. ListedAfter(list, inbox, (i - 1) + 1, u)
      BY <2>1, <3>1 DEF SpeakersListed
    <3>3. u \in People
      BY <2>1, <1>2, Element DEF MessageOK, n
    <3> QED
      BY <1>10, <3>1, <3>2, <3>3
  <2> QED
    BY <2>1 DEF SpeakersListed, n
<1> QED
  BY <1>4, <1>9, <1>11, <1>12

\* The effects' clean-up.
LEMMA ResubscribedRoster ==
    ASSUME LinkOK, NEW to, Resubscribed(to), conn' = conn, expired' = expired,
           to # Null => show', proj' \in Projects, show' \in BOOLEAN,
           opening' = Null \/ UNCHANGED opening
    PROVE  LinkOK' /\ list' = {} /\ RosterTrue' /\ SpeakersListed'
           /\ sub' # "in" /\ ~joined' /\ inbox' = <<>>
<1>1. /\ list' = {} /\ inbox' = <<>> /\ joined' = FALSE
      /\ sub' = IF to = Null THEN "none" ELSE IF conn THEN "auth" ELSE "waits"
  BY DEF Resubscribed, Cleared
<1>2. sub' \in {"none", "waits", "auth"} /\ (sub' = "auth" => conn') /\ (sub' # "none" => show')
  BY <1>1
<1>3. conn' \in BOOLEAN /\ expired' \in BOOLEAN
      /\ (opening' \in [to : Projects, clip : Nat] \/ opening' = Null)
  BY DEF LinkOK
<1>4. LinkOK'
  BY <1>1, <1>2, <1>3, LinkOff
<1> QED
  BY <1>1, <1>2, <1>4, RosterOff

LEMMA DropRoster ==
    ASSUME LinkOK, Drop
    PROVE  LinkOK' /\ RosterTrue' /\ SpeakersListed' /\ UNCHANGED <<window, store, peers>>
           /\ sub' # "in" /\ ~joined' /\ inbox' = <<>>
<1>1. /\ conn' = FALSE /\ joined' = FALSE /\ inbox' = <<>>
      /\ sub' = IF sub = "none" THEN sub ELSE "waits"
      /\ UNCHANGED <<window, expired, store, peers>>
  BY DEF Drop, Cleared
<1>2. /\ sub' \in {"none", "waits"} /\ (sub' # "none" => show')
      /\ opening' = opening /\ proj' = proj /\ show' = show
  BY <1>1 DEF LinkOK, window
<1>3. /\ proj' \in Projects /\ show' \in BOOLEAN /\ conn' \in BOOLEAN /\ expired' \in BOOLEAN
      /\ (opening' \in [to : Projects, clip : Nat] \/ opening' = Null)
  BY <1>1, <1>2 DEF LinkOK
<1>4. LinkOK'
  BY <1>1, <1>2, <1>3, LinkOff
<1> QED
  BY <1>1, <1>2, <1>4, RosterOff

\* A project is shown with a new subscription, or without one.
OpensAnew == Opened /\ show /\ opening.to # proj
OpensInPlace == Opened /\ ~(show /\ opening.to # proj)

\* The other steps of the tab leave the list and what is under way alone.
TabMoves ==
    \/ Authorized \/ Reconnect \/ Expire \/ Refresh
    \/ \E p \in Projects : OpenProject(p)
    \/ OpensInPlace

LEMMA TabMovesRoster ==
    ASSUME LinkOK, row \in Nat, TabMoves
    PROVE  /\ LinkOK' /\ UNCHANGED <<inbox, joined, list, cursors, fresh, told, peers, row>>
           /\ (joined => proj' = proj) /\ (sub' = "in" <=> sub = "in")
           /\ (show' = show)
<1>1. CASE Authorized
  <2>1. /\ UNCHANGED <<window, conn, expired, joined, inbox, store, peers, edits>>
        /\ sub = "auth" /\ sub' = IF expired THEN "refused" ELSE "asked"
    BY <1>1 DEF Authorized
  <2>2. UNCHANGED <<proj, opening, show, conn, expired, joined, inbox, list, cursors, fresh, told,
                    peers, row>>
    BY <2>1 DEF window, store, edits
  <2>3. ~joined /\ conn /\ show
    BY <2>1 DEF LinkOK
  <2> QED
    BY <2>1, <2>2, <2>3 DEF LinkOK
<1>2. CASE Reconnect
  <2>1. /\ UNCHANGED <<window, expired, joined, inbox, store, peers, edits>>
        /\ ~conn /\ conn' = TRUE /\ sub' = IF sub = "waits" THEN "auth" ELSE sub
    BY <1>2 DEF Reconnect
  <2>2. UNCHANGED <<proj, opening, show, expired, joined, inbox, list, cursors, fresh, told,
                    peers, row>>
    BY <2>1 DEF window, store, edits
  <2>3. ~joined /\ (sub = "waits" => show)
    BY <2>1 DEF LinkOK
  <2> QED
    BY <2>1, <2>2, <2>3 DEF LinkOK
<1>3. CASE Expire \/ Refresh
  <2>1. /\ UNCHANGED <<window, conn, sub, joined, inbox, store, peers, edits>>
        /\ expired' \in BOOLEAN
    BY <1>3 DEF Expire, Refresh
  <2>2. UNCHANGED <<proj, opening, show, conn, sub, joined, inbox, list, cursors, fresh, told,
                    peers, row>>
    BY <2>1 DEF window, store, edits
  <2> QED
    BY <2>1, <2>2 DEF LinkOK
<1>4. ASSUME NEW p \in Projects, OpenProject(p)
      PROVE  /\ LinkOK' /\ UNCHANGED <<inbox, joined, list, cursors, fresh, told, peers, row>>
             /\ proj' = proj /\ sub' = sub /\ show' = show
  <2>1. /\ UNCHANGED <<proj, show, link, inbox, store, peers, edits>>
        /\ opening' = [to |-> p, clip |-> row]
    BY <1>4 DEF OpenProject
  <2>2. UNCHANGED <<proj, show, conn, expired, sub, joined, inbox, list, cursors, fresh, told,
                    peers, row>>
    BY <2>1 DEF link, store, edits
  <2>3. opening' \in [to : Projects, clip : Nat]
    BY <2>1
  <2> QED
    BY <2>2, <2>3 DEF LinkOK
<1>5. CASE OpensInPlace
  <2>1. /\ UNCHANGED <<list, cursors, fresh, told, inbox, joined, sub, show, conn, expired, peers, row>>
        /\ opening # Null /\ opening' = Null /\ proj' = opening.to /\ (show => proj' = proj)
    BY <1>5 DEF Opened, OpensInPlace
  <2>2. (joined => show) /\ opening.to \in Projects
    BY <2>1 DEF LinkOK
  <2> QED
    BY <1>5, <2>1, <2>2 DEF LinkOK
<1> QED
  BY <1>1, <1>2, <1>3, <1>4, <1>5 DEF TabMoves

LEMMA ToggleRoster ==
    ASSUME LinkOK, ToggleCollab
    PROVE  LinkOK' /\ list' = {} /\ RosterTrue' /\ SpeakersListed' /\ UNCHANGED peers
           /\ sub' # "in" /\ ~joined' /\ inbox' = <<>>
<1>1. /\ show' = ~show /\ Resubscribed(Followed(proj, show'))
      /\ UNCHANGED <<proj, opening, conn, expired, peers>>
  BY DEF ToggleCollab
<1>2. Followed(proj, show') # Null => show'
  BY DEF Followed
<1>3. proj' \in Projects /\ show' \in BOOLEAN
  BY <1>1 DEF LinkOK
<1> QED
  BY <1>1, <1>2, <1>3, ResubscribedRoster

LEMMA OpenedRoster ==
    ASSUME LinkOK, OpensAnew
    PROVE  LinkOK' /\ list' = {} /\ RosterTrue' /\ SpeakersListed' /\ UNCHANGED peers
           /\ sub' # "in" /\ ~joined' /\ inbox' = <<>>
<1>1. /\ Resubscribed(opening.to) /\ opening # Null /\ opening' = Null /\ proj' = opening.to
      /\ UNCHANGED <<show, conn, expired, peers>> /\ show
  BY DEF Opened, OpensAnew
<1>2. proj' \in Projects /\ show' \in BOOLEAN
  BY <1>1 DEF LinkOK
<1> QED
  BY <1>1, <1>2, ResubscribedRoster

\* What is sent on the channel.
LEMMA ChatRoster ==
    ASSUME RosterInv, UNCHANGED <<window, link, store, here>>, PeersOK', NEW t \in Others,
           \/ UNCHANGED inbox
           \/ \E msg : Chat(msg, t) /\ Hears /\ inbox' = inbox \o <<msg>>
    PROVE  RosterInv'
<1>1. UNCHANGED <<proj, opening, show, conn, expired, sub, joined, list, here>>
  BY DEF window, link, store
<1>2. Members' = Members
  BY <1>1 DEF Members, Present
<1>3. CASE UNCHANGED inbox
  <2>1. RosterTrue' /\ SpeakersListed'
    BY <1>1, <1>2, <1>3, RosterStays DEF RosterInv
  <2>2. LinkOK'
    BY <1>1, <1>3 DEF RosterInv, LinkOK
  <2> QED
    BY <1>1, <2>1, <2>2 DEF RosterInv
<1>4. ASSUME NEW msg, Chat(msg, t), Hears, inbox' = inbox \o <<msg>>
      PROVE  RosterInv'
  <2>1. msg \in Messages /\ msg.kind \notin {"succeeded", "added", "removed"}
    BY <1>4, KindsApart DEF Chat, Spoken
  <2>2. \A u : ~Tells(msg, u)
    BY <2>1 DEF Tells
  <2>3. msg.kind \in Spoken => msg.who \subseteq Members
    BY <1>4 DEF Chat, Members, Present, Hears
  <2>4. LinkOK'
    BY <1>4, <2>1, LinkAppended DEF RosterInv
  <2>5. RosterTrue' /\ SpeakersListed'
    BY <1>1, <1>2, <1>4, <2>1, <2>2, <2>3, RosterAppended DEF RosterInv, link
  <2> QED
    BY <1>1, <2>4, <2>5 DEF RosterInv
<1> QED
  BY <1>3, <1>4

LEMMA MembersChangeRoster ==
    ASSUME RosterInv, NEW t \in Others, Come(t) \/ Go(t)
    PROVE  RosterInv'
<1>1. /\ UNCHANGED <<window, link, store>> /\ PeersOK'
      /\ \/ UNCHANGED inbox /\ (joined => Members' = Members)
         \/ \E msg \in Messages :
              /\ Hears /\ inbox' = inbox \o <<msg>> /\ msg.kind \in {"added", "removed"}
              /\ \A u \in People :
                   u \in Members' <=> IF Tells(msg, u) THEN Says(msg, u) ELSE u \in Members
  <2>1. CASE Come(t)
    BY <2>1, ComeSays DEF RosterInv
  <2>2. CASE Go(t)
    BY <2>2, GoSays DEF RosterInv
  <2> QED
    BY <2>1, <2>2
<1>2. UNCHANGED <<proj, opening, show, conn, expired, sub, joined, list>>
  BY <1>1 DEF window, link, store
<1>3. CASE UNCHANGED inbox /\ (joined => Members' = Members)
  <2>1. RosterTrue' /\ SpeakersListed'
    BY <1>2, <1>3, RosterStays DEF RosterInv
  <2>2. LinkOK'
    BY <1>2, <1>3 DEF RosterInv, LinkOK
  <2> QED
    BY <1>1, <1>2, <2>1, <2>2 DEF RosterInv
<1>4. ASSUME NEW msg \in Messages, Hears, inbox' = inbox \o <<msg>>,
             msg.kind \in {"added", "removed"},
             \A u \in People :
                u \in Members' <=> IF Tells(msg, u) THEN Says(msg, u) ELSE u \in Members
      PROVE  RosterInv'
  <2>1. msg.kind # "succeeded" /\ msg.kind \notin Spoken
    BY <1>4, KindsApart DEF Spoken
  <2>2. LinkOK'
    BY <1>1, <1>4, <2>1, LinkAppended DEF RosterInv
  <2>3. RosterTrue' /\ SpeakersListed'
    BY <1>1, <1>2, <1>4, <2>1, RosterAppended DEF RosterInv, link
  <2> QED
    BY <1>1, <1>2, <2>2, <2>3 DEF RosterInv
<1> QED
  BY <1>1, <1>3, <1>4

LEMMA OthersRoster ==
    ASSUME RosterInv, row \in Nat, NEW t \in Others, Chatters(t)
    PROVE  RosterInv'
<1>1. LinkOK /\ PeersOK
  BY DEF RosterInv
<1>2. ASSUME NEW panel \in Panels, Point(t, panel)
      PROVE  RosterInv'
  BY <1>1, <1>2, PointSays, ChatRoster
<1>3. CASE PointAway(t)
  BY <1>1, <1>3, PointAwaySays, ChatRoster
<1>4. CASE Rest(t)
  BY <1>1, <1>4, RestSays, ChatRoster
<1>5. ASSUME NEW x \in Times, Seek(t, x)
      PROVE  RosterInv'
  BY <1>1, <1>5, SeekSays, ChatRoster
<1>6. ASSUME NEW published \in BOOLEAN, Edit(t, published)
      PROVE  RosterInv'
  <2>1. UNCHANGED here
    BY <1>6 DEF Edit, peers
  <2> QED
    BY <1>1, <1>6, <2>1, EditSays, ChatRoster
<1> QED
  BY <1>2, <1>3, <1>4, <1>5, <1>6 DEF Chatters

LEMMA NextKinds ==
    ASSUME PresenceNext
    PROVE  \/ TabMoves \/ Join \/ Deliver \/ ToggleCollab \/ OpensAnew \/ Drop
           \/ (\E t \in Others : Come(t) \/ Go(t)) \/ (\E t \in Others : Chatters(t))
BY DEF PresenceNext, TabMoves, Chatters, OpensAnew, OpensInPlace

LEMMA RosterStep ==
    ASSUME RosterInv, row \in Nat, [PresenceNext]_presenceVars
    PROVE  RosterInv'
<1>1. LinkOK /\ PeersOK /\ list \subseteq People /\ RosterTrue /\ SpeakersListed
  BY DEF RosterInv
<1>2. ASSUME UNCHANGED peers
      PROVE  PeersOK' /\ (proj' = proj => Members' = Members)
  BY <1>1, <1>2 DEF PeersOK, peers, Members, Present
<1>3. CASE TabMoves
  BY <1>1, <1>2, <1>3, TabMovesRoster, RosterStays DEF RosterInv
<1>4. CASE Join
  <2>1. UNCHANGED <<list, peers>>
    BY <1>4 DEF Join, store
  <2> QED
    BY <1>1, <1>2, <1>4, <2>1, JoinRoster DEF RosterInv
<1>5. CASE Deliver
  <2>1. UNCHANGED peers
    BY <1>5 DEF Deliver
  <2> QED
    BY <1>1, <1>2, <1>5, <2>1, DeliverRoster DEF RosterInv
<1>6. CASE ToggleCollab
  BY <1>1, <1>2, <1>6, ToggleRoster DEF RosterInv
<1>7. CASE OpensAnew
  BY <1>1, <1>2, <1>7, OpenedRoster DEF RosterInv
<1>8. CASE Drop
  BY <1>1, <1>2, <1>8, DropRoster DEF RosterInv, store
<1>9. CASE \E t \in Others : Come(t) \/ Go(t)
  BY <1>9, MembersChangeRoster
<1>10. CASE \E t \in Others : Chatters(t)
  BY <1>10, OthersRoster
<1>11. CASE UNCHANGED presenceVars
  <2>1. /\ UNCHANGED <<proj, opening, show, conn, expired, sub, joined, inbox, list, here>>
        /\ UNCHANGED peers
    BY <1>11 DEF presenceVars, window, link, store, peers
  <2>2. LinkOK'
    BY <1>1, <2>1 DEF LinkOK
  <2> QED
    BY <1>1, <1>2, <2>1, <2>2, RosterStays DEF RosterInv
<1> QED
  BY <1>3, <1>4, <1>5, <1>6, <1>7, <1>8, <1>9, <1>10, <1>11, NextKinds

-----------------------------------------------------------------------------
(* The store: cursors, and who is fresh.                                    *)

Cursors == [target : Panels \cup {Null}, visible : BOOLEAN, head : Times \cup {Null}]
StoreOK ==
    /\ fresh \subseteq People /\ told \subseteq fresh
    /\ cursors \in [People -> Cursors]

\* setCursor with a pointer leaves the playhead as it is, and with a playhead sets it.
LEMMA PointerSet ==
    ASSUME StoreOK, NEW u \in People, NEW panel \in Panels, NEW b \in BOOLEAN,
           CursorSet(u, [target |-> panel, visible |-> b])
    PROVE  /\ cursors' \in [People -> Cursors]
           /\ cursors'[u].head = cursors[u].head
           /\ \A w \in People \ {u} : cursors'[w] = cursors[w]
<1> DEFINE old == IF cursors[u] = NoCursor
                  THEN [target |-> "viewport", visible |-> TRUE, head |-> Null] ELSE cursors[u]
           patch == [target |-> panel, visible |-> b]
           patched == [f \in DOMAIN old |-> IF f \in DOMAIN patch THEN patch[f] ELSE old[f]]
<1>1. old \in Cursors /\ old.head = cursors[u].head
  BY KindsApart DEF StoreOK, Cursors, NoCursor
<1>2. cursors' = [cursors EXCEPT ![u] = patched]
  BY DEF CursorSet
<1> HIDE DEF old
<1>3. /\ DOMAIN old = {"target", "visible", "head"}
      /\ old = [target |-> old.target, visible |-> old.visible, head |-> old.head]
      /\ old.head \in Times \cup {Null}
  BY <1>1 DEF Cursors
<1>4. DOMAIN patch = {"target", "visible"}
  OBVIOUS
<1>5. patched = [target |-> panel, visible |-> b, head |-> old.head]
  BY <1>3, <1>4
<1>6. patched \in Cursors /\ patched.head = cursors[u].head
  BY <1>1, <1>3, <1>5 DEF Cursors
<1> HIDE DEF patched, patch
<1> QED
  BY <1>2, <1>6 DEF StoreOK

LEMMA HeadSet ==
    ASSUME StoreOK, NEW u \in People, NEW x \in Times, CursorSet(u, [head |-> x])
    PROVE  /\ cursors' \in [People -> Cursors]
           /\ cursors'[u].head = x
           /\ \A w \in People \ {u} : cursors'[w] = cursors[w]
<1> DEFINE old == IF cursors[u] = NoCursor
                  THEN [target |-> "viewport", visible |-> TRUE, head |-> Null] ELSE cursors[u]
           patch == [head |-> x]
           patched == [f \in DOMAIN old |-> IF f \in DOMAIN patch THEN patch[f] ELSE old[f]]
<1>1. old \in Cursors
  BY KindsApart DEF StoreOK, Cursors
<1>2. cursors' = [cursors EXCEPT ![u] = patched]
  BY DEF CursorSet
<1> HIDE DEF old
<1>3. /\ DOMAIN old = {"target", "visible", "head"}
      /\ old = [target |-> old.target, visible |-> old.visible, head |-> old.head]
      /\ old.target \in Panels \cup {Null} /\ old.visible \in BOOLEAN
  BY <1>1 DEF Cursors
<1>4. DOMAIN patch = {"head"}
  OBVIOUS
<1>5. patched = [target |-> old.target, visible |-> old.visible, head |-> x]
  BY <1>3, <1>4
<1>6. patched \in Cursors /\ patched.head = x
  BY <1>3, <1>5 DEF Cursors
<1> HIDE DEF patched, patch
<1> QED
  BY <1>2, <1>6 DEF StoreOK

\* What the handlers make of the cursors, kind by kind.
LEMMA HeardCursors ==
    ASSUME NEW msg \in Messages, StoreOK, Heard(msg)
    PROVE  /\ StoreOK'
           /\ msg.kind = "succeeded" => fresh' = {} /\ told' = {} /\ cursors' = cursors
           /\ msg.kind \in {"added", "clip"} => UNCHANGED <<fresh, told, cursors>>
           /\ \A u \in People : msg.kind = "removed" /\ msg.who = {u} =>
                /\ fresh' = fresh \ {u} /\ told' = told \ {u}
                /\ \A w \in People \ {u} : cursors'[w] = cursors[w]
           /\ \A u \in People : msg.kind \in Spoken /\ msg.who = {u} =>
                /\ fresh' = fresh \cup {u}
                /\ \A w \in People \ {u} : cursors'[w] = cursors[w]
                /\ msg.kind = "head" => told' = told \cup {u} /\ cursors'[u].head = msg.val
                /\ msg.kind # "head" => told' = told /\ cursors'[u].head = cursors[u].head
<1>1. MessageOK(msg) /\ msg.kind \in Kinds /\ msg.who \subseteq People /\ msg.val \in Nat
  BY DEF Messages
<1> DEFINE w == CHOOSE x \in msg.who : TRUE
<1>2. msg.kind # "succeeded" => msg.who = {w} /\ w \in People
  BY <1>1 DEF MessageOK
<1> HIDE DEF w
<1>3. CASE msg.kind = "succeeded"
  <2>1. fresh' = {} /\ told' = {} /\ cursors' = cursors
    BY <1>3, KindsApart DEF Heard, Listed
  <2> QED
    BY <1>3, <2>1, KindsApart DEF StoreOK, Spoken
<1>4. CASE msg.kind \in {"added", "clip"}
  <2>1. UNCHANGED <<fresh, told, cursors>>
    BY <1>4, KindsApart DEF Heard
  <2> QED
    BY <1>4, <2>1, KindsApart DEF StoreOK, Spoken
<1>5. CASE msg.kind = "removed"
  <2>1. fresh' = fresh \ {w} /\ told' = told \ {w} /\ cursors' = [cursors EXCEPT ![w] = NoCursor]
    BY <1>5, KindsApart DEF Heard, w, Removed
  <2>2. NoCursor \in Cursors
    BY DEF NoCursor, Cursors
  <2>3. w \in People /\ msg.who = {w}
    BY <1>2, <1>5
  <2>4. StoreOK'
    BY <2>1, <2>2, <2>3 DEF StoreOK
  <2>5. \A v \in People \ {w} : cursors'[v] = cursors[v]
    BY <2>1, <2>3 DEF StoreOK
  <2> QED
    BY <1>5, <2>1, <2>3, <2>4, <2>5, KindsApart DEF Spoken
<1>6. CASE msg.kind \in Panels
  <2>1. /\ CursorSet(w, [target |-> msg.kind, visible |-> msg.val = 1])
        /\ fresh' = fresh \cup {w} /\ told' = told
    BY <1>6, KindsApart DEF Heard, w
  <2>2. w \in People /\ msg.who = {w} /\ (msg.val = 1) \in BOOLEAN
    BY <1>2, <1>6, KindsApart
  <2>3. /\ cursors' \in [People -> Cursors]
        /\ cursors'[w].head = cursors[w].head
        /\ \A v \in People \ {w} : cursors'[v] = cursors[v]
    BY <1>6, <2>1, <2>2, PointerSet
  <2>4. StoreOK'
    BY <2>1, <2>2, <2>3 DEF StoreOK
  <2> QED
    BY <1>6, <2>1, <2>2, <2>3, <2>4, KindsApart DEF Spoken
<1>7. CASE msg.kind = "head"
  <2>1. /\ CursorSet(w, [head |-> msg.val])
        /\ fresh' = fresh \cup {w} /\ told' = told \cup {w}
    BY <1>7, KindsApart DEF Heard, w
  <2>2. w \in People /\ msg.who = {w} /\ msg.val \in Times
    BY <1>1, <1>2, <1>7 DEF MessageOK
  <2>3. /\ cursors' \in [People -> Cursors]
        /\ cursors'[w].head = msg.val
        /\ \A v \in People \ {w} : cursors'[v] = cursors[v]
    BY <2>1, <2>2, HeadSet
  <2>4. StoreOK'
    BY <2>1, <2>2, <2>3 DEF StoreOK
  <2> QED
    BY <1>7, <2>1, <2>2, <2>3, <2>4, KindsApart DEF Spoken
<1> QED
  BY <1>1, <1>3, <1>4, <1>5, <1>6, <1>7 DEF Kinds

\* A pointer that came since the last list belongs to somebody listed, as a playhead does.
GhostsOK == sub = "in" => (Pointers \cap fresh) \subseteq list /\ told \subseteq list

LEMMA DeliverGhosts ==
    ASSUME RosterInv, StoreOK, GhostsOK, Deliver
    PROVE  StoreOK' /\ GhostsOK'
<1> DEFINE msg == inbox[1]
<1>1. /\ inbox # <<>> /\ Heard(Head(inbox)) /\ UNCHANGED <<window, joined>>
  BY DEF Deliver
<1>2. Head(inbox) = msg /\ msg \in Messages /\ 1 \in 1 .. Len(inbox)
  BY <1>1, Popped DEF RosterInv, LinkOK
<1>3. joined /\ show' = show
  BY <1>1 DEF RosterInv, LinkOK, window
<1>4. sub \in {"asked", "in"} /\ (sub = "asked" => msg.kind = "succeeded")
  BY <1>3 DEF RosterInv, LinkOK
<1>5. \A u \in msg.who : msg.kind \in Spoken => u \in list
  <2>1. ASSUME msg.kind \in Spoken, NEW u \in msg.who
        PROVE  ListedAfter(list, inbox, 0, u)
    BY <1>2, <2>1 DEF RosterInv, SpeakersListed
  <2> QED
    BY <2>1 DEF ListedAfter
<1> HIDE DEF msg
<1>6. /\ list' \subseteq People
      /\ \A u \in People : u \in list' <=> IF Tells(msg, u) THEN Says(msg, u) ELSE u \in list
  BY <1>1, <1>2, HeardSays DEF RosterInv
<1>7. StoreOK' /\ StoreOK
  BY <1>1, <1>2, HeardCursors
<1>8. MessageOK(msg) /\ msg.kind \in Kinds
  BY <1>2 DEF Messages
<1>9. CASE msg.kind = "succeeded"
  <2>1. fresh' = {} /\ told' = {}
    BY <1>1, <1>2, <1>9, HeardCursors
  <2> QED
    BY <1>7, <2>1 DEF GhostsOK
<1>10. CASE msg.kind # "succeeded"
  <2>1. PICK u \in People : msg.who = {u}
    BY <1>8, <1>10 DEF MessageOK
  <2>2. sub = "in" /\ (Pointers \cap fresh) \subseteq list /\ told \subseteq list
    BY <1>4, <1>10 DEF GhostsOK
  <2>3. ASSUME NEW v \in People, v # u
        PROVE  /\ v \in list' <=> v \in list
               /\ v \in fresh' <=> v \in fresh
               /\ v \in told' <=> v \in told
               /\ cursors'[v] = cursors[v]
    <3>1. v \in list' <=> v \in list
      BY <1>6, <1>10, <2>1, <2>3 DEF Tells
    <3>2. CASE msg.kind = "removed"
      <4>1. /\ fresh' = fresh \ {u} /\ told' = told \ {u} /\ cursors'[v] = cursors[v]
        BY <1>1, <1>2, <1>7, <2>1, <2>3, <3>2, HeardCursors
      <4> QED
        BY <2>3, <3>1, <4>1
    <3>3. CASE msg.kind \in {"added", "clip"}
      <4>1. UNCHANGED <<fresh, told, cursors>>
        BY <1>1, <1>2, <1>7, <3>3, HeardCursors
      <4> QED
        BY <3>1, <4>1
    <3>4. CASE msg.kind \in Spoken
      <4>1. /\ fresh' = fresh \cup {u} /\ cursors'[v] = cursors[v]
            /\ told' = told \/ told' = told \cup {u}
        BY <1>1, <1>2, <1>7, <2>1, <2>3, <3>4, HeardCursors
      <4> QED
        BY <2>3, <3>1, <4>1
    <3> QED
      BY <1>8, <1>10, <3>2, <3>3, <3>4 DEF Kinds, Spoken
  <2>4. u \in list' \/ (u \notin fresh' /\ u \notin told') \/ (msg.kind = "clip" /\ UNCHANGED <<fresh, told, cursors>>)
    <3>1. CASE msg.kind = "removed"
      <4>1. fresh' = fresh \ {u} /\ told' = told \ {u}
        BY <1>1, <1>2, <1>7, <2>1, <3>1, HeardCursors
      <4> QED
        BY <4>1
    <3>2. CASE msg.kind = "added"
      BY <1>6, <2>1, <3>2 DEF Tells, Says
    <3>3. CASE msg.kind = "clip"
      BY <1>1, <1>2, <1>7, <3>3, HeardCursors
    <3>4. CASE msg.kind \in Spoken
      <4>1. ~Tells(msg, u)
        BY <3>4, KindsApart DEF Tells, Spoken
      <4> QED
        BY <1>5, <1>6, <2>1, <3>4, <4>1
    <3> QED
      BY <1>8, <1>10, <3>1, <3>2, <3>3, <3>4 DEF Kinds, Spoken
  <2>5. msg.kind = "clip" => (u \in list' <=> u \in list)
    BY <1>6, <2>1 DEF Tells
  <2>6. ASSUME NEW v \in People, v \in Pointers' \cap fresh' \/ v \in told'
        PROVE  v \in list'
    <3>1. CASE v # u
      <4>1. v \in Pointers' => v \in Pointers
        BY <1>3, <2>3, <3>1 DEF Pointers
      <4> QED
        BY <2>2, <2>3, <2>6, <3>1, <4>1
    <3>2. CASE v = u
      <4>1. UNCHANGED <<fresh, told, cursors>> => (v \in Pointers' => v \in Pointers)
        BY <1>3 DEF Pointers
      <4> QED
        BY <2>2, <2>4, <2>5, <2>6, <3>2, <4>1
    <3> QED
      BY <3>1, <3>2
  <2>7. Pointers' \cap fresh' \subseteq People /\ told' \subseteq People
    BY <1>7 DEF StoreOK
  <2> QED
    BY <1>7, <2>6, <2>7 DEF GhostsOK
<1> QED
  BY <1>9, <1>10

\* Off the channel, or with the store as it was, they are as they should be.
LEMMA StoreStays ==
    ASSUME StoreOK, UNCHANGED <<cursors, fresh, told>>
    PROVE  /\ StoreOK'
           /\ sub' # "in" => GhostsOK'
           /\ GhostsOK /\ (sub' = "in" => sub = "in") /\ UNCHANGED <<list, show>> => GhostsOK'
BY DEF StoreOK, GhostsOK, Pointers

LEMMA StoreStep ==
    ASSUME RosterInv, StoreOK, GhostsOK, row \in Nat, [PresenceNext]_presenceVars
    PROVE  StoreOK' /\ GhostsOK'
<1>1. LinkOK /\ PeersOK
  BY DEF RosterInv
<1>2. CASE Deliver
  BY <1>2, DeliverGhosts
<1>3. CASE TabMoves
  <2>1. UNCHANGED <<cursors, fresh, told, list, show>> /\ (sub' = "in" <=> sub = "in")
    BY <1>1, <1>3, TabMovesRoster
  <2> QED
    BY <2>1, StoreStays
<1>4. CASE Join
  <2>1. UNCHANGED <<cursors, fresh, told, list, show, sub>>
    BY <1>4 DEF Join, store, window
  <2> QED
    BY <2>1, StoreStays
<1>5. CASE ToggleCollab \/ OpensAnew
  <2>1. UNCHANGED <<cursors, fresh, told>>
    BY <1>5 DEF ToggleCollab, OpensAnew, Opened, Resubscribed
  <2>2. sub' # "in"
    BY <1>1, <1>5, ToggleRoster, OpenedRoster
  <2> QED
    BY <2>1, <2>2, StoreStays
<1>6. CASE Drop
  <2>1. UNCHANGED <<cursors, fresh, told>> /\ sub' # "in"
    BY <1>1, <1>6, DropRoster DEF store
  <2> QED
    BY <2>1, StoreStays
<1>7. ASSUME UNCHANGED <<window, link, store>>
      PROVE  StoreOK' /\ GhostsOK'
  <2>1. UNCHANGED <<cursors, fresh, told, list, show, sub>>
    BY <1>7 DEF window, link, store
  <2> QED
    BY <2>1, StoreStays
<1>8. ASSUME NEW t \in Others, Come(t) \/ Go(t)
      PROVE  UNCHANGED <<window, link, store>>
  BY <1>8 DEF Come, Go
<1>9. ASSUME NEW t \in Others, Chatters(t)
      PROVE  UNCHANGED <<window, link, store>>
  BY <1>9 DEF Chatters, Point, PointAway, Rest, Seek, Edit
<1>10. CASE UNCHANGED presenceVars
  BY <1>7, <1>10 DEF presenceVars
<1> QED
  BY <1>2, <1>3, <1>4, <1>5, <1>6, <1>7, <1>8, <1>9, <1>10, NextKinds

-----------------------------------------------------------------------------
(* What is under way after a message.                                       *)

NoneAfter(q, i, msgs) == \A j \in i + 1 .. Len(q) : q[j] \notin msgs

LEMMA AfterAppended ==
    ASSUME NEW q \in Seq(Messages), NEW msg \in Messages, NEW msgs
    PROVE  /\ \A i \in 0 .. Len(q) :
                NoneAfter(q \o <<msg>>, i, msgs) <=> NoneAfter(q, i, msgs) /\ msg \notin msgs
           /\ NoneAfter(q \o <<msg>>, Len(q) + 1, msgs)
<1> DEFINE r == q \o <<msg>>
           n == Len(q)
<1>1. /\ n \in Nat /\ Len(r) = n + 1
      /\ \A i \in 1 .. n : r[i] = q[i]
      /\ r[n + 1] = msg
  BY Appended
<1> HIDE DEF r, n
<1>2. ASSUME NEW i \in 0 .. n
      PROVE  NoneAfter(r, i, msgs) <=> (\A j \in i + 1 .. n : q[j] \notin msgs) /\ msg \notin msgs
  <2>1. /\ \A j \in i + 1 .. n + 1 : j \in i + 1 .. n \/ j = n + 1
        /\ \A j \in i + 1 .. n : j \in i + 1 .. n + 1 /\ j \in 1 .. n
        /\ n + 1 \in i + 1 .. n + 1
    BY <1>1
  <2> QED
    BY <1>1, <2>1 DEF NoneAfter
<1>3. NoneAfter(r, n + 1, msgs)
  BY <1>1 DEF NoneAfter
<1> QED
  BY <1>2, <1>3 DEF NoneAfter, r, n

LEMMA AfterPopped ==
    ASSUME NEW q \in Seq(Messages), q # <<>>, NEW msgs
    PROVE  \A i \in 0 .. Len(Tail(q)) : NoneAfter(Tail(q), i, msgs) <=> NoneAfter(q, i + 1, msgs)
<1> DEFINE r == Tail(q)
           n == Len(r)
<1>1. /\ n \in Nat /\ Len(q) = n + 1
      /\ \A i \in 1 .. n : r[i] = q[i + 1]
  BY Popped
<1> HIDE DEF r, n
<1>2. ASSUME NEW i \in 0 .. n
      PROVE  (\A j \in i + 1 .. n : r[j] \notin msgs)
             <=> (\A j \in (i + 1) + 1 .. n + 1 : q[j] \notin msgs)
  <2>1. /\ \A j \in i + 1 .. n : j \in 1 .. n /\ j + 1 \in (i + 1) + 1 .. n + 1
        /\ \A j \in (i + 1) + 1 .. n + 1 : j - 1 \in i + 1 .. n /\ j - 1 \in 1 .. n /\ (j - 1) + 1 = j
    BY <1>1
  <2> QED
    BY <1>1, <2>1
<1> QED
  BY <1>1, <1>2 DEF NoneAfter, r, n

\* The first message is one that is under way.
LEMMA AfterNone ==
    ASSUME NEW q \in Seq(Messages), q # <<>>, NEW msgs
    PROVE  NoneAfter(q, 0, msgs) <=> q[1] \notin msgs /\ NoneAfter(q, 1, msgs)
<1>1. Len(q) \in Nat /\ Len(q) >= 1
  BY Popped
<1>2. /\ \A j \in 0 + 1 .. Len(q) : j = 1 \/ j \in 1 + 1 .. Len(q)
      /\ \A j \in 1 + 1 .. Len(q) : j \in 0 + 1 .. Len(q)
      /\ 1 \in 0 + 1 .. Len(q)
  BY <1>1
<1> QED
  BY <1>2 DEF NoneAfter

LEMMA NothingUnderWay ==
    ASSUME inbox = <<>>
    PROVE  \A i \in 1 .. Len(inbox) : FALSE
<1>1. Len(inbox) = 0
  BY EmptySeq
<1> QED
  BY <1>1

-----------------------------------------------------------------------------
(* Playheads.                                                               *)

Leaves(u) == {m \in Messages : m.kind = "removed" /\ u \in m.who}
Moves(u) == {m \in Messages : m.kind \in {"head", "removed"} /\ u \in m.who}
Tellings(u) == {m \in Messages : m.kind = "head" /\ u \in m.who}

\* The position told last is never far from the playhead.
ThrottleNear == \A t \in Others : Abs(time[t] - last[t]) < 2

\* Who told a playhead is on the channel, unless a message is under way that takes it back.
TellersPresent ==
    \A u \in People :
        /\ \A i \in 1 .. Len(inbox) :
             inbox[i] \in Tellings(u) /\ NoneAfter(inbox, i, Leaves(u)) => u \in Members
        /\ sub = "in" /\ u \in told /\ NoneAfter(inbox, 0, Leaves(u)) => u \in Members

\* The last that is heard, or the one that is drawn, is the one that was told last, unless
\* that one was lost.
OnlyTab(t) == UserOf[t] # Me /\ \A s \in Others \ {t} : UserOf[s] # UserOf[t]
LastHeard ==
    \A t \in Others \ swallowed : OnlyTab(t) =>
        /\ \A i \in 1 .. Len(inbox) :
             inbox[i] \in Tellings(UserOf[t]) /\ NoneAfter(inbox, i, Moves(UserOf[t]))
             => inbox[i].val = last[t]
        /\ sub = "in" /\ UserOf[t] \in told /\ NoneAfter(inbox, 0, Moves(UserOf[t]))
           => cursors[UserOf[t]].head = last[t]

HeadsOK == ThrottleNear /\ TellersPresent /\ LastHeard

LEMMA HeadsOff ==
    ASSUME HeadsOK, inbox' = <<>>, sub' # "in", UNCHANGED <<time, last, swallowed>>
    PROVE  HeadsOK'
<1>1. \A i \in 1 .. Len(inbox') : FALSE
  <2>1. Len(inbox') = 0
    BY EmptySeq
  <2> QED
    BY <2>1
<1>2. ThrottleNear'
  BY DEF HeadsOK, ThrottleNear
<1>3. TellersPresent'
  BY <1>1 DEF TellersPresent
<1>4. LastHeard'
  BY <1>1 DEF LastHeard
<1> QED
  BY <1>2, <1>3, <1>4 DEF HeadsOK

LEMMA HeadsStay ==
    ASSUME HeadsOK, UNCHANGED <<inbox, told, cursors, time, last, swallowed>>, sub' = "in" => sub = "in",
           Members' = Members
    PROVE  HeadsOK'
<1>1. UNCHANGED <<inbox, told, cursors, time, last, swallowed>>
  OBVIOUS
<1>2. ThrottleNear'
  BY <1>1 DEF HeadsOK, ThrottleNear
<1>3. TellersPresent'
  BY <1>1 DEF HeadsOK, TellersPresent
<1>4. LastHeard'
  BY <1>1 DEF HeadsOK, LastHeard
<1> QED
  BY <1>2, <1>3, <1>4 DEF HeadsOK

\* A message is sent: somebody leaves with one of their own, and who tells tells the last.
LEMMA HeadsAppended ==
    ASSUME LinkOK, TellersPresent, LastHeard, UNCHANGED <<sub, told, cursors>>,
           NEW msg \in Messages, inbox' = inbox \o <<msg>>,
           \A u \in People : u \in Members => u \in Members' \/ msg \in Leaves(u),
           \A u \in People : msg \in Tellings(u) => u \in Members',
           \A t \in Others \ swallowed' : OnlyTab(t) =>
               \/ t \notin swallowed /\ last'[t] = last[t] /\ msg \notin Tellings(UserOf[t])
               \/ last'[t] = msg.val /\ msg \in Tellings(UserOf[t])
    PROVE  TellersPresent' /\ LastHeard'
<1> DEFINE n == Len(inbox)
<1>1. /\ inbox' \in Seq(Messages) /\ Len(inbox') = n + 1 /\ n \in Nat
      /\ \A i \in 1 .. n : inbox'[i] = inbox[i]
      /\ inbox'[n + 1] = msg
  BY Appended DEF LinkOK
<1>2. ASSUME NEW msgs, NEW i \in 0 .. n
      PROVE  NoneAfter(inbox', i, msgs) <=> NoneAfter(inbox, i, msgs) /\ msg \notin msgs
  BY <1>2, AfterAppended DEF LinkOK
<1>3. \A i \in 1 .. Len(inbox') : (i \in 1 .. n /\ i \in 0 .. n) \/ i = n + 1
  BY <1>1
<1>4. 0 \in 0 .. n
  BY <1>1
<1> HIDE DEF n
<1>5. ASSUME NEW u \in People, NEW i \in 1 .. Len(inbox'),
             inbox'[i] \in Tellings(u), NoneAfter(inbox', i, Leaves(u))
      PROVE  u \in Members'
  <2>1. CASE i = n + 1
    BY <1>1, <1>5, <2>1
  <2>2. CASE i \in 1 .. n /\ i \in 0 .. n
    <3>1. inbox[i] \in Tellings(u) /\ NoneAfter(inbox, i, Leaves(u)) /\ msg \notin Leaves(u)
      BY <1>1, <1>2, <1>5, <2>2
    <3>2. u \in Members
      BY <2>2, <3>1 DEF TellersPresent, n
    <3> QED
      BY <3>1, <3>2
  <2> QED
    BY <1>3, <2>1, <2>2
<1>6. ASSUME NEW u \in People, sub = "in", u \in told, NoneAfter(inbox', 0, Leaves(u))
      PROVE  u \in Members'
  <2>1. NoneAfter(inbox, 0, Leaves(u)) /\ msg \notin Leaves(u)
    BY <1>2, <1>4, <1>6
  <2> QED
    BY <1>6, <2>1 DEF TellersPresent
<1>7. TellersPresent'
  BY <1>5, <1>6 DEF TellersPresent
<1>8. ASSUME NEW u
      PROVE  Tellings(u) \subseteq Moves(u)
  BY DEF Tellings, Moves
<1>9. ASSUME NEW t \in Others \ swallowed', OnlyTab(t), NEW i \in 1 .. Len(inbox'),
             inbox'[i] \in Tellings(UserOf[t]), NoneAfter(inbox', i, Moves(UserOf[t]))
      PROVE  inbox'[i].val = last'[t]
  <2>1. CASE i = n + 1
    BY <1>1, <1>9, <2>1
  <2>2. CASE i \in 1 .. n /\ i \in 0 .. n
    <3>1. /\ inbox[i] \in Tellings(UserOf[t]) /\ NoneAfter(inbox, i, Moves(UserOf[t]))
          /\ msg \notin Tellings(UserOf[t]) /\ inbox'[i] = inbox[i] /\ t \notin swallowed
      BY <1>1, <1>2, <1>8, <1>9, <2>2
    <3>2. inbox[i].val = last[t]
      BY <1>9, <2>2, <3>1 DEF LastHeard, n
    <3> QED
      BY <1>9, <3>1, <3>2
  <2> QED
    BY <1>3, <2>1, <2>2
<1>10. ASSUME NEW t \in Others \ swallowed', OnlyTab(t), sub = "in", UserOf[t] \in told,
              NoneAfter(inbox', 0, Moves(UserOf[t]))
       PROVE  cursors[UserOf[t]].head = last'[t]
  <2>1. /\ NoneAfter(inbox, 0, Moves(UserOf[t])) /\ msg \notin Tellings(UserOf[t])
        /\ t \notin swallowed
    BY <1>2, <1>4, <1>8, <1>10
  <2> QED
    BY <1>10, <2>1 DEF LastHeard
<1>11. LastHeard'
  BY <1>9, <1>10 DEF LastHeard, OnlyTab
<1> QED
  BY <1>7, <1>11

LEMMA DeliverHeads ==
    ASSUME LinkOK, StoreOK, HeadsOK, Deliver
    PROVE  HeadsOK'
<1> DEFINE n == Len(inbox')
           msg == inbox[1]
<1>1. /\ inbox # <<>> /\ inbox' = Tail(inbox) /\ Heard(Head(inbox))
      /\ UNCHANGED <<proj, here, joined, time, last, swallowed>>
  BY DEF Deliver, window, peers
<1>2. /\ Head(inbox) = msg /\ msg \in Messages /\ 1 \in 1 .. Len(inbox)
      /\ n \in Nat /\ Len(inbox) = n + 1
      /\ \A i \in 1 .. n : inbox'[i] = inbox[i + 1]
  BY <1>1, Popped DEF LinkOK
<1>3. ASSUME NEW msgs, NEW i \in 0 .. n
      PROVE  NoneAfter(inbox', i, msgs) <=> NoneAfter(inbox, i + 1, msgs)
  BY <1>1, <1>3, AfterPopped DEF LinkOK
<1>4. \A i \in 1 .. n : i \in 0 .. n /\ i + 1 \in 1 .. Len(inbox)
  BY <1>2
<1>5. ASSUME NEW msgs
      PROVE  /\ NoneAfter(inbox', 0, msgs) <=> NoneAfter(inbox, 1, msgs)
             /\ NoneAfter(inbox, 0, msgs) <=> msg \notin msgs /\ NoneAfter(inbox, 1, msgs)
  <2>1. 0 \in 0 .. n /\ 0 + 1 = 1
    BY <1>2
  <2> QED
    BY <1>1, <1>3, <2>1, AfterNone DEF LinkOK
<1>6. Members' = Members
  BY <1>1 DEF Members, Present
<1>7. MessageOK(msg) /\ msg.kind \in Kinds
  BY <1>2 DEF Messages
<1> HIDE DEF n, msg
\* What the message makes of who has told, and of what is drawn.
<1>8. ASSUME NEW u \in People, u \in told', sub' = "in"
      PROVE  \/ msg \in Tellings(u) /\ cursors'[u].head = msg.val
             \/ /\ msg \notin Moves(u) /\ u \in told /\ sub = "in"
                /\ cursors'[u].head = cursors[u].head
  <2>1. CASE msg.kind = "succeeded"
    BY <1>1, <1>2, <1>8, <2>1, HeardCursors
  <2>2. CASE msg.kind # "succeeded"
    <3>1. PICK w \in People : msg.who = {w}
      BY <1>7, <2>2 DEF MessageOK
    <3>2. joined
      BY <1>1 DEF LinkOK
    <3>3. sub = "in"
      BY <2>2, <3>2 DEF LinkOK, msg
    <3>4. CASE msg.kind \in {"added", "clip"}
      <4>1. UNCHANGED <<told, cursors>>
        BY <1>1, <1>2, <3>4, HeardCursors
      <4>2. msg \notin Moves(u)
        BY <3>4 DEF Moves
      <4> QED
        BY <1>8, <3>3, <4>1, <4>2
    <3>5. CASE msg.kind = "removed"
      <4>1. told' = told \ {w} /\ \A v \in People \ {w} : cursors'[v] = cursors[v]
        BY <1>1, <1>2, <3>1, <3>5, HeardCursors
      <4>2. u # w /\ u \in told
        BY <1>8, <4>1
      <4>3. msg \notin Moves(u)
        BY <3>1, <4>2 DEF Moves
      <4> QED
        BY <3>3, <4>1, <4>2, <4>3
    <3>6. CASE msg.kind = "head"
      <4>1. /\ told' = told \cup {w} /\ cursors'[w].head = msg.val
            /\ \A v \in People \ {w} : cursors'[v] = cursors[v]
        BY <1>1, <1>2, <3>1, <3>6, HeardCursors DEF Spoken
      <4>2. u = w => msg \in Tellings(u)
        BY <1>2, <3>1, <3>6 DEF Tellings
      <4>3. u # w => msg \notin Moves(u)
        BY <3>1 DEF Moves
      <4> QED
        BY <1>8, <3>3, <4>1, <4>2, <4>3
    <3>7. CASE msg.kind \in Panels
      <4>1. msg.kind # "head" /\ msg.kind # "removed"
        BY <3>7, KindsApart
      <4>2. /\ told' = told /\ cursors'[w].head = cursors[w].head
            /\ \A v \in People \ {w} : cursors'[v] = cursors[v]
        BY <1>1, <1>2, <3>1, <3>7, <4>1, HeardCursors DEF Spoken
      <4>3. msg \notin Moves(u)
        BY <4>1 DEF Moves
      <4> QED
        BY <1>8, <3>3, <4>2, <4>3
    <3> QED
      BY <1>7, <2>2, <3>4, <3>5, <3>6, <3>7 DEF Kinds
  <2> QED
    BY <2>1, <2>2
<1>9. \A u : Leaves(u) \subseteq Moves(u)
  BY DEF Leaves, Moves
<1>10. TellersPresent'
  <2>1. ASSUME NEW u \in People, NEW i \in 1 .. n,
               inbox'[i] \in Tellings(u), NoneAfter(inbox', i, Leaves(u))
        PROVE  u \in Members
    <3>1. i \in 0 .. n /\ i + 1 \in 1 .. Len(inbox) /\ inbox'[i] = inbox[i + 1]
      BY <1>2, <1>4
    <3>2. NoneAfter(inbox, i + 1, Leaves(u))
      BY <1>3, <2>1, <3>1
    <3> QED
      BY <2>1, <3>1, <3>2 DEF HeadsOK, TellersPresent
  <2>2. ASSUME NEW u \in People, sub' = "in", u \in told', NoneAfter(inbox', 0, Leaves(u))
        PROVE  u \in Members
    <3>1. NoneAfter(inbox, 1, Leaves(u))
      BY <1>5, <2>2
    <3>2. CASE msg \in Tellings(u)
      BY <1>2, <3>1, <3>2 DEF HeadsOK, TellersPresent, msg
    <3>3. CASE msg \notin Moves(u) /\ u \in told /\ sub = "in"
      <4>1. NoneAfter(inbox, 0, Leaves(u))
        BY <1>5, <1>9, <3>1, <3>3
      <4> QED
        BY <3>3, <4>1 DEF HeadsOK, TellersPresent
    <3> QED
      BY <1>8, <2>2, <3>2, <3>3
  <2> QED
    BY <1>6, <2>1, <2>2 DEF TellersPresent, n
<1>11. LastHeard'
  <2>1. ASSUME NEW t \in Others \ swallowed, OnlyTab(t), NEW i \in 1 .. n,
               inbox'[i] \in Tellings(UserOf[t]), NoneAfter(inbox', i, Moves(UserOf[t]))
        PROVE  inbox'[i].val = last[t]
    <3>1. i \in 0 .. n /\ i + 1 \in 1 .. Len(inbox) /\ inbox'[i] = inbox[i + 1]
      BY <1>2, <1>4
    <3>2. NoneAfter(inbox, i + 1, Moves(UserOf[t]))
      BY <1>3, <2>1, <3>1
    <3> QED
      BY <2>1, <3>1, <3>2 DEF HeadsOK, LastHeard
  <2>2. ASSUME NEW t \in Others \ swallowed, OnlyTab(t), sub' = "in", UserOf[t] \in told',
               NoneAfter(inbox', 0, Moves(UserOf[t]))
        PROVE  cursors'[UserOf[t]].head = last[t]
    <3>1. NoneAfter(inbox, 1, Moves(UserOf[t])) /\ UserOf[t] \in People
      BY <1>5, <2>2, UsersKnown
    <3>2. CASE msg \in Tellings(UserOf[t]) /\ cursors'[UserOf[t]].head = msg.val
      BY <1>2, <2>2, <3>1, <3>2 DEF HeadsOK, LastHeard, msg
    <3>3. CASE /\ msg \notin Moves(UserOf[t]) /\ UserOf[t] \in told /\ sub = "in"
               /\ cursors'[UserOf[t]].head = cursors[UserOf[t]].head
      <4>1. NoneAfter(inbox, 0, Moves(UserOf[t]))
        BY <1>5, <3>1, <3>3
      <4> QED
        BY <2>2, <3>3, <4>1 DEF HeadsOK, LastHeard
    <3> QED
      BY <1>8, <2>2, <3>1, <3>2, <3>3
  <2> QED
    BY <1>1, <2>1, <2>2 DEF LastHeard, OnlyTab, n
<1> QED
  BY <1>1, <1>10, <1>11 DEF HeadsOK, ThrottleNear

LEMMA JoinHeads ==
    ASSUME LinkOK, HeadsOK, Join
    PROVE  HeadsOK'
<1> DEFINE msg == Message("succeeded", Members, 0)
<1>1. /\ sub = "asked" /\ ~joined /\ sub' = sub /\ inbox' = Append(inbox, msg)
      /\ UNCHANGED <<time, last, swallowed>>
  BY DEF Join, peers
<1>2. Len(inbox') = 1 /\ inbox'[1] = msg
  <2>1. inbox = <<>> /\ <<>> \in Seq({msg}) /\ Len(<<>>) = 0
    BY <1>1, EmptySeq DEF LinkOK
  <2> QED
    BY <1>1, <2>1, AppendProperties
<1>3. \A u : msg \notin Tellings(u)
  BY DEF Message, Tellings
<1> HIDE DEF msg
<1>4. \A i \in 1 .. Len(inbox') : \A u : inbox'[i] \notin Tellings(u)
  BY <1>2, <1>3
<1>5. ThrottleNear'
  BY <1>1 DEF HeadsOK, ThrottleNear
<1>6. TellersPresent'
  BY <1>1, <1>4 DEF TellersPresent
<1>7. LastHeard'
  BY <1>1, <1>4 DEF LastHeard
<1> QED
  BY <1>5, <1>6, <1>7 DEF HeadsOK

LEMMA MembersChangeHeads ==
    ASSUME LinkOK, PeersOK, HeadsOK, NEW t \in Others, Come(t) \/ Go(t)
    PROVE  HeadsOK'
<1>1. /\ UNCHANGED <<window, link, store, time, last, swallowed>>
      /\ \/ UNCHANGED inbox /\ (joined => Members' = Members)
         \/ \E msg \in Messages :
              /\ Hears /\ inbox' = inbox \o <<msg>> /\ msg.kind \in {"added", "removed"}
              /\ \A u \in People :
                   u \in Members' <=> IF Tells(msg, u) THEN Says(msg, u) ELSE u \in Members
  <2>1. UNCHANGED <<time, last, swallowed>>
    BY DEF Come, Go
  <2>2. CASE Come(t)
    BY <2>1, <2>2, ComeSays
  <2>3. CASE Go(t)
    BY <2>1, <2>3, GoSays
  <2> QED
    BY <2>2, <2>3
<1>2. UNCHANGED <<sub, joined, told, cursors, time, last, swallowed>>
  BY <1>1 DEF link, store
<1>3. CASE UNCHANGED inbox /\ (joined => Members' = Members)
  <2>1. CASE joined
    BY <1>2, <1>3, <2>1, HeadsStay
  <2>2. CASE ~joined
    <3>1. inbox' = <<>> /\ sub' # "in"
      BY <1>2, <1>3, <2>2 DEF LinkOK
    <3> QED
      BY <1>2, <3>1, HeadsOff
  <2> QED
    BY <2>1, <2>2
<1>4. ASSUME NEW msg \in Messages, inbox' = inbox \o <<msg>>, msg.kind \in {"added", "removed"},
             \A u \in People :
               u \in Members' <=> IF Tells(msg, u) THEN Says(msg, u) ELSE u \in Members
      PROVE  HeadsOK'
  <2>1. \A u : msg \notin Tellings(u)
    BY <1>4 DEF Tellings
  <2>2. \A u \in People : u \in Members => u \in Members' \/ msg \in Leaves(u)
    BY <1>4 DEF Tells, Says, Leaves
  <2>3. TellersPresent' /\ LastHeard'
    BY <1>2, <1>4, <2>1, <2>2, HeadsAppended DEF HeadsOK
  <2> QED
    BY <1>2, <2>3 DEF HeadsOK, ThrottleNear
<1> QED
  BY <1>1, <1>3, <1>4

\* What is said by who is there, and is no playhead.
LEMMA ChatHeads ==
    ASSUME LinkOK, HeadsOK, UNCHANGED <<window, link, store, here, time, last, swallowed>>, NEW t \in Others,
           \/ UNCHANGED inbox
           \/ \E msg : Chat(msg, t) /\ Hears /\ inbox' = inbox \o <<msg>> /\ msg.kind # "head"
    PROVE  HeadsOK'
<1>1. UNCHANGED <<sub, told, cursors, time, last, swallowed>> /\ Members' = Members
  BY DEF window, link, store, Members, Present
<1>2. CASE UNCHANGED inbox
  BY <1>1, <1>2, HeadsStay
<1>3. ASSUME NEW msg, Chat(msg, t), inbox' = inbox \o <<msg>>, msg.kind # "head"
      PROVE  HeadsOK'
  <2>1. \A u : msg \notin Tellings(u)
    BY <1>3 DEF Tellings
  <2>2. TellersPresent' /\ LastHeard'
    BY <1>1, <1>3, <2>1, HeadsAppended DEF HeadsOK, Chat
  <2> QED
    BY <1>1, <2>2 DEF HeadsOK, ThrottleNear
<1> QED
  BY <1>2, <1>3

\* Whose playhead is heard or drawn is there, and is heard.
LEMMA TellerIsHeard ==
    ASSUME LinkOK, PeersOK, TellersPresent, NEW t \in Others, OnlyTab(t),
           \/ \E i \in 1 .. Len(inbox) :
                inbox[i] \in Tellings(UserOf[t]) /\ NoneAfter(inbox, i, Moves(UserOf[t]))
           \/ sub = "in" /\ UserOf[t] \in told /\ NoneAfter(inbox, 0, Moves(UserOf[t]))
    PROVE  Hears /\ t \in here
<1>1. UserOf[t] \in People
  BY UsersKnown
<1>2. \A i : NoneAfter(inbox, i, Moves(UserOf[t])) => NoneAfter(inbox, i, Leaves(UserOf[t]))
  BY DEF NoneAfter, Moves, Leaves
<1>3. UserOf[t] \in Members
  BY <1>1, <1>2 DEF TellersPresent
<1>4. joined
  BY NothingUnderWay DEF LinkOK
<1>5. UserOf[t] \in Present
  BY <1>3 DEF Members, OnlyTab
<1>6. proj = Shared /\ \E s \in here : UserOf[s] = UserOf[t]
  BY <1>5 DEF Present
<1> QED
  BY <1>4, <1>6 DEF OnlyTab, Hears, PeersOK

LEMMA SeekHeads ==
    ASSUME LinkOK, PeersOK, HeadsOK, NEW t \in Others, NEW x \in Times, Seek(t, x)
    PROVE  HeadsOK'
<1>1. /\ UNCHANGED <<window, link, store, here>> /\ PeersOK'
      /\ time' = [time EXCEPT ![t] = x]
      /\ \A s \in Others \ {t} : s \in swallowed' <=> s \in swallowed
      /\ \/ ~Told(t, x) /\ UNCHANGED <<last, inbox, swallowed>>
         \/ /\ last' = [last EXCEPT ![t] = x] /\ UNCHANGED inbox
            /\ ~(Hears /\ t \in here) \/ t \in swallowed'
         \/ /\ last' = [last EXCEPT ![t] = x]
            /\ \E msg : /\ Chat(msg, t) /\ Hears /\ inbox' = inbox \o <<msg>>
                        /\ msg.kind = "head" /\ msg.val = x
  BY SeekSays
<1>2. UNCHANGED <<sub, told, cursors>> /\ Members' = Members
  BY <1>1 DEF window, link, store, Members, Present
<1>3. ThrottleNear'
  <2>1. ASSUME NEW s \in Others
        PROVE  Abs(time'[s] - last'[s]) < 2
    <3>1. Abs(time[s] - last[s]) < 2
      BY DEF HeadsOK, ThrottleNear
    <3>2. CASE s # t
      BY <1>1, <3>1, <3>2 DEF PeersOK
    <3>3. CASE s = t /\ ~Told(t, x) /\ UNCHANGED last
      <4>1. x \in Int /\ last[t] \in Int
        <5>1. \A y \in Times : y \in Int
          BY PresenceTimes
        <5> QED
          BY <5>1 DEF PeersOK
      <4>2. time'[s] = x /\ last'[s] = last[t]
        BY <1>1, <3>3 DEF PeersOK
      <4>3. ~(Abs(x - last[t]) >= 2)
        BY <3>3 DEF Told
      <4> QED
        BY <4>1, <4>2, <4>3 DEF Abs
    <3>4. CASE s = t /\ last' = [last EXCEPT ![t] = x]
      <4>1. time'[s] = x /\ last'[s] = x /\ x \in Int
        BY <1>1, <3>4, PresenceTimes DEF PeersOK
      <4> QED
        BY <4>1 DEF Abs
    <3> QED
      BY <1>1, <3>2, <3>3, <3>4
  <2> QED
    BY <2>1 DEF ThrottleNear
<1>4. CASE UNCHANGED <<last, inbox, swallowed>>
  <2>1. TellersPresent'
    BY <1>2, <1>4 DEF HeadsOK, TellersPresent
  <2>2. LastHeard'
    BY <1>2, <1>4 DEF HeadsOK, LastHeard
  <2> QED
    BY <1>3, <2>1, <2>2 DEF HeadsOK
<1>5. CASE /\ last' = [last EXCEPT ![t] = x] /\ UNCHANGED inbox
           /\ ~(Hears /\ t \in here) \/ t \in swallowed'
  <2>1. TellersPresent'
    BY <1>2, <1>5 DEF HeadsOK, TellersPresent
  <2>2. \A s \in Others \ {t} : last'[s] = last[s]
    BY <1>5 DEF PeersOK
  <2>3. ASSUME OnlyTab(t), t \notin swallowed'
        PROVE  /\ \A i \in 1 .. Len(inbox) :
                    ~(inbox[i] \in Tellings(UserOf[t]) /\ NoneAfter(inbox, i, Moves(UserOf[t])))
               /\ ~(sub = "in" /\ UserOf[t] \in told /\ NoneAfter(inbox, 0, Moves(UserOf[t])))
    BY <1>5, <2>3, TellerIsHeard DEF HeadsOK
  <2>4. LastHeard'
    <3>1. ASSUME NEW s \in Others \ swallowed', OnlyTab(s)
          PROVE  /\ \A i \in 1 .. Len(inbox) :
                      inbox[i] \in Tellings(UserOf[s]) /\ NoneAfter(inbox, i, Moves(UserOf[s]))
                      => inbox[i].val = last'[s]
                 /\ sub = "in" /\ UserOf[s] \in told /\ NoneAfter(inbox, 0, Moves(UserOf[s]))
                    => cursors[UserOf[s]].head = last'[s]
      <4>1. CASE s = t
        BY <2>3, <3>1, <4>1
      <4>2. CASE s # t
        BY <1>1, <2>2, <3>1, <4>2 DEF HeadsOK, LastHeard
      <4> QED
        BY <4>1, <4>2
    <3> QED
      BY <1>2, <1>5, <3>1 DEF LastHeard, OnlyTab
  <2> QED
    BY <1>3, <2>1, <2>4 DEF HeadsOK
<1>6. ASSUME last' = [last EXCEPT ![t] = x], NEW msg, Chat(msg, t), Hears,
             inbox' = inbox \o <<msg>>, msg.kind = "head", msg.val = x
      PROVE  HeadsOK'
  <2>1. msg \in Messages /\ msg.who = {UserOf[t]} /\ t \in here
    BY <1>6 DEF Chat, Spoken
  <2>2. \A u : msg \in Tellings(u) <=> u = UserOf[t]
    BY <1>6, <2>1 DEF Tellings
  <2>3. UserOf[t] \in Members
    BY <1>6, <2>1 DEF Members, Present, Hears
  <2>4. ASSUME NEW s \in Others \ swallowed', OnlyTab(s)
        PROVE  \/ s \notin swallowed /\ last'[s] = last[s] /\ msg \notin Tellings(UserOf[s])
               \/ last'[s] = msg.val /\ msg \in Tellings(UserOf[s])
    <3>1. CASE s = t
      BY <1>6, <2>2, <3>1 DEF PeersOK
    <3>2. CASE s # t
      BY <1>1, <1>6, <2>2, <2>4, <3>2 DEF PeersOK, OnlyTab
    <3> QED
      BY <3>1, <3>2
  <2>5. TellersPresent' /\ LastHeard'
    BY <1>2, <1>6, <2>1, <2>2, <2>3, <2>4, HeadsAppended DEF HeadsOK
  <2> QED
    BY <1>3, <2>5 DEF HeadsOK
<1> QED
  BY <1>1, <1>4, <1>5, <1>6

LEMMA HeadsStep ==
    ASSUME RosterInv, StoreOK, HeadsOK, row \in Nat, [PresenceNext]_presenceVars
    PROVE  HeadsOK'
<1>1. LinkOK /\ PeersOK
  BY DEF RosterInv
<1>2. CASE TabMoves
  <2>1. /\ UNCHANGED <<inbox, joined, told, cursors, time, last, swallowed, here>>
        /\ (joined => proj' = proj) /\ (sub' = "in" <=> sub = "in")
    BY <1>1, <1>2, TabMovesRoster DEF peers
  <2>2. CASE joined
    <3>1. Members' = Members
      BY <2>1, <2>2 DEF Members, Present
    <3> QED
      BY <2>1, <3>1, HeadsStay
  <2>3. CASE ~joined
    <3>1. inbox' = <<>> /\ sub' # "in"
      BY <1>1, <2>1, <2>3 DEF LinkOK
    <3> QED
      BY <2>1, <3>1, HeadsOff
  <2> QED
    BY <2>2, <2>3
<1>3. CASE Join
  BY <1>1, <1>3, JoinHeads
<1>4. CASE Deliver
  BY <1>1, <1>4, DeliverHeads
<1>5. CASE ToggleCollab \/ OpensAnew \/ Drop
  <2>1. UNCHANGED peers /\ sub' # "in" /\ inbox' = <<>>
    BY <1>1, <1>5, ToggleRoster, OpenedRoster, DropRoster
  <2> QED
    BY <2>1, HeadsOff DEF peers
<1>6. CASE \E t \in Others : Come(t) \/ Go(t)
  BY <1>1, <1>6, MembersChangeHeads
<1>7. ASSUME NEW t \in Others, NEW panel \in Panels, Point(t, panel)
      PROVE  HeadsOK'
  BY <1>1, <1>7, PointSays, KindsApart, ChatHeads
<1>8. ASSUME NEW t \in Others, PointAway(t)
      PROVE  HeadsOK'
  BY <1>1, <1>8, PointAwaySays, KindsApart, ChatHeads
<1>9. ASSUME NEW t \in Others, Rest(t)
      PROVE  HeadsOK'
  BY <1>1, <1>9, RestSays, ChatHeads
<1>10. ASSUME NEW t \in Others, NEW x \in Times, Seek(t, x)
       PROVE  HeadsOK'
  BY <1>1, <1>10, SeekHeads
<1>11. ASSUME NEW t \in Others, NEW published \in BOOLEAN, Edit(t, published)
       PROVE  HeadsOK'
  <2>1. UNCHANGED <<window, link, store, here, time, last, swallowed>>
    BY <1>11 DEF Edit, peers
  <2> QED
    BY <1>1, <1>11, <2>1, EditSays, ChatHeads
<1>12. CASE UNCHANGED presenceVars
  <2>1. UNCHANGED <<inbox, told, cursors, time, last, swallowed, sub, proj, here>>
    BY <1>12 DEF presenceVars, window, link, store, peers
  <2> QED
    BY <2>1, HeadsStay DEF Members, Present
<1> QED
  BY <1>2, <1>3, <1>4, <1>5, <1>6, <1>7, <1>8, <1>9, <1>10, <1>11, <1>12, NextKinds DEF Chatters

-----------------------------------------------------------------------------
(* The clip.                                                                *)

Clips == {m \in Messages : m.kind = "clip"}

EditsTyped ==
    /\ row \in Nat /\ row <= ops /\ ops \in 0 .. MaxOps /\ topics \in TopicSets
    /\ lost \in Losses /\ view \in 0 .. row
    /\ \A i \in 1 .. Len(inbox) : inbox[i] \in Clips => inbox[i].val <= row
    /\ opening # Null => opening.clip <= row

\* The last event under way, the clip that was read of a project that is not shown yet, and
\* the one that is shown, are the last edit's, or the tab has a reason to have lost that.
ClipsOK ==
    /\ \A i \in 1 .. Len(inbox) :
         inbox[i] \in Clips /\ NoneAfter(inbox, i, Clips)
         => lost # "no" \/ (inbox[i].val = row /\ inbox[i].who # {Me})
    /\ opening # Null /\ opening.to = Shared /\ proj # Shared => opening.clip = row \/ lost # "no"
    /\ proj = Shared => view = row \/ lost # "no" \/ ~NoneAfter(inbox, 0, Clips)

EditsOK == EditsTyped /\ ClipsOK

LEMMA WaitingClip ==
    ASSUME LinkOK
    PROVE  ~NoneAfter(inbox, 0, Clips) <=> ClipWaits
<1>1. \A i \in 1 .. Len(inbox) : inbox[i] \in Messages /\ MessageOK(inbox[i])
  BY Element DEF LinkOK
<1>2. 0 + 1 .. Len(inbox) = 1 .. Len(inbox)
  OBVIOUS
<1>3. ~NoneAfter(inbox, 0, Clips) <=> \E i \in 1 .. Len(inbox) : inbox[i].kind = "clip"
  BY <1>1, <1>2 DEF NoneAfter, Clips
<1>4. ASSUME NEW i \in 1 .. Len(inbox), inbox[i].kind = "clip"
      PROVE  ClipWaits
  <2>1. PICK u \in People : inbox[i].who = {u}
    BY <1>1, <1>4 DEF MessageOK
  <2> QED
    BY <1>4, <2>1 DEF ClipWaits, Waiting
<1>5. ClipWaits => \E i \in 1 .. Len(inbox) : inbox[i].kind = "clip"
  BY DEF ClipWaits, Waiting
<1> QED
  BY <1>3, <1>4, <1>5

LEMMA ClearedClips ==
    ASSUME LinkOK, EditsTyped, ClipsOK, NEW why \in Losses \ {"no"}, Cleared(why)
    PROVE  /\ inbox' = <<>> /\ lost' \in Losses
           /\ lost # "no" => lost' # "no"
           /\ proj = Shared => view = row \/ lost' # "no"
<1>1. inbox' = <<>> /\ lost' = IF lost = "no" /\ ClipWaits THEN why ELSE lost
  BY DEF Cleared
<1> QED
  BY <1>1, WaitingClip DEF EditsTyped, ClipsOK

\* The tab is off the channel, with the project as it was, or another as it has been read.
LEMMA EditsOff ==
    ASSUME LinkOK, EditsOK, inbox' = <<>>, row' = row, lost' \in Losses,
           lost # "no" => lost' # "no", proj = Shared => view = row \/ lost' # "no",
           topics' = topics, ops' \in {ops, ops + 1}, ops' \in 0 .. MaxOps,
           \/ UNCHANGED <<opening, proj, view>>
           \/ /\ opening # Null /\ opening' = Null /\ opening.to # proj
              /\ proj' = opening.to /\ view' = opening.clip
    PROVE  EditsOK'
<1>1. \A i \in 1 .. Len(inbox') : FALSE
  <2>1. Len(inbox') = 0
    BY EmptySeq
  <2> QED
    BY <2>1
<1>2. opening # Null => opening.clip \in Nat
  BY DEF LinkOK
<1>3. EditsTyped'
  BY <1>1, <1>2 DEF EditsOK, EditsTyped
<1>4. ClipsOK'
  BY <1>1 DEF EditsOK, ClipsOK
<1> QED
  BY <1>3, <1>4 DEF EditsOK

\* A project is shown as it has been read, and the subscription is kept.
LEMMA EditsReload ==
    ASSUME LinkOK, EditsOK, OpensInPlace
    PROVE  EditsOK'
<1>1. /\ UNCHANGED <<row, inbox, ops, topics>> /\ opening # Null /\ opening' = Null
      /\ proj' = opening.to /\ view' = opening.clip
      /\ lost' = IF lost = "no" /\ opening.clip # row /\ ~ClipWaits THEN "reload" ELSE lost
  BY DEF OpensInPlace, Opened, Quiet
<1>2. opening.clip \in Nat /\ opening.clip <= row /\ row \in Nat
  BY <1>1 DEF LinkOK, EditsOK, EditsTyped
<1>3. lost # "no" => lost' # "no"
  BY <1>1
<1>4. EditsTyped'
  BY <1>1, <1>2 DEF EditsOK, EditsTyped, Losses
<1>5. ClipsOK'
  <2>1. view' = row \/ lost' # "no" \/ ClipWaits
    BY <1>1
  <2>2. view' = row' \/ lost' # "no" \/ ~NoneAfter(inbox', 0, Clips)
    BY <1>1, <2>1, WaitingClip
  <2>3. \A i \in 1 .. Len(inbox') : inbox'[i] \in Clips /\ NoneAfter(inbox', i, Clips)
             => lost' # "no" \/ (inbox'[i].val = row' /\ inbox'[i].who # {Me})
    BY <1>1, <1>3 DEF EditsOK, ClipsOK
  <2> QED
    BY <1>1, <2>2, <2>3 DEF ClipsOK
<1> QED
  BY <1>4, <1>5 DEF EditsOK

\* Nothing about the clip changes, but that a project may be asked for.
LEMMA EditsStay ==
    ASSUME EditsOK, UNCHANGED <<inbox, row, lost, view, topics>>, ops' \in {ops, ops + 1},
           ops' \in 0 .. MaxOps, proj' = proj,
           opening' = opening \/ (opening' # Null /\ opening'.clip = row)
    PROVE  EditsOK'
<1>1. EditsTyped'
  BY DEF EditsOK, EditsTyped
<1>2. ClipsOK'
  BY DEF EditsOK, ClipsOK
<1> QED
  BY <1>1, <1>2 DEF EditsOK

LEMMA EditsAppended ==
    ASSUME LinkOK, EditsOK, UNCHANGED <<row, lost, view, topics, opening, proj>>,
           ops' \in {ops, ops + 1}, ops' \in 0 .. MaxOps,
           NEW msg \in Messages, msg.kind # "clip", inbox' = inbox \o <<msg>>
    PROVE  EditsOK'
<1> DEFINE n == Len(inbox)
<1>1. /\ Len(inbox') = n + 1 /\ n \in Nat
      /\ \A i \in 1 .. n : inbox'[i] = inbox[i]
      /\ inbox'[n + 1] = msg
  BY Appended DEF LinkOK
<1>2. msg \notin Clips
  BY DEF Clips
<1>3. ASSUME NEW i \in 0 .. n
      PROVE  NoneAfter(inbox', i, Clips) <=> NoneAfter(inbox, i, Clips)
  BY <1>2, <1>3, AfterAppended DEF LinkOK
<1>4. 0 \in 0 .. n /\ \A i \in 1 .. Len(inbox') : (i \in 1 .. n /\ i \in 0 .. n) \/ i = n + 1
  BY <1>1
<1> HIDE DEF n
<1>5. EditsTyped'
  <2>1. \A i \in 1 .. Len(inbox') : inbox'[i] \in Clips => inbox'[i].val <= row
    BY <1>1, <1>2, <1>4 DEF EditsOK, EditsTyped, n
  <2> QED
    BY <2>1 DEF EditsOK, EditsTyped
<1>6. ClipsOK'
  <2>1. ASSUME NEW i \in 1 .. Len(inbox'), inbox'[i] \in Clips, NoneAfter(inbox', i, Clips)
        PROVE  lost # "no" \/ (inbox'[i].val = row /\ inbox'[i].who # {Me})
    BY <1>1, <1>2, <1>3, <1>4, <2>1 DEF EditsOK, ClipsOK, n
  <2> QED
    BY <1>3, <1>4, <2>1 DEF EditsOK, ClipsOK
<1> QED
  BY <1>5, <1>6 DEF EditsOK

LEMMA EditEdits ==
    ASSUME LinkOK, PeersOK, EditsOK, NEW t \in Others, NEW published \in BOOLEAN, Edit(t, published)
    PROVE  EditsOK'
<1>1. /\ UNCHANGED <<proj, opening, view, topics>> /\ row' = row + 1 /\ ops < MaxOps /\ ops' = ops + 1
      /\ published /\ Hears => lost' = IF UserOf[t] = Me THEN "own" ELSE "no"
      /\ ~(published /\ Hears) => lost' \in {"outage", "away", "offline"}
  BY DEF Edit, Acts, window, store
<1>2. row \in Nat /\ view \in 0 .. row /\ row <= ops /\ ops \in 0 .. MaxOps
  BY DEF EditsOK, EditsTyped
<1>3. /\ row' \in Nat /\ row' <= ops' /\ ops' \in 0 .. MaxOps
      /\ lost' \in Losses /\ view' \in 0 .. row'
  BY <1>1, <1>2, PresenceTimes DEF Losses
<1>4. opening # Null => opening.clip <= row'
  <2>1. opening # Null => opening.clip \in Nat /\ opening.clip <= row
    BY DEF LinkOK, EditsOK, EditsTyped
  <2> QED
    BY <1>1, <1>2, <2>1
<1>5. CASE ~(published /\ Hears)
  <2>1. UNCHANGED inbox /\ lost' # "no"
    BY <1>1, <1>2, <1>5, EditSays
  <2>2. \A i \in 1 .. Len(inbox) : inbox[i] \in Clips => inbox[i].val <= row'
    <3>1. ASSUME NEW i \in 1 .. Len(inbox), inbox[i] \in Clips
          PROVE  inbox[i].val <= row /\ inbox[i].val \in Nat
      BY <3>1 DEF EditsOK, EditsTyped, Clips, Messages
    <3> QED
      BY <1>1, <1>2, <3>1
  <2>3. EditsTyped'
    BY <1>1, <1>3, <1>4, <2>1, <2>2 DEF EditsOK, EditsTyped
  <2>4. ClipsOK'
    BY <2>1 DEF ClipsOK
  <2> QED
    BY <2>3, <2>4 DEF EditsOK
<1>6. ASSUME published, Hears, NEW msg, Chat(msg, t), inbox' = inbox \o <<msg>>,
             msg.kind = "clip", msg.val = row'
      PROVE  EditsOK'
  <2> DEFINE n == Len(inbox)
  <2>1. msg \in Messages /\ msg \in Clips /\ msg.who = {UserOf[t]}
    BY <1>6 DEF Chat, Clips
  <2>2. /\ Len(inbox') = n + 1 /\ n \in Nat
        /\ \A i \in 1 .. n : inbox'[i] = inbox[i]
        /\ inbox'[n + 1] = msg
    BY <1>6, <2>1, Appended DEF LinkOK
  <2>3. ASSUME NEW i \in 0 .. n
        PROVE  ~NoneAfter(inbox', i, Clips)
    BY <1>6, <2>1, <2>3, AfterAppended DEF LinkOK
  <2>4. 0 \in 0 .. n /\ \A i \in 1 .. Len(inbox') : (i \in 1 .. n /\ i \in 0 .. n) \/ i = n + 1
    BY <2>2
  <2> HIDE DEF n
  <2>5. \A i \in 1 .. Len(inbox') : inbox'[i] \in Clips => inbox'[i].val <= row'
    <3>1. ASSUME NEW i \in 1 .. n, inbox[i] \in Clips
          PROVE  inbox[i].val <= row /\ inbox[i].val \in Nat
      BY <3>1 DEF EditsOK, EditsTyped, Clips, Messages, n
    <3>2. row <= row'
      BY <1>1, <1>2
    <3>3. ASSUME NEW i \in 1 .. n, inbox[i] \in Clips
          PROVE  inbox[i].val <= row'
      BY <1>1, <1>2, <3>1, <3>3
    <3>4. row' <= row'
      BY <1>3
    <3> QED
      BY <1>6, <2>2, <2>4, <3>3, <3>4
  <2>6. EditsTyped'
    BY <1>1, <1>3, <1>4, <2>5 DEF EditsOK, EditsTyped
  <2>7. \A i \in 1 .. Len(inbox') : inbox'[i] \in Clips /\ NoneAfter(inbox', i, Clips)
             => lost' # "no" \/ (inbox'[i].val = row' /\ inbox'[i].who # {Me})
    <3>1. lost' # "no" \/ msg.who # {Me}
      BY <1>1, <1>6, <2>1
    <3> QED
      BY <1>6, <2>2, <2>3, <2>4, <3>1
  <2>8. proj = Shared
    BY <1>6 DEF Hears
  <2>9. ClipsOK'
    BY <1>1, <2>3, <2>4, <2>7, <2>8 DEF ClipsOK
  <2> QED
    BY <2>6, <2>9 DEF EditsOK
<1> QED
  BY <1>2, <1>5, <1>6, EditSays

LEMMA DeliverEdits ==
    ASSUME LinkOK, EditsOK, Deliver
    PROVE  EditsOK'
<1> DEFINE n == Len(inbox')
           msg == inbox[1]
<1>1. /\ inbox # <<>> /\ inbox' = Tail(inbox) /\ Heard(Head(inbox))
      /\ UNCHANGED <<proj, opening, row, lost, ops, topics>>
  BY DEF Deliver, window, edits, Quiet
<1>2. /\ Head(inbox) = msg /\ msg \in Messages /\ 1 \in 1 .. Len(inbox)
      /\ n \in Nat /\ Len(inbox) = n + 1
      /\ \A i \in 1 .. n : inbox'[i] = inbox[i + 1]
  BY <1>1, Popped DEF LinkOK
<1>3. ASSUME NEW i \in 0 .. n
      PROVE  NoneAfter(inbox', i, Clips) <=> NoneAfter(inbox, i + 1, Clips)
  BY <1>1, <1>3, AfterPopped DEF LinkOK
<1>4. \A i \in 1 .. n : i \in 0 .. n /\ i + 1 \in 1 .. Len(inbox)
  BY <1>2
<1>5. /\ NoneAfter(inbox', 0, Clips) <=> NoneAfter(inbox, 1, Clips)
      /\ NoneAfter(inbox, 0, Clips) <=> msg \notin Clips /\ NoneAfter(inbox, 1, Clips)
  <2>1. 0 \in 0 .. n /\ 0 + 1 = 1
    BY <1>2
  <2> QED
    BY <1>1, <1>3, <2>1, AfterNone DEF LinkOK
<1> HIDE DEF n, msg
<1>6. MessageOK(msg) /\ msg.kind \in Kinds /\ msg.val \in Nat
  BY <1>2 DEF Messages
<1> DEFINE w == CHOOSE x \in msg.who : TRUE
<1>7. /\ msg \notin Clips => view' = view
      /\ msg \in Clips => view' = IF w = Me THEN view ELSE msg.val
  <2>1. CASE msg.kind = "clip"
    <3>1. Applied(w, msg.val)
      BY <1>1, <1>2, <2>1, KindsApart DEF Heard
    <3> QED
      BY <1>2, <2>1, <3>1 DEF Applied, Clips
  <2>2. CASE msg.kind = "succeeded"
    BY <1>1, <1>2, <2>2, KindsApart DEF Heard, Clips
  <2>3. CASE msg.kind = "added"
    BY <1>1, <1>2, <2>3, KindsApart DEF Heard, Clips
  <2>4. CASE msg.kind = "removed"
    BY <1>1, <1>2, <2>4, KindsApart DEF Heard, Clips
  <2>5. CASE msg.kind \in Panels
    BY <1>1, <1>2, <2>5, KindsApart DEF Heard, Clips
  <2>6. CASE msg.kind = "head"
    BY <1>1, <1>2, <2>6, KindsApart DEF Heard, Clips
  <2> QED
    BY <1>6, <2>1, <2>2, <2>3, <2>4, <2>5, <2>6 DEF Kinds
<1>8. msg \in Clips => msg.who = {w}
  BY <1>6 DEF Clips, MessageOK
<1> HIDE DEF w
<1>9. msg \in Clips => msg.val <= row
  BY <1>2 DEF EditsOK, EditsTyped, msg
<1>10. view' \in 0 .. row
  BY <1>6, <1>7, <1>9 DEF EditsOK, EditsTyped
<1>11. EditsTyped'
  <2>1. \A i \in 1 .. n : inbox'[i] \in Clips => inbox'[i].val <= row
    BY <1>2, <1>4 DEF EditsOK, EditsTyped
  <2> QED
    BY <1>1, <1>10, <2>1 DEF EditsOK, EditsTyped, n
<1>12. ClipsOK'
  <2>1. ASSUME NEW i \in 1 .. n, inbox'[i] \in Clips, NoneAfter(inbox', i, Clips)
        PROVE  lost # "no" \/ (inbox'[i].val = row /\ inbox'[i].who # {Me})
    <3>1. i \in 0 .. n /\ i + 1 \in 1 .. Len(inbox) /\ inbox'[i] = inbox[i + 1]
      BY <1>2, <1>4
    <3>2. NoneAfter(inbox, i + 1, Clips)
      BY <1>3, <2>1, <3>1
    <3> QED
      BY <2>1, <3>1, <3>2 DEF EditsOK, ClipsOK
  <2>2. ASSUME proj = Shared, NoneAfter(inbox', 0, Clips), lost = "no"
        PROVE  view' = row
    <3>1. CASE msg \in Clips
      <4>1. msg.val = row /\ msg.who # {Me}
        BY <1>2, <1>5, <2>2, <3>1 DEF EditsOK, ClipsOK, msg
      <4> QED
        BY <1>7, <1>8, <3>1, <4>1
    <3>2. CASE msg \notin Clips
      BY <1>5, <1>7, <2>2, <3>2 DEF EditsOK, ClipsOK
    <3> QED
      BY <3>1, <3>2
  <2>3. opening # Null /\ opening.to = Shared /\ proj # Shared => opening.clip = row \/ lost # "no"
    BY DEF EditsOK, ClipsOK
  <2> QED
    BY <1>1, <2>1, <2>2, <2>3 DEF ClipsOK, n
<1> QED
  BY <1>11, <1>12 DEF EditsOK

LEMMA EditsStep ==
    ASSUME RosterInv, EditsOK, [PresenceNext]_presenceVars
    PROVE  EditsOK'
<1>1. LinkOK /\ PeersOK /\ EditsTyped /\ ClipsOK /\ row \in Nat
  BY DEF RosterInv, EditsOK, EditsTyped
<1>2. /\ ops \in 0 .. MaxOps
      /\ \A topic : Acts(topic) => ops' = ops + 1 /\ ops' \in 0 .. MaxOps /\ topics' = topics
      /\ Quiet => ops' = ops /\ topics' = topics
  BY <1>1, PresenceTimes DEF EditsTyped, Acts, Quiet
<1>3. CASE Deliver
  BY <1>1, <1>3, DeliverEdits
<1>4. ASSUME NEW t \in Others, NEW published \in BOOLEAN, Edit(t, published)
      PROVE  EditsOK'
  BY <1>1, <1>4, EditEdits
<1>5. CASE Authorized \/ Reconnect \/ Refresh
  <2>1. UNCHANGED <<inbox, row, lost, view, proj, opening>> /\ Quiet
    BY <1>5 DEF Authorized, Reconnect, Refresh, window, store, edits
  <2> QED
    BY <1>2, <2>1, EditsStay
<1>6. CASE Expire
  <2>1. UNCHANGED <<inbox, row, lost, view, proj, opening>> /\ Acts("token")
    BY <1>6 DEF Expire, window, store, edits
  <2> QED
    BY <1>2, <2>1, EditsStay
<1>7. ASSUME NEW p \in Projects, OpenProject(p)
      PROVE  EditsOK'
  <2>1. /\ UNCHANGED <<inbox, row, lost, view, proj>> /\ Acts("switch")
        /\ opening' = [to |-> p, clip |-> row]
    BY <1>7 DEF OpenProject, store, edits
  <2>2. opening' # Null => opening'.clip = row
    BY <2>1
  <2>3. opening' = opening \/ (opening' # Null /\ opening'.clip = row)
    <3>1. opening = Null
      BY <1>7 DEF OpenProject
    <3> QED
      BY <2>2, <3>1
  <2> QED
    BY <1>2, <2>1, <2>3, EditsStay
<1>8. CASE Join
  <2> DEFINE msg == Message("succeeded", Members, 0)
  <2>1. /\ UNCHANGED <<row, lost, view, proj, opening>> /\ Quiet /\ inbox' = Append(inbox, msg)
    BY <1>8 DEF Join, window, store, edits
  <2>2. msg \in Messages /\ msg.kind # "clip"
    <3>1. Members \subseteq People
      BY <1>1, UsersKnown DEF PeersOK, Members, Present
    <3> QED
      BY <3>1 DEF Message, Messages, MessageOK, Kinds
  <2> HIDE DEF msg
  <2>3. inbox' = inbox \o <<msg>>
    BY <1>1, <2>1, <2>2, AppendIsConcat DEF LinkOK
  <2> QED
    BY <1>1, <1>2, <2>1, <2>2, <2>3, EditsAppended
<1>9. CASE ToggleCollab
  <2>1. UNCHANGED <<row, view, proj, opening>> /\ Acts("switch") /\ Cleared("away")
    BY <1>9 DEF ToggleCollab, Resubscribed
  <2> QED
    BY <1>1, <1>2, <2>1, ClearedClips, EditsOff DEF Losses
<1>10. CASE Drop
  <2>1. UNCHANGED <<row, view, proj, opening>> /\ Acts("drop") /\ Cleared("offline")
    BY <1>10 DEF Drop, window, store
  <2> QED
    BY <1>1, <1>2, <2>1, ClearedClips, EditsOff DEF Losses
<1>11. CASE OpensAnew
  <2>1. /\ row' = row /\ Quiet /\ Cleared("away") /\ opening # Null /\ opening.to # proj
        /\ opening' = Null /\ proj' = opening.to /\ view' = opening.clip
    BY <1>11 DEF OpensAnew, Opened, Resubscribed
  <2> QED
    BY <1>1, <1>2, <2>1, ClearedClips, EditsOff DEF Losses
<1>12. CASE OpensInPlace
  BY <1>1, <1>12, EditsReload
\* What the others say about themselves.
<1>13. ASSUME UNCHANGED <<window, store, edits, topics>>, ops' \in {ops, ops + 1}, ops' \in 0 .. MaxOps,
              \/ UNCHANGED inbox
              \/ \E msg \in Messages : msg.kind # "clip" /\ inbox' = inbox \o <<msg>>
       PROVE  EditsOK'
  <2>1. UNCHANGED <<row, lost, view, topics, proj, opening>>
    BY <1>13 DEF window, store, edits
  <2>2. CASE UNCHANGED inbox
    BY <1>13, <2>1, <2>2, EditsStay
  <2>3. ASSUME NEW msg \in Messages, msg.kind # "clip", inbox' = inbox \o <<msg>>
        PROVE  EditsOK'
    BY <1>1, <1>13, <2>1, <2>3, EditsAppended
  <2> QED
    BY <1>13, <2>2, <2>3
<1>14. ASSUME NEW t \in Others, Come(t) \/ Go(t)
       PROVE  EditsOK'
  <2>1. UNCHANGED <<window, store, edits>> /\ Acts("people")
    BY <1>14 DEF Come, Go
  <2>2. \/ UNCHANGED inbox
        \/ \E msg \in Messages : msg.kind # "clip" /\ inbox' = inbox \o <<msg>>
    <3>1. CASE Come(t)
      BY <1>1, <3>1, ComeSays
    <3>2. CASE Go(t)
      BY <1>1, <3>2, GoSays
    <3> QED
      BY <1>14, <3>1, <3>2
  <2> QED
    BY <1>2, <1>13, <2>1, <2>2
<1>15. ASSUME NEW t \in Others, PointAway(t) \/ \E panel \in Panels : Point(t, panel)
       PROVE  EditsOK'
  <2>1. UNCHANGED <<window, store, edits>> /\ Acts("pointer")
    BY <1>15 DEF Point, PointAway
  <2>2. \/ UNCHANGED inbox
        \/ \E msg \in Messages : msg.kind # "clip" /\ inbox' = inbox \o <<msg>>
    BY <1>1, <1>15, PointSays, PointAwaySays, KindsApart DEF Chat
  <2> QED
    BY <1>2, <1>13, <2>1, <2>2
<1>16. ASSUME NEW t \in Others, Rest(t)
       PROVE  EditsOK'
  <2>1. UNCHANGED <<window, inbox, store, edits>> /\ Quiet
    BY <1>16 DEF Rest
  <2> QED
    BY <1>2, <1>13, <2>1
<1>17. ASSUME NEW t \in Others, NEW x \in Times, Seek(t, x)
       PROVE  EditsOK'
  <2>1. UNCHANGED <<window, store, edits>> /\ Acts("seek")
    BY <1>17 DEF Seek
  <2>2. \/ UNCHANGED inbox
        \/ \E msg \in Messages : msg.kind # "clip" /\ inbox' = inbox \o <<msg>>
    BY <1>1, <1>17, SeekSays DEF Chat
  <2> QED
    BY <1>2, <1>13, <2>1, <2>2
<1>18. CASE UNCHANGED presenceVars
  BY <1>2, <1>13, <1>18 DEF presenceVars
<1> QED
  BY <1>3, <1>4, <1>5, <1>6, <1>7, <1>8, <1>9, <1>10, <1>11, <1>12, <1>14, <1>15, <1>16, <1>17,
     <1>18, NextKinds DEF TabMoves, Chatters

-----------------------------------------------------------------------------
PresenceInv == RosterInv /\ StoreOK /\ GhostsOK /\ HeadsOK /\ EditsOK

LEMMA PresenceInitInv ==
    ASSUME PresenceInit
    PROVE  PresenceInv
<1>1. /\ proj = Shared /\ opening = Null /\ show = TRUE /\ conn = TRUE /\ expired = FALSE
      /\ sub = "auth" /\ joined = FALSE /\ inbox = <<>> /\ list = {} /\ fresh = {} /\ told = {}
      /\ view = 0 /\ cursors = [u \in People |-> NoCursor] /\ here \in SUBSET Others
      /\ over = [t \in Others |-> Null] /\ hot = [t \in Others |-> {}]
      /\ time = [t \in Others |-> 0] /\ last = time /\ rested = [t \in Others |-> TRUE]
      /\ swallowed = {} /\ row = 0 /\ lost = "no" /\ ops = 0 /\ topics \in TopicSets
  BY DEF PresenceInit
<1>2. inbox \in Seq(Messages) /\ \A i \in 1 .. Len(inbox) : FALSE
  BY <1>1, EmptySeq, NothingUnderWay
<1>3. LinkOK
  BY <1>1, <1>2, PresenceNames DEF LinkOK
<1>4. PeersOK
  BY <1>1, PresenceTimes DEF PeersOK
<1>5. RosterTrue /\ SpeakersListed
  BY <1>1, <1>2 DEF RosterTrue, SpeakersListed
<1>6. StoreOK /\ GhostsOK
  BY <1>1 DEF StoreOK, GhostsOK, Cursors, NoCursor
<1>7. ThrottleNear
  BY <1>1 DEF ThrottleNear, Abs
<1>8. TellersPresent /\ LastHeard
  BY <1>1, <1>2 DEF TellersPresent, LastHeard
<1>9. EditsTyped
  BY <1>1, <1>2, PresenceTimes DEF EditsTyped, Losses
<1>10. ClipsOK
  BY <1>1, <1>2 DEF ClipsOK
<1> QED
  BY <1>1, <1>3, <1>4, <1>5, <1>6, <1>7, <1>8, <1>9, <1>10 DEF PresenceInv, RosterInv, HeadsOK, EditsOK

LEMMA PresenceStep ==
    ASSUME PresenceInv, [PresenceNext]_presenceVars
    PROVE  PresenceInv'
<1>1. RosterInv /\ StoreOK /\ GhostsOK /\ HeadsOK /\ EditsOK /\ row \in Nat
  BY DEF PresenceInv, EditsOK, EditsTyped
<1>2. RosterInv'
  BY <1>1, RosterStep
<1>3. StoreOK' /\ GhostsOK'
  BY <1>1, StoreStep
<1>4. HeadsOK'
  BY <1>1, HeadsStep
<1>5. EditsOK'
  BY <1>1, EditsStep
<1> QED
  BY <1>2, <1>3, <1>4, <1>5 DEF PresenceInv

LEMMA PresenceInvariant == PresenceSpec => []PresenceInv
<1>1. PresenceInit => PresenceInv
  BY PresenceInitInv
<1>2. PresenceInv /\ [PresenceNext]_presenceVars => PresenceInv'
  BY PresenceStep
<1> QED
  BY <1>1, <1>2, PTL DEF PresenceSpec

LEMMA PresenceTyped ==
    ASSUME PresenceInv
    PROVE  PresenceTypeOK
<1>1. LinkOK /\ PeersOK /\ list \subseteq People /\ StoreOK /\ EditsTyped
  BY DEF PresenceInv, RosterInv, EditsOK
<1>2. row \in 0 .. MaxOps
  BY <1>1, PresenceTimes DEF EditsTyped
<1>3. opening = Null \/ opening \in [to : Projects, clip : 0 .. MaxOps]
  <2>1. ASSUME opening # Null
        PROVE  opening \in [to : Projects, clip : 0 .. MaxOps]
    <3>1. opening \in [to : Projects, clip : Nat] /\ opening.clip <= row
      BY <1>1, <2>1 DEF LinkOK, EditsTyped
    <3>2. opening.clip \in 0 .. MaxOps
      BY <1>2, <3>1, PresenceTimes
    <3> QED
      BY <3>1, <3>2
  <2> QED
    BY <2>1
<1>4. \A i \in 1 .. Len(inbox) : inbox[i] \in [kind : Kinds, who : SUBSET People, val : Nat]
  BY <1>1, Element DEF LinkOK, Messages
<1>5. (sub = "in" => joined) /\ (joined => conn /\ show /\ sub \in {"asked", "in"})
  BY <1>1 DEF LinkOK
<1> QED
  BY <1>1, <1>2, <1>3, <1>4, <1>5 DEF PresenceTypeOK, LinkOK, PeersOK, StoreOK, Cursors, EditsTyped

\* The collaborators listed are the members of the channel once what is under way has been
\* handled, and a pointer that came since the list belongs to one of them: with any number
\* of tabs and users, whatever comes, goes, breaks and is opened (usePresence.ts,
\* collabStore.ts).
THEOREM PresenceListsMembers == PresenceSpec => []PresenceOK
<1>1. PresenceInv => PresenceOK
  <2> SUFFICES ASSUME PresenceInv
               PROVE  PresenceOK
    OBVIOUS
  <2>1. RosterTrue
    BY DEF PresenceInv, RosterInv
  <2>2. NoFreshGhosts
    BY DEF PresenceInv, GhostsOK, NoFreshGhosts
  <2> QED
    BY <2>1, <2>2, PresenceTyped DEF PresenceOK
<1> QED
  BY <1>1, PresenceInvariant, PTL

\* The playhead drawn for a collaborator with one tab is within 200 ms of theirs once
\* nothing of theirs is under way, unless the last they told was lost
\* (useCursorBroadcast.ts, Timeline.tsx).
THEOREM PresencePlayheads == PresenceSpec => []PlayheadsNear
<1>1. PresenceInv => PlayheadsNear
  <2> SUFFICES ASSUME PresenceInv, NEW t \in Others \ swallowed,
                      UserOf[t] \in Playheads \cap told, sub = "in",
                      ~Waiting({"head", "removed"}, UserOf[t]),
                      UserOf[t] # Me, \A s \in Others \ {t} : UserOf[s] # UserOf[t]
               PROVE  Abs(time[t] - cursors[UserOf[t]].head) < 2
    BY DEF PlayheadsNear
  <2>1. OnlyTab(t) /\ ThrottleNear /\ LastHeard
    BY DEF OnlyTab, PresenceInv, HeadsOK
  <2>2. NoneAfter(inbox, 0, Moves(UserOf[t]))
    BY DEF NoneAfter, Moves, Waiting
  <2>3. cursors[UserOf[t]].head = last[t]
    BY <2>1, <2>2 DEF LastHeard
  <2> QED
    BY <2>1, <2>3 DEF ThrottleNear
<1> QED
  BY <1>1, PresenceInvariant, PTL

\* A tab that shows an old clip of the project on its screen has not handled the event of
\* the last edit, or a reading from before it came later (useOperationSync.ts, projectStore.ts).
THEOREM PresenceMissesEvents == PresenceSpec => []StaleIsMissed
<1>1. PresenceInv => StaleIsMissed
  <2> SUFFICES ASSUME PresenceInv, proj = Shared, view # row, lost = "no"
               PROVE  ClipWaits
    BY DEF StaleIsMissed
  <2>1. LinkOK /\ ClipsOK
    BY DEF PresenceInv, RosterInv, EditsOK
  <2> QED
    BY <2>1, WaitingClip DEF ClipsOK
<1> QED
  BY <1>1, PresenceInvariant, PTL
=============================================================================
