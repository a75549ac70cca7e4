------------------------------ MODULE Session ------------------------------
(***************************************************************************)
(* Signing in and staying signed in: authStore.ts and request() of         *)
(* services/api.ts in the tabs of one browser, App.tsx and AuthPage.tsx as *)
(* far as they decide who may do what, backend/src/auth/.                  *)
(*                                                                         *)
(* A sign-in gives a refresh token, kept in refresh_tokens until it is     *)
(* revoked, and an access token that anyone who knows the secret can check *)
(* and nobody can revoke.  A call that is answered 401 asks for a new      *)
(* access token, once for all calls of the tab, and is sent again.  Every  *)
(* change of a tab's session is written to the browser's storage, where a  *)
(* page that is loaded finds it.                                           *)
(***************************************************************************)
EXTENDS Naturals, FiniteSets

CONSTANTS
    Tabs, Users,
    Calls,      \* the calls a tab may have on their way, signing out excepted
    Logout,     \* the call that signs out
    Tokens,     \* refresh tokens
    MaxEpoch,   \* bound on how often the access tokens expire
    MaxReloads, \* bound on the pages loaded again
    FaultSets,  \* the sets of faults that may come together
    None

(***************************************************************************)
(* "net"     a call fails, or its answer is lost                           *)
(* "expire"  access tokens run out, once                                   *)
(* "often"   ... up to MaxEpoch times                                      *)
(* "lapse"   refresh tokens run out                                        *)
(* "pair"    two calls are on their way at once, signing out aside          *)
(* "more"    there is more than one sign-in                                *)
(* "tabs"    a second tab is used                                          *)
(* "reload"  a page is loaded again                                        *)
(* "late"    somebody signs in while the tab waits for answers to calls of *)
(*           the session before                                            *)
(***************************************************************************)
FaultKinds ==
    {"net", "expire", "often", "lapse", "pair", "more", "tabs", "reload", "late"}

ASSUME TabsKnown == IsFiniteSet(Tabs) /\ Tabs # {}
ASSUME NamesApart == Logout \notin Calls /\ None \notin Users \cup Tokens
ASSUME SessionBounds == MaxEpoch \in Nat /\ MaxReloads \in Nat
ASSUME SessionFaultsKnown == FaultSets \subseteq SUBSET FaultKinds

VARIABLES
    owner,      \* refresh_tokens.user_id, None for a token not yet made
    revoked,    \* the epoch in which a refresh token was revoked, or None
    lapsed,     \* the refresh tokens whose expires_at is over
    epoch,      \* how often all access tokens of before have run out
    session,    \* user, accessToken and refreshToken of each tab's authStore
    stored,     \* the same in localStorage
    form,       \* the sign-in of a tab: who, and the access token it was given
    refreshing, \* _refreshPromise: the token sent, and what came back
    call,       \* each call: how far, the token it carries, its try, who made it
    reloads,
    faults      \* what may go wrong in this behaviour; it never changes

serverVars == <<owner, revoked, lapsed, epoch>>
vars == <<serverVars, session, stored, form, refreshing, call, reloads, faults>>

May(f) == f \in faults
Nobody == [user |-> None, access |-> None, refresh |-> None]
Blank == [at |-> "no", user |-> None, token |-> None]
NoRefresh == [at |-> "no", token |-> None, access |-> None]
Unsent == [at |-> "no", access |-> None, again |-> FALSE, by |-> None, token |-> None]

\* An access token names the sign-in it comes from and the time it was made.
AccessTokens == [from : Tokens, epoch : 0 .. MaxEpoch]
Sessions == [user : Users \cup {None}, access : AccessTokens \cup {None},
             refresh : Tokens \cup {None}]

SessionTypeOK ==
    /\ owner \in [Tokens -> Users \cup {None}]
    /\ revoked \in [Tokens -> (0 .. MaxEpoch) \cup {None}]
    /\ lapsed \subseteq Tokens /\ epoch \in 0 .. MaxEpoch
    /\ session \in [Tabs -> Sessions] /\ stored \in Sessions
    /\ form \in [Tabs -> [at : {"no", "sent", "answer"}, user : Users \cup {None},
                          token : AccessTokens \cup {None}]]
    /\ refreshing \in [Tabs -> [at : {"no", "sent", "answer"}, token : Tokens \cup {None},
                                access : AccessTokens \cup {None}]]
    /\ call \in [Tabs -> [Calls \cup {Logout} ->
                   [at : {"no", "sent", "ok", "failed", "refused", "waiting"},
                    access : AccessTokens \cup {None}, again : BOOLEAN,
                    by : Users \cup {None}, token : Tokens \cup {None}]]]
    /\ reloads \in 0 .. MaxReloads /\ faults \in FaultSets
    /\ \A t \in Tabs : session[t].user = None <=> session[t].refresh = None

SessionInit ==
    /\ owner = [k \in Tokens |-> None] /\ revoked = owner
    /\ lapsed = {} /\ epoch = 0
    /\ session = [t \in Tabs |-> Nobody] /\ stored = Nobody
    /\ form = [t \in Tabs |-> Blank]
    /\ refreshing = [t \in Tabs |-> NoRefresh]
    /\ call = [t \in Tabs |-> [c \in Calls \cup {Logout} |-> Unsent]]
    /\ reloads = 0 /\ faults \in FaultSets

\* selectIsAuthenticated: the editor is shown, or else the page to sign in.
Authed(t) == session[t].user # None /\ session[t].access # None

\* A set() of the store: persist writes it through.
Put(t, s) == session' = [session EXCEPT ![t] = s] /\ stored' = s

\* The server takes a token that is not older than the epoch.
Valid(access) == access # None /\ access.epoch = epoch
Usable(k) == owner[k] # None /\ revoked[k] = None /\ k \notin lapsed
-----------------------------------------------------------------------------
(* Signing in.  The button is disabled while an answer is awaited.           *)

Idle(t) == refreshing[t] = NoRefresh /\ \A c \in Calls \cup {Logout} : call[t][c] = Unsent
Open(t) == May("tabs") \/ t = CHOOSE s \in Tabs : TRUE

\* set({ loading: true }) writes the storage, too.
SignIn(t, u) ==
    /\ ~Authed(t) /\ form[t] = Blank
    /\ \E k \in Tokens : owner[k] = None
    /\ May("more") \/ \A k \in Tokens : owner[k] = None
    /\ May("late") \/ Idle(t)
    /\ Open(t)
    /\ form' = [form EXCEPT ![t] = [Blank EXCEPT !.at = "sent", !.user = u]]
    /\ Put(t, session[t])
    /\ UNCHANGED <<serverVars, refreshing, call, reloads, faults>>

\* login and register end in issue_token_pair; a wrong password changes nothing.
IssueTokenPair(t) ==
    /\ form[t].at = "sent"
    /\ \E k \in Tokens :
         /\ owner[k] = None
         /\ owner' = [owner EXCEPT ![k] = form[t].user]
         /\ form' = [form EXCEPT ![t].at = "answer", ![t].token = [from |-> k, epoch |-> epoch]]
    /\ UNCHANGED <<revoked, lapsed, epoch, session, stored, refreshing, call, reloads, faults>>

AnswerSignIn(t) ==
    /\ form[t].at = "answer"
    /\ LET k == form[t].token IN
       Put(t, [user |-> owner[k.from], access |-> k, refresh |-> k.from])
    /\ form' = [form EXCEPT ![t] = Blank]
    /\ UNCHANGED <<serverVars, refreshing, call, reloads, faults>>

\* The error is shown; the session is as before, and written again.
FailSignIn(t) ==
    /\ form[t].at = "sent" \/ (form[t].at = "answer" /\ May("net"))
    /\ Put(t, session[t])
    /\ form' = [form EXCEPT ![t] = Blank]
    /\ UNCHANGED <<serverVars, refreshing, call, reloads, faults>>
-----------------------------------------------------------------------------
(* Calls.                                                                    *)

ToCall(t, c, r) == call' = [call EXCEPT ![t][c] = r]

\* fetchOnce reads the token when the call is sent.
Send(t, c) ==
    /\ Authed(t) /\ call[t][c] = Unsent
    /\ May("pair") \/ ( /\ c = CHOOSE d \in Calls : TRUE
                       /\ \A s \in Tabs : call[s][c] = Unsent )
    /\ ToCall(t, c, [Unsent EXCEPT !.at = "sent", !.access = session[t].access,
                                   !.by = session[t].user])
    /\ UNCHANGED <<serverVars, session, stored, form, refreshing, reloads, faults>>

\* The refresh token to revoke is read before the call.
SignOut(t) ==
    /\ Authed(t) /\ call[t][Logout] = Unsent
    /\ IF session[t].refresh = None
       THEN Put(t, Nobody) /\ UNCHANGED call
       ELSE /\ ToCall(t, Logout, [at |-> "sent", access |-> session[t].access, again |-> FALSE,
                                  by |-> session[t].user, token |-> session[t].refresh])
            /\ UNCHANGED <<session, stored>>
    /\ UNCHANGED <<serverVars, form, refreshing, reloads, faults>>

\* The extractor of AuthUser, then the handler; to log out is to revoke the token.
Serve(t, c) ==
    /\ call[t][c].at = "sent"
    /\ \/ /\ Valid(call[t][c].access)
          /\ revoked' = IF c = Logout /\ revoked[call[t][c].token] = None
                        THEN [revoked EXCEPT ![call[t][c].token] = epoch] ELSE revoked
          /\ \/ call' = [call EXCEPT ![t][c].at = "ok"]
             \/ May("net") /\ call' = [call EXCEPT ![t][c].at = "failed"]
       \/ /\ ~Valid(call[t][c].access)
          /\ call' = [call EXCEPT ![t][c].at = "refused"]
          /\ UNCHANGED revoked
       \/ /\ May("net")
          /\ call' = [call EXCEPT ![t][c].at = "failed"]
          /\ UNCHANGED revoked
    /\ UNCHANGED <<owner, lapsed, epoch, session, stored, form, refreshing, reloads, faults>>

\* The end of a call; logout() clears the session whatever became of its call.
Finish(t, c) ==
    /\ ToCall(t, c, Unsent)
    /\ IF c = Logout THEN Put(t, Nobody) ELSE UNCHANGED <<session, stored>>

Answer(t, c) ==
    /\ call[t][c].at \in {"ok", "failed"}
    /\ Finish(t, c)
    /\ UNCHANGED <<serverVars, form, refreshing, reloads, faults>>

\* 401 on the first try: join the refresh that is on its way or start one.
AwaitRefresh(t, c) ==
    /\ call[t][c].at = "refused" /\ ~call[t][c].again
    /\ refreshing[t].at # "no" \/ session[t].refresh # None
    /\ ToCall(t, c, [call[t][c] EXCEPT !.at = "waiting"])
    /\ refreshing' = IF refreshing[t].at # "no" THEN refreshing
                     ELSE [refreshing EXCEPT ![t] = [NoRefresh EXCEPT
                             !.at = "sent", !.token = session[t].refresh]]
    /\ UNCHANGED <<serverVars, session, stored, form, reloads, faults>>

\* 401 on the second try, or nothing to refresh with; at its start App signs out then.
FailCall(t, c) ==
    /\ call[t][c].at = "refused"
    /\ call[t][c].again \/ (refreshing[t].at = "no" /\ session[t].refresh = None)
    /\ Finish(t, c)
    /\ UNCHANGED <<serverVars, form, refreshing, reloads, faults>>

\* Mutation of ServeRefresh: a token that was revoked is taken.
ServeRevoked(t) ==
    /\ refreshing[t].at = "sent"
    /\ LET k == refreshing[t].token IN
       refreshing' = [refreshing EXCEPT ![t].at = "answer",
                        ![t].access = IF k \notin lapsed THEN [from |-> k, epoch |-> epoch] ELSE None]
    /\ UNCHANGED <<serverVars, session, stored, form, call, reloads, faults>>

\* A new access token for a refresh token that is neither revoked nor over.
ServeRefresh(t) ==
    /\ refreshing[t].at = "sent"
    /\ LET k == refreshing[t].token IN
       \/ refreshing' = [refreshing EXCEPT ![t].at = "answer",
                           ![t].access = IF Usable(k) THEN [from |-> k, epoch |-> epoch] ELSE None]
       \/ May("net") /\ refreshing' = [refreshing EXCEPT ![t].at = "answer"]
    /\ UNCHANGED <<serverVars, session, stored, form, call, reloads, faults>>

\* Mutation of Retry: only one of the calls that waited hears of the answer.
RetryOne(t, s) ==
    call' = [call EXCEPT ![t] = [c \in Calls \cup {Logout} |->
               IF c # (CHOOSE w \in Calls \cup {Logout} : call[t][w].at = "waiting") THEN call[t][c]
               ELSE IF refreshing[t].access = None THEN Unsent
               ELSE [call[t][c] EXCEPT !.at = "sent", !.again = TRUE, !.access = s.access]]]

\* The calls that waited are sent again with the token the store has now, or fail.
Retry(t, s) ==
    call' = [call EXCEPT ![t] = [c \in Calls \cup {Logout} |->
               IF call[t][c].at # "waiting" THEN call[t][c]
               ELSE IF refreshing[t].access = None THEN Unsent
               ELSE [call[t][c] EXCEPT !.at = "sent", !.again = TRUE, !.access = s.access]]]

\* Whoever the tab belongs to by now: the new token is put in, or the session cleared.
AnswerRefresh(t) ==
    /\ refreshing[t].at = "answer"
    /\ LET s == IF refreshing[t].access = None THEN Nobody
                ELSE [session[t] EXCEPT !.access = refreshing[t].access] IN
       Put(t, s) /\ Retry(t, s)
    /\ refreshing' = [refreshing EXCEPT ![t] = NoRefresh]
    /\ UNCHANGED <<serverVars, form, reloads, faults>>
-----------------------------------------------------------------------------
(* Time and pages.                                                           *)

ExpireAccess ==
    /\ May("expire") /\ epoch < MaxEpoch
    /\ epoch = 0 \/ May("often")
    /\ epoch' = epoch + 1
    /\ UNCHANGED <<owner, revoked, lapsed, session, stored, form, refreshing, call, reloads, faults>>

LapseRefresh(k) ==
    /\ May("lapse") /\ owner[k] # None /\ k \notin lapsed
    /\ lapsed' = lapsed \cup {k}
    /\ UNCHANGED <<owner, revoked, epoch, session, stored, form, refreshing, call, reloads, faults>>

\* Mutation of Reload: the storage holds the tokens and not the user.
ReloadTokens(t) ==
    /\ May("reload") /\ reloads < MaxReloads
    /\ reloads' = reloads + 1
    /\ session' = [session EXCEPT ![t] = [stored EXCEPT !.user = session[t].user]]
    /\ form' = [form EXCEPT ![t] = Blank]
    /\ refreshing' = [refreshing EXCEPT ![t] = NoRefresh]
    /\ call' = [call EXCEPT ![t] = [c \in Calls \cup {Logout} |-> Unsent]]
    /\ UNCHANGED <<serverVars, stored, faults>>

\* What was on its way is forgotten; a page opened in a second tab starts the same way.
Reload(t) ==
    /\ May("reload") /\ reloads < MaxReloads
    /\ Open(t)
    /\ reloads' = reloads + 1
    /\ session' = [session EXCEPT ![t] = stored]
    /\ form' = [form EXCEPT ![t] = Blank]
    /\ refreshing' = [refreshing EXCEPT ![t] = NoRefresh]
    /\ call' = [call EXCEPT ![t] = [c \in Calls \cup {Logout} |-> Unsent]]
    /\ UNCHANGED <<serverVars, stored, faults>>
-----------------------------------------------------------------------------
Handle(t) ==
    \/ IssueTokenPair(t) \/ AnswerSignIn(t) \/ ServeRefresh(t) \/ AnswerRefresh(t)
    \/ \E c \in Calls \cup {Logout} :
         Serve(t, c) \/ Answer(t, c) \/ AwaitRefresh(t, c) \/ FailCall(t, c)

SessionNext ==
    \/ \E t \in Tabs :
         \/ \E u \in Users : SignIn(t, u)
         \/ FailSignIn(t)
         \/ \E c \in Calls : Send(t, c)
         \/ SignOut(t) \/ Handle(t) \/ Reload(t)
    \/ ExpireAccess
    \/ \E k \in Tokens : LapseRefresh(k)

\* What was sent is served and answered, each call for itself.
SessionSpec == /\ SessionInit /\ [][SessionNext]_vars
               /\ \A t \in Tabs : WF_vars(ServeRefresh(t)) /\ WF_vars(AnswerRefresh(t))
-----------------------------------------------------------------------------
(* Properties.                                                               *)

\* The tab acts as the user it shows: its tokens are that user's, and what the
\* server did for a call it did as the user who made it, the second try included.
\* Somebody who signs in while an old refresh is on its way gets the old token.
ActsAsUser ==
    ~May("late") =>
      \A t \in Tabs :
        /\ Authed(t) => /\ owner[session[t].access.from] = session[t].user
                        /\ session[t].refresh = session[t].access.from
        /\ \A c \in Calls \cup {Logout} :
             call[t][c].at = "ok" => owner[call[t][c].access.from] = call[t][c].by

\* Types, and whose the tokens are.
SessionOK == SessionTypeOK /\ ActsAsUser

\* Signing out reaches every tab: when the access tokens of then have run out,
\* no access token comes from the token that was revoked, late refreshes included.
LogoutReachesAll ==
    \A t \in Tabs :
      LET held == {session[t].access, refreshing[t].access, stored.access}
                    \cup {call[t][c].access : c \in Calls \cup {Logout}}
      IN  \A a \in held \ {None} : revoked[a.from] # None => a.epoch <= revoked[a.from]

\* Calls that wait for the one refresh of their tab do not wait for ever.
NobodyWaits ==
    \A t \in Tabs : \A c \in Calls \cup {Logout} :
      call[t][c].at = "waiting" ~> call[t][c].at # "waiting"
=============================================================================
