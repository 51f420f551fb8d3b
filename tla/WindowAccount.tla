---------------------------- MODULE WindowAccount ----------------------------
(***************************************************************************)
(* The account of the desktop window: the session in the keychain, the     *)
(* account page's calls of the backend, the badge of team invitations and  *)
(* the rows other people share, which the window polls for.                *)
(*                                                                         *)
(* A call of the account page runs to its end in the backend even when the *)
(* page has been left; the page opened meanwhile knows nothing of it.      *)
(* Every request of the sharing goes through one cached token, and the     *)
(* shared rows through a cache that a background walk fills.               *)
(***************************************************************************)
EXTENDS Integers, FiniteSets

CONSTANTS
    User,
    None, Cold,
    MaxCookies,  \* bound on the sessions
    MaxMounts,   \* bound on the visits of the account page
    MaxTaps,     \* bound on what the user does
    MaxOthers    \* bound on the mishaps: failures, invitations, coming back to the page

AccountBounds == User # {} /\ {MaxCookies, MaxMounts, MaxTaps, MaxOthers} \subseteq Nat

Session == [user : User, cookie : 1..MaxCookies]
AccountNone == None \notin User \cup Session /\ Cold \notin User /\ Cold # None
Op == {"status", "auth", "verify", "resend", "signout", "avatar"}
At == {"code", "request", "load", "update", "save", "read", "unlock", "lock", "revoke",
       "forget", "delete", "answer", "pending", "failed"}
Call == [op : Op, user : User \cup {None}, mount : 0..MaxMounts, at : At,
         sess : Session \cup {None}]
Pull == [at : {"load", "token", "answer"}, sess : Session \cup {None},
         of : User \cup {None}, got : BOOLEAN, live : BOOLEAN]
Walk == [of : User \cup {None}, at : {"walk", "answer", "none"}]

VARIABLES
    session,   \* the session in the keychain, or None
    cookies,   \* how many sessions there have been
    revoked,   \* the cookies the server has revoked
    verified,  \* the users whose email is confirmed
    token,     \* the cached token: the session it was minted for, or None
    key,       \* whose sync key is unlocked, or None
    calls,     \* the account page's calls in flight
    mount,     \* the visit of the account page, 0 when it is not shown
    mounts,    \* how many visits there have been
    page,      \* what the page shows: loading, status, pending, submitting, saving
    app,       \* the user the window shows as signed in, or None
    invited,   \* who has an invitation on the server
    invites,   \* whose invitation the badge shows
    pulls,     \* the requests for the invitations in flight
    cache,     \* whose shared rows the backend has kept, or Cold
    walk,      \* the background walk: for whom, or not running
    read,      \* the window's request for the shared rows
    shared,    \* whose shared rows the window shows, or None
    visible,
    watched,   \* which of the two pollers a behaviour follows: they share no state
    left

backend == <<session, cookies, revoked, verified, token, key>>
pill == <<app, invites, pulls>>
rows == <<cache, walk, read, shared>>
vars == <<session, cookies, revoked, verified, token, key, calls, mount, mounts, page, app,
          invited, invites, pulls, cache, walk, read, shared, visible, watched, left>>

FreshPage == [loading |-> TRUE, status |-> None, pending |-> None, submitting |-> FALSE,
              saving |-> FALSE]
FreshPull == [at |-> "load", sess |-> None, of |-> None, got |-> FALSE, live |-> TRUE]
Asked == IF watched = "invites" THEN {FreshPull} ELSE {}
Idle == [of |-> None, at |-> "none"]
UserOf(sess) == IF sess = None THEN None ELSE sess.user

Init ==
    /\ LET u == CHOOSE u \in User : TRUE IN
        /\ \/ session = None /\ verified = User \ {u} /\ cache = Cold
           \/ session = [user |-> u, cookie |-> 1] /\ verified = User /\ cache \in {Cold, u}
        /\ invited = {u}
    /\ key = UserOf(session) /\ cookies = 1 /\ revoked = {} /\ token = None
    /\ calls = {[op |-> "status", user |-> None, mount |-> 0, at |-> "read", sess |-> None]}
    /\ mount = 0 /\ mounts = 0 /\ page = FreshPage
    /\ app = None /\ invites = {} /\ pulls = {}
    /\ walk = Idle /\ read = Idle /\ shared = None
    /\ visible = TRUE /\ watched \in {"invites", "rows"}
    /\ watched = "invites" => cache = Cold
    /\ left = [taps |-> MaxTaps, others |-> MaxOthers]
-----------------------------------------------------------------------------
(* The account page.                                                       *)

NewCall(op, u, at) == [op |-> op, user |-> u, mount |-> mount, at |-> at, sess |-> None]
Begin(call) == calls' = calls \cup {call}

Tap == left.taps > 0 /\ left' = [left EXCEPT !.taps = @ - 1]
Mishap == left.others > 0 /\ left' = [left EXCEPT !.others = @ - 1]

\* The page asks for the account's status when it opens; the menu leads to it.  Opening it
\* again counts among the bounded mishaps.
OpenPage ==
    /\ mount = 0 /\ mounts < MaxMounts
    /\ IF mounts = 0 THEN UNCHANGED left ELSE Mishap
    /\ mounts' = mounts + 1 /\ mount' = mounts + 1 /\ page' = FreshPage
    /\ calls' = calls \cup {[NewCall("status", None, "read") EXCEPT !.mount = mounts + 1]}
    /\ UNCHANGED <<backend, pill, rows, invited, visible, watched>>

\* The page is left, its calls in flight.
LeavePage ==
    /\ mount # 0
    /\ mount' = 0 /\ page' = FreshPage
    /\ UNCHANGED <<backend, pill, rows, calls, mounts, invited, visible, watched, left>>

\* What the page shows, by what it knows.
Shown == mount # 0 /\ ~page.loading
SignedInCard == Shown /\ page.status # None
CodeForm == Shown /\ page.status = None /\ page.pending # None
SignInForm == Shown /\ page.status = None /\ page.pending = None

\* Signing in and signing up both end with a session or with a code to enter.
SubmitAuth(u) ==
    /\ SignInForm /\ ~page.submitting /\ Tap
    /\ Begin(NewCall("auth", u, "request"))
    /\ page' = [page EXCEPT !.submitting = TRUE]
    /\ UNCHANGED <<backend, pill, rows, mount, mounts, invited, visible, watched>>

VerifyEmail ==
    /\ CodeForm /\ ~page.submitting /\ Tap
    /\ Begin(NewCall("verify", page.pending, "code"))
    /\ page' = [page EXCEPT !.submitting = TRUE]
    /\ UNCHANGED <<backend, pill, rows, mount, mounts, invited, visible, watched>>

ResendCode ==
    /\ CodeForm /\ ~page.submitting /\ Tap
    /\ Begin(NewCall("resend", page.pending, "failed"))
    /\ page' = [page EXCEPT !.submitting = TRUE]
    /\ UNCHANGED <<backend, pill, rows, mount, mounts, invited, visible, watched>>

CancelPending ==
    /\ CodeForm /\ ~page.submitting
    /\ page' = [page EXCEPT !.pending = None]
    /\ UNCHANGED <<backend, pill, rows, calls, mount, mounts, invited, visible, watched, left>>

SignOutTap ==
    /\ SignedInCard /\ ~page.submitting /\ Tap
    /\ Begin(NewCall("signout", None, "lock"))
    /\ page' = [page EXCEPT !.submitting = TRUE]
    /\ UNCHANGED <<backend, pill, rows, mount, mounts, invited, visible, watched>>

\* A picture is chosen or removed; signing out does not wait for it, nor it for that.
PickAvatar ==
    /\ SignedInCard /\ ~page.saving /\ Tap
    /\ Begin(NewCall("avatar", None, "load"))
    /\ page' = [page EXCEPT !.saving = TRUE]
    /\ UNCHANGED <<backend, pill, rows, mount, mounts, invited, visible, watched>>
-----------------------------------------------------------------------------
(* The backend's side of the calls, a request or a keychain access a step.  *)

Step(c, at) == calls' = (calls \ {c}) \cup {[c EXCEPT !.at = at]}
StepWith(c, at, sess) == calls' = (calls \ {c}) \cup {[c EXCEPT !.at = at, !.sess = sess]}

OnlyCalls == UNCHANGED <<pill, rows, mount, mounts, page, invited, visible, watched>>

\* A request may fail, before it has done anything.
Fail(c) ==
    /\ c.at \in {"code", "request", "update", "delete"} /\ Mishap
    /\ Step(c, "failed")
    /\ OnlyCalls /\ UNCHANGED backend

\* The emailed code is confirmed, and the sign-in follows.
ConfirmCode(c) ==
    /\ c.at = "code"
    /\ verified' = verified \cup {c.user}
    /\ Step(c, "request")
    /\ OnlyCalls /\ UNCHANGED <<session, cookies, revoked, token, key, left>>

\* An account that is not verified gets a code and no session.
SignIn(c) ==
    /\ c.at = "request"
    /\ IF c.user \notin verified
       THEN Step(c, "pending") /\ UNCHANGED <<session, cookies>>
       ELSE /\ cookies < MaxCookies
            /\ cookies' = cookies + 1
            /\ session' = [user |-> c.user, cookie |-> cookies + 1]
            /\ Step(c, "read")
    /\ OnlyCalls /\ UNCHANGED <<revoked, verified, token, key, left>>

\* The status is what the keychain holds; after a sign-in, sync is unlocked with it.
ReadStatus(c) ==
    /\ c.at = "read"
    /\ StepWith(c, IF c.op \in {"auth", "verify"} /\ session # None THEN "unlock" ELSE "answer",
                session)
    /\ OnlyCalls /\ UNCHANGED <<backend, left>>

\* Slip: the cached token serves whoever asks.
TokenForAnyone(sess) == IF token # None THEN token ELSE IF sess.cookie \in revoked THEN None ELSE sess

\* The token for a session: the cached one if it was minted for its cookie, or a new one,
\* which a revoked session does not get.
TokenFor(sess) ==
    IF token # None /\ token.cookie = sess.cookie THEN token
    ELSE IF sess.cookie \in revoked THEN None ELSE sess

\* The unlock asks for a token, and takes the key if it is of the user who signed in.
Unlock(c) ==
    /\ c.at = "unlock"
    /\ IF session = None \/ (session # None /\ TokenFor(session) = None)
       THEN UNCHANGED <<token, key>>
       ELSE /\ token' = TokenFor(session)
            /\ key' = IF token'.user = c.sess.user THEN c.sess.user ELSE key
    /\ Step(c, "answer")
    /\ OnlyCalls /\ UNCHANGED <<session, cookies, revoked, verified, left>>

\* Signing out: the sync key and the kept rows go first.
Lock(c) ==
    /\ c.at = "lock"
    /\ key' = None /\ cache' = Cold
    /\ Step(c, "revoke")
    /\ UNCHANGED <<session, cookies, revoked, verified, token, pill, walk, read, shared, mount,
                   mounts, page, invited, visible, watched, left>>

\* The session is revoked, unless the server is not to be reached.
Revoke(c) ==
    /\ c.at = "revoke"
    /\ \/ revoked' = revoked \cup (IF session = None THEN {} ELSE {session.cookie}) /\ UNCHANGED left
       \/ Mishap /\ UNCHANGED revoked
    /\ Step(c, "forget")
    /\ OnlyCalls /\ UNCHANGED <<session, cookies, verified, token, key>>

ForgetToken(c) ==
    /\ c.at = "forget"
    /\ token' = None
    /\ Step(c, "delete")
    /\ OnlyCalls /\ UNCHANGED <<session, cookies, revoked, verified, key, left>>

DeleteSession(c) ==
    /\ c.at = "delete"
    /\ session' = None
    /\ Step(c, "read")
    /\ OnlyCalls /\ UNCHANGED <<cookies, revoked, verified, token, key, left>>

\* A picture: the session is loaded, the server told, and the session saved with it.
LoadForAvatar(c) ==
    /\ c.at = "load"
    /\ StepWith(c, IF session = None THEN "failed" ELSE "update", session)
    /\ OnlyCalls /\ UNCHANGED <<backend, left>>

UpdateImage(c) ==
    /\ c.at = "update"
    /\ Step(c, IF c.sess.cookie \in revoked THEN "failed" ELSE "save")
    /\ OnlyCalls /\ UNCHANGED <<backend, left>>

SaveSession(c) ==
    /\ c.at = "save"
    /\ session' = c.sess
    /\ Step(c, "read")
    /\ OnlyCalls /\ UNCHANGED <<cookies, revoked, verified, token, key, left>>
-----------------------------------------------------------------------------
(* The answers, and what hangs on the account the window shows.            *)

\* The window signed in asks for the invitations at once; signed out, it forgets them and
\* no longer listens to what it asked.
SignedIn(was, is) ==
    IF (was = None) = (is = None) THEN UNCHANGED <<invites, pulls>>
    ELSE IF is = None THEN invites' = {} /\ pulls' = {[p EXCEPT !.live = FALSE] : p \in pulls}
    ELSE pulls' = pulls \cup Asked /\ UNCHANGED invites

\* The page's answers reach the window's account even when the page is gone; only the
\* status asked for on opening does not.
Answer(c) ==
    /\ c.at = "answer"
    /\ calls' = calls \ {c}
    /\ IF c.op = "status" /\ c.mount # mount /\ c.mount # 0
       THEN UNCHANGED <<app, invites, pulls>>
       ELSE app' = UserOf(c.sess) /\ SignedIn(app, UserOf(c.sess))
    /\ page' = IF c.mount # mount \/ mount = 0 THEN page
               ELSE [loading |-> page.loading /\ c.op # "status",
                     status |-> UserOf(c.sess),
                     pending |-> IF c.op = "verify" THEN None ELSE page.pending,
                     submitting |-> page.submitting /\ c.op \in {"status", "avatar"},
                     saving |-> page.saving /\ c.op # "avatar"]
    /\ UNCHANGED <<backend, rows, mount, mounts, invited, visible, watched, left>>

\* The other answers only reach the page: a code is wanted, or an error is shown.
AnswerPage(c) ==
    /\ c.at \in {"pending", "failed"}
    /\ calls' = calls \ {c}
    /\ page' = IF c.mount # mount THEN page
               ELSE [page EXCEPT
                        !.pending = IF c.at = "pending" /\ c.op = "auth" THEN c.user ELSE @,
                        !.submitting = @ /\ c.op = "avatar",
                        !.saving = @ /\ c.op # "avatar"]
    /\ UNCHANGED <<backend, pill, rows, mount, mounts, invited, visible, watched, left>>
-----------------------------------------------------------------------------
(* The invitations.                                                        *)

OnlyPulls == UNCHANGED <<rows, calls, mount, mounts, page, app, invited, visible, watched, left>>

PullLoad(p) ==
    /\ p.at = "load"
    /\ pulls' = (pulls \ {p}) \cup (IF session = None THEN {}
                                    ELSE {[p EXCEPT !.at = "token", !.sess = session]})
    /\ OnlyPulls /\ UNCHANGED <<backend, invites>>

\* The token of the loaded session, and the list it gives.
PullToken(p) ==
    /\ p.at = "token"
    /\ LET t == TokenFor(p.sess)
       IN  IF t = None THEN pulls' = pulls \ {p} /\ UNCHANGED token
           ELSE /\ token' = t
                /\ pulls' = (pulls \ {p}) \cup
                            {[p EXCEPT !.at = "answer", !.of = t.user, !.got = t.user \in invited]}
    /\ OnlyPulls /\ UNCHANGED <<session, cookies, revoked, verified, key, invites>>

PullAnswer(p) ==
    /\ p.at = "answer"
    /\ pulls' = pulls \ {p}
    /\ invites' = IF p.live THEN (IF p.got THEN {p.of} ELSE {}) ELSE invites
    /\ OnlyPulls /\ UNCHANGED backend

\* The window asks again now and then while it is visible and shows an account.
PullTick ==
    /\ visible /\ app # None /\ pulls = {} /\ watched = "invites"
    /\ pulls' = {FreshPull}
    /\ OnlyPulls /\ UNCHANGED <<backend, invites>>

\* The badge is shown while it knows of an invitation, and leads to it.
BadgeOffers(u) == u \in invites

\* An invitation is accepted or declined, and leaves the badge at once.
DismissInvite(u) ==
    /\ BadgeOffers(u) /\ UserOf(session) = u /\ Tap
    /\ invited' = invited \ {u} /\ invites' = invites \ {u}
    /\ UNCHANGED <<backend, rows, calls, mount, mounts, page, app, pulls, visible, watched>>

\* Someone invites a user, or takes an invitation back.
Invite(u) ==
    /\ watched = "invites" /\ Mishap
    /\ invited' = IF u \in invited THEN invited \ {u} ELSE invited \cup {u}
    /\ UNCHANGED <<backend, pill, rows, calls, mount, mounts, page, visible, watched>>

\* The window is hidden, or shown again, when everything is asked for afresh.
Toggle ==
    /\ Tap /\ visible' = ~visible
    /\ pulls' = IF visible' /\ app # None THEN pulls \cup Asked ELSE pulls
    /\ UNCHANGED <<backend, rows, calls, mount, mounts, page, app, invited, invites, watched>>
-----------------------------------------------------------------------------
(* The shared rows.                                                        *)

OnlyRows == UNCHANGED <<backend, pill, calls, mount, mounts, page, invited, visible, watched, left>>

\* Rows can be listed with the key of the session's own user.
CanList == session # None /\ key = session.user

\* The window asks: signed out it gets nothing, what is kept comes at once while a walk
\* in the background brings it up to date, and with nothing kept it waits for a walk.
ReadShared ==
    /\ visible /\ read = Idle /\ watched = "rows"
    /\ IF session = None
       THEN read' = [of |-> None, at |-> "answer"] /\ UNCHANGED walk
       ELSE IF cache # Cold
       THEN read' = [of |-> cache, at |-> "answer"]
            /\ walk' = IF walk = Idle /\ CanList THEN [of |-> session.user, at |-> "walk"] ELSE walk
       ELSE read' = (IF CanList THEN [of |-> session.user, at |-> "walk"] ELSE Idle) /\ UNCHANGED walk
    /\ OnlyRows /\ UNCHANGED <<cache, shared>>

\* The walk the window waits for ends; what it found is kept.
ReadWalked ==
    /\ read.at = "walk"
    /\ read' = [read EXCEPT !.at = "answer"] /\ cache' = read.of
    /\ OnlyRows /\ UNCHANGED <<walk, shared>>

ReadAnswered ==
    /\ read.at = "answer"
    /\ shared' = read.of /\ read' = Idle
    /\ OnlyRows /\ UNCHANGED <<cache, walk>>

\* The background walk ends: what it found is kept, and pushed to the window if it is new.
WalkEnds ==
    /\ walk.at = "walk"
    /\ cache' = walk.of /\ walk' = Idle
    /\ shared' = IF cache # walk.of THEN walk.of ELSE shared
    /\ OnlyRows /\ UNCHANGED read
-----------------------------------------------------------------------------
CallStep(c) ==
    \/ ConfirmCode(c) \/ SignIn(c) \/ ReadStatus(c) \/ Unlock(c)
    \/ Lock(c) \/ Revoke(c) \/ ForgetToken(c) \/ DeleteSession(c)
    \/ LoadForAvatar(c) \/ UpdateImage(c) \/ SaveSession(c)
    \/ Answer(c) \/ AnswerPage(c)
PullStep(p) == PullLoad(p) \/ PullToken(p) \/ PullAnswer(p)

Calls == \E c \in calls : CallStep(c)
Fails == \E c \in calls : Fail(c)
Pulls == (\E p \in pulls : PullStep(p)) \/ PullTick
Rows == ReadWalked \/ ReadAnswered
Page ==
    \/ OpenPage \/ LeavePage \/ VerifyEmail \/ ResendCode \/ CancelPending
    \/ SignOutTap \/ PickAvatar \/ Toggle
    \/ \E u \in User : SubmitAuth(u) \/ DismissInvite(u)
World == \E u \in User : Invite(u)

Next == Calls \/ Fails \/ Pulls \/ Rows \/ ReadShared \/ WalkEnds \/ Page \/ World
Spec == Init /\ [][Next]_vars

\* Calls and walks end and the polls' timers fire; nobody has to tap or to invite.
Fairness ==
    /\ WF_vars(Calls) /\ WF_vars(Pulls) /\ WF_vars(Rows)
    /\ SF_vars(ReadShared) /\ WF_vars(WalkEnds)
FairSpec == Spec /\ Fairness
-----------------------------------------------------------------------------
TypeOK ==
    /\ session \in Session \cup {None} /\ cookies \in 1..MaxCookies
    /\ revoked \subseteq 1..MaxCookies /\ verified \subseteq User
    /\ token \in Session \cup {None} /\ key \in User \cup {None}
    /\ calls \subseteq Call /\ mount \in 0..MaxMounts /\ mounts \in 0..MaxMounts
    /\ page \in [loading : BOOLEAN, status : User \cup {None}, pending : User \cup {None},
                 submitting : BOOLEAN, saving : BOOLEAN]
    /\ app \in User \cup {None} /\ invited \subseteq User /\ invites \subseteq User
    /\ pulls \subseteq Pull /\ cache \in User \cup {Cold} /\ walk \in Walk /\ read \in Walk
    /\ shared \in User \cup {None} /\ visible \in BOOLEAN

\* A request gets the token of the session it began with, whoever has signed out and in
\* since, and whichever token was cached meanwhile (service.go Token).
TokenOfItsSession == \A p \in pulls : p.at = "answer" => p.of = p.sess.user

\* The account the window shows is the one whose session, key and token can be used.
InOrder ==
    /\ visible /\ app = UserOf(session)
    /\ session # None => key = session.user /\ session.cookie \notin revoked

InvitesShown == InOrder /\ watched = "invites" => invites = {app} \cap invited
RowsShown == InOrder /\ watched = "rows" => shared = app

\* A window in order comes to show the invitations of the account it shows, and none when
\* it is signed out, whatever was asked for under another account (App.tsx invites).
InvitesFollow == <>[]InvitesShown

\* A window in order comes to show the rows shared with the account it shows, and none when
\* it is signed out, whatever a walk begun under another account brings (app.go
\* SharingSharedEntries, refreshSharedAsync).
RowsFollow == <>[]RowsShown

\* "The local token is deleted below regardless, which is what actually signs the user out
\* on this device" (service.go:278): a session that has been signed out does not come back.
SignedOutStays == [][session = None => session' = None \/ cookies' # cookies]_vars
=============================================================================
