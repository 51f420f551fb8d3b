----------------------------- MODULE PhoneSession -----------------------------
(***************************************************************************)
(* The account on the phone (mobile/src/sync/account.ts, sync/auth.ts,     *)
(* lib/session.tsx, lib/entries.tsx, app/sign-in.tsx, app/account.tsx,     *)
(* app/_layout.tsx): signing up, in and out, the token every request       *)
(* shares, the profile picture, and the history read for the account.      *)
(*                                                                         *)
(* A session, its key and a token are named by the account they are of.    *)
(* The stored session's two halves, token and cookie, are one slot.        *)
(*                                                                         *)
(* Bounds: one sign-in or sign-out at a time (the form is busy meanwhile,  *)
(* and a second tap on Sign out repeats the first), one reload of each     *)
(* account's history in flight, one picture.                               *)
(***************************************************************************)
EXTENDS Naturals, FiniteSets

CONSTANTS
    Users,
    None,
    MaxAuths,    \* bound on sign-ins, sign-ups and sign-outs begun
    MaxReloads,  \* bound on reloads the user asks for
    MaxPictures, \* bound on pictures set
    MaxExpiries, \* bound on tokens expiring
    MaxFails,    \* bound on failed requests
    MaxKills     \* bound on the application being killed

Account == [user : Users, dek : Users]
SessionNone == None \notin Users /\ None \notin Account
SessionBounds ==
    {MaxAuths, MaxReloads, MaxPictures, MaxExpiries, MaxFails, MaxKills} \subseteq Nat

Slots == {"cookie", "user", "dek"}
Owner == Users \cup {None}

VARIABLES
    accounts, \* the server's accounts: "none", "unverified" or "ok"
    sessions, \* the accounts with a session of this phone the server honours
    store,    \* the secure store: whose session, user and key each slot holds
    account,  \* the signed-in account, [user, dek], or None
    loading,  \* the stored account is still being read
    form,     \* the sign-in screen: [creating, verifying]
    auth,     \* the sign-in or sign-out in flight: [kind, who, at, todo, tok]
    cached,   \* whose token is cached, or None
    minting,  \* whose token is being minted, or None
    reload,   \* the reload of each account's history: [at, tok]
    picture,  \* the picture being set: [who, at]
    entries,  \* the history shown, [of, whole], or None
    left,     \* what is left of each bound
    cut       \* history: a kill cut a "save" or a "clear" short, or a "picture"
              \* landed after its session

vars == <<accounts, sessions, store, account, loading, form, auth, cached, minting,
          reload, picture, entries, left, cut>>

Idle == [kind |-> "none", who |-> None, at |-> "idle", todo |-> {}, tok |-> None]
Quiet == [at |-> "idle", tok |-> None]
Empty == [s \in Slots |-> None]
Blank == [creating |-> FALSE, verifying |-> FALSE]
NoPicture == [who |-> None, at |-> "idle"]

TypeOK ==
    /\ accounts \in [Users -> {"none", "unverified", "ok"}]
    /\ sessions \subseteq Users
    /\ store \in [Slots -> Owner]
    /\ account = None \/ account \in Account
    /\ loading \in BOOLEAN /\ cut \subseteq {"save", "clear", "picture"}
    /\ form \in [creating : BOOLEAN, verifying : BOOLEAN]
    /\ auth \in [kind : {"none", "in", "out"}, who : Owner, todo : SUBSET Slots, tok : Owner,
                 at : {"idle", "signup", "verify", "post", "save", "token", "mint", "keys",
                       "dek", "undevice", "revoke", "clear"}]
    /\ cached \in Owner /\ minting \in Owner
    /\ reload \in [Users -> [at : {"idle", "token", "mint", "list"}, tok : Owner]]
    /\ picture \in [who : Owner, at : {"idle", "upload", "store", "show"}]
    /\ entries = None \/ entries \in [of : Users, whole : BOOLEAN]

Init ==
    /\ accounts \in [Users -> {"none", "ok"}]
    /\ sessions = {} /\ store = Empty
    /\ account = None /\ loading = FALSE /\ form = Blank
    /\ auth = Idle /\ cached = None /\ minting = None
    /\ reload = [u \in Users |-> Quiet] /\ picture = NoPicture
    /\ entries = None /\ cut = {}
    /\ left = [auths |-> MaxAuths, reloads |-> MaxReloads, pictures |-> MaxPictures,
               expiries |-> MaxExpiries, fails |-> MaxFails, kills |-> MaxKills]

Spend(what) == left[what] > 0 /\ left' = [left EXCEPT ![what] = @ - 1]

Server == <<accounts, sessions>>
Tokens == <<cached, minting>>
Reads == <<reload, entries>>

\* What setting the account does at once: the screens follow it, and the history
\* is dropped when there is none and read again when there is one.
SetAccount(a) ==
    /\ account' = a
    /\ entries' = IF a = None THEN None ELSE entries
    /\ reload' = IF a # None /\ reload[a.user].at = "idle"
                 THEN [reload EXCEPT ![a.user].at = "token"] ELSE reload

-----------------------------------------------------------------------------
(* What the screens offer *)

\* Signed out, only the sign-in screen is reachable; signed in, it is not.
Routed(screen) == ~loading /\ (screen = "sign-in") = (account = None)

\* The sign-in screen: its button, unless it is busy, and the switch between
\* signing in and up, until an emailed code is asked for.
FormOffers(what) ==
    /\ Routed("sign-in")
    /\ what = "submit" => auth = Idle
    /\ what = "toggle" => ~form.verifying

\* The account screen: one picture at a time, and signing out at any time.
AccountOffers(what) == Routed("account") /\ (what = "picture" => picture = NoPicture)

-----------------------------------------------------------------------------
(* Signing in and up *)

\* The button of the sign-in screen, which only shows signed out.
SubmitAs(u) ==
    /\ FormOffers("submit") /\ Spend("auths")
    /\ auth' = [Idle EXCEPT !.kind = "in", !.who = u,
                !.at = IF form.verifying THEN "verify" ELSE IF form.creating THEN "signup" ELSE "post"]
    /\ UNCHANGED <<Server, store, account, loading, form, Tokens, Reads, picture, cut>>

ToggleCreating ==
    /\ FormOffers("toggle") /\ left.auths > 0
    /\ form' = [form EXCEPT !.creating = ~@]
    /\ UNCHANGED <<Server, store, account, loading, auth, Tokens, Reads, picture, left, cut>>

\* signUp: signed in straight away, or an emailed code comes first.
SignUp ==
    /\ auth.at = "signup"
    /\ IF accounts[auth.who] # "none"
       THEN auth' = Idle /\ UNCHANGED <<accounts, form>>
       ELSE \/ /\ accounts' = [accounts EXCEPT ![auth.who] = "ok"]
               /\ auth' = [auth EXCEPT !.at = "post"]
               /\ UNCHANGED form
            \/ /\ accounts' = [accounts EXCEPT ![auth.who] = "unverified"]
               /\ auth' = Idle
               /\ form' = [form EXCEPT !.verifying = TRUE]
    /\ UNCHANGED <<sessions, store, account, loading, Tokens, Reads, picture, left, cut>>

VerifyEmail ==
    /\ auth.at = "verify"
    /\ IF accounts[auth.who] = "unverified"
       THEN /\ accounts' = [accounts EXCEPT ![auth.who] = "ok"]
            /\ auth' = [auth EXCEPT !.at = "post"]
       ELSE auth' = Idle /\ UNCHANGED accounts
    /\ UNCHANGED <<sessions, store, account, loading, form, Tokens, Reads, picture, left, cut>>

SignInEmail ==
    /\ auth.at = "post"
    /\ CASE accounts[auth.who] = "ok" ->
                /\ sessions' = sessions \cup {auth.who}
                /\ auth' = [auth EXCEPT !.at = "save", !.todo = {"cookie", "user"}]
                /\ UNCHANGED form
         [] accounts[auth.who] = "unverified" ->
                /\ auth' = Idle /\ form' = [form EXCEPT !.verifying = TRUE]
                /\ UNCHANGED sessions
         [] OTHER -> auth' = Idle /\ UNCHANGED <<sessions, form>>
    /\ UNCHANGED <<accounts, store, account, loading, Tokens, Reads, picture, left, cut>>

\* saveSession: the slots are written side by side.
SaveSession(slot) ==
    /\ auth.at = "save" /\ slot \in auth.todo
    /\ store' = [store EXCEPT ![slot] = auth.who]
    /\ auth' = IF auth.todo = {slot} THEN [auth EXCEPT !.at = "token", !.todo = {}]
               ELSE [auth EXCEPT !.todo = @ \ {slot}]
    /\ UNCHANGED <<Server, account, loading, form, Tokens, Reads, picture, left, cut>>

\* Slip: a sign-in whose key does not open leaves its session behind.
UnlockOrLeave ==
    /\ auth.at = "keys"
    /\ auth' = IF auth.tok = auth.who THEN [auth EXCEPT !.at = "dek"] ELSE Idle
    /\ UNCHANGED <<Server, store, account, loading, form, Tokens, Reads, picture, left, cut>>

\* unlock: the row of the account the token is of, opened with this account's
\* password, or provisioned.
Unlock ==
    /\ auth.at = "keys"
    /\ auth' = IF auth.tok = auth.who THEN [auth EXCEPT !.at = "dek"]
               ELSE [auth EXCEPT !.at = "clear", !.todo = Slots]
    /\ cached' = IF auth.tok = auth.who THEN cached ELSE None
    /\ UNCHANGED <<Server, store, account, loading, form, minting, Reads, picture, left, cut>>

\* The key is stored, and the screens take the account up.
SignedIn ==
    /\ auth.at = "dek"
    /\ store' = [store EXCEPT !["dek"] = auth.who]
    /\ auth' = Idle /\ form' = Blank
    /\ SetAccount([user |-> auth.who, dek |-> auth.who])
    /\ UNCHANGED <<Server, loading, Tokens, picture, left, cut>>

-----------------------------------------------------------------------------
(* Signing out *)

SignOut ==
    /\ AccountOffers("sign-out") /\ auth = Idle
    /\ Spend("auths")
    /\ auth' = [Idle EXCEPT !.kind = "out", !.who = account.user, !.at = "token"]
    /\ UNCHANGED <<Server, store, account, loading, form, Tokens, Reads, picture, cut>>

\* removeDevice, with the token, best-effort.
RemoveDevice ==
    /\ auth.at = "undevice"
    /\ auth' = [auth EXCEPT !.at = "revoke"]
    /\ UNCHANGED <<Server, store, account, loading, form, Tokens, Reads, picture, left, cut>>

\* The session is revoked, or the request is lost: either way it goes on.
Revoke ==
    /\ auth.at = "revoke"
    /\ \/ sessions' = sessions \ {store["cookie"]} /\ UNCHANGED left
       \/ Spend("fails") /\ UNCHANGED sessions
    /\ auth' = [auth EXCEPT !.at = "clear", !.todo = Slots]
    /\ cached' = None
    /\ UNCHANGED <<accounts, store, account, loading, form, minting, Reads, picture, cut>>

\* clear: the slots are deleted side by side; a sign-out then drops the account.
Clear(slot) ==
    /\ auth.at = "clear" /\ slot \in auth.todo
    /\ store' = [store EXCEPT ![slot] = None]
    /\ IF auth.todo # {slot}
       THEN auth' = [auth EXCEPT !.todo = @ \ {slot}] /\ UNCHANGED <<account, Reads>>
       ELSE /\ auth' = Idle
            /\ IF auth.kind = "out" THEN SetAccount(None) ELSE UNCHANGED <<account, Reads>>
    /\ UNCHANGED <<Server, loading, form, Tokens, picture, left, cut>>

-----------------------------------------------------------------------------
(* dataToken: one mint at a time, shared by all who ask meanwhile *)

\* What asking comes to: [at, tok], or at = "refused" when nobody is signed in.
Asked ==
    LET cookie == store["cookie"] IN
    CASE cookie = None -> [at |-> "refused", tok |-> None]
      [] cookie # None /\ cached = cookie -> [at |-> "given", tok |-> cookie]
      [] OTHER -> [at |-> "mint", tok |-> None]

Minting == IF Asked.at = "mint" /\ minting = None THEN store["cookie"] ELSE minting

\* A sign-out that gets no token goes on without; a sign-in that gets none ends.
Refused(a) ==
    IF a.kind = "out" THEN [a EXCEPT !.at = "revoke"] ELSE [a EXCEPT !.at = "clear", !.todo = Slots]

Given(a, tok) == [a EXCEPT !.at = IF a.kind = "out" THEN "undevice" ELSE "keys", !.tok = tok]

AuthAsks ==
    /\ auth.at = "token"
    /\ auth' = CASE Asked.at = "refused" -> Refused(auth)
                 [] Asked.at = "given" -> Given(auth, Asked.tok)
                 [] OTHER -> [auth EXCEPT !.at = "mint"]
    /\ minting' = Minting
    /\ UNCHANGED <<Server, store, account, loading, form, cached, Reads, picture, left, cut>>

ReloadAsks(u) ==
    /\ reload[u].at = "token"
    /\ reload' = [reload EXCEPT ![u] = CASE Asked.at = "refused" -> Quiet
                                        [] Asked.at = "given" -> [at |-> "list", tok |-> Asked.tok]
                                        [] OTHER -> [at |-> "mint", tok |-> None]]
    /\ minting' = Minting
    /\ UNCHANGED <<Server, store, account, loading, form, auth, cached, picture, entries, left, cut>>

\* The mint answers all who wait for it: with a token if the session is honoured.
Mint ==
    /\ minting # None
    /\ \/ /\ minting \in sessions
          /\ cached' = minting
          /\ auth' = IF auth.at = "mint" THEN Given(auth, minting) ELSE auth
          /\ reload' = [u \in Users |-> IF reload[u].at = "mint" THEN [at |-> "list", tok |-> minting]
                                        ELSE reload[u]]
          /\ UNCHANGED left
       \/ /\ IF minting \in sessions THEN Spend("fails") ELSE UNCHANGED left
          /\ auth' = IF auth.at = "mint" THEN Refused(auth) ELSE auth
          /\ reload' = [u \in Users |-> IF reload[u].at = "mint" THEN Quiet ELSE reload[u]]
          /\ UNCHANGED cached
    /\ minting' = None
    /\ UNCHANGED <<Server, store, account, loading, form, picture, entries, cut>>

Expire ==
    /\ cached # None /\ Spend("expiries") /\ cached' = None
    /\ UNCHANGED <<Server, store, account, loading, form, auth, minting, Reads, picture, cut>>

-----------------------------------------------------------------------------
(* The history and the picture *)

\* Pulling down, or a command's own reload.
Reload ==
    /\ account # None /\ reload[account.user].at = "idle"
    /\ Spend("reloads")
    /\ reload' = [reload EXCEPT ![account.user].at = "token"]
    /\ UNCHANGED <<Server, store, account, loading, form, auth, Tokens, picture, entries, cut>>

\* The list is of the rows the token may read among this account's own.
ListEntries(u) ==
    /\ reload[u].at = "list"
    /\ reload' = [reload EXCEPT ![u] = Quiet]
    /\ \/ entries' = [of |-> u, whole |-> reload[u].tok = u] /\ UNCHANGED left
       \/ Spend("fails") /\ UNCHANGED entries
    /\ UNCHANGED <<Server, store, account, loading, form, auth, Tokens, picture, cut>>

SetPicture ==
    /\ AccountOffers("picture") /\ store["cookie"] # None
    /\ Spend("pictures")
    /\ picture' = [who |-> account.user, at |-> "upload"]
    /\ UNCHANGED <<Server, store, account, loading, form, auth, Tokens, Reads, cut>>

UploadPicture ==
    /\ picture.at = "upload"
    /\ picture' = IF picture.who \in sessions THEN [picture EXCEPT !.at = "store"] ELSE NoPicture
    /\ UNCHANGED <<Server, store, account, loading, form, auth, Tokens, Reads, left, cut>>

StorePicture ==
    /\ picture.at = "store"
    /\ store' = [store EXCEPT !["user"] = picture.who]
    /\ picture' = [picture EXCEPT !.at = "show"]
    /\ cut' = IF store["user"] # picture.who THEN cut \cup {"picture"} ELSE cut
    /\ UNCHANGED <<Server, account, loading, form, auth, Tokens, Reads, left>>

\* The account with its new picture is set, whatever is signed in by then.
ShowPicture ==
    /\ picture.at = "show"
    /\ SetAccount([user |-> picture.who, dek |-> picture.who])
    /\ cut' = IF account = None \/ account.user # picture.who THEN cut \cup {"picture"} ELSE cut
    /\ picture' = NoPicture
    /\ UNCHANGED <<Server, store, loading, form, auth, Tokens, left>>

-----------------------------------------------------------------------------
(* Failures *)

\* A request of the sign-in or of the sign-out's best-effort step fails.
Fail ==
    /\ Spend("fails")
    /\ CASE auth.at \in {"signup", "verify", "post"} -> auth' = Idle /\ UNCHANGED cached
         [] auth.at = "keys" -> auth' = [auth EXCEPT !.at = "clear", !.todo = Slots] /\ cached' = None
         [] auth.at = "undevice" -> auth' = [auth EXCEPT !.at = "revoke"] /\ UNCHANGED cached
         [] OTHER -> FALSE
    /\ UNCHANGED <<Server, store, account, loading, form, minting, Reads, picture, cut>>

Kill ==
    /\ Spend("kills")
    /\ cut' = CASE auth.at = "clear" -> cut \cup {"clear"}
              [] auth.kind = "in" /\ auth.at # "clear" -> cut \cup {"save"}
              [] OTHER -> cut
    /\ loading' = TRUE /\ account' = None /\ form' = Blank
    /\ auth' = Idle /\ cached' = None /\ minting' = None
    /\ reload' = [u \in Users |-> Quiet] /\ picture' = NoPicture /\ entries' = None
    /\ UNCHANGED <<Server, store>>

\* loadAccount: a user and a key are an account.
LoadAccount ==
    /\ loading /\ loading' = FALSE
    /\ SetAccount(IF None \in {store["user"], store["dek"]} THEN None
                  ELSE [user |-> store["user"], dek |-> store["dek"]])
    /\ UNCHANGED <<Server, store, form, auth, Tokens, picture, left, cut>>

-----------------------------------------------------------------------------

Next ==
    \/ \E u \in Users : SubmitAs(u) \/ ReloadAsks(u) \/ ListEntries(u)
    \/ \E slot \in Slots : SaveSession(slot) \/ Clear(slot)
    \/ ToggleCreating \/ SignUp \/ VerifyEmail \/ SignInEmail \/ Unlock \/ SignedIn
    \/ SignOut \/ RemoveDevice \/ Revoke
    \/ AuthAsks \/ Mint \/ Expire
    \/ Reload \/ SetPicture \/ UploadPicture \/ StorePicture \/ ShowPicture
    \/ Fail \/ Kill \/ LoadAccount

\* Every request of a sign-out is answered, one way or the other, and what it
\* waits for goes on.
Fairness ==
    /\ WF_vars(AuthAsks) /\ WF_vars(Mint) /\ WF_vars(RemoveDevice) /\ WF_vars(Revoke)
    /\ WF_vars(\E slot \in Slots : Clear(slot))

Spec == Init /\ [][Next]_vars
FairSpec == Spec /\ Fairness

-----------------------------------------------------------------------------
(* Properties *)

\* Signed out means forgotten: with nobody signed in and nothing under way the
\* store is empty, so that neither a failed sign-in nor a sign-out leaves a half
\* session a later launch would take up.
NothingKept ==
    cut = {} /\ account = None /\ ~loading /\ auth = Idle /\ picture = NoPicture => store = Empty

\* entries.tsx:41: a sign-out mustn't leave the last account's history behind.
HistoryForgotten == account = None => entries = None

\* account.ts:1: the token a sign-in works with is minted from its session.
TokenIsSessions == auth.kind = "in" /\ auth.at = "keys" => auth.tok = auth.who

\* Once signed out, only a sign-in brings an account back.
SignedOutStays ==
    [][account = None /\ account' # None => auth.at = "dek" \/ loading]_vars
=============================================================================
