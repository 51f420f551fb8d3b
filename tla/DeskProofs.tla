------------------------------ MODULE DeskProofs ------------------------------
(***************************************************************************)
(* What every behaviour of MCDesk keeps.  The account of the window: a     *)
(* cookie names one session, wherever it is kept, so a token that is       *)
(* looked up by its cookie is the token of the session asked for.  The     *)
(* window over its log: the entries of the undo journal lead, one by one,  *)
(* through a row of logs (a path) from the log it shows back to the log it *)
(* began with, which is carried over every command, and the recursion that *)
(* undoes them all follows that path.  Last, the types of the window, of   *)
(* its account and of the figures.                                         *)
(***************************************************************************)
EXTENDS MCDesk, FiniteSetTheorems, SequenceTheorems, WellFoundedInduction, TLAPS
-----------------------------------------------------------------------------
(* The account of the desktop window *)

Someone == User \cup {None}

BackTyped ==
    /\ session \in Account!Session \cup {None} /\ token \in Account!Session \cup {None}
    /\ cookies \in 1..2 /\ revoked \subseteq 1..2 /\ verified \subseteq User /\ key \in Someone

\* A call that signs in knows for whom; one that uses a session has one.
CallsTyped ==
    /\ calls \subseteq Account!Call
    /\ \A k \in calls : k.at \in {"code", "request"} => k.user \in User
    /\ \A k \in calls : k.at \in {"update", "save", "unlock"} => k.sess \in Account!Session

PageTyped ==
    /\ mount \in 0..1 /\ mounts \in 0..1
    /\ page \in [loading : BOOLEAN, status : Someone, pending : Someone,
                 submitting : BOOLEAN, saving : BOOLEAN]

PillTyped ==
    app \in Someone /\ invited \subseteq User /\ invites \subseteq User /\ visible \in BOOLEAN

\* A pull past its start has a session, and its answer is for that session's user.
PullsTyped ==
    /\ pulls \subseteq Account!Pull
    /\ \A q \in pulls : q.at \in {"token", "answer"} => q.sess \in Account!Session
    /\ \A q \in pulls : q.at = "answer" => q.of = q.sess.user

\* A walk is for somebody.
RowsTyped ==
    /\ cache \in User \cup {Cold} /\ shared \in Someone
    /\ walk \in Account!Walk /\ (walk.at = "walk" => walk.of \in User)
    /\ read \in Account!Walk /\ (read.at = "walk" => read.of \in User)

AccountTyped == BackTyped /\ CallsTyped /\ PageTyped /\ PillTyped /\ PullsTyped /\ RowsTyped

\* The sessions kept anywhere: in the keychain, in the token cache, in calls and pulls.
Sessions == {session, token} \cup {k.sess : k \in calls} \cup {q.sess : q \in pulls}

\* A cookie names one session, and none is beyond those given out.
CookiesName(all) ==
    /\ \A s \in all : s # None => s.cookie <= cookies
    /\ \A s, t \in all : s # None /\ t # None /\ s.cookie = t.cookie => s = t

AccountInv == AccountTyped /\ CookiesName(Sessions)

LEMMA AccountTypes == AccountTyped => Account!TypeOK
BY DEF AccountTyped, BackTyped, CallsTyped, PageTyped, PillTyped, PullsTyped, RowsTyped, Someone,
       Account!TypeOK

LEMMA NotUsers == None \notin User /\ None \notin Account!Session /\ Cold \notin User /\ Cold # None
BY DeskInBounds DEF Account!AccountNone


LEMMA FreshPageTyped ==
    Account!FreshPage \in [loading : BOOLEAN, status : Someone, pending : Someone,
                           submitting : BOOLEAN, saving : BOOLEAN]
BY DEF Account!FreshPage, Someone

LEMMA FreshPullTyped ==
    /\ Account!FreshPull \in Account!Pull /\ Account!FreshPull.at = "load"
    /\ Account!FreshPull.sess = None
BY DEF Account!FreshPull, Account!Pull

LEMMA IdleTyped == Account!Idle \in Account!Walk /\ Account!Idle.at = "none"
BY DEF Account!Idle, Account!Walk

LEMMA UserTyped == \A s \in Account!Session \cup {None} : Account!UserOf(s) \in Someone
BY DEF Account!UserOf, Account!Session, Someone

\* The first state of the account: signed out, or signed in by the first session.
LEMMA InitAccount == ASSUME Account!Init PROVE AccountInv
<1> DEFINE u == CHOOSE v \in User : TRUE
           status == [op |-> "status", user |-> None, mount |-> 0, at |-> "read", sess |-> None]
<1>1. u \in User
  BY DeskInBounds DEF Account!AccountBounds
<1> HIDE DEF u
<1>2. /\ \/ session = None /\ verified = User \ {u} /\ cache = Cold
         \/ session = [user |-> u, cookie |-> 1] /\ verified = User /\ cache \in {Cold, u}
      /\ invited = {u}
  BY DEF Account!Init, u
<1>3. /\ key = Account!UserOf(session) /\ cookies = 1 /\ revoked = {} /\ token = None
      /\ calls = {status} /\ mount = 0 /\ mounts = 0 /\ page = Account!FreshPage
      /\ app = None /\ invites = {} /\ pulls = {}
      /\ walk = Account!Idle /\ read = Account!Idle /\ shared = None /\ visible = TRUE
  BY DEF Account!Init
<1>4. session \in Account!Session \cup {None} /\ (session # None => session.cookie = 1)
  BY <1>1, <1>2 DEF Account!Session
<1>5. BackTyped
  BY <1>1, <1>2, <1>3, <1>4, UserTyped DEF BackTyped
<1>6. status \in Account!Call /\ status.at = "read" /\ status.sess = None
  BY DEF Account!Call, Account!Op, Account!At
<1> HIDE DEF status
<1>7. CallsTyped
  BY <1>3, <1>6 DEF CallsTyped
<1>8. PageTyped
  BY <1>3, FreshPageTyped DEF PageTyped
<1>9. PillTyped
  BY <1>1, <1>2, <1>3 DEF PillTyped, Someone
<1>10. PullsTyped
  BY <1>3 DEF PullsTyped
<1>11. RowsTyped
  BY <1>1, <1>2, <1>3, IdleTyped DEF RowsTyped, Someone
<1>12. Sessions \subseteq {session, None}
  BY <1>3, <1>6 DEF Sessions
<1>13. CookiesName(Sessions)
  BY <1>3, <1>4, <1>12 DEF CookiesName
<1> QED BY <1>5, <1>7, <1>8, <1>9, <1>10, <1>11, <1>13 DEF AccountInv, AccountTyped

-----------------------------------------------------------------------------
(* What steps leave of the account's state *)

LEMMA InSessions ==
    /\ session \in Sessions /\ token \in Sessions
    /\ \A k \in calls : k.sess \in Sessions
    /\ \A q \in pulls : q.sess \in Sessions
BY DEF Sessions

LEMMA SessionsTyped == AccountTyped => Sessions \subseteq Account!Session \cup {None}
<1> SUFFICES ASSUME AccountTyped PROVE Sessions \subseteq Account!Session \cup {None}
  OBVIOUS
<1>1. session \in Account!Session \cup {None} /\ token \in Account!Session \cup {None}
  BY DEF AccountTyped, BackTyped
<1>2. \A k \in calls : k.sess \in Account!Session \cup {None}
  BY DEF AccountTyped, CallsTyped, Account!Call
<1>3. \A q \in pulls : q.sess \in Account!Session \cup {None}
  BY DEF AccountTyped, PullsTyped, Account!Pull
<1> QED BY <1>1, <1>2, <1>3 DEF Sessions

\* The sessions of the next state are of this one.
LEMMA Held ==
    ASSUME CookiesName(Sessions), cookies' = cookies,
           session' \in Sessions \cup {None}, token' \in Sessions \cup {None},
           \A k \in calls' : k.sess \in Sessions \cup {None},
           \A q \in pulls' : q.sess \in Sessions \cup {None}
    PROVE  CookiesName(Sessions)'
<1>1. \A s \in Sessions' : s \in Sessions \cup {None}
  BY DEF Sessions
<1> HIDE DEF Sessions
<1> QED BY <1>1 DEF CookiesName

\* One call more, or one call instead of another.
LEMMA CallsGrow ==
    ASSUME CallsTyped, NEW n \in Account!Call, calls' \subseteq calls \cup {n},
           n.at \in {"code", "request"} => n.user \in User,
           n.at \in {"update", "save", "unlock"} => n.sess \in Account!Session
    PROVE  CallsTyped'
BY DEF CallsTyped

LEMMA CallTyped ==
    ASSUME CallsTyped, NEW k \in calls
    PROVE  k \in Account!Call /\ k.op \in Account!Op /\ k.user \in Someone /\ k.mount \in 0..1
           /\ k.sess \in Account!Session \cup {None} /\ k.at \in Account!At
<1>1. k \in Account!Call
  BY DEF CallsTyped
<1> QED BY <1>1 DEF Account!Call, Someone

\* A call goes on with the same user and, unless it says so, the same session.
LEMMA CallMoves ==
    ASSUME CallsTyped, NEW k \in calls, NEW to \in Account!At, NEW s \in Account!Session \cup {None},
           Account!StepWith(k, to, s) \/ (s = k.sess /\ Account!Step(k, to)),
           to \in {"code", "request"} => k.user \in User,
           to \in {"update", "save", "unlock"} => s \in Account!Session
    PROVE  CallsTyped' /\ \A j \in calls' : j \in calls \/ j.sess = s
<1> DEFINE n == [k EXCEPT !.at = to, !.sess = s]
<1>1. k \in Account!Call
  BY DEF CallsTyped
<1>2. n \in Account!Call /\ n.at = to /\ n.sess = s /\ n.user = k.user
  BY <1>1 DEF Account!Call
<1>3. s = k.sess => [k EXCEPT !.at = to] = n
  BY <1>1 DEF Account!Call
<1>4. calls' = (calls \ {k}) \cup {n}
  BY <1>3 DEF Account!Step, Account!StepWith
<1> HIDE DEF n
<1>5. CallsTyped'
  BY <1>2, <1>4, CallsGrow
<1> QED BY <1>2, <1>4, <1>5

LEMMA Frames ==
    /\ BackTyped /\ UNCHANGED Account!backend => BackTyped'
    /\ CallsTyped /\ UNCHANGED calls => CallsTyped'
    /\ PageTyped /\ UNCHANGED <<mount, mounts, page>> => PageTyped'
    /\ PillTyped /\ UNCHANGED <<app, invited, invites, visible>> => PillTyped'
    /\ PullsTyped /\ UNCHANGED pulls => PullsTyped'
    /\ RowsTyped /\ UNCHANGED Account!rows => RowsTyped'
BY DEF BackTyped, CallsTyped, PageTyped, PillTyped, PullsTyped, RowsTyped, Account!backend, Account!rows

\* A step of a call that touches no more than the backend.
LEMMA CallKeeps ==
    ASSUME AccountInv, Account!OnlyCalls, BackTyped', CallsTyped', cookies' = cookies,
           session' \in Sessions \cup {None}, token' \in Sessions \cup {None},
           \A j \in calls' : j.sess \in Sessions \cup {None}
    PROVE  AccountInv'
<1>1. AccountTyped /\ CookiesName(Sessions)
  BY DEF AccountInv
<1>2. UNCHANGED <<app, invites, pulls, mount, mounts, page, invited, visible>> /\ UNCHANGED Account!rows
  BY DEF Account!OnlyCalls, Account!pill
<1>3. PageTyped' /\ PillTyped' /\ PullsTyped' /\ RowsTyped'
  BY <1>1, <1>2, Frames DEF AccountTyped
<1>4. \A q \in pulls' : q.sess \in Sessions \cup {None}
  BY <1>2, InSessions
<1>5. CookiesName(Sessions)'
  BY <1>1, <1>4, Held
<1> QED BY <1>3, <1>5 DEF AccountInv, AccountTyped

LEMMA FailKeeps == ASSUME AccountInv, NEW k \in calls, Account!Fail(k) PROVE AccountInv'
<1>1. /\ Account!Step(k, "failed") /\ Account!OnlyCalls /\ UNCHANGED Account!backend
  BY DEF Account!Fail
<1>2. BackTyped /\ CallsTyped
  BY DEF AccountInv, AccountTyped
<1>3. "failed" \in Account!At /\ k.sess \in Account!Session \cup {None}
  BY <1>2, CallTyped DEF Account!At
<1>4. CallsTyped' /\ \A j \in calls' : j \in calls \/ j.sess = k.sess
  BY <1>1, <1>2, <1>3, CallMoves
<1>5. cookies' = cookies /\ session' = session /\ token' = token
  BY <1>1 DEF Account!backend
<1>6. BackTyped'
  BY <1>1, <1>2, Frames
<1>7. \A j \in calls' : j.sess \in Sessions
  BY <1>4, InSessions
<1> QED BY <1>1, <1>4, <1>5, <1>6, <1>7, InSessions, CallKeeps

LEMMA SignInKeeps ==
    ASSUME AccountInv, NEW k \in calls, Account!SignIn(k) PROVE AccountInv'
<1>1. /\ k.at = "request" /\ Account!OnlyCalls /\ UNCHANGED <<revoked, verified, token, key>>
      /\ \/ Account!Step(k, "pending") /\ UNCHANGED <<session, cookies>>
         \/ /\ cookies < 2 /\ cookies' = cookies + 1
            /\ session' = [user |-> k.user, cookie |-> cookies + 1]
            /\ Account!Step(k, "read")
  BY DEF Account!SignIn
<1>2. BackTyped /\ CallsTyped /\ CookiesName(Sessions)
  BY DEF AccountInv, AccountTyped
<1>3. /\ {"pending", "read"} \subseteq Account!At /\ k.sess \in Account!Session \cup {None}
      /\ k.user \in User
  BY <1>1, <1>2, CallTyped DEF Account!At, CallsTyped
<1>4. \E to \in {"pending", "read"} : Account!Step(k, to)
  BY <1>1
<1>5. CallsTyped' /\ \A j \in calls' : j \in calls \/ j.sess = k.sess
  BY <1>2, <1>3, <1>4, CallMoves
<1>6. \A j \in calls' : j.sess \in Sessions
  BY <1>5, InSessions
<1>7. CASE UNCHANGED <<session, cookies>>
  <2>1. UNCHANGED Account!backend
    BY <1>1, <1>7 DEF Account!backend
  <2>2. BackTyped'
    BY <1>2, <2>1, Frames
  <2> QED BY <1>1, <1>5, <1>6, <1>7, <2>2, InSessions, CallKeeps
<1>8. CASE /\ cookies < 2 /\ cookies' = cookies + 1
           /\ session' = [user |-> k.user, cookie |-> cookies + 1]
  <2>1. cookies \in 1..2 /\ cookies' \in 1..2
    BY <1>2, <1>8 DEF BackTyped
  <2>2. session' \in Account!Session /\ session'.cookie = cookies'
    BY <1>3, <1>8, <2>1 DEF Account!Session
  <2>3. BackTyped'
    BY <1>1, <1>2, <2>1, <2>2 DEF BackTyped
  <2>4. UNCHANGED <<app, invites, pulls, mount, mounts, page, invited, visible>> /\ UNCHANGED Account!rows
    BY <1>1 DEF Account!OnlyCalls, Account!pill
  <2>5. AccountTyped'
    <3>1. AccountTyped
      BY DEF AccountInv
    <3> QED BY <1>5, <2>3, <2>4, <3>1, Frames DEF AccountTyped
  <2>6. \A s \in Sessions' : s \in Sessions \cup {session'}
    <3>1. \A q \in pulls' : q.sess \in Sessions
      BY <2>4, InSessions
    <3>2. token' \in Sessions
      BY <1>1, InSessions
    <3> QED BY <1>6, <3>1, <3>2 DEF Sessions
  <2>7. \A s \in Sessions : s # None => s.cookie \in 1..2
    BY SessionsTyped DEF AccountInv, Account!Session
  <2>8. CookiesName(Sessions)'
    <3> HIDE DEF Sessions
    <3>1. \A s \in Sessions : s # None => s.cookie \in 1..2 /\ s.cookie <= cookies
      BY <1>2, <2>7 DEF CookiesName
    <3>2. \A s \in Sessions' : s # None => s.cookie <= cookies'
      BY <1>8, <2>1, <2>2, <2>6, <3>1
    <3>3. ASSUME NEW s \in Sessions', NEW t \in Sessions', s # None, t # None, s.cookie = t.cookie
          PROVE  s = t
      <4>1. CASE s = session' \/ t = session'
        BY <1>8, <2>1, <2>2, <2>6, <3>1, <3>3, <4>1
      <4>2. CASE s \in Sessions /\ t \in Sessions
        BY <1>2, <3>3, <4>2 DEF CookiesName
      <4> QED BY <2>6, <4>1, <4>2
    <3> QED BY <3>2, <3>3 DEF CookiesName
  <2> QED BY <2>5, <2>8 DEF AccountInv
<1> QED BY <1>1, <1>7, <1>8

\* The steps of a call that use the session it is for, or none.
LEMMA StepKeeps ==
    ASSUME AccountInv, NEW k \in calls,
           \/ Account!ConfirmCode(k) \/ Account!Revoke(k) \/ Account!ForgetToken(k)
           \/ Account!DeleteSession(k) \/ Account!UpdateImage(k) \/ Account!SaveSession(k)
    PROVE  AccountInv'
<1> DEFINE To == {"request", "forget", "delete", "read", "failed", "save"}
<1>1. BackTyped /\ CallsTyped
  BY DEF AccountInv, AccountTyped
<1>2. k.sess \in Account!Session \cup {None} /\ k.sess \in Sessions /\ k.user \in Someone
  BY <1>1, CallTyped, InSessions
<1>3. Account!OnlyCalls /\ cookies' = cookies /\ key' = key
  BY DEF Account!ConfirmCode, Account!Revoke, Account!ForgetToken, Account!DeleteSession,
         Account!UpdateImage, Account!SaveSession, Account!backend
<1>4. \E to \in To : /\ Account!Step(k, to)
                     /\ to = "request" => k.at = "code"
                     /\ to = "save" => k.at = "update"
  BY DEF Account!ConfirmCode, Account!Revoke, Account!ForgetToken, Account!DeleteSession,
         Account!UpdateImage, Account!SaveSession
<1>5. /\ session' \in {session, None} \/ (k.at = "save" /\ session' = k.sess)
      /\ token' \in {token, None}
      /\ revoked' = revoked \/ (session # None /\ revoked' = revoked \cup {session.cookie})
      /\ verified' = verified \/ (k.at = "code" /\ verified' = verified \cup {k.user})
  BY DEF Account!ConfirmCode, Account!Revoke, Account!ForgetToken, Account!DeleteSession,
         Account!UpdateImage, Account!SaveSession, Account!backend
<1>6. k.at = "code" => k.user \in User
  BY <1>1 DEF CallsTyped
<1>7. k.at \in {"update", "save"} => k.sess \in Account!Session
  BY <1>1 DEF CallsTyped
<1>8. CallsTyped' /\ \A j \in calls' : j.sess \in Sessions
  <2>1. PICK to \in To : /\ Account!Step(k, to)
                         /\ to = "request" => k.at = "code"
                         /\ to = "save" => k.at = "update"
    BY <1>4
  <2>2. to \in Account!At
    BY DEF Account!At
  <2>3. CallsTyped' /\ \A j \in calls' : j \in calls \/ j.sess = k.sess
    BY <1>1, <1>2, <1>6, <1>7, <2>1, <2>2, CallMoves
  <2> QED BY <1>2, <2>3, InSessions
<1>9. BackTyped'
  <2>1. session # None => session.cookie \in 1..2
    BY <1>1 DEF BackTyped, Account!Session
  <2> QED BY <1>1, <1>3, <1>5, <1>6, <1>7, <2>1 DEF BackTyped
<1>10. session' \in Sessions \cup {None} /\ token' \in Sessions \cup {None}
  BY <1>2, <1>5, InSessions
<1> QED BY <1>3, <1>8, <1>9, <1>10, CallKeeps

\* The session is read: the status is what it says, and a picture needs one.
LEMMA ReadingKeeps ==
    ASSUME AccountInv, NEW k \in calls, Account!ReadStatus(k) \/ Account!LoadForAvatar(k)
    PROVE  AccountInv'
<1> DEFINE To == {"unlock", "answer", "failed", "update"}
<1>1. BackTyped /\ CallsTyped
  BY DEF AccountInv, AccountTyped
<1>2. session \in Account!Session \cup {None} /\ session \in Sessions
  BY <1>1, InSessions DEF BackTyped
<1>3. Account!OnlyCalls /\ UNCHANGED Account!backend
  BY DEF Account!ReadStatus, Account!LoadForAvatar
<1>4. PICK to \in To : /\ Account!StepWith(k, to, session)
                       /\ to \in {"unlock", "update"} => session # None
  BY DEF Account!ReadStatus, Account!LoadForAvatar
<1>5. to \in Account!At /\ to \notin {"code", "request", "save"}
  BY DEF Account!At
<1>6. CallsTyped' /\ \A j \in calls' : j \in calls \/ j.sess = session
  BY <1>1, <1>2, <1>4, <1>5, CallMoves
<1>7. \A j \in calls' : j.sess \in Sessions
  BY <1>2, <1>6, InSessions
<1>8. BackTyped'
  BY <1>1, <1>3, Frames
<1>9. cookies' = cookies /\ session' = session /\ token' = token
  BY <1>3 DEF Account!backend
<1> QED BY <1>2, <1>3, <1>6, <1>7, <1>8, <1>9, InSessions, CallKeeps

\* A token is the session it is asked for, whatever is cached.
LEMMA TokenIsFor ==
    ASSUME AccountInv, NEW s \in Sessions, s # None
    PROVE  Account!TokenFor(s) \in {s, None}
<1>1. CookiesName(Sessions) /\ token \in Sessions
  BY InSessions DEF AccountInv
<1>2. token # None /\ token.cookie = s.cookie => token = s
  BY <1>1 DEF CookiesName
<1> QED BY <1>2 DEF Account!TokenFor

LEMMA UnlockKeeps ==
    ASSUME AccountInv, NEW k \in calls, Account!Unlock(k) PROVE AccountInv'
<1>1. BackTyped /\ CallsTyped
  BY DEF AccountInv, AccountTyped
<1>2. /\ k.at = "unlock" /\ Account!Step(k, "answer") /\ Account!OnlyCalls
      /\ UNCHANGED <<session, cookies, revoked, verified>>
      /\ \/ UNCHANGED <<token, key>>
         \/ /\ session # None /\ token' = Account!TokenFor(session) /\ token' # None
            /\ key' \in {k.sess.user, key}
  BY DEF Account!Unlock
<1>3. k.sess \in Account!Session /\ k.sess.user \in User
  BY <1>1, <1>2 DEF CallsTyped, Account!Session
<1>4. token' \in {token, session}
  BY <1>2, TokenIsFor, InSessions
<1>5. BackTyped'
  <2>1. key' \in Someone
    BY <1>1, <1>2, <1>3 DEF BackTyped, Someone
  <2>2. token' \in Account!Session \cup {None}
    BY <1>1, <1>4 DEF BackTyped
  <2> QED BY <1>1, <1>2, <2>1, <2>2 DEF BackTyped
<1>6. "answer" \in Account!At
  BY DEF Account!At
<1>7. CallsTyped' /\ \A j \in calls' : j \in calls \/ j.sess = k.sess
  BY <1>1, <1>2, <1>3, <1>6, CallMoves
<1>8. \A j \in calls' : j.sess \in Sessions
  BY <1>7, InSessions
<1> QED BY <1>2, <1>4, <1>5, <1>7, <1>8, InSessions, CallKeeps

LEMMA LockKeeps ==
    ASSUME AccountInv, NEW k \in calls, Account!Lock(k) PROVE AccountInv'
<1>1. BackTyped /\ CallsTyped /\ PageTyped /\ PillTyped /\ PullsTyped /\ RowsTyped /\ CookiesName(Sessions)
  BY DEF AccountInv, AccountTyped
<1>2. /\ k.at = "lock" /\ Account!Step(k, "revoke") /\ key' = None /\ cache' = Cold
      /\ UNCHANGED <<session, cookies, revoked, verified, token, walk, read, shared, mount,
                     mounts, page, invited, visible, app, invites, pulls>>
  BY DEF Account!Lock, Account!pill
<1>3. k.sess \in Account!Session \cup {None} /\ "revoke" \in Account!At
  BY <1>1, CallTyped DEF Account!At
<1>4. CallsTyped' /\ \A j \in calls' : j \in calls \/ j.sess = k.sess
  BY <1>1, <1>2, <1>3, CallMoves
<1>5. BackTyped'
  BY <1>1, <1>2 DEF BackTyped, Someone
<1>6. RowsTyped'
  BY <1>1, <1>2 DEF RowsTyped
<1>7. PageTyped' /\ PillTyped' /\ PullsTyped'
  BY <1>1, <1>2, Frames
<1>8. /\ \A j \in calls' : j.sess \in Sessions
      /\ \A q \in pulls' : q.sess \in Sessions
      /\ session' \in Sessions /\ token' \in Sessions
  BY <1>2, <1>4, InSessions
<1>9. CookiesName(Sessions)'
  BY <1>1, <1>2, <1>8, Held
<1> QED BY <1>4, <1>5, <1>6, <1>7, <1>9 DEF AccountInv, AccountTyped

LEMMA BackSame == UNCHANGED Account!backend => UNCHANGED <<session, cookies, token>>
BY DEF Account!backend

\* What the pulls may become: no longer listened to, or one asked again.
LEMMA PullsStay ==
    ASSUME AccountTyped, pulls' \subseteq pulls \cup {Account!FreshPull}
    PROVE  PullsTyped' /\ \A q \in pulls' : q.sess \in Sessions \cup {None}
<1>1. PullsTyped
  BY DEF AccountTyped
<1>2. PullsTyped'
  BY <1>1, FreshPullTyped DEF PullsTyped
<1> QED BY <1>2, FreshPullTyped, InSessions

LEMMA Unheard ==
    ASSUME AccountTyped, pulls' = {[q EXCEPT !.live = FALSE] : q \in pulls}
    PROVE  PullsTyped' /\ \A q \in pulls' : q.sess \in Sessions \cup {None}
<1>1. PullsTyped
  BY DEF AccountTyped
<1>2. ASSUME NEW q \in pulls
      PROVE  LET d == [q EXCEPT !.live = FALSE] IN
             /\ d \in Account!Pull /\ d.at = q.at /\ d.sess = q.sess /\ d.of = q.of
  <2>1. q \in Account!Pull
    BY <1>1 DEF PullsTyped
  <2> QED BY <2>1 DEF Account!Pull
<1>3. ASSUME NEW d \in pulls'
      PROVE  \E q \in pulls : /\ d \in Account!Pull /\ d.at = q.at /\ d.sess = q.sess /\ d.of = q.of
  BY <1>2
<1>4. PullsTyped'
  BY <1>1, <1>3 DEF PullsTyped
<1> QED BY <1>3, <1>4, InSessions

\* The window's account follows an answer, and with it the invitations asked for.
LEMMA FollowsAnswer ==
    ASSUME AccountInv, NEW s \in Account!Session \cup {None},
           \/ UNCHANGED <<app, invites, pulls>>
           \/ app' = Account!UserOf(s) /\ Account!SignedIn(app, Account!UserOf(s)),
           UNCHANGED <<invited, visible>>
    PROVE  /\ PillTyped' /\ PullsTyped'
           /\ \A q \in pulls' : q.sess \in Sessions \cup {None}
<1>1. AccountTyped /\ PillTyped
  BY DEF AccountInv, AccountTyped
<1>2. Account!UserOf(s) \in Someone
  BY UserTyped
<1>3. app' \in Someone /\ invites' \in {invites, {}}
  BY <1>1, <1>2 DEF PillTyped, Account!SignedIn
<1>4. PillTyped'
  BY <1>1, <1>3 DEF PillTyped
<1>5. \/ pulls' = {[q EXCEPT !.live = FALSE] : q \in pulls}
      \/ pulls' \subseteq pulls \cup {Account!FreshPull}
  BY DEF Account!SignedIn, Account!Asked
<1> QED BY <1>1, <1>4, <1>5, PullsStay, Unheard

LEMMA AnswerKeeps ==
    ASSUME AccountInv, NEW k \in calls, Account!Answer(k) PROVE AccountInv'
<1>1. /\ AccountTyped /\ BackTyped /\ CallsTyped /\ PageTyped /\ RowsTyped /\ CookiesName(Sessions)
  BY DEF AccountInv, AccountTyped
<1>2. k.sess \in Account!Session \cup {None}
  BY <1>1, CallTyped
<1>3. /\ calls' = calls \ {k}
      /\ \/ UNCHANGED <<app, invites, pulls>>
         \/ app' = Account!UserOf(k.sess) /\ Account!SignedIn(app, Account!UserOf(k.sess))
      /\ UNCHANGED <<mount, mounts, invited, visible>> /\ UNCHANGED Account!backend
      /\ UNCHANGED Account!rows
  BY DEF Account!Answer
<1>4. page' \in [loading : BOOLEAN, status : Someone, pending : Someone,
                 submitting : BOOLEAN, saving : BOOLEAN]
  <2>1. page \in [loading : BOOLEAN, status : Someone, pending : Someone,
                  submitting : BOOLEAN, saving : BOOLEAN]
    BY <1>1 DEF PageTyped
  <2>2. /\ page.loading \in BOOLEAN /\ page.pending \in Someone /\ page.submitting \in BOOLEAN
        /\ page.saving \in BOOLEAN /\ None \in Someone
    BY <2>1 DEF Someone
  <2>3. Account!UserOf(k.sess) \in Someone
    BY <1>2, UserTyped
  <2> DEFINE load == page.loading /\ k.op # "status"
             stat == Account!UserOf(k.sess)
             pend == IF k.op = "verify" THEN None ELSE page.pending
             subm == page.submitting /\ k.op \in {"status", "avatar"}
             sav == page.saving /\ k.op # "avatar"
  <2>4. load \in BOOLEAN /\ stat \in Someone /\ pend \in Someone /\ subm \in BOOLEAN /\ sav \in BOOLEAN
    BY <2>2, <2>3
  <2>5. \/ page' = page
        \/ page' = [loading |-> load, status |-> stat, pending |-> pend, submitting |-> subm,
                    saving |-> sav]
    BY DEF Account!Answer
  <2> HIDE DEF load, stat, pend, subm, sav
  <2> QED BY <2>1, <2>4, <2>5
<1>5. PageTyped'
  BY <1>1, <1>3, <1>4 DEF PageTyped
<1>6. CallsTyped'
  BY <1>1, <1>3 DEF CallsTyped
<1>7. BackTyped' /\ RowsTyped'
  BY <1>1, <1>3, Frames
<1>8. /\ PillTyped' /\ PullsTyped'
      /\ \A q \in pulls' : q.sess \in Sessions \cup {None}
  BY <1>2, <1>3, FollowsAnswer
<1>9. CookiesName(Sessions)'
  BY <1>1, <1>3, <1>8, BackSame, InSessions, Held
<1> QED BY <1>5, <1>6, <1>7, <1>8, <1>9 DEF AccountInv, AccountTyped

\* What leaves the backend, the pill and the rows alone, and asks for no session.
LEMMA PageKeeps ==
    ASSUME AccountInv, UNCHANGED Account!backend, UNCHANGED Account!pill, UNCHANGED Account!rows,
           UNCHANGED <<invited, visible>>, CallsTyped', PageTyped',
           \A j \in calls' : j \in calls \/ j.sess = None
    PROVE  AccountInv'
<1>1. /\ AccountTyped /\ BackTyped /\ PillTyped /\ PullsTyped /\ RowsTyped /\ CookiesName(Sessions)
  BY DEF AccountInv, AccountTyped
<1>2. UNCHANGED <<app, invites, pulls, session, cookies, token>>
  BY BackSame DEF Account!pill
<1>3. BackTyped' /\ PillTyped' /\ PullsTyped' /\ RowsTyped'
  BY <1>1, <1>2, Frames
<1>4. \A j \in calls' : j.sess \in Sessions \cup {None}
  BY InSessions
<1>5. \A q \in pulls' : q.sess \in Sessions
  BY <1>2, InSessions
<1>6. CookiesName(Sessions)'
  BY <1>1, <1>2, <1>4, <1>5, InSessions, Held
<1> QED BY <1>3, <1>6 DEF AccountInv, AccountTyped

LEMMA AnswerPageKeeps ==
    ASSUME AccountInv, NEW k \in calls, Account!AnswerPage(k) PROVE AccountInv'
<1>1. /\ AccountTyped /\ CallsTyped /\ PageTyped
  BY DEF AccountInv, AccountTyped
<1>2. k.user \in Someone
  BY <1>1, CallTyped
<1>3. /\ calls' = calls \ {k} /\ UNCHANGED <<mount, mounts, invited, visible>>
      /\ UNCHANGED Account!backend /\ UNCHANGED Account!rows /\ UNCHANGED Account!pill
  BY DEF Account!AnswerPage
<1>4. page' \in [loading : BOOLEAN, status : Someone, pending : Someone,
                 submitting : BOOLEAN, saving : BOOLEAN]
  <2>1. page \in [loading : BOOLEAN, status : Someone, pending : Someone,
                  submitting : BOOLEAN, saving : BOOLEAN]
    BY <1>1 DEF PageTyped
  <2> DEFINE pend == IF k.at = "pending" /\ k.op = "auth" THEN k.user ELSE page.pending
             subm == page.submitting /\ k.op = "avatar"
             sav == page.saving /\ k.op # "avatar"
  <2>2. pend \in Someone /\ subm \in BOOLEAN /\ sav \in BOOLEAN
    BY <1>2, <2>1
  <2>3. page' \in {page, [page EXCEPT !.pending = pend, !.submitting = subm, !.saving = sav]}
    BY DEF Account!AnswerPage
  <2> HIDE DEF pend, subm, sav
  <2> QED BY <2>1, <2>2, <2>3
<1>5. PageTyped'
  BY <1>1, <1>3, <1>4 DEF PageTyped
<1>6. CallsTyped'
  BY <1>1, <1>3 DEF CallsTyped
<1> QED BY <1>3, <1>5, <1>6, PageKeeps

\* A call of the page begins without a session; one that signs in is for a user.
LEMMA Begins ==
    ASSUME AccountTyped, NEW op \in Account!Op, NEW u \in Someone, NEW to \in Account!At,
           NEW m \in 0..1,
           calls' \subseteq calls \cup {[op |-> op, user |-> u, mount |-> m, at |-> to, sess |-> None]},
           to \in {"code", "request"} => u \in User, to \notin {"update", "save", "unlock"}
    PROVE  CallsTyped' /\ \A j \in calls' : j \in calls \/ j.sess = None
<1> DEFINE n == [op |-> op, user |-> u, mount |-> m, at |-> to, sess |-> None]
<1>1. n \in Account!Call /\ n.at = to /\ n.user = u /\ n.sess = None
  BY DEF Account!Call, Someone
<1>2. calls' \subseteq calls \cup {n}
  OBVIOUS
<1> HIDE DEF n
<1>3. CallsTyped
  BY DEF AccountTyped
<1>4. CallsTyped'
  BY <1>1, <1>2, <1>3, CallsGrow
<1> QED BY <1>1, <1>2, <1>4

LEMMA NewCallIs ==
    \A op, u, to : Account!NewCall(op, u, to)
                        = [op |-> op, user |-> u, mount |-> mount, at |-> to, sess |-> None]
BY DEF Account!NewCall

Pages == [loading : BOOLEAN, status : Someone, pending : Someone, submitting : BOOLEAN,
          saving : BOOLEAN]

LEMMA PageMoves ==
    ASSUME AccountTyped
    PROVE  /\ page \in Pages /\ Account!FreshPage \in Pages
           /\ [page EXCEPT !.submitting = TRUE] \in Pages
           /\ [page EXCEPT !.saving = TRUE] \in Pages
           /\ [page EXCEPT !.pending = None] \in Pages
           /\ page.pending \in Someone /\ mount \in 0..1
<1>1. page \in Pages /\ mount \in 0..1
  BY DEF AccountTyped, PageTyped, Pages
<1>2. None \in Someone
  BY DEF Someone
<1>3. Account!FreshPage \in Pages
  BY FreshPageTyped DEF Pages
<1> QED BY <1>1, <1>2, <1>3 DEF Pages

LEMMA CallBegins ==
    ASSUME AccountInv,
           NEW op \in Account!Op, NEW u \in Someone, NEW to \in Account!At,
           Account!Begin(Account!NewCall(op, u, to)),
           to \in {"code", "request"} => u \in User, to \notin {"update", "save", "unlock"},
           page' \in Pages, UNCHANGED <<Account!backend, Account!pill, Account!rows>>,
           UNCHANGED <<mount, mounts, invited, visible>>
    PROVE  AccountInv'
<1>1. AccountTyped /\ PageTyped /\ mount \in 0..1
  BY DEF AccountInv, AccountTyped, PageTyped
<1>2. calls' = calls \cup {[op |-> op, user |-> u, mount |-> mount, at |-> to, sess |-> None]}
  BY NewCallIs DEF Account!Begin
<1>3. CallsTyped' /\ \A j \in calls' : j \in calls \/ j.sess = None
  BY <1>1, <1>2, Begins
<1>4. PageTyped'
  BY <1>1 DEF PageTyped, Pages
<1> QED BY <1>3, <1>4, PageKeeps

LEMMA TapKeeps ==
    ASSUME AccountInv,
           \/ \E u \in User : Account!SubmitAuth(u)
           \/ Account!VerifyEmail \/ Account!ResendCode \/ Account!SignOutTap \/ Account!PickAvatar
    PROVE  AccountInv'
<1>1. AccountTyped
  BY DEF AccountInv
<1>2. page' \in Pages
  BY <1>1, PageMoves
     DEF Account!SubmitAuth, Account!VerifyEmail, Account!ResendCode, Account!SignOutTap, Account!PickAvatar
<1>3. UNCHANGED <<Account!backend, Account!pill, Account!rows, mount, mounts, invited, visible>>
  BY DEF Account!SubmitAuth, Account!VerifyEmail, Account!ResendCode, Account!SignOutTap, Account!PickAvatar
<1>4. None \in Someone /\ User \subseteq Someone
  BY DEF Someone
<1>5. CASE \E u \in User : Account!SubmitAuth(u)
  <2>1. PICK u \in User : Account!Begin(Account!NewCall("auth", u, "request"))
    BY <1>5 DEF Account!SubmitAuth
  <2>2. "auth" \in Account!Op /\ "request" \in Account!At
    BY DEF Account!Op, Account!At
  <2> QED BY <1>2, <1>3, <1>4, <2>1, <2>2, CallBegins
<1>6. CASE Account!VerifyEmail
  <2>1. Account!Begin(Account!NewCall("verify", page.pending, "code")) /\ page.pending # None
    BY <1>6 DEF Account!VerifyEmail, Account!CodeForm
  <2>2. "verify" \in Account!Op /\ "code" \in Account!At
    BY DEF Account!Op, Account!At
  <2>3. page.pending \in User /\ page.pending \in Someone
    BY <1>1, <2>1, PageMoves DEF Someone
  <2> QED BY <1>2, <1>3, <2>1, <2>2, <2>3, CallBegins
<1>7. CASE Account!ResendCode
  <2>1. Account!Begin(Account!NewCall("resend", page.pending, "failed"))
    BY <1>7 DEF Account!ResendCode
  <2>2. "resend" \in Account!Op /\ "failed" \in Account!At /\ page.pending \in Someone
    BY <1>1, PageMoves DEF Account!Op, Account!At
  <2> QED BY <1>2, <1>3, <2>1, <2>2, CallBegins
<1>8. CASE Account!SignOutTap
  <2>1. Account!Begin(Account!NewCall("signout", None, "lock"))
    BY <1>8 DEF Account!SignOutTap
  <2>2. "signout" \in Account!Op /\ "lock" \in Account!At
    BY DEF Account!Op, Account!At
  <2> QED BY <1>2, <1>3, <1>4, <2>1, <2>2, CallBegins
<1>9. CASE Account!PickAvatar
  <2>1. Account!Begin(Account!NewCall("avatar", None, "load"))
    BY <1>9 DEF Account!PickAvatar
  <2>2. "avatar" \in Account!Op /\ "load" \in Account!At
    BY DEF Account!Op, Account!At
  <2> QED BY <1>2, <1>3, <1>4, <2>1, <2>2, CallBegins
<1> QED BY <1>5, <1>6, <1>7, <1>8, <1>9

LEMMA OpenKeeps ==
    ASSUME AccountInv, Account!OpenPage \/ Account!LeavePage \/ Account!CancelPending
    PROVE  AccountInv'
<1>1. AccountTyped /\ PageTyped /\ CallsTyped /\ None \in Someone
  BY DEF AccountInv, AccountTyped, Someone
<1>2. UNCHANGED <<Account!backend, Account!pill, Account!rows>> /\ UNCHANGED <<invited, visible>>
  BY DEF Account!OpenPage, Account!LeavePage, Account!CancelPending
<1>3. page' \in Pages
  BY <1>1, PageMoves DEF Account!OpenPage, Account!LeavePage, Account!CancelPending
<1>4. CASE Account!OpenPage
  <2>1. mounts < 1 /\ mounts' = mounts + 1 /\ mount' = mounts + 1
    BY <1>4 DEF Account!OpenPage
  <2>2. mount' \in 0..1 /\ mounts' \in 0..1 /\ mounts + 1 \in 0..1
    BY <1>1, <2>1 DEF PageTyped
  <2>3. calls' = calls \cup {[Account!NewCall("status", None, "read") EXCEPT !.mount = mounts + 1]}
    BY <1>4 DEF Account!OpenPage
  <2>4. calls' = calls \cup {[op |-> "status", user |-> None, mount |-> mounts + 1, at |-> "read",
                              sess |-> None]}
    BY <2>3, NewCallIs
  <2>5. "status" \in Account!Op /\ "read" \in Account!At
    BY DEF Account!Op, Account!At
  <2>6. CallsTyped' /\ \A j \in calls' : j \in calls \/ j.sess = None
    BY <1>1, <2>2, <2>4, <2>5, Begins
  <2>7. PageTyped'
    BY <1>3, <2>2 DEF PageTyped, Pages
  <2> QED BY <1>2, <2>6, <2>7, PageKeeps
<1>5. CASE Account!LeavePage \/ Account!CancelPending
  <2>1. /\ mount' \in {0, mount} /\ UNCHANGED <<calls, mounts>>
    BY <1>5 DEF Account!LeavePage, Account!CancelPending
  <2>2. PageTyped'
    BY <1>1, <1>3, <2>1 DEF PageTyped, Pages
  <2>3. CallsTyped'
    BY <1>1, <2>1, Frames
  <2> QED BY <1>2, <2>1, <2>2, <2>3, PageKeeps
<1> QED BY <1>4, <1>5

\* A step of the invitations' pulls: what they hold is of this state's sessions.
LEMMA PullKeeps ==
    ASSUME AccountInv, Account!OnlyPulls, BackTyped', PullsTyped', invites' \subseteq User,
           cookies' = cookies, session' = session, token' \in Sessions \cup {None},
           \A q \in pulls' : q.sess \in Sessions \cup {None}
    PROVE  AccountInv'
<1>1. /\ AccountTyped /\ CallsTyped /\ PageTyped /\ PillTyped /\ RowsTyped /\ CookiesName(Sessions)
  BY DEF AccountInv, AccountTyped
<1>2. UNCHANGED <<calls, mount, mounts, page, app, invited, visible>> /\ UNCHANGED Account!rows
  BY DEF Account!OnlyPulls
<1>3. CallsTyped' /\ PageTyped' /\ RowsTyped'
  BY <1>1, <1>2, Frames
<1>4. PillTyped'
  BY <1>1, <1>2 DEF PillTyped
<1>5. \A j \in calls' : j.sess \in Sessions
  BY <1>2, InSessions
<1>6. CookiesName(Sessions)'
  BY <1>1, <1>5, InSessions, Held
<1> QED BY <1>3, <1>4, <1>6 DEF AccountInv, AccountTyped

LEMMA PullTyped ==
    ASSUME AccountTyped, NEW q \in pulls
    PROVE  /\ q \in Account!Pull /\ q.sess \in Account!Session \cup {None}
           /\ q.at \in {"token", "answer"} => q.sess \in Account!Session
<1>1. PullsTyped
  BY DEF AccountTyped
<1> QED BY <1>1 DEF PullsTyped, Account!Pull

\* One pull in the place of another.
LEMMA PullMoves ==
    ASSUME AccountTyped, NEW n \in Account!Pull, pulls' \subseteq pulls \cup {n},
           n.at \in {"token", "answer"} => n.sess \in Account!Session,
           n.at = "answer" => n.of = n.sess.user
    PROVE  PullsTyped' /\ \A q \in pulls' : q \in pulls \/ q.sess = n.sess
<1>1. PullsTyped
  BY DEF AccountTyped
<1> QED BY <1>1 DEF PullsTyped

LEMMA PullLoadKeeps ==
    ASSUME AccountInv, NEW q \in pulls, Account!PullLoad(q) PROVE AccountInv'
<1>1. AccountTyped /\ BackTyped /\ PillTyped /\ PullsTyped
  BY DEF AccountInv, AccountTyped
<1>2. /\ Account!OnlyPulls /\ UNCHANGED Account!backend /\ UNCHANGED invites
      /\ \/ session = None /\ pulls' \subseteq pulls
         \/ session # None /\ pulls' \subseteq pulls \cup {[q EXCEPT !.at = "token", !.sess = session]}
  BY DEF Account!PullLoad
<1>3. BackTyped' /\ invites' \subseteq User
  BY <1>1, <1>2, Frames DEF PillTyped
<1>4. UNCHANGED <<session, cookies, token>>
  BY <1>2, BackSame
<1>5. PullsTyped' /\ \A p \in pulls' : p.sess \in Sessions
  <2>1. CASE pulls' \subseteq pulls
    <3>1. PullsTyped'
      BY <1>1, <2>1 DEF PullsTyped
    <3> QED BY <2>1, <3>1, InSessions
  <2>2. CASE /\ session # None
             /\ pulls' \subseteq pulls \cup {[q EXCEPT !.at = "token", !.sess = session]}
    <3> DEFINE n == [q EXCEPT !.at = "token", !.sess = session]
    <3>1. session \in Account!Session
      BY <1>1, <2>2 DEF BackTyped
    <3>2. q \in Account!Pull
      BY <1>1, PullTyped
    <3>3. n \in Account!Pull /\ n.at = "token" /\ n.sess = session
      BY <3>1, <3>2 DEF Account!Pull
    <3>4. pulls' \subseteq pulls \cup {n}
      BY <2>2
    <3> HIDE DEF n
    <3>5. PullsTyped' /\ \A p \in pulls' : p \in pulls \/ p.sess = n.sess
      BY <1>1, <3>1, <3>3, <3>4, PullMoves
    <3> QED BY <3>3, <3>5, InSessions
  <2> QED BY <1>2, <2>1, <2>2
<1> QED BY <1>2, <1>3, <1>4, <1>5, InSessions, PullKeeps

\* The token that comes is the pull's own session, and the answer is for its user.
LEMMA PullTokenKeeps ==
    ASSUME AccountInv, NEW q \in pulls, Account!PullToken(q) PROVE AccountInv'
<1>1. AccountTyped /\ BackTyped /\ PillTyped /\ PullsTyped
  BY DEF AccountInv, AccountTyped
<1> DEFINE t == Account!TokenFor(q.sess)
<1>2. /\ q.at = "token" /\ Account!OnlyPulls
      /\ UNCHANGED <<session, cookies, revoked, verified, key, invites>>
      /\ \/ pulls' \subseteq pulls /\ token' = token
         \/ /\ t # None /\ token' = t
            /\ pulls' \subseteq pulls \cup
                    {[q EXCEPT !.at = "answer", !.of = t.user, !.got = t.user \in invited]}
  BY DEF Account!PullToken
<1>3. q.sess \in Account!Session /\ q.sess # None /\ q.sess \in Sessions
  BY <1>1, <1>2, PullTyped, NotUsers, InSessions
<1>4. t \in {q.sess, None}
  BY <1>3, TokenIsFor
<1>5. BackTyped' /\ token' \in Sessions
  <2>1. token' \in {token, q.sess}
    BY <1>2, <1>4
  <2> HIDE DEF t
  <2> QED BY <1>1, <1>2, <1>3, <2>1, InSessions DEF BackTyped
<1>6. PullsTyped' /\ \A p \in pulls' : p.sess \in Sessions
  <2>1. CASE pulls' \subseteq pulls
    <3>1. PullsTyped'
      BY <1>1, <2>1 DEF PullsTyped
    <3> QED BY <2>1, <3>1, InSessions
  <2>2. CASE /\ t # None
             /\ pulls' \subseteq pulls \cup
                    {[q EXCEPT !.at = "answer", !.of = t.user, !.got = t.user \in invited]}
    <3>1. t = q.sess
      BY <1>4, <2>2
    <3> HIDE DEF t
    <3> DEFINE got == t.user \in invited
               n == [q EXCEPT !.at = "answer", !.of = t.user, !.got = got]
    <3>2. t.user \in User /\ got \in BOOLEAN
      BY <1>3, <3>1 DEF Account!Session
    <3>3. q \in Account!Pull
      BY <1>1, PullTyped
    <3>4. pulls' \subseteq pulls \cup {n}
      BY <2>2
    <3> HIDE DEF got
    <3>5. n \in Account!Pull /\ n.at = "answer" /\ n.of = t.user /\ n.sess = q.sess
      BY <3>2, <3>3 DEF Account!Pull
    <3> HIDE DEF n
    <3>6. PullsTyped' /\ \A p \in pulls' : p \in pulls \/ p.sess = n.sess
      BY <1>1, <1>3, <3>1, <3>4, <3>5, PullMoves
    <3> QED BY <1>3, <3>5, <3>6, InSessions
  <2> HIDE DEF t
  <2> QED BY <1>2, <2>1, <2>2
<1> HIDE DEF t
<1>7. invites' \subseteq User
  BY <1>1, <1>2 DEF PillTyped
<1> QED BY <1>2, <1>5, <1>6, <1>7, InSessions, PullKeeps

LEMMA PullAnswerKeeps ==
    ASSUME AccountInv, NEW q \in pulls, Account!PullAnswer(q) PROVE AccountInv'
<1>1. AccountTyped /\ BackTyped /\ PillTyped /\ PullsTyped
  BY DEF AccountInv, AccountTyped
<1>2. /\ q.at = "answer" /\ Account!OnlyPulls /\ UNCHANGED Account!backend
      /\ pulls' \subseteq pulls /\ invites' \in {{q.of}, {}, invites}
  BY DEF Account!PullAnswer
<1>3. q.of \in User
  <2>1. q.sess \in Account!Session /\ q.of = q.sess.user
    BY <1>1, <1>2, PullTyped DEF PullsTyped
  <2> QED BY <2>1 DEF Account!Session
<1>4. invites' \subseteq User /\ BackTyped'
  BY <1>1, <1>2, <1>3, Frames DEF PillTyped
<1>5. PullsTyped'
  BY <1>1, <1>2 DEF PullsTyped
<1>6. \A p \in pulls' : p.sess \in Sessions
  BY <1>2, InSessions
<1> QED BY <1>2, <1>4, <1>5, <1>6, InSessions, BackSame, PullKeeps

LEMMA PullTickKeeps == ASSUME AccountInv, Account!PullTick PROVE AccountInv'
<1>1. AccountTyped /\ BackTyped /\ PillTyped
  BY DEF AccountInv, AccountTyped
<1>2. /\ Account!OnlyPulls /\ UNCHANGED Account!backend /\ UNCHANGED invites
      /\ pulls' = {Account!FreshPull}
  BY DEF Account!PullTick
<1>3. invites' \subseteq User /\ BackTyped'
  BY <1>1, <1>2, Frames DEF PillTyped
<1>4. PullsTyped' /\ \A p \in pulls' : p.sess \in Sessions \cup {None}
  BY <1>1, <1>2, PullsStay
<1> QED BY <1>2, <1>3, <1>4, InSessions, BackSame, PullKeeps

\* Invitations come and go, on the server and in the badge; the window is hidden and shown.
LEMMA PillKeeps ==
    ASSUME AccountInv,
           \/ \E u \in User : Account!DismissInvite(u) \/ Account!Invite(u)
           \/ Account!Toggle
    PROVE  AccountInv'
<1>1. /\ AccountTyped /\ BackTyped /\ CallsTyped /\ PageTyped /\ PillTyped /\ PullsTyped /\ RowsTyped
      /\ CookiesName(Sessions)
  BY DEF AccountInv, AccountTyped
<1>2. /\ UNCHANGED Account!backend /\ UNCHANGED Account!rows
      /\ UNCHANGED <<calls, mount, mounts, page, app>>
      /\ pulls' \subseteq pulls \cup {Account!FreshPull}
  BY DEF Account!DismissInvite, Account!Invite, Account!Toggle, Account!pill, Account!Asked
<1>3. /\ \E u \in User : invited' \in {invited, invited \ {u}, invited \cup {u}}
      /\ invites' \subseteq invites
      /\ visible' = visible \/ visible' = ~visible
  <2>1. CASE \E u \in User : Account!DismissInvite(u) \/ Account!Invite(u)
    BY <2>1 DEF Account!DismissInvite, Account!Invite, Account!pill
  <2>2. CASE Account!Toggle
    <3>1. User # {}
      BY DeskInBounds DEF Account!AccountBounds
    <3> QED BY <2>2, <3>1 DEF Account!Toggle
  <2> QED BY <2>1, <2>2
<1>4. PillTyped'
  BY <1>1, <1>2, <1>3 DEF PillTyped
<1>5. PullsTyped' /\ \A q \in pulls' : q.sess \in Sessions \cup {None}
  BY <1>1, <1>2, PullsStay
<1>6. BackTyped' /\ CallsTyped' /\ PageTyped' /\ RowsTyped'
  BY <1>1, <1>2, Frames
<1>7. \A j \in calls' : j.sess \in Sessions
  BY <1>2, InSessions
<1>8. CookiesName(Sessions)'
  BY <1>1, <1>2, <1>5, <1>7, InSessions, BackSame, Held
<1> QED BY <1>4, <1>5, <1>6, <1>8 DEF AccountInv, AccountTyped

\* A step of the shared rows, or none.
LEMMA RowsMove ==
    ASSUME AccountInv, RowsTyped', UNCHANGED Account!backend,
           UNCHANGED <<calls, mount, mounts, page, app, invites, pulls, invited, visible>>
    PROVE  AccountInv'
<1>1. /\ AccountTyped /\ BackTyped /\ CallsTyped /\ PageTyped /\ PillTyped /\ PullsTyped
      /\ CookiesName(Sessions)
  BY DEF AccountInv, AccountTyped
<1>2. BackTyped' /\ CallsTyped' /\ PageTyped' /\ PillTyped' /\ PullsTyped'
  BY <1>1, Frames
<1>3. /\ \A j \in calls' : j.sess \in Sessions
      /\ \A q \in pulls' : q.sess \in Sessions
  BY InSessions
<1>4. CookiesName(Sessions)'
  BY <1>1, <1>3, InSessions, BackSame, Held
<1> QED BY <1>2, <1>4 DEF AccountInv, AccountTyped

\* The shared rows: a walk is for the user of the session.
LEMMA RowsKeep ==
    ASSUME AccountInv,
           \/ Account!ReadShared \/ Account!ReadWalked \/ Account!ReadAnswered \/ Account!WalkEnds
    PROVE  AccountInv'
<1>1. /\ AccountTyped /\ BackTyped /\ CallsTyped /\ PageTyped /\ PillTyped /\ PullsTyped /\ RowsTyped
      /\ CookiesName(Sessions)
  BY DEF AccountInv, AccountTyped
<1>2. /\ UNCHANGED Account!backend
      /\ UNCHANGED <<calls, mount, mounts, page, app, invites, pulls, invited, visible>>
  BY DEF Account!ReadShared, Account!ReadWalked, Account!ReadAnswered, Account!WalkEnds,
         Account!OnlyRows, Account!pill
<1>3. /\ read \in Account!Walk /\ walk \in Account!Walk
      /\ cache \in User \cup {Cold} /\ shared \in Someone
  BY <1>1 DEF RowsTyped
<1>4. /\ read.of \in Someone /\ walk.of \in Someone
      /\ read.at = "walk" => read.of \in User
      /\ walk.at = "walk" => walk.of \in User
  BY <1>1, <1>3 DEF RowsTyped, Account!Walk, Someone
<1>5. /\ \A w \in Someone : LET d == [of |-> w, at |-> "answer"] IN d \in Account!Walk /\ d.at # "walk"
      /\ \A w \in User : LET d == [of |-> w, at |-> "walk"] IN d \in Account!Walk /\ d.of \in User
  BY DEF Account!Walk, Someone
<1>6. CASE Account!ReadShared
  <2>1. session # None => session.user \in User
    BY <1>1 DEF BackTyped, Account!Session
  <2>2. None \in Someone /\ (cache # Cold => cache \in User /\ cache \in Someone)
    BY <1>3 DEF Someone
  <2>3. /\ \/ read' = Account!Idle
           \/ \E w \in Someone : read' = [of |-> w, at |-> "answer"]
           \/ \E w \in User : read' = [of |-> w, at |-> "walk"]
        /\ walk' = walk \/ (\E w \in User : walk' = [of |-> w, at |-> "walk"])
        /\ UNCHANGED <<cache, shared>>
    <3>1. CASE session = None
      BY <1>6, <2>2, <3>1 DEF Account!ReadShared
    <3>2. CASE session # None /\ cache # Cold
      <4>1. /\ read' = [of |-> cache, at |-> "answer"] /\ UNCHANGED <<cache, shared>>
            /\ walk' \in {walk, [of |-> session.user, at |-> "walk"]}
        BY <1>6, <3>2 DEF Account!ReadShared
      <4>2. walk' = walk \/ (\E w \in User : walk' = [of |-> w, at |-> "walk"])
        BY <2>1, <3>2, <4>1
      <4>3. \E w \in Someone : read' = [of |-> w, at |-> "answer"]
        BY <2>2, <3>2, <4>1
      <4> QED BY <4>1, <4>2, <4>3
    <3>3. CASE session # None /\ cache = Cold
      <4>1. /\ read' \in {Account!Idle, [of |-> session.user, at |-> "walk"]}
            /\ UNCHANGED <<walk, cache, shared>>
        BY <1>6, <3>3 DEF Account!ReadShared
      <4>2. read' = Account!Idle \/ \E w \in User : read' = [of |-> w, at |-> "walk"]
        BY <2>1, <3>3, <4>1
      <4> QED BY <4>1, <4>2
    <3> QED BY <3>1, <3>2, <3>3
  <2>4. read' \in Account!Walk /\ (read'.at = "walk" => read'.of \in User)
    <3>1. CASE read' = Account!Idle
      BY <3>1, IdleTyped
    <3>2. CASE \E w \in Someone : read' = [of |-> w, at |-> "answer"]
      <4>1. PICK w \in Someone : read' = [of |-> w, at |-> "answer"]
        BY <3>2
      <4> QED BY <1>5, <4>1
    <3>3. CASE \E w \in User : read' = [of |-> w, at |-> "walk"]
      <4>1. PICK w \in User : read' = [of |-> w, at |-> "walk"]
        BY <3>3
      <4> QED BY <1>5, <4>1
    <3> QED BY <2>3, <3>1, <3>2, <3>3
  <2>5. walk' \in Account!Walk /\ (walk'.at = "walk" => walk'.of \in User)
    <3>1. CASE walk' = walk
      BY <1>3, <1>4, <3>1
    <3>2. CASE \E w \in User : walk' = [of |-> w, at |-> "walk"]
      <4>1. PICK w \in User : walk' = [of |-> w, at |-> "walk"]
        BY <3>2
      <4> QED BY <1>5, <4>1
    <3> QED BY <2>3, <3>1, <3>2
  <2>6. RowsTyped'
    BY <1>3, <2>3, <2>4, <2>5 DEF RowsTyped
  <2> QED BY <1>2, <2>6, RowsMove
<1>7. CASE Account!ReadWalked
  <2>1. /\ read.at = "walk" /\ read' = [read EXCEPT !.at = "answer"] /\ cache' = read.of
        /\ UNCHANGED <<walk, shared>>
    BY <1>7 DEF Account!ReadWalked
  <2>2. read' \in Account!Walk /\ read'.at = "answer"
    BY <1>3, <2>1 DEF Account!Walk
  <2>3. RowsTyped'
    BY <1>3, <1>4, <2>1, <2>2 DEF RowsTyped
  <2> QED BY <1>2, <2>3, RowsMove
<1>8. CASE Account!ReadAnswered
  <2>1. shared' = read.of /\ read' = Account!Idle /\ UNCHANGED <<cache, walk>>
    BY <1>8 DEF Account!ReadAnswered
  <2>2. RowsTyped'
    BY <1>3, <1>4, <2>1, IdleTyped DEF RowsTyped
  <2> QED BY <1>2, <2>2, RowsMove
<1>9. CASE Account!WalkEnds
  <2>1. /\ walk.at = "walk" /\ cache' = walk.of /\ walk' = Account!Idle
        /\ shared' \in {walk.of, shared} /\ UNCHANGED read
    BY <1>9 DEF Account!WalkEnds
  <2>2. RowsTyped'
    BY <1>3, <1>4, <2>1, IdleTyped DEF RowsTyped
  <2> QED BY <1>2, <2>2, RowsMove
<1> QED BY <1>6, <1>7, <1>8, <1>9

LEMMA UnchangedKeeps == ASSUME AccountInv, UNCHANGED account PROVE AccountInv'
<1>1. /\ AccountTyped /\ RowsTyped
  BY DEF AccountInv, AccountTyped
<1>2. /\ UNCHANGED Account!backend /\ UNCHANGED Account!rows
      /\ UNCHANGED <<calls, mount, mounts, page, app, invites, pulls, invited, visible>>
  BY DEF account, Account!backend, Account!rows
<1>3. RowsTyped'
  BY <1>1, <1>2, Frames
<1> QED BY <1>2, <1>3, RowsMove

LEMMA NextAccount == ASSUME AccountInv, Account!Next PROVE AccountInv'
<1>1. CASE Account!Calls
  <2>1. PICK k \in calls : Account!CallStep(k)
    BY <1>1 DEF Account!Calls
  <2>2. CASE \/ Account!ConfirmCode(k) \/ Account!Revoke(k) \/ Account!ForgetToken(k)
             \/ Account!DeleteSession(k) \/ Account!UpdateImage(k) \/ Account!SaveSession(k)
    BY <2>2, StepKeeps
  <2>3. CASE \/ Account!SignIn(k) \/ Account!ReadStatus(k) \/ Account!LoadForAvatar(k)
             \/ Account!Unlock(k) \/ Account!Lock(k) \/ Account!Answer(k) \/ Account!AnswerPage(k)
    BY <2>3, SignInKeeps, ReadingKeeps, UnlockKeeps, LockKeeps, AnswerKeeps, AnswerPageKeeps
  <2> QED BY <2>1, <2>2, <2>3 DEF Account!CallStep
<1>2. CASE Account!Fails
  BY <1>2, FailKeeps DEF Account!Fails
<1>3. CASE Account!Pulls
  BY <1>3, PullLoadKeeps, PullTokenKeeps, PullAnswerKeeps, PullTickKeeps
     DEF Account!Pulls, Account!PullStep
<1>4. CASE Account!Rows \/ Account!ReadShared \/ Account!WalkEnds
  BY <1>4, RowsKeep DEF Account!Rows
<1>5. CASE Account!Page \/ Account!World
  <2>1. CASE \/ \E u \in User : Account!SubmitAuth(u)
             \/ Account!VerifyEmail \/ Account!ResendCode \/ Account!SignOutTap \/ Account!PickAvatar
    BY <2>1, TapKeeps
  <2>2. CASE Account!OpenPage \/ Account!LeavePage \/ Account!CancelPending
    BY <2>2, OpenKeeps
  <2>3. CASE \/ \E u \in User : Account!DismissInvite(u) \/ Account!Invite(u)
             \/ Account!Toggle
    BY <2>3, PillKeeps
  <2> QED BY <1>5, <2>1, <2>2, <2>3 DEF Account!Page, Account!World
<1> QED BY <1>1, <1>2, <1>3, <1>4, <1>5 DEF Account!Next

\* What the machine of the account keeps, where it is the one that moves.
AccountAlways == part = "account" => AccountInv

LEMMA DeskSteps == AccountAlways /\ [DeskNext]_<<part, window, account, figures>> => AccountAlways'
<1> SUFFICES ASSUME AccountAlways, [DeskNext]_<<part, window, account, figures>>, part' = "account"
             PROVE  AccountInv'
  BY DEF AccountAlways
<1>1. part = "account" /\ (Account!Next \/ UNCHANGED account)
  BY DEF DeskNext
<1>2. AccountInv
  BY <1>1 DEF AccountAlways
<1> QED BY <1>1, <1>2, NextAccount, UnchangedKeeps

\* A cookie names one session, wherever it is kept: in the keychain, with the cached
\* token, in a call of the account page or in a request for the invitations.
THEOREM AccountInvariant == DeskSpec => []AccountAlways
<1>1. DeskInit => AccountAlways
  BY InitAccount DEF DeskInit, AccountAlways
<1> QED BY <1>1, DeskSteps, PTL DEF DeskSpec

\* A request gets the token of the session it began with, whoever has signed out and in
\* since, and whichever token was cached meanwhile: Token compares cookies, and a cookie
\* names one session.
THEOREM TokensOfTheirSessions == DeskSpec => []TokenOfItsSession
<1>1. AccountAlways => TokenOfItsSession
  BY DEF AccountAlways, AccountInv, AccountTyped, PullsTyped, TokenOfItsSession,
         Account!TokenOfItsSession
<1> QED BY <1>1, AccountInvariant, PTL

-----------------------------------------------------------------------------
(* The journal of the desktop window *)

\* A non-empty set of naturals has a least element.
LEMMA Least ==
    ASSUME NEW T, T \subseteq Nat, T # {}
    PROVE  \E n \in T : \A m \in T : n <= m
<1> DEFINE R == OpToRel(LAMBDA i, j : i < j, Nat)
<1>1. \A i \in Nat : \A j \in Nat : <<j, i>> \in R <=> j < i
  BY DEF OpToRel
<1>2. IsWellFoundedOn(R, Nat)
  BY NatLessThanWellFounded
<1> HIDE DEF R
<1>3. PICK n \in T : \A m \in T : ~ (<<m, n>> \in R)
  BY <1>2, WFMin
<1>4. ASSUME NEW m \in T PROVE n <= m
  <2>1. m \in Nat /\ n \in Nat
    OBVIOUS
  <2>2. ~ (<<m, n>> \in R)
    BY <1>3
  <2>3. ~ (m < n)
    BY <1>1, <2>1, <2>2
  <2> QED BY <2>1, <2>3
<1> QED BY <1>4

\* A set of naturals that has zero and with each of its elements the next one has all.
LEMMA AllOf ==
    ASSUME NEW T, 0 \in T, \A n \in Nat : n \in T => n + 1 \in T
    PROVE  Nat \subseteq T
<1> SUFFICES ASSUME Nat \ T # {} PROVE FALSE
  OBVIOUS
<1>1. PICK n \in Nat \ T : \A m \in Nat \ T : n <= m
  BY Least
<1>2. n # 0 /\ n - 1 \in Nat
  OBVIOUS
<1>3. n - 1 \in T
  BY <1>1, <1>2
<1> QED BY <1>2, <1>3

\* The logs that the first n of a row of changes lead to.
Upto(logs, cs, g, n) ==
    g = [k \in 0..n |-> IF k = 0 THEN logs ELSE Window!After(g[k - 1], cs[k])]

LEMMA UptoOne ==
    ASSUME NEW logs, NEW cs, NEW n \in Nat, NEW g, Upto(logs, cs, g, n)
    PROVE  /\ g[0] = logs
           /\ \A k \in 1..n : g[k] = Window!After(g[k - 1], cs[k])
BY DEF Upto

\* Such a row exists, of any length.
LEMMA UptoExists ==
    ASSUME NEW logs, NEW cs
    PROVE  \A n \in Nat : \E g : Upto(logs, cs, g, n)
<1> DEFINE T == {n \in Nat : \E g : Upto(logs, cs, g, n)}
<1>1. 0 \in T
  <2> DEFINE g == [k \in 0..0 |-> logs]
  <2>1. g = [k \in 0..0 |-> IF k = 0 THEN logs ELSE Window!After(g[k - 1], cs[k])]
    OBVIOUS
  <2>2. Upto(logs, cs, g, 0)
    BY <2>1 DEF Upto
  <2> HIDE DEF g
  <2> QED BY <2>2
<1>2. ASSUME NEW n \in Nat, n \in T PROVE n + 1 \in T
  <2>1. PICK g : Upto(logs, cs, g, n)
    BY <1>2
  <2>9. g[0] = logs /\ \A k \in 1..n : g[k] = Window!After(g[k - 1], cs[k])
    BY <2>1, UptoOne
  <2> DEFINE h == [k \in 0..(n + 1) |-> IF k <= n THEN g[k] ELSE Window!After(g[n], cs[n + 1])]
             F(k) == IF k = 0 THEN logs ELSE Window!After(h[k - 1], cs[k])
  <2>2. ASSUME NEW k \in 0..(n + 1) PROVE h[k] = F(k)
    <3>1. CASE k = 0
      BY <2>9, <3>1
    <3>2. CASE k \in 1..n
      <4>1. k - 1 \in 0..n /\ h[k - 1] = g[k - 1] /\ h[k] = g[k]
        BY <3>2
      <4>2. g[k] = Window!After(g[k - 1], cs[k])
        BY <2>9, <3>2
      <4> QED BY <3>2, <4>1, <4>2
    <3>3. CASE k = n + 1
      <4>1. h[n] = g[n] /\ h[k] = Window!After(g[n], cs[n + 1])
        BY <3>3
      <4> QED BY <3>3, <4>1
    <3> QED BY <3>1, <3>2, <3>3
  <2>3. h = [k \in 0..(n + 1) |-> h[k]]
    OBVIOUS
  <2>4. h = [k \in 0..(n + 1) |-> F(k)]
    <3> HIDE DEF h
    <3> HIDE DEF F
    <3> QED BY <2>2, <2>3
  <2>5. Upto(logs, cs, h, n + 1)
    <3> HIDE DEF h
    <3> QED BY <2>4 DEF Upto
  <2> HIDE DEF h
  <2> QED BY <2>5
<1> HIDE DEF T
<1>3. Nat \subseteq T
  BY <1>1, <1>2, AllOf
<1> QED BY <1>3 DEF T

\* And two of them agree as far as both go.
LEMMA UptoUnique ==
    ASSUME NEW logs, NEW cs, NEW n \in Nat, NEW m \in Nat, n <= m,
           NEW g, Upto(logs, cs, g, n), NEW h, Upto(logs, cs, h, m)
    PROVE  \A k \in 0..n : g[k] = h[k]
<1>10. g[0] = logs /\ \A k \in 1..n : g[k] = Window!After(g[k - 1], cs[k])
  BY UptoOne
<1>11. h[0] = logs /\ \A k \in 1..m : h[k] = Window!After(h[k - 1], cs[k])
  BY UptoOne
<1> DEFINE T == {k \in Nat : k <= n => g[k] = h[k]}
<1>1. 0 \in T
  BY <1>10, <1>11
<1>2. ASSUME NEW k \in Nat, k \in T PROVE k + 1 \in T
  <2> SUFFICES ASSUME k + 1 <= n PROVE g[k + 1] = h[k + 1]
    OBVIOUS
  <2>1. g[k] = h[k]
    BY <1>2
  <2>2. k + 1 \in 1..n /\ k + 1 \in 1..m /\ (k + 1) - 1 = k
    OBVIOUS
  <2>3. g[k + 1] = Window!After(g[(k + 1) - 1], cs[k + 1])
    BY <2>2, <1>10
  <2>4. h[k + 1] = Window!After(h[(k + 1) - 1], cs[k + 1])
    BY <2>2, <1>11
  <2> QED BY <2>1, <2>2, <2>3, <2>4
<1> HIDE DEF T
<1>3. Nat \subseteq T
  BY <1>1, <1>2, AllOf
<1> QED BY <1>3 DEF T

\* So the recursion of Unwound and Rewound, over whatever changes, has a solution.
Solves(f, logs, cs) ==
    f = [n \in Nat |-> IF n = 0 THEN logs ELSE Window!After(f[n - 1], cs[n])]

LEMMA Recursion ==
    ASSUME NEW logs, NEW cs PROVE \E f : Solves(f, logs, cs)
<1> DEFINE G(n) == CHOOSE g : Upto(logs, cs, g, n)
           f == [n \in Nat |-> G(n)[n]]
           F(n) == IF n = 0 THEN logs ELSE Window!After(f[n - 1], cs[n])
<1>1. ASSUME NEW n \in Nat PROVE Upto(logs, cs, G(n), n)
  BY UptoExists
<1>2. ASSUME NEW n \in Nat PROVE f[n] = F(n)
  <2>0. f[n] = G(n)[n]
    OBVIOUS
  <2>1. CASE n = 0
    <3>1. G(0)[0] = logs
      <4> HIDE DEF G
      <4> QED BY <1>1, UptoOne
    <3> QED BY <2>1, <3>1
  <2>2. CASE n # 0
    <3>1. n - 1 \in Nat /\ n \in 1..n /\ f[n - 1] = G(n - 1)[n - 1]
      BY <2>2
    <3> HIDE DEF G
    <3>2. G(n)[n] = Window!After(G(n)[n - 1], cs[n])
      BY <1>1, <3>1, UptoOne
    <3>3. G(n - 1)[n - 1] = G(n)[n - 1]
      <4>1. n - 1 <= n /\ n - 1 \in 0..(n - 1)
        BY <3>1
      <4>2. Upto(logs, cs, G(n - 1), n - 1) /\ Upto(logs, cs, G(n), n)
        BY <1>1, <3>1
      <4>3. \A k \in 0..(n - 1) : G(n - 1)[k] = G(n)[k]
        BY <3>1, <4>1, <4>2, UptoUnique
      <4> QED BY <4>1, <4>3
    <3> QED BY <2>0, <2>2, <3>1, <3>2, <3>3
  <2> QED BY <2>1, <2>2
<1>3. f = [n \in Nat |-> f[n]]
  <2> HIDE DEF G
  <2> QED OBVIOUS
<1> HIDE DEF f
<1>4. f = [n \in Nat |-> F(n)]
  <2> HIDE DEF F
  <2> QED BY <1>2, <1>3
<1> QED BY <1>4 DEF Solves

\* At most one activity starts at an instant.
OneEach(acts) == \A x, y \in acts : x.s = y.s => x = y

\* A change of what begins before an instant.
Past(c, t) ==
    /\ OneEach(c.gone) /\ OneEach(c.come)
    /\ \A x \in c.gone \cup c.come : x.s < t

\* The log and the journal: nothing begins at an instant that is still to come.
JournalInv ==
    /\ log \subseteq Window!Activity /\ OneEach(log) /\ \A x \in log : x.s < clock
    /\ clock \in 0..5
    /\ undo \in Seq(Window!Entry) /\ \A i \in 1..Len(undo) : Past(undo[i], clock)
    /\ redo \in Seq(Window!Entry) /\ \A i \in 1..Len(redo) : Past(redo[i], clock)

\* The logs through which undoing everything leads back, the newest last.
UndoPath ==
    \E p : /\ p[0] = first /\ p[Len(undo)] = log
           /\ \A i \in 1..Len(undo) :
                /\ Window!Applies(p[i], Window!Reversed(undo[i]))
                /\ p[i - 1] = Window!Changed(p[i], Window!Reversed(undo[i]))

\* And those through which all that was undone is redone, the last one first.
RedoPath ==
    \E p : /\ p[Len(redo)] = log
           /\ \A i \in 1..Len(redo) :
                /\ Window!Applies(p[i], redo[i])
                /\ p[i - 1] = Window!Changed(p[i], redo[i])

WindowInv ==
    /\ JournalInv /\ alone \in BOOLEAN
    /\ alone => UndoPath /\ RedoPath

\* What was changed can be changed back.
LEMMA Reversal ==
    ASSUME NEW acts, NEW c \in Window!Entry, OneEach(acts), Window!Applies(acts, c)
    PROVE  /\ Window!Applies(Window!Changed(acts, c), Window!Reversed(c))
           /\ Window!Changed(Window!Changed(acts, c), Window!Reversed(c)) = acts
<1>1. Window!Reversed(c).gone = c.come /\ Window!Reversed(c).come = c.gone
  BY DEF Window!Reversed
<1>2. c.gone \subseteq acts /\ \A x \in c.come : \A y \in acts \ c.gone : y.s # x.s
  BY DEF Window!Applies, Window!At
<1>3. Window!Changed(acts, c) = (acts \ c.gone) \cup c.come
  BY DEF Window!Changed
<1>4. \A x \in c.come : x \notin acts \ c.gone
  BY <1>2
<1>5. Window!Applies(Window!Changed(acts, c), Window!Reversed(c))
  <2>1. c.come \subseteq Window!Changed(acts, c)
    BY <1>3
  <2>2. ASSUME NEW x \in c.gone
        PROVE  Window!At(Window!Changed(acts, c) \ c.come, x.s) = {}
    <3>1. \A y \in Window!Changed(acts, c) \ c.come : y \in acts \ c.gone
      BY <1>3
    <3>2. \A y \in acts \ c.gone : y.s # x.s
      BY <1>2 DEF OneEach
    <3> QED BY <3>1, <3>2 DEF Window!At
  <2> QED BY <1>1, <2>1, <2>2 DEF Window!Applies
<1>6. Window!Changed(Window!Changed(acts, c), Window!Reversed(c)) = acts
  BY <1>1, <1>2, <1>3, <1>4 DEF Window!Changed
<1> QED BY <1>5, <1>6

LEMMA TwiceReversed ==
    ASSUME NEW c \in Window!Entry
    PROVE  /\ Window!Reversed(c) \in Window!Entry /\ Window!Reversed(Window!Reversed(c)) = c
           /\ Window!Reversed(c).gone = c.come /\ Window!Reversed(c).come = c.gone
BY DEF Window!Reversed, Window!Entry

\* A change that applies leaves one activity at an instant.
LEMMA ChangedKeeps ==
    ASSUME JournalInv, NEW c \in Window!Entry, OneEach(c.come), Window!Applies(log, c),
           NEW t \in Nat, \A x \in c.come : x.s < t, clock <= t
    PROVE  LET acts == Window!Changed(log, c) IN
           acts \subseteq Window!Activity /\ OneEach(acts) /\ \A x \in acts : x.s < t
<1>1. log \subseteq Window!Activity /\ OneEach(log) /\ clock \in 0..5 /\ \A x \in log : x.s < clock
  BY DEF JournalInv
<1>2. c.come \subseteq Window!Activity
  BY DEF Window!Entry
<1>3. c.gone \subseteq log /\ \A x \in c.come : \A y \in log \ c.gone : y.s # x.s
  BY DEF Window!Applies, Window!At
<1>4. \A x \in log : x.s \in Int
  BY <1>1 DEF Window!Activity, Window!Instant
<1> DEFINE acts == (log \ c.gone) \cup c.come
<1>5. Window!Changed(log, c) = acts
  BY DEF Window!Changed
<1>6. acts \subseteq Window!Activity
  BY <1>1, <1>2
<1>7. OneEach(acts)
  BY <1>1, <1>3 DEF OneEach
<1>8. \A x \in acts : x.s < t
  BY <1>1, <1>4
<1> QED BY <1>5, <1>6, <1>7, <1>8

LEMMA StillPast ==
    ASSUME NEW c \in Window!Entry, NEW t \in Nat, Past(c, t)
    PROVE  Past(c, t + 1)
<1>1. \A x \in c.gone \cup c.come : x.s \in Int
  BY DEF Window!Entry, Window!Activity, Window!Instant
<1> QED BY <1>1 DEF Past

\* A command of the application, recorded.
LEMMA CommitKeeps ==
    ASSUME WindowInv, NEW c \in Window!Entry, Window!Applies(log, c), clock < 5,
           OneEach(c.gone), OneEach(c.come), \A x \in c.come : x.s <= clock,
           Window!Commit(c)
    PROVE  WindowInv'
<1>1. JournalInv /\ alone \in BOOLEAN /\ clock \in 0..5 /\ OneEach(log) /\ undo \in Seq(Window!Entry)
      /\ \A x \in log : x.s < clock
  BY DEF WindowInv, JournalInv
<1>2. /\ log' = Window!Changed(log, c) /\ clock' = clock + 1 /\ undo' = Append(undo, c) /\ redo' = <<>>
      /\ first' = first /\ alone' = alone
  BY DEF Window!Commit, Window!Record
<1>3. \A x \in c.come : x.s \in Int /\ x.s < clock + 1
  BY <1>1 DEF Window!Entry, Window!Activity, Window!Instant
<1>4. \A x \in c.gone : x.s < clock + 1
  <2>1. c.gone \subseteq log /\ \A x \in c.gone : x.s \in Int
    BY <1>1 DEF Window!Applies, Window!Entry, Window!Activity, Window!Instant
  <2> QED BY <1>1, <2>1
<1>5. log' \subseteq Window!Activity /\ OneEach(log)' /\ \A x \in log' : x.s < clock'
  <2>1. clock + 1 \in Nat /\ clock <= clock + 1
    BY <1>1
  <2> QED BY <1>1, <1>2, <1>3, <2>1, ChangedKeeps DEF OneEach
<1>6. Len(undo') = Len(undo) + 1 /\ undo' \in Seq(Window!Entry) /\ undo'[Len(undo) + 1] = c
      /\ \A i \in 1..Len(undo) : undo'[i] = undo[i]
  BY <1>1, <1>2
<1>7. \A i \in 1..Len(undo') : Past(undo'[i], clock')
  <2>1. Past(c, clock + 1)
    BY <1>3, <1>4 DEF Past
  <2>2. ASSUME NEW i \in 1..Len(undo) PROVE Past(undo[i], clock + 1)
    <3>1. Past(undo[i], clock) /\ undo[i] \in Window!Entry
      BY <1>1 DEF JournalInv
    <3> QED BY <1>1, <3>1, StillPast
  <2> QED BY <1>2, <1>6, <2>1, <2>2
<1>8. JournalInv'
  <2>1. redo' \in Seq(Window!Entry) /\ Len(redo') = 0
    BY <1>2
  <2>2. clock' \in 0..5
    BY <1>1, <1>2
  <2> QED BY <1>5, <1>6, <1>7, <2>1, <2>2 DEF JournalInv
<1>9. ASSUME alone PROVE UndoPath' /\ RedoPath'
  <2> DEFINE n == Len(undo)
  <2>1. n \in Nat
    BY <1>1
  <2>2. PICK p : /\ p[0] = first /\ p[n] = log
                 /\ \A i \in 1..n : /\ Window!Applies(p[i], Window!Reversed(undo[i]))
                                    /\ p[i - 1] = Window!Changed(p[i], Window!Reversed(undo[i]))
    BY <1>9 DEF WindowInv, UndoPath
  <2> DEFINE q == [i \in 0..(n + 1) |-> IF i <= n THEN p[i] ELSE log']
  <2>3. /\ \A i \in 0..n : q[i] = p[i]
        /\ q[n + 1] = log'
    BY <2>1
  <2> HIDE DEF q, n
  <2>4. q[0] = first' /\ q[Len(undo')] = log'
    BY <1>2, <1>6, <2>1, <2>2, <2>3 DEF n
  <2>5. ASSUME NEW i \in 1..(n + 1)
        PROVE  /\ Window!Applies(q[i], Window!Reversed(undo'[i]))
               /\ q[i - 1] = Window!Changed(q[i], Window!Reversed(undo'[i]))
    <3>1. CASE i <= n
      <4>1. i \in 1..n /\ i - 1 \in 0..n /\ i \in 0..n /\ undo'[i] = undo[i]
        BY <1>6, <2>1, <3>1 DEF n
      <4> QED BY <2>2, <2>3, <4>1
    <3>2. CASE i = n + 1
      <4>1. i - 1 = n /\ n \in 0..n /\ undo'[i] = c /\ q[i] = log' /\ q[i - 1] = log
        BY <1>6, <2>1, <2>2, <2>3, <3>2 DEF n
      <4> QED BY <1>1, <1>2, <4>1, Reversal
    <3> QED BY <2>1, <3>1, <3>2
  <2>6. UndoPath'
    BY <1>6, <2>4, <2>5 DEF UndoPath, n
  <2>7. RedoPath'
    <3> DEFINE r == [i \in {0} |-> log']
    <3>1. Len(redo') = 0 /\ r[0] = log'
      BY <1>2
    <3> HIDE DEF r
    <3>2. r[Len(redo')] = log' /\ 1..Len(redo') = {}
      BY <3>1
    <3> QED BY <3>2 DEF RedoPath
  <2> QED BY <2>6, <2>7
<1> QED BY <1>1, <1>2, <1>8, <1>9 DEF WindowInv

\* Nothing of the backend changes, or only the clock.
LEMMA IdleKeeps ==
    ASSUME WindowInv, UNCHANGED <<log, undo, redo, first, alone>>,
           clock' = clock \/ (clock' = clock + 1 /\ clock < 5)
    PROVE  WindowInv'
<1>1. JournalInv /\ alone \in BOOLEAN /\ clock \in 0..5 /\ (alone => UndoPath /\ RedoPath)
  BY DEF WindowInv, JournalInv
<1>2. clock' \in 0..5
  BY <1>1
<1>3. JournalInv'
  <2>1. \A x \in log' : x.s < clock'
    <3>1. \A x \in log : x.s < clock /\ x.s \in Int
      BY <1>1 DEF JournalInv, Window!Activity, Window!Instant
    <3> QED BY <1>1, <3>1
  <2>2. ASSUME NEW c \in Window!Entry, Past(c, clock) PROVE Past(c, clock')
    BY <1>1, <2>2, StillPast
  <2>3. \A i \in 1..Len(undo') : Past(undo'[i], clock')
    BY <1>1, <2>2 DEF JournalInv
  <2>4. \A i \in 1..Len(redo') : Past(redo'[i], clock')
    BY <1>1, <2>2 DEF JournalInv
  <2>5. log' \subseteq Window!Activity /\ OneEach(log)'
    BY <1>1 DEF JournalInv, OneEach
  <2> QED BY <1>1, <1>2, <2>1, <2>3, <2>4, <2>5 DEF JournalInv
<1>4. (alone => UndoPath /\ RedoPath)'
  BY <1>1 DEF UndoPath, RedoPath
<1> QED BY <1>1, <1>3, <1>4 DEF WindowInv

\* A journal without its newest change.
LEMMA LessOne ==
    ASSUME NEW S, NEW s \in Seq(S), s # <<>>
    PROVE  LET r == SubSeq(s, 1, Len(s) - 1) IN
           /\ r \in Seq(S) /\ Len(r) = Len(s) - 1
           /\ \A i \in 1..(Len(s) - 1) : r[i] = s[i] /\ i \in 1..Len(s)
<1> DEFINE n == Len(s) - 1
           r == SubSeq(s, 1, n)
<1>1. n \in Nat /\ Len(s) = n + 1
  OBVIOUS
<1>2. \A i \in 1..n : s[i] \in S
  BY <1>1
<1> HIDE DEF n
<1>3. r \in Seq(S) /\ Len(r) = n /\ \A i \in 1..n : r[i] = s[i]
  BY <1>1, <1>2, SubSeqProperties
<1> QED BY <1>1, <1>3 DEF n

\* Undoing takes the newest change back, and leaves it to be redone.
LEMMA UndoMoves ==
    ASSUME WindowInv, Window!UndoTap, clock < 5 PROVE WindowInv'
<1>1. JournalInv /\ alone \in BOOLEAN /\ clock \in 0..5 /\ OneEach(log)
      /\ undo \in Seq(Window!Entry) /\ redo \in Seq(Window!Entry)
      /\ (\A i \in 1..Len(undo) : Past(undo[i], clock))
      /\ (\A i \in 1..Len(redo) : Past(redo[i], clock))
  BY DEF WindowInv, JournalInv
<1> DEFINE n == Len(undo)
           m == Len(redo)
           d == undo[n]
           c == Window!Reversed(d)
<1>2. n \in Nat \ {0} /\ m \in Nat /\ d \in Window!Entry /\ Past(d, clock)
  <2>1. n # 0 /\ undo # <<>>
    BY <1>1 DEF Window!UndoTap
  <2> QED BY <1>1, <2>1
<1>3. c \in Window!Entry /\ Window!Reversed(c) = d /\ Past(c, clock)
  BY <1>2, TwiceReversed DEF Past
<1>4. /\ first' = first /\ alone' = alone /\ clock' = clock + 1
      /\ \/ UNCHANGED <<log, undo, redo>>
         \/ /\ Window!Applies(log, c) /\ log' = Window!Changed(log, c)
            /\ undo' = SubSeq(undo, 1, n - 1) /\ redo' = Append(redo, d)
  BY DEF Window!UndoTap, Window!Refused
<1> HIDE DEF n, m, d, c
<1>5. CASE UNCHANGED <<log, undo, redo>>
  BY <1>4, <1>5, IdleKeeps
<1>6. CASE /\ Window!Applies(log, c) /\ log' = Window!Changed(log, c)
           /\ undo' = SubSeq(undo, 1, n - 1) /\ redo' = Append(redo, d)
  <2>1. /\ undo' \in Seq(Window!Entry) /\ Len(undo') = n - 1
        /\ \A i \in 1..(n - 1) : undo'[i] = undo[i] /\ i \in 1..n
    <3>1. undo # <<>>
      BY <1>1, <1>2 DEF n
    <3> QED BY <1>1, <1>6, <3>1, LessOne DEF n
  <2>2. /\ redo' \in Seq(Window!Entry) /\ Len(redo') = m + 1 /\ redo'[m + 1] = d
        /\ \A i \in 1..m : redo'[i] = redo[i]
    BY <1>1, <1>2, <1>6 DEF m
  <2>3. log' \subseteq Window!Activity /\ OneEach(log)' /\ \A x \in log' : x.s < clock'
    <3>1. clock + 1 \in Nat /\ clock <= clock + 1 /\ \A x \in c.come : x.s < clock + 1
      <4>1. \A x \in c.come : x.s \in Int /\ x.s < clock
        BY <1>3 DEF Past, Window!Entry, Window!Activity, Window!Instant
      <4> QED BY <1>1, <4>1
    <3>2. OneEach(c.come)
      BY <1>3 DEF Past
    <3> QED BY <1>1, <1>3, <1>4, <1>6, <3>1, <3>2, ChangedKeeps DEF OneEach
  <2>4. \A i \in 1..(n - 1) : Past(undo'[i], clock + 1)
    <3> SUFFICES ASSUME NEW i \in 1..(n - 1) PROVE Past(undo[i], clock + 1)
      BY <2>1
    <3>1. i \in 1..n
      BY <1>2
    <3>2. undo[i] \in Window!Entry /\ Past(undo[i], clock)
      BY <1>1, <3>1 DEF n
    <3> QED BY <1>1, <3>2, StillPast
  <2>5. \A i \in 1..(m + 1) : Past(redo'[i], clock + 1)
    <3>1. Past(d, clock + 1)
      BY <1>1, <1>2, StillPast
    <3>2. ASSUME NEW i \in 1..m PROVE Past(redo[i], clock + 1)
      <4>1. redo[i] \in Window!Entry /\ Past(redo[i], clock)
        BY <1>1 DEF m
      <4> QED BY <1>1, <4>1, StillPast
    <3> QED BY <1>2, <2>2, <3>1, <3>2
  <2>6. JournalInv'
    <3>1. clock' \in 0..5
      BY <1>1, <1>4
    <3> QED BY <1>4, <2>1, <2>2, <2>3, <2>4, <2>5, <3>1 DEF JournalInv
  <2>7. /\ Window!Applies(log', Window!Reversed(c))
        /\ Window!Changed(log', Window!Reversed(c)) = log
    BY <1>1, <1>3, <1>6, Reversal
  <2>8. ASSUME alone PROVE UndoPath'
    <3>1. PICK p : /\ p[0] = first /\ p[n] = log
                   /\ \A i \in 1..n : /\ Window!Applies(p[i], Window!Reversed(undo[i]))
                                      /\ p[i - 1] = Window!Changed(p[i], Window!Reversed(undo[i]))
      BY <2>8 DEF WindowInv, UndoPath, n
    <3>2. p[n - 1] = log'
      BY <1>2, <1>6, <3>1 DEF c, d
    <3> QED BY <1>4, <2>1, <3>1, <3>2 DEF UndoPath
  <2>9. ASSUME alone PROVE RedoPath'
    <3>1. PICK p : /\ p[m] = log
                   /\ \A i \in 1..m : /\ Window!Applies(p[i], redo[i])
                                      /\ p[i - 1] = Window!Changed(p[i], redo[i])
      BY <2>9 DEF WindowInv, RedoPath, m
    <3> DEFINE q == [i \in 0..(m + 1) |-> IF i <= m THEN p[i] ELSE log']
    <3>2. /\ \A i \in 0..m : q[i] = p[i]
          /\ q[m + 1] = log'
      BY <1>2
    <3> HIDE DEF q
    <3>3. q[Len(redo')] = log'
      BY <1>2, <1>4, <2>2, <3>1, <3>2
    <3>4. ASSUME NEW i \in 1..(m + 1)
          PROVE  /\ Window!Applies(q[i], redo'[i])
                 /\ q[i - 1] = Window!Changed(q[i], redo'[i])
      <4>1. CASE i <= m
        <5>1. i \in 1..m /\ i - 1 \in 0..m /\ i \in 0..m /\ redo'[i] = redo[i]
          BY <1>2, <2>2, <4>1
        <5> QED BY <3>1, <3>2, <5>1
      <4>2. CASE i = m + 1
        <5>1. i - 1 = m /\ m \in 0..m /\ redo'[i] = d /\ q[i] = log' /\ q[i - 1] = log
          BY <1>2, <2>2, <3>1, <3>2, <4>2
        <5>2. d = Window!Reversed(c)
          BY <1>3
        <5> QED BY <2>7, <5>1, <5>2
      <4> QED BY <1>2, <4>1, <4>2
    <3> QED BY <2>2, <3>3, <3>4 DEF RedoPath
  <2> QED BY <1>1, <1>4, <2>6, <2>8, <2>9 DEF WindowInv
<1> QED BY <1>4, <1>5, <1>6

\* Redoing makes it again, and leaves it to be undone.
LEMMA RedoMoves ==
    ASSUME WindowInv, Window!RedoTap, clock < 5 PROVE WindowInv'
<1>1. JournalInv /\ alone \in BOOLEAN /\ clock \in 0..5 /\ OneEach(log)
      /\ undo \in Seq(Window!Entry) /\ redo \in Seq(Window!Entry)
      /\ (\A i \in 1..Len(undo) : Past(undo[i], clock))
      /\ (\A i \in 1..Len(redo) : Past(redo[i], clock))
  BY DEF WindowInv, JournalInv
<1> DEFINE n == Len(redo)
           m == Len(undo)
           d == redo[n]
           c == d
<1>2. n \in Nat \ {0} /\ m \in Nat /\ d \in Window!Entry /\ Past(d, clock)
  <2>1. n # 0 /\ redo # <<>>
    BY <1>1 DEF Window!RedoTap
  <2> QED BY <1>1, <2>1
<1>3. c \in Window!Entry /\ Window!Reversed(c) = Window!Reversed(d) /\ Past(c, clock)
  BY <1>2, TwiceReversed DEF Past
<1>4. /\ first' = first /\ alone' = alone /\ clock' = clock + 1
      /\ \/ UNCHANGED <<log, undo, redo>>
         \/ /\ Window!Applies(log, c) /\ log' = Window!Changed(log, c)
            /\ redo' = SubSeq(redo, 1, n - 1) /\ undo' = Append(undo, d)
  BY DEF Window!RedoTap, Window!Refused
<1> HIDE DEF n, m, d, c
<1>5. CASE UNCHANGED <<log, undo, redo>>
  BY <1>4, <1>5, IdleKeeps
<1>6. CASE /\ Window!Applies(log, c) /\ log' = Window!Changed(log, c)
           /\ redo' = SubSeq(redo, 1, n - 1) /\ undo' = Append(undo, d)
  <2>1. /\ redo' \in Seq(Window!Entry) /\ Len(redo') = n - 1
        /\ \A i \in 1..(n - 1) : redo'[i] = redo[i] /\ i \in 1..n
    <3>1. redo # <<>>
      BY <1>1, <1>2 DEF n
    <3> QED BY <1>1, <1>6, <3>1, LessOne DEF n
  <2>2. /\ undo' \in Seq(Window!Entry) /\ Len(undo') = m + 1 /\ undo'[m + 1] = d
        /\ \A i \in 1..m : undo'[i] = undo[i]
    BY <1>1, <1>2, <1>6 DEF m
  <2>3. log' \subseteq Window!Activity /\ OneEach(log)' /\ \A x \in log' : x.s < clock'
    <3>1. clock + 1 \in Nat /\ clock <= clock + 1 /\ \A x \in c.come : x.s < clock + 1
      <4>1. \A x \in c.come : x.s \in Int /\ x.s < clock
        BY <1>3 DEF Past, Window!Entry, Window!Activity, Window!Instant
      <4> QED BY <1>1, <4>1
    <3>2. OneEach(c.come)
      BY <1>3 DEF Past
    <3> QED BY <1>1, <1>3, <1>4, <1>6, <3>1, <3>2, ChangedKeeps DEF OneEach
  <2>4. \A i \in 1..(n - 1) : Past(redo'[i], clock + 1)
    <3> SUFFICES ASSUME NEW i \in 1..(n - 1) PROVE Past(redo[i], clock + 1)
      BY <2>1
    <3>1. i \in 1..n
      BY <1>2
    <3>2. redo[i] \in Window!Entry /\ Past(redo[i], clock)
      BY <1>1, <3>1 DEF n
    <3> QED BY <1>1, <3>2, StillPast
  <2>5. \A i \in 1..(m + 1) : Past(undo'[i], clock + 1)
    <3>1. Past(d, clock + 1)
      BY <1>1, <1>2, StillPast
    <3>2. ASSUME NEW i \in 1..m PROVE Past(undo[i], clock + 1)
      <4>1. undo[i] \in Window!Entry /\ Past(undo[i], clock)
        BY <1>1 DEF m
      <4> QED BY <1>1, <4>1, StillPast
    <3> QED BY <1>2, <2>2, <3>1, <3>2
  <2>6. JournalInv'
    <3>1. clock' \in 0..5
      BY <1>1, <1>4
    <3> QED BY <1>4, <2>1, <2>2, <2>3, <2>4, <2>5, <3>1 DEF JournalInv
  <2>7. /\ Window!Applies(log', Window!Reversed(c))
        /\ Window!Changed(log', Window!Reversed(c)) = log
    BY <1>1, <1>3, <1>6, Reversal
  <2>8. ASSUME alone PROVE RedoPath'
    <3>1. PICK p : /\ p[n] = log
                   /\ \A i \in 1..n : /\ Window!Applies(p[i], redo[i])
                                      /\ p[i - 1] = Window!Changed(p[i], redo[i])
      BY <2>8 DEF WindowInv, RedoPath, n
    <3>2. p[n - 1] = log'
      BY <1>2, <1>6, <3>1 DEF c, d
    <3> QED BY <1>4, <2>1, <3>1, <3>2 DEF RedoPath
  <2>9. ASSUME alone PROVE UndoPath'
    <3>1. PICK p : /\ p[0] = first /\ p[m] = log
                   /\ \A i \in 1..m : /\ Window!Applies(p[i], Window!Reversed(undo[i]))
                                      /\ p[i - 1] = Window!Changed(p[i], Window!Reversed(undo[i]))
      BY <2>9 DEF WindowInv, UndoPath, m
    <3> DEFINE q == [i \in 0..(m + 1) |-> IF i <= m THEN p[i] ELSE log']
    <3>2. /\ \A i \in 0..m : q[i] = p[i]
          /\ q[m + 1] = log'
      BY <1>2
    <3> HIDE DEF q
    <3>3. q[0] = first' /\ q[Len(undo')] = log'
      BY <1>2, <1>4, <2>2, <3>1, <3>2
    <3>4. ASSUME NEW i \in 1..(m + 1)
          PROVE  /\ Window!Applies(q[i], Window!Reversed(undo'[i]))
                 /\ q[i - 1] = Window!Changed(q[i], Window!Reversed(undo'[i]))
      <4>1. CASE i <= m
        <5>1. i \in 1..m /\ i - 1 \in 0..m /\ i \in 0..m /\ undo'[i] = undo[i]
          BY <1>2, <2>2, <4>1
        <5> QED BY <3>1, <3>2, <5>1
      <4>2. CASE i = m + 1
        <5>1. i - 1 = m /\ m \in 0..m /\ undo'[i] = d /\ q[i] = log' /\ q[i - 1] = log
          BY <1>2, <2>2, <3>1, <3>2, <4>2
        <5>2. Window!Reversed(d) = Window!Reversed(c)
          BY <1>3
        <5> QED BY <2>7, <5>1, <5>2
      <4> QED BY <1>2, <4>1, <4>2
    <3> QED BY <2>2, <3>3, <3>4 DEF UndoPath
  <2> QED BY <1>1, <1>4, <2>6, <2>8, <2>9 DEF WindowInv
<1> QED BY <1>4, <1>5, <1>6

\* What the changes of the commands are made of.
Recordable(c, acts, t) ==
    /\ c \in Window!Entry /\ Window!Applies(acts, c)
    /\ OneEach(c.gone) /\ OneEach(c.come) /\ \A x \in c.come : x.s <= t

\* A start, at an instant that is free, closes what runs.
LEMMA Starts ==
    ASSUME JournalInv, NEW new \in Window!Activity, Window!StartAvailable(new.s), new.s <= clock
    PROVE  Recordable(Window!StartChange(new), log, clock)
<1>1. /\ log \subseteq Window!Activity /\ OneEach(log) /\ \A x \in log : x.s < clock
      /\ clock \in 0..5
  BY DEF JournalInv
<1> DEFINE open == Window!Open(log)
           close(x) == Window!Closed(x, new.s)
           came == {close(x) : x \in open} \cup {new}
<1>2. open \subseteq log
  BY DEF Window!Open
<1>3. ASSUME NEW x \in open PROVE close(x) \in Window!Activity /\ close(x).s = x.s
  <2>1. x \in Window!Activity /\ new.s \in 0..5
    BY <1>1, <1>2 DEF Window!Activity, Window!Instant
  <2> DEFINE w == IF new.s < x.s THEN clock ELSE new.s
  <2>2. w \in 0..5
    BY <1>1, <2>1
  <2>3. close(x) = [x EXCEPT !.e = w]
    BY DEF Window!Closed
  <2> HIDE DEF w, close
  <2> QED BY <2>1, <2>2, <2>3 DEF Window!Activity, Window!Instant
<1>4. Window!StartChange(new) = [gone |-> open, come |-> came]
  BY DEF Window!StartChange
<1> HIDE DEF open, close
<1>5. \A x \in came : x = new \/ \E y \in open : x = close(y)
  OBVIOUS
<1>6. came \subseteq Window!Activity
  BY <1>3
<1>7. \A y \in log : y.s # new.s
  BY DEF Window!StartAvailable, Window!At
<1>8. OneEach(came)
  <2> SUFFICES ASSUME NEW x \in came, NEW y \in came, x.s = y.s PROVE x = y
    BY DEF OneEach
  <2>1. CASE x = new
    <3>1. y = new
      BY <1>2, <1>3, <1>5, <1>7, <2>1
    <3> QED BY <2>1, <3>1
  <2>2. CASE y = new
    <3>1. x = new
      BY <1>2, <1>3, <1>5, <1>7, <2>2
    <3> QED BY <2>2, <3>1
  <2>3. CASE x # new /\ y # new
    <3>1. PICK v \in open : x = close(v)
      BY <1>5, <2>3
    <3>2. PICK w \in open : y = close(w)
      BY <1>5, <2>3
    <3>3. v.s = w.s
      BY <1>3, <3>1, <3>2
    <3>4. v = w
      BY <1>1, <1>2, <3>3 DEF OneEach
    <3> QED BY <3>1, <3>2, <3>4
  <2> QED BY <2>1, <2>2, <2>3
<1>9. \A x \in came : x.s <= clock
  <2>1. \A y \in log : y.s \in Int /\ y.s < clock
    BY <1>1 DEF Window!Activity, Window!Instant
  <2> QED BY <1>1, <1>2, <1>3, <1>5, <2>1
<1>10. ASSUME NEW x \in came PROVE Window!At(log \ open, x.s) = {}
  <2>1. CASE x = new
    BY <1>7, <2>1 DEF Window!At
  <2>2. CASE x # new
    <3>1. PICK v \in open : x = close(v)
      BY <1>5, <2>2
    <3>2. x.s = v.s
      BY <1>3, <3>1
    <3>3. \A y \in log \ open : y.s # v.s
      BY <1>1, <1>2 DEF OneEach
    <3> QED BY <3>2, <3>3 DEF Window!At
  <2> QED BY <2>1, <2>2
<1> HIDE DEF came
<1>11. /\ Window!StartChange(new) \in Window!Entry
       /\ Window!StartChange(new).gone = open /\ Window!StartChange(new).come = came
  BY <1>1, <1>2, <1>4, <1>6 DEF Window!Entry
<1>12. Window!Applies(log, Window!StartChange(new))
  BY <1>2, <1>10, <1>11 DEF Window!Applies
<1>13. OneEach(open)
  BY <1>1, <1>2 DEF OneEach
<1> QED BY <1>8, <1>9, <1>11, <1>12, <1>13 DEF Recordable

\* Of several activities one starts last.
LEMMA LatestOf ==
    ASSUME NEW acts, acts \subseteq Window!Activity, acts # {}
    PROVE  Window!Latest(acts) \in acts
<1> DEFINE T == {5 - x.s : x \in acts}
<1>1. \A x \in acts : x.s \in 0..5
  BY DEF Window!Activity, Window!Instant
<1>2. T \subseteq Nat /\ T # {}
  BY <1>1
<1>3. PICK n \in T : \A m \in T : n <= m
  <2> HIDE DEF T
  <2> QED BY <1>2, Least
<1>4. PICK x \in acts : n = 5 - x.s
  OBVIOUS
<1>5. \A y \in acts : x.s >= y.s
  <2> SUFFICES ASSUME NEW y \in acts PROVE x.s >= y.s
    OBVIOUS
  <2>1. n <= 5 - y.s
    BY <1>3
  <2> QED BY <1>1, <1>4, <2>1
<1> QED BY <1>5 DEF Window!Latest

\* A stop ends one of the running activities where it started.
LEMMA Stops ==
    ASSUME JournalInv, Window!Open(log) # {}
    PROVE  Recordable(Window!StopChange, log, clock)
<1> DEFINE x == Window!Latest(Window!Open(log))
           z == [x EXCEPT !.e = clock]
<1>1. /\ log \subseteq Window!Activity /\ OneEach(log) /\ \A y \in log : y.s < clock
      /\ clock \in 0..5
  BY DEF JournalInv
<1>2. x \in log /\ x \in Window!Activity
  <2>1. Window!Open(log) \subseteq log
    BY DEF Window!Open
  <2>2. Window!Open(log) \subseteq Window!Activity
    BY <1>1, <2>1
  <2> QED BY <1>1, <2>1, <2>2, LatestOf
<1> HIDE DEF x
<1>3. z \in Window!Activity /\ z.s = x.s
  BY <1>1, <1>2 DEF Window!Activity, Window!Instant
<1>4. Window!StopChange = [gone |-> {x}, come |-> {z}]
  BY DEF Window!StopChange, x
<1> HIDE DEF z
<1>5. /\ Window!StopChange \in Window!Entry
      /\ Window!StopChange.gone = {x} /\ Window!StopChange.come = {z}
  BY <1>2, <1>3, <1>4 DEF Window!Entry
<1>6. \A y \in log \ {x} : y.s # z.s
  BY <1>1, <1>2, <1>3 DEF OneEach
<1>7. Window!Applies(log, Window!StopChange)
  BY <1>2, <1>5, <1>6 DEF Window!Applies, Window!At
<1>8. z.s <= clock
  <2>1. x.s < clock /\ x.s \in Int
    BY <1>1, <1>2 DEF Window!Activity, Window!Instant
  <2> QED BY <1>1, <1>3, <2>1
<1> QED BY <1>5, <1>7, <1>8 DEF Recordable, OneEach

LEMMA CommitsKeep ==
    ASSUME WindowInv, NEW c, Recordable(c, log, clock), clock < 5, Window!Commit(c)
    PROVE  WindowInv'
BY CommitKeeps DEF Recordable

\* Nothing starts at the instant that is now.
LEMMA FreeNow ==
    ASSUME JournalInv, clock < 5, NEW t \in Text
    PROVE  LET new == [s |-> clock, d |-> t, e |-> None] IN
           new \in Window!Activity /\ Window!StartAvailable(new.s) /\ new.s <= clock
<1>1. /\ log \subseteq Window!Activity /\ \A x \in log : x.s < clock /\ clock \in 0..5
  BY DEF JournalInv
<1>2. [s |-> clock, d |-> t, e |-> None] \in Window!Activity
  BY <1>1 DEF Window!Activity, Window!Instant, JournalInv
<1>3. \A x \in log : x.s # clock
  <2>1. \A x \in log : x.s \in Int
    BY <1>1 DEF Window!Activity, Window!Instant
  <2> QED BY <1>1, <2>1
<1>4. clock <= clock
  BY DEF JournalInv
<1> QED BY <1>2, <1>3, <1>4 DEF Window!StartAvailable, Window!At

LEMMA StartsKeep ==
    ASSUME WindowInv, NEW t \in Text, clock < 5,
           Window!Commit(Window!StartChange([s |-> clock, d |-> t, e |-> None]))
    PROVE  WindowInv'
<1> DEFINE new == [s |-> clock, d |-> t, e |-> None]
<1>1. JournalInv
  BY DEF WindowInv
<1>2. new \in Window!Activity /\ Window!StartAvailable(new.s) /\ new.s <= clock
  BY <1>1, FreeNow
<1>3. Window!Commit(Window!StartChange(new))
  OBVIOUS
<1> HIDE DEF new
<1> QED BY <1>1, <1>2, <1>3, Starts, CommitsKeep

LEMMA StartAtKeeps ==
    ASSUME WindowInv, NEW d \in Text, NEW t \in Window!Minutes, Window!StartAtTap(d, t)
    PROVE  WindowInv'
<1> DEFINE new == [s |-> t, d |-> d, e |-> None]
<1>1. JournalInv /\ clock < 5 /\ t <= clock
  BY DEF WindowInv, Window!StartAtTap, Window!Tap
<1>2. new \in Window!Activity /\ new.s = t
  BY DEF Window!Activity, Window!Minutes
<1>3. \/ Window!StartAvailable(t) /\ Window!Commit(Window!StartChange(new))
      \/ Window!Refused
  BY DEF Window!StartAtTap
<1> HIDE DEF new
<1>4. CASE Window!StartAvailable(t) /\ Window!Commit(Window!StartChange(new))
  BY <1>1, <1>2, <1>4, Starts, CommitsKeep
<1>5. CASE Window!Refused
  BY <1>1, <1>5, IdleKeeps DEF Window!Refused
<1> QED BY <1>3, <1>4, <1>5

LEMMA AddPastKeeps ==
    ASSUME WindowInv, NEW d \in Text, NEW t \in Window!PastTimes, Window!AddPastTap(d, t)
    PROVE  WindowInv'
<1> DEFINE new == [s |-> t[1], d |-> d, e |-> t[2]]
           c == [gone |-> {}, come |-> {new}]
<1>1. JournalInv /\ clock < 5 /\ clock \in 0..5
  BY DEF WindowInv, JournalInv, Window!AddPastTap, Window!Tap
<1>2. t[1] \in 0..5 /\ t[2] \in 0..5 /\ t[1] < t[2] /\ t[2] <= clock
  BY DEF Window!PastTimes, Window!Minutes, Window!Instant
<1>3. new \in Window!Activity /\ new.s = t[1] /\ new.s <= clock
  BY <1>1, <1>2 DEF Window!Activity, Window!Instant
<1>4. \/ Window!StartAvailable(t[1]) /\ Window!Commit(c)
      \/ Window!Refused
  BY DEF Window!AddPastTap
<1> HIDE DEF new
<1>5. CASE Window!StartAvailable(t[1]) /\ Window!Commit(c)
  <2>1. c \in Window!Entry /\ c.gone = {} /\ c.come = {new}
    BY <1>3 DEF Window!Entry
  <2> HIDE DEF c
  <2>2. Window!Applies(log, c)
    BY <1>3, <1>5, <2>1 DEF Window!Applies, Window!StartAvailable, Window!At
  <2>3. Recordable(c, log, clock)
    BY <1>3, <2>1, <2>2 DEF Recordable, OneEach
  <2> QED BY <1>1, <1>5, <2>3, CommitsKeep
<1>6. CASE Window!Refused
  BY <1>1, <1>6, IdleKeeps DEF Window!Refused
<1> QED BY <1>4, <1>5, <1>6

LEMMA MinuteIs ==
    \A t \in 0..5 : Window!Minute(t) \in 0..5 /\ Window!Minute(t) <= t
BY SMT DEF Window!Minute

LEMMA EditKeeps ==
    ASSUME WindowInv, NEW x, NEW d \in Text, NEW t \in Window!EditedTimes(x), Window!EditTap(x, d, t)
    PROVE  WindowInv'
<1> DEFINE new == [s |-> t[1], d |-> d, e |-> t[2]]
           c == [gone |-> {x}, come |-> {new}]
<1>1. JournalInv /\ clock < 5 /\ clock \in 0..5
  BY DEF WindowInv, JournalInv, Window!EditTap, Window!Tap
<1>2. /\ t[1] \in 0..5 /\ t[2] \in (0..5) \cup {None}
      /\ t[1] \in {Window!Minute(x.s), Window!Minute(clock)}
  BY DEF Window!EditedTimes, Window!Minutes, Window!Instant
<1>3. \/ Window!Applies(log, c) /\ Window!Commit(c)
      \/ Window!Refused
  BY DEF Window!EditTap
<1>4. new \in Window!Activity /\ new.s = t[1]
  BY <1>2 DEF Window!Activity, Window!Instant
<1> HIDE DEF new
<1>5. CASE Window!Applies(log, c) /\ Window!Commit(c)
  <2>1. c.gone = {x} /\ c.come = {new}
    OBVIOUS
  <2>2. x \in log
    BY <1>5, <2>1 DEF Window!Applies
  <2>3. x \in Window!Activity /\ x.s \in 0..5 /\ x.s < clock
    BY <1>1, <2>2 DEF JournalInv, Window!Activity, Window!Instant
  <2>4. c \in Window!Entry
    BY <1>4, <2>3 DEF Window!Entry
  <2>5. t[1] <= clock
    <3>1. Window!Minute(x.s) <= x.s /\ Window!Minute(clock) <= clock
      BY <1>1, <2>3, MinuteIs
    <3>2. Window!Minute(x.s) \in 0..5
      BY <2>3, MinuteIs
    <3> QED BY <1>1, <1>2, <2>3, <3>1, <3>2
  <2> HIDE DEF c
  <2>6. Recordable(c, log, clock)
    BY <1>4, <1>5, <2>1, <2>4, <2>5 DEF Recordable, OneEach
  <2> QED BY <1>1, <1>5, <2>6, CommitsKeep
<1>6. CASE Window!Refused
  BY <1>1, <1>6, IdleKeeps DEF Window!Refused
<1> QED BY <1>3, <1>5, <1>6

LEMMA RemovalKeeps ==
    ASSUME WindowInv, NEW x, Window!RemoveTap(x)
    PROVE  WindowInv'
<1> DEFINE c == [gone |-> {x}, come |-> {}]
<1>1. JournalInv /\ clock < 5
  BY DEF WindowInv, Window!RemoveTap, Window!Tap
<1>2. \/ Window!Applies(log, c) /\ Window!Commit(c)
      \/ Window!Refused
  BY DEF Window!RemoveTap
<1>3. CASE Window!Applies(log, c) /\ Window!Commit(c)
  <2>1. c.gone = {x} /\ c.come = {}
    OBVIOUS
  <2>2. x \in Window!Activity
    BY <1>1, <1>3, <2>1 DEF Window!Applies, JournalInv
  <2>3. c \in Window!Entry
    BY <2>2 DEF Window!Entry
  <2> HIDE DEF c
  <2>4. Recordable(c, log, clock)
    BY <1>3, <2>1, <2>3 DEF Recordable, OneEach
  <2> QED BY <1>1, <1>3, <2>4, CommitsKeep
<1>4. CASE Window!Refused
  BY <1>1, <1>4, IdleKeeps DEF Window!Refused
<1> QED BY <1>2, <1>3, <1>4

\* What a sync changes is not this application's.
LEMMA SyncKeeps ==
    ASSUME WindowInv, log' \subseteq Window!Activity, OneEach(log'), \A x \in log' : x.s <= clock,
           clock < 5, clock' = clock + 1, UNCHANGED <<undo, redo, first>>, alone' = FALSE
    PROVE  WindowInv'
<1>1. JournalInv /\ clock \in 0..5
  BY DEF WindowInv, JournalInv
<1>2. \A x \in log' : x.s < clock'
  <2>1. \A x \in log' : x.s \in Int
    BY DEF Window!Activity, Window!Instant
  <2> QED BY <1>1, <2>1
<1>3. \A i \in 1..Len(undo) : Past(undo[i], clock + 1)
  BY <1>1, StillPast DEF JournalInv
<1>4. \A i \in 1..Len(redo) : Past(redo[i], clock + 1)
  BY <1>1, StillPast DEF JournalInv
<1>5. clock' \in 0..5
  BY <1>1
<1>6. JournalInv'
  BY <1>1, <1>2, <1>3, <1>4, <1>5 DEF JournalInv, OneEach
<1> QED BY <1>6 DEF WindowInv

LEMMA TimerSyncKeeps ==
    ASSUME WindowInv, NEW t \in Text, Window!TimerSynced(t) PROVE WindowInv'
<1> DEFINE new == [s |-> clock, d |-> t, e |-> None]
<1>1. /\ JournalInv /\ clock < 5 /\ clock \in 0..5
      /\ clock' = clock + 1 /\ UNCHANGED <<undo, redo, first>> /\ alone' = FALSE
  BY DEF WindowInv, JournalInv, Window!TimerSynced, Window!Behind
<1>2. \E c : Recordable(c, log, clock) /\ log' = Window!Changed(log, c)
  <2>1. CASE Window!Open(log) = {}
    <3>1. log' = Window!Changed(log, Window!StartChange(new))
      BY <2>1 DEF Window!TimerSynced
    <3>2. new \in Window!Activity /\ Window!StartAvailable(new.s) /\ new.s <= clock
      BY <1>1, FreeNow
    <3> HIDE DEF new
    <3> QED BY <1>1, <3>1, <3>2, Starts
  <2>2. CASE Window!Open(log) # {}
    <3>1. log' = Window!Changed(log, Window!StopChange)
      BY <2>2 DEF Window!TimerSynced
    <3> QED BY <1>1, <2>2, <3>1, Stops
  <2> QED BY <2>1, <2>2
<1>3. PICK c : Recordable(c, log, clock) /\ log' = Window!Changed(log, c)
  BY <1>2
<1>4. \A x \in c.come : x.s < clock + 1
  <2>1. \A x \in c.come : x.s \in Int /\ x.s <= clock
    BY <1>3 DEF Recordable, Window!Entry, Window!Activity, Window!Instant
  <2> QED BY <1>1, <2>1
<1>5. log' \subseteq Window!Activity /\ OneEach(log') /\ \A x \in log' : x.s < clock + 1
  <2>1. clock + 1 \in Nat /\ clock <= clock + 1
    BY <1>1
  <2> QED BY <1>1, <1>3, <1>4, <2>1, ChangedKeeps DEF Recordable
<1>6. \A x \in log' : x.s <= clock
  <2>1. \A x \in log' : x.s \in Int
    BY <1>5 DEF Window!Activity, Window!Instant
  <2> QED BY <1>1, <1>5, <2>1
<1> QED BY <1>1, <1>5, <1>6, SyncKeeps

LEMMA EntrySyncKeeps ==
    ASSUME WindowInv, NEW t \in Text, Window!EntrySynced(t) PROVE WindowInv'
<1> DEFINE m == Window!Minute(clock)
           new == [s |-> m, d |-> t, e |-> clock]
<1>1. /\ JournalInv /\ clock < 5 /\ clock \in 0..5
      /\ clock' = clock + 1 /\ UNCHANGED <<undo, redo, first>> /\ alone' = FALSE
  BY DEF WindowInv, JournalInv, Window!EntrySynced, Window!Behind
<1>2. m \in 0..5 /\ m <= clock
  BY <1>1, MinuteIs
<1>3. \/ log' = log \cup {new} /\ Window!StartAvailable(m)
      \/ log' \subseteq log
  BY DEF Window!EntrySynced
<1> HIDE DEF m
<1>4. new \in Window!Activity /\ new.s = m
  BY <1>1, <1>2 DEF Window!Activity, Window!Instant
<1> HIDE DEF new
<1>5. log \subseteq Window!Activity /\ OneEach(log) /\ \A x \in log : x.s \in 0..5 /\ x.s < clock
  BY <1>1 DEF JournalInv, Window!Activity, Window!Instant
<1>6. CASE log' = log \cup {new} /\ Window!StartAvailable(m)
  <2>1. OneEach(log') /\ log' \subseteq Window!Activity
    BY <1>4, <1>5, <1>6 DEF OneEach, Window!StartAvailable, Window!At
  <2>2. \A x \in log' : x.s <= clock
    BY <1>1, <1>2, <1>4, <1>5, <1>6
  <2> QED BY <1>1, <2>1, <2>2, SyncKeeps
<1>7. CASE log' \subseteq log
  <2>1. OneEach(log') /\ log' \subseteq Window!Activity
    BY <1>5, <1>7 DEF OneEach
  <2>2. \A x \in log' : x.s <= clock
    BY <1>1, <1>5, <1>7
  <2> QED BY <1>1, <2>1, <2>2, SyncKeeps
<1> QED BY <1>3, <1>6, <1>7

LEMMA InitWindow == ASSUME Window!Init PROVE WindowInv
<1>1. /\ \/ \E t \in Text : log = {[s |-> 0, d |-> t, e |-> None]}
         \/ log = {}
      /\ undo = <<>> /\ redo = <<>> /\ clock = 1 /\ first = log /\ alone = TRUE
  BY DEF Window!Init
<1>2. log \subseteq Window!Activity /\ OneEach(log) /\ \A x \in log : x.s = 0
  BY <1>1 DEF OneEach, Window!Activity, Window!Instant
<1>3. Len(undo) = 0 /\ Len(redo) = 0 /\ undo \in Seq(Window!Entry) /\ redo \in Seq(Window!Entry)
  BY <1>1
<1>4. JournalInv
  BY <1>1, <1>2, <1>3 DEF JournalInv
<1> DEFINE p == [i \in {0} |-> log]
<1>5. p[0] = log
  OBVIOUS
<1> HIDE DEF p
<1>6. UndoPath /\ RedoPath
  BY <1>1, <1>3, <1>5 DEF UndoPath, RedoPath
<1> QED BY <1>1, <1>4, <1>6 DEF WindowInv

LEMMA StopKeeps ==
    ASSUME WindowInv, Window!Open(log) # {}, clock < 5, Window!Commit(Window!StopChange)
    PROVE  WindowInv'
<1>1. JournalInv
  BY DEF WindowInv
<1> QED BY <1>1, Stops, CommitsKeep

\* Nothing of the log happens.
LEMMA RestKeeps ==
    ASSUME WindowInv, UNCHANGED Window!backend PROVE WindowInv'
<1>1. UNCHANGED <<log, undo, redo, first, alone>> /\ clock' = clock
  BY DEF Window!backend
<1> QED BY <1>1, IdleKeeps

LEMMA TapsKeep == ASSUME WindowInv, Window!Taps PROVE WindowInv'
<1>1. CASE \E d \in Text : Window!StartTap(d)
  <2>1. PICK d \in Text : Window!StartTap(d)
    BY <1>1
  <2>2. clock < 5 /\ Window!Commit(Window!StartChange([s |-> clock, d |-> d, e |-> None]))
    BY <2>1 DEF Window!StartTap, Window!Tap
  <2> QED BY <2>2, StartsKeep
<1>2. CASE \E d \in Text, t \in Window!Minutes : Window!StartAtTap(d, t)
  BY <1>2, StartAtKeeps
<1>3. CASE \E t \in Todo, d \in Text : Window!StartTodoTap(t, d)
  <2>1. PICK t \in Todo, d \in Text : Window!StartTodoTap(t, d)
    BY <1>3
  <2>2. clock < 5 /\ Window!Commit(Window!StartChange([s |-> clock, d |-> d, e |-> None]))
    BY <2>1 DEF Window!StartTodoTap, Window!Tap
  <2> QED BY <2>2, StartsKeep
<1>4. CASE Window!StopTap
  <2>1. UNCHANGED Window!backend
    BY <1>4 DEF Window!StopTap
  <2> QED BY <2>1, RestKeeps
<1>5. CASE \E d \in Text, t \in Window!PastTimes : Window!AddPastTap(d, t)
  BY <1>5, AddPastKeeps
<1>6. CASE \E x \in (rows \cup {run}) \ {None}, d \in Text :
             \E t \in Window!EditedTimes(x) : Window!EditTap(x, d, t)
  BY <1>6, EditKeeps
<1>7. CASE \E x \in rows : Window!RemoveTap(x)
  BY <1>7, RemovalKeeps
<1>8. CASE Window!UndoTap
  <2>1. clock < 5
    BY <1>8 DEF Window!UndoTap, Window!Tap
  <2> QED BY <1>8, <2>1, UndoMoves
<1>9. CASE Window!RedoTap
  <2>1. clock < 5
    BY <1>9 DEF Window!RedoTap, Window!Tap
  <2> QED BY <1>9, <2>1, RedoMoves
<1>10. CASE \E done \in BOOLEAN, always \in BOOLEAN : Window!AnswerTodo(done, done /\ always)
  <2>1. UNCHANGED Window!backend
    BY <1>10 DEF Window!AnswerTodo
  <2> QED BY <2>1, RestKeeps
<1>11. CASE Window!ToggleAuto
  <2>1. UNCHANGED Window!backend
    BY <1>11 DEF Window!ToggleAuto
  <2> QED BY <2>1, RestKeeps
<1> QED BY <1>1, <1>2, <1>3, <1>4, <1>5, <1>6, <1>7, <1>8, <1>9, <1>10, <1>11 DEF Window!Taps

LEMMA OthersKeep == ASSUME WindowInv, Window!Others PROVE WindowInv'
<1>1. CASE \E d \in Text : Window!TrayStart(d)
  <2>1. PICK d \in Text : Window!TrayStart(d)
    BY <1>1
  <2>2. clock < 5 /\ Window!Commit(Window!StartChange([s |-> clock, d |-> d, e |-> None]))
    BY <2>1 DEF Window!TrayStart, Window!Behind
  <2> QED BY <2>2, StartsKeep
<1>2. CASE \E d \in Text : Window!TimerSynced(d)
  BY <1>2, TimerSyncKeeps
<1>3. CASE \E d \in Text : Window!EntrySynced(d)
  BY <1>3, EntrySyncKeeps
<1>4. CASE Window!TrayStop
  <2>1. clock < 5 /\ Window!Open(log) # {} /\ Window!Commit(Window!StopChange)
    BY <1>4 DEF Window!TrayStop, Window!Behind
  <2> QED BY <2>1, StopKeeps
<1> QED BY <1>1, <1>2, <1>3, <1>4 DEF Window!Others

LEMMA NextWindow == ASSUME WindowInv, Window!Next PROVE WindowInv'
<1>1. CASE Window!StopLands
  <2>1. clock < 5
    BY <1>1 DEF Window!StopLands
  <2>2. CASE Window!Open(log) # {}
    <3>1. Window!Commit(Window!StopChange)
      BY <1>1, <2>2 DEF Window!StopLands
    <3> QED BY <2>1, <2>2, <3>1, StopKeeps
  <2>3. CASE Window!Open(log) = {}
    <3>1. Window!Refused
      BY <1>1, <2>3 DEF Window!StopLands
    <3>2. UNCHANGED <<log, undo, redo, first, alone>> /\ clock' = clock + 1
      BY <3>1 DEF Window!Refused
    <3> QED BY <2>1, <3>2, IdleKeeps
  <2> QED BY <2>2, <2>3
<1>2. CASE Window!Answers
  <2>1. PICK w \in answers : \/ Window!AnswerRefresh(w) \/ Window!AnswerStartTodo(w)
                             \/ Window!AnswerRemoved(w) \/ Window!AnswerKept(w)
    BY <1>2 DEF Window!Answers
  <2>2. UNCHANGED Window!backend
    BY <2>1 DEF Window!AnswerRefresh, Window!AnswerStartTodo, Window!AnswerRemoved,
                Window!AnswerKept
  <2> QED BY <2>2, RestKeeps
<1>3. CASE Window!Refreshing
  <2>1. PICK w \in asks : Window!ReadRunning(w) \/ Window!ReadRows(w) \/ Window!Adopt(w)
    BY <1>3 DEF Window!Refreshing
  <2>2. UNCHANGED Window!backend
    BY <2>1 DEF Window!ReadRunning, Window!ReadRows, Window!Adopt
  <2> QED BY <2>2, RestKeeps
<1>4. CASE Window!RefreshTick
  <2>1. UNCHANGED Window!backend
    BY <1>4 DEF Window!RefreshTick
  <2> QED BY <2>1, RestKeeps
<1> QED BY <1>1, <1>2, <1>3, <1>4, TapsKeep, OthersKeep DEF Window!Next

\* What the machine of the window keeps, where it is the one that moves.
WindowAlways == part = "window" => WindowInv

LEMMA WindowSteps == WindowAlways /\ [DeskNext]_<<part, window, account, figures>> => WindowAlways'
<1> SUFFICES ASSUME WindowAlways, [DeskNext]_<<part, window, account, figures>>, part' = "window"
             PROVE  WindowInv'
  BY DEF WindowAlways
<1>1. part = "window" /\ (Window!Next \/ UNCHANGED window)
  BY DEF DeskNext
<1>2. WindowInv
  BY <1>1 DEF WindowAlways
<1>3. UNCHANGED window => UNCHANGED Window!backend
  BY DEF window, Window!backend
<1> QED BY <1>1, <1>2, <1>3, NextWindow, RestKeeps

\* At an instant one activity starts, none at one still to come, in the log and in every
\* entry of the journal; and while only this application changes the log, every entry to
\* be undone applies in its turn back to the log it began with, and every entry to be
\* redone to where the undoing was (history.go, app.go recordStart).
THEOREM WindowInvariant == DeskSpec => []WindowAlways
<1>1. DeskInit => WindowAlways
  BY InitWindow DEF DeskInit, WindowAlways
<1> QED BY <1>1, WindowSteps, PTL DEF DeskSpec

\* The entries from the newest, one by one.
LEMMA UnwoundIs ==
    /\ Window!Unwound[0] = {log}
    /\ \A n \in Nat \ {0} :
         Window!Unwound[n] =
            Window!After(Window!Unwound[n - 1], Window!Reversed(undo[Len(undo) + 1 - n]))
<1> DEFINE cs == [n \in Nat |-> Window!Reversed(undo[Len(undo) + 1 - n])]
<1> HIDE DEF cs
<1>1. PICK f : Solves(f, {log}, cs)
  BY Recursion
<1>2. f = [n \in Nat |-> IF n = 0 THEN {log}
                         ELSE Window!After(f[n - 1], Window!Reversed(undo[Len(undo) + 1 - n]))]
  BY <1>1 DEF Solves, cs
<1>3. Window!Unwound =
        [n \in Nat |-> IF n = 0 THEN {log}
            ELSE Window!After(Window!Unwound[n - 1], Window!Reversed(undo[Len(undo) + 1 - n]))]
  BY <1>2 DEF Window!Unwound
<1> QED BY <1>3

LEMMA RewoundIs ==
    /\ Window!Rewound[0] = {log}
    /\ \A n \in Nat \ {0} :
         Window!Rewound[n] = Window!After(Window!Rewound[n - 1], redo[Len(redo) + 1 - n])
<1> DEFINE cs == [n \in Nat |-> redo[Len(redo) + 1 - n]]
<1> HIDE DEF cs
<1>1. PICK f : Solves(f, {log}, cs)
  BY Recursion
<1>2. f = [n \in Nat |-> IF n = 0 THEN {log} ELSE Window!After(f[n - 1], redo[Len(redo) + 1 - n])]
  BY <1>1 DEF Solves, cs
<1>3. Window!Rewound =
        [n \in Nat |-> IF n = 0 THEN {log}
                       ELSE Window!After(Window!Rewound[n - 1], redo[Len(redo) + 1 - n])]
  BY <1>2 DEF Window!Rewound
<1> QED BY <1>3

\* A change of one log that it applies to leads to one.
LEMMA AfterOne ==
    ASSUME NEW acts, NEW c, Window!Applies(acts, c)
    PROVE  Window!After({acts}, c) = {Window!Changed(acts, c)}
BY DEF Window!After

LEMMA Unwinding ==
    ASSUME WindowInv, UndoPath PROVE Window!Unwound[Len(undo)] = {first}
<1> DEFINE n == Len(undo)
<1>1. n \in Nat
  BY DEF WindowInv, JournalInv
<1>2. PICK p : /\ p[0] = first /\ p[n] = log
               /\ \A i \in 1..n : /\ Window!Applies(p[i], Window!Reversed(undo[i]))
                                  /\ p[i - 1] = Window!Changed(p[i], Window!Reversed(undo[i]))
  BY DEF UndoPath
<1> DEFINE T == {k \in Nat : k <= n => Window!Unwound[k] = {p[n - k]}}
<1> HIDE DEF n
<1>3. 0 \in T
  BY <1>1, <1>2, UnwoundIs
<1>4. ASSUME NEW k \in Nat, k \in T PROVE k + 1 \in T
  <2> SUFFICES ASSUME k + 1 <= n PROVE Window!Unwound[k + 1] = {p[n - (k + 1)]}
    OBVIOUS
  <2> DEFINE i == n - k
  <2>1. i \in 1..n /\ n + 1 - (k + 1) = i /\ i - 1 = n - (k + 1) /\ (k + 1) - 1 = k /\ k + 1 \in Nat \ {0}
    BY <1>1
  <2>2. Window!Unwound[k] = {p[i]}
    BY <1>1, <1>4
  <2>3. Window!Unwound[k + 1] = Window!After(Window!Unwound[(k + 1) - 1], Window!Reversed(undo[n + 1 - (k + 1)]))
    BY <2>1, UnwoundIs DEF n
  <2> HIDE DEF i
  <2>4. Window!Unwound[k + 1] = Window!After({p[i]}, Window!Reversed(undo[i]))
    BY <2>1, <2>2, <2>3
  <2>5. Window!Applies(p[i], Window!Reversed(undo[i]))
        /\ p[i - 1] = Window!Changed(p[i], Window!Reversed(undo[i]))
    BY <1>2, <2>1
  <2>6. Window!Unwound[k + 1] = {Window!Changed(p[i], Window!Reversed(undo[i]))}
    BY <2>4, <2>5, AfterOne
  <2> QED BY <2>1, <2>5, <2>6
<1>5. n \in T
  <2> HIDE DEF T
  <2> QED BY <1>1, <1>3, <1>4, AllOf
<1>6. Window!Unwound[n] = {p[n - n]} /\ n - n = 0
  BY <1>1, <1>5
<1> QED BY <1>2, <1>6 DEF n

LEMMA Rewinding ==
    ASSUME WindowInv, RedoPath PROVE Window!Rewound[Len(redo)] # {}
<1> DEFINE n == Len(redo)
<1>1. n \in Nat
  BY DEF WindowInv, JournalInv
<1>2. PICK p : /\ p[n] = log
               /\ \A i \in 1..n : /\ Window!Applies(p[i], redo[i])
                                  /\ p[i - 1] = Window!Changed(p[i], redo[i])
  BY DEF RedoPath
<1> DEFINE T == {k \in Nat : k <= n => Window!Rewound[k] = {p[n - k]}}
<1> HIDE DEF n
<1>3. 0 \in T
  BY <1>1, <1>2, RewoundIs
<1>4. ASSUME NEW k \in Nat, k \in T PROVE k + 1 \in T
  <2> SUFFICES ASSUME k + 1 <= n PROVE Window!Rewound[k + 1] = {p[n - (k + 1)]}
    OBVIOUS
  <2> DEFINE i == n - k
  <2>1. i \in 1..n /\ n + 1 - (k + 1) = i /\ i - 1 = n - (k + 1) /\ (k + 1) - 1 = k /\ k + 1 \in Nat \ {0}
    BY <1>1
  <2>2. Window!Rewound[k] = {p[i]}
    BY <1>1, <1>4
  <2>3. Window!Rewound[k + 1] = Window!After(Window!Rewound[(k + 1) - 1], redo[n + 1 - (k + 1)])
    BY <2>1, RewoundIs DEF n
  <2> HIDE DEF i
  <2>4. Window!Rewound[k + 1] = Window!After({p[i]}, redo[i])
    BY <2>1, <2>2, <2>3
  <2>5. Window!Applies(p[i], redo[i]) /\ p[i - 1] = Window!Changed(p[i], redo[i])
    BY <1>2, <2>1
  <2>6. Window!Rewound[k + 1] = {Window!Changed(p[i], redo[i])}
    BY <2>4, <2>5, AfterOne
  <2> QED BY <2>1, <2>5, <2>6
<1>5. n \in T
  <2> HIDE DEF T
  <2> QED BY <1>1, <1>3, <1>4, AllOf
<1> QED BY <1>1, <1>5 DEF n

\* As long as only this application changes its log, undoing everything leads back to the
\* log it began with and all that was undone can be redone (history.go, app.go
\* recordStart).
THEOREM UndoingLeadsBack == DeskSpec => []UndoLeadsBack
<1>1. WindowAlways => UndoLeadsBack
  BY Unwinding, Rewinding DEF WindowAlways, WindowInv, UndoLeadsBack, Window!UndoLeadsBack
<1> QED BY <1>1, WindowInvariant, PTL
-----------------------------------------------------------------------------
(* The types of the desktop window *)

\* The runs kept so far, of the first so many of a list.
Along(kept, x, starts) == IF x.s \in starts THEN kept ELSE Append(kept, x)
Kept(g, list, starts, n) ==
    g = [k \in 0..n |-> IF k = 0 THEN <<>> ELSE Along(g[k - 1], list[k], starts)]

LEMMA KeptOne ==
    ASSUME NEW list, NEW starts, NEW n \in Nat, NEW g, Kept(g, list, starts, n)
    PROVE  /\ g[0] = <<>>
           /\ \A k \in 1..n : g[k] = Along(g[k - 1], list[k], starts)
BY DEF Kept

LEMMA KeptExists ==
    ASSUME NEW list, NEW starts
    PROVE  \A n \in Nat : \E g : Kept(g, list, starts, n)
<1> DEFINE T == {n \in Nat : \E g : Kept(g, list, starts, n)}
           Then(r, k) == Along(r, list[k], starts)
<1>1. 0 \in T
  <2> DEFINE g == [k \in 0..0 |-> <<>>]
  <2>1. g = [k \in 0..0 |-> IF k = 0 THEN <<>> ELSE Then(g[k - 1], k)]
    <3> HIDE DEF Then
    <3> QED OBVIOUS
  <2>2. Kept(g, list, starts, 0)
    <3> HIDE DEF g
    <3> QED BY <2>1 DEF Kept
  <2> HIDE DEF g
  <2> QED BY <2>2
<1>2. ASSUME NEW n \in Nat, n \in T PROVE n + 1 \in T
  <2>1. PICK g : Kept(g, list, starts, n)
    BY <1>2
  <2>2. g[0] = <<>> /\ \A k \in 1..n : g[k] = Then(g[k - 1], k)
    BY <2>1, KeptOne
  <2> DEFINE h == [k \in 0..(n + 1) |-> IF k <= n THEN g[k] ELSE Then(g[n], n + 1)]
             F(k) == IF k = 0 THEN <<>> ELSE Then(h[k - 1], k)
  <2>3. ASSUME NEW k \in 0..(n + 1) PROVE h[k] = F(k)
    <3> HIDE DEF Then
    <3>1. CASE k = 0
      BY <2>2, <3>1
    <3>2. CASE k \in 1..n
      <4>1. k - 1 \in 0..n /\ h[k - 1] = g[k - 1] /\ h[k] = g[k]
        BY <3>2
      <4>2. g[k] = Then(g[k - 1], k)
        BY <2>2, <3>2
      <4> QED BY <3>2, <4>1, <4>2
    <3>3. CASE k = n + 1
      <4>1. h[n] = g[n] /\ h[k] = Then(g[n], n + 1)
        BY <3>3
      <4> QED BY <3>3, <4>1
    <3> QED BY <3>1, <3>2, <3>3
  <2>4. h = [k \in 0..(n + 1) |-> h[k]]
    <3> HIDE DEF Then
    <3> QED OBVIOUS
  <2>5. h = [k \in 0..(n + 1) |-> F(k)]
    <3> HIDE DEF h
    <3> HIDE DEF F
    <3> QED BY <2>3, <2>4
  <2>6. Kept(h, list, starts, n + 1)
    <3> HIDE DEF h
    <3> QED BY <2>5 DEF Kept
  <2> HIDE DEF h
  <2> QED BY <2>6
<1> HIDE DEF T
<1>3. Nat \subseteq T
  BY <1>1, <1>2, AllOf
<1> QED BY <1>3 DEF T

\* What is kept of a list of runs is one.
LEMMA WithoutTyped ==
    ASSUME NEW list \in Seq(Window!Run), NEW starts
    PROVE  Window!Without(list, starts) \in Seq(Window!Run)
<1> DEFINE n == Len(list)
           kept == CHOOSE g : Kept(g, list, starts, n)
           T == {k \in Nat : k <= n => kept[k] \in Seq(Window!Run)}
<1>1. n \in Nat /\ \A k \in 1..n : list[k] \in Window!Run
  OBVIOUS
<1>2. Window!Without(list, starts) = kept[n]
  BY DEF Window!Without, Kept, Along
<1> HIDE DEF n
<1>3. Kept(kept, list, starts, n)
  BY <1>1, KeptExists
<1> HIDE DEF kept
<1>4. kept[0] = <<>> /\ \A k \in 1..n : kept[k] = Along(kept[k - 1], list[k], starts)
  BY <1>1, <1>3, KeptOne
<1>5. 0 \in T
  <2>1. <<>> \in Seq(Window!Run)
    OBVIOUS
  <2> QED BY <1>4, <2>1
<1>6. ASSUME NEW k \in Nat, k \in T PROVE k + 1 \in T
  <2> SUFFICES ASSUME k + 1 <= n PROVE kept[k + 1] \in Seq(Window!Run)
    OBVIOUS
  <2>1. k + 1 \in 1..n /\ (k + 1) - 1 = k
    BY <1>1
  <2>2. kept[k] \in Seq(Window!Run)
    BY <1>1, <1>6
  <2>3. \/ kept[k + 1] = kept[k]
        \/ kept[k + 1] = Append(kept[k], list[k + 1])
    BY <1>4, <2>1 DEF Along
  <2>4. list[k + 1] \in Window!Run
    BY <1>1, <2>1
  <2> QED BY <2>2, <2>3, <2>4, AppendProperties
<1> HIDE DEF T
<1>7. n \in T
  BY <1>1, <1>5, <1>6, AllOf
<1> QED BY <1>1, <1>2, <1>7 DEF T

\* What the window shows.
ShownTyped ==
    /\ run \in Window!Activity \cup {None} /\ loaded \in BOOLEAN
    /\ rows \subseteq Window!Activity /\ hidden \subseteq Window!Instant
    /\ auto \in BOOLEAN /\ stopping \in BOOLEAN

\* The answer to the start of a to-do says which to-do it is, and when it started.
AnswersTyped ==
    /\ answers \subseteq Window!Answer
    /\ \A w \in answers : w.kind = "todo" => w.s \in Window!Instant /\ w.id \in Todo

RunsTyped == runs \in Seq(Window!Run) /\ finishing \in Window!Run \cup {None}

Acts == [Todo -> Window!Instant \cup {None}]

WindowTyped ==
    /\ ShownTyped /\ AnswersTyped /\ RunsTyped
    /\ asks \subseteq Window!Ask /\ stops \in Nat /\ act \in Acts

LEMMA WindowTypes == WindowInv /\ WindowTyped => Window!TypeOK
BY DEF WindowInv, JournalInv, OneEach, WindowTyped, ShownTyped, AnswersTyped, RunsTyped, Acts,
       Window!TypeOK, Window!Instant

LEMMA InitWindowTyped == ASSUME Window!Init PROVE WindowTyped
<1>1. /\ run = None /\ loaded = FALSE /\ rows = {} /\ hidden = {} /\ answers = {}
      /\ asks = {[run |-> Unread, rows |-> Unread]}
      /\ finishing = None /\ auto \in BOOLEAN /\ stopping = FALSE /\ stops = 0
      /\ runs = <<>> /\ act = [t \in Todo |-> None]
  BY DEF Window!Init
<1>2. asks \subseteq Window!Ask
  BY <1>1 DEF Window!Ask
<1>3. runs \in Seq(Window!Run)
  BY <1>1
<1>4. act \in Acts
  BY <1>1 DEF Acts
<1> QED BY <1>1, <1>2, <1>3, <1>4 DEF WindowTyped, ShownTyped, AnswersTyped, RunsTyped

\* A refresh asked for, and what it has read.
LEMMA RefreshTyped ==
    ASSUME asks \subseteq Window!Ask, Window!Refresh PROVE asks' \subseteq Window!Ask
BY DEF Window!Refresh, Window!Ask

\* A tap's answer says what a tap of its kind needs.
LEMMA TapTyped ==
    ASSUME WindowTyped, NEW kind, NEW s, NEW id, Window!Tap(kind, s, id),
           \/ kind \in {"refresh", "removed", "kept"} /\ s \in Window!Instant \cup {None} /\ id = None
           \/ kind = "todo" /\ s \in Window!Instant /\ id \in Todo
    PROVE  AnswersTyped'
<1> DEFINE w == [kind |-> kind, s |-> s, id |-> id]
<1>1. answers' = answers \cup {w}
  BY DEF Window!Tap
<1>2. w \in Window!Answer /\ w.kind = kind /\ w.s = s /\ w.id = id
  BY DEF Window!Answer
<1> HIDE DEF w
<1> QED BY <1>1, <1>2 DEF WindowTyped, AnswersTyped

\* A command leaves what the window shows as it is until it is answered.
LEMMA CommandTyped ==
    ASSUME WindowTyped, AnswersTyped', act' \in Acts, stops' \in Nat,
           UNCHANGED <<Window!shown, asks, runs>>
    PROVE  WindowTyped'
<1>1. UNCHANGED <<run, loaded, rows, hidden, finishing, auto, stopping, asks, runs>>
  BY DEF Window!shown
<1> QED BY <1>1 DEF WindowTyped, ShownTyped, RunsTyped

LEMMA FollowedTyped ==
    ASSUME WindowTyped, NEW from, NEW to \in Window!Instant \cup {None}
    PROVE  Window!Followed(from, to) \in Acts
BY DEF WindowTyped, Acts, Window!Followed

\* What the effect about finished to-dos leaves.
LEMMA FinishTyped ==
    ASSUME NEW r, NEW known, NEW asked \in Window!Run \cup {None}, NEW ticks,
           NEW list \in Seq(Window!Run), Window!FinishTodos(r, known, asked, ticks, list)
    PROVE  RunsTyped'
<1> DEFINE over == Window!Finished(r, list)
           kept == Window!Without(list, Window!Instant \ Window!Shown(r))
<1>1. over \in Seq(Window!Run) /\ kept \in Seq(Window!Run)
  BY WithoutTyped DEF Window!Finished
<1>2. \/ finishing' = asked /\ runs' = list
      \/ finishing' = None /\ runs' = kept
      \/ over # <<>> /\ finishing' = over[1] /\ runs' = list
  BY DEF Window!FinishTodos
<1> HIDE DEF over, kept
<1>3. over # <<>> => over[1] \in Window!Run
  BY <1>1
<1> QED BY <1>1, <1>2, <1>3 DEF RunsTyped

LEMMA KeepTyped ==
    ASSUME NEW prev, NEW next, prev \subseteq Window!Activity, next \subseteq Window!Activity
    PROVE  Window!KeepUnchanged(prev, next) \subseteq Window!Activity
<1> DEFINE Old(x) == {o \in prev : o.s = x.s /\ Window!SameActivity(o, x)}
           F(x) == IF Old(x) = {} THEN x ELSE CHOOSE o \in Old(x) : TRUE
<1>1. Window!KeepUnchanged(prev, next) = {F(x) : x \in next}
  BY DEF Window!KeepUnchanged
<1>2. ASSUME NEW x \in next PROVE F(x) \in Window!Activity
  <2>1. Old(x) \subseteq Window!Activity
    OBVIOUS
  <2> HIDE DEF Old
  <2> QED BY <2>1
<1> HIDE DEF F
<1> QED BY <1>1, <1>2

\* The commands that are answered with a refresh.
LEMMA RefreshedTyped ==
    ASSUME WindowTyped, Window!Tap("refresh", None, None), act' \in Acts, UNCHANGED stops,
           UNCHANGED <<Window!shown, asks, runs>>
    PROVE  WindowTyped'
<1>1. AnswersTyped'
  BY TapTyped
<1>2. stops' \in Nat
  BY DEF WindowTyped
<1> QED BY <1>1, <1>2, CommandTyped

LEMMA TapsTyped ==
    ASSUME WindowInv, WindowTyped,
           \/ \E d \in Text : Window!StartTap(d)
           \/ \E d \in Text, t \in Window!Minutes : Window!StartAtTap(d, t)
           \/ \E d \in Text, t \in Window!PastTimes : Window!AddPastTap(d, t)
           \/ \E x \in (rows \cup {run}) \ {None}, d \in Text :
                \E t \in Window!EditedTimes(x) : Window!EditTap(x, d, t)
           \/ Window!UndoTap \/ Window!RedoTap
    PROVE  WindowTyped'
<1>1. act \in Acts
  BY DEF WindowTyped
<1>2. CASE \E d \in Text : Window!StartTap(d)
  BY <1>1, <1>2, RefreshedTyped DEF Window!StartTap
<1>3. CASE \E d \in Text, t \in Window!Minutes : Window!StartAtTap(d, t)
  BY <1>1, <1>3, RefreshedTyped DEF Window!StartAtTap, Window!Refused
<1>4. CASE \E d \in Text, t \in Window!PastTimes : Window!AddPastTap(d, t)
  BY <1>1, <1>4, RefreshedTyped DEF Window!AddPastTap, Window!Refused
<1>5. CASE \E x \in (rows \cup {run}) \ {None}, d \in Text :
             \E t \in Window!EditedTimes(x) : Window!EditTap(x, d, t)
  <2>1. PICK x \in (rows \cup {run}) \ {None}, d \in Text :
             \E t \in Window!EditedTimes(x) : Window!EditTap(x, d, t)
    BY <1>5
  <2>2. PICK t \in Window!EditedTimes(x) : Window!EditTap(x, d, t)
    BY <2>1
  <2>3. t[1] \in Window!Instant
    BY DEF Window!EditedTimes, Window!Minutes
  <2>4. act' = act \/ act' = Window!Followed(x.s, t[1])
    BY <2>2 DEF Window!EditTap, Window!Refused
  <2>5. act' \in Acts
    BY <1>1, <2>3, <2>4, FollowedTyped
  <2>6. /\ Window!Tap("refresh", None, None)
        /\ UNCHANGED stops /\ UNCHANGED <<Window!shown, asks, runs>>
    BY <2>2 DEF Window!EditTap
  <2> QED BY <2>5, <2>6, RefreshedTyped
<1>6. CASE Window!UndoTap
  BY <1>1, <1>6, RefreshedTyped DEF Window!UndoTap, Window!Refused
<1>7. CASE Window!RedoTap
  BY <1>1, <1>7, RefreshedTyped DEF Window!RedoTap, Window!Refused
<1> QED BY <1>2, <1>3, <1>4, <1>5, <1>6, <1>7

LEMMA StartTodoTyped ==
    ASSUME WindowInv, WindowTyped, NEW t \in Todo, NEW d \in Text, Window!StartTodoTap(t, d)
    PROVE  WindowTyped'
<1>1. clock \in Window!Instant
  BY DEF WindowInv, JournalInv, Window!Instant
<1>2. act' \in Acts
  BY <1>1 DEF WindowTyped, Acts, Window!StartTodoTap
<1>3. Window!Tap("todo", clock, t) /\ UNCHANGED stops /\ UNCHANGED <<Window!shown, asks, runs>>
  BY DEF Window!StartTodoTap
<1>4. AnswersTyped'
  BY <1>1, <1>3, TapTyped
<1>5. stops' \in Nat
  BY <1>3 DEF WindowTyped
<1> QED BY <1>2, <1>3, <1>4, <1>5, CommandTyped

LEMMA RemoveTyped ==
    ASSUME WindowTyped, NEW x \in rows, Window!RemoveTap(x) PROVE WindowTyped'
<1>1. x.s \in Window!Instant
  BY DEF WindowTyped, ShownTyped, Window!Activity
<1>2. /\ hidden' = hidden \cup {x.s} /\ runs' = Window!Without(runs, {x.s})
      /\ UNCHANGED <<run, loaded, rows, finishing, auto, stopping, asks, stops>>
      /\ \/ Window!Tap("removed", x.s, None) /\ act' = Window!Followed(x.s, None)
         \/ Window!Tap("kept", x.s, None) /\ act' = act
  BY DEF Window!RemoveTap, Window!Refused
<1>3. AnswersTyped'
  BY <1>1, <1>2, TapTyped
<1>4. act' \in Acts
  BY <1>2, FollowedTyped DEF WindowTyped
<1>5. RunsTyped'
  BY <1>2, WithoutTyped DEF WindowTyped, RunsTyped
<1>6. ShownTyped'
  BY <1>1, <1>2 DEF WindowTyped, ShownTyped
<1> QED BY <1>2, <1>3, <1>4, <1>5, <1>6 DEF WindowTyped

LEMMA StopTyped ==
    ASSUME WindowTyped, Window!StopTap \/ Window!StopLands PROVE WindowTyped'
<1>1. CASE Window!StopTap
  BY <1>1 DEF Window!StopTap, Window!backend, WindowTyped, ShownTyped, AnswersTyped, RunsTyped
<1>2. CASE Window!StopLands
  <2> DEFINE w == [kind |-> "refresh", s |-> None, id |-> None]
  <2>1. /\ answers' = answers \cup {w} /\ stops > 0 /\ stops' = stops - 1 /\ act' = act
        /\ UNCHANGED <<Window!shown, asks, runs>>
    BY <1>2 DEF Window!StopLands, Window!Refused
  <2>2. w \in Window!Answer /\ w.kind = "refresh"
    BY DEF Window!Answer
  <2> HIDE DEF w
  <2>3. AnswersTyped'
    BY <2>1, <2>2 DEF WindowTyped, AnswersTyped
  <2>4. stops' \in Nat /\ act' \in Acts
    BY <2>1 DEF WindowTyped
  <2> QED BY <2>1, <2>3, <2>4, CommandTyped
<1> QED BY <1>1, <1>2

\* The dialog about a to-do and its setting.
LEMMA TodosTyped ==
    ASSUME WindowTyped, Window!ToggleAuto \/ \E done, always \in BOOLEAN : Window!AnswerTodo(done, always)
    PROVE  WindowTyped'
<1>1. CASE Window!ToggleAuto
  <2>1. /\ Window!FinishTodos(run, loaded, finishing, auto', runs) /\ auto' = ~auto
        /\ UNCHANGED <<Window!backend, run, loaded, rows, hidden, stopping, asks, answers, stops>>
    BY <1>1 DEF Window!ToggleAuto
  <2>2. RunsTyped'
    BY <2>1, FinishTyped DEF WindowTyped, RunsTyped
  <2>3. ShownTyped'
    BY <2>1 DEF WindowTyped, ShownTyped
  <2> QED BY <2>1, <2>2, <2>3 DEF WindowTyped, AnswersTyped, Window!backend
<1>2. ASSUME NEW done \in BOOLEAN, NEW always \in BOOLEAN, Window!AnswerTodo(done, always)
      PROVE  WindowTyped'
  <2> DEFINE list == Window!Without(runs, {finishing.s})
  <2>1. /\ Window!FinishTodos(run, loaded, None, auto', list)
        /\ auto' = (auto \/ always)
        /\ UNCHANGED <<Window!backend, run, loaded, rows, hidden, stopping, asks, answers, stops>>
    BY <1>2 DEF Window!AnswerTodo
  <2>2. list \in Seq(Window!Run)
    BY WithoutTyped DEF WindowTyped, RunsTyped
  <2> HIDE DEF list
  <2>3. RunsTyped'
    BY <2>1, <2>2, FinishTyped
  <2>4. auto' \in BOOLEAN
    BY <2>1
  <2>5. ShownTyped'
    BY <2>1, <2>4 DEF WindowTyped, ShownTyped
  <2> QED BY <2>1, <2>3, <2>5 DEF WindowTyped, AnswersTyped, Window!backend
<1> QED BY <1>1, <1>2

LEMMA AnswerTyped ==
    ASSUME WindowTyped, NEW w \in answers,
           \/ Window!AnswerRefresh(w) \/ Window!AnswerStartTodo(w)
           \/ Window!AnswerRemoved(w) \/ Window!AnswerKept(w)
    PROVE  WindowTyped'
<1>1. answers' \subseteq answers
  BY DEF Window!AnswerRefresh, Window!AnswerStartTodo, Window!AnswerRemoved, Window!AnswerKept
<1>2. AnswersTyped'
  BY <1>1 DEF WindowTyped, AnswersTyped
<1>3. act' = act /\ stops' = stops
  BY DEF Window!AnswerRefresh, Window!AnswerStartTodo, Window!AnswerRemoved, Window!AnswerKept,
         Window!backend
<1>4. Window!Refresh => asks' \subseteq Window!Ask
  BY RefreshTyped DEF WindowTyped
<1>5. CASE Window!AnswerRefresh(w)
  BY <1>2, <1>3, <1>4, <1>5, CommandTyped DEF Window!AnswerRefresh, Window!shown, WindowTyped,
     ShownTyped, RunsTyped
<1>6. CASE Window!AnswerStartTodo(w)
  <2> DEFINE x == [s |-> w.s, id |-> w.id]
  <2>1. x \in Window!Run
    BY <1>6 DEF Window!AnswerStartTodo, Window!Run, WindowTyped, AnswersTyped
  <2>2. runs' = Append(runs, x) /\ Window!Refresh /\ UNCHANGED Window!shown
    BY <1>6 DEF Window!AnswerStartTodo
  <2> HIDE DEF x
  <2>3. runs \in Seq(Window!Run)
    BY DEF WindowTyped, RunsTyped
  <2>4. runs' \in Seq(Window!Run)
    BY <2>1, <2>2, <2>3, AppendProperties
  <2> QED BY <1>2, <1>3, <1>4, <2>2, <2>4 DEF Window!shown, WindowTyped, ShownTyped, RunsTyped
<1>7. CASE Window!AnswerRemoved(w)
  <2>1. /\ rows' = {x \in rows : x.s # w.s} /\ hidden' = hidden \ {w.s}
        /\ UNCHANGED <<loaded, auto, asks>>
        /\ \/ /\ run' = None /\ stopping' = FALSE
              /\ Window!FinishTodos(None, loaded, finishing, auto, runs)
           \/ UNCHANGED <<run, stopping, finishing, runs>>
    BY <1>7 DEF Window!AnswerRemoved
  <2>2. RunsTyped'
    BY <2>1, FinishTyped DEF WindowTyped, RunsTyped
  <2>3. ShownTyped'
    BY <2>1 DEF WindowTyped, ShownTyped
  <2> QED BY <1>2, <1>3, <2>1, <2>2, <2>3 DEF WindowTyped
<1>8. CASE Window!AnswerKept(w)
  <2>1. /\ hidden' = hidden \ {w.s} /\ Window!Refresh
        /\ UNCHANGED <<run, loaded, rows, finishing, auto, stopping, runs>>
    BY <1>8 DEF Window!AnswerKept
  <2>2. ShownTyped'
    BY <2>1 DEF WindowTyped, ShownTyped
  <2> QED BY <1>2, <1>3, <1>4, <2>1, <2>2 DEF WindowTyped, RunsTyped
<1> QED BY <1>5, <1>6, <1>7, <1>8

\* What is read of the log is typed as the log is, and so is what the window adopts.
LEMMA RefreshingTyped ==
    ASSUME WindowInv, WindowTyped, NEW a \in asks,
           Window!ReadRunning(a) \/ Window!ReadRows(a) \/ Window!Adopt(a)
    PROVE  WindowTyped'
<1>1. a \in Window!Ask /\ asks \subseteq Window!Ask /\ log \subseteq Window!Activity
  BY DEF WindowTyped, WindowInv, JournalInv
<1>2. CASE Window!ReadRunning(a)
  <2> DEFINE now0 == Window!Latest(Window!Open(log))
  <2>1. now0 \in Window!Activity \cup {None}
    <3>1. Window!Open(log) \subseteq Window!Activity
      BY <1>1 DEF Window!Open
    <3>2. CASE Window!Open(log) = {}
      BY <3>2 DEF Window!Latest
    <3>3. CASE Window!Open(log) # {}
      BY <3>1, <3>3, LatestOf
    <3> QED BY <3>2, <3>3
  <2>2. asks' = (asks \ {a}) \cup {[a EXCEPT !.run = now0]}
    BY <1>2 DEF Window!ReadRunning
  <2> HIDE DEF now0
  <2>3. [a EXCEPT !.run = now0] \in Window!Ask
    BY <1>1, <2>1 DEF Window!Ask
  <2>4. asks' \subseteq Window!Ask
    BY <1>1, <2>2, <2>3
  <2> QED BY <1>2, <2>4 DEF Window!ReadRunning, Window!shown, Window!backend, WindowTyped,
          ShownTyped, AnswersTyped, RunsTyped
<1>3. CASE Window!ReadRows(a)
  <2>1. asks' = (asks \ {a}) \cup {[a EXCEPT !.rows = log]}
    BY <1>3 DEF Window!ReadRows
  <2>2. [a EXCEPT !.rows = log] \in Window!Ask
    BY <1>1 DEF Window!Ask
  <2>3. asks' \subseteq Window!Ask
    BY <1>1, <2>1, <2>2
  <2> QED BY <1>3, <2>3 DEF Window!ReadRows, Window!shown, Window!backend, WindowTyped,
          ShownTyped, AnswersTyped, RunsTyped
<1>4. CASE Window!Adopt(a)
  <2> DEFINE next == IF a.run # None /\ a.run.s \in hidden THEN None ELSE a.run
             r == IF run # None /\ next # None /\ Window!SameActivity(run, next) THEN run ELSE next
  <2>1. /\ a.run # Unread /\ a.rows # Unread
        /\ run' = r
        /\ \/ UNCHANGED <<finishing, runs>>
           \/ Window!FinishTodos(r, TRUE, finishing, auto, runs)
        /\ stopping' = (stopping /\ r # None)
        /\ loaded' = TRUE /\ asks' = asks \ {a}
        /\ rows' = Window!KeepUnchanged(rows, Window!WithoutHidden(a.rows))
        /\ UNCHANGED <<Window!backend, hidden, auto, answers, stops>>
    BY <1>4 DEF Window!Adopt
  <2>2. a.run \in Window!Activity \cup {None} /\ a.rows \subseteq Window!Activity
    BY <1>1, <2>1 DEF Window!Ask
  <2>3. r \in Window!Activity \cup {None}
    BY <2>2 DEF WindowTyped, ShownTyped
  <2> HIDE DEF r
  <2>4. rows' \subseteq Window!Activity
    <3>1. Window!WithoutHidden(a.rows) \subseteq Window!Activity
      BY <2>2 DEF Window!WithoutHidden
    <3> QED BY <2>1, <3>1, KeepTyped DEF WindowTyped, ShownTyped
  <2>5. RunsTyped'
    BY <2>1, FinishTyped DEF WindowTyped, RunsTyped
  <2>6. ShownTyped'
    BY <2>1, <2>3, <2>4 DEF WindowTyped, ShownTyped
  <2> QED BY <2>1, <2>5, <2>6 DEF WindowTyped, AnswersTyped, Window!backend
<1> QED BY <1>2, <1>3, <1>4

\* The menu bar and the syncs ask for a refresh, or leave the window alone.
LEMMA OthersTyped == ASSUME WindowTyped, Window!Others PROVE WindowTyped'
<1>1. /\ act' = act /\ UNCHANGED <<Window!shown, answers, runs, stops>>
      /\ Window!Refresh \/ asks' = asks
  BY DEF Window!Others, Window!TrayStart, Window!TimerSynced, Window!EntrySynced, Window!TrayStop
<1>2. asks' \subseteq Window!Ask
  BY <1>1, RefreshTyped DEF WindowTyped
<1> QED BY <1>1, <1>2 DEF Window!shown, WindowTyped, ShownTyped, AnswersTyped, RunsTyped

LEMMA NextWindowTyped ==
    ASSUME WindowInv, WindowTyped, Window!Next PROVE WindowTyped'
<1>1. CASE Window!Taps
  BY <1>1, TapsTyped, StartTodoTyped, RemoveTyped, StopTyped, TodosTyped DEF Window!Taps
<1>2. CASE Window!StopLands
  BY <1>2, StopTyped
<1>3. CASE Window!Answers
  BY <1>3, AnswerTyped DEF Window!Answers
<1>4. CASE Window!Refreshing
  BY <1>4, RefreshingTyped DEF Window!Refreshing
<1>5. CASE Window!RefreshTick
  <2>1. asks' \subseteq Window!Ask
    BY <1>5, RefreshTyped DEF Window!RefreshTick, WindowTyped
  <2> QED BY <1>5, <2>1 DEF Window!RefreshTick, Window!shown, Window!backend, WindowTyped,
          ShownTyped, AnswersTyped, RunsTyped
<1> QED BY <1>1, <1>2, <1>3, <1>4, <1>5, OthersTyped DEF Window!Next

-----------------------------------------------------------------------------
(* The types of the figures, and of the three machines *)

\* What is logged and what runs, all of it counted.
FiguresTyped ==
    /\ now \in Figures!Time
    /\ logged \subseteq [task : Work, start : Figures!Time, end : Figures!Time]
    /\ running \subseteq [task : Work, start : Figures!Time]
    /\ IsFiniteSet(logged) /\ Cardinality(logged) + Cardinality(running) <= 3
    /\ running = {} \/ \E r : running = {r}

\* The machine of the figures counts as this module does.
LEMMA Counted == \A S : Figures!Cardinality(S) = Cardinality(S)
BY DEF Figures!Cardinality, Cardinality

LEMMA Apart ==
    ASSUME FiguresTyped
    PROVE  /\ IsFiniteSet(running) /\ Cardinality(running) \in 0..1
           /\ IsFiniteSet(logged) /\ Cardinality(logged) \in Nat
           /\ Cardinality(logged \cup running) = Cardinality(logged) + Cardinality(running)
<1>1. running \cap logged = {}
  <2> SUFFICES ASSUME NEW x \in running, x \in logged PROVE FALSE
    OBVIOUS
  <2>1. DOMAIN x = {"task", "start"} /\ DOMAIN x = {"task", "start", "end"}
    BY DEF FiguresTyped
  <2> QED BY <2>1
<1>2. IsFiniteSet(running) /\ Cardinality(running) \in 0..1
  <2>1. CASE running = {}
    BY <2>1, FS_EmptySet
  <2>2. ASSUME NEW r, running = {r} PROVE IsFiniteSet(running) /\ Cardinality(running) \in 0..1
    <3>1. IsFiniteSet({r}) /\ Cardinality({r}) = 1
      BY FS_Singleton
    <3> QED BY <2>2, <3>1
  <2> QED BY <2>1, <2>2 DEF FiguresTyped
<1>3. IsFiniteSet(logged) /\ Cardinality(logged) \in Nat
  BY FS_CardinalityType DEF FiguresTyped
<1>4. Cardinality(logged \cup running)
        = Cardinality(logged) + Cardinality(running) - Cardinality(logged \cap running)
  BY <1>2, <1>3, FS_Union
<1>5. Cardinality(logged \cap running) = 0
  BY <1>1, FS_EmptySet
<1> QED BY <1>2, <1>3, <1>4, <1>5

LEMMA FiguresTypes == FiguresTyped => Figures!TypeOK
<1> SUFFICES ASSUME FiguresTyped PROVE Figures!TypeOK
  OBVIOUS
<1>1. Cardinality(logged \cup running) <= 3 /\ Cardinality(running) <= 1
  <2>1. /\ Cardinality(running) \in 0..1
        /\ Cardinality(logged \cup running) = Cardinality(logged) + Cardinality(running)
    BY Apart
  <2>2. Cardinality(logged) + Cardinality(running) <= 3
    BY DEF FiguresTyped
  <2> QED BY <2>1, <2>2
<1> QED BY <1>1, Counted DEF FiguresTyped, Figures!TypeOK

LEMMA InitFiguresTyped == ASSUME Figures!Init PROVE FiguresTyped
<1>1. now = 0 /\ logged = {} /\ running = {}
  BY DEF Figures!Init
<1>2. now \in Figures!Time
  BY <1>1 DEF Figures!Time, Figures!Day
<1> QED BY <1>1, <1>2, FS_EmptySet DEF FiguresTyped

\* What is ended was running, and counts as it did.
LEMMA EndedTyped ==
    ASSUME FiguresTyped, logged' = logged \cup Figures!Ended
    PROVE  /\ logged' \subseteq [task : Work, start : Figures!Time, end : Figures!Time]
           /\ IsFiniteSet(logged') /\ Cardinality(logged') \in Nat
           /\ Cardinality(logged') <= Cardinality(logged) + Cardinality(running)
<1>1. CASE running = {}
  <2>1. Figures!Ended = {}
    BY <1>1 DEF Figures!Ended
  <2> QED BY <1>1, <2>1, Apart DEF FiguresTyped
<1>2. CASE \E r : running = {r}
  <2>1. PICK r : running = {r}
    BY <1>2
  <2> DEFINE x == [task |-> r.task, start |-> r.start, end |-> now]
  <2>2. Figures!Ended = {x}
    BY <2>1 DEF Figures!Ended
  <2>3. x \in [task : Work, start : Figures!Time, end : Figures!Time]
    BY <2>1 DEF FiguresTyped
  <2> HIDE DEF x
  <2>4. /\ IsFiniteSet(logged \cup {x})
        /\ \/ Cardinality(logged \cup {x}) = Cardinality(logged)
           \/ Cardinality(logged \cup {x}) = Cardinality(logged) + 1
    BY Apart, FS_AddElement
  <2>5. Cardinality(running) = 1
    BY <2>1, FS_Singleton
  <2>6. logged' = logged \cup {x} /\ Cardinality(logged) \in Nat
    BY <2>2, Apart
  <2>7. logged' \subseteq [task : Work, start : Figures!Time, end : Figures!Time]
    BY <2>3, <2>6 DEF FiguresTyped
  <2>8. Cardinality(logged') \in Nat /\ Cardinality(logged') <= Cardinality(logged) + 1
    <3>1. Cardinality(logged') = Cardinality(logged \cup {x})
      BY <2>6
    <3> QED BY <2>4, <2>6, <3>1
  <2> QED BY <2>4, <2>5, <2>6, <2>7, <2>8
<1> QED BY <1>1, <1>2 DEF FiguresTyped

LEMMA NextFiguresTyped == ASSUME FiguresTyped, Figures!Next PROVE FiguresTyped'
<1>1. CASE Figures!Pass
  BY <1>1 DEF Figures!Pass, FiguresTyped
<1>2. CASE Figures!Stop
  <2>1. logged' = logged \cup Figures!Ended /\ running' = {} /\ now' = now
    BY <1>2 DEF Figures!Stop
  <2>2. Cardinality(running') = 0
    BY <2>1, FS_EmptySet
  <2>3. /\ logged' \subseteq [task : Work, start : Figures!Time, end : Figures!Time]
        /\ IsFiniteSet(logged') /\ Cardinality(logged') \in Nat
        /\ Cardinality(logged') <= Cardinality(logged) + Cardinality(running)
    BY <2>1, EndedTyped
  <2>4. Cardinality(logged') + Cardinality(running') <= 3
    <3>1. /\ Cardinality(logged) \in Nat /\ Cardinality(running) \in 0..1
          /\ Cardinality(logged) + Cardinality(running) <= 3
      BY Apart DEF FiguresTyped
    <3> QED BY <2>2, <2>3, <3>1
  <2> QED BY <2>1, <2>3, <2>4 DEF FiguresTyped
<1>3. ASSUME NEW task \in Work, Figures!Start(task) PROVE FiguresTyped'
  <2> DEFINE r == [task |-> task, start |-> now]
  <2>1. /\ logged' = logged \cup Figures!Ended /\ running' = {r} /\ now' = now
        /\ Cardinality(logged \cup running) < 3
    BY <1>3, Counted DEF Figures!Start
  <2>2. r \in [task : Work, start : Figures!Time]
    BY DEF FiguresTyped
  <2> HIDE DEF r
  <2>3. Cardinality(running') = 1
    BY <2>1, FS_Singleton
  <2>4. Cardinality(logged) + Cardinality(running) < 3
    BY <2>1, Apart
  <2>5. Cardinality(logged') + Cardinality(running') <= 3
    BY <2>1, <2>3, <2>4, Apart, EndedTyped
  <2> QED BY <2>1, <2>2, <2>5, EndedTyped DEF FiguresTyped
<1> QED BY <1>1, <1>2, <1>3 DEF Figures!Next

\* The types of whichever machine takes its steps.
DeskTyped ==
    /\ WindowAlways /\ AccountAlways
    /\ part = "window" => WindowTyped
    /\ part = "figures" => FiguresTyped

\* No step of the window, of its account or of the figures leaves the types of its state,
\* whichever answers cross (App.tsx, AccountPage.tsx, summary.ts).
THEOREM TypesHold == DeskSpec => []Typed
<1>1. DeskInit => DeskTyped
  BY InitWindow, InitAccount, InitWindowTyped, InitFiguresTyped
     DEF DeskInit, DeskTyped, WindowAlways, AccountAlways
<1>2. DeskTyped /\ [DeskNext]_<<part, window, account, figures>> => DeskTyped'
  <2> SUFFICES ASSUME DeskTyped, [DeskNext]_<<part, window, account, figures>> PROVE DeskTyped'
    OBVIOUS
  <2>1. WindowAlways' /\ AccountAlways'
    BY WindowSteps, DeskSteps DEF DeskTyped
  <2>2. ASSUME part' = "window" PROVE WindowTyped'
    <3>1. part = "window" /\ (Window!Next \/ UNCHANGED window)
      BY <2>2 DEF DeskNext
    <3>2. WindowInv /\ WindowTyped
      BY <3>1 DEF DeskTyped, WindowAlways
    <3>3. UNCHANGED window => WindowTyped'
      BY <3>2 DEF window, WindowTyped, ShownTyped, AnswersTyped, RunsTyped
    <3> QED BY <3>1, <3>2, <3>3, NextWindowTyped
  <2>3. ASSUME part' = "figures" PROVE FiguresTyped'
    <3>1. part = "figures" /\ (Figures!Next \/ UNCHANGED figures)
      BY <2>3 DEF DeskNext
    <3>2. FiguresTyped
      BY <3>1 DEF DeskTyped
    <3>3. UNCHANGED figures => FiguresTyped'
      BY <3>2 DEF figures, FiguresTyped
    <3> QED BY <3>1, <3>2, <3>3, NextFiguresTyped
  <2> QED BY <2>1, <2>2, <2>3 DEF DeskTyped
<1>3. DeskTyped => Typed
  BY WindowTypes, AccountTypes, FiguresTypes
     DEF DeskTyped, Typed, WindowAlways, AccountAlways, AccountInv
<1> QED BY <1>1, <1>2, <1>3, PTL DEF DeskSpec
=============================================================================
