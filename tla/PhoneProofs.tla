----------------------------- MODULE PhoneProofs -----------------------------
(***************************************************************************)
(* What every behaviour of the phone keeps, one machine after another:     *)
(* the timer (what PhoneTimerProofs proves of it, carried over), the       *)
(* session, the pad, the log, the keys; and last the types of them all.    *)
(***************************************************************************)
EXTENDS MCPhone, SequenceTheorems, FiniteSetTheorems, TLAPS

TP == INSTANCE PhoneTimerProofs WITH
    MaxTime <- Time, MaxTaps <- Taps, MaxOthers <- 1, MaxFails <- 1, MaxKills <- 1,
    Tables <- BOOLEAN, cloud <- timerCloud, left <- timerLeft

LEMMA SameBounds == TP!Bounded
BY PhoneInBounds
   DEF TP!Bounded, TP!PhoneNone, TP!PhoneBounds, TP!Timer, TP!TimerState, TP!Instant, TP!Kinds,
       Timer!PhoneNone, Timer!PhoneBounds, Timer!Timer, Timer!TimerState, Timer!Instant, Timer!Kinds

LEMMA SameInit == TP!Init <=> Timer!Init
BY DEF TP!Init, TP!Nothing, TP!Idle, Timer!Init, Timer!Nothing, Timer!Idle

LEMMA SameVars == TP!vars = timer /\ Timer!vars = timer
BY DEF TP!vars, Timer!vars, timer

LEMMA SameRunning == \A t : TP!IsRunning(t) <=> Timer!IsRunning(t)
BY DEF TP!IsRunning, Timer!IsRunning

LEMMA SameStarting == \A d : TP!Starting(d) = Timer!Starting(d)
BY DEF TP!Starting, Timer!Starting, TP!Idle, Timer!Idle, TP!IsRunning, Timer!IsRunning

LEMMA SameTaps ==
    /\ \A d : TP!StartTap(d) <=> Timer!StartTap(d)
    /\ \A d : TP!ResumeTap(d) <=> Timer!ResumeTap(d)
    /\ \A d : TP!EditSave(d) <=> Timer!EditSave(d)
    /\ \A yes : TP!ResumeAnswer(yes) <=> Timer!ResumeAnswer(yes)
<1>1. ASSUME NEW d PROVE TP!StartTap(d) <=> Timer!StartTap(d)
  BY DEF TP!StartTap, Timer!StartTap, TP!Tap, Timer!Tap, TP!Tick, Timer!Tick,
         TP!StarterShown, Timer!StarterShown, TP!Starting, Timer!Starting, TP!Idle, Timer!Idle,
         TP!IsRunning, Timer!IsRunning, TP!Screen, Timer!Screen
<1>2. ASSUME NEW d PROVE TP!ResumeTap(d) <=> Timer!ResumeTap(d)
  BY DEF TP!ResumeTap, Timer!ResumeTap, TP!Tap, Timer!Tap, TP!CardShown, Timer!CardShown,
         TP!IsRunning, Timer!IsRunning
<1>3. ASSUME NEW d PROVE TP!EditSave(d) <=> Timer!EditSave(d)
  BY DEF TP!EditSave, Timer!EditSave, TP!Idle, Timer!Idle, TP!IsRunning, Timer!IsRunning
<1>4. ASSUME NEW yes PROVE TP!ResumeAnswer(yes) <=> Timer!ResumeAnswer(yes)
  BY DEF TP!ResumeAnswer, Timer!ResumeAnswer, TP!Tick, Timer!Tick, TP!Starting, Timer!Starting,
         TP!Idle, Timer!Idle, TP!IsRunning, Timer!IsRunning
<1> QED BY <1>1, <1>2, <1>3, <1>4

LEMMA SameCards ==
    /\ TP!StopTap <=> Timer!StopTap
    /\ TP!StopLands <=> Timer!StopLands
    /\ TP!EditTap <=> Timer!EditTap
<1>1. TP!StopTap <=> Timer!StopTap
  BY DEF TP!StopTap, Timer!StopTap, TP!Tap, Timer!Tap, TP!CardShown, Timer!CardShown,
         TP!IsRunning, Timer!IsRunning
<1>2. TP!StopLands <=> Timer!StopLands
  BY DEF TP!StopLands, Timer!StopLands, TP!Tick, Timer!Tick, TP!Idle, Timer!Idle
<1>3. TP!EditTap <=> Timer!EditTap
  BY DEF TP!EditTap, Timer!EditTap, TP!Tap, Timer!Tap, TP!CardShown, Timer!CardShown,
         TP!IsRunning, Timer!IsRunning
<1> QED BY <1>1, <1>2, <1>3

LEMMA SameWork ==
    /\ TP!QueueRead <=> Timer!QueueRead
    /\ TP!QueueStore <=> Timer!QueueStore
    /\ TP!Begin <=> Timer!Begin
    /\ TP!Write <=> Timer!Write
    /\ TP!Reread <=> Timer!Reread
    /\ TP!Rewrite <=> Timer!Rewrite
    /\ TP!Fail <=> Timer!Fail
    /\ TP!Settle <=> Timer!Settle
    /\ TP!Missing <=> Timer!Missing
<1>1. TP!QueueRead <=> Timer!QueueRead
  BY DEF TP!QueueRead, Timer!QueueRead, TP!Screen, Timer!Screen
<1>2. TP!QueueStore <=> Timer!QueueStore
  BY DEF TP!QueueStore, Timer!QueueStore, TP!EntryFromTimer, Timer!EntryFromTimer,
         TP!Screen, Timer!Screen
<1>3. TP!Begin <=> Timer!Begin
  BY DEF TP!Begin, Timer!Begin, TP!Adopt, Timer!Adopt, TP!Idle, Timer!Idle, TP!Screen,
         Timer!Screen
<1>4. TP!Write <=> Timer!Write
  BY DEF TP!Write, Timer!Write, TP!IsRunning, Timer!IsRunning, TP!Swap, Timer!Swap,
         TP!Over, Timer!Over, TP!EntryFromTimer, Timer!EntryFromTimer, TP!Screen,
         Timer!Screen
<1>5. TP!Reread <=> Timer!Reread
  BY DEF TP!Reread, Timer!Reread, TP!IsRunning, Timer!IsRunning, TP!Screen, Timer!Screen
<1>6. TP!Rewrite <=> Timer!Rewrite
  BY DEF TP!Rewrite, Timer!Rewrite, TP!Swap, Timer!Swap, TP!IsRunning, Timer!IsRunning,
         TP!Over, Timer!Over, TP!EntryFromTimer, Timer!EntryFromTimer, TP!Screen,
         Timer!Screen
<1>7. TP!Fail <=> Timer!Fail
  BY DEF TP!Fail, Timer!Fail, TP!Swap, Timer!Swap, TP!IsRunning, Timer!IsRunning, TP!Over,
         Timer!Over, TP!EntryFromTimer, Timer!EntryFromTimer, TP!Screen, Timer!Screen
<1>8. TP!Settle <=> Timer!Settle
  BY DEF TP!Settle, Timer!Settle, TP!Adopt, Timer!Adopt, TP!Idle, Timer!Idle, TP!Screen,
         Timer!Screen
<1>9. TP!Missing <=> Timer!Missing
  BY DEF TP!Missing, Timer!Missing, TP!Idle, Timer!Idle, TP!Screen, Timer!Screen
<1> QED BY <1>1, <1>2, <1>3, <1>4, <1>5, <1>6, <1>7, <1>8, <1>9

LEMMA SameRest ==
    /\ TP!RefreshRead <=> Timer!RefreshRead
    /\ TP!RefreshAdopt <=> Timer!RefreshAdopt
    /\ TP!FlushRead <=> Timer!FlushRead
    /\ TP!FlushPush <=> Timer!FlushPush
    /\ TP!FlushDrop <=> Timer!FlushDrop
    /\ TP!Kill <=> Timer!Kill
    /\ TP!Launch <=> Timer!Launch
    /\ TP!PushTask <=> Timer!PushTask
    /\ TP!Other <=> Timer!Other
<1>1. TP!RefreshRead <=> Timer!RefreshRead
  BY DEF TP!RefreshRead, Timer!RefreshRead, TP!Screen, Timer!Screen
<1>2. TP!RefreshAdopt <=> Timer!RefreshAdopt
  BY DEF TP!RefreshAdopt, Timer!RefreshAdopt, TP!Adopt, Timer!Adopt, TP!Screen,
         Timer!Screen
<1>3. TP!FlushRead <=> Timer!FlushRead
  BY DEF TP!FlushRead, Timer!FlushRead, TP!Screen, Timer!Screen
<1>4. TP!FlushPush <=> Timer!FlushPush
  BY DEF TP!FlushPush, Timer!FlushPush, TP!Screen, Timer!Screen
<1>5. TP!FlushDrop <=> Timer!FlushDrop
  BY DEF TP!FlushDrop, Timer!FlushDrop, TP!Screen, Timer!Screen
<1>6. TP!Kill <=> Timer!Kill
  BY DEF TP!Kill, Timer!Kill, TP!Swap, Timer!Swap, TP!IsRunning, Timer!IsRunning, TP!Over,
         Timer!Over, TP!EntryFromTimer, Timer!EntryFromTimer, TP!Idle, Timer!Idle,
         TP!Nothing, Timer!Nothing
<1>7. TP!Launch <=> Timer!Launch
  BY DEF TP!Launch, Timer!Launch, TP!Adopt, Timer!Adopt, TP!Screen, Timer!Screen
<1>8. TP!PushTask <=> Timer!PushTask
  BY DEF TP!PushTask, Timer!PushTask, TP!Screen, Timer!Screen
<1>9. TP!Other <=> Timer!Other
  BY DEF TP!Other, Timer!Other, TP!Tick, Timer!Tick, TP!IsRunning, Timer!IsRunning,
         TP!Over, Timer!Over, TP!Phone, Timer!Phone
<1> QED BY <1>1, <1>2, <1>3, <1>4, <1>5, <1>6, <1>7, <1>8, <1>9

LEMMA SameNext == TP!Next <=> Timer!Next
<1>1. TP!Work <=> Timer!Work
  BY SameWork DEF TP!Work, Timer!Work
<1> QED BY <1>1, SameTaps, SameCards, SameRest DEF TP!Next, Timer!Next

-----------------------------------------------------------------------------

\* The invariant of the timer's machine, where it is the one that moves.
TimerInv ==
    part = "timer" =>
        TP!ShapeInv /\ TP!ReturnInv /\ TP!QueuedInv /\ TP!BudgetInv

LEMMA InitTimer == AnyInit => TimerInv
<1>1. AnyInit => TP!Init
  BY SameInit DEF AnyInit
<1> QED BY <1>1, SameBounds, TP!InitShapes, TP!InitReturns, TP!InitQueued, TP!InitBudget DEF TimerInv

LEMMA TimerSteps ==
    ASSUME [AnyNext]_<<part, timer, log, session, keys, pad>>
    PROVE  part' = part /\ (part = "timer" => [TP!Next]_TP!vars)
<1>1. CASE UNCHANGED <<part, timer, log, session, keys, pad>>
  BY <1>1 DEF TP!vars, timer
<1>2. CASE AnyNext
  BY <1>2, SameNext DEF AnyNext
<1> QED BY <1>1, <1>2

LEMMA NextTimer == TimerInv /\ [AnyNext]_<<part, timer, log, session, keys, pad>> => TimerInv'
<1> SUFFICES ASSUME TimerInv, [AnyNext]_<<part, timer, log, session, keys, pad>>, part' = "timer"
             PROVE  (TP!ShapeInv /\ TP!ReturnInv /\ TP!QueuedInv /\ TP!BudgetInv)'
  BY DEF TimerInv
<1>1. part = "timer" /\ [TP!Next]_TP!vars
  BY TimerSteps
<1>2. TP!ShapeInv /\ TP!ReturnInv /\ TP!QueuedInv /\ TP!BudgetInv
  BY <1>1 DEF TimerInv
<1>3. TP!ShapeInv'
  BY <1>1, <1>2, SameBounds, TP!NextShapes
<1>4. TP!ReturnInv'
  BY <1>1, <1>2, SameBounds, TP!NextReturns
<1>5. TP!QueuedInv'
  BY <1>1, <1>2, SameBounds, TP!NextQueued
<1>6. TP!BudgetInv'
  BY <1>1, <1>2, <1>3, SameBounds, TP!NextBudget
<1> QED BY <1>3, <1>4, <1>5, <1>6

\* What PhoneTimerProofs shows of the timer by itself holds in the phone, whose
\* timer takes its steps among those of the other parts.
THEOREM TimerInvariant == AnySpec => []TimerInv
BY InitTimer, NextTimer, PTL DEF AnySpec

\* A timer that was once ended or replaced in the record never runs there
\* again, whatever tap, lost race or retry comes late.
THEOREM EndedStaysEnded == AnySpec => []NeverReturns
<1>1. TimerInv => NeverReturns
  <2>1. TP!ReturnInv => TP!NeverReturns
    BY DEF TP!ReturnInv, TP!FitsInv, TP!Fits, TP!NeverReturns
  <2>2. TP!NeverReturns <=> Timer!NeverReturns
    BY DEF TP!NeverReturns, Timer!NeverReturns, TP!IsRunning, Timer!IsRunning
  <2> QED BY <2>1, <2>2 DEF TimerInv, NeverReturns
<1> QED BY <1>1, TimerInvariant, PTL

\* Before the phone ends a timer in the record, the entry that keeps its time
\* was queued, with the start and the end the record says.
THEOREM QueuedBeforeClosed == AnySpec => []QueuedFirst
<1>1. TimerInv => QueuedFirst
  BY DEF TimerInv, TP!QueuedInv, TP!QueuedFirst, Timer!QueuedFirst, QueuedFirst
<1> QED BY <1>1, TimerInvariant, PTL

\* A stop that lost the race closes no timer but the one the phone saw running
\* when the stop was sent.
THEOREM StopsItsOwn == AnySpec => StopsWhatItSaw
<1>1. TimerInv /\ [AnyNext]_<<part, timer, log, session, keys, pad>> => [Timer!ClosesItsOwn]_timer
  <2> SUFFICES ASSUME TimerInv, [AnyNext]_<<part, timer, log, session, keys, pad>>, ~UNCHANGED timer
               PROVE  Timer!ClosesItsOwn
    OBVIOUS
  <2>1. CASE part = "timer"
    <3>1. TP!ShapeInv /\ [TP!Next]_TP!vars
      BY <2>1, TimerSteps DEF TimerInv
    <3>2. TP!ClosesItsOwn
      BY <3>1, SameBounds, TP!StepStops
    <3> QED BY <3>2 DEF TP!ClosesItsOwn, Timer!ClosesItsOwn
  <2>2. CASE part # "timer"
    BY <2>2 DEF AnyNext, timer
  <2> QED BY <2>1, <2>2
<1> QED BY <1>1, TimerInvariant, PTL DEF AnySpec, StopsWhatItSaw

-----------------------------------------------------------------------------
(* The session *)

\* The shape of a sign-in or sign-out, and of a reload of one account's history.
AuthShape == [kind : {"none", "in", "out"}, who : Session!Owner, todo : SUBSET Session!Slots,
              tok : Session!Owner,
              at : {"idle", "signup", "verify", "post", "save", "token", "mint", "keys",
                    "dek", "undevice", "revoke", "clear"}]
Reloads == [at : {"idle", "token", "mint", "list"}, tok : Session!Owner]

\* A sign-in or sign-out whose steps are its own.
AuthTyped(now) ==
    /\ now \in AuthShape
    /\ now.kind = "in" => now.who \in Users
    /\ now.at = "idle" <=> now.kind = "none"
    /\ now.at \in {"signup", "verify", "post", "save", "keys", "dek"} => now.kind = "in"
    /\ now.at \in {"undevice", "revoke"} => now.kind = "out"

\* The rest of the session's state, the picture with its owner.
SessionRest ==
    /\ accounts \in [Users -> {"none", "unverified", "ok"}]
    /\ sessions \subseteq Users
    /\ store \in [Session!Slots -> Session!Owner]
    /\ account = None \/ account \in Session!Account
    /\ cached \in Session!Owner /\ minting \in Session!Owner
    /\ reload \in [Users -> Reloads]
    /\ picture \in [who : Session!Owner, at : {"idle", "upload", "store", "show"}]
    /\ picture.at # "idle" => picture.who \in Users
    /\ history = None \/ history \in [of : Users, whole : BOOLEAN]
    /\ cut \subseteq {"save", "clear", "picture"}

SessionFlags == loading \in BOOLEAN /\ form \in [creating : BOOLEAN, verifying : BOOLEAN]

SessionTyped == AuthTyped(auth) /\ SessionRest /\ SessionFlags

LEMMA SessionTypes == SessionTyped => Session!TypeOK
BY DEF SessionTyped, Session!TypeOK, SessionRest, Reloads, SessionFlags, AuthTyped, AuthShape

LEMMA SessionNames ==
    /\ None \notin Users
    /\ \A u, w \in Users : [user |-> u, dek |-> w] # None
<1>1. None \notin Users /\ None \notin Session!Account
  BY PhoneInBounds DEF Session!SessionNone
<1> QED BY <1>1 DEF Session!Account

LEMMA IdleTyped == AuthTyped(Session!Idle)
BY DEF AuthTyped, AuthShape, Session!Idle, Session!Owner

LEMMA InitSessionTyped == ASSUME Session!Init PROVE SessionTyped
<1>1. AuthTyped(auth)
  BY IdleTyped DEF Session!Init, AuthTyped
<1>2. SessionRest
  BY DEF Session!Init, SessionRest, Session!Empty, Session!Quiet, Reloads,
         Session!NoPicture, Session!Owner, Session!Slots
<1>3. SessionFlags
  BY DEF Session!Init, SessionFlags, Session!Blank
<1> QED BY <1>1, <1>2, <1>3 DEF SessionTyped

LEMMA SessionShapes ==
    ASSUME SessionTyped
    PROVE  /\ auth \in AuthShape
           /\ store \in [Session!Slots -> Session!Owner]
           /\ store["cookie"] \in Session!Owner /\ store["user"] \in Session!Owner
           /\ store["dek"] \in Session!Owner
           /\ reload \in [Users -> Reloads]
           /\ cached \in Session!Owner /\ minting \in Session!Owner
           /\ account # None => account \in Session!Account /\ account.user \in Users
           /\ sessions \subseteq Users
BY DEF SessionTyped, SessionRest, AuthTyped, Session!Slots, Session!Account

LEMMA SetAccountTyped ==
    ASSUME SessionTyped, NEW acc, acc = None \/ acc \in Session!Account, Session!SetAccount(acc)
    PROVE  /\ account' = None \/ account' \in Session!Account
           /\ history' = None \/ history' \in [of : Users, whole : BOOLEAN]
           /\ reload' \in [Users -> Reloads]
<1>1. account' = None \/ account' \in Session!Account
  BY DEF Session!SetAccount
<1>2. history' = None \/ history' \in [of : Users, whole : BOOLEAN]
  BY DEF Session!SetAccount, SessionTyped, SessionRest
<1>3. reload' \in [Users -> Reloads]
  <2>1. reload \in [Users -> Reloads]
    BY SessionShapes
  <2>2. CASE acc # None /\ reload[acc.user].at = "idle"
    <3>1. acc.user \in Users
      BY <2>2 DEF Session!Account
    <3>2. [reload[acc.user] EXCEPT !.at = "token"] \in Reloads
      BY <2>1, <3>1 DEF Reloads
    <3>3. reload' = [reload EXCEPT ![acc.user] = [reload[acc.user] EXCEPT !.at = "token"]]
      BY <2>1, <2>2, <3>1 DEF Session!SetAccount
    <3> QED BY <2>1, <3>1, <3>2, <3>3
  <2>3. CASE ~(acc # None /\ reload[acc.user].at = "idle")
    BY <2>1, <2>3 DEF Session!SetAccount
  <2> QED BY <2>2, <2>3
<1> QED BY <1>1, <1>2, <1>3

\* A step of a sign-in or sign-out under way: it goes on at one of its own
\* steps.
LEMMA AuthMoves ==
    ASSUME SessionTyped, auth.at # "idle",
           NEW at \in {"post", "save", "token", "mint", "keys", "dek", "undevice", "revoke", "clear"},
           auth' \in AuthShape, auth'.at = at, auth'.kind = auth.kind, auth'.who = auth.who,
           at \in {"post", "save", "keys", "dek"} => auth.kind = "in",
           at \in {"undevice", "revoke"} => auth.kind = "out"
    PROVE  AuthTyped(auth)'
BY DEF SessionTyped, AuthTyped, AuthShape

LEMMA SignInSteps ==
    ASSUME SessionTyped,
           \/ \E u \in Users : Session!SubmitAs(u)
           \/ \E slot \in Session!Slots : Session!SaveSession(slot)
           \/ Session!ToggleCreating \/ Session!SignUp \/ Session!VerifyEmail
           \/ Session!SignInEmail \/ Session!Unlock \/ Session!SignedIn
    PROVE  SessionTyped'
<1> USE DEF Session!Server, Session!Tokens, Session!Reads
<1>1. AuthTyped(auth) /\ SessionRest /\ SessionFlags
  BY DEF SessionTyped
<1>2. auth \in AuthShape /\ (auth.at \in {"signup", "verify", "post", "save", "keys", "dek"}
        => auth.who \in Users /\ auth.kind = "in" /\ auth.who \in Session!Owner /\ auth.at # "idle")
  BY <1>1 DEF AuthTyped, Session!Owner
<1>3. ASSUME NEW u \in Users, Session!SubmitAs(u) PROVE SessionTyped'
  <2>1. auth' = [Session!Idle EXCEPT !.kind = "in", !.who = u,
                !.at = IF form.verifying THEN "verify" ELSE IF form.creating THEN "signup" ELSE "post"]
    BY <1>3 DEF Session!SubmitAs
  <2>2. auth' \in AuthShape
    BY <2>1 DEF Session!Idle, AuthShape, Session!Owner
  <2>3. auth'.kind = "in" /\ auth'.who = u /\ auth'.at \in {"verify", "signup", "post"}
    BY <2>1 DEF Session!Idle
  <2>4. AuthTyped(auth)'
    BY <2>2, <2>3 DEF AuthTyped
  <2>5. SessionRest' /\ SessionFlags'
    BY <1>1, <1>3 DEF Session!SubmitAs, SessionRest, SessionFlags
  <2> QED BY <2>4, <2>5 DEF SessionTyped
<1>4. CASE Session!ToggleCreating
  <2>1. AuthTyped(auth)' /\ SessionRest'
    BY <1>1, <1>4 DEF Session!ToggleCreating, AuthTyped, SessionRest
  <2>2. SessionFlags'
    BY <1>1, <1>4 DEF Session!ToggleCreating, SessionFlags
  <2> QED BY <2>1, <2>2 DEF SessionTyped
<1>5. CASE Session!SignUp
  <2>1. SessionRest'
    BY <1>1, <1>2, <1>5 DEF Session!SignUp, SessionRest
  <2>2. SessionFlags'
    BY <1>1, <1>5 DEF Session!SignUp, SessionFlags
  <2>3. AuthTyped(auth)'
    <3>1. CASE auth' = Session!Idle
      BY <3>1, IdleTyped DEF AuthTyped
    <3>2. CASE auth' = [auth EXCEPT !.at = "post"]
      <4>1. auth' \in AuthShape /\ auth'.at = "post" /\ auth'.kind = auth.kind /\ auth'.who = auth.who
        BY <1>2, <3>2 DEF AuthShape
      <4>2. auth.kind = "in" /\ auth.at # "idle"
        BY <1>2, <1>5 DEF Session!SignUp
      <4> QED BY <4>1, <4>2, AuthMoves
    <3> QED BY <1>5, <3>1, <3>2 DEF Session!SignUp
  <2> QED BY <2>1, <2>2, <2>3 DEF SessionTyped
<1>6. CASE Session!VerifyEmail
  <2>1. SessionRest' /\ SessionFlags'
    BY <1>1, <1>2, <1>6 DEF Session!VerifyEmail, SessionRest, SessionFlags
  <2>2. AuthTyped(auth)'
    <3>1. CASE auth' = Session!Idle
      BY <3>1, IdleTyped DEF AuthTyped
    <3>2. CASE auth' = [auth EXCEPT !.at = "post"]
      <4>1. auth' \in AuthShape /\ auth'.at = "post" /\ auth'.kind = auth.kind /\ auth'.who = auth.who
        BY <1>2, <3>2 DEF AuthShape
      <4>2. auth.kind = "in" /\ auth.at # "idle"
        BY <1>2, <1>6 DEF Session!VerifyEmail
      <4> QED BY <4>1, <4>2, AuthMoves
    <3> QED BY <1>6, <3>1, <3>2 DEF Session!VerifyEmail
  <2> QED BY <2>1, <2>2 DEF SessionTyped
<1>7. CASE Session!SignInEmail
  <2>1. SessionRest'
    BY <1>1, <1>2, <1>7 DEF Session!SignInEmail, SessionRest
  <2>2. SessionFlags'
    BY <1>1, <1>7 DEF Session!SignInEmail, SessionFlags
  <2>3. AuthTyped(auth)'
    <3>1. CASE auth' = Session!Idle
      BY <3>1, IdleTyped DEF AuthTyped
    <3>2. CASE auth' = [auth EXCEPT !.at = "save", !.todo = {"cookie", "user"}]
      <4>1. auth' \in AuthShape /\ auth'.at = "save" /\ auth'.kind = auth.kind /\ auth'.who = auth.who
        BY <1>2, <3>2 DEF AuthShape, Session!Slots
      <4>2. auth.kind = "in" /\ auth.at # "idle"
        BY <1>2, <1>7 DEF Session!SignInEmail
      <4> QED BY <4>1, <4>2, AuthMoves
    <3> QED BY <1>7, <3>1, <3>2 DEF Session!SignInEmail
  <2> QED BY <2>1, <2>2, <2>3 DEF SessionTyped
<1>8. ASSUME NEW slot \in Session!Slots, Session!SaveSession(slot) PROVE SessionTyped'
  <2>1. SessionRest' /\ SessionFlags'
    BY <1>1, <1>2, <1>8 DEF Session!SaveSession, SessionRest, SessionFlags
  <2>2. AuthTyped(auth)'
    <3>1. auth.kind = "in" /\ auth.at = "save"
      BY <1>2, <1>8 DEF Session!SaveSession
    <3>2. CASE auth' = [auth EXCEPT !.at = "token", !.todo = {}]
      <4>1. auth' \in AuthShape /\ auth'.at = "token" /\ auth'.kind = auth.kind /\ auth'.who = auth.who
        BY <1>2, <3>2 DEF AuthShape
      <4> QED BY <3>1, <4>1, AuthMoves
    <3>3. CASE auth' = [auth EXCEPT !.todo = @ \ {slot}]
      <4>1. auth' \in AuthShape /\ auth'.at = "save" /\ auth'.kind = auth.kind /\ auth'.who = auth.who
        BY <1>2, <3>1, <3>3 DEF AuthShape
      <4> QED BY <3>1, <4>1, AuthMoves
    <3> QED BY <1>8, <3>2, <3>3 DEF Session!SaveSession
  <2> QED BY <2>1, <2>2 DEF SessionTyped
<1>9. CASE Session!Unlock
  <2>1. SessionRest' /\ SessionFlags'
    BY <1>1, <1>2, <1>9 DEF Session!Unlock, SessionRest, SessionFlags, Session!Owner
  <2>2. AuthTyped(auth)'
    <3>1. auth.kind = "in" /\ auth.at = "keys"
      BY <1>2, <1>9 DEF Session!Unlock
    <3>2. CASE auth' = [auth EXCEPT !.at = "dek"]
      <4>1. auth' \in AuthShape /\ auth'.at = "dek" /\ auth'.kind = auth.kind /\ auth'.who = auth.who
        BY <1>2, <3>2 DEF AuthShape
      <4> QED BY <3>1, <4>1, AuthMoves
    <3>3. CASE auth' = [auth EXCEPT !.at = "clear", !.todo = Session!Slots]
      <4>1. auth' \in AuthShape /\ auth'.at = "clear" /\ auth'.kind = auth.kind /\ auth'.who = auth.who
        BY <1>2, <3>1, <3>3 DEF AuthShape
      <4> QED BY <3>1, <4>1, AuthMoves
    <3> QED BY <1>9, <3>2, <3>3 DEF Session!Unlock
  <2> QED BY <2>1, <2>2 DEF SessionTyped
<1>10. CASE Session!SignedIn
  <2>1. auth.who \in Users /\ auth.who \in Session!Owner
    BY <1>2, <1>10 DEF Session!SignedIn
  <2>2. [user |-> auth.who, dek |-> auth.who] \in Session!Account
    BY <2>1 DEF Session!Account
  <2>3. Session!SetAccount([user |-> auth.who, dek |-> auth.who])
    BY <1>10 DEF Session!SignedIn
  <2>4. /\ account' = None \/ account' \in Session!Account
        /\ history' = None \/ history' \in [of : Users, whole : BOOLEAN]
        /\ reload' \in [Users -> Reloads]
    BY <2>2, <2>3, SetAccountTyped
  <2>5. SessionRest'
    BY <1>1, <1>10, <2>1, <2>4 DEF Session!SignedIn, SessionRest
  <2>6. SessionFlags'
    BY <1>1, <1>10 DEF Session!SignedIn, SessionFlags, Session!Blank
  <2>7. AuthTyped(auth)'
    BY <1>10, IdleTyped DEF Session!SignedIn, AuthTyped
  <2> QED BY <2>5, <2>6, <2>7 DEF SessionTyped
<1> QED BY <1>3, <1>4, <1>5, <1>6, <1>7, <1>8, <1>9, <1>10

\* What asking for a token comes to.
LEMMA AskedShape ==
    ASSUME SessionTyped
    PROVE  /\ Session!Asked.at \in {"refused", "given", "mint"}
           /\ Session!Asked.tok \in Session!Owner
           /\ Session!Minting \in Session!Owner
BY SessionShapes DEF Session!Asked, Session!Minting, Session!Owner

\* A sign-in or sign-out that asked for a token goes on with it, or without.
LEMMA AuthAsked ==
    ASSUME SessionTyped, auth.at \in {"token", "mint"}, NEW tok \in Session!Owner,
           \/ auth' = Session!Refused(auth)
           \/ auth' = Session!Given(auth, tok)
           \/ auth' = [auth EXCEPT !.at = "mint"]
           \/ auth' = auth
    PROVE  AuthTyped(auth)'
<1>1. auth \in AuthShape /\ auth.at # "idle" /\ auth.kind \in {"in", "out"}
  BY DEF SessionTyped, AuthTyped, AuthShape
<1>2. CASE auth' = Session!Refused(auth)
  <2>1. CASE auth.kind = "out"
    <3>1. auth' = [auth EXCEPT !.at = "revoke"]
      BY <1>2, <2>1 DEF Session!Refused
    <3>2. auth' \in AuthShape /\ auth'.at = "revoke" /\ auth'.kind = auth.kind /\ auth'.who = auth.who
      BY <1>1, <3>1 DEF AuthShape
    <3> QED BY <1>1, <2>1, <3>2, AuthMoves
  <2>2. CASE auth.kind = "in"
    <3>1. auth' = [auth EXCEPT !.at = "clear", !.todo = Session!Slots]
      BY <1>2, <2>2 DEF Session!Refused
    <3>2. auth' \in AuthShape /\ auth'.at = "clear" /\ auth'.kind = auth.kind /\ auth'.who = auth.who
      BY <1>1, <3>1 DEF AuthShape
    <3> QED BY <1>1, <3>2, AuthMoves
  <2> QED BY <1>1, <2>1, <2>2
<1>3. CASE auth' = Session!Given(auth, tok)
  <2>1. CASE auth.kind = "out"
    <3>1. auth' = [auth EXCEPT !.at = "undevice", !.tok = tok]
      BY <1>3, <2>1 DEF Session!Given
    <3>2. auth' \in AuthShape /\ auth'.at = "undevice" /\ auth'.kind = auth.kind /\ auth'.who = auth.who
      BY <1>1, <3>1 DEF AuthShape
    <3> QED BY <1>1, <2>1, <3>2, AuthMoves
  <2>2. CASE auth.kind = "in"
    <3>1. auth' = [auth EXCEPT !.at = "keys", !.tok = tok]
      BY <1>3, <2>2 DEF Session!Given
    <3>2. auth' \in AuthShape /\ auth'.at = "keys" /\ auth'.kind = auth.kind /\ auth'.who = auth.who
      BY <1>1, <3>1 DEF AuthShape
    <3> QED BY <1>1, <2>2, <3>2, AuthMoves
  <2> QED BY <1>1, <2>1, <2>2
<1>4. CASE auth' = [auth EXCEPT !.at = "mint"]
  <2>1. auth' \in AuthShape /\ auth'.at = "mint" /\ auth'.kind = auth.kind /\ auth'.who = auth.who
    BY <1>1, <1>4 DEF AuthShape
  <2> QED BY <1>1, <2>1, AuthMoves
<1>5. CASE auth' = auth
  BY <1>5 DEF SessionTyped, AuthTyped
<1> QED BY <1>2, <1>3, <1>4, <1>5

LEMMA SignOutSteps ==
    ASSUME SessionTyped,
           \/ Session!SignOut \/ Session!RemoveDevice \/ Session!Revoke
           \/ \E slot \in Session!Slots : Session!Clear(slot)
           \/ Session!AuthAsks \/ Session!Mint \/ Session!Expire
    PROVE  SessionTyped'
<1> USE DEF Session!Server, Session!Tokens, Session!Reads
<1>1. AuthTyped(auth) /\ SessionRest /\ SessionFlags /\ auth \in AuthShape
  BY DEF SessionTyped, AuthTyped
<1>2. CASE Session!SignOut
  <2>1. account.user \in Users
    BY <1>2, SessionShapes DEF Session!SignOut, Session!AccountOffers, Session!Routed
  <2>2. auth' = [Session!Idle EXCEPT !.kind = "out", !.who = account.user, !.at = "token"]
    BY <1>2 DEF Session!SignOut
  <2>3. auth' \in AuthShape
    BY <2>1, <2>2 DEF Session!Idle, AuthShape, Session!Owner
  <2>4. auth'.kind = "out" /\ auth'.at = "token"
    BY <2>2 DEF Session!Idle
  <2>5. AuthTyped(auth)'
    BY <2>3, <2>4 DEF AuthTyped
  <2>6. SessionRest' /\ SessionFlags'
    BY <1>1, <1>2 DEF Session!SignOut, SessionRest, SessionFlags
  <2> QED BY <2>5, <2>6 DEF SessionTyped
<1>3. CASE Session!RemoveDevice
  <2>1. auth' = [auth EXCEPT !.at = "revoke"] /\ auth.kind = "out" /\ auth.at # "idle"
    BY <1>1, <1>3 DEF Session!RemoveDevice, AuthTyped
  <2>2. auth' \in AuthShape /\ auth'.at = "revoke" /\ auth'.kind = auth.kind /\ auth'.who = auth.who
    BY <1>1, <2>1 DEF AuthShape
  <2>3. AuthTyped(auth)'
    BY <2>1, <2>2, AuthMoves
  <2>4. SessionRest' /\ SessionFlags'
    BY <1>1, <1>3 DEF Session!RemoveDevice, SessionRest, SessionFlags
  <2> QED BY <2>3, <2>4 DEF SessionTyped
<1>4. CASE Session!Revoke
  <2>1. auth' = [auth EXCEPT !.at = "clear", !.todo = Session!Slots] /\ auth.at # "idle"
    BY <1>4 DEF Session!Revoke
  <2>2. auth' \in AuthShape /\ auth'.at = "clear" /\ auth'.kind = auth.kind /\ auth'.who = auth.who
    BY <1>1, <2>1 DEF AuthShape
  <2>3. AuthTyped(auth)'
    BY <2>1, <2>2, AuthMoves
  <2>4. SessionRest' /\ SessionFlags'
    BY <1>1, <1>4 DEF Session!Revoke, SessionRest, SessionFlags, Session!Owner
  <2> QED BY <2>3, <2>4 DEF SessionTyped
<1>5. ASSUME NEW slot \in Session!Slots, Session!Clear(slot) PROVE SessionTyped'
  <2>1. store' \in [Session!Slots -> Session!Owner]
    BY <1>1, <1>5 DEF Session!Clear, SessionRest, Session!Owner
  <2>2. CASE auth.todo # {slot}
    <3>1. auth' = [auth EXCEPT !.todo = @ \ {slot}] /\ auth.at = "clear" /\ UNCHANGED <<account, reload, history>>
      BY <1>5, <2>2 DEF Session!Clear
    <3>2. auth' \in AuthShape /\ auth'.at = "clear" /\ auth'.kind = auth.kind /\ auth'.who = auth.who
      BY <1>1, <3>1 DEF AuthShape
    <3>3. AuthTyped(auth)'
      BY <3>1, <3>2, AuthMoves
    <3>4. SessionRest' /\ SessionFlags'
      BY <1>1, <1>5, <2>1, <3>1 DEF Session!Clear, SessionRest, SessionFlags
    <3> QED BY <3>3, <3>4 DEF SessionTyped
  <2>3. CASE auth.todo = {slot}
    <3>1. AuthTyped(auth)'
      BY <1>5, <2>3, IdleTyped DEF Session!Clear, AuthTyped
    <3>2. /\ account' = None \/ account' \in Session!Account
          /\ history' = None \/ history' \in [of : Users, whole : BOOLEAN]
          /\ reload' \in [Users -> Reloads]
      <4>1. CASE Session!SetAccount(None)
        BY <4>1, SetAccountTyped
      <4>2. CASE UNCHANGED <<account, reload, history>>
        BY <1>1, <4>2 DEF SessionRest
      <4> QED BY <1>5, <2>3, <4>1, <4>2 DEF Session!Clear
    <3>3. SessionRest' /\ SessionFlags'
      BY <1>1, <1>5, <2>1, <3>2 DEF Session!Clear, SessionRest, SessionFlags
    <3> QED BY <3>1, <3>3 DEF SessionTyped
  <2> QED BY <2>2, <2>3
<1>6. CASE Session!AuthAsks
  <2>1. AuthTyped(auth)'
    <3>1. auth.at = "token" /\ Session!Asked.tok \in Session!Owner
      BY <1>6, AskedShape DEF Session!AuthAsks
    <3>2. \/ auth' = Session!Refused(auth)
          \/ auth' = Session!Given(auth, Session!Asked.tok)
          \/ auth' = [auth EXCEPT !.at = "mint"]
      BY <1>6 DEF Session!AuthAsks
    <3> QED BY <3>1, <3>2, AuthAsked
  <2>2. minting' \in Session!Owner
    BY <1>6, AskedShape DEF Session!AuthAsks
  <2>3. SessionRest' /\ SessionFlags'
    BY <1>1, <1>6, <2>2 DEF Session!AuthAsks, SessionRest, SessionFlags
  <2> QED BY <2>1, <2>3 DEF SessionTyped
<1>7. CASE Session!Mint
  <2>1. minting \in Session!Owner /\ reload \in [Users -> Reloads]
    BY SessionShapes
  <2>2. AuthTyped(auth)'
    <3>1. CASE auth.at = "mint"
      <4>1. auth' = Session!Refused(auth) \/ auth' = Session!Given(auth, minting)
        BY <1>7, <3>1 DEF Session!Mint
      <4> QED BY <2>1, <3>1, <4>1, AuthAsked
    <3>2. CASE auth.at # "mint"
      BY <1>1, <1>7, <3>2 DEF Session!Mint, AuthTyped
    <3> QED BY <3>1, <3>2
  <2>3. reload' \in [Users -> Reloads]
    <3>1. [at |-> "list", tok |-> minting] \in Reloads /\ Session!Quiet \in Reloads
      BY <2>1 DEF Reloads, Session!Quiet, Session!Owner
    <3>2. CASE reload' = [u \in Users |-> IF reload[u].at = "mint" THEN [at |-> "list", tok |-> minting]
                                          ELSE reload[u]]
      BY <2>1, <3>1, <3>2
    <3>3. CASE reload' = [u \in Users |-> IF reload[u].at = "mint" THEN Session!Quiet ELSE reload[u]]
      BY <2>1, <3>1, <3>3
    <3> QED BY <1>7, <3>2, <3>3 DEF Session!Mint
  <2>4. cached' \in Session!Owner /\ minting' \in Session!Owner
    BY <1>1, <1>7, <2>1 DEF Session!Mint, SessionRest, Session!Owner
  <2>5. SessionRest' /\ SessionFlags'
    BY <1>1, <1>7, <2>3, <2>4 DEF Session!Mint, SessionRest, SessionFlags
  <2> QED BY <2>2, <2>5 DEF SessionTyped
<1>8. CASE Session!Expire
  <2>1. AuthTyped(auth)' /\ SessionFlags'
    BY <1>1, <1>8 DEF Session!Expire, AuthTyped, SessionFlags
  <2>2. SessionRest'
    BY <1>1, <1>8 DEF Session!Expire, SessionRest, Session!Owner
  <2> QED BY <2>1, <2>2 DEF SessionTyped
<1> QED BY <1>2, <1>3, <1>4, <1>5, <1>6, <1>7, <1>8

LEMMA ReadingSteps ==
    ASSUME SessionTyped,
           \/ \E u \in Users : Session!ReloadAsks(u) \/ Session!ListEntries(u)
           \/ Session!Reload \/ Session!SetPicture \/ Session!UploadPicture
           \/ Session!StorePicture \/ Session!ShowPicture
           \/ Session!Fail \/ Session!Kill \/ Session!LoadAccount
    PROVE  SessionTyped'
<1> USE DEF Session!Server, Session!Tokens, Session!Reads
<1>1. AuthTyped(auth) /\ SessionRest /\ SessionFlags /\ auth \in AuthShape
      /\ reload \in [Users -> Reloads]
  BY SessionShapes DEF SessionTyped, AuthTyped
<1>2. Session!Quiet \in Reloads /\ None \in Session!Owner
  BY DEF Reloads, Session!Quiet, Session!Owner
<1>3. ASSUME NEW u \in Users, Session!ReloadAsks(u) PROVE SessionTyped'
  <2>1. \E r \in Reloads : reload' = [reload EXCEPT ![u] = r]
    <3>1. [at |-> "list", tok |-> Session!Asked.tok] \in Reloads /\ [at |-> "mint", tok |-> None] \in Reloads
      BY <1>2, AskedShape DEF Reloads
    <3> QED BY <1>2, <1>3, <3>1 DEF Session!ReloadAsks
  <2>2. reload' \in [Users -> Reloads] /\ minting' \in Session!Owner
    BY <1>1, <1>3, <2>1, AskedShape DEF Session!ReloadAsks
  <2>3. AuthTyped(auth)' /\ SessionFlags'
    BY <1>1, <1>3 DEF Session!ReloadAsks, AuthTyped, SessionFlags
  <2>4. SessionRest'
    BY <1>1, <1>3, <2>2 DEF Session!ReloadAsks, SessionRest
  <2> QED BY <2>3, <2>4 DEF SessionTyped
<1>4. ASSUME NEW u \in Users, Session!ListEntries(u) PROVE SessionTyped'
  <2>1. reload' \in [Users -> Reloads]
    BY <1>1, <1>2, <1>4 DEF Session!ListEntries
  <2>2. [of |-> u, whole |-> reload[u].tok = u] \in [of : Users, whole : BOOLEAN]
    <3>1. (reload[u].tok = u) \in BOOLEAN
      OBVIOUS
    <3> QED BY <3>1
  <2>3. history' = None \/ history' \in [of : Users, whole : BOOLEAN]
    BY <1>1, <1>4, <2>2 DEF Session!ListEntries, SessionRest
  <2>4. AuthTyped(auth)' /\ SessionFlags'
    BY <1>1, <1>4 DEF Session!ListEntries, AuthTyped, SessionFlags
  <2>5. SessionRest'
    BY <1>1, <1>4, <2>1, <2>3 DEF Session!ListEntries, SessionRest
  <2> QED BY <2>4, <2>5 DEF SessionTyped
<1>5. CASE Session!Reload
  <2>1. account.user \in Users
    BY <1>5, SessionShapes DEF Session!Reload
  <2>2. [reload[account.user] EXCEPT !.at = "token"] \in Reloads
    BY <1>1, <2>1 DEF Reloads
  <2>3. reload' = [reload EXCEPT ![account.user] = [reload[account.user] EXCEPT !.at = "token"]]
    BY <1>1, <1>5, <2>1 DEF Session!Reload
  <2>4. reload' \in [Users -> Reloads]
    BY <1>1, <2>1, <2>2, <2>3
  <2>5. AuthTyped(auth)' /\ SessionFlags'
    BY <1>1, <1>5 DEF Session!Reload, AuthTyped, SessionFlags
  <2>6. SessionRest'
    BY <1>1, <1>5, <2>4 DEF Session!Reload, SessionRest
  <2> QED BY <2>5, <2>6 DEF SessionTyped
<1>6. CASE Session!SetPicture \/ Session!UploadPicture
  <2>1. AuthTyped(auth)' /\ SessionFlags'
    BY <1>1, <1>6 DEF Session!SetPicture, Session!UploadPicture, AuthTyped, SessionFlags
  <2>2. account # None => account.user \in Users
    BY SessionShapes
  <2>3. /\ picture' \in [who : Session!Owner, at : {"idle", "upload", "store", "show"}]
        /\ picture'.at # "idle" => picture'.who \in Users
    <3>1. CASE Session!SetPicture
      BY <3>1, <2>2 DEF Session!SetPicture, Session!AccountOffers, Session!Routed, Session!Owner
    <3>2. CASE Session!UploadPicture
      BY <1>1, <3>2 DEF Session!UploadPicture, SessionRest, Session!NoPicture, Session!Owner
    <3> QED BY <1>6, <3>1, <3>2
  <2>4. SessionRest'
    BY <1>1, <1>6, <2>3 DEF Session!SetPicture, Session!UploadPicture, SessionRest
  <2> QED BY <2>1, <2>4 DEF SessionTyped
<1>7. CASE Session!StorePicture
  <2>1. AuthTyped(auth)' /\ SessionFlags'
    BY <1>1, <1>7 DEF Session!StorePicture, AuthTyped, SessionFlags
  <2>2. SessionRest'
    BY <1>1, <1>7 DEF Session!StorePicture, SessionRest, Session!Owner
  <2> QED BY <2>1, <2>2 DEF SessionTyped
<1>8. CASE Session!ShowPicture
  <2>1. AuthTyped(auth)' /\ SessionFlags'
    BY <1>1, <1>8 DEF Session!ShowPicture, AuthTyped, SessionFlags
  <2>2. [user |-> picture.who, dek |-> picture.who] \in Session!Account
    BY <1>1, <1>8 DEF Session!ShowPicture, SessionRest, Session!Account
  <2>3. Session!SetAccount([user |-> picture.who, dek |-> picture.who])
    BY <1>8 DEF Session!ShowPicture
  <2>4. /\ account' = None \/ account' \in Session!Account
        /\ history' = None \/ history' \in [of : Users, whole : BOOLEAN]
        /\ reload' \in [Users -> Reloads]
    BY <2>2, <2>3, SetAccountTyped
  <2>5. SessionRest'
    BY <1>1, <1>8, <2>4 DEF Session!ShowPicture, SessionRest, Session!NoPicture, Session!Owner
  <2> QED BY <2>1, <2>5 DEF SessionTyped
<1>9. CASE Session!Fail
  <2>1. AuthTyped(auth)'
    <3>1. CASE auth' = Session!Idle
      BY <3>1, IdleTyped DEF AuthTyped
    <3>2. CASE auth.at = "keys" /\ auth' = [auth EXCEPT !.at = "clear", !.todo = Session!Slots]
      <4>1. auth' \in AuthShape /\ auth'.at = "clear" /\ auth'.kind = auth.kind /\ auth'.who = auth.who
        BY <1>1, <3>2 DEF AuthShape
      <4> QED BY <3>2, <4>1, AuthMoves
    <3>3. CASE auth.at = "undevice" /\ auth' = [auth EXCEPT !.at = "revoke"]
      <4>1. auth' \in AuthShape /\ auth'.at = "revoke" /\ auth'.kind = auth.kind /\ auth'.who = auth.who
        BY <1>1, <3>3 DEF AuthShape
      <4>2. auth.kind = "out"
        BY <1>1, <3>3 DEF AuthTyped
      <4> QED BY <3>3, <4>1, <4>2, AuthMoves
    <3> QED BY <1>9, <3>1, <3>2, <3>3 DEF Session!Fail
  <2>2. SessionRest' /\ SessionFlags'
    BY <1>1, <1>2, <1>9 DEF Session!Fail, SessionRest, SessionFlags
  <2> QED BY <2>1, <2>2 DEF SessionTyped
<1>10. CASE Session!Kill
  <2>1. AuthTyped(auth)'
    BY <1>10, IdleTyped DEF Session!Kill, AuthTyped
  <2>2. SessionRest'
    BY <1>1, <1>2, <1>10 DEF Session!Kill, SessionRest, Session!NoPicture
  <2>3. SessionFlags'
    BY <1>10 DEF Session!Kill, SessionFlags, Session!Blank
  <2> QED BY <2>1, <2>2, <2>3 DEF SessionTyped
<1>11. CASE Session!LoadAccount
  <2>1. AuthTyped(auth)'
    BY <1>1, <1>11 DEF Session!LoadAccount, AuthTyped
  <2>2. SessionFlags'
    BY <1>1, <1>11 DEF Session!LoadAccount, SessionFlags
  <2>3. PICK acc : (acc = None \/ acc \in Session!Account) /\ Session!SetAccount(acc)
    <3> DEFINE acc == IF None \in {store["user"], store["dek"]} THEN None
                      ELSE [user |-> store["user"], dek |-> store["dek"]]
    <3>1. Session!SetAccount(acc)
      BY <1>11 DEF Session!LoadAccount
    <3>2. acc = None \/ acc \in Session!Account
      BY SessionShapes DEF Session!Account, Session!Owner
    <3> QED BY <3>1, <3>2
  <2>4. /\ account' = None \/ account' \in Session!Account
        /\ history' = None \/ history' \in [of : Users, whole : BOOLEAN]
        /\ reload' \in [Users -> Reloads]
    BY <2>3, SetAccountTyped
  <2>5. SessionRest'
    BY <1>1, <1>11, <2>4 DEF Session!LoadAccount, SessionRest
  <2> QED BY <2>1, <2>2, <2>5 DEF SessionTyped
<1> QED BY <1>3, <1>4, <1>5, <1>6, <1>7, <1>8, <1>9, <1>10, <1>11

LEMMA NextSessionTyped == ASSUME SessionTyped, [Session!Next]_Session!vars PROVE SessionTyped'
<1>1. CASE UNCHANGED Session!vars
  <2>1. AuthTyped(auth)' /\ SessionFlags'
    BY <1>1 DEF Session!vars, SessionTyped, AuthTyped, SessionFlags
  <2>2. SessionRest'
    BY <1>1 DEF Session!vars, SessionTyped, SessionRest
  <2> QED BY <2>1, <2>2 DEF SessionTyped
<1>2. CASE Session!Next
  BY <1>2, SignInSteps, SignOutSteps, ReadingSteps DEF Session!Next
<1> QED BY <1>1, <1>2

-----------------------------------------------------------------------------

Whole == store["user"] # None /\ store["dek"] # None

Forgotten == \A slot \in Session!Slots : store[slot] = None

\* What the store holds at each stage, of runs in which no kill cut a sign-in or
\* a sign-out short and no picture outlived its account: a sign-in starts from an
\* empty store and fills it slot by slot, a sign-out empties it the same way, and
\* in between an account has both its user and its key.
KeptParts ==
    /\ auth.kind = "in" => account = None
    /\ auth.kind = "out" => account # None
    /\ loading => Forgotten \/ Whole
    /\ ~loading /\ account = None /\ auth.at \in {"idle", "signup", "verify", "post"} => Forgotten
    /\ auth.at = "save" =>
         /\ auth.todo \subseteq {"cookie", "user"}
         /\ store["user"] = None => "user" \in auth.todo
         /\ \A slot \in auth.todo \cup {"dek"} : store[slot] = None
    /\ auth.kind = "in" /\ auth.at \in {"token", "mint", "keys", "dek"} => store["user"] # None
    /\ auth.at = "clear" => \A slot \in Session!Slots \ auth.todo : store[slot] = None
    /\ account # None /\ auth.at # "clear" => Whole

KeptInv ==
    /\ loading => auth.at = "idle" /\ account = None /\ picture.at = "idle"
    /\ cut = {} => KeptParts

LEMMA StoreForgotten == ASSUME SessionTyped PROVE Forgotten <=> store = Session!Empty
BY SessionShapes DEF Forgotten, Session!Empty

LEMMA InitKept == ASSUME Session!Init PROVE KeptInv
<1>1. auth.kind = "none" /\ auth.at = "idle" /\ account = None /\ ~loading
  BY DEF Session!Init, Session!Idle
<1>2. Forgotten
  BY DEF Session!Init, Session!Empty, Forgotten, Session!Slots
<1> QED BY <1>1, <1>2 DEF KeptInv, KeptParts

\* A step that leaves the store, the account and the sign-in alone.
LEMMA KeptStays ==
    ASSUME KeptInv, UNCHANGED <<store, account, loading, auth, cut>>,
           picture' = picture \/ ~loading
    PROVE  KeptInv'
BY DEF KeptInv, KeptParts, Forgotten, Whole

\* A sign-in or sign-out that goes on to its next request, or gives up.
LEMMA KeptMoves ==
    ASSUME SessionTyped, KeptInv, UNCHANGED <<store, account, loading, cut>>,
           auth.at # "idle", auth'.kind = auth.kind \/ auth'.kind = "none",
           \/ /\ auth.at \in {"token", "mint", "keys", "dek", "undevice", "revoke"}
              /\ auth'.at \in {"token", "mint", "keys", "dek", "undevice", "revoke"}
              /\ auth'.kind = auth.kind
           \/ auth'.at = "clear" /\ auth'.todo = Session!Slots /\ auth.at # "clear"
           \/ auth.at \in {"signup", "verify", "post"} /\ auth'.at \in {"idle", "post"}
           \/ auth.at = "post" /\ auth'.at = "save" /\ auth'.todo = {"cookie", "user"}
    PROVE  KeptInv'
<1>1. ~loading /\ (auth.at \in {"signup", "verify", "post"} => auth.kind = "in")
  BY DEF KeptInv, SessionTyped, AuthTyped
<1> SUFFICES ASSUME cut = {} PROVE KeptParts'
  BY <1>1 DEF KeptInv
<1>2. KeptParts
  BY DEF KeptInv
<1>3. auth.at \in {"signup", "verify", "post"} => account = None /\ Forgotten
  BY <1>1, <1>2 DEF KeptParts
<1>4. Forgotten => store["cookie"] = None /\ store["user"] = None /\ store["dek"] = None
  BY DEF Forgotten, Session!Slots
<1>5. Forgotten' = Forgotten /\ Whole' = Whole
  BY DEF Forgotten, Whole
<1>6. CASE /\ auth.at \in {"token", "mint", "keys", "dek", "undevice", "revoke"}
           /\ auth'.at \in {"token", "mint", "keys", "dek", "undevice", "revoke"}
           /\ auth'.kind = auth.kind
  <2>1. auth.kind = "in" => auth.at \in {"token", "mint", "keys", "dek"}
    BY <1>6 DEF SessionTyped, AuthTyped
  <2> QED BY <1>1, <1>2, <1>5, <1>6, <2>1 DEF KeptParts
<1>7. CASE auth'.at = "clear" /\ auth'.todo = Session!Slots /\ auth.at # "clear"
  <2>1. auth'.kind = "in" => account' = None
    BY <1>2 DEF KeptParts
  <2>2. auth'.kind = "out" => account' # None
    BY <1>2 DEF KeptParts
  <2>3. ~loading'
    BY <1>1
  <2>4. \A slot \in Session!Slots \ auth'.todo : store'[slot] = None
    BY <1>7
  <2> QED BY <1>7, <2>1, <2>2, <2>3, <2>4 DEF KeptParts
<1>8. CASE auth.at \in {"signup", "verify", "post"} /\ auth'.at \in {"idle", "post"}
  BY <1>1, <1>2, <1>3, <1>5, <1>8 DEF KeptParts
<1>9. CASE auth.at = "post" /\ auth'.at = "save" /\ auth'.todo = {"cookie", "user"}
  BY <1>1, <1>2, <1>3, <1>4, <1>5, <1>9 DEF KeptParts
<1> QED BY <1>6, <1>7, <1>8, <1>9

LEMMA KeptSignIn ==
    ASSUME SessionTyped, KeptInv,
           \/ \E u \in Users : Session!SubmitAs(u)
           \/ Session!ToggleCreating \/ Session!SignUp \/ Session!VerifyEmail
           \/ Session!SignInEmail \/ Session!Unlock
    PROVE  KeptInv'
<1> USE DEF Session!Server, Session!Tokens, Session!Reads
<1>1. auth \in AuthShape
  BY SessionShapes
<1>2. ASSUME NEW u \in Users, Session!SubmitAs(u) PROVE KeptInv'
  <2>1. auth'.kind = "in" /\ auth'.at \in {"verify", "signup", "post"}
    BY <1>2 DEF Session!SubmitAs, Session!Idle
  <2>2. UNCHANGED <<store, account, loading, cut>>
    BY <1>2 DEF Session!SubmitAs
  <2>3. ~loading /\ account = None /\ auth.at = "idle"
    <3>1. Session!FormOffers("submit")
      BY <1>2 DEF Session!SubmitAs
    <3>2. auth = Session!Idle /\ ~loading /\ account = None
      BY <3>1 DEF Session!FormOffers, Session!Routed
    <3> QED BY <3>2 DEF Session!Idle
  <2>4. cut = {} => Forgotten
    BY <2>3 DEF KeptInv, KeptParts
  <2>5. Forgotten' = Forgotten
    BY <2>2 DEF Forgotten
  <2> QED BY <2>1, <2>2, <2>3, <2>4, <2>5 DEF KeptInv, KeptParts
<1>3. CASE Session!ToggleCreating
  BY <1>3, KeptStays DEF Session!ToggleCreating
<1>4. CASE Session!SignUp
  <2>1. auth'.kind \in {auth.kind, "none"} /\ auth'.at \in {"idle", "post"}
    BY <1>1, <1>4 DEF Session!SignUp, Session!Idle, AuthShape
  <2>2. auth.at = "signup" /\ UNCHANGED <<store, account, loading, cut>>
    BY <1>4 DEF Session!SignUp
  <2> QED BY <2>1, <2>2, KeptMoves
<1>5. CASE Session!VerifyEmail
  <2>1. auth'.kind \in {auth.kind, "none"} /\ auth'.at \in {"idle", "post"}
    BY <1>1, <1>5 DEF Session!VerifyEmail, Session!Idle, AuthShape
  <2>2. auth.at = "verify" /\ UNCHANGED <<store, account, loading, cut>>
    BY <1>5 DEF Session!VerifyEmail
  <2> QED BY <2>1, <2>2, KeptMoves
<1>6. CASE Session!SignInEmail
  <2>1. /\ auth'.kind \in {auth.kind, "none"}
        /\ auth'.at = "idle" \/ (auth'.at = "save" /\ auth'.todo = {"cookie", "user"})
    <3>1. auth' = Session!Idle \/ auth' = [auth EXCEPT !.at = "save", !.todo = {"cookie", "user"}]
      BY <1>6 DEF Session!SignInEmail
    <3>2. CASE auth' = Session!Idle
      BY <3>2 DEF Session!Idle
    <3>3. CASE auth' = [auth EXCEPT !.at = "save", !.todo = {"cookie", "user"}]
      BY <1>1, <3>3 DEF AuthShape
    <3> QED BY <3>1, <3>2, <3>3
  <2>2. auth.at = "post" /\ UNCHANGED <<store, account, loading, cut>>
    BY <1>6 DEF Session!SignInEmail
  <2> QED BY <2>1, <2>2, KeptMoves
<1>7. CASE Session!Unlock
  <2>1. /\ auth'.kind = auth.kind
        /\ auth'.at = "dek" \/ (auth'.at = "clear" /\ auth'.todo = Session!Slots)
    BY <1>1, <1>7 DEF Session!Unlock, AuthShape
  <2>2. auth.at = "keys" /\ UNCHANGED <<store, account, loading, cut>>
    BY <1>7 DEF Session!Unlock
  <2> QED BY <2>1, <2>2, KeptMoves
<1> QED BY <1>2, <1>3, <1>4, <1>5, <1>6, <1>7

\* The slots of a sign-in are written one by one, the key last.
LEMMA KeptSaves ==
    ASSUME SessionTyped, KeptInv,
           (\E slot \in Session!Slots : Session!SaveSession(slot)) \/ Session!SignedIn
    PROVE  KeptInv'
<1> USE DEF Session!Server, Session!Tokens, Session!Reads
<1>1. /\ auth \in AuthShape /\ store \in [Session!Slots -> Session!Owner]
      /\ auth.at \in {"save", "dek"} => auth.kind = "in" /\ auth.who \in Users /\ auth.who # None
                                        /\ ~loading
  BY SessionShapes, SessionNames DEF SessionTyped, AuthTyped, KeptInv
<1>2. ASSUME NEW slot \in Session!Slots, Session!SaveSession(slot) PROVE KeptInv'
  <2>1. auth.at = "save" /\ slot \in auth.todo /\ UNCHANGED <<account, loading, cut>>
    BY <1>2 DEF Session!SaveSession
  <2>2. \A s \in Session!Slots : store'[s] = IF s = slot THEN auth.who ELSE store[s]
    BY <1>1, <1>2 DEF Session!SaveSession
  <2> SUFFICES ASSUME cut = {} PROVE KeptParts'
    BY <1>1, <2>1 DEF KeptInv
  <2>3. /\ auth.todo \subseteq {"cookie", "user"} /\ account = None
        /\ store["user"] = None => "user" \in auth.todo
        /\ \A s \in auth.todo \cup {"dek"} : store[s] = None
    BY <1>1, <2>1 DEF KeptInv, KeptParts
  <2>4. "user" \in Session!Slots /\ "dek" \in Session!Slots /\ auth.todo \subseteq Session!Slots
    BY <1>1 DEF Session!Slots, AuthShape
  <2>5. CASE auth.todo = {slot}
    <3>1. auth'.kind = "in" /\ auth'.at = "token"
      BY <1>1, <1>2, <2>1, <2>5 DEF Session!SaveSession, AuthShape
    <3>2. store'["user"] # None
      BY <1>1, <2>1, <2>2, <2>3, <2>4, <2>5
    <3> QED BY <1>1, <2>1, <2>3, <3>1, <3>2 DEF KeptParts
  <2>6. CASE auth.todo # {slot}
    <3>1. auth'.kind = "in" /\ auth'.at = "save" /\ auth'.todo = auth.todo \ {slot}
      BY <1>1, <1>2, <2>1, <2>6 DEF Session!SaveSession, AuthShape
    <3>2. store'["user"] = None => "user" \in auth'.todo
      BY <1>1, <2>1, <2>2, <2>3, <2>4, <3>1
    <3>3. \A s \in auth'.todo \cup {"dek"} : store'[s] = None
      BY <2>1, <2>2, <2>3, <2>4, <3>1
    <3> QED BY <1>1, <2>1, <2>3, <3>1, <3>2, <3>3 DEF KeptParts
  <2> QED BY <2>5, <2>6
<1>3. CASE Session!SignedIn
  <2>1. auth.at = "dek" /\ UNCHANGED <<loading, cut>> /\ account' = [user |-> auth.who, dek |-> auth.who]
    BY <1>3 DEF Session!SignedIn, Session!SetAccount
  <2>2. account' # None
    BY <1>1, <2>1, SessionNames
  <2>3. auth'.kind = "none" /\ auth'.at = "idle"
    BY <1>3 DEF Session!SignedIn, Session!Idle
  <2>4. store'["dek"] = auth.who /\ store'["user"] = store["user"]
    BY <1>1, <1>3 DEF Session!SignedIn, Session!Slots
  <2>5. cut = {} => Whole'
    BY <1>1, <2>1, <2>4 DEF KeptInv, KeptParts, Whole
  <2> QED BY <1>1, <2>1, <2>2, <2>3, <2>5 DEF KeptInv, KeptParts
<1> QED BY <1>2, <1>3

\* A sign-out, and the clearing it ends with, which a failed sign-in ends with too.
LEMMA KeptSignOut ==
    ASSUME SessionTyped, KeptInv,
           \/ Session!SignOut \/ Session!RemoveDevice \/ Session!Revoke
           \/ \E slot \in Session!Slots : Session!Clear(slot)
    PROVE  KeptInv'
<1> USE DEF Session!Server, Session!Tokens, Session!Reads
<1>1. auth \in AuthShape /\ store \in [Session!Slots -> Session!Owner]
      /\ auth.todo \subseteq Session!Slots
  BY SessionShapes DEF AuthShape
<1>2. CASE Session!SignOut
  <2>1. Session!AccountOffers("sign-out") /\ auth = Session!Idle /\ UNCHANGED <<store, account, loading, cut>>
    BY <1>2 DEF Session!SignOut
  <2>2. ~loading /\ account # None
    BY <2>1 DEF Session!AccountOffers, Session!Routed
  <2>3. auth.at = "idle"
    BY <2>1 DEF Session!Idle
  <2>4. auth' = [Session!Idle EXCEPT !.kind = "out", !.who = account.user, !.at = "token"]
    BY <1>2 DEF Session!SignOut
  <2>5. auth'.kind = "out" /\ auth'.at = "token"
    BY <2>4 DEF Session!Idle
  <2>6. cut = {} => Whole
    BY <2>2, <2>3 DEF KeptInv, KeptParts
  <2>7. Whole' = Whole
    BY <2>1 DEF Whole
  <2> QED BY <2>1, <2>2, <2>5, <2>6, <2>7 DEF KeptInv, KeptParts
<1>3. CASE Session!RemoveDevice
  <2>1. auth.at = "undevice" /\ UNCHANGED <<store, account, loading, cut>>
    BY <1>3 DEF Session!RemoveDevice
  <2>2. auth'.at = "revoke" /\ auth'.kind = auth.kind
    BY <1>1, <1>3 DEF Session!RemoveDevice, AuthShape
  <2> QED BY <2>1, <2>2, KeptMoves
<1>4. CASE Session!Revoke
  <2>1. auth.at = "revoke" /\ UNCHANGED <<store, account, loading, cut>>
    BY <1>4 DEF Session!Revoke
  <2>2. auth'.at = "clear" /\ auth'.kind = auth.kind /\ auth'.todo = Session!Slots
    BY <1>1, <1>4 DEF Session!Revoke, AuthShape
  <2> QED BY <2>1, <2>2, KeptMoves
<1>5. ASSUME NEW slot \in Session!Slots, Session!Clear(slot) PROVE KeptInv'
  <2>1. auth.at = "clear" /\ slot \in auth.todo /\ UNCHANGED <<loading, cut>> /\ ~loading
        /\ auth.kind \in {"in", "out"}
    BY <1>1, <1>5 DEF Session!Clear, KeptInv, SessionTyped, AuthTyped, AuthShape
  <2>2. \A s \in Session!Slots : store'[s] = IF s = slot THEN None ELSE store[s]
    BY <1>1, <1>5 DEF Session!Clear
  <2> SUFFICES ASSUME cut = {} PROVE KeptParts'
    BY <2>1 DEF KeptInv
  <2>3. /\ auth.kind = "in" => account = None
        /\ auth.kind = "out" => account # None
        /\ \A s \in Session!Slots \ auth.todo : store[s] = None
    BY <2>1 DEF KeptInv, KeptParts
  <2>4. CASE auth.todo # {slot}
    <3>1. auth' = [auth EXCEPT !.todo = @ \ {slot}] /\ UNCHANGED account
      BY <1>5, <2>4 DEF Session!Clear
    <3>2. auth'.kind = auth.kind /\ auth'.at = "clear" /\ auth'.todo = auth.todo \ {slot}
      BY <1>1, <2>1, <3>1 DEF AuthShape
    <3>3. \A s \in Session!Slots \ auth'.todo : store'[s] = None
      BY <2>2, <2>3, <3>2
    <3> QED BY <2>1, <2>3, <3>1, <3>2, <3>3 DEF KeptParts
  <2>5. CASE auth.todo = {slot}
    <3>1. auth' = Session!Idle /\ (account' = None \/ (auth.kind # "out" /\ account' = account))
      BY <1>5, <2>5 DEF Session!Clear, Session!SetAccount
    <3>2. account' = None
      BY <2>1, <2>3, <3>1
    <3>3. auth'.kind = "none" /\ auth'.at = "idle"
      BY <3>1 DEF Session!Idle
    <3>4. Forgotten'
      BY <2>2, <2>3, <2>5 DEF Forgotten
    <3> QED BY <2>1, <3>2, <3>3, <3>4 DEF KeptParts
  <2> QED BY <2>4, <2>5
<1> QED BY <1>2, <1>3, <1>4, <1>5

\* A sign-in or sign-out that asked for a token goes on, or gives up.
LEMMA KeptAsked ==
    ASSUME SessionTyped, KeptInv, auth.at \in {"token", "mint"}, NEW tok \in Session!Owner,
           \/ auth' = Session!Refused(auth)
           \/ auth' = Session!Given(auth, tok)
           \/ auth' = [auth EXCEPT !.at = "mint"],
           UNCHANGED <<store, account, loading, cut>>
    PROVE  KeptInv'
<1>1. auth \in AuthShape /\ auth.at # "idle"
  BY SessionShapes
<1>2. /\ auth'.kind = auth.kind
      /\ \/ auth'.at \in {"mint", "keys", "undevice", "revoke"}
         \/ auth'.at = "clear" /\ auth'.todo = Session!Slots
  <2>1. CASE auth' = Session!Refused(auth)
    BY <1>1, <2>1 DEF Session!Refused, AuthShape
  <2>2. CASE auth' = Session!Given(auth, tok)
    BY <1>1, <2>2 DEF Session!Given, AuthShape
  <2>3. CASE auth' = [auth EXCEPT !.at = "mint"]
    BY <1>1, <2>3 DEF AuthShape
  <2> QED BY <2>1, <2>2, <2>3
<1> QED BY <1>1, <1>2, KeptMoves

LEMMA KeptTokens ==
    ASSUME SessionTyped, KeptInv,
           \/ Session!AuthAsks \/ Session!Mint \/ Session!Expire \/ Session!Reload
           \/ \E u \in Users : Session!ReloadAsks(u) \/ Session!ListEntries(u)
    PROVE  KeptInv'
<1> USE DEF Session!Server, Session!Tokens, Session!Reads
<1>1. CASE Session!AuthAsks
  <2>1. auth.at = "token" /\ Session!Asked.tok \in Session!Owner /\ UNCHANGED <<store, account, loading, cut>>
    BY <1>1, AskedShape DEF Session!AuthAsks
  <2>2. \/ auth' = Session!Refused(auth)
        \/ auth' = Session!Given(auth, Session!Asked.tok)
        \/ auth' = [auth EXCEPT !.at = "mint"]
    BY <1>1 DEF Session!AuthAsks
  <2> QED BY <2>1, <2>2, KeptAsked
<1>2. CASE Session!Mint
  <2>1. minting \in Session!Owner /\ UNCHANGED <<store, account, loading, cut>>
    BY <1>2, SessionShapes DEF Session!Mint
  <2>2. CASE auth.at = "mint"
    <3>1. auth' = Session!Refused(auth) \/ auth' = Session!Given(auth, minting)
      BY <1>2, <2>2 DEF Session!Mint
    <3> QED BY <2>1, <2>2, <3>1, KeptAsked
  <2>3. CASE auth.at # "mint"
    <3>1. auth' = auth /\ picture' = picture
      BY <1>2, <2>3 DEF Session!Mint
    <3> QED BY <2>1, <3>1, KeptStays
  <2> QED BY <2>2, <2>3
<1>3. CASE Session!Expire \/ Session!Reload
  <2>1. UNCHANGED <<store, account, loading, auth, cut, picture>>
    BY <1>3 DEF Session!Expire, Session!Reload
  <2> QED BY <2>1, KeptStays
<1>4. ASSUME NEW u \in Users, Session!ReloadAsks(u) \/ Session!ListEntries(u) PROVE KeptInv'
  <2>1. UNCHANGED <<store, account, loading, auth, cut, picture>>
    BY <1>4 DEF Session!ReloadAsks, Session!ListEntries
  <2> QED BY <2>1, KeptStays
<1> QED BY <1>1, <1>2, <1>3, <1>4

\* The new picture's account is written over the stored one and set: the same
\* one, unless the picture outlived its account.
LEMMA KeptPictures ==
    ASSUME SessionTyped, KeptInv,
           \/ Session!SetPicture \/ Session!UploadPicture
           \/ Session!StorePicture \/ Session!ShowPicture
    PROVE  KeptInv'
<1> USE DEF Session!Server, Session!Tokens, Session!Reads
<1>1. CASE Session!SetPicture \/ Session!UploadPicture
  <2>1. UNCHANGED <<store, account, loading, auth, cut>>
    BY <1>1 DEF Session!SetPicture, Session!UploadPicture
  <2>2. ~loading
    BY <1>1 DEF Session!SetPicture, Session!UploadPicture, Session!AccountOffers, Session!Routed, KeptInv
  <2> QED BY <2>1, <2>2, KeptStays
<1>2. CASE Session!StorePicture
  <2>1. UNCHANGED <<account, loading, auth>> /\ ~loading /\ store' = [store EXCEPT !["user"] = picture.who]
        /\ cut' = IF store["user"] # picture.who THEN cut \cup {"picture"} ELSE cut
    BY <1>2 DEF Session!StorePicture, KeptInv
  <2>2. CASE store["user"] # picture.who
    <3>1. cut' # {}
      BY <2>1, <2>2
    <3> QED BY <2>1, <3>1 DEF KeptInv
  <2>3. CASE store["user"] = picture.who
    <3>1. store' = store /\ cut' = cut
      BY <2>1, <2>3, SessionShapes
    <3> QED BY <2>1, <3>1, KeptStays
  <2> QED BY <2>2, <2>3
<1>3. CASE Session!ShowPicture
  <2>1. /\ UNCHANGED <<store, loading, auth>>
        /\ account' = [user |-> picture.who, dek |-> picture.who]
        /\ picture.at = "show" /\ ~loading
        /\ cut' = IF account = None \/ account.user # picture.who THEN cut \cup {"picture"} ELSE cut
    BY <1>3 DEF Session!ShowPicture, Session!SetAccount, KeptInv
  <2>2. account' # None
    BY <2>1, SessionNames DEF SessionTyped, SessionRest
  <2>3. CASE account = None
    <3>1. cut' # {}
      BY <2>1, <2>3
    <3> QED BY <2>1, <3>1 DEF KeptInv
  <2>4. CASE account # None
    <3>1. cut' = {} => cut = {}
      BY <2>1, <2>4
    <3>2. Whole' = Whole /\ Forgotten' = Forgotten
      BY <2>1 DEF Whole, Forgotten
    <3>3. cut = {} => auth.kind # "in" /\ (auth.at # "clear" => Whole)
                      /\ (auth.at = "clear" => \A slot \in Session!Slots \ auth.todo : store[slot] = None)
      BY <2>4 DEF KeptInv, KeptParts
    <3>4. auth.at = "save" => auth.kind = "in"
      BY DEF SessionTyped, AuthTyped
    <3> QED BY <2>1, <2>2, <3>1, <3>2, <3>3, <3>4 DEF KeptInv, KeptParts
  <2> QED BY <2>3, <2>4
<1> QED BY <1>1, <1>2, <1>3

\* What the kill of the app and its next launch do with the store: nothing, and
\* an account of a user and a key.
LEMMA KeptFailures ==
    ASSUME SessionTyped, KeptInv, Session!Fail \/ Session!Kill \/ Session!LoadAccount
    PROVE  KeptInv'
<1> USE DEF Session!Server, Session!Tokens, Session!Reads
<1>1. CASE Session!Fail
  <2>1. auth \in AuthShape /\ UNCHANGED <<store, account, loading, cut>>
    BY <1>1, SessionShapes DEF Session!Fail
  <2>2. \/ auth.at \in {"signup", "verify", "post"} /\ auth' = Session!Idle
        \/ auth.at = "keys" /\ auth' = [auth EXCEPT !.at = "clear", !.todo = Session!Slots]
        \/ auth.at = "undevice" /\ auth' = [auth EXCEPT !.at = "revoke"]
    BY <1>1 DEF Session!Fail
  <2>3. CASE auth.at \in {"signup", "verify", "post"} /\ auth' = Session!Idle
    <3>1. auth'.kind = "none" /\ auth'.at = "idle"
      BY <2>3 DEF Session!Idle
    <3> QED BY <2>1, <2>3, <3>1, KeptMoves
  <2>4. CASE auth.at = "keys" /\ auth' = [auth EXCEPT !.at = "clear", !.todo = Session!Slots]
    <3>1. auth'.kind = auth.kind /\ auth'.at = "clear" /\ auth'.todo = Session!Slots
      BY <2>1, <2>4 DEF AuthShape
    <3> QED BY <2>1, <2>4, <3>1, KeptMoves
  <2>5. CASE auth.at = "undevice" /\ auth' = [auth EXCEPT !.at = "revoke"]
    <3>1. auth'.kind = auth.kind /\ auth'.at = "revoke"
      BY <2>1, <2>5 DEF AuthShape
    <3> QED BY <2>1, <2>5, <3>1, KeptMoves
  <2> QED BY <2>2, <2>3, <2>4, <2>5
<1>2. CASE Session!Kill
  <2>1. /\ loading' /\ account' = None /\ store' = store
        /\ auth' = Session!Idle /\ picture' = Session!NoPicture
        /\ cut' = CASE auth.at = "clear" -> cut \cup {"clear"}
                   [] auth.kind = "in" /\ auth.at # "clear" -> cut \cup {"save"}
                   [] OTHER -> cut
    BY <1>2 DEF Session!Kill
  <2>2. auth'.kind = "none" /\ auth'.at = "idle" /\ picture'.at = "idle"
    BY <2>1 DEF Session!Idle, Session!NoPicture
  <2>3. cut' = {} => cut = {} /\ auth.at # "clear" /\ auth.kind # "in"
    BY <2>1
  <2>4. auth.kind \in {"none", "in", "out"} /\ (auth.kind = "none" => auth.at = "idle")
    BY DEF SessionTyped, AuthTyped, AuthShape
  <2>5. cut' = {} => Forgotten \/ Whole
    BY <2>3, <2>4 DEF KeptInv, KeptParts
  <2>6. Forgotten' = Forgotten /\ Whole' = Whole
    BY <2>1 DEF Forgotten, Whole
  <2> QED BY <2>1, <2>2, <2>5, <2>6 DEF KeptInv, KeptParts
<1>3. CASE Session!LoadAccount
  <2>1. /\ loading /\ ~loading' /\ UNCHANGED <<store, auth, picture, cut>>
        /\ account' = IF None \in {store["user"], store["dek"]} THEN None
                      ELSE [user |-> store["user"], dek |-> store["dek"]]
    BY <1>3 DEF Session!LoadAccount, Session!SetAccount
  <2>2. auth.at = "idle" /\ auth.kind = "none"
    BY <2>1 DEF KeptInv, SessionTyped, AuthTyped
  <2>3. Forgotten' = Forgotten /\ Whole' = Whole
    BY <2>1 DEF Forgotten, Whole
  <2>4. cut = {} => Forgotten \/ Whole
    BY <2>1 DEF KeptInv, KeptParts
  <2>5. account' # None => Whole
    BY <2>1 DEF Whole
  <2>6. Whole => account' # None
    <3>1. Whole => account' = [user |-> store["user"], dek |-> store["dek"]]
      BY <2>1 DEF Whole
    <3>2. Whole => store["user"] \in Users /\ store["dek"] \in Users
      BY SessionShapes DEF Whole, Session!Owner
    <3> QED BY <3>1, <3>2, SessionNames
  <2> QED BY <2>1, <2>2, <2>3, <2>4, <2>5, <2>6 DEF KeptInv, KeptParts
<1> QED BY <1>1, <1>2, <1>3

\* The invariant of the session's machine, where it is the one that moves.
SessionInv == part = "session" => SessionTyped /\ KeptInv

LEMMA InitSession == AnyInit => SessionInv
BY InitSessionTyped, InitKept DEF AnyInit, SessionInv

LEMMA NextSession == SessionInv /\ [AnyNext]_<<part, timer, log, session, keys, pad>> => SessionInv'
<1> SUFFICES ASSUME SessionInv, [AnyNext]_<<part, timer, log, session, keys, pad>>, part' = "session"
             PROVE  (SessionTyped /\ KeptInv)'
  BY DEF SessionInv
<1>1. part = "session" /\ [Session!Next]_Session!vars
  <2>1. CASE UNCHANGED <<part, timer, log, session, keys, pad>>
    BY <2>1 DEF Session!vars, session
  <2>2. CASE AnyNext
    BY <2>2 DEF AnyNext
  <2> QED BY <2>1, <2>2
<1>2. SessionTyped /\ KeptInv
  BY <1>1 DEF SessionInv
<1>3. SessionTyped'
  BY <1>1, <1>2, NextSessionTyped
<1>4. KeptInv'
  <2>1. CASE UNCHANGED Session!vars
    <3>1. UNCHANGED <<store, account, loading, auth, cut, picture>>
      BY <2>1 DEF Session!vars
    <3> QED BY <1>2, <3>1, KeptStays
  <2>2. CASE Session!Next
    BY <1>2, <2>2, KeptSignIn, KeptSaves, KeptSignOut, KeptTokens, KeptPictures, KeptFailures
       DEF Session!Next
  <2> QED BY <1>1, <2>1, <2>2
<1> QED BY <1>3, <1>4

\* What the store holds at every stage of a sign-in or a sign-out.
THEOREM SessionInvariant == AnySpec => []SessionInv
BY InitSession, NextSession, PTL DEF AnySpec

\* Signed out means forgotten: with nobody signed in and nothing under way, the
\* phone keeps neither a session nor a key.
THEOREM NothingStaysKept == AnySpec => []NothingKept
<1>1. SessionInv => NothingKept
  <2> SUFFICES ASSUME SessionInv, part = "session", cut = {}, account = None, ~loading,
                      auth = Session!Idle
               PROVE  store = Session!Empty
    BY DEF NothingKept, Session!NothingKept
  <2>1. SessionTyped /\ KeptInv /\ auth.at = "idle"
    BY DEF SessionInv, Session!Idle
  <2> QED BY <2>1, StoreForgotten DEF KeptInv, KeptParts
<1> QED BY <1>1, SessionInvariant, PTL

-----------------------------------------------------------------------------
(* The pad *)

Reports == [html : Pad!Text, base : Pad!Text]

\* The state of the editor, of the page and of the pad.
PadShapes ==
    /\ typing \in Pad!Text /\ last \in Pad!Text /\ unreported \in BOOLEAN
    /\ posted \in Seq(Reports)
    /\ value \in Pad!Text /\ given \in Seq(Pad!Text)
    /\ text \in Pad!Text
    /\ typed \in Pad!Text /\ others \in Pad!Text /\ gone \in Pad!Text

PadSyncs == [at : {"idle", "read", "put", "answer", "reread"}, synced : Pad!Text,
             remote : Pad!Record, next : Pad!Text, tries : 0..1]

PadRecords == agreed \in Pad!Record /\ padRecord \in Pad!Record /\ sync \in PadSyncs

LEMMA PadTypes == PadShapes /\ PadRecords => Pad!TypeOK
BY DEF PadShapes, PadRecords, PadSyncs, Reports, Pad!TypeOK, Pad!history

\* In a report on its way to the page.
Reported(l) == \E i \in DOMAIN posted : l \in posted[i].html

\* What the editor and the page make of the user's lines: a report takes out
\* only what someone took out, and was made over what the pad then has.
WayInv ==
    /\ \A l \in typed \ gone : l \in text \/ Reported(l) \/ (unreported = TRUE /\ l \in typing)
    /\ last \ typing \subseteq gone
    /\ \A l \in last \ gone : l \in text \/ Reported(l)
    /\ \A i \in DOMAIN posted :
        /\ posted[i].base \ posted[i].html \subseteq gone
        /\ \A l \in posted[i].base \ gone : l \in text \/ \E j \in 1..(i - 1) : l \in posted[j].html
    /\ \A i \in DOMAIN given : given[i] \ gone \subseteq text

\* A version names one record.
SameRecord(remote) ==
    remote.version <= padRecord.version
        /\ (remote.version = padRecord.version => remote = padRecord)

\* What a sync makes of the lines of the record and of the pad: whatever it
\* agrees with or writes has all that nobody took out.
AgreedInv ==
    /\ others \ gone \subseteq padRecord.html
    /\ SameRecord(agreed)
    /\ agreed.html \ gone \subseteq padRecord.html \cap text
    /\ sync.at # "idle" => sync.synced \ gone \subseteq text /\ agreed.html \ gone \subseteq sync.synced
    /\ sync.at \in {"put", "answer"} => SameRecord(sync.remote)
    /\ sync.at = "put" => (sync.synced \cup sync.remote.html) \ gone \subseteq sync.next
    /\ sync.at = "answer" => /\ sync.synced \ gone \subseteq sync.remote.html
                             /\ sync.remote.html \ gone \subseteq padRecord.html

PadInv == PadShapes /\ PadRecords /\ WayInv /\ AgreedInv

LEMMA RestingTyped == Pad!Resting \in PadSyncs /\ Pad!Resting.at = "idle" /\ Pad!NoRecord \in Pad!Record
BY DEF Pad!Resting, Pad!NoRecord, Pad!Record, PadSyncs, Pad!Text

LEMMA InitPad == ASSUME Pad!Init PROVE PadInv
<1>1. PICK here \in SUBSET {Pad!Open(t) : t \in Todo}, there \in SUBSET {Pad!Open(t) : t \in Todo} :
        /\ text = here
        /\ padRecord = [version |-> IF there = {} THEN 0 ELSE 1, html |-> there]
        /\ agreed \in {Pad!NoRecord, padRecord}
        /\ agreed # Pad!NoRecord => here = there
        /\ typed = here /\ others = there
  BY DEF Pad!Init
<1>2. /\ typing = text /\ last = text /\ value = text /\ unreported = FALSE
      /\ posted = <<>> /\ given = <<>> /\ sync = Pad!Resting /\ gone = {}
  BY DEF Pad!Init
<1>3. \A t \in Todo : Pad!Open(t) \in Pad!Line
  BY DEF Pad!Open, Pad!Line
<1>4. here \in Pad!Text /\ there \in Pad!Text /\ {} \in Pad!Text
  BY <1>3 DEF Pad!Text
<1>5. PadShapes
  <2>1. posted \in Seq(Reports) /\ given \in Seq(Pad!Text)
    BY <1>2
  <2>2. text \in Pad!Text /\ typed \in Pad!Text /\ others \in Pad!Text /\ gone \in Pad!Text
    BY <1>1, <1>2, <1>4
  <2>3. unreported \in BOOLEAN
    BY <1>2
  <2> QED BY <1>2, <2>1, <2>2, <2>3 DEF PadShapes
<1>6. padRecord \in Pad!Record
  BY <1>1, <1>4 DEF Pad!Record
<1>7. PadRecords
  BY <1>1, <1>2, <1>6, RestingTyped DEF PadRecords
<1>8. WayInv
  BY <1>1, <1>2 DEF WayInv
<1>9. SameRecord(agreed) /\ agreed.html \subseteq padRecord.html \cap text
  <2>1. CASE agreed = padRecord
    <3>1. padRecord.version <= padRecord.version /\ padRecord.html = there
      BY <1>1, <1>6 DEF Pad!Record
    <3>2. there \subseteq here
      <4>1. CASE agreed = Pad!NoRecord
        <5>1. there = {}
          BY <2>1, <4>1, <3>1 DEF Pad!NoRecord
        <5> QED BY <5>1
      <4>2. CASE agreed # Pad!NoRecord
        BY <1>1, <4>2
      <4> QED BY <4>1, <4>2
    <3> QED BY <1>1, <2>1, <3>1, <3>2 DEF SameRecord
  <2>2. CASE agreed = Pad!NoRecord
    <3>1. agreed.version = 0 /\ agreed.html = {}
      BY <2>2 DEF Pad!NoRecord
    <3>2. padRecord.version = 0 => there = {}
      BY <1>1
    <3>3. padRecord.version = 0 => padRecord = Pad!NoRecord
      BY <1>1, <3>2 DEF Pad!NoRecord
    <3>4. padRecord.version \in Nat
      BY <1>6 DEF Pad!Record
    <3> QED BY <2>2, <3>1, <3>3, <3>4 DEF SameRecord
  <2> QED BY <1>1, <2>1, <2>2
<1>10. others \subseteq padRecord.html
  BY <1>1
<1>11. AgreedInv
  BY <1>2, <1>9, <1>10, RestingTyped DEF AgreedInv
<1> QED BY <1>5, <1>7, <1>8, <1>11 DEF PadInv

\* A line stays on its way while the pad loses only what someone took out, and
\* the page hands the editor what the pad has.
LEMMA WayStays ==
    ASSUME WayInv, given \in Seq(Pad!Text), UNCHANGED <<typing, last, unreported, posted>>,
           typed' \subseteq typed \cup text', gone \subseteq gone', text \ gone' \subseteq text',
           given' = given \/ given' = Append(given, text'), text' \in Pad!Text
    PROVE  WayInv'
<1>1. \A l : Reported(l)' <=> Reported(l)
  BY DEF Reported
<1>2. \A l \in typed' \ gone' : l \in text' \/ Reported(l) \/ (unreported = TRUE /\ l \in typing)
  BY DEF WayInv
<1>3. \A l \in last \ gone' : l \in text' \/ Reported(l)
  BY DEF WayInv
<1>4. \A i \in DOMAIN posted :
        /\ posted[i].base \ posted[i].html \subseteq gone'
        /\ \A l \in posted[i].base \ gone' : l \in text' \/ \E j \in 1..(i - 1) : l \in posted[j].html
  BY DEF WayInv
<1>5. \A i \in DOMAIN given' : given'[i] \ gone' \subseteq text'
  <2>1. CASE given' = given
    BY <2>1 DEF WayInv
  <2>2. CASE given' = Append(given, text')
    <3>1. \A i \in DOMAIN given' : given'[i] = text' \/ (i \in DOMAIN given /\ given'[i] = given[i])
      BY <2>2
    <3> QED BY <3>1 DEF WayInv
  <2> QED BY <2>1, <2>2
<1>6. last' \ typing' \subseteq gone'
  BY DEF WayInv
<1> QED BY <1>1, <1>2, <1>3, <1>4, <1>5, <1>6 DEF WayInv

\* The same for the records: nothing is agreed or written but what was before.
LEMMA AgreedStays ==
    ASSUME AgreedInv, UNCHANGED <<agreed, padRecord, sync, others>>,
           gone \subseteq gone', text \ gone' \subseteq text'
    PROVE  AgreedInv'
<1>1. \A remote : SameRecord(remote)' <=> SameRecord(remote)'
  OBVIOUS
<1>2. SameRecord(agreed)' /\ (sync.at \in {"put", "answer"} => SameRecord(sync.remote)')
  BY DEF AgreedInv, SameRecord
<1> QED BY <1>2 DEF AgreedInv

\* What the user changes, adds to or takes out of a text.
LEMMA ChangesAre ==
    ASSUME NEW was, NEW now \in Pad!Changes(was), was \in Pad!Text
    PROVE  /\ now.html \in Pad!Text /\ now.new \in Pad!Text /\ now.out \in Pad!Text
           /\ now.new \subseteq now.html /\ was \ now.out \subseteq now.html
<1>1. \A t \in Todo : Pad!Done(t) \in Pad!Line
  BY DEF Pad!Done, Pad!Line
<1>2. CASE \E l \in Pad!Line : now = [html |-> was \cup {l}, new |-> {l}, out |-> {}]
  BY <1>2 DEF Pad!Text
<1>3. CASE \E l \in was : now = [html |-> was \ {l}, new |-> {}, out |-> {l}]
  BY <1>3 DEF Pad!Text
<1>4. CASE \E t \in Todo : /\ Pad!Open(t) \in was
                           /\ now = [html |-> (was \ {Pad!Open(t)}) \cup {Pad!Done(t)},
                                     new |-> {Pad!Done(t)}, out |-> {Pad!Open(t)}]
  BY <1>1, <1>4 DEF Pad!Text
<1> QED BY <1>2, <1>3, <1>4 DEF Pad!Changes

\* The editor reports what it shows.
LEMMA ReportKeeps ==
    ASSUME PadShapes, WayInv, Pad!Report, UNCHANGED <<typing, text, typed, gone>>,
           given' = given \/ (given # <<>> /\ given' = Tail(given))
    PROVE  /\ WayInv'
           /\ posted' \in Seq(Reports) /\ last' \in Pad!Text /\ unreported' \in BOOLEAN
           /\ given' \in Seq(Pad!Text)
<1> DEFINE new == [html |-> typing, base |-> last]
<1>1. posted' = Append(posted, new) /\ last' = typing /\ unreported' = FALSE
  BY DEF Pad!Report
<1>2. /\ posted \in Seq(Reports) /\ typing \in Pad!Text /\ last \in Pad!Text /\ given \in Seq(Pad!Text)
      /\ new \in Reports
  BY DEF PadShapes, Reports
<1>3. new.html = typing /\ new.base = last
  OBVIOUS
<1> HIDE DEF new
<1>4. /\ posted' \in Seq(Reports) /\ Len(posted') = Len(posted) + 1 /\ posted'[Len(posted) + 1] = new
      /\ \A i \in 1..Len(posted) : posted'[i] = posted[i]
  BY <1>1, <1>2
<1>5. DOMAIN posted = 1..Len(posted) /\ DOMAIN posted' = 1..(Len(posted) + 1) /\ Len(posted) \in Nat
  BY <1>2, <1>4
<1>6. \A l : Reported(l) => Reported(l)'
  BY <1>4, <1>5 DEF Reported
<1>7. \A l \in typing : Reported(l)'
  BY <1>3, <1>4, <1>5 DEF Reported
<1>8. \A l \in typed' \ gone' : l \in text' \/ Reported(l)'
  BY <1>6, <1>7 DEF WayInv
<1>9. last' \ typing' \subseteq gone' /\ \A l \in last' \ gone' : l \in text' \/ Reported(l)'
  BY <1>1, <1>7
<1>10. ASSUME NEW i \in DOMAIN posted'
       PROVE  /\ posted'[i].base \ posted'[i].html \subseteq gone'
              /\ \A l \in posted'[i].base \ gone' :
                    l \in text' \/ \E j \in 1..(i - 1) : l \in posted'[j].html
  <2>1. CASE i \in DOMAIN posted
    <3>1. \A j \in 1..(i - 1) : posted'[j] = posted[j]
      BY <1>4, <1>5, <2>1
    <3> QED BY <1>4, <1>5, <2>1, <3>1 DEF WayInv
  <2>2. CASE i = Len(posted) + 1
    <3>1. \A l : Reported(l) => \E j \in 1..(i - 1) : l \in posted'[j].html
      BY <1>4, <1>5, <2>2 DEF Reported
    <3> QED BY <1>3, <1>4, <2>2, <3>1 DEF WayInv
  <2> QED BY <1>5, <2>1, <2>2
<1>11. given' \in Seq(Pad!Text) /\ \A i \in DOMAIN given' : given'[i] \ gone' \subseteq text'
  <2>1. CASE given' = given
    BY <1>2, <2>1 DEF WayInv
  <2>2. CASE given # <<>> /\ given' = Tail(given)
    <3>1. given' \in Seq(Pad!Text) /\ \A i \in DOMAIN given' : i + 1 \in DOMAIN given /\ given'[i] = given[i + 1]
      BY <1>2, <2>2
    <3> QED BY <3>1 DEF WayInv
  <2> QED BY <2>1, <2>2
<1>12. unreported' \in BOOLEAN
  <2>1. unreported' = FALSE
    BY DEF Pad!Report
  <2> QED BY <2>1
<1>13. last' \in Pad!Text
  BY <1>1, <1>2
<1>14. WayInv'
  BY <1>8, <1>9, <1>10, <1>11 DEF WayInv
<1> QED BY <1>4, <1>11, <1>12, <1>13, <1>14

\* The user writes a line, takes one out or ticks a box.
LEMMA TypeKeeps == ASSUME PadInv, Pad!Type PROVE PadInv'
<1>1. PICK now \in Pad!Changes(typing) :
        typing' = now.html /\ typed' = typed \cup now.new /\ gone' = gone \cup now.out
  BY DEF Pad!Type
<1>2. unreported' = TRUE /\ UNCHANGED <<last, posted, value, given, text, agreed, padRecord, sync, others>>
  BY DEF Pad!Type, Pad!bridge, Pad!pad
<1>3. typing \in Pad!Text
  BY DEF PadInv, PadShapes
<1>4. /\ now.html \in Pad!Text /\ now.new \in Pad!Text /\ now.out \in Pad!Text
      /\ now.new \subseteq now.html /\ typing \ now.out \subseteq now.html
  BY <1>3, ChangesAre
<1>5. typing' \in Pad!Text /\ typed' \in Pad!Text /\ gone' \in Pad!Text
  BY <1>1, <1>4 DEF PadInv, PadShapes, Pad!Text
<1>6. PadShapes'
  <2>1. unreported' \in BOOLEAN
    BY <1>2
  <2> QED BY <1>2, <1>5, <2>1 DEF PadInv, PadShapes
<1>7. \A l : Reported(l)' <=> Reported(l)
  BY <1>2 DEF Reported
<1>8. \A l \in typed' \ gone' : l \in text' \/ Reported(l)' \/ (unreported' = TRUE /\ l \in typing')
  BY <1>1, <1>2, <1>4, <1>7 DEF PadInv, WayInv
<1>9. last' \ typing' \subseteq gone'
  BY <1>1, <1>2, <1>4 DEF PadInv, WayInv
<1>10. \A l \in last' \ gone' : l \in text' \/ Reported(l)'
  BY <1>1, <1>2, <1>7 DEF PadInv, WayInv
<1>11. /\ \A i \in DOMAIN posted' :
            /\ posted'[i].base \ posted'[i].html \subseteq gone'
            /\ \A l \in posted'[i].base \ gone' :
                   l \in text' \/ \E j \in 1..(i - 1) : l \in posted'[j].html
       /\ \A i \in DOMAIN given' : given'[i] \ gone' \subseteq text'
  BY <1>1, <1>2 DEF PadInv, WayInv
<1>12. WayInv'
  BY <1>8, <1>9, <1>10, <1>11 DEF WayInv
<1>13. gone \subseteq gone' /\ text \ gone' \subseteq text'
  BY <1>1, <1>2
<1>14. AgreedInv'
  BY <1>2, <1>13, AgreedStays DEF PadInv
<1> QED BY <1>2, <1>6, <1>12, <1>14 DEF PadInv, PadRecords

LEMMA FlushKeeps == ASSUME PadInv, Pad!Flush PROVE PadInv'
<1>1. Pad!Report /\ UNCHANGED <<typing, value, given, text, agreed, padRecord, sync, typed, others, gone>>
  BY DEF Pad!Flush, Pad!pad, Pad!history
<1>2. /\ WayInv' /\ posted' \in Seq(Reports) /\ last' \in Pad!Text /\ unreported' \in BOOLEAN
  BY <1>1, ReportKeeps DEF PadInv
<1>3. PadShapes'
  BY <1>1, <1>2 DEF PadInv, PadShapes
<1>4. gone \subseteq gone' /\ text \ gone' \subseteq text'
  BY <1>1
<1>5. AgreedInv'
  BY <1>1, <1>4, AgreedStays DEF PadInv
<1> QED BY <1>1, <1>2, <1>3, <1>5 DEF PadInv, PadRecords

\* The editor takes a value: a change it has not reported goes first.
LEMMA ReceiveKeeps == ASSUME PadInv, Pad!Receive PROVE PadInv'
<1>1. /\ given # <<>> /\ given' = Tail(given) /\ Pad!Give(given[1])
      /\ UNCHANGED <<value, text, agreed, padRecord, sync, typed, others, gone>>
  BY DEF Pad!Receive, Pad!pad, Pad!history
<1>2. given \in Seq(Pad!Text)
  BY DEF PadInv, PadShapes
<1>3. /\ given' \in Seq(Pad!Text) /\ given[1] \in Pad!Text /\ given[1] \ gone \subseteq text
      /\ \A i \in DOMAIN given' : i + 1 \in DOMAIN given /\ given'[i] = given[i + 1]
  <2>1. given' \in Seq(Pad!Text) /\ given[1] \in Pad!Text /\ 1 \in DOMAIN given
    BY <1>1, <1>2
  <2>2. \A i \in DOMAIN given' : i + 1 \in DOMAIN given /\ given'[i] = given[i + 1]
    BY <1>1, <1>2
  <2> QED BY <2>1, <2>2 DEF PadInv, WayInv
<1>4. \A i \in DOMAIN given' : given'[i] \ gone' \subseteq text'
  BY <1>1, <1>3 DEF PadInv, WayInv
<1>5. WayInv' /\ PadShapes'
  <2>1. CASE UNCHANGED <<typing, last, unreported, posted>>
    <3>1. \A l : Reported(l)' <=> Reported(l)
      BY <2>1 DEF Reported
    <3>2. WayInv'
      BY <1>1, <1>4, <2>1, <3>1 DEF PadInv, WayInv
    <3>3. PadShapes'
      BY <1>1, <1>3, <2>1 DEF PadInv, PadShapes
    <3> QED BY <3>2, <3>3
  <2>2. CASE unreported /\ Pad!Report /\ UNCHANGED typing
    <3>1. WayInv' /\ posted' \in Seq(Reports) /\ last' \in Pad!Text /\ unreported' \in BOOLEAN
          /\ given' \in Seq(Pad!Text)
      BY <1>1, <2>2, ReportKeeps DEF PadInv
    <3> QED BY <1>1, <2>2, <3>1 DEF PadInv, PadShapes
  <2>3. CASE ~unreported /\ last' = given[1] /\ typing' = given[1] /\ UNCHANGED <<unreported, posted>>
    <3>1. \A l : Reported(l)' <=> Reported(l)
      BY <2>3 DEF Reported
    <3>2. ~(unreported = TRUE)
      BY <2>3
    <3>3. \A l \in typed' \ gone' : l \in text' \/ Reported(l)'
      BY <1>1, <3>1, <3>2 DEF PadInv, WayInv
    <3>4. last' \ typing' = {} /\ \A l \in last' \ gone' : l \in text'
      BY <1>1, <1>3, <2>3
    <3>5. \A i \in DOMAIN posted' :
            /\ posted'[i].base \ posted'[i].html \subseteq gone'
            /\ \A l \in posted'[i].base \ gone' :
                   l \in text' \/ \E j \in 1..(i - 1) : l \in posted'[j].html
      BY <1>1, <2>3 DEF PadInv, WayInv
    <3>6. WayInv'
      BY <1>4, <3>3, <3>4, <3>5 DEF WayInv
    <3>7. PadShapes'
      BY <1>1, <1>3, <2>3 DEF PadInv, PadShapes
    <3> QED BY <3>6, <3>7
  <2> QED BY <1>1, <2>1, <2>2, <2>3 DEF Pad!Give, Pad!editor
<1>6. gone \subseteq gone' /\ text \ gone' \subseteq text'
  BY <1>1
<1>7. AgreedInv'
  BY <1>1, <1>6, AgreedStays DEF PadInv
<1> QED BY <1>1, <1>5, <1>7 DEF PadInv, PadRecords

LEMMA MergeTyped ==
    ASSUME NEW base \in Pad!Text, NEW ours \in Pad!Text, NEW hers \in Pad!Text
    PROVE  Pad!Merge(base, ours, hers) \in Pad!Text
BY DEF Pad!Merge, Pad!Text

\* A report leaves of the pad and of the report all that nobody took out.
LEMMA TakeKeeps == ASSUME PadInv, Pad!Take PROVE PadInv'
<1> DEFINE html == posted[1].html
           base == posted[1].base
           next == IF text = base THEN html ELSE Pad!Merge(base, html, text)
<1>1. /\ posted # <<>> /\ Pad!Save(html, base) /\ posted' = Tail(posted)
      /\ UNCHANGED <<typing, last, unreported, agreed, padRecord, sync, typed, others, gone>>
  BY DEF Pad!Take, Pad!editor, Pad!history
<1>2. posted \in Seq(Reports) /\ given \in Seq(Pad!Text) /\ text \in Pad!Text /\ value \in Pad!Text
  BY DEF PadInv, PadShapes
<1>3. posted[1] \in Reports /\ 1 \in DOMAIN posted
  BY <1>1, <1>2
<1>4. /\ posted' \in Seq(Reports)
      /\ \A i \in DOMAIN posted' : i + 1 \in DOMAIN posted /\ posted'[i] = posted[i + 1]
      /\ \A i \in DOMAIN posted : i # 1 => i - 1 \in DOMAIN posted' /\ posted'[i - 1] = posted[i]
      /\ \A i \in DOMAIN posted' : i \in Nat /\ i >= 1
  BY <1>1, <1>2
<1>5. html \in Pad!Text /\ base \in Pad!Text
  BY <1>3 DEF Reports
<1>6. base \ html \subseteq gone /\ \A l \in base \ gone : l \in text
  BY <1>3 DEF PadInv, WayInv
<1> HIDE DEF html, base
<1>7. next \in Pad!Text
  BY <1>2, <1>5, MergeTyped
<1>8. text \ gone \subseteq next /\ html \ gone \subseteq next
  BY <1>6 DEF Pad!Merge
<1> HIDE DEF next
<1>9. /\ text' = next
      /\ \/ value' = value /\ given' = given
         \/ value' = next /\ (given' = given \/ given' = Append(given, next))
  BY <1>1 DEF Pad!Save, Pad!Set, next
<1>10. given' \in Seq(Pad!Text) /\ \A i \in DOMAIN given' : given'[i] = next \/ (i \in DOMAIN given /\ given'[i] = given[i])
  <2>1. CASE given' = given
    BY <1>2, <2>1
  <2>2. CASE given' = Append(given, next)
    BY ONLY <1>2, <1>7, <2>2
  <2> QED BY ONLY <1>9, <2>1, <2>2
<1>11. PadShapes'
  BY <1>1, <1>4, <1>7, <1>9, <1>10 DEF PadInv, PadShapes
<1>12. \A l : Reported(l) => l \in html \/ Reported(l)'
  BY <1>4 DEF Reported, html
<1>13. \A l \in typed' \ gone' : l \in text' \/ Reported(l)' \/ (unreported' = TRUE /\ l \in typing')
  BY <1>1, <1>8, <1>9, <1>12 DEF PadInv, WayInv
<1>14. last' \ typing' \subseteq gone' /\ \A l \in last' \ gone' : l \in text' \/ Reported(l)'
  BY <1>1, <1>8, <1>9, <1>12 DEF PadInv, WayInv
<1>15. ASSUME NEW i \in DOMAIN posted'
       PROVE  /\ posted'[i].base \ posted'[i].html \subseteq gone'
              /\ \A l \in posted'[i].base \ gone' :
                    l \in text' \/ \E j \in 1..(i - 1) : l \in posted'[j].html
  <2>1. i + 1 \in DOMAIN posted /\ posted'[i] = posted[i + 1] /\ i \in Nat
    BY <1>4
  <2>2. /\ posted[i + 1].base \ posted[i + 1].html \subseteq gone
        /\ \A l \in posted[i + 1].base \ gone :
              l \in text \/ \E j \in 1..((i + 1) - 1) : l \in posted[j].html
    BY <2>1 DEF PadInv, WayInv
  <2>3. ASSUME NEW l \in posted'[i].base \ gone'
        PROVE  l \in text' \/ \E j \in 1..(i - 1) : l \in posted'[j].html
    <3>1. CASE l \in text
      BY <1>1, <1>8, <1>9, <3>1
    <3>2. CASE \E j \in 1..((i + 1) - 1) : l \in posted[j].html
      <4>1. PICK j \in 1..((i + 1) - 1) : l \in posted[j].html
        BY <3>2
      <4>2. CASE j = 1
        BY <1>1, <1>8, <1>9, <4>1, <4>2 DEF html
      <4>3. CASE j # 1
        <5>1. j \in DOMAIN posted
          BY <1>2, <2>1, <4>1
        <5>2. posted'[j - 1] = posted[j] /\ j - 1 \in 1..(i - 1)
          BY <1>4, <2>1, <4>1, <4>3, <5>1
        <5> QED BY <4>1, <5>2
      <4> QED BY <4>2, <4>3
    <3> QED BY <1>1, <2>1, <2>2, <3>1, <3>2
  <2> QED BY <1>1, <2>1, <2>2, <2>3
<1>16. \A i \in DOMAIN given' : given'[i] \ gone' \subseteq text'
  BY <1>1, <1>8, <1>9, <1>10 DEF PadInv, WayInv
<1>17. WayInv'
  BY <1>13, <1>14, <1>15, <1>16 DEF WayInv
<1>18. gone \subseteq gone' /\ text \ gone' \subseteq text'
  BY <1>1, <1>8, <1>9
<1>19. AgreedInv'
  BY <1>1, <1>18, AgreedStays DEF PadInv
<1> QED BY <1>1, <1>11, <1>17, <1>19 DEF PadInv, PadRecords

\* A value for the editor: the page's, or nothing new.
LEMMA SetTyped ==
    ASSUME PadShapes, NEW now \in Pad!Text,
           Pad!Set(now) \/ UNCHANGED <<value, given>>
    PROVE  /\ value' \in Pad!Text /\ given' \in Seq(Pad!Text)
           /\ given' = given \/ given' = Append(given, now)
BY DEF PadShapes, Pad!Set

LEMMA TickKeeps == ASSUME PadInv, NEW t \in Todo, Pad!Tick(t) PROVE PadInv'
<1>1. /\ text' = (text \ {Pad!Open(t)}) \cup {Pad!Done(t)} /\ Pad!Set(text')
      /\ typed' = typed \cup {Pad!Done(t)} /\ gone' = gone \cup {Pad!Open(t)}
      /\ UNCHANGED <<typing, last, unreported, posted, agreed, padRecord, sync, others>>
  BY DEF Pad!Tick, Pad!editor
<1>2. Pad!Open(t) \in Pad!Line /\ Pad!Done(t) \in Pad!Line
  BY DEF Pad!Open, Pad!Done, Pad!Line
<1>3. text' \in Pad!Text /\ typed' \in Pad!Text /\ gone' \in Pad!Text
  BY <1>1, <1>2 DEF PadInv, PadShapes, Pad!Text
<1>4. /\ value' \in Pad!Text /\ given' \in Seq(Pad!Text)
      /\ given' = given \/ given' = Append(given, text')
  BY <1>1, <1>3, SetTyped DEF PadInv
<1>5. PadShapes'
  BY <1>1, <1>3, <1>4 DEF PadInv, PadShapes
<1>6. gone \subseteq gone' /\ text \ gone' \subseteq text' /\ typed' \subseteq typed \cup text'
  BY <1>1
<1>7. given \in Seq(Pad!Text)
  BY DEF PadInv, PadShapes
<1>8. WayInv'
  BY <1>1, <1>3, <1>4, <1>6, <1>7, WayStays DEF PadInv
<1>9. AgreedInv'
  BY <1>1, <1>6, AgreedStays DEF PadInv
<1> QED BY <1>1, <1>5, <1>8, <1>9 DEF PadInv, PadRecords

\* A sync begins with the pad's text, and one that fails is over.
LEMMA SyncEnds ==
    ASSUME PadInv, Pad!SyncStart \/ Pad!SyncFails
    PROVE  PadInv'
<1>1. UNCHANGED <<typing, last, unreported, posted, value, given, text, agreed, padRecord, typed, others, gone>>
  BY DEF Pad!SyncStart, Pad!SyncFails, Pad!editor, Pad!bridge, Pad!pad, Pad!history
<1>2. PadShapes'
  BY <1>1 DEF PadInv, PadShapes
<1>3. WayInv'
  BY <1>1 DEF PadInv, WayInv, Reported
<1>4. sync' = [Pad!Resting EXCEPT !.at = "read", !.synced = text] \/ sync' = Pad!Resting
  BY DEF Pad!SyncStart, Pad!SyncFails
<1>5. text \in Pad!Text
  BY DEF PadInv, PadShapes
<1>6. sync' \in PadSyncs /\ (sync'.at = "idle" \/ (sync'.at = "read" /\ sync'.synced = text))
  BY <1>4, <1>5, RestingTyped DEF PadSyncs
<1>7. PadRecords'
  BY <1>1, <1>6 DEF PadInv, PadRecords
<1>8. SameRecord(agreed)'
  BY <1>1 DEF PadInv, AgreedInv, SameRecord
<1>9. AgreedInv'
  BY <1>1, <1>6, <1>8 DEF PadInv, AgreedInv
<1> QED BY <1>2, <1>3, <1>7, <1>9 DEF PadInv

\* What a sync would have of the pad and of the record: all of either that
\* nobody took out.
LEMMA Wants ==
    ASSUME PadInv, sync.at # "idle"
    PROVE  /\ Pad!Wanted(padRecord) \in Pad!Text
           /\ sync.synced \gone \subseteq Pad!Wanted(padRecord)
           /\ padRecord.html \ gone \subseteq Pad!Wanted(padRecord)
<1>1. /\ sync.synced \in Pad!Text /\ agreed.html \in Pad!Text /\ padRecord.html \in Pad!Text
      /\ {} \in Pad!Text
  BY DEF PadInv, PadRecords, PadSyncs, Pad!Record, Pad!Text
<1>2. agreed.html \ gone \subseteq padRecord.html /\ agreed.html \ gone \subseteq sync.synced
  BY DEF PadInv, AgreedInv
<1>3. Pad!Wanted(padRecord) \in Pad!Text
  BY <1>1, MergeTyped DEF Pad!Wanted
<1> QED BY <1>2, <1>3 DEF Pad!Wanted, Pad!Merge

\* Agreeing with a record that has all of the text synced.
LEMMA AdoptKeeps ==
    ASSUME PadInv, sync.at # "idle", NEW remote \in Pad!Record, Pad!Adopt(remote), SameRecord(remote),
           sync.synced \ gone \subseteq remote.html, remote.html \ gone \subseteq padRecord.html,
           sync' = Pad!Resting,
           UNCHANGED <<typing, last, unreported, posted, padRecord, typed, others, gone>>
    PROVE  PadInv'
<1>1. /\ agreed' = remote /\ text' = Pad!Merge(sync.synced, text, remote.html)
      /\ Pad!Set(text') \/ UNCHANGED <<value, given>>
  BY DEF Pad!Adopt
<1>2. /\ sync.synced \in Pad!Text /\ remote.html \in Pad!Text /\ text \in Pad!Text
      /\ given \in Seq(Pad!Text)
  BY DEF PadInv, PadShapes, PadRecords, PadSyncs, Pad!Record
<1>3. text' \in Pad!Text
  BY <1>1, <1>2, MergeTyped
<1>4. /\ value' \in Pad!Text /\ given' \in Seq(Pad!Text)
      /\ given' = given \/ given' = Append(given, text')
  BY <1>1, <1>3, SetTyped DEF PadInv
<1>5. PadShapes'
  BY <1>3, <1>4 DEF PadInv, PadShapes
<1>6. sync.synced \ gone \subseteq text
  BY DEF PadInv, AgreedInv
<1>7. text \ gone \subseteq text' /\ remote.html \ gone \subseteq text'
  BY <1>1, <1>6 DEF Pad!Merge
<1>8. WayInv'
  BY <1>2, <1>3, <1>4, <1>7, WayStays DEF PadInv
<1>9. PadRecords'
  BY <1>1, RestingTyped DEF PadInv, PadRecords
<1>10. SameRecord(agreed)'
  BY <1>1 DEF SameRecord
<1>11. AgreedInv'
  BY <1>1, <1>7, <1>10, RestingTyped DEF PadInv, AgreedInv
<1> QED BY <1>5, <1>8, <1>9, <1>11 DEF PadInv

\* A sync that has read the record agrees with it, or is about to write.
LEMMA ConsiderKeeps ==
    ASSUME PadInv, sync.at # "idle", NEW tries \in 0..1, Pad!Consider(padRecord, tries),
           UNCHANGED <<typing, last, unreported, posted, padRecord, typed, others, gone>>
    PROVE  PadInv'
<1>1. padRecord \in Pad!Record /\ sync \in PadSyncs
  BY DEF PadInv, PadRecords
<1>2. SameRecord(padRecord)
  BY <1>1 DEF SameRecord, Pad!Record
<1>3. CASE Pad!Settled(padRecord) /\ Pad!Adopt(padRecord) /\ sync' = Pad!Resting
  <2>1. sync.synced \ gone \subseteq padRecord.html
    <3>1. CASE padRecord.version = agreed.version /\ sync.synced = agreed.html
      <4>1. agreed = padRecord
        BY <3>1 DEF PadInv, AgreedInv, SameRecord
      <4> QED BY <3>1, <4>1
    <3>2. CASE Pad!Wanted(padRecord) = padRecord.html
      BY <3>2, Wants
    <3> QED BY <1>3, <3>1, <3>2 DEF Pad!Settled
  <2> QED BY <1>1, <1>2, <1>3, <2>1, AdoptKeeps
<1>4. CASE /\ sync' = [sync EXCEPT !.at = "put", !.remote = padRecord, !.tries = tries,
                                   !.next = Pad!Wanted(padRecord)]
           /\ UNCHANGED <<text, agreed, value, given>>
  <2>1. PadShapes'
    BY <1>4 DEF PadInv, PadShapes
  <2>2. WayInv'
    BY <1>4 DEF PadInv, WayInv, Reported
  <2> DEFINE wanted == Pad!Wanted(padRecord)
  <2>3. wanted \in Pad!Text /\ sync.synced \ gone \subseteq wanted /\ padRecord.html \ gone \subseteq wanted
    BY Wants
  <2> HIDE DEF wanted
  <2>4. sync' = [sync EXCEPT !.at = "put", !.remote = padRecord, !.tries = tries, !.next = wanted]
    BY <1>4 DEF wanted
  <2>5. /\ sync' \in PadSyncs /\ sync'.at = "put" /\ sync'.remote = padRecord /\ sync'.next = wanted
        /\ sync'.synced = sync.synced
    BY <1>1, <2>3, <2>4 DEF PadSyncs
  <2>6. PadRecords'
    BY <1>4, <2>5 DEF PadInv, PadRecords
  <2>7. SameRecord(agreed)' /\ SameRecord(sync.remote)'
    BY <1>2, <1>4, <2>5 DEF PadInv, AgreedInv, SameRecord
  <2>8. sync'.synced \ gone' \subseteq text' /\ agreed'.html \ gone' \subseteq sync'.synced
    BY <1>4, <2>5 DEF PadInv, AgreedInv
  <2>9. AgreedInv'
    BY <1>4, <2>3, <2>5, <2>7, <2>8 DEF PadInv, AgreedInv
  <2> QED BY <2>1, <2>2, <2>6, <2>9 DEF PadInv
<1> QED BY <1>3, <1>4 DEF Pad!Consider, Pad!pad

LEMMA SyncKeeps == ASSUME PadInv, Pad!Sync PROVE PadInv'
<1>1. sync \in PadSyncs
  BY DEF PadInv, PadRecords
<1>2. CASE Pad!SyncRead
  <2>1. sync.at # "idle" /\ Pad!Consider(padRecord, 0)
        /\ UNCHANGED <<typing, last, unreported, posted, padRecord, typed, others, gone>>
    BY <1>2 DEF Pad!SyncRead, Pad!editor, Pad!history
  <2>2. 0 \in 0..1
    OBVIOUS
  <2> QED BY <2>1, <2>2, ConsiderKeeps
<1>3. CASE Pad!SyncReread
  <2>1. sync.at # "idle" /\ UNCHANGED <<typing, last, unreported, posted, padRecord, typed, others, gone>>
    BY <1>3 DEF Pad!SyncReread, Pad!editor, Pad!history
  <2>2. CASE sync.tries + 1 < 2 /\ Pad!Consider(padRecord, sync.tries + 1)
    <3>1. sync.tries + 1 \in 0..1
      BY <1>1, <2>2 DEF PadSyncs
    <3> QED BY <2>1, <2>2, <3>1, ConsiderKeeps
  <2>3. CASE sync' = Pad!Resting /\ UNCHANGED <<text, agreed, value, given>>
    <3>1. PadShapes' /\ WayInv'
      BY <2>1, <2>3 DEF PadInv, PadShapes, WayInv, Reported
    <3>2. PadRecords'
      BY <2>1, <2>3, RestingTyped DEF PadInv, PadRecords
    <3>3. SameRecord(agreed)'
      BY <2>1, <2>3 DEF PadInv, AgreedInv, SameRecord
    <3>4. AgreedInv'
      BY <2>1, <2>3, <3>3, RestingTyped DEF PadInv, AgreedInv
    <3> QED BY <3>1, <3>2, <3>4 DEF PadInv
  <2> QED BY <1>3, <2>2, <2>3 DEF Pad!SyncReread, Pad!pad
<1>4. CASE Pad!SyncPut
  <2>1. sync.at = "put" /\ UNCHANGED <<typing, last, unreported, posted, value, given, text, agreed,
                                       typed, others, gone>>
    BY <1>4 DEF Pad!SyncPut, Pad!editor, Pad!bridge, Pad!pad, Pad!history
  <2>2. PadShapes' /\ WayInv'
    BY <2>1 DEF PadInv, PadShapes, WayInv, Reported
  <2>3. /\ padRecord \in Pad!Record /\ padRecord.version \in Nat /\ agreed.version \in Nat
        /\ sync.next \in Pad!Text /\ sync.remote \in Pad!Record
    BY <1>1 DEF PadInv, PadRecords, PadSyncs, Pad!Record
  <2>4. CASE padRecord.version = sync.remote.version
    <3> DEFINE now == [version |-> padRecord.version + 1, html |-> sync.next]
    <3>1. padRecord' = now /\ sync' = [sync EXCEPT !.at = "answer", !.remote = now]
      BY <1>4, <2>4 DEF Pad!SyncPut
    <3>2. now \in Pad!Record /\ now.version = padRecord.version + 1 /\ now.html = sync.next
      BY <2>3 DEF Pad!Record
    <3> HIDE DEF now
    <3>3. sync' \in PadSyncs /\ sync'.at = "answer" /\ sync'.remote = now /\ sync'.synced = sync.synced
      BY <1>1, <3>1, <3>2 DEF PadSyncs
    <3>4. PadRecords'
      BY <2>1, <3>1, <3>2, <3>3 DEF PadInv, PadRecords
    <3>5. sync.remote = padRecord
      BY <2>1, <2>4 DEF PadInv, AgreedInv, SameRecord
    <3>6. (sync.synced \cup padRecord.html) \ gone \subseteq now.html
      BY <2>1, <3>2, <3>5 DEF PadInv, AgreedInv
    <3>7. SameRecord(agreed)'
      BY <2>1, <2>3, <3>1, <3>2 DEF PadInv, AgreedInv, SameRecord
    <3>8. SameRecord(sync.remote)'
      BY <2>3, <3>1, <3>2, <3>3 DEF SameRecord
    <3>9. AgreedInv'
      BY <2>1, <3>1, <3>3, <3>6, <3>7, <3>8 DEF PadInv, AgreedInv
    <3> QED BY <2>2, <3>4, <3>9 DEF PadInv
  <2>5. CASE padRecord.version # sync.remote.version
    <3>1. padRecord' = padRecord /\ sync' = [sync EXCEPT !.at = "reread"]
      BY <1>4, <2>5 DEF Pad!SyncPut
    <3>2. sync' \in PadSyncs /\ sync'.at = "reread" /\ sync'.synced = sync.synced
      BY <1>1, <3>1 DEF PadSyncs
    <3>3. PadRecords'
      BY <2>1, <3>1, <3>2 DEF PadInv, PadRecords
    <3>4. SameRecord(agreed)'
      BY <2>1, <3>1 DEF PadInv, AgreedInv, SameRecord
    <3>5. AgreedInv'
      BY <2>1, <3>1, <3>2, <3>4 DEF PadInv, AgreedInv
    <3> QED BY <2>2, <3>3, <3>5 DEF PadInv
  <2> QED BY <2>4, <2>5
<1>5. CASE Pad!SyncAnswered
  <2>1. sync.at = "answer" /\ Pad!Adopt(sync.remote) /\ sync' = Pad!Resting
        /\ UNCHANGED <<typing, last, unreported, posted, padRecord, typed, others, gone>>
    BY <1>5 DEF Pad!SyncAnswered, Pad!editor, Pad!history
  <2>2. sync.remote \in Pad!Record
    BY <1>1 DEF PadSyncs
  <2>3. SameRecord(sync.remote) /\ sync.synced \ gone \subseteq sync.remote.html
        /\ sync.remote.html \ gone \subseteq padRecord.html
    BY <2>1 DEF PadInv, AgreedInv
  <2> QED BY <2>1, <2>2, <2>3, AdoptKeeps
<1> QED BY <1>2, <1>3, <1>4, <1>5 DEF Pad!Sync

\* Another device writes the record over the version it read.
LEMMA OtherKeeps == ASSUME PadInv, Pad!Other PROVE PadInv'
<1>1. padRecord \in Pad!Record /\ padRecord.version \in Nat /\ padRecord.html \in Pad!Text
  BY DEF PadInv, PadRecords, Pad!Record
<1>2. PICK now \in Pad!Changes(padRecord.html) :
        /\ padRecord' = [version |-> padRecord.version + 1, html |-> now.html]
        /\ others' = others \cup now.new /\ gone' = gone \cup now.out
  BY DEF Pad!Other
<1>3. UNCHANGED <<typing, last, unreported, posted, value, given, text, agreed, sync, typed>>
  BY DEF Pad!Other, Pad!editor, Pad!bridge, Pad!pad
<1>4. /\ now.html \in Pad!Text /\ now.new \in Pad!Text /\ now.out \in Pad!Text
      /\ now.new \subseteq now.html /\ padRecord.html \ now.out \subseteq now.html
  BY <1>1, ChangesAre
<1>5. /\ padRecord' \in Pad!Record /\ padRecord'.version = padRecord.version + 1
      /\ padRecord'.html = now.html
  BY <1>1, <1>2, <1>4 DEF Pad!Record
<1>6. others' \in Pad!Text /\ gone' \in Pad!Text
  BY <1>2, <1>4 DEF PadInv, PadShapes, Pad!Text
<1>7. PadShapes'
  BY <1>3, <1>6 DEF PadInv, PadShapes
<1>8. PadRecords'
  BY <1>3, <1>5 DEF PadInv, PadRecords
<1>9. /\ gone \subseteq gone' /\ text \ gone' \subseteq text' /\ typed' \subseteq typed \cup text'
      /\ given \in Seq(Pad!Text) /\ text' \in Pad!Text
  BY <1>2, <1>3 DEF PadInv, PadShapes
<1>10. WayInv'
  BY <1>3, <1>9, WayStays DEF PadInv
<1>11. \A remote : remote.version \in Nat /\ SameRecord(remote)
            => remote.version <= padRecord'.version /\ remote.version # padRecord'.version
  BY <1>1, <1>5 DEF SameRecord
<1>12. agreed.version \in Nat /\ (sync.at # "idle" => sync.remote.version \in Nat)
  BY DEF PadInv, PadRecords, PadSyncs, Pad!Record
<1>13. SameRecord(agreed)'
  BY <1>3, <1>11, <1>12 DEF PadInv, AgreedInv, SameRecord
<1>14. sync'.at \in {"put", "answer"} => SameRecord(sync.remote)'
  BY <1>3, <1>11, <1>12 DEF PadInv, AgreedInv, SameRecord
<1>15. padRecord.html \ gone' \subseteq padRecord'.html
  BY <1>2, <1>4, <1>5
<1>16. others' \ gone' \subseteq padRecord'.html
  BY <1>2, <1>4, <1>5, <1>15 DEF PadInv, AgreedInv
<1>17. /\ agreed'.html \ gone' \subseteq padRecord'.html \cap text'
       /\ sync'.at # "idle" => sync'.synced \ gone' \subseteq text' /\ agreed'.html \ gone' \subseteq sync'.synced
       /\ sync'.at = "put" => (sync'.synced \cup sync'.remote.html) \ gone' \subseteq sync'.next
       /\ sync'.at = "answer" => /\ sync'.synced \ gone' \subseteq sync'.remote.html
                                 /\ sync'.remote.html \ gone' \subseteq padRecord'.html
  BY <1>3, <1>9, <1>15 DEF PadInv, AgreedInv
<1>18. AgreedInv'
  BY <1>13, <1>14, <1>16, <1>17 DEF AgreedInv
<1> QED BY <1>7, <1>8, <1>10, <1>18 DEF PadInv

\* A kill loses what the editor had not handed over; one that comes between the
\* two files also has what the pad lacks of the record taken for taken out.
LEMMA KillKeeps == ASSUME PadInv, Pad!Kill \/ Pad!KillTorn PROVE PadInv'
<1>1. /\ typing' = text /\ last' = text /\ posted' = <<>> /\ value' = text
      /\ given' = <<>> /\ sync' = Pad!Resting
      /\ UNCHANGED <<text, padRecord, typed, others>>
  BY DEF Pad!Kill, Pad!KillTorn, Pad!Relaunched, Pad!pad
<1>2. unreported' = FALSE
  BY DEF Pad!Kill, Pad!KillTorn, Pad!Relaunched
<1>3. \/ agreed' = agreed /\ gone' = gone \cup (Pad!Lost \cap typed)
      \/ /\ sync.at = "answer" /\ agreed' = sync.remote
         /\ gone' = gone \cup (Pad!Lost \cap typed) \cup (sync.remote.html \ text)
  BY DEF Pad!Kill, Pad!KillTorn, Pad!pad
<1>4. sync \in PadSyncs /\ sync.remote \in Pad!Record /\ sync.remote.html \in Pad!Text
  BY DEF PadInv, PadRecords, PadSyncs, Pad!Record
<1>5. gone' \in Pad!Text /\ gone \cup (Pad!Lost \cap typed) \subseteq gone'
  BY <1>3, <1>4 DEF PadInv, PadShapes, Pad!Text
<1>6. PadShapes'
  <2>1. unreported' \in BOOLEAN
    BY <1>2
  <2>2. posted' \in Seq(Reports) /\ given' \in Seq(Pad!Text)
    BY <1>1
  <2> QED BY <1>1, <1>5, <2>1, <2>2 DEF PadInv, PadShapes
<1>7. PadRecords'
  BY <1>1, <1>3, <1>4, RestingTyped DEF PadInv, PadRecords
<1>8. \A l \in typed : Reported(l) \/ l \in typing => l \in text \/ l \in Pad!Lost \cap typed
  BY DEF Pad!Lost, Reported
<1>9. WayInv'
  <2>1. \A l \in typed' \ gone' : l \in text'
    BY <1>1, <1>5, <1>8 DEF PadInv, WayInv
  <2>2. DOMAIN posted' = {} /\ DOMAIN given' = {}
    BY <1>1
  <2> QED BY <1>1, <2>1, <2>2 DEF WayInv
<1>10. SameRecord(agreed)' /\ agreed'.html \ gone' \subseteq padRecord'.html \cap text'
  BY <1>1, <1>3, <1>5 DEF PadInv, AgreedInv, SameRecord
<1>11. AgreedInv'
  BY <1>1, <1>5, <1>10, RestingTyped DEF PadInv, AgreedInv
<1> QED BY <1>6, <1>7, <1>9, <1>11 DEF PadInv

PadAlways == part = "pad" => PadInv

LEMMA NextPad == PadAlways /\ [AnyNext]_<<part, timer, log, session, keys, pad>> => PadAlways'
<1> SUFFICES ASSUME PadAlways, [AnyNext]_<<part, timer, log, session, keys, pad>>, part' = "pad"
             PROVE  PadInv'
  BY DEF PadAlways
<1>1. part = "pad" /\ (Pad!Next \/ UNCHANGED pad)
  BY DEF AnyNext
<1>2. PadInv
  BY <1>1 DEF PadAlways
<1>3. CASE Pad!Next
  BY <1>2, <1>3, TypeKeeps, FlushKeeps, ReceiveKeeps, TakeKeeps, TickKeeps, SyncEnds, SyncKeeps,
     OtherKeeps, KillKeeps DEF Pad!Next
<1>4. CASE UNCHANGED pad
  <2>1. UNCHANGED <<typing, last, unreported, posted, value, given, text, agreed, padRecord, sync,
                    typed, others, gone>>
    BY <1>4 DEF pad
  <2>2. PadShapes' /\ PadRecords'
    BY <1>2, <2>1 DEF PadInv, PadShapes, PadRecords
  <2>3. WayInv'
    BY <1>2, <2>1 DEF PadInv, WayInv, Reported
  <2>4. AgreedInv'
    BY <1>2, <2>1 DEF PadInv, AgreedInv, SameRecord
  <2> QED BY <2>2, <2>3, <2>4 DEF PadInv
<1> QED BY <1>1, <1>3, <1>4

\* What the editor, the page, the pad and a sync have of the lines that nobody
\* took out.
THEOREM PadInvariant == AnySpec => []PadAlways
<1>1. AnyInit => PadAlways
  BY InitPad DEF AnyInit, PadAlways
<1> QED BY <1>1, NextPad, PTL DEF AnySpec

\* A line the user wrote is in the pad or on its way to it until someone takes
\* it out, and a line another device wrote stays in the record as long.
THEOREM LinesAlwaysStay == AnySpec => []LinesStay
<1>1. PadAlways => LinesStay
  <2> SUFFICES ASSUME PadInv PROVE Pad!LinesStay
    BY DEF PadAlways, LinesStay
  <2>1. \A l \in typed \ gone : l \in text \/ l \in Pad!OnItsWay
    <3>1. \A l : Reported(l) => l \in Pad!OnItsWay
      BY DEF Reported, Pad!OnItsWay
    <3>2. ASSUME unreported = TRUE PROVE typing \subseteq Pad!OnItsWay
      <4> DEFINE sent == UNION {posted[i].html : i \in DOMAIN posted}
                 rest == IF unreported THEN typing ELSE {}
      <4>0. unreported
        BY <3>2
      <4>1. rest = typing
        BY <4>0
      <4>2. Pad!OnItsWay = sent \cup rest
        BY DEF Pad!OnItsWay
      <4> HIDE DEF sent, rest
      <4> QED BY <4>1, <4>2
    <3> QED BY <3>1, <3>2 DEF PadInv, WayInv
  <2>2. others \ gone \subseteq padRecord.html
    BY DEF PadInv, AgreedInv
  <2> QED BY <2>1, <2>2 DEF Pad!LinesStay
<1> QED BY <1>1, PadInvariant, PTL

-----------------------------------------------------------------------------
(* The log *)

LEMMA SameCount == \A S : Log!Cardinality(S) = Cardinality(S)
BY DEF Log!Cardinality, Cardinality

LEMMA SameFinite == \A S : Log!IsFiniteSet(S) <=> IsFiniteSet(S)
BY DEF Log!IsFiniteSet, IsFiniteSet

\* A finite set in some order.
LEMMA InOrder ==
    ASSUME NEW S, IsFiniteSet(S)
    PROVE  /\ Log!SetToSeq(S) \in Seq(S)
           /\ Len(Log!SetToSeq(S)) = Cardinality(S) /\ Cardinality(S) \in Nat
<1>1. Cardinality(S) \in Nat /\ ExistsBijection(1..Cardinality(S), S)
  BY FS_CardinalityType
<1>2. PICK f \in Bijection(1..Cardinality(S), S) : TRUE
  BY <1>1 DEF ExistsBijection
<1>3. f \in [1..Cardinality(S) -> S] /\ Log!IsInjective(f)
  BY <1>2 DEF Bijection, Injection, IsInjective, Log!IsInjective
<1>4. Log!SetToSeq(S) \in [1..Cardinality(S) -> S]
  BY <1>3, SameCount DEF Log!SetToSeq
<1> QED BY <1>1, <1>4

Requests == [do : Log!Requests, ids : SUBSET Content]
Undos == [back : SUBSET Content, out : SUBSET Content]
Tasks == [kind : {"none", "edit", "remove", "chosen", "add", "rename", "undo"},
          todo : Seq(Requests), undo : Undos]

LogTyped ==
    /\ logCloud \in [Content -> {"none", "live", "dead"}]
    /\ entries = None \/ entries \subseteq Content
    /\ load = None \/ load \subseteq Content
    /\ offer = None \/ offer \in Undos
    /\ task \in Tasks
    /\ acts \in SUBSET (SUBSET Content)

\* What has had a row, which no request takes away.
Rows == {m \in Content : logCloud[m] # "none"}

\* An undo brings back what has a row; if it takes something out, it is an edit's.
CanUndo(u) ==
    /\ u.back \subseteq Rows
    /\ u.out # {} => \E old \in Content, new \in Content :
                        old # new /\ u.back = {old} /\ u.out = {new}

RowsInv ==
    /\ entries # None => entries \subseteq Rows
    /\ load # None => load \subseteq Rows
    /\ offer # None => CanUndo(offer)
    /\ CanUndo(task.undo)
    /\ \A i \in DOMAIN task.todo : task.todo[i].do = "restore" => task.todo[i].ids \subseteq Rows

\* What is still to be tombstoned, and what is still to be written before that.
Leaving(todo, m) == \E i \in DOMAIN todo : todo[i].do = "retire" /\ m \in todo[i].ids
Coming(todo, m) == \E i \in DOMAIN todo : todo[i].do \in {"push", "restore"} /\ m \in todo[i].ids

\* What is written comes before what is tombstoned, and a removal does neither.
InOrderOnly(todo) ==
    /\ \A i, j \in DOMAIN todo :
          i < j /\ todo[i].do = "retire" => todo[j].do \in {"retire", "load"}
    /\ \A i, j \in DOMAIN todo : todo[i].do = "delete" => todo[j].do # "retire"

Noted(m) == logCloud[m] = "live" \/ m \in taken \/ m \in theirs

\* Every activity has a content that has been written; where one of its contents is
\* to be tombstoned another one, that stays, has been written or is about to be.
LivesInv ==
    /\ \A X \in acts : \E m \in X : Noted(m)
    /\ InOrderOnly(task.todo)
    /\ \A X \in acts : \A m \in X :
          Leaving(task.todo, m) => \/ X = {m}
                                \/ \E n \in X : /\ ~Leaving(task.todo, n)
                                                /\ Noted(n) \/ Coming(task.todo, n)

LogInv == LogTyped /\ RowsInv /\ LivesInv

LEMMA LogTypes == ASSUME LogTyped PROVE Log!TypeOK
<1>1. task \in Tasks
  BY DEF LogTyped
<1>2. task.kind \in {"none", "edit", "remove", "chosen", "add", "rename", "undo"}
  BY <1>1 DEF Tasks
<1>3. task.todo \in Seq(Requests)
  BY <1>1 DEF Tasks
<1>4. \A i \in 1..Len(task.todo) : task.todo[i] \in Requests
  BY <1>3
<1>5. \A r \in Requests : r.do \in Log!Requests /\ r.ids \subseteq Content
  BY DEF Requests
<1>6. offer = None \/ offer.back \cup offer.out \subseteq Content
  BY DEF LogTyped, Undos
<1> QED BY <1>2, <1>4, <1>5, <1>6 DEF LogTyped, Log!TypeOK

LEMMA FreeTyped == Log!Free \in Tasks /\ Log!NoUndo \in Undos /\ Log!Free.todo = <<>> /\ CanUndo(Log!NoUndo)
                   /\ Log!Free.undo = Log!NoUndo
<1>1. Log!NoUndo \in Undos /\ Log!NoUndo.back = {} /\ Log!NoUndo.out = {}
  BY DEF Log!NoUndo, Undos
<1>2. <<>> \in Seq(Requests)
  OBVIOUS
<1>3. Log!Free \in Tasks /\ Log!Free.todo = <<>> /\ Log!Free.undo = Log!NoUndo
  BY <1>1, <1>2 DEF Log!Free, Tasks
<1> QED BY <1>1, <1>3 DEF CanUndo

LEMMA InitLog == ASSUME Log!Init PROVE LogInv
<1>1. /\ entries = None /\ offer = None /\ task = Log!Free /\ load = None
      /\ logCloud \in [Content -> {"none", "live"}]
      /\ acts = {{m} : m \in Log!Live}
  BY DEF Log!Init
<1>2. task.todo = <<>> /\ task.undo = Log!NoUndo /\ task \in Tasks
  BY <1>1, FreeTyped
<1>3. LogTyped
  BY <1>1, <1>2 DEF LogTyped, Log!Live
<1>4. RowsInv
  BY <1>1, <1>2, FreeTyped DEF RowsInv
<1>5. \A X \in acts : \E m \in X : Noted(m)
  BY <1>1 DEF Noted, Log!Live
<1>6. DOMAIN task.todo = {}
  BY <1>2
<1>7. LivesInv
  BY <1>5, <1>6 DEF LivesInv, InOrderOnly, Leaving
<1> QED BY <1>3, <1>4, <1>7 DEF LogInv

\* Request of a command.
LEMMA OneRequest ==
    ASSUME NEW do \in Log!Requests, NEW ids \in SUBSET Content
    PROVE  /\ Log!Request(do, ids) \in Requests
           /\ Log!Request(do, ids).do = do /\ Log!Request(do, ids).ids = ids
BY DEF Log!Request, Requests

\* The batches of one command.
LEMMA Batches ==
    ASSUME NEW ids \in SUBSET Content, NEW do \in Log!Requests
    PROVE  /\ Log!SetDeleted(ids, do) \in Seq(Requests)
           /\ \A i \in DOMAIN Log!SetDeleted(ids, do) :
                 /\ Log!SetDeleted(ids, do)[i].do = do
                 /\ \E m \in ids : Log!SetDeleted(ids, do)[i].ids = {m}
           /\ \A m \in Content : ids = {m} => Log!SetDeleted(ids, do) = <<Log!Request(do, {m})>>
<1> DEFINE all == {Log!Request(do, {m}) : m \in ids}
<1>1. IsFiniteSet(Content)
  BY PhoneInBounds, SameFinite DEF Log!LogBounds
<1>2. IsFiniteSet(ids)
  BY <1>1, FS_Subset
<1>3. IsFiniteSet(all)
  <2> DEFINE f == [m \in ids |-> Log!Request(do, {m})]
  <2>1. f \in Surjection(ids, all)
    BY DEF Surjection
  <2> QED BY <1>2, <2>1, FS_Surjection
<1>4. Log!SetDeleted(ids, do) = Log!SetToSeq(all)
  BY DEF Log!SetDeleted
<1>5. ASSUME NEW r \in all PROVE r \in Requests /\ r.do = do /\ \E m \in ids : r.ids = {m}
  <2>1. PICK m \in ids : r = Log!Request(do, {m})
    OBVIOUS
  <2>2. {m} \in SUBSET Content
    OBVIOUS
  <2> QED BY <2>1, <2>2, OneRequest
<1>6. /\ Log!SetToSeq(all) \in Seq(all) /\ Len(Log!SetToSeq(all)) = Cardinality(all)
  BY <1>3, InOrder
<1> HIDE DEF all
<1>7. Log!SetToSeq(all) \in Seq(Requests) /\ \A i \in DOMAIN Log!SetToSeq(all) : Log!SetToSeq(all)[i] \in all
  BY <1>5, <1>6
<1>8. ASSUME NEW m \in Content, ids = {m}
      PROVE  Log!SetToSeq(all) = <<Log!Request(do, {m})>>
  <2>1. all = {Log!Request(do, {m})}
    BY <1>8 DEF all
  <2>2. Cardinality(all) = 1
    BY <2>1, FS_Singleton
  <2>3. Len(Log!SetToSeq(all)) = 1
    BY <1>6, <2>2
  <2>4. Log!SetToSeq(all)[1] \in all
    BY <1>7, <2>3
  <2>5. Log!SetToSeq(all)[1] = Log!Request(do, {m})
    BY <2>1, <2>4
  <2> QED BY <1>7, <2>3, <2>5
<1> QED BY <1>4, <1>5, <1>7, <1>8
\* The commands that write the log of requests: what is left of one after a request.
LEMMA RestOf ==
    ASSUME task \in Tasks, task.todo # <<>>
    PROVE  /\ Log!Done \in Tasks /\ Log!Done.todo = Tail(task.todo)
           /\ Log!Done.undo \in {task.undo, Log!NoUndo}
           /\ Head(task.todo) \in Requests /\ Head(task.todo) = task.todo[1] /\ 1 \in DOMAIN task.todo
<1>1. task.todo \in Seq(Requests)
  BY DEF Tasks
<1>2. Tail(task.todo) \in Seq(Requests) /\ Head(task.todo) \in Requests /\ Head(task.todo) = task.todo[1]
      /\ 1 \in DOMAIN task.todo
  BY <1>1
<1>3. CASE Len(task.todo) = 1
  <2>1. Tail(task.todo) = <<>>
    <3> DEFINE todo == task.todo
    <3>1. todo \in Seq(Requests) /\ Len(todo) = 1
      BY <1>1, <1>3
    <3> HIDE DEF todo
    <3>2. Tail(todo) \in Seq(Requests) /\ Len(Tail(todo)) = 0
      BY <3>1, HeadTailProperties
    <3>3. Tail(todo) = <<>>
      BY <3>2, EmptySeq
    <3> QED BY <3>3 DEF todo
  <2>2. Log!Done = Log!Free
    BY <1>3 DEF Log!Done
  <2> QED BY <1>2, <2>1, <2>2, FreeTyped
<1>4. CASE Len(task.todo) # 1
  <2>1. Log!Done = Log!Rest
    BY <1>4 DEF Log!Done
  <2>2. /\ Log!Rest.kind = task.kind /\ Log!Rest.todo = Tail(task.todo) /\ Log!Rest.undo = task.undo
        /\ Log!Rest \in Tasks
    BY <1>2 DEF Log!Rest, Tasks
  <2> QED BY <1>2, <2>1, <2>2
<1> QED BY <1>3, <1>4

\* What is left of a sequence of requests.
LEMMA TailOf ==
    ASSUME NEW todo \in Seq(Requests), todo # <<>>
    PROVE  /\ Tail(todo) \in Seq(Requests)
           /\ \A i \in DOMAIN Tail(todo) : i + 1 \in DOMAIN todo /\ Tail(todo)[i] = todo[i + 1]
           /\ \A i \in DOMAIN todo : i = 1 \/ (i - 1 \in DOMAIN Tail(todo) /\ Tail(todo)[i - 1] = todo[i])
OBVIOUS

LEMMA TailLeaves ==
    ASSUME NEW todo \in Seq(Requests), todo # <<>>
    PROVE  /\ \A m : Leaving(Tail(todo), m) => Leaving(todo, m)
           /\ \A m : Coming(todo, m) =>
                \/ Coming(Tail(todo), m)
                \/ todo[1].do \in {"push", "restore"} /\ m \in todo[1].ids
           /\ InOrderOnly(todo) => InOrderOnly(Tail(todo))
           /\ InOrderOnly(todo) /\ todo[1].do = "retire" => \A m : ~Coming(todo, m)
           /\ InOrderOnly(todo) /\ todo[1].do = "delete" => \A m : ~Leaving(todo, m)
<1>1. /\ \A i \in DOMAIN Tail(todo) : i + 1 \in DOMAIN todo /\ Tail(todo)[i] = todo[i + 1]
      /\ \A i \in DOMAIN todo : i = 1 \/ (i - 1 \in DOMAIN Tail(todo) /\ Tail(todo)[i - 1] = todo[i])
      /\ DOMAIN todo \subseteq Nat /\ DOMAIN Tail(todo) \subseteq Nat /\ 1 \in DOMAIN todo
      /\ \A i \in DOMAIN todo : i # 1 => 1 < i
  OBVIOUS
<1>2. \A m : Leaving(Tail(todo), m) => Leaving(todo, m)
  BY <1>1 DEF Leaving
<1>3. ASSUME NEW m, Coming(todo, m)
      PROVE  Coming(Tail(todo), m) \/ (todo[1].do \in {"push", "restore"} /\ m \in todo[1].ids)
  <2>1. PICK i \in DOMAIN todo : todo[i].do \in {"push", "restore"} /\ m \in todo[i].ids
    BY <1>3 DEF Coming
  <2>2. CASE i = 1
    BY <2>1, <2>2
  <2>3. CASE i - 1 \in DOMAIN Tail(todo) /\ Tail(todo)[i - 1] = todo[i]
    BY <2>1, <2>3 DEF Coming
  <2> QED BY <1>1, <2>2, <2>3
<1>4. ASSUME InOrderOnly(todo) PROVE InOrderOnly(Tail(todo))
  <2>1. ASSUME NEW i \in DOMAIN Tail(todo), NEW j \in DOMAIN Tail(todo), i < j, Tail(todo)[i].do = "retire"
        PROVE  Tail(todo)[j].do \in {"retire", "load"}
    <3>1. i + 1 \in DOMAIN todo /\ j + 1 \in DOMAIN todo /\ todo[i + 1].do = "retire" /\ i + 1 < j + 1
          /\ Tail(todo)[j] = todo[j + 1]
      BY <1>1, <2>1
    <3> QED BY <1>4, <3>1 DEF InOrderOnly
  <2>2. \A i, j \in DOMAIN Tail(todo) : Tail(todo)[i].do = "delete" => Tail(todo)[j].do # "retire"
    BY <1>1, <1>4 DEF InOrderOnly
  <2> QED BY <2>1, <2>2 DEF InOrderOnly
<1>5. ASSUME InOrderOnly(todo), todo[1].do = "retire", NEW m PROVE ~Coming(todo, m)
  <2>1. \A j \in DOMAIN todo : todo[j].do \in {"retire", "load"}
    BY <1>1, <1>5 DEF InOrderOnly
  <2> QED BY <2>1 DEF Coming
<1>6. ASSUME InOrderOnly(todo), todo[1].do = "delete", NEW m PROVE ~Leaving(todo, m)
  BY <1>1, <1>6 DEF InOrderOnly, Leaving
<1> QED BY <1>2, <1>3, <1>4, <1>5, <1>6

\* What each request does.
LEMMA EffectIs ==
    ASSUME NEW r \in Requests, Log!Effect(r)
    PROVE  \/ r.do \in {"push", "add"} /\ logCloud' = Log!PushEntries(r.ids)
              /\ taken' = taken \cup {m \in r.ids : logCloud[m] # "none"}
              /\ acts' = IF r.do = "add" THEN acts \cup {{m} : m \in {n \in r.ids : logCloud[n] = "none"}}
                         ELSE acts
           \/ r.do = "delete" /\ logCloud' = Log!Marked(r.ids, "dead") /\ taken' = taken
              /\ acts' = Log!Without(r.ids)
           \/ r.do = "retire" /\ logCloud' = Log!Marked(r.ids, "dead") /\ taken' = taken
              /\ acts' = {X \ r.ids : X \in acts} \ {{}}
           \/ r.do = "restore" /\ logCloud' = Log!Marked(r.ids, "live") /\ taken' = taken
              /\ acts' = IF task.undo.out = {} THEN acts \cup {{m} : m \in r.ids} ELSE acts
           \/ r.do = "load" /\ UNCHANGED <<logCloud, taken, acts>>
<1>1. r.do \in {"push", "add", "delete", "retire", "restore", "load"}
  BY DEF Requests, Log!Requests
<1>2. CASE r.do = "push"
  BY <1>2 DEF Log!Effect
<1>3. CASE r.do = "add"
  BY <1>3 DEF Log!Effect
<1>4. CASE r.do = "delete"
  BY <1>4 DEF Log!Effect
<1>5. CASE r.do = "retire"
  BY <1>5 DEF Log!Effect
<1>6. CASE r.do = "restore"
  BY <1>6 DEF Log!Effect
<1>7. CASE r.do = "load"
  BY <1>7 DEF Log!Effect
<1> QED BY <1>1, <1>2, <1>3, <1>4, <1>5, <1>6, <1>7

\* What each request does to the rows.
LEMMA CloudMoves ==
    ASSUME LogTyped, NEW ids \in SUBSET Content
    PROVE  /\ Log!PushEntries(ids) \in [Content -> {"none", "live", "dead"}]
           /\ \A m \in Content : Log!PushEntries(ids)[m] =
                                    IF m \in ids /\ logCloud[m] = "none" THEN "live" ELSE logCloud[m]
           /\ \A as \in {"dead", "live"} :
                /\ Log!Marked(ids, as) \in [Content -> {"none", "live", "dead"}]
                /\ \A m \in Content : Log!Marked(ids, as)[m] =
                                         IF m \in ids /\ logCloud[m] # "none" THEN as ELSE logCloud[m]
BY DEF LogTyped, Log!PushEntries, Log!Marked

\* A request takes no row away, and its rows and activities keep their types.
LEMMA EffectRows ==
    ASSUME LogTyped, NEW r \in Requests, Log!Effect(r)
    PROVE  /\ logCloud' \in [Content -> {"none", "live", "dead"}] /\ Rows \subseteq Rows'
           /\ acts' \in SUBSET (SUBSET Content) /\ taken \subseteq taken'
<1>1. logCloud \in [Content -> {"none", "live", "dead"}] /\ acts \in SUBSET (SUBSET Content)
      /\ r.ids \subseteq Content
  BY DEF LogTyped, Requests
<1>2. CASE r.do \in {"push", "add"} /\ logCloud' = Log!PushEntries(r.ids)
           /\ taken' = taken \cup {m \in r.ids : logCloud[m] # "none"}
           /\ acts' = IF r.do = "add" THEN acts \cup {{m} : m \in {n \in r.ids : logCloud[n] = "none"}}
                      ELSE acts
  <2>1. logCloud' \in [Content -> {"none", "live", "dead"}] /\ Rows \subseteq Rows'
    BY <1>1, <1>2, CloudMoves DEF Rows
  <2>2. acts' \in SUBSET (SUBSET Content)
    BY <1>1, <1>2
  <2> QED BY <1>2, <2>1, <2>2
<1>3. CASE /\ \E as \in {"dead", "live"} : logCloud' = Log!Marked(r.ids, as)
           /\ taken' = taken
           /\ acts' \in {Log!Without(r.ids), {X \ r.ids : X \in acts} \ {{}}, acts,
                         acts \cup {{m} : m \in r.ids}}
  <2>1. logCloud' \in [Content -> {"none", "live", "dead"}] /\ Rows \subseteq Rows'
    <3>1. PICK as \in {"dead", "live"} : logCloud' = Log!Marked(r.ids, as)
      BY <1>3
    <3>2. /\ Log!Marked(r.ids, as) \in [Content -> {"none", "live", "dead"}]
          /\ \A m \in Content : Log!Marked(r.ids, as)[m] =
                                   IF m \in r.ids /\ logCloud[m] # "none" THEN as ELSE logCloud[m]
      BY <1>1 DEF Log!Marked
    <3>3. \A m \in Content : logCloud'[m] = IF m \in r.ids /\ logCloud[m] # "none" THEN as ELSE logCloud[m]
      BY <3>1, <3>2
    <3> QED BY <1>1, <3>1, <3>2, <3>3 DEF Rows
  <2>2. Log!Without(r.ids) \in SUBSET (SUBSET Content)
    BY <1>1 DEF Log!Without
  <2>3. acts' \in SUBSET (SUBSET Content)
    BY <1>1, <1>3, <2>2
  <2> QED BY <1>3, <2>1, <2>3
<1>4. CASE r.do = "load" /\ UNCHANGED <<logCloud, taken, acts>>
  BY <1>1, <1>4 DEF Rows
<1> QED BY <1>2, <1>3, <1>4, EffectIs


\* A request that writes or restores leaves every activity with what it had.
LEMMA WritesNote ==
    ASSUME LogTyped, RowsInv, NEW r \in Requests, Log!Effect(r), r.do \notin {"delete", "retire"},
           theirs' = theirs, r.do = "restore" => r.ids \subseteq Rows
    PROVE  /\ \A m \in Content : Noted(m) => Noted(m)'
           /\ r.do \in {"push", "restore"} => \A m \in r.ids : Noted(m)'
           /\ \A X \in acts' : X \in acts \/ \E m \in Content : X = {m} /\ Noted(m)'
<1>1. logCloud \in [Content -> {"none", "live", "dead"}] /\ r.ids \in SUBSET Content
  BY DEF LogTyped, Requests
<1>2. CASE r.do \in {"push", "add"} /\ logCloud' = Log!PushEntries(r.ids)
           /\ taken' = taken \cup {m \in r.ids : logCloud[m] # "none"}
           /\ acts' = IF r.do = "add" THEN acts \cup {{m} : m \in {n \in r.ids : logCloud[n] = "none"}}
                      ELSE acts
  <2>1. \A m \in Content : logCloud'[m] = IF m \in r.ids /\ logCloud[m] = "none" THEN "live" ELSE logCloud[m]
    BY <1>1, <1>2, CloudMoves
  <2>2. \A m \in Content : Noted(m) => Noted(m)'
    BY <1>2, <2>1 DEF Noted
  <2>3. \A m \in r.ids : Noted(m)'
    BY <1>1, <1>2, <2>1 DEF Noted
  <2>4. \A X \in acts' : X \in acts \/ \E m \in r.ids : X = {m}
    BY <1>2
  <2> QED BY <1>1, <2>2, <2>3, <2>4
<1>3. CASE r.do = "restore" /\ logCloud' = Log!Marked(r.ids, "live") /\ taken' = taken
           /\ acts' = IF task.undo.out = {} THEN acts \cup {{m} : m \in r.ids} ELSE acts
  <2>1. \A m \in Content : logCloud'[m] = IF m \in r.ids /\ logCloud[m] # "none" THEN "live" ELSE logCloud[m]
    BY <1>1, <1>3 DEF Log!Marked
  <2>2. \A m \in Content : Noted(m) => Noted(m)'
    BY <1>3, <2>1 DEF Noted
  <2>3. \A m \in r.ids : Noted(m)'
    BY <1>1, <1>3, <2>1 DEF Noted, Rows
  <2>4. \A X \in acts' : X \in acts \/ \E m \in r.ids : X = {m}
    BY <1>3
  <2> QED BY <1>1, <2>2, <2>3, <2>4
<1>4. CASE r.do = "load" /\ UNCHANGED <<logCloud, taken, acts>>
  BY <1>4 DEF Noted
<1> QED BY <1>2, <1>3, <1>4, EffectIs

\* A tombstone leaves what others note.
LEMMA TombstonesNote ==
    ASSUME LogTyped, NEW ids \in SUBSET Content, logCloud' = Log!Marked(ids, "dead"), taken' = taken,
           theirs' = theirs
    PROVE  /\ \A m \in Content \ ids : Noted(m) => Noted(m)'
           /\ \A m \in Content \ ids : logCloud[m] = "live" => Noted(m)'
<1>1. \A m \in Content : logCloud'[m] = IF m \in ids /\ logCloud[m] # "none" THEN "dead" ELSE logCloud[m]
  BY DEF LogTyped, Log!Marked
<1> QED BY <1>1 DEF Noted

LEMMA EffectLives ==
    ASSUME LogTyped, RowsInv, LivesInv, task.todo # <<>>, Log!Effect(Head(task.todo)), theirs' = theirs
    PROVE  /\ \A X \in acts' : \E m \in X : Noted(m)'
           /\ \A X \in acts' : \A m \in X :
                 Leaving(Tail(task.todo), m) =>
                    \/ X = {m}
                    \/ \E n \in X : /\ ~Leaving(Tail(task.todo), n)
                                    /\ Noted(n)' \/ Coming(Tail(task.todo), n)
<1> DEFINE todo == task.todo
           rest == Tail(task.todo)
           r == Head(task.todo)
<1>1. todo \in Seq(Requests) /\ todo # <<>> /\ r \in Requests /\ r = todo[1] /\ 1 \in DOMAIN todo
  BY RestOf DEF LogTyped, Tasks
<1>2. /\ \A m : Leaving(rest, m) => Leaving(todo, m)
      /\ \A m : Coming(todo, m) => Coming(rest, m) \/ (r.do \in {"push", "restore"} /\ m \in r.ids)
      /\ r.do = "retire" => \A m : ~Coming(todo, m)
      /\ r.do = "delete" => \A m : ~Leaving(todo, m)
  BY <1>1, TailLeaves DEF LivesInv
<1>3. r.do = "retire" => \A m \in r.ids : Leaving(todo, m)
  BY <1>1 DEF Leaving
<1>4. /\ \A X \in acts : \E m \in X : Noted(m)
      /\ \A X \in acts : \A m \in X :
            Leaving(todo, m) => \/ X = {m}
                                \/ \E n \in X : ~Leaving(todo, n) /\ (Noted(n) \/ Coming(todo, n))
  BY DEF LivesInv
<1>5. r.do = "restore" => r.ids \subseteq Rows
  BY <1>1 DEF RowsInv
<1>6. Log!Effect(r)
  OBVIOUS
<1>7. r.ids \in SUBSET Content /\ acts \in SUBSET (SUBSET Content)
  BY <1>1 DEF LogTyped, Requests
<1> HIDE DEF todo, rest, r
<1>8. CASE r.do \notin {"delete", "retire"}
  <2>1. /\ \A m \in Content : Noted(m) => Noted(m)'
        /\ r.do \in {"push", "restore"} => \A m \in r.ids : Noted(m)'
        /\ \A X \in acts' : X \in acts \/ \E m \in Content : X = {m} /\ Noted(m)'
    BY <1>1, <1>5, <1>6, <1>8, WritesNote
  <2>2. ASSUME NEW X \in acts' PROVE \E m \in X : Noted(m)'
    BY <1>4, <1>7, <2>1
  <2>3. ASSUME NEW X \in acts', NEW m \in X, Leaving(rest, m), X # {m}
        PROVE  \E n \in X : ~Leaving(rest, n) /\ (Noted(n)' \/ Coming(rest, n))
    <3>1. X \in acts /\ Leaving(todo, m)
      BY <1>2, <2>1, <2>3
    <3>2. PICK n \in X : ~Leaving(todo, n) /\ (Noted(n) \/ Coming(todo, n))
      BY <1>4, <2>3, <3>1
    <3> QED BY <1>2, <1>7, <2>1, <3>1, <3>2
  <2> QED BY <2>2, <2>3 DEF rest
<1>9. CASE r.do = "delete"
  <2>1. logCloud' = Log!Marked(r.ids, "dead") /\ taken' = taken /\ acts' = Log!Without(r.ids)
    BY <1>1, <1>6, <1>9, EffectIs
  <2>2. /\ \A m \in Content \ r.ids : Noted(m) => Noted(m)'
        /\ \A m \in Content \ r.ids : logCloud[m] = "live" => Noted(m)'
    BY <1>7, <2>1, TombstonesNote
  <2>3. ASSUME NEW X \in acts' PROVE \E m \in X : Noted(m)'
    <3>1. PICK Y \in acts : X = Y \ r.ids /\ (Y \cap r.ids = {} \/ (Y \cap Log!Live) \ r.ids # {})
      BY <2>1 DEF Log!Without
    <3>2. CASE Y \cap r.ids = {}
      BY <1>4, <1>7, <2>2, <3>1, <3>2
    <3>3. CASE (Y \cap Log!Live) \ r.ids # {}
      BY <1>7, <2>2, <3>1, <3>3 DEF Log!Live
    <3> QED BY <3>1, <3>2, <3>3
  <2> QED BY <1>2, <1>9, <2>3 DEF rest
<1>10. CASE r.do = "retire"
  <2>1. logCloud' = Log!Marked(r.ids, "dead") /\ taken' = taken /\ acts' = {X \ r.ids : X \in acts} \ {{}}
    BY <1>1, <1>6, <1>10, EffectIs
  <2>2. \A m \in Content \ r.ids : Noted(m) => Noted(m)'
    BY <1>7, <2>1, TombstonesNote
  <2>3. ASSUME NEW X \in acts'
        PROVE  /\ \E m \in X : Noted(m)'
               /\ \A m \in X : Leaving(rest, m) =>
                     X = {m} \/ \E n \in X : ~Leaving(rest, n) /\ Noted(n)'
    <3>1. PICK Y \in acts : X = Y \ r.ids /\ X # {}
      BY <2>1
    <3>2. CASE \E m \in Y : m \in r.ids
      <4>1. PICK m \in Y : m \in r.ids
        BY <3>2
      <4>2. Leaving(todo, m) /\ Y # {m}
        BY <1>3, <1>10, <3>1, <4>1
      <4>3. PICK n \in Y : ~Leaving(todo, n) /\ Noted(n)
        BY <1>2, <1>4, <1>10, <4>2
      <4>4. n \in X /\ ~Leaving(rest, n) /\ Noted(n)'
        BY <1>2, <1>3, <1>7, <1>10, <2>2, <3>1, <4>3
      <4> QED BY <4>4
    <3>3. CASE ~\E m \in Y : m \in r.ids
      <4>1. X = Y
        BY <3>1, <3>3
      <4>2. \A m \in X : m \in Content \ r.ids
        BY <1>7, <3>3, <4>1
      <4>3. \E m \in X : Noted(m)'
        BY <1>4, <2>2, <4>1, <4>2
      <4>4. ASSUME NEW m \in X, Leaving(rest, m), X # {m}
            PROVE  \E n \in X : ~Leaving(rest, n) /\ Noted(n)'
        <5>1. PICK n \in X : ~Leaving(todo, n) /\ Noted(n)
          BY <1>2, <1>4, <1>10, <4>1, <4>4
        <5> QED BY <1>2, <2>2, <4>2, <5>1
      <4> QED BY <4>3, <4>4
    <3> QED BY <3>2, <3>3
  <2> QED BY <2>3 DEF rest
<1> QED BY <1>8, <1>9, <1>10

\* After a request that was answered.
LEMMA MovesOn ==
    ASSUME LogInv, task.todo # <<>>, Log!Effect(Head(task.todo)), task' = Log!Done,
           offer' \in {task.undo, None, offer}, entries' \in {entries, Log!Live},
           load' = load, theirs' = theirs
    PROVE  LogInv'
<1>1. LogTyped /\ RowsInv /\ LivesInv
  BY DEF LogInv
<1>2. /\ Log!Done \in Tasks /\ Log!Done.todo = Tail(task.todo)
      /\ Log!Done.undo \in {task.undo, Log!NoUndo}
      /\ Head(task.todo) \in Requests /\ task.todo \in Seq(Requests) /\ task.undo \in Undos
  BY <1>1, RestOf DEF LogTyped, Tasks
<1>3. /\ logCloud' \in [Content -> {"none", "live", "dead"}] /\ Rows \subseteq Rows'
      /\ acts' \in SUBSET (SUBSET Content)
  BY <1>1, <1>2, EffectRows
<1>4. LogTyped'
  BY <1>1, <1>2, <1>3 DEF LogTyped, Log!Live
<1>5. \A i \in DOMAIN Tail(task.todo) : i + 1 \in DOMAIN task.todo /\ Tail(task.todo)[i] = task.todo[i + 1]
  BY <1>2, TailOf
<1>6. RowsInv'
  <2>1. Log!Live \subseteq Rows
    BY DEF Log!Live, Rows
  <2>2. (entries # None => entries \subseteq Rows)' /\ (load # None => load \subseteq Rows)'
    BY <1>1, <1>3, <2>1 DEF RowsInv
  <2>3. (offer # None => CanUndo(offer))'
    BY <1>1, <1>3 DEF RowsInv, CanUndo
  <2>4. CanUndo(task.undo)'
    BY <1>1, <1>2, <1>3, FreeTyped DEF RowsInv, CanUndo
  <2>5. \A i \in DOMAIN task'.todo : task'.todo[i].do = "restore" => task'.todo[i].ids \subseteq Rows'
    BY <1>1, <1>2, <1>3, <1>5 DEF RowsInv
  <2> QED BY <2>2, <2>3, <2>4, <2>5 DEF RowsInv
<1>7. LivesInv'
  <2>1. InOrderOnly(Tail(task.todo))
    BY <1>1, <1>2, TailLeaves DEF LivesInv
  <2>2. /\ \A X \in acts' : \E m \in X : Noted(m)'
        /\ \A X \in acts' : \A m \in X :
              Leaving(Tail(task.todo), m) =>
                 \/ X = {m}
                 \/ \E n \in X : /\ ~Leaving(Tail(task.todo), n)
                                 /\ Noted(n)' \/ Coming(Tail(task.todo), n)
    BY <1>1, EffectLives
  <2>3. task'.todo = Tail(task.todo)
    BY <1>2
  <2> QED BY <2>1, <2>2, <2>3 DEF LivesInv, InOrderOnly, Leaving, Coming
<1> QED BY <1>4, <1>6, <1>7 DEF LogInv

\* After a request that failed, whatever it did first.
LEMMA BreaksOff ==
    ASSUME LogInv, task.todo # <<>>,
           Log!Effect(Head(task.todo)) \/ UNCHANGED <<logCloud, taken, acts>>,
           task' = Log!Free, offer' \in {None, offer}, UNCHANGED <<entries, load, theirs>>
    PROVE  LogInv'
<1>1. LogTyped /\ RowsInv /\ LivesInv
  BY DEF LogInv
<1>2. Head(task.todo) \in Requests
  BY <1>1, RestOf DEF LogTyped
<1>3. /\ logCloud' \in [Content -> {"none", "live", "dead"}] /\ Rows \subseteq Rows'
      /\ acts' \in SUBSET (SUBSET Content)
  <2>1. CASE Log!Effect(Head(task.todo))
    BY <1>1, <1>2, <2>1, EffectRows
  <2>2. CASE UNCHANGED <<logCloud, taken, acts>>
    BY <1>1, <2>2 DEF LogTyped, Rows
  <2> QED BY <2>1, <2>2
<1>4. \A X \in acts' : \E m \in X : Noted(m)'
  <2>1. CASE Log!Effect(Head(task.todo))
    BY <1>1, <2>1, EffectLives
  <2>2. CASE UNCHANGED <<logCloud, taken, acts>>
    BY <1>1, <2>2 DEF LivesInv, Noted
  <2> QED BY <2>1, <2>2
<1>5. task' \in Tasks /\ DOMAIN task'.todo = {} /\ task'.undo = Log!NoUndo /\ CanUndo(Log!NoUndo)
  BY FreeTyped
<1>6. LogTyped'
  BY <1>1, <1>3, <1>5 DEF LogTyped
<1>7. RowsInv'
  <2>1. (entries # None => entries \subseteq Rows)' /\ (load # None => load \subseteq Rows)'
    BY <1>1, <1>3 DEF RowsInv
  <2>2. (offer # None => CanUndo(offer))'
    BY <1>1, <1>3 DEF RowsInv, CanUndo
  <2>3. CanUndo(task.undo)'
    BY <1>3, <1>5 DEF CanUndo
  <2> QED BY <1>5, <2>1, <2>2, <2>3 DEF RowsInv
<1>8. LivesInv'
  BY <1>4, <1>5 DEF LivesInv, InOrderOnly, Leaving
<1> QED BY <1>6, <1>7, <1>8 DEF LogInv

LEMMA StepKeeps == ASSUME LogInv, Log!Step PROVE LogInv'
<1>1. /\ task.todo # <<>> /\ Log!Effect(Head(task.todo)) /\ task' = Log!Done /\ offer' = Log!Offers
      /\ entries' \in {entries, Log!Live} /\ load' = load /\ theirs' = theirs
  BY DEF Log!Step
<1>2. Log!Offers \in {task.undo, None, offer}
  BY DEF Log!Offers
<1> QED BY <1>1, <1>2, MovesOn

LEMMA FailKeeps == ASSUME LogInv, Log!Fail PROVE LogInv'
<1>1. task.todo # <<>> /\ UNCHANGED <<entries, load, theirs>>
  BY DEF Log!Fail
<1>2. CASE /\ Head(task.todo).do = "load" /\ offer' = Log!Offers /\ task' = Log!Done
           /\ UNCHANGED <<logCloud, taken, acts>>
  <2>1. Log!Effect(Head(task.todo))
    BY <1>2 DEF Log!Effect
  <2>2. Log!Offers \in {task.undo, None, offer}
    BY DEF Log!Offers
  <2> QED BY <1>1, <1>2, <2>1, <2>2, MovesOn
<1>3. CASE /\ Log!Effect(Head(task.todo)) \/ UNCHANGED <<logCloud, taken, acts>>
           /\ task' = Log!Free /\ offer' \in {None, offer}
  BY <1>1, <1>3, BreaksOff
<1> QED BY <1>2, <1>3 DEF Log!Fail

\* Two sequences of requests one after the other.
LEMMA Joined ==
    ASSUME NEW s \in Seq(Requests), NEW t \in Seq(Requests)
    PROVE  /\ s \o t \in Seq(Requests)
           /\ \A i \in DOMAIN (s \o t) : \/ \E j \in DOMAIN s : (s \o t)[i] = s[j]
                                         \/ \E j \in DOMAIN t : (s \o t)[i] = t[j]
           /\ \A m : Leaving(s \o t, m) <=> Leaving(s, m) \/ Leaving(t, m)
           /\ \A m : Coming(s \o t, m) <=> Coming(s, m) \/ Coming(t, m)
           /\ /\ InOrderOnly(s) /\ \A i \in DOMAIN s : s[i].do # "delete"
              /\ \A i \in DOMAIN t : t[i].do \in {"retire", "load"}
              => InOrderOnly(s \o t)
<1> DEFINE u == s \o t
           n == Len(s)
<1>1. /\ u \in Seq(Requests) /\ n \in Nat
      /\ \A i \in DOMAIN u : \/ i \in DOMAIN s /\ u[i] = s[i]
                             \/ i - n \in DOMAIN t /\ i \notin DOMAIN s /\ u[i] = t[i - n]
      /\ \A i \in DOMAIN s : i \in DOMAIN u /\ u[i] = s[i]
      /\ \A i \in DOMAIN t : i + n \in DOMAIN u /\ u[i + n] = t[i]
      /\ DOMAIN u \subseteq Nat /\ \A i, j \in DOMAIN u : j \in DOMAIN s /\ i < j => i \in DOMAIN s
  OBVIOUS
<1> HIDE DEF u, n
<1>2. \A m : Leaving(u, m) <=> Leaving(s, m) \/ Leaving(t, m)
  BY <1>1 DEF Leaving
<1>3. \A m : Coming(u, m) <=> Coming(s, m) \/ Coming(t, m)
  BY <1>1 DEF Coming
<1>4. ASSUME InOrderOnly(s), \A i \in DOMAIN s : s[i].do # "delete",
             \A i \in DOMAIN t : t[i].do \in {"retire", "load"}
      PROVE  InOrderOnly(u)
  <2>1. ASSUME NEW i \in DOMAIN u, NEW j \in DOMAIN u, i < j, u[i].do = "retire"
        PROVE  u[j].do \in {"retire", "load"}
    <3>1. CASE j \in DOMAIN s
      BY <1>1, <1>4, <2>1, <3>1 DEF InOrderOnly
    <3>2. CASE j \notin DOMAIN s
      BY <1>1, <1>4, <3>2
    <3> QED BY <3>1, <3>2
  <2>2. \A i \in DOMAIN u : u[i].do # "delete"
    BY <1>1, <1>4
  <2> QED BY <2>1, <2>2 DEF InOrderOnly
<1> QED BY <1>1, <1>2, <1>3, <1>4 DEF u

\* One request, and requests without a tombstone of an edit.
LEMMA Single ==
    ASSUME NEW r \in Requests
    PROVE  /\ <<r>> \in Seq(Requests) /\ InOrderOnly(<<r>>)
           /\ \A i \in DOMAIN <<r>> : <<r>>[i] = r
           /\ \A m : Leaving(<<r>>, m) <=> r.do = "retire" /\ m \in r.ids
           /\ \A m : Coming(<<r>>, m) <=> r.do \in {"push", "restore"} /\ m \in r.ids
<1>1. <<r>> \in Seq(Requests) /\ DOMAIN <<r>> = {1} /\ <<r>>[1] = r
  OBVIOUS
<1> QED BY <1>1 DEF InOrderOnly, Leaving, Coming

LEMMA NoneLeaves ==
    ASSUME NEW todo \in Seq(Requests), \A i \in DOMAIN todo : todo[i].do # "retire"
    PROVE  InOrderOnly(todo) /\ \A m : ~Leaving(todo, m)
BY DEF InOrderOnly, Leaving

LEMMA LoadRequest == Log!Load \in Requests /\ Log!Load.do = "load" /\ Log!Load.ids = {}
<1>1. "load" \in Log!Requests
  BY DEF Log!Requests
<1> QED BY <1>1, OneRequest DEF Log!Load

\* A command begun.
LEMMA Begins ==
    ASSUME LogInv, NEW todo, NEW undo, todo \in Seq(Requests), undo \in Undos,
           task'.todo = todo, task'.undo = undo, task' \in Tasks,
           UNCHANGED <<logCloud, entries, load, offer, taken, theirs>>,
           acts' \in SUBSET (SUBSET Content),
           CanUndo(undo), \A i \in DOMAIN todo : todo[i].do = "restore" => todo[i].ids \subseteq Rows,
           InOrderOnly(todo),
           \A X \in acts' : \E Y \in acts : Y \subseteq X,
           \A X \in acts' : \A m \in X :
              Leaving(todo, m) => \E n \in X : ~Leaving(todo, n) /\ Coming(todo, n)
    PROVE  LogInv'
<1>1. LogTyped /\ RowsInv /\ LivesInv
  BY DEF LogInv
<1>2. Rows' = Rows /\ \A m : Noted(m) => Noted(m)'
  BY DEF Rows, Noted
<1>3. LogTyped'
  BY <1>1 DEF LogTyped
<1>4. RowsInv'
  <2>1. (entries # None => entries \subseteq Rows)' /\ (load # None => load \subseteq Rows)'
    BY <1>1, <1>2 DEF RowsInv
  <2>2. (offer # None => CanUndo(offer))'
    BY <1>1, <1>2 DEF RowsInv, CanUndo
  <2>3. CanUndo(task.undo)'
    BY <1>2 DEF CanUndo
  <2> QED BY <1>2, <2>1, <2>2, <2>3 DEF RowsInv
<1>5. \A X \in acts' : \E m \in X : Noted(m)'
  BY <1>1, <1>2 DEF LivesInv
<1>6. LivesInv'
  BY <1>5 DEF LivesInv, InOrderOnly, Leaving, Coming
<1> QED BY <1>3, <1>4, <1>6 DEF LogInv

\* What a command writes down as it begins.
LEMMA BegunWith ==
    ASSUME NEW kind \in {"edit", "remove", "chosen", "add", "rename", "undo"},
           NEW todo \in Seq(Requests), NEW undo \in Undos, Log!Begin(kind, todo, undo)
    PROVE  /\ task'.todo = todo /\ task'.undo = undo /\ task' \in Tasks
           /\ UNCHANGED <<logCloud, taken, theirs>>
<1>1. task' = [kind |-> kind, todo |-> todo, undo |-> undo] /\ UNCHANGED <<logCloud, taken, theirs>>
  BY DEF Log!Begin
<1> QED BY <1>1 DEF Tasks

LEMMA Listed == LogInv => Log!Listed \subseteq Content /\ Log!Listed \subseteq Rows
BY DEF LogInv, LogTyped, RowsInv, Log!Listed

\* Commands that tombstone for good, or only write, and leave the activities.
LEMMA PlainCommand ==
    ASSUME LogInv, NEW kind \in {"edit", "remove", "chosen", "add"},
           NEW todo \in Seq(Requests), NEW undo \in Undos, Log!Begin(kind, todo, undo),
           UNCHANGED <<entries, load, offer, acts>>,
           \A i \in DOMAIN todo : todo[i].do \in {"delete", "add", "load"},
           undo.out = {}, undo.back \subseteq Rows
    PROVE  LogInv'
<1>1. /\ task'.todo = todo /\ task'.undo = undo /\ task' \in Tasks
      /\ UNCHANGED <<logCloud, taken, theirs>>
  BY BegunWith
<1>2. acts' \in SUBSET (SUBSET Content)
  BY DEF LogInv, LogTyped
<1>3. InOrderOnly(todo) /\ \A m : ~Leaving(todo, m)
  BY NoneLeaves
<1>4. CanUndo(undo)
  BY DEF CanUndo
<1>5. \A i \in DOMAIN todo : todo[i].do = "restore" => todo[i].ids \subseteq Rows
  OBVIOUS
<1>6. \A X \in acts' : \E Y \in acts : Y \subseteq X
  OBVIOUS
<1>7. \A X \in acts' : \A m \in X :
         Leaving(todo, m) => \E n \in X : ~Leaving(todo, n) /\ Coming(todo, n)
  BY <1>3
<1>8. UNCHANGED <<logCloud, entries, load, offer, taken, theirs>>
  BY <1>1
<1> QED BY <1>1, <1>2, <1>3, <1>4, <1>5, <1>6, <1>7, <1>8, Begins

LEMMA UndoOf ==
    ASSUME NEW back \in SUBSET Content, NEW out \in SUBSET Content
    PROVE  LET u == [back |-> back, out |-> out] IN u \in Undos /\ u.back = back /\ u.out = out
BY DEF Undos

LEMMA OnlyLoads ==
    /\ <<Log!Load>> \in Seq(Requests) /\ \A i \in DOMAIN <<Log!Load>> : <<Log!Load>>[i].do = "load"
    /\ \A m : ~Leaving(<<Log!Load>>, m)
<1>1. Log!Load \in Requests /\ Log!Load.do = "load"
  BY LoadRequest
<1> QED BY <1>1, Single

\* The reload that ends a command.
LEMMA ThenLoad ==
    ASSUME NEW s \in Seq(Requests)
    PROVE  /\ s \o <<Log!Load>> \in Seq(Requests)
           /\ \A i \in DOMAIN (s \o <<Log!Load>>) :
                 (s \o <<Log!Load>>)[i].do = "load" \/ \E j \in DOMAIN s : (s \o <<Log!Load>>)[i] = s[j]
           /\ \A m : Leaving(s \o <<Log!Load>>, m) <=> Leaving(s, m)
           /\ \A m : Coming(s, m) => Coming(s \o <<Log!Load>>, m)
           /\ InOrderOnly(s) /\ (\A i \in DOMAIN s : s[i].do # "delete") => InOrderOnly(s \o <<Log!Load>>)
<1> DEFINE t == <<Log!Load>>
<1>1. t \in Seq(Requests) /\ (\A i \in DOMAIN t : t[i].do = "load") /\ \A m : ~Leaving(t, m)
  BY OnlyLoads
<1> HIDE DEF t
<1>2. \A i \in DOMAIN t : t[i].do \in {"retire", "load"}
  BY <1>1
<1>3. /\ s \o t \in Seq(Requests)
      /\ \A i \in DOMAIN (s \o t) : \/ \E j \in DOMAIN s : (s \o t)[i] = s[j]
                                    \/ \E j \in DOMAIN t : (s \o t)[i] = t[j]
      /\ \A m : Leaving(s \o t, m) <=> Leaving(s, m) \/ Leaving(t, m)
      /\ \A m : Coming(s \o t, m) <=> Coming(s, m) \/ Coming(t, m)
  BY <1>1, Joined
<1>4. InOrderOnly(s) /\ (\A i \in DOMAIN s : s[i].do # "delete") => InOrderOnly(s \o t)
  BY <1>1, <1>2, Joined
<1>5. \A i \in DOMAIN (s \o t) : (s \o t)[i].do = "load" \/ \E j \in DOMAIN s : (s \o t)[i] = s[j]
  BY <1>1, <1>3
<1> QED BY <1>1, <1>3, <1>4, <1>5 DEF t

\* The ids of a removal, then the reload.
LEMMA Removal ==
    ASSUME LogInv, NEW kind \in {"remove", "chosen"}, NEW ids \in SUBSET Content, ids \subseteq Log!Listed,
           Log!Begin(kind, Log!SetDeleted(ids, "delete") \o <<Log!Load>>, [back |-> ids, out |-> {}]),
           UNCHANGED <<entries, load, offer, acts>>
    PROVE  LogInv'
<1> DEFINE all == Log!SetDeleted(ids, "delete")
           todo == all \o <<Log!Load>>
           undo == [back |-> ids, out |-> {}]
<1>1. "delete" \in Log!Requests
  BY DEF Log!Requests
<1>2. all \in Seq(Requests) /\ \A i \in DOMAIN all : all[i].do = "delete"
  BY <1>1, Batches
<1>3. todo \in Seq(Requests) /\ \A i \in DOMAIN todo : todo[i].do \in {"delete", "load"}
  BY <1>2, OnlyLoads, Joined
<1>4. undo \in Undos /\ undo.back = ids /\ undo.out = {}
  BY UndoOf
<1>5. undo.back \subseteq Rows
  BY <1>4, Listed
<1>6. Log!Begin(kind, todo, undo)
  OBVIOUS
<1> HIDE DEF todo, undo
<1> QED BY <1>3, <1>4, <1>5, <1>6, PlainCommand

LEMMA RemoveKeeps == ASSUME LogInv, NEW e \in Content, Log!RemoveEntry(e) PROVE LogInv'
<1>1. /\ Log!Begin("remove", Log!SetDeleted({e}, "delete") \o <<Log!Load>>, [back |-> {e}, out |-> {}])
      /\ UNCHANGED <<entries, load, offer, acts>> /\ {e} \subseteq Log!Listed
  BY DEF Log!RemoveEntry, Log!Page, Log!MenuOffers, Log!DialogOffers
<1>2. {e} \in SUBSET Content
  OBVIOUS
<1> QED BY <1>1, <1>2, Removal

LEMMA RemoveChosenKeeps ==
    ASSUME LogInv, NEW chosen \in Log!Ticks, Log!RemoveChosen(chosen) PROVE LogInv'
<1>1. /\ Log!Begin("chosen", Log!SetDeleted(chosen, "delete") \o <<Log!Load>>,
                   [back |-> chosen, out |-> {}])
      /\ UNCHANGED <<entries, load, offer, acts>>
  BY DEF Log!RemoveChosen, Log!Page
<1>2. chosen \subseteq Log!Listed
  BY DEF Log!Ticks
<1>3. chosen \in SUBSET Content
  BY <1>2, Listed
<1> QED BY <1>1, <1>2, <1>3, Removal

LEMMA AddKeeps == ASSUME LogInv, NEW e \in Content, Log!Add(e) PROVE LogInv'
<1> DEFINE r == Log!Request("add", {e})
           todo == <<r, Log!Load>>
<1>1. Log!Begin("add", todo, Log!NoUndo) /\ UNCHANGED <<entries, load, offer, acts>>
  BY DEF Log!Add, Log!Page
<1>2. "add" \in Log!Requests
  BY DEF Log!Requests
<1>3. r \in Requests /\ r.do = "add"
  BY <1>2, OneRequest
<1> HIDE DEF r
<1>4. todo \in Seq(Requests) /\ \A i \in DOMAIN todo : todo[i].do \in {"add", "load"}
  BY <1>3, LoadRequest
<1>5. Log!NoUndo \in Undos /\ Log!NoUndo.out = {} /\ Log!NoUndo.back \subseteq Rows
  BY FreeTyped DEF Log!NoUndo
<1> HIDE DEF todo
<1> QED BY <1>1, <1>4, <1>5, PlainCommand

\* The dialog of an entry: the new content, then the tombstone of the old one.
LEMMA SaveKeeps ==
    ASSUME LogInv, NEW e \in Content, NEW new \in Content, Log!Save(e, new) PROVE LogInv'
<1>1. e \in Log!Listed /\ UNCHANGED <<entries, load, offer>>
  BY DEF Log!Save, Log!DialogOffers, Log!MenuOffers, Log!Page
<1>2. CASE new = e
  <2>1. Log!Begin("edit", <<Log!Load>>, Log!NoUndo) /\ UNCHANGED acts
    BY <1>2 DEF Log!Save
  <2>2. <<Log!Load>> \in Seq(Requests) /\ \A i \in DOMAIN <<Log!Load>> : <<Log!Load>>[i].do \in {"delete", "add", "load"}
    BY OnlyLoads
  <2>3. Log!NoUndo \in Undos /\ Log!NoUndo.out = {} /\ Log!NoUndo.back \subseteq Rows
    BY FreeTyped DEF Log!NoUndo
  <2> QED BY <1>1, <2>1, <2>2, <2>3, PlainCommand
<1>3. CASE new # e
  <2> DEFINE push == Log!Request("push", {new})
             retire == Log!Request("retire", {e})
             todo == Log!EditEntry(e, new) \o <<Log!Load>>
             undo == [back |-> {e}, out |-> {new}]
  <2>1. Log!Begin("edit", todo, undo) /\ Log!Alternative(e, new)
    BY <1>3 DEF Log!Save
  <2>2. "push" \in Log!Requests /\ "retire" \in Log!Requests
    BY DEF Log!Requests
  <2>3. /\ push \in Requests /\ push.do = "push" /\ push.ids = {new}
        /\ retire \in Requests /\ retire.do = "retire" /\ retire.ids = {e}
    BY <2>2, OneRequest
  <2>4. undo \in Undos /\ undo.back = {e} /\ undo.out = {new}
    BY UndoOf
  <2>5. Log!EditEntry(e, new) = <<push, retire>>
    BY DEF Log!EditEntry
  <2>6. acts' = {IF e \in A THEN A \cup {new} ELSE A : A \in acts}
    BY <2>1 DEF Log!Alternative
  <2> HIDE DEF push, retire
  <2> DEFINE both == <<push, retire>>
             then == <<Log!Load>>
  <2>7. /\ todo = both \o then
        /\ both \in Seq(Requests) /\ Len(both) = 2 /\ both[1] = push /\ both[2] = retire
        /\ then \in Seq(Requests) /\ Len(then) = 1 /\ then[1] = Log!Load
    BY <2>3, <2>5, LoadRequest
  <2> HIDE DEF undo, todo, both, then
  <2>8. /\ todo \in Seq(Requests) /\ DOMAIN todo = 1..3
        /\ todo[1] = push /\ todo[2] = retire /\ todo[3] = Log!Load
    <3>1. /\ todo \in Seq(Requests) /\ Len(todo) = Len(both) + Len(then)
          /\ \A i \in 1..Len(todo) : todo[i] = IF i <= Len(both) THEN both[i] ELSE then[i - Len(both)]
      BY <2>7, ConcatProperties
    <3>2. Len(todo) = 3
      BY <2>7, <3>1
    <3> QED BY <2>7, <3>1, <3>2
  <2>9. InOrderOnly(todo)
    BY <2>3, <2>8, LoadRequest DEF InOrderOnly
  <2>10. \A m : Leaving(todo, m) <=> m = e
    BY <2>3, <2>8, LoadRequest DEF Leaving
  <2>11. Coming(todo, new)
    BY <2>3, <2>8 DEF Coming
  <2>12. \A i \in DOMAIN todo : todo[i].do = "restore" => todo[i].ids \subseteq Rows
    BY <2>3, <2>8, LoadRequest
  <2>13. acts \in SUBSET (SUBSET Content)
    BY DEF LogInv, LogTyped
  <2>14. ASSUME NEW X \in acts'
         PROVE  /\ X \subseteq Content /\ \E Y \in acts : Y \subseteq X
                /\ e \in X => new \in X
    BY <2>6, <2>13
  <2>15. acts' \in SUBSET (SUBSET Content) /\ \A X \in acts' : \E Y \in acts : Y \subseteq X
    BY <2>14
  <2>16. \A X \in acts' : \A m \in X :
            Leaving(todo, m) => \E n \in X : ~Leaving(todo, n) /\ Coming(todo, n)
    BY <1>3, <2>10, <2>11, <2>14
  <2>17. CanUndo(undo)
    BY <1>1, <1>3, <2>4, Listed DEF CanUndo
  <2>18. /\ task'.todo = todo /\ task'.undo = undo /\ task' \in Tasks
         /\ UNCHANGED <<logCloud, taken, theirs>>
    BY <2>1, <2>4, <2>8, BegunWith
  <2>19. UNCHANGED <<logCloud, entries, load, offer, taken, theirs>>
    BY <1>1, <2>18
  <2> QED BY <2>4, <2>8, <2>9, <2>12, <2>15, <2>16, <2>17, <2>18, <2>19, Begins
<1> QED BY <1>2, <1>3

\* A project renamed: all the new contents, then the tombstones of the old ones.
LEMMA RenameKeeps ==
    ASSUME LogInv, NEW to \in {a :> b, (a :> c) @@ (b :> c)}, Log!RenameProject(to) PROVE LogInv'
<1> DEFINE moving == DOMAIN to \cap Log!Listed
           push == Log!Request("push", {to[e] : e \in moving})
           gone1 == Log!SetDeleted(moving, "retire")
           todo == <<push>> \o gone1 \o <<Log!Load>>
<1>1. /\ Log!Begin("rename", todo, Log!NoUndo) /\ UNCHANGED <<entries, load, offer>>
      /\ acts' = {A \cup {to[e] : e \in A \cap moving} : A \in acts}
  BY DEF Log!RenameProject, Log!Page
<1>2. \A e \in DOMAIN to : to[e] \in Content \ DOMAIN to
  BY PhoneInBounds DEF Log!LogBounds
<1>3. moving \in SUBSET Content /\ moving \subseteq DOMAIN to
  BY Listed
<1>4. {to[e] : e \in moving} \in SUBSET Content
  BY <1>2, <1>3
<1>5. "push" \in Log!Requests /\ "retire" \in Log!Requests
  BY DEF Log!Requests
<1>6. push \in Requests /\ push.do = "push" /\ push.ids = {to[e] : e \in moving}
  BY <1>4, <1>5, OneRequest
<1>7. /\ gone1 \in Seq(Requests)
      /\ \A i \in DOMAIN gone1 : gone1[i].do = "retire" /\ \E m \in moving : gone1[i].ids = {m}
  BY <1>3, <1>5, Batches
<1>8. acts \in SUBSET (SUBSET Content)
  BY DEF LogInv, LogTyped
<1> HIDE DEF moving, push, gone1
<1>9. /\ <<push>> \in Seq(Requests) /\ InOrderOnly(<<push>>) /\ \A i \in DOMAIN <<push>> : <<push>>[i].do = "push"
      /\ \A m : ~Leaving(<<push>>, m)
      /\ \A m : Coming(<<push>>, m) <=> m \in push.ids
  BY <1>6, Single
<1>10. \A m : Leaving(gone1, m) => m \in moving
  BY <1>7 DEF Leaving
<1> DEFINE most == <<push>> \o gone1
<1>11. /\ most \in Seq(Requests) /\ InOrderOnly(most)
       /\ \A i \in DOMAIN most : most[i].do \in {"push", "retire"}
       /\ \A m : Leaving(most, m) => m \in moving
       /\ \A m \in push.ids : Coming(most, m)
  <2>1. /\ most \in Seq(Requests)
        /\ \A i \in DOMAIN most : \/ \E j \in DOMAIN <<push>> : most[i] = <<push>>[j]
                                 \/ \E j \in DOMAIN gone1 : most[i] = gone1[j]
        /\ \A m : Leaving(most, m) <=> Leaving(<<push>>, m) \/ Leaving(gone1, m)
        /\ \A m : Coming(most, m) <=> Coming(<<push>>, m) \/ Coming(gone1, m)
    BY <1>7, <1>9, Joined
  <2>2. \A i \in DOMAIN gone1 : gone1[i].do \in {"retire", "load"}
    BY <1>7
  <2>3. \A i \in DOMAIN <<push>> : <<push>>[i].do # "delete"
    BY <1>9
  <2>4. InOrderOnly(most)
    BY <1>7, <1>9, <2>2, <2>3, Joined
  <2>5. \A i \in DOMAIN most : most[i].do \in {"push", "retire"}
    BY <1>7, <1>9, <2>1
  <2> QED BY <1>9, <1>10, <2>1, <2>4, <2>5
<1> HIDE DEF most
<1>12. /\ most \o <<Log!Load>> \in Seq(Requests) /\ InOrderOnly(most \o <<Log!Load>>)
       /\ \A i \in DOMAIN (most \o <<Log!Load>>) : (most \o <<Log!Load>>)[i].do \in {"push", "retire", "load"}
       /\ \A m : Leaving(most \o <<Log!Load>>, m) => m \in moving
       /\ \A m \in push.ids : Coming(most \o <<Log!Load>>, m)
  BY <1>11, ThenLoad
<1>13. /\ todo \in Seq(Requests) /\ InOrderOnly(todo)
       /\ \A i \in DOMAIN todo : todo[i].do \in {"push", "retire", "load"}
       /\ \A m : Leaving(todo, m) => m \in moving
       /\ \A m \in push.ids : Coming(todo, m)
  BY <1>12 DEF most
<1> HIDE DEF todo
<1>14. ASSUME NEW X \in acts'
       PROVE  /\ X \subseteq Content /\ \E Y \in acts : Y \subseteq X
              /\ \A m \in X : m \in moving => to[m] \in X
  <2>1. PICK A \in acts : X = A \cup {to[e] : e \in A \cap moving}
    BY <1>1
  <2>2. \A m \in X : m \in moving => m \in A
    BY <1>2, <1>3, <2>1
  <2> QED BY <1>2, <1>3, <1>8, <2>1, <2>2
<1>15. acts' \in SUBSET (SUBSET Content) /\ \A X \in acts' : \E Y \in acts : Y \subseteq X
  BY <1>14
<1>16. ASSUME NEW X \in acts', NEW m \in X, Leaving(todo, m)
       PROVE  \E n \in X : ~Leaving(todo, n) /\ Coming(todo, n)
  <2>1. m \in moving /\ to[m] \in X
    BY <1>13, <1>14, <1>16
  <2>2. to[m] \notin moving /\ to[m] \in push.ids
    BY <1>2, <1>3, <1>6, <2>1
  <2> QED BY <1>13, <2>1, <2>2
<1>17. \A i \in DOMAIN todo : todo[i].do = "restore" => todo[i].ids \subseteq Rows
  BY <1>13
<1>18. /\ task'.todo = todo /\ task'.undo = Log!NoUndo /\ task' \in Tasks
       /\ UNCHANGED <<logCloud, taken, theirs>> /\ Log!NoUndo \in Undos /\ CanUndo(Log!NoUndo)
  BY <1>1, <1>13, FreeTyped, BegunWith
<1>19. UNCHANGED <<logCloud, entries, load, offer, taken, theirs>>
  BY <1>1, <1>18
<1> QED BY <1>13, <1>15, <1>16, <1>17, <1>18, <1>19, Begins

\* Undo: what was tombstoned comes back, then what was written goes.
LEMMA UndoKeeps == ASSUME LogInv, Log!Undo PROVE LogInv'
<1> DEFINE back == offer.back
           out == offer.out
           revive == Log!SetDeleted(back, "restore")
           remove == Log!SetDeleted(out, "retire")
           most == revive \o remove
           todo == most \o <<Log!Load>>
<1>1. /\ offer # None /\ task' = [kind |-> "undo", undo |-> offer, todo |-> todo]
      /\ acts' = IF out = {} THEN acts
                 ELSE {IF A \cap out # {} THEN A \cup back ELSE A : A \in acts}
      /\ UNCHANGED <<logCloud, entries, load, offer, taken, theirs>>
  BY DEF Log!Undo, Log!Page
<1>2. offer \in Undos /\ CanUndo(offer) /\ acts \in SUBSET (SUBSET Content)
  BY <1>1 DEF LogInv, LogTyped, RowsInv
<1>3. back \in SUBSET Content /\ out \in SUBSET Content /\ back \subseteq Rows
  BY <1>2 DEF Undos, CanUndo
<1>4. out # {} => \E old \in Content, new \in Content : old # new /\ back = {old} /\ out = {new}
  BY <1>2 DEF CanUndo
<1>5. "restore" \in Log!Requests /\ "retire" \in Log!Requests
  BY DEF Log!Requests
<1> HIDE DEF back, out
<1>6. /\ revive \in Seq(Requests)
      /\ \A i \in DOMAIN revive : revive[i].do = "restore" /\ \E m \in back : revive[i].ids = {m}
      /\ \A m \in Content : back = {m} => revive = <<Log!Request("restore", {m})>>
  BY <1>3, <1>5, Batches
<1>7. /\ remove \in Seq(Requests)
      /\ \A i \in DOMAIN remove : remove[i].do = "retire" /\ \E m \in out : remove[i].ids = {m}
  BY <1>3, <1>5, Batches
<1> HIDE DEF revive, remove
<1>8. /\ most \in Seq(Requests)
      /\ \A i \in DOMAIN most : \/ \E j \in DOMAIN revive : most[i] = revive[j]
                                \/ \E j \in DOMAIN remove : most[i] = remove[j]
      /\ \A m : Leaving(most, m) <=> Leaving(revive, m) \/ Leaving(remove, m)
      /\ \A m : Coming(most, m) <=> Coming(revive, m) \/ Coming(remove, m)
  BY <1>6, <1>7, Joined
<1>9. InOrderOnly(most)
  <2>1. InOrderOnly(revive)
    BY <1>6, NoneLeaves
  <2>2. \A i \in DOMAIN revive : revive[i].do # "delete"
    BY <1>6
  <2>3. \A i \in DOMAIN remove : remove[i].do \in {"retire", "load"}
    BY <1>7
  <2> QED BY <1>6, <1>7, <2>1, <2>2, <2>3, Joined
<1>10. \A i \in DOMAIN most : most[i].do \in {"restore", "retire"}
                              /\ (most[i].do = "restore" => most[i].ids \subseteq back)
  BY <1>6, <1>7, <1>8
<1>11. \A m : Leaving(most, m) => m \in out
  BY <1>6, <1>7, <1>8 DEF Leaving
<1>12. ASSUME NEW old \in Content, back = {old} PROVE Coming(most, old)
  <2> DEFINE r == Log!Request("restore", {old})
  <2>1. r \in Requests /\ r.do = "restore" /\ r.ids = {old}
    BY <1>5, OneRequest
  <2>2. revive = <<r>>
    BY <1>6, <1>12
  <2> HIDE DEF r
  <2>3. Coming(<<r>>, old)
    BY <2>1, Single
  <2> QED BY <1>8, <2>2, <2>3
<1> HIDE DEF most
<1>13. /\ todo \in Seq(Requests) /\ InOrderOnly(todo)
       /\ \A i \in DOMAIN todo : todo[i].do = "load" \/ \E j \in DOMAIN most : todo[i] = most[j]
       /\ \A m : Leaving(todo, m) => m \in out
       /\ \A m : Coming(most, m) => Coming(todo, m)
  <2>1. \A i \in DOMAIN most : most[i].do # "delete"
    BY <1>10
  <2> QED BY <1>8, <1>9, <1>11, <2>1, ThenLoad
<1> HIDE DEF todo
<1>14. \A i \in DOMAIN todo : todo[i].do = "restore" => todo[i].ids \subseteq Rows
  BY <1>3, <1>10, <1>13
<1>15. ASSUME NEW X \in acts'
       PROVE  X \subseteq Content /\ \E Y \in acts : Y \subseteq X
  BY <1>1, <1>2, <1>3
<1>16. acts' \in SUBSET (SUBSET Content) /\ \A X \in acts' : \E Y \in acts : Y \subseteq X
  BY <1>15
<1>17. ASSUME NEW X \in acts', NEW m \in X, Leaving(todo, m)
       PROVE  \E n \in X : ~Leaving(todo, n) /\ Coming(todo, n)
  <2>1. m \in out
    BY <1>13, <1>17
  <2>2. PICK old \in Content, new \in Content : old # new /\ back = {old} /\ out = {new}
    BY <1>4, <2>1
  <2>3. PICK A \in acts : X = IF A \cap out # {} THEN A \cup back ELSE A
    BY <1>1, <2>1
  <2>4. A \cap out # {}
    BY <2>1, <2>3
  <2>5. old \in X /\ ~Leaving(todo, old) /\ Coming(todo, old)
    BY <1>12, <1>13, <2>2, <2>3, <2>4
  <2> QED BY <2>5
<1>18. task'.todo = todo /\ task'.undo = offer /\ task' \in Tasks
  BY <1>1, <1>2, <1>13 DEF Tasks
<1> QED BY <1>1, <1>2, <1>13, <1>14, <1>16, <1>17, <1>18, Begins

\* What the others write is counted theirs.
LEMMA OtherWrites == ASSUME LogInv, NEW e \in Content, Log!Other(e) PROVE LogInv'
<1>1. /\ theirs' = theirs \cup {e} /\ UNCHANGED <<entries, load, offer, task, taken>>
      /\ logCloud' \in {[logCloud EXCEPT ![e] = "live"], [logCloud EXCEPT ![e] = "dead"]}
      /\ logCloud[e] = "none" => logCloud' = [logCloud EXCEPT ![e] = "live"]
      /\ acts' \in {acts, acts \cup {{e}}}
  BY DEF Log!Other, Log!Page
<1>2. LogTyped /\ RowsInv /\ LivesInv
  BY DEF LogInv
<1>3. /\ logCloud' \in [Content -> {"none", "live", "dead"}] /\ Rows \subseteq Rows'
      /\ \A m \in Content : m # e => logCloud'[m] = logCloud[m]
  BY <1>1, <1>2 DEF LogTyped, Rows
<1>4. Noted(e)' /\ \A m \in Content : Noted(m) => Noted(m)'
  BY <1>1, <1>3 DEF Noted
<1>5. LogTyped'
  BY <1>1, <1>2, <1>3 DEF LogTyped
<1>6. RowsInv'
  BY <1>1, <1>2, <1>3 DEF RowsInv, CanUndo
<1>7. LivesInv'
  <2>1. acts \in SUBSET (SUBSET Content)
    BY <1>2 DEF LogTyped
  <2>2. \A X \in acts' : \E m \in X : Noted(m)'
    BY <1>1, <1>2, <1>4, <2>1 DEF LivesInv
  <2>3. ASSUME NEW X \in acts', NEW m \in X, Leaving(task.todo, m)
        PROVE  \/ X = {m}
               \/ \E n \in X : ~Leaving(task.todo, n) /\ (Noted(n)' \/ Coming(task.todo, n))
    <3>1. CASE X \in acts
      BY <1>2, <1>4, <2>1, <2>3, <3>1 DEF LivesInv
    <3>2. CASE X = {e}
      BY <3>2
    <3> QED BY <1>1, <3>1, <3>2
  <2>4. task' = task
    BY <1>1
  <2> QED BY <1>2, <2>2, <2>3, <2>4 DEF LivesInv, InOrderOnly, Leaving, Coming
<1> QED BY <1>5, <1>6, <1>7 DEF LogInv

\* The lists that come and the snackbar that goes write nothing.
LEMMA ListsKeep ==
    ASSUME LogInv, entries' \in {entries, load}, load' \in {None, load, Log!Live}, offer' \in {offer, None},
           UNCHANGED <<logCloud, task, acts, taken, theirs>>
    PROVE  LogInv'
<1>1. LogTyped /\ RowsInv /\ LivesInv
  BY DEF LogInv
<1>2. Rows' = Rows /\ Log!Live \subseteq Rows /\ Log!Live \subseteq Content
  BY DEF Rows, Log!Live
<1>3. LogTyped'
  BY <1>1, <1>2 DEF LogTyped
<1>4. RowsInv'
  BY <1>1, <1>2 DEF RowsInv, CanUndo
<1>5. LivesInv'
  BY <1>1 DEF LivesInv, Noted, InOrderOnly, Leaving, Coming
<1> QED BY <1>3, <1>4, <1>5 DEF LogInv

LogAlways == part = "log" => LogInv

LEMMA NextLog == LogAlways /\ [AnyNext]_<<part, timer, log, session, keys, pad>> => LogAlways'
<1> SUFFICES ASSUME LogAlways, [AnyNext]_<<part, timer, log, session, keys, pad>>, part' = "log"
             PROVE  LogInv'
  BY DEF LogAlways
<1>1. part = "log" /\ (Log!Next \/ UNCHANGED log)
  BY DEF AnyNext
<1>2. LogInv
  BY <1>1 DEF LogAlways
<1>3. CASE Log!Next
  <2>1. CASE \E e \in Content, new \in Content : Log!Save(e, new)
    BY <1>2, <2>1, SaveKeeps
  <2>2. CASE \E to \in {a :> b, (a :> c) @@ (b :> c)} : Log!RenameProject(to)
    BY <1>2, <2>2, RenameKeeps
  <2>3. CASE \E e \in Content : Log!RemoveEntry(e) \/ Log!Add(e) \/ Log!Other(e)
    BY <1>2, <2>3, RemoveKeeps, AddKeeps, OtherWrites
  <2>4. CASE \E chosen \in Log!Ticks : Log!RemoveChosen(chosen)
    BY <1>2, <2>4, RemoveChosenKeeps
  <2>5. CASE Log!Undo \/ Log!Step \/ Log!Fail
    BY <1>2, <2>5, UndoKeeps, StepKeeps, FailKeeps
  <2>6. CASE Log!Dismiss \/ Log!ReloadAsk \/ Log!Reload
    <3>1. /\ entries' \in {entries, load} /\ load' \in {None, load, Log!Live} /\ offer' \in {offer, None}
          /\ UNCHANGED <<logCloud, task, acts, taken, theirs>>
      BY <2>6 DEF Log!Dismiss, Log!ReloadAsk, Log!Reload
    <3> QED BY <1>2, <3>1, ListsKeep
  <2> QED BY <1>3, <2>1, <2>2, <2>3, <2>4, <2>5, <2>6 DEF Log!Next
<1>4. CASE UNCHANGED log
  BY <1>2, <1>4, ListsKeep DEF log
<1> QED BY <1>1, <1>3, <1>4

\* What the requests of a command have left of each activity, and in what order
\* they come.
THEOREM LogInvariant == AnySpec => []LogAlways
<1>1. AnyInit => LogAlways
  BY InitLog DEF AnyInit, LogAlways
<1> QED BY <1>1, NextLog, PTL DEF AnySpec

\* Whichever request of an edit, a rename or an undo fails, a row of the activity
\* is left, or one the phone did not write itself.
THEOREM ActivitiesLive == AnySpec => []EachActivityLives
<1>1. LogAlways => EachActivityLives
  BY DEF LogAlways, LogInv, LivesInv, Noted, EachActivityLives, Log!EachActivityLives, Log!Held
<1> QED BY <1>1, LogInvariant, PTL

-----------------------------------------------------------------------------
(* The keys *)

\* What IInv adds to KeysAgree, of the next state: a device about to save a key
\* carries the row's.
Carried ==
    \A e \in Devices :
        /\ doing'[e].at \in {"insert", "save"} => doing'[e].dek # 0
        /\ doing'[e].at = "save" => doing'[e].dek = row'.dek

\* No device holds a key at first.
LEMMA InitInv == Init => IInv
  BY KeysBounds, SMT DEF Init, IInv, TypeOK, KeysAgree, Key, Steps, Out

\* Steps that leave the row's key and every device's key alone.
LEMMA StillAgrees ==
    ASSUME IInv, TypeOK', row'.dek = row.dek,
           \A d \in Devices : holds'[d].dek \in {0, holds[d].dek},
           \A d \in Devices : doing'[d].at \in {"insert", "save"} =>
                doing'[d].at = doing[d].at /\ doing'[d].dek = doing[d].dek
    PROVE  IInv'
  BY SMT DEF IInv, KeysAgree

\* The inductive step: a device saves only the key it has read from the row, or
\* the one it has just inserted there (account.ts unlock).
LEMMA NextInv == IInv /\ [Next]_vars => IInv'
<1> SUFFICES ASSUME IInv, [Next]_vars PROVE IInv'
  OBVIOUS
<1> USE KeysBounds DEF Key, Steps, Out, Goes, Carried
<1>1. CASE UNCHANGED vars
  BY <1>1 DEF vars, IInv, TypeOK, KeysAgree
<1>2. CASE Next
  <2> PICK d \in Devices :
        \/ SignIn(d) \/ ReadKeys(d) \/ InsertKeys(d) \/ SaveKey(d)
        \/ LookForIdentity(d) \/ PatchIdentity(d) \/ Publish(d) \/ KeepIdentity(d)
        \/ UnlockSharing(d) \/ SignOut(d) \/ Fail(d) \/ Stop(d)
    BY <1>2 DEF Next
  <2>1. CASE SignIn(d)
    <3>1. TypeOK'
      BY <2>1 DEF SignIn, IInv, TypeOK
    <3> QED
      BY <2>1, <3>1, StillAgrees DEF SignIn, IInv, TypeOK
  <2>2. CASE ReadKeys(d)
    <3>1. TypeOK'
      BY <2>2 DEF ReadKeys, IInv, TypeOK
    <3>2. KeysAgree'
      BY <2>2 DEF ReadKeys, IInv, KeysAgree
    <3>3. Carried
      <4>1. CASE row.dek # 0
        BY <2>2, <4>1 DEF ReadKeys, IInv, TypeOK
      <4>2. CASE row.dek = 0
        <5>1. made' # 0
          BY <2>2, <4>2 DEF ReadKeys, IInv, TypeOK
        <5> QED
          BY <2>2, <4>2, <5>1 DEF ReadKeys, IInv, TypeOK
      <4> QED
        BY <4>1, <4>2
    <3> QED
      BY <3>1, <3>2, <3>3 DEF IInv
  <2>3. CASE InsertKeys(d)
    <3>1. TypeOK'
      BY <2>3 DEF InsertKeys, IInv, TypeOK
    <3>2. KeysAgree'
      BY <2>3 DEF InsertKeys, IInv, TypeOK, KeysAgree
    <3>3. Carried
      BY <2>3 DEF InsertKeys, IInv, TypeOK
    <3> QED
      BY <3>1, <3>2, <3>3 DEF IInv
  <2>4. CASE SaveKey(d)
    <3>1. TypeOK'
      BY <2>4 DEF SaveKey, IInv, TypeOK
    <3>2. KeysAgree'
      BY <2>4 DEF SaveKey, IInv, TypeOK, KeysAgree
    <3>3. Carried
      BY <2>4 DEF SaveKey, IInv, TypeOK
    <3> QED
      BY <3>1, <3>2, <3>3 DEF IInv
  <2>5. CASE LookForIdentity(d)
    <3>1. TypeOK'
      BY <2>5, SMTT(60) DEF LookForIdentity, IInv, TypeOK
    <3> QED
      BY <2>5, <3>1, StillAgrees, SMTT(60) DEF LookForIdentity, IInv, TypeOK
  <2>6. CASE PatchIdentity(d)
    <3>1. TypeOK'
      BY <2>6 DEF PatchIdentity, IInv, TypeOK
    <3> QED
      BY <2>6, <3>1, StillAgrees, SMTT(60) DEF PatchIdentity, IInv, TypeOK
  <2>7. CASE Publish(d)
    <3>1. TypeOK'
      BY <2>7 DEF Publish, IInv, TypeOK
    <3> QED
      BY <2>7, <3>1, StillAgrees DEF Publish, IInv, TypeOK
  <2>8. CASE KeepIdentity(d)
    <3>1. TypeOK'
      BY <2>8 DEF KeepIdentity, IInv, TypeOK
    <3> QED
      BY <2>8, <3>1, StillAgrees DEF KeepIdentity, IInv, TypeOK
  <2>9. CASE UnlockSharing(d)
    <3>1. TypeOK'
      BY <2>9 DEF UnlockSharing, IInv, TypeOK
    <3> QED
      BY <2>9, <3>1, StillAgrees DEF UnlockSharing, IInv, TypeOK
  <2>10. CASE SignOut(d)
    <3>1. TypeOK'
      BY <2>10 DEF SignOut, IInv, TypeOK
    <3> QED
      BY <2>10, <3>1, StillAgrees DEF SignOut, IInv, TypeOK
  <2>11. CASE Fail(d)
    <3>1. CASE doing[d].at \in {"read", "insert"}
      <4>1. TypeOK'
        BY <2>11, <3>1 DEF Fail, IInv, TypeOK
      <4>2. KeysAgree'
        BY <2>11, <3>1 DEF Fail, IInv, TypeOK, KeysAgree
      <4>3. Carried
        BY <2>11, <3>1 DEF Fail, IInv, TypeOK
      <4> QED
        BY <4>1, <4>2, <4>3 DEF IInv
    <3>2. CASE doing[d].at \in {"look", "patch", "publish"}
      <4>1. TypeOK'
        BY <2>11, <3>2 DEF Fail, IInv, TypeOK
      <4>2. KeysAgree'
        BY <2>11, <3>2 DEF Fail, IInv, TypeOK, KeysAgree
      <4>3. \E to \in {"in", "keep"} : Goes(d, to)
        BY <2>11, <3>2 DEF Fail
      <4>4. row'.dek = row.dek
        BY <2>11, <3>2 DEF Fail, IInv, TypeOK
      <4>5. Carried
        BY <4>3, <4>4 DEF IInv, TypeOK
      <4> QED
        BY <4>1, <4>2, <4>5 DEF IInv
    <3> QED
      BY <2>11, <3>1, <3>2 DEF Fail
  <2>12. CASE Stop(d)
    <3>1. TypeOK'
      BY <2>12 DEF Stop, IInv, TypeOK
    <3>2. KeysAgree'
      BY <2>12 DEF Stop, IInv, KeysAgree
    <3>3. Carried
      <4>1. CASE holds[d].dek # 0
        BY <2>12, <4>1 DEF Stop, IInv, TypeOK
      <4>2. CASE holds[d].dek = 0
        BY <2>12, <4>2 DEF Stop, IInv, TypeOK
      <4> QED
        BY <4>1, <4>2
    <3> QED
      BY <3>1, <3>2, <3>3 DEF IInv
  <2> QED
    BY <2>1, <2>2, <2>3, <2>4, <2>5, <2>6, <2>7, <2>8, <2>9, <2>10, <2>11, <2>12
<1> QED
  BY <1>1, <1>2

LEMMA KeySteps ==
    ASSUME [AnyNext]_<<part, timer, log, session, keys, pad>>
    PROVE  [Next]_vars
BY DEF AnyNext, keys, vars

\* What a device holds or is about to save is the key of the account's row.
THEOREM KeysInvariant == AnySpec => []IInv
<1>1. AnyInit => IInv
  BY InitInv DEF AnyInit
<1>2. IInv /\ [AnyNext]_<<part, timer, log, session, keys, pad>> => IInv'
  BY NextInv, KeySteps
<1> QED BY <1>1, <1>2, PTL DEF AnySpec

\* Whatever fails and whoever signs in at the same time, every device of an
\* account holds the key of the account's row.
THEOREM KeysAlwaysAgree == AnySpec => []KeysAgree
<1>1. IInv => KeysAgree
  BY DEF IInv
<1> QED BY <1>1, KeysInvariant, PTL

\* No step replaces the key of an account that has one.
THEOREM KeyNeverReplaced == AnySpec => KeyIsForGood
<1>1. IInv /\ [AnyNext]_<<part, timer, log, session, keys, pad>> => [row.dek # 0 => row'.dek = row.dek]_vars
  <2> SUFFICES ASSUME IInv, [AnyNext]_<<part, timer, log, session, keys, pad>>
               PROVE  [row.dek # 0 => row'.dek = row.dek]_vars
    OBVIOUS
  <2>1. [Next]_vars
    BY KeySteps
  <2> QED
    BY <2>1 DEF IInv, TypeOK, Next, vars, SignIn, ReadKeys, InsertKeys, SaveKey, LookForIdentity, PatchIdentity,
         Publish, KeepIdentity, UnlockSharing, SignOut, Fail, Stop
<1> QED BY <1>1, KeysInvariant, PTL DEF AnySpec, KeyIsForGood

-----------------------------------------------------------------------------
(* The types *)

LEMMA TimerTypes == ASSUME TP!ShapeInv, TP!ReturnInv, TP!BudgetInv PROVE Timer!TypeOK
<1>1. TP!TypeOK
  BY SameBounds, TP!TypesFollow
<1> QED BY <1>1 DEF TP!TypeOK, Timer!TypeOK, TP!TimerState, Timer!TimerState, TP!Timer, Timer!Timer,
                    TP!Entry, Timer!Entry, TP!Instant, Timer!Instant, TP!Steps, Timer!Steps,
                    TP!Kinds, Timer!Kinds

\* The machine that moves stays within its types, for every bound on the taps,
\* the texts and the accounts: no version of the timer's record is beyond the
\* writes, and no request is sent that the server would not know.
THEOREM TypesHold == AnySpec => []Typed
<1>1. TimerInv /\ SessionInv /\ PadAlways /\ LogAlways => Typed
  <2> SUFFICES ASSUME TimerInv, SessionInv, PadAlways, LogAlways PROVE Typed
    OBVIOUS
  <2>1. part = "timer" => Timer!TypeOK
    BY TimerTypes DEF TimerInv
  <2>2. part = "log" => Log!TypeOK
    BY LogTypes DEF LogAlways, LogInv
  <2>3. part = "session" => Session!TypeOK
    BY SessionTypes DEF SessionInv
  <2>4. part = "pad" => Pad!TypeOK
    BY PadTypes DEF PadAlways, PadInv
  <2> QED BY <2>1, <2>2, <2>3, <2>4 DEF Typed
<1> QED BY <1>1, TimerInvariant, SessionInvariant, PadInvariant, LogInvariant, PTL
=============================================================================
