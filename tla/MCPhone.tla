------------------------------- MODULE MCPhone -------------------------------
(***************************************************************************)
(* The machines of the phone, checked in one run: they share no state, so  *)
(* each behaviour takes the steps of one of them and leaves the others as  *)
(* they began.                                                             *)
(***************************************************************************)
EXTENDS AccountKeys, FiniteSets, TLC

CONSTANTS None, Title, Content, Users, a, b, c, Plain, Todo,
    Parts,       \* the machines checked: of "timer", "log", "session", "keys" and "pad"
    Time, Taps,  \* the bounds on the timer
    Auths        \* and on the sign-ins

VARIABLES
    part,  \* the machine that takes its steps
    record, table, state, kept, localOnly, pending, timerCloud, op, poll, flush, shown,
    editing, asked, up, clock, timerLeft, over, queued, closed, torn,
    logCloud, entries, offer, task, load, logLeft, acts, taken, theirs,
    accounts, sessions, store, account, loading, form, auth, cached, minting, reload,
    picture, history, sessionLeft, cut,
    typing, last, unreported, posted, value, given, text, agreed, padRecord, sync, padLeft,
    typed, others, gone

timer == <<record, table, state, kept, localOnly, pending, timerCloud, op, poll, flush, shown,
           editing, asked, up, clock, timerLeft, over, queued, closed, torn>>
log == <<logCloud, entries, offer, task, load, logLeft, acts, taken, theirs>>
session == <<accounts, sessions, store, account, loading, form, auth, cached, minting, reload,
             picture, history, sessionLeft, cut>>
keys == <<row, public, holds, doing, made, fails>>

pad == <<typing, last, unreported, posted, value, given, text, agreed, padRecord, sync,
         padLeft, typed, others, gone>>

Timer == INSTANCE PhoneTimer WITH
    MaxTime <- Time, MaxTaps <- Taps, MaxOthers <- 1, MaxFails <- 1, MaxKills <- 1,
    Tables <- BOOLEAN, cloud <- timerCloud, left <- timerLeft
Log == INSTANCE PhoneLog WITH
    Renames <- {a :> b, (a :> c) @@ (b :> c)},
    MaxOps <- 2, MaxOthers <- 1, MaxFails <- 1, cloud <- logCloud, left <- logLeft
Session == INSTANCE PhoneSession WITH
    MaxAuths <- Auths, MaxReloads <- 1, MaxPictures <- 1, MaxExpiries <- 1, MaxFails <- 1,
    MaxKills <- 1, entries <- history, left <- sessionLeft

Pad == INSTANCE PadPhone WITH
    MaxTyped <- 1, MaxTicks <- 1, MaxOthers <- 2, MaxFaults <- 1, Attempts <- 2,
    shown <- typing, pending <- unreported, record <- padRecord, left <- padLeft

ASSUME PhoneInBounds ==
    /\ Timer!PhoneNone /\ Timer!PhoneBounds
    /\ Log!LogNone /\ Log!LogBounds
    /\ Session!SessionNone /\ Session!SessionBounds
    /\ Pad!PadPhoneBounds

\* The initial states of the machines that stay as they began, cut to one.
Still ==
    /\ part # "timer" => table = TRUE
    /\ part # "log" => logCloud = [x \in Content |-> "none"]
    /\ part # "session" => accounts = [u \in Users |-> "ok"]
    /\ part # "pad" => text = {} /\ padRecord.html = {} /\ padRecord = agreed

AnyInit ==
    /\ part \in Parts
    /\ Timer!Init /\ Log!Init /\ Session!Init /\ Init /\ Pad!Init
    /\ Still

AnyNext ==
    \/ part = "timer" /\ Timer!Next /\ UNCHANGED <<part, log, session, keys, pad>>
    \/ part = "log" /\ Log!Next /\ UNCHANGED <<part, timer, session, keys, pad>>
    \/ part = "session" /\ Session!Next /\ UNCHANGED <<part, timer, log, keys, pad>>
    \/ part = "keys" /\ Next /\ UNCHANGED <<part, timer, log, session, pad>>
    \/ part = "pad" /\ Pad!Next /\ UNCHANGED <<part, timer, log, session, keys>>

AnySpec == AnyInit /\ [][AnyNext]_<<part, timer, log, session, keys, pad>>

AnyFairSpec ==
    /\ AnySpec
    /\ WF_timer(part = "timer" /\ Timer!Work)
    /\ WF_timer(part = "timer" /\ Timer!StopLands)
    /\ WF_timer(part = "timer" /\ Timer!RefreshRead)
    /\ WF_timer(part = "timer" /\ Timer!RefreshAdopt)
    /\ WF_timer(part = "timer" /\ Timer!FlushRead)
    /\ WF_timer(part = "timer" /\ Timer!FlushPush)
    /\ WF_timer(part = "timer" /\ Timer!FlushDrop)
    /\ WF_timer(part = "timer" /\ Timer!Launch)
    /\ WF_pad(part = "pad" /\ Pad!Flush)
    /\ WF_pad(part = "pad" /\ Pad!Receive)
    /\ WF_pad(part = "pad" /\ Pad!Take)
    /\ WF_pad(part = "pad" /\ Pad!SyncStart)
    /\ WF_pad(part = "pad" /\ Pad!Sync)
-----------------------------------------------------------------------------
Typed ==
    /\ part = "timer" => Timer!TypeOK
    /\ part = "log" => Log!TypeOK
    /\ part = "session" => Session!TypeOK
    /\ part = "pad" => Pad!TypeOK
NeverReturns == part = "timer" => Timer!NeverReturns
QueuedFirst == part = "timer" => Timer!QueuedFirst
StopsWhatItSaw == [][Timer!ClosesItsOwn]_timer
EachActivityLives == part = "log" => Log!EachActivityLives
NothingKept == part = "session" => Session!NothingKept
LinesStay == part = "pad" => Pad!LinesStay
KeptInStep == Timer!KeptInStep
EditsReach == part = "pad" => Pad!EditsReach
=============================================================================
