------------------------------ MODULE PhoneTimer ------------------------------
(***************************************************************************)
(* The running timer on the phone (mobile/src/lib/running-timer.tsx,       *)
(* sync/timer.ts, sync/entries.ts, sync/background.ts).                    *)
(*                                                                         *)
(* The phone keeps no log of its own: it shows the last state of the       *)
(* record it saw, changes it at once on a tap, and only then writes the    *)
(* record by compare-and-set.  What a tap ends is first queued as an entry *)
(* in the phone's store, from where a flush pushes it to the cloud.  A     *)
(* poll, a push while the application is closed and the other devices of   *)
(* the account interleave with every await of these.                       *)
(*                                                                         *)
(* Bounds: one tap's work and one flush are in flight at a time.           *)
(***************************************************************************)
EXTENDS Naturals, FiniteSets

CONSTANTS
    Title,      \* description, project and notes of an activity
    None,       \* no timer, an open end, nothing shown, nothing kept
    MaxTime,    \* bound on the clock
    MaxTaps,    \* bound on the user's taps
    MaxOthers,  \* bound on the other devices' writes
    MaxFails,   \* bound on failed requests
    MaxKills,   \* bound on the times the application is killed
    Tables      \* whether the server has the running_timers table: a subset of BOOLEAN

Instant == 0..MaxTime
Timer == [d : Title, s : Instant, e : Instant \cup {None}]
Entry == [d : Title, s : Instant, e : Instant]
TimerState == [v : 0..(MaxTaps + MaxOthers), t : Timer \cup {None}]

Kinds == {"start", "stop", "edit"}

PhoneNone == None \notin Instant \cup Title \cup Timer \cup TimerState \cup Kinds
PhoneBounds ==
    /\ {MaxTime, MaxTaps, MaxOthers, MaxFails, MaxKills} \subseteq Nat
    /\ Tables \subseteq BOOLEAN

VARIABLES
    record,    \* the account's running_timers row
    table,     \* whether that table exists
    state,     \* stateRef: the timer as the phone shows it
    kept,      \* timer.state in the phone's secure store
    localOnly, \* the table was found missing: the timer stays on the phone
    pending,   \* entries.pending in the secure store
    cloud,     \* the account's rows of the entries table
    op,        \* the start, stop or edit in flight
    poll,      \* the refresh in flight: what the server answered, or None
    flush,     \* the flush in flight: [pc, took]
    shown,     \* the timer whose Stop was tapped, while its card plays its exit
    editing,   \* the timer whose edit dialog is open
    asked,     \* the title the resume dialog asks about
    up,        \* the application runs
    clock,
    left,      \* what is left of each bound
    over,      \* history: the starts whose timer was ended or replaced in the record
    queued,    \* history: every entry ever queued
    closed,    \* history: the timers this phone's stop closed in the record
    torn       \* history: the application was killed in the middle of a tap's work

vars == <<record, table, state, kept, localOnly, pending, cloud, op, poll, flush,
          shown, editing, asked, up, clock, left, over, queued, closed, torn>>

Steps == {"idle", "queue", "store", "begin", "write", "reread", "rewrite", "landed", "failed"}

Idle == [pc |-> "idle", kind |-> None, on |-> None, seen |-> 0, base |-> None, t |-> None,
         read |-> {}, before |-> [v |-> 0, t |-> None], got |-> [v |-> 0, t |-> None]]

Nothing == [v |-> 0, t |-> None]

TypeOK ==
    /\ {record, state, op.before, op.got} \subseteq TimerState
    /\ kept \in TimerState \cup {None}
    /\ {table, localOnly, up, torn} \subseteq BOOLEAN
    /\ UNION {pending, cloud, queued, closed, op.read, flush.took} \subseteq Entry
    /\ op.pc \in Steps /\ op.kind \in Kinds \cup {None}
    /\ {op.on, shown, editing} \subseteq Instant \cup {None}
    /\ {op.base, op.t} \subseteq Timer \cup {None}
    /\ poll \in TimerState \cup {None}
    /\ flush.pc \in {"idle", "push", "drop"}
    /\ asked \in Title \cup {None}
    /\ clock \in Instant
    /\ over \in SUBSET Instant

Init ==
    /\ record = Nothing /\ table \in Tables
    /\ state = Nothing /\ kept = None /\ localOnly = FALSE
    /\ pending = {} /\ cloud = {}
    /\ op = Idle /\ poll = None /\ flush = [pc |-> "idle", took |-> {}]
    /\ shown = None /\ editing = None /\ asked = None
    /\ up = TRUE /\ clock = 0
    /\ left = [taps |-> MaxTaps, others |-> MaxOthers, fails |-> MaxFails, kills |-> MaxKills]
    /\ over = {} /\ queued = {} /\ closed = {} /\ torn = FALSE

-----------------------------------------------------------------------------

IsRunning(t) == t # None /\ t.e = None

\* What an activity is once it is over: the entry of the timer.
EntryFromTimer(t, end) == [d |-> t.d, s |-> t.s, e |-> end]

\* A write of the record leaves the timer it replaces, or ends, over.
Over(t) ==
    over' = IF IsRunning(record.t) /\ (~IsRunning(t) \/ t.s # record.t.s)
            THEN over \cup {record.t.s} ELSE over

Adopt(next) == state' = next /\ kept' = next

Tap == up /\ left.taps > 0 /\ left' = [left EXCEPT !.taps = @ - 1]
Tick == clock < MaxTime /\ clock' = clock + 1

\* The Now page shows the starter, or the running timer's card.
StarterShown == up /\ ~IsRunning(state.t)
CardShown == up /\ IsRunning(state.t)

Phone == <<state, kept, localOnly, pending, op, poll, flush, shown, editing, asked, up>>
Screen == <<shown, editing, asked>>

-----------------------------------------------------------------------------
(* Taps *)

\* start: reads the shown state and, when something runs in it, first queues
\* its entry, closed at the new start.
Starting(d) ==
    [Idle EXCEPT !.pc = IF IsRunning(state.t) THEN "queue" ELSE "begin",
                 !.kind = "start", !.seen = state.v, !.base = state.t,
                 !.t = [d |-> d, s |-> clock + 1, e |-> None]]

\* The starter of the Now page, and the quick starts: offered with nothing
\* running, and resume goes ahead without asking.
StartTap(d) ==
    /\ Tap /\ Tick
    /\ op.pc = "idle" /\ StarterShown
    /\ op' = Starting(d)
    /\ UNCHANGED <<record, table, state, kept, localOnly, pending, cloud, poll, flush,
                   Screen, up, over, queued, closed, torn>>

\* Resuming something else while a timer runs asks first.
ResumeTap(d) ==
    /\ Tap
    /\ CardShown /\ state.t.d # d /\ asked = None
    /\ asked' = d
    /\ UNCHANGED <<record, table, state, kept, localOnly, pending, cloud, op, poll, flush,
                   shown, editing, up, clock, over, queued, closed, torn>>

\* The answer starts the asked activity over whatever runs by then.
ResumeAnswer(confirmed) ==
    /\ up /\ asked # None
    /\ asked' = None
    /\ IF confirmed THEN op.pc = "idle" /\ Tick /\ op' = Starting(asked)
                    ELSE UNCHANGED <<op, clock>>
    /\ UNCHANGED <<record, table, state, kept, localOnly, pending, cloud, poll, flush,
                   shown, editing, up, left, over, queued, closed, torn>>

\* The running card plays its exit before the stop lands.
StopTap ==
    /\ Tap
    /\ CardShown /\ shown = None
    /\ shown' = state.t.s
    /\ UNCHANGED <<record, table, state, kept, localOnly, pending, cloud, op, poll, flush,
                   editing, asked, up, clock, over, queued, closed, torn>>

\* Slip: the stop queues nothing.
StopLandsUnqueued ==
    /\ up /\ shown # None /\ op.pc = "idle"
    /\ shown' = None
    /\ IF state.t = None THEN UNCHANGED <<op, clock>>
       ELSE /\ Tick
            /\ op' = [Idle EXCEPT !.pc = "begin", !.kind = "stop", !.on = shown, !.seen = state.v,
                                  !.base = state.t, !.t = [state.t EXCEPT !.e = clock + 1]]
    /\ UNCHANGED <<record, table, state, kept, localOnly, pending, cloud, poll, flush,
                   editing, asked, up, left, over, queued, closed, torn>>

\* stop: ends the timer the phone shows when the card is gone.
StopLands ==
    /\ up /\ shown # None /\ op.pc = "idle"
    /\ shown' = None
    /\ IF state.t = None THEN UNCHANGED <<op, clock>>
       ELSE /\ Tick
            /\ op' = [Idle EXCEPT !.pc = "queue", !.kind = "stop", !.on = shown, !.seen = state.v,
                                  !.base = state.t, !.t = [state.t EXCEPT !.e = clock + 1]]
    /\ UNCHANGED <<record, table, state, kept, localOnly, pending, cloud, poll, flush,
                   editing, asked, up, left, over, queued, closed, torn>>

EditTap ==
    /\ Tap
    /\ CardShown /\ editing = None
    /\ editing' = state.t.s
    /\ UNCHANGED <<record, table, state, kept, localOnly, pending, cloud, op, poll, flush,
                   shown, asked, up, clock, over, queued, closed, torn>>

\* edit: the dialog's title goes on the timer that runs when it is saved; the
\* card, and its dialog with it, is gone when none does.
EditSave(d) ==
    /\ up /\ editing # None /\ op.pc = "idle"
    /\ editing' = None
    /\ IF IsRunning(state.t)
       THEN op' = [Idle EXCEPT !.pc = "begin", !.kind = "edit", !.on = editing, !.seen = state.v,
                               !.base = state.t, !.t = [state.t EXCEPT !.d = d]]
       ELSE op' = op
    /\ UNCHANGED <<record, table, state, kept, localOnly, pending, cloud, poll, flush,
                   shown, asked, up, clock, left, over, queued, closed, torn>>

-----------------------------------------------------------------------------
(* The tap's work: queueEntry, then run *)

\* queueEntry reads the stored list, and stores it with the entry added.
QueueRead ==
    /\ up /\ op.pc = "queue"
    /\ op' = [op EXCEPT !.pc = "store", !.read = pending]
    /\ UNCHANGED <<record, table, state, kept, localOnly, pending, cloud, poll, flush,
                   Screen, up, clock, left, over, queued, closed, torn>>

\* Slip: the entry takes the end of the tap's own timer, which a start has not.
QueueStoreOpen ==
    /\ up /\ op.pc = "store"
    /\ LET e == EntryFromTimer(op.base, op.t.e) IN
        /\ pending' = op.read \cup {e}
        /\ queued' = queued \cup {e}
    /\ op' = [op EXCEPT !.pc = "begin"]
    /\ UNCHANGED <<record, table, state, kept, localOnly, cloud, poll, flush,
                   Screen, up, clock, left, over, closed, torn>>

QueueStore ==
    /\ up /\ op.pc = "store"
    /\ LET e == EntryFromTimer(op.base, IF op.kind = "start" THEN op.t.s ELSE op.t.e) IN
        /\ pending' = op.read \cup {e}
        /\ queued' = queued \cup {e}
    /\ op' = [op EXCEPT !.pc = "begin"]
    /\ UNCHANGED <<record, table, state, kept, localOnly, cloud, poll, flush,
                   Screen, up, clock, left, over, closed, torn>>

\* run shows the change at once; a timer of this phone alone is done then.
Begin ==
    /\ up /\ op.pc = "begin"
    /\ Adopt([v |-> op.seen, t |-> op.t])
    /\ op' = IF localOnly THEN Idle ELSE [op EXCEPT !.pc = "write", !.before = state]
    /\ UNCHANGED <<record, table, localOnly, pending, cloud, poll, flush,
                   Screen, up, clock, left, over, queued, closed, torn>>

Swap(seen, t) ==
    /\ record.v = seen
    /\ record' = [v |-> seen + 1, t |-> t]
    /\ Over(t)
    /\ closed' = IF op.kind = "stop" THEN closed \cup {EntryFromTimer(t, t.e)} ELSE closed

\* writeTimer at the version the tap saw; stopping what is not running writes
\* nothing.  A stop or an edit of a lost race looks at the record again.
Write ==
    /\ up /\ op.pc = "write" /\ table
    /\ \/ /\ op.kind = "stop" /\ ~IsRunning(op.base)
          /\ op' = [op EXCEPT !.pc = "landed", !.got = [v |-> op.seen, t |-> op.base]]
          /\ UNCHANGED <<record, over, closed>>
       \/ /\ op.kind = "stop" => IsRunning(op.base)
          /\ Swap(op.seen, op.t)
          /\ op' = [op EXCEPT !.pc = "landed", !.got = record']
       \/ /\ op.kind = "stop" => IsRunning(op.base)
          /\ record.v # op.seen
          /\ op' = [op EXCEPT !.pc = "reread"]
          /\ UNCHANGED <<record, over, closed>>
    /\ UNCHANGED <<table, state, kept, localOnly, pending, cloud, poll, flush,
                   Screen, up, clock, left, queued, torn>>

\* Slip: a lost stop goes again on whatever runs now.
RereadAny ==
    /\ up /\ op.pc = "reread"
    /\ op' = CASE op.kind = "start" -> [op EXCEPT !.pc = "rewrite", !.seen = record.v]
               [] op.kind = "stop" /\ IsRunning(record.t) ->
                    [op EXCEPT !.pc = "rewrite", !.seen = record.v,
                               !.t = [record.t EXCEPT !.e = op.t.e]]
               [] OTHER -> [op EXCEPT !.pc = "landed", !.got = record]
    /\ UNCHANGED <<record, table, state, kept, localOnly, pending, cloud, poll, flush,
                   Screen, up, clock, left, over, queued, closed, torn>>

\* Slip: a lost edit goes again at the fresh version, as a start does.
RereadEdit ==
    /\ up /\ op.pc = "reread"
    /\ op' = CASE op.kind \in {"start", "edit"} -> [op EXCEPT !.pc = "rewrite", !.seen = record.v]
               [] op.kind = "stop" /\ IsRunning(record.t) /\ record.t.s = op.base.s ->
                    [op EXCEPT !.pc = "rewrite", !.seen = record.v,
                               !.t = [record.t EXCEPT !.e = op.t.e]]
               [] OTHER -> [op EXCEPT !.pc = "landed", !.got = record]
    /\ UNCHANGED <<record, table, state, kept, localOnly, pending, cloud, poll, flush,
                   Screen, up, clock, left, over, queued, closed, torn>>

\* The lost race's fresh state: a start goes again on it, a stop only if its
\* own timer still runs there, an edit takes it as it is.
Reread ==
    /\ up /\ op.pc = "reread"
    /\ op' = CASE op.kind = "start" -> [op EXCEPT !.pc = "rewrite", !.seen = record.v]
               [] op.kind = "stop" /\ IsRunning(record.t) /\ record.t.s = op.base.s ->
                    [op EXCEPT !.pc = "rewrite", !.seen = record.v,
                               !.t = [record.t EXCEPT !.e = op.t.e]]
               [] OTHER -> [op EXCEPT !.pc = "landed", !.got = record]
    /\ UNCHANGED <<record, table, state, kept, localOnly, pending, cloud, poll, flush,
                   Screen, up, clock, left, over, queued, closed, torn>>

\* The second try; a second lost race is an error.
Rewrite ==
    /\ up /\ op.pc = "rewrite"
    /\ \/ Swap(op.seen, op.t) /\ op' = [op EXCEPT !.pc = "landed", !.got = record']
       \/ /\ record.v # op.seen
          /\ op' = [op EXCEPT !.pc = "failed"]
          /\ UNCHANGED <<record, over, closed>>
    /\ UNCHANGED <<table, state, kept, localOnly, pending, cloud, poll, flush,
                   Screen, up, clock, left, queued, torn>>

\* A request fails before it reaches the server, or its answer is lost.
Fail ==
    /\ up /\ op.pc \in {"write", "reread", "rewrite"} /\ table
    /\ left.fails > 0 /\ left' = [left EXCEPT !.fails = @ - 1]
    /\ op' = [op EXCEPT !.pc = "failed"]
    /\ \/ UNCHANGED <<record, over, closed>>
       \/ /\ op.pc # "reread" /\ (op.kind = "stop" => IsRunning(op.base))
          /\ Swap(op.seen, op.t)
    /\ UNCHANGED <<table, state, kept, localOnly, pending, cloud, poll, flush,
                   Screen, up, clock, queued, torn>>

\* Slip: a failed write leaves the change on the screen.
SettleShown ==
    /\ up /\ op.pc \in {"landed", "failed"}
    /\ Adopt(IF op.pc = "landed" THEN op.got ELSE state)
    /\ op' = Idle
    /\ UNCHANGED <<record, table, localOnly, pending, cloud, poll, flush,
                   Screen, up, clock, left, over, queued, closed, torn>>

\* The outcome is shown: the written or the fresh state, or on an error what
\* was shown before the tap.
Settle ==
    /\ up /\ op.pc \in {"landed", "failed"}
    /\ Adopt(IF op.pc = "landed" THEN op.got ELSE op.before)
    /\ op' = Idle
    /\ UNCHANGED <<record, table, localOnly, pending, cloud, poll, flush,
                   Screen, up, clock, left, over, queued, closed, torn>>

\* A server without the table: the change stays, on this phone alone.
Missing ==
    /\ up /\ op.pc = "write" /\ ~table
    /\ localOnly' = TRUE
    /\ op' = Idle
    /\ UNCHANGED <<record, table, state, kept, pending, cloud, poll, flush,
                   Screen, up, clock, left, over, queued, closed, torn>>

-----------------------------------------------------------------------------
(* refresh: on launch, on foreground, every 15 s and on a push *)

RefreshRead ==
    /\ up /\ poll = None /\ ~localOnly
    /\ IF table THEN poll' = record /\ UNCHANGED localOnly
                ELSE localOnly' = TRUE /\ UNCHANGED poll
    /\ UNCHANGED <<record, table, state, kept, pending, cloud, op, flush,
                   Screen, up, clock, left, over, queued, closed, torn>>

RefreshAdopt ==
    /\ up /\ poll # None
    /\ IF poll.v # state.v THEN Adopt(poll) ELSE UNCHANGED <<state, kept>>
    /\ poll' = None
    /\ UNCHANGED <<record, table, localOnly, pending, cloud, op, flush,
                   Screen, up, clock, left, over, queued, closed, torn>>

\* flushPending: reads the stored entries, pushes them, deletes the key.
FlushRead ==
    /\ up /\ flush.pc = "idle" /\ pending # {}
    /\ flush' = [pc |-> "push", took |-> pending]
    /\ UNCHANGED <<record, table, state, kept, localOnly, pending, cloud, op, poll,
                   Screen, up, clock, left, over, queued, closed, torn>>

FlushPush ==
    /\ up /\ flush.pc = "push"
    /\ \/ /\ cloud' = cloud \cup flush.took
          /\ flush' = [flush EXCEPT !.pc = "drop"]
          /\ UNCHANGED left
       \/ /\ left.fails > 0 /\ left' = [left EXCEPT !.fails = @ - 1]
          /\ cloud' \in {cloud, cloud \cup flush.took}
          /\ flush' = [pc |-> "idle", took |-> {}]
    /\ UNCHANGED <<record, table, state, kept, localOnly, pending, op, poll,
                   Screen, up, clock, over, queued, closed, torn>>

FlushDrop ==
    /\ up /\ flush.pc = "drop"
    /\ pending' = {}
    /\ flush' = [pc |-> "idle", took |-> {}]
    /\ UNCHANGED <<record, table, state, kept, localOnly, cloud, op, poll,
                   Screen, up, clock, left, over, queued, closed, torn>>

-----------------------------------------------------------------------------
(* The application is killed and launched; pushes; the other devices *)

\* A request that was on its way may still arrive.
Kill ==
    /\ up /\ left.kills > 0 /\ left' = [left EXCEPT !.kills = @ - 1]
    /\ \/ UNCHANGED <<record, over, closed>>
       \/ /\ op.pc \in {"write", "rewrite"} /\ table /\ (op.kind = "stop" => IsRunning(op.base))
          /\ Swap(op.seen, op.t)
    /\ torn' = (torn \/ op.pc \in {"write", "reread", "rewrite", "landed", "failed"})
    /\ up' = FALSE /\ op' = Idle /\ poll' = None /\ flush' = [pc |-> "idle", took |-> {}]
    /\ shown' = None /\ editing' = None /\ asked' = None
    /\ localOnly' = FALSE /\ state' = Nothing
    /\ UNCHANGED <<table, kept, pending, cloud, clock, queued>>

\* The timer of the last launch is shown until the first refresh.
Launch ==
    /\ ~up /\ up' = TRUE
    /\ IF kept # None THEN Adopt(kept) ELSE UNCHANGED <<state, kept>>
    /\ UNCHANGED <<record, table, localOnly, pending, cloud, op, poll, flush,
                   Screen, clock, left, over, queued, closed, torn>>

\* The headless task of a timer push keeps the fresh record.
PushTask ==
    /\ ~up /\ table /\ kept # record
    /\ kept' = record
    /\ UNCHANGED <<record, table, state, localOnly, pending, cloud, op, poll, flush,
                   Screen, up, clock, left, over, queued, closed, torn>>

\* Another device starts a timer, ends, discards or renames the running one.
Other ==
    /\ table /\ left.others > 0 /\ left' = [left EXCEPT !.others = @ - 1]
    /\ \/ /\ Tick
          /\ \E d \in Title : record' = [v |-> record.v + 1, t |-> [d |-> d, s |-> clock + 1, e |-> None]]
       \/ /\ IsRunning(record.t) /\ Tick
          /\ record' = [v |-> record.v + 1, t |-> [record.t EXCEPT !.e = clock + 1]]
       \/ /\ IsRunning(record.t) /\ UNCHANGED clock
          /\ \E d \in Title \ {record.t.d} :
                record' = [v |-> record.v + 1, t |-> [record.t EXCEPT !.d = d]]
    /\ Over(record'.t)
    /\ UNCHANGED <<table, Phone, cloud, queued, closed, torn>>

Work ==
    \/ QueueRead \/ QueueStore \/ Begin \/ Write \/ Reread \/ Rewrite \/ Fail \/ Settle \/ Missing

Next ==
    \/ \E d \in Title : StartTap(d) \/ ResumeTap(d) \/ EditSave(d)
    \/ \E yes \in BOOLEAN : ResumeAnswer(yes)
    \/ StopTap \/ StopLands \/ EditTap
    \/ Work
    \/ RefreshRead \/ RefreshAdopt
    \/ FlushRead \/ FlushPush \/ FlushDrop
    \/ Kill \/ Launch \/ PushTask
    \/ Other

Spec == Init /\ [][Next]_vars

\* The poll comes round every 15 s while the application is open, every await
\* settles, and the user opens the application again.
Fairness ==
    /\ WF_vars(Work)
    /\ WF_vars(StopLands)
    /\ WF_vars(RefreshRead) /\ WF_vars(RefreshAdopt)
    /\ WF_vars(FlushRead) /\ WF_vars(FlushPush) /\ WF_vars(FlushDrop)
    /\ WF_vars(Launch)

FairSpec == Spec /\ Fairness

-----------------------------------------------------------------------------
(* Properties *)

\* A timer that was once ended or replaced in the record never runs there
\* again, whatever tap, lost race or retry comes late (startTimer's retry,
\* edit's lost race, the optimistic states kept across a launch).
NeverReturns == IsRunning(record.t) => record.t.s \notin over

\* Before the phone ends a timer in the record, the entry that keeps its time
\* is in the store, with the start and the end the record says: no crash
\* between the two loses the time (stop: queueEntry before run).
QueuedFirst == \A c \in closed : \E q \in queued : q.s = c.s /\ q.e = c.e

\* A stop that lost the race closes no timer but the one the phone saw
\* running when the stop was sent (stopTimer's comparison of the starts).
ClosesItsOwn ==
    op.kind = "stop" /\ closed' # closed => \A c \in closed' \ closed : c.s = op.base.s
StopsWhatItSaw == [][ClosesItsOwn]_vars

\* With the other devices and the taps at rest, the phone shows the record:
\* whatever a failed request, a lost answer or an old poll left on the screen
\* is replaced by a later poll, unless the application was killed between
\* showing a change and hearing of it.
KeptInStep == <>[](table /\ up /\ ~torn => state = record)

\* "The account's running timer, kept in step with the other devices": the
\* same, killed or not.
KeptInStepAlways == <>[](table /\ up => state = record)

\* "Entries waiting to be pushed survive restarts, so a stop made offline
\* still reaches the cloud": an entry leaves the store for the cloud alone.
PendingSurvives == queued \subseteq pending \cup cloud

\* "Stopping only applies to the timer the phone saw running": the timer a
\* stop ends is the one on whose card it was tapped.
StopsWhatWasShown ==
    [][record' # record /\ op' # op /\ op.kind = "stop" => record'.t.s = op.on]_vars
=============================================================================
