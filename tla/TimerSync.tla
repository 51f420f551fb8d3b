------------------------------ MODULE TimerSync ------------------------------
(***************************************************************************)
(* The running timer on every device of an account                         *)
(* (internal/app/timersync, internal/integrations/neonsync/running.go).    *)
(*                                                                         *)
(* Each device keeps activity rows keyed by their start instant and a file *)
(* with the last state it agreed on with the cloud.  The cloud keeps one   *)
(* versioned record.  Reconcile reads the record, then the local rows, and *)
(* then publishes the local timer by compare-and-swap or applies the       *)
(* remote one; every request and every write of it is a step here, so user *)
(* commands, the other devices and crashes interleave with it.             *)
(***************************************************************************)
EXTENDS Naturals, FiniteSets

CONSTANTS
    Device,      \* installations signed in to the account
    Journaled,   \* those driven from the desktop app, which keeps an undo journal;
                 \* the CLI and the MCP server keep none
    Title,       \* description, project, notes and tags of an activity
    None,        \* a nil timer, an absent row, an open end
    MaxTime,     \* bound on the clock
    MaxOps,      \* bound on the user's commands
    MaxFails,    \* bound on failed requests and crashes
    MaxVersion   \* bound on the record's version

Instant == 0..MaxTime   \* 0 is the present when the history begins
Row == [title : Title, end : Instant \cup {None}]
Timer == [start : Instant, title : Title, end : Instant \cup {None},
          discarded : BOOLEAN]
State == [version : 0..MaxVersion, timer : Timer \cup {None}]
Change == [start : Instant, before : Row \cup {None}, after : Row \cup {None}]

ASSUME NoneAssumption == None \notin Instant \cup Row \cup Timer
ASSUME BoundsAssumption ==
    MaxTime \in Nat /\ MaxOps \in Nat /\ MaxFails \in Nat /\ MaxVersion \in Nat

VARIABLES
    record,   \* the cloud's running_timers row
    local,    \* local[d][s]: the activity of device d that started at s
    agreed,   \* agreed[d]: timersync.json, the last state both sides held
    journal,  \* journal[d]: the changes the next undo of device d reverses
    pc,       \* pc[d]: where the reconcile of device d stands
    got,      \* got[d]: the record as that reconcile last read or wrote it
    view,     \* view[d]: the local timer as that reconcile read it
    now,      \* the clock
    ops,      \* user commands given so far
    fails,    \* requests failed and crashes so far
    resumed   \* history: starts of the activities that ran on a device once its
              \* user had undone a stop or a removal there

vars == <<record, local, agreed, journal, pc, got, view, now, ops, fails, resumed>>

Steps == {"idle", "fetched", "put", "putSettled", "reread", "apply", "restart", "save"}

TypeOK ==
    /\ record \in State
    /\ local \in [Device -> [Instant -> Row \cup {None}]]
    /\ agreed \in [Device -> State]
    /\ journal \in [Device -> SUBSET Change]
    /\ pc \in [Device -> Steps]
    /\ got \in [Device -> State]
    /\ view \in [Device -> Timer \cup {None}]
    /\ now \in Instant
    /\ ops \in 0..MaxOps
    /\ fails \in 0..MaxFails
    /\ resumed \in SUBSET Instant

Init ==
    /\ record = [version |-> 0, timer |-> None]
    /\ local = [d \in Device |-> [s \in Instant |-> None]]
    /\ agreed = [d \in Device |-> [version |-> 0, timer |-> None]]
    /\ journal = [d \in Device |-> {}]
    /\ pc = [d \in Device |-> "idle"]
    /\ got = [d \in Device |-> [version |-> 0, timer |-> None]]
    /\ view = [d \in Device |-> None]
    /\ now = 0
    /\ ops = 0
    /\ fails = 0
    /\ resumed = {}

-----------------------------------------------------------------------------
(* The local activities *)

Open(row) == row # None /\ row.end = None

Running(d) == {s \in Instant : Open(local[d][s])}

\* The running activity with the latest start, which every reader picks.
RunningStart(d) ==
    IF Running(d) = {} THEN None
    ELSE CHOOSE s \in Running(d) : \A r \in Running(d) : r <= s

\* Starting stops every running activity at the new start, or now when that
\* would close one before it opened, and upserts the new row at its start.
AfterStart(d, start, title, clock) ==
    [s \in Instant |->
        IF s = start THEN [title |-> title, end |-> None]
        ELSE IF s \in Running(d)
             THEN [local[d][s] EXCEPT !.end = IF start < s THEN clock ELSE start]
             ELSE local[d][s]]

\* Slip: the stop is rounded up.
AfterStopLate(d, s, end) == [local[d] EXCEPT ![s].end = end + 1]

AfterStop(d, s, end) == [local[d] EXCEPT ![s].end = end]

Changes(old, new) ==
    {[start |-> s, before |-> old[s], after |-> new[s]] :
        s \in {r \in Instant : old[r] # new[r]}}

-----------------------------------------------------------------------------
(* The user's commands.  Two commands never share an instant of the clock, *)
(* which ticks in nanoseconds.                                              *)

Command(d, rows) ==
    /\ ops < MaxOps
    /\ ops' = ops + 1
    /\ local' = [local EXCEPT ![d] = rows]
    /\ UNCHANGED <<record, agreed, pc, got, view, fails>>

Journal(d, rows) ==
    journal' = IF d \in Journaled
               THEN [journal EXCEPT ![d] = Changes(local[d], rows)]
               ELSE journal

Tick == now < MaxTime /\ now' = now + 1

UserStart(d, title) ==
    /\ Tick
    /\ LET rows == AfterStart(d, now + 1, title, now + 1) IN
        /\ Command(d, rows)
        /\ Journal(d, rows)
    /\ UNCHANGED resumed

UserStop(d) ==
    /\ RunningStart(d) # None
    /\ Tick
    /\ LET rows == AfterStop(d, RunningStart(d), now + 1) IN
        /\ Command(d, rows)
        /\ Journal(d, rows)
    /\ UNCHANGED resumed

\* Editing the running activity's title, in place.
UserEdit(d, title) ==
    /\ RunningStart(d) # None
    /\ LET rows == [local[d] EXCEPT ![RunningStart(d)].title = title] IN
        /\ Command(d, rows)
        /\ Journal(d, rows)
    /\ UNCHANGED <<now, resumed>>

\* Deleting the running activity.
UserDiscard(d) ==
    /\ RunningStart(d) # None
    /\ LET rows == [local[d] EXCEPT ![RunningStart(d)] = None] IN
        /\ Command(d, rows)
        /\ Journal(d, rows)
    /\ UNCHANGED <<now, resumed>>

\* Undo (and redo, the undo of an undo): the rows must still be exactly as
\* the change left them, and are put back in one transaction.
UserUndo(d) ==
    /\ journal[d] # {}
    /\ \A c \in journal[d] : local[d][c.start] = c.after
    /\ LET rows == [s \in Instant |->
                     IF \E c \in journal[d] : c.start = s
                     THEN (CHOOSE c \in journal[d] : c.start = s).before
                     ELSE local[d][s]]
       IN /\ Command(d, rows)
          /\ resumed' = IF \E c \in journal[d] : Open(c.before) /\ ~Open(c.after)
                        THEN resumed \cup {s \in Instant : Open(rows[s])}
                        ELSE resumed
    /\ journal' = [journal EXCEPT ![d] =
                    {[start |-> c.start, before |-> c.after, after |-> c.before] :
                        c \in journal[d]}]
    /\ UNCHANGED now

-----------------------------------------------------------------------------
(* Reconcile *)

\* sameTimer: what two timers say, ignoring which device started them.
SameTimer(a, b) == a = b

TimerFrom(s, row) ==
    [start |-> s, title |-> row.title, end |-> row.end, discarded |-> FALSE]

\* localView: the timer this device would publish.
LocalView(d) ==
    LET last == agreed[d].timer
        s    == RunningStart(d)
    IN  IF s # None THEN TimerFrom(s, local[d][s])
        ELSE IF last = None THEN None
        ELSE IF last.end # None \/ last.discarded THEN last
        ELSE IF local[d][last.start] = None THEN [last EXCEPT !.discarded = TRUE]
        ELSE TimerFrom(last.start, local[d][last.start])

EventTime(t) == IF t.end # None THEN t.end ELSE t.start

\* Slip: a tie goes to the device.
RemoteWinsUnlessTied(v, remote) ==
    \/ v = None
    \/ remote # None /\ EventTime(v) < EventTime(remote)

\* settle: the newer event wins, and a tie goes to the record.
RemoteWins(v, remote) ==
    \/ v = None
    \/ remote # None /\ EventTime(v) <= EventTime(remote)

Settled(v, remote) == IF RemoteWins(v, remote) THEN "apply" ELSE "putSettled"

\* The call ends, and its local variables with it.
Unread == [version |-> 0, timer |-> None]

Return(d) ==
    /\ pc' = [pc EXCEPT ![d] = "idle"]
    /\ got' = [got EXCEPT ![d] = Unread]
    /\ view' = [view EXCEPT ![d] = None]

\* RunningTimer: the GET of the record.
Fetch(d) ==
    /\ pc[d] = "idle"
    /\ pc' = [pc EXCEPT ![d] = "fetched"]
    /\ got' = [got EXCEPT ![d] = record]
    /\ UNCHANGED <<record, local, agreed, journal, view, now, ops, fails, resumed>>

LocalMoved(d) == ~SameTimer(LocalView(d), agreed[d].timer)
RemoteMoved(d) == got[d].version # agreed[d].version

\* The local read, and the four-way decision on who moved: nobody ...
Unmoved(d) ==
    /\ pc[d] = "fetched"
    /\ ~LocalMoved(d) /\ ~RemoteMoved(d)
    /\ Return(d)
    /\ UNCHANGED <<record, local, agreed, journal, now, ops, fails, resumed>>

\* ... or this device, the record, or both, which settle decides.
Decide(d) ==
    /\ pc[d] = "fetched"
    /\ LocalMoved(d) \/ RemoteMoved(d)
    /\ view' = [view EXCEPT ![d] = LocalView(d)]
    /\ pc' = [pc EXCEPT ![d] =
                CASE ~RemoteMoved(d) -> "put"
                  [] ~LocalMoved(d)  -> "apply"
                  [] OTHER           -> Settled(LocalView(d), got[d].timer)]
    /\ UNCHANGED <<record, local, agreed, journal, got, now, ops, fails, resumed>>

\* Slip: the write does not name the version it replaces.
PutWinsBlindly(d) ==
    /\ pc[d] \in {"put", "putSettled"}
    /\ record.version < MaxVersion
    /\ record' = [version |-> got[d].version + 1, timer |-> view[d]]
    /\ got' = [got EXCEPT ![d] = record']
    /\ pc' = [pc EXCEPT ![d] = "save"]
    /\ UNCHANGED <<local, agreed, journal, view, now, ops, fails, resumed>>

\* PutRunningTimer wins: an INSERT for version 0, else PATCH version=eq.seen.
PutWins(d) ==
    /\ pc[d] \in {"put", "putSettled"}
    /\ record.version = got[d].version
    /\ record.version < MaxVersion
    /\ record' = [version |-> got[d].version + 1, timer |-> view[d]]
    /\ got' = [got EXCEPT ![d] = record']
    /\ pc' = [pc EXCEPT ![d] = "save"]
    /\ UNCHANGED <<local, agreed, journal, view, now, ops, fails, resumed>>

\* Another device got there first: the first attempt re-reads the record and
\* settles ...
PutConflicts(d) ==
    /\ pc[d] = "put"
    /\ record.version # got[d].version
    /\ pc' = [pc EXCEPT ![d] = "reread"]
    /\ UNCHANGED <<record, local, agreed, journal, got, view, now, ops, fails, resumed>>

Reread(d) ==
    /\ pc[d] = "reread"
    /\ got' = [got EXCEPT ![d] = record]
    /\ pc' = [pc EXCEPT ![d] = Settled(view[d], record.timer)]
    /\ UNCHANGED <<record, local, agreed, journal, view, now, ops, fails, resumed>>

\* ... and the attempt made by a settle is left to the next reconcile.
SettleConflicts(d) ==
    /\ pc[d] = "putSettled"
    /\ record.version # got[d].version
    /\ Return(d)
    /\ UNCHANGED <<record, local, agreed, journal, now, ops, fails, resumed>>

\* apply, up to its first write: what the local rows and the next step become
\* when the record says t.
Applied(d, t) ==
    LET s    == RunningStart(d)
        same == t # None /\ s # None /\ s = t.start
        Done(rows)    == [rows |-> rows, step |-> "save"]
        Restart(rows) == [rows |-> rows, step |-> "restart"]
    IN  CASE t = None -> Done(local[d])
          [] t # None /\ t.discarded ->
                Done(IF same THEN [local[d] EXCEPT ![s] = None] ELSE local[d])
          [] t # None /\ ~t.discarded /\ t.end # None ->
                Done(IF same THEN AfterStop(d, s, t.end) ELSE local[d])
          [] OTHER ->
                IF same
                THEN IF local[d][s].title = t.title
                     THEN Done(local[d])
                     ELSE Restart([local[d] EXCEPT ![s] = None])
                ELSE IF local[d][t.start] # None
                     THEN Done(local[d])
                     ELSE Done(AfterStart(d, t.start, t.title, now))

Apply(d) ==
    /\ pc[d] = "apply"
    /\ LET next == Applied(d, got[d].timer) IN
        /\ local' = [local EXCEPT ![d] = next.rows]
        /\ pc' = [pc EXCEPT ![d] = next.step]
    /\ UNCHANGED <<record, agreed, journal, got, view, now, ops, fails, resumed>>

\* The second write of an edit: the row removed is started again as edited.
ApplyRestart(d) ==
    /\ pc[d] = "restart"
    /\ local' = [local EXCEPT ![d] =
                    AfterStart(d, got[d].timer.start, got[d].timer.title, now)]
    /\ pc' = [pc EXCEPT ![d] = "save"]
    /\ UNCHANGED <<record, agreed, journal, got, view, now, ops, fails, resumed>>

\* Slip: the version agreed on is not the one the write was given.
SaveStale(d) ==
    /\ pc[d] = "save"
    /\ agreed' = [agreed EXCEPT ![d].timer = got[d].timer]
    /\ Return(d)
    /\ UNCHANGED <<record, local, journal, now, ops, fails, resumed>>

Save(d) ==
    /\ pc[d] = "save"
    /\ agreed' = [agreed EXCEPT ![d] = got[d]]
    /\ Return(d)
    /\ UNCHANGED <<record, local, journal, now, ops, fails, resumed>>

\* A request fails or times out, or the app is killed: the reconcile ends
\* where it stands.  What was already written stays written, so a lost answer
\* is PutWins followed by this step.
Abort(d) ==
    /\ pc[d] # "idle"
    /\ fails < MaxFails
    /\ fails' = fails + 1
    /\ Return(d)
    /\ UNCHANGED <<record, local, agreed, journal, now, ops, resumed>>

-----------------------------------------------------------------------------

ReconcileStep(d) ==
    \/ Fetch(d)
    \/ Unmoved(d)
    \/ Decide(d)
    \/ PutWins(d)
    \/ PutConflicts(d)
    \/ SettleConflicts(d)
    \/ Reread(d)
    \/ Apply(d)
    \/ ApplyRestart(d)
    \/ Save(d)

User(d) ==
    \/ \E t \in Title : UserStart(d, t)
    \/ UserStop(d)
    \/ \E t \in Title : UserEdit(d, t)
    \/ UserDiscard(d)
    \/ UserUndo(d)

Next == \E d \in Device : ReconcileStep(d) \/ User(d) \/ Abort(d)

\* The desktop reconciles on launch, on every window poll and before every
\* sync, for ever: each device's reconcile keeps taking its next step.
Fairness == \A d \in Device : WF_vars(ReconcileStep(d))

Spec == Init /\ [][Next]_vars
FairSpec == Spec /\ Fairness

-----------------------------------------------------------------------------
(* Properties *)

\* A version names one timer: a device whose agreed or freshly read version
\* is the record's current one holds exactly the record's timer, and no
\* device is ahead of the record.  The four-way decision judges "the record
\* moved" by the number alone (timersync.go:82), which is right only if this
\* holds through lost answers, crashes before the save and racing writers.
VersionNamesTimer ==
    \A d \in Device : \A s \in {agreed[d], got[d]} :
        /\ s.version <= record.version
        /\ s.version = record.version => s.timer = record.timer

\* The pointer that Reconcile and settle dereference to publish (*view,
\* timersync.go:87 and 110) is never nil, whatever the other devices and the
\* user did since the state was agreed.
PublishedViewExists ==
    \A d \in Device : pc[d] \in {"put", "putSettled"} => view[d] # None

\* A stop stands: once the record says a timer was stopped or deleted, no
\* reconcile - of a device that was offline, lost a race or crashed half way -
\* replaces that state by the same timer running again, unless some user undid
\* a stop where it ran.
IsRunning(t) == t # None /\ t.end = None /\ ~t.discarded
StopStands ==
    [][\A s \in Instant \ resumed :
        ~(/\ record.timer # None /\ record.timer.start = s /\ ~IsRunning(record.timer)
          /\ record'.timer # None /\ record'.timer.start = s /\ IsRunning(record'.timer))
      ]_vars

\* Why it stands, as an inductive invariant.  Times run forward; an activity
\* runs alone unless an undo reopened something beside it; and whoever holds
\* the record's current version with a stopped timer no longer runs it, nor is
\* about to publish it as running.
Ended(t) == t # None /\ ~IsRunning(t)

Closed(d, t) == Ended(t) /\ t.start \notin resumed => t.start \notin Running(d)

TimelyRow(s, row, clock) ==
    row # None => s <= clock /\ (row.end # None => s <= row.end)

TimelyTimer(t, clock) == t # None => TimelyRow(t.start, t, clock)

Timely ==
    /\ TimelyTimer(record.timer, now)
    /\ \A d \in Device :
        /\ \A s \in Instant : TimelyRow(s, local[d][s], now)
        /\ \A c \in journal[d] :
            TimelyRow(c.start, c.before, now) /\ TimelyRow(c.start, c.after, now)
        /\ \A t \in {agreed[d].timer, got[d].timer, view[d]} : TimelyTimer(t, now)

RunsAlone == \A d \in Device : \A s \in Running(d) \ resumed : Running(d) = {s}

ReadsForward == \A d \in Device : pc[d] # "idle" => agreed[d].version <= got[d].version

HolderStopped ==
    \A d \in Device :
        /\ agreed[d].version = record.version => Closed(d, agreed[d].timer)
        /\ pc[d] = "save" /\ got[d].version = record.version => Closed(d, got[d].timer)
        /\ pc[d] \in {"put", "reread", "putSettled"} => Closed(d, view[d])

PutRevivesNothing ==
    \A d \in Device :
        /\ pc[d] = "put" /\ got[d].version = record.version
           => ~(/\ Ended(got[d].timer) /\ got[d].timer.start \notin resumed
                /\ IsRunning(view[d]) /\ view[d].start = got[d].timer.start)
        /\ pc[d] = "putSettled" => ~RemoteWins(view[d], got[d].timer)

StopInv == Timely /\ RunsAlone /\ ReadsForward /\ HolderStopped /\ PutRevivesNothing

\* What docs/realtime-sync-plan.md:106 calls the compare-and-swap: the record
\* implements the versioned row, so two racing devices never both win.
Rec == INSTANCE VersionedRecord WITH
    Value <- Timer, NoValue <- None,
    row <- [version |-> record.version, value |-> record.timer]
RecordIsVersioned == Rec!Spec

\* Once the users stop giving commands, the devices come to rest in agreement:
\* every device's timer is the record's, and says what runs there.
Quiet == \A d \in Device : agreed[d] = record /\ LocalView(d) = record.timer
Converges == <>[]Quiet

\* What the comment on settle says (timersync.go:104-106): the device whose
\* timer was replaced stops its copy when it next reconciles.  When a device
\* saves its agreement on another timer, the one it had agreed to be running
\* no longer runs there.
ReplacedTimerStops ==
    [][\A d \in Device :
        LET old == agreed[d].timer IN
        /\ agreed'[d] # agreed[d]
        /\ IsRunning(old)
        /\ agreed'[d].timer.start # old.start
        => ~Open(local[d][old.start])]_vars
=============================================================================
