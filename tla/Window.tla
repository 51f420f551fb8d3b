------------------------------- MODULE Window -------------------------------
(***************************************************************************)
(* The desktop window over its log: the timer's card or the starter, the   *)
(* log's rows, undo and redo, and the to-dos an activity was started from. *)
(*                                                                         *)
(* A tap calls the backend, whose change of the log and of its undo        *)
(* journal is one step; its answer reaches the window later, and so does   *)
(* each of the two reads of a refresh, so refreshes overlap with commands  *)
(* and with one another.  The menu bar and the syncs change the log too.   *)
(* An activity is keyed by its start; a start or an end typed in a dialog  *)
(* has no seconds, and one that is not touched loses them.                 *)
(***************************************************************************)
EXTENDS Integers, Sequences, FiniteSets, FiniteSetsExt

CONSTANTS
    Text,       \* what an activity says
    Todo,       \* the to-dos of the notes
    None, Unread,
    PerMinute,  \* instants of one minute
    Leftover,   \* whether a to-do's activity may be running when the window opens
    MaxTime,    \* bound on the clock
    MaxTaps,    \* bound on what the user, the menu bar and other devices do
    MaxOthers,  \* bound on what the menu bar and other devices do of that
    MaxAsks     \* bound on the refreshes in flight

Instant == 0..MaxTime
Minutes == {t \in Instant : t % PerMinute = 0}
Activity == [s : Instant, d : Text, e : Instant \cup {None}]
Entry == [gone : SUBSET Activity, come : SUBSET Activity]  \* a change of the log
Run == [s : Instant, id : Todo]                            \* a to-do's activity
Ask == [run : Activity \cup {None, Unread}, rows : (SUBSET Activity) \cup {Unread}]
Answer == [kind : {"refresh", "todo", "removed", "kept"}, s : Instant \cup {None},
           id : Todo \cup {None}]

VARIABLES
    log,       \* the activities of the device's store
    undo,      \* the journal: what can be undone, newest last
    redo,      \* and what can be redone
    run,       \* the activity the window shows as running, or None
    loaded,    \* whether a refresh has been adopted
    rows,      \* the activities the window shows
    hidden,    \* suppressedKeys: the starts whose removal is in flight
    asks,      \* the refreshes in flight, each with what it has read
    answers,   \* the answers of the backend in flight
    runs,      \* the to-dos' activities, in local storage
    finishing, \* the run whose to-do the dialog asks about, or None
    auto,      \* the setting that ticks to-dos off without asking
    stopping,  \* the card fades out
    stops,     \* the timeouts that will stop what runs
    clock, left,
    first,     \* history: the log as the window found it
    alone,     \* history: only this application has changed the log since
    act        \* history: where the activity of each to-do starts now, or None

backend == <<log, undo, redo, clock, first, alone, act>>
shown == <<run, loaded, rows, hidden, finishing, auto, stopping>>
vars == <<log, undo, redo, run, loaded, rows, hidden, asks, answers, runs, finishing, auto,
          stopping, stops, clock, left, first, alone, act>>

WindowNone == None \notin Text \cup Todo \cup Activity \cup Run
WindowBounds ==
    /\ PerMinute \in Nat \ {0}
    /\ {MaxTime, MaxTaps, MaxOthers, MaxAsks} \subseteq Nat
    /\ Leftover \in BOOLEAN /\ MaxOthers <= MaxTaps

Open(acts) == {x \in acts : x.e = None}
At(acts, s) == {x \in acts : x.s = s}
Latest(acts) == IF acts = {} THEN None ELSE CHOOSE x \in acts : \A y \in acts : x.s >= y.s
Minute(t) == t - (t % PerMinute)

Init ==
    /\ run = None /\ loaded = FALSE /\ rows = {} /\ hidden = {}
    /\ asks = {[run |-> Unread, rows |-> Unread]} /\ answers = {}
    /\ undo = <<>> /\ redo = <<>>
    /\ finishing = None /\ auto \in BOOLEAN /\ stopping = FALSE /\ stops = 0
    /\ clock = 1
    /\ left \in {[taps |-> MaxTaps - n, others |-> n] : n \in 0..MaxOthers}
    /\ \E d \in Text :
        \/ log = {[s |-> 0, d |-> d, e |-> None]}
        \/ log = {}
    /\ \E id \in Todo :
        \/ runs = <<>> /\ act = [t \in Todo |-> None]
        \/ Leftover /\ runs = <<[s |-> 0, id |-> id]>> /\ act = [t \in Todo |-> IF t = id THEN 0 ELSE None]
    /\ first = log /\ alone = TRUE
-----------------------------------------------------------------------------
(* The backend.                                                            *)

\* What starting at an instant makes of an activity that runs.
Closed(x, t) == [x EXCEPT !.e = IF t < x.s THEN clock ELSE t]

\* The changes of a start: every running activity closed, and the new one.
StartChange(new) ==
    [gone |-> Open(log), come |-> {Closed(x, new.s) : x \in Open(log)} \cup {new}]

\* The change of a stop: the latest of the running activities ends now.
StopChange ==
    LET x == Latest(Open(log)) IN [gone |-> {x}, come |-> {[x EXCEPT !.e = clock]}]

\* A change finds exactly the rows it takes away and no other at the starts it fills.
Applies(acts, c) ==
    /\ c.gone \subseteq acts
    /\ \A x \in c.come : At(acts \ c.gone, x.s) = {}
Changed(acts, c) == (acts \ c.gone) \cup c.come
Reversed(c) == [gone |-> c.come, come |-> c.gone]

\* Slip: only a start in the future is refused.
StartAvailableToPast(t) == t <= clock

StartAvailable(t) == At(log, t) = {}

\* Slip: a new change leaves what had been undone to be redone.
RecordKeepsRedo(c) == undo' = Append(undo, c) /\ UNCHANGED redo

\* A command is recorded to be undone, and what had been undone is forgotten.
Record(c) == undo' = Append(undo, c) /\ redo' = <<>>

\* The log changes by a command of this application, at an instant of its own.
Commit(c) ==
    /\ log' = Changed(log, c)
    /\ clock' = clock + 1
    /\ Record(c)
    /\ UNCHANGED <<first, alone>>

\* Nothing of the backend changes but the clock.
Refused == clock' = clock + 1 /\ UNCHANGED <<log, undo, redo, first, alone, act>>

\* Where the activities of the to-dos start after a change that moves one of them.
Followed(from, to) == [t \in Todo |-> IF act[t] = from THEN to ELSE act[t]]
-----------------------------------------------------------------------------
(* What the window does with what it learns.                               *)

\* What makes the window keep the object it has: a refresh that learns nothing new.
SameActivity(a, b) == a = b

\* The rows of a refresh, with the ones it has already kept as they are.
KeepUnchanged(prev, next) ==
    {LET old == {o \in prev : o.s = x.s /\ SameActivity(o, x)}
     IN  IF old = {} THEN x ELSE CHOOSE o \in old : TRUE : x \in next}

WithoutHidden(acts) == {x \in acts : x.s \notin hidden}

\* The runs of a list, in its order, but those whose activity starts at one of the instants.
Without(list, starts) ==
    LET kept[n \in 0..Len(list)] ==
            IF n = 0 THEN <<>>
            ELSE IF list[n].s \in starts THEN kept[n - 1] ELSE Append(kept[n - 1], list[n])
    IN  kept[Len(list)]

\* The runs whose activity is not the one that runs, by what the window shows.
Shown(r) == IF r = None THEN {} ELSE {r.s}
Finished(r, list) == Without(list, Shown(r))

\* The effect that follows a change of what runs, of the dialog or of its setting: the
\* first finished run is asked about, or all of them are ticked off.
FinishTodos(r, known, asked, ticks, list) ==
    IF ~known \/ asked # None \/ Finished(r, list) = <<>>
    THEN finishing' = asked /\ runs' = list
    ELSE IF ticks
    THEN finishing' = None /\ runs' = Without(list, Instant \ Shown(r))
    ELSE finishing' = Finished(r, list)[1] /\ runs' = list

Refresh == asks' = asks \cup {[run |-> Unread, rows |-> Unread]}
RoomToAsk == Cardinality(asks \cup {[run |-> Unread, rows |-> Unread]}) <= MaxAsks

\* A refresh reads what runs and the rows by separate calls.
ReadRunning(a) ==
    /\ a.run = Unread
    /\ asks' = (asks \ {a}) \cup {[a EXCEPT !.run = Latest(Open(log))]}
    /\ UNCHANGED <<backend, shown, answers, runs, stops, left>>

ReadRows(a) ==
    /\ a.rows = Unread
    /\ asks' = (asks \ {a}) \cup {[a EXCEPT !.rows = log]}
    /\ UNCHANGED <<backend, shown, answers, runs, stops, left>>

\* When it has both, the window adopts them; a card that goes takes its fading along.
Adopt(a) ==
    /\ a.run # Unread /\ a.rows # Unread
    /\ LET next == IF a.run # None /\ a.run.s \in hidden THEN None ELSE a.run
           r == IF run # None /\ next # None /\ SameActivity(run, next) THEN run ELSE next
       IN  /\ run' = r
           /\ IF r = run /\ loaded THEN UNCHANGED <<finishing, runs>>
              ELSE FinishTodos(r, TRUE, finishing, auto, runs)
           /\ stopping' = (stopping /\ r # None)
    /\ loaded' = TRUE
    /\ rows' = KeepUnchanged(rows, WithoutHidden(a.rows))
    /\ asks' = asks \ {a}
    /\ UNCHANGED <<backend, hidden, auto, answers, stops, left>>

RefreshTick ==
    /\ asks = {}
    /\ Refresh
    /\ UNCHANGED <<backend, shown, answers, runs, stops, left>>
-----------------------------------------------------------------------------
(* What the window offers.                                                 *)

\* The Now page: the running card, or the starter.
CardShown == run # None
StarterShown == run = None

\* The card offers Stop until it fades, and Edit.
StopOffered == CardShown /\ ~stopping

\* The activities to jump back in: one per text, the newest, but what runs.
QuickStarts ==
    {x \in rows : /\ x.e # None
                  /\ run # None => run.d # x.d
                  /\ \A y \in rows : y.e # None /\ y.d = x.d => y.s <= x.s}

\* The log lists the finished activities that match its filter, by day.
Matches(x, filter) == filter = None \/ x.d = filter
Listed(filter) == {x \in rows : x.e # None /\ Matches(x, filter)}
DayRows(day, filter) == {x \in Listed(filter) : Minute(x.s) = day}
LogPage(filter) == UNION {DayRows(day, filter) : day \in Minutes}

\* A row offers to resume, to edit and to delete, by its buttons, by a click or two on it
\* and by its menu; in the ledger to jump back in, a click resumes.
LedgerRow(x) == x \in QuickStarts
LogRow(x) == \E filter \in Text \cup {None} : x \in LogPage(filter)
MenuOpens(x) == LedgerRow(x) \/ LogRow(x)
EditOffered(x) == MenuOpens(x) \/ (CardShown /\ x = run)

\* The times the edit dialog sends: an untouched start or end without its seconds.
EditedEnd(x, start) == IF Minute(x.e) > start THEN Minute(x.e) ELSE start
EditedTimes(x) ==
    {t \in Minutes \X (Minutes \cup {None}) :
        /\ t[1] \in {Minute(x.s), Minute(clock)}
        /\ (t[2] = None) = (x.e = None)
        /\ x.e # None => t[2] = EditedEnd(x, t[1]) /\ t[2] > t[1]}

\* The times of the dialog that adds a past activity.
PastTimes == {t \in Minutes \X Minutes : t[1] < t[2] /\ t[2] <= clock}
-----------------------------------------------------------------------------
(* What the user does.                                                     *)

\* A tap, its answer to come.
Tap(kind, s, id) ==
    /\ left.taps > 0 /\ clock < MaxTime
    /\ left' = [left EXCEPT !.taps = @ - 1]
    /\ answers' = answers \cup {[kind |-> kind, s |-> s, id |-> id]}

\* Started from the starter, or by resuming a row.
StartTap(d) ==
    /\ StarterShown \/ \E x \in rows : x.d = d /\ MenuOpens(x)
    /\ Tap("refresh", None, None)
    /\ Commit(StartChange([s |-> clock, d |-> d, e |-> None]))
    /\ UNCHANGED <<act, shown, asks, runs, stops>>

\* Started earlier: refused where another activity starts, and nothing else is looked at.
StartAtTap(d, t) ==
    /\ StarterShown /\ t <= clock
    /\ Tap("refresh", None, None)
    /\ IF StartAvailable(t)
       THEN Commit(StartChange([s |-> t, d |-> d, e |-> None])) /\ UNCHANGED act
       ELSE Refused
    /\ UNCHANGED <<shown, asks, runs, stops>>

StartTodoTap(t, d) ==
    /\ act[t] = None
    /\ Tap("todo", clock, t)
    /\ Commit(StartChange([s |-> clock, d |-> d, e |-> None]))
    /\ act' = [act EXCEPT ![t] = clock]
    /\ UNCHANGED <<shown, asks, runs, stops>>

\* The card fades, and a timeout will stop what runs, whatever that is then.
StopTap ==
    /\ StopOffered /\ left.taps > 0
    /\ stopping' = TRUE /\ stops' = stops + 1
    /\ left' = [left EXCEPT !.taps = @ - 1]
    /\ UNCHANGED <<backend, run, loaded, rows, hidden, finishing, auto, asks, answers, runs>>

StopLands ==
    /\ stops > 0 /\ clock < MaxTime
    /\ stops' = stops - 1
    /\ answers' = answers \cup {[kind |-> "refresh", s |-> None, id |-> None]}
    /\ IF Open(log) # {} THEN Commit(StopChange) /\ UNCHANGED act ELSE Refused
    /\ UNCHANGED <<shown, asks, runs, left>>

AddPastTap(d, t) ==
    /\ t \in PastTimes
    /\ Tap("refresh", None, None)
    /\ IF StartAvailable(t[1])
       THEN /\ Commit([gone |-> {}, come |-> {[s |-> t[1], d |-> d, e |-> t[2]]}])
            /\ UNCHANGED act
       ELSE Refused
    /\ UNCHANGED <<shown, asks, runs, stops>>

\* An edit is of the activity as the window shows it, which must be as it stands.
EditTap(x, d, t) ==
    /\ EditOffered(x) /\ t \in EditedTimes(x)
    /\ Tap("refresh", None, None)
    /\ LET c == [gone |-> {x}, come |-> {[s |-> t[1], d |-> d, e |-> t[2]]}]
       IN  IF (t[1] = x.s \/ StartAvailable(t[1])) /\ Applies(log, c)
           THEN Commit(c) /\ act' = Followed(x.s, t[1])
           ELSE Refused
    /\ UNCHANGED <<shown, asks, runs, stops>>

\* A removal hides the row at once and forgets the to-do it came from.
RemoveTap(x) ==
    /\ MenuOpens(x) /\ x.s \notin hidden
    /\ hidden' = hidden \cup {x.s}
    /\ runs' = Without(runs, {x.s})
    /\ LET c == [gone |-> {x}, come |-> {}]
       IN  IF Applies(log, c)
           THEN Tap("removed", x.s, None) /\ Commit(c) /\ act' = Followed(x.s, None)
           ELSE Tap("kept", x.s, None) /\ Refused
    /\ UNCHANGED <<run, loaded, rows, finishing, auto, stopping, asks, stops>>

\* Undo and redo move the newest entry from one stack to the other, if it still applies.
UndoTap ==
    /\ undo # <<>>
    /\ Tap("refresh", None, None)
    /\ LET c == Reversed(undo[Len(undo)])
       IN  IF Applies(log, c)
           THEN /\ log' = Changed(log, c)
                /\ undo' = SubSeq(undo, 1, Len(undo) - 1)
                /\ redo' = Append(redo, undo[Len(undo)])
                /\ clock' = clock + 1
                /\ UNCHANGED <<first, alone, act>>
           ELSE Refused
    /\ UNCHANGED <<shown, asks, runs, stops>>

RedoTap ==
    /\ redo # <<>>
    /\ Tap("refresh", None, None)
    /\ LET c == redo[Len(redo)]
       IN  IF Applies(log, c)
           THEN /\ log' = Changed(log, c)
                /\ redo' = SubSeq(redo, 1, Len(redo) - 1)
                /\ undo' = Append(undo, c)
                /\ clock' = clock + 1
                /\ UNCHANGED <<first, alone, act>>
           ELSE Refused
    /\ UNCHANGED <<shown, asks, runs, stops>>

AnswerTodo(done, always) ==
    /\ finishing # None
    /\ auto' = (auto \/ always)
    /\ FinishTodos(run, loaded, None, auto', Without(runs, {finishing.s}))
    /\ UNCHANGED <<backend, run, loaded, rows, hidden, stopping, asks, answers, stops, left>>

ToggleAuto ==
    /\ left.taps > 0
    /\ left' = [left EXCEPT !.taps = @ - 1]
    /\ auto' = ~auto
    /\ FinishTodos(run, loaded, finishing, auto', runs)
    /\ UNCHANGED <<backend, run, loaded, rows, hidden, stopping, asks, answers, stops>>
-----------------------------------------------------------------------------
(* The backend's answers.                                                  *)

\* After a command, failed or not in what it is about, the window refreshes; a failed
\* command is only reported, which a refresh too many stands for.
AnswerRefresh(w) ==
    /\ w.kind = "refresh" /\ RoomToAsk
    /\ answers' = answers \ {w}
    /\ Refresh
    /\ UNCHANGED <<backend, shown, runs, stops, left>>

\* The to-do's activity has a start now.
AnswerStartTodo(w) ==
    /\ w.kind = "todo" /\ RoomToAsk
    /\ answers' = answers \ {w}
    /\ runs' = Append(runs, [s |-> w.s, id |-> w.id])
    /\ Refresh
    /\ UNCHANGED <<backend, shown, stops, left>>

\* The row leaves the lists, and no refresh is asked for.
AnswerRemoved(w) ==
    /\ w.kind = "removed"
    /\ answers' = answers \ {w}
    /\ rows' = {x \in rows : x.s # w.s}
    /\ hidden' = hidden \ {w.s}
    /\ IF run # None /\ run.s = w.s
       THEN run' = None /\ stopping' = FALSE /\ FinishTodos(None, loaded, finishing, auto, runs)
       ELSE UNCHANGED <<run, stopping, finishing, runs>>
    /\ UNCHANGED <<backend, loaded, auto, asks, stops, left>>

\* Slip: a removal that fails leaves its row hidden.
AnswerKeptHidden(w) ==
    /\ w.kind = "kept" /\ RoomToAsk
    /\ answers' = answers \ {w}
    /\ Refresh
    /\ UNCHANGED <<backend, shown, runs, stops, left>>

\* The removal has failed: its row may be shown again, and a refresh is asked for.
AnswerKept(w) ==
    /\ w.kind = "kept" /\ RoomToAsk
    /\ answers' = answers \ {w}
    /\ hidden' = hidden \ {w.s}
    /\ Refresh
    /\ UNCHANGED <<backend, run, loaded, rows, finishing, auto, stopping, runs, stops, left>>
-----------------------------------------------------------------------------
(* The menu bar, and the syncs.                                            *)

Behind ==
    /\ left.others > 0 /\ clock < MaxTime
    /\ left' = [left EXCEPT !.others = @ - 1]

\* The menu bar starts or stops, as a command of this application, and the window is told.
TrayStart(d) ==
    /\ Behind /\ RoomToAsk
    /\ Commit(StartChange([s |-> clock, d |-> d, e |-> None]))
    /\ Refresh
    /\ UNCHANGED <<act, shown, answers, runs, stops>>

TrayStop ==
    /\ Behind /\ RoomToAsk /\ Open(log) # {}
    /\ Commit(StopChange)
    /\ Refresh
    /\ UNCHANGED <<act, shown, answers, runs, stops>>

\* Another device's stop or start comes with the timer's sync, and the window is told.
TimerSynced(d) ==
    /\ Behind /\ RoomToAsk
    /\ log' = Changed(log, IF Open(log) = {} THEN StartChange([s |-> clock, d |-> d, e |-> None])
                                             ELSE StopChange)
    /\ clock' = clock + 1 /\ alone' = FALSE
    /\ Refresh
    /\ UNCHANGED <<undo, redo, first, act, shown, answers, runs, stops>>

\* Another device's entry comes or goes with the log's sync, and the window is not told.
EntrySynced(d) ==
    /\ Behind
    /\ \/ log' = log \cup {[s |-> Minute(clock), d |-> d, e |-> clock]} /\ StartAvailable(Minute(clock))
       \/ \E x \in log : x.e # None /\ log' = log \ {x}
    /\ clock' = clock + 1 /\ alone' = FALSE
    /\ UNCHANGED <<undo, redo, first, act, shown, asks, answers, runs, stops>>
-----------------------------------------------------------------------------
Taps ==
    \/ \E d \in Text : StartTap(d)
    \/ \E d \in Text, t \in Minutes : StartAtTap(d, t)
    \/ \E t \in Todo, d \in Text : StartTodoTap(t, d)
    \/ StopTap
    \/ \E d \in Text, t \in PastTimes : AddPastTap(d, t)
    \/ \E x \in (rows \cup {run}) \ {None}, d \in Text : \E t \in EditedTimes(x) : EditTap(x, d, t)
    \/ \E x \in rows : RemoveTap(x)
    \/ UndoTap \/ RedoTap
    \/ \E done \in BOOLEAN, always \in BOOLEAN : AnswerTodo(done, done /\ always)
    \/ ToggleAuto

Answers ==
    \E w \in answers : AnswerRefresh(w) \/ AnswerStartTodo(w) \/ AnswerRemoved(w) \/ AnswerKept(w)

Refreshing == \E a \in asks : ReadRunning(a) \/ ReadRows(a) \/ Adopt(a)

Others ==
    \/ \E d \in Text : TrayStart(d) \/ TimerSynced(d) \/ EntrySynced(d)
    \/ TrayStop

Next == Taps \/ StopLands \/ Answers \/ Refreshing \/ RefreshTick \/ Others

Spec == Init /\ [][Next]_vars

\* Calls are answered, though the bound on the refreshes in flight may make an answer wait
\* (hence SF); reads end, timeouts fire and the window refreshes now and then.  What the user
\* and the other devices do is nobody's duty.
Fairness ==
    /\ WF_vars(StopLands)
    /\ SF_vars(Answers)
    /\ WF_vars(Refreshing)
    /\ WF_vars(RefreshTick)
FairSpec == Spec /\ Fairness
-----------------------------------------------------------------------------
TypeOK ==
    /\ log \subseteq Activity /\ \A x \in log, y \in log : x.s = y.s => x = y
    /\ undo \in Seq(Entry) /\ redo \in Seq(Entry)
    /\ run \in Activity \cup {None} /\ loaded \in BOOLEAN
    /\ rows \subseteq Activity /\ hidden \subseteq Instant
    /\ asks \subseteq Ask /\ answers \subseteq Answer
    /\ runs \in Seq(Run) /\ finishing \in Run \cup {None} /\ auto \in BOOLEAN
    /\ stopping \in BOOLEAN /\ stops \in Nat
    /\ clock \in Instant /\ alone \in BOOLEAN /\ act \in [Todo -> Instant \cup {None}]

\* What a change makes of the logs it applies to.
After(logs, c) == {Changed(before, c) : before \in {x \in logs : Applies(x, c)}}

\* The log with the newest entries undone, as a set: empty where one of them does not apply.
Unwound[n \in Nat] ==
    IF n = 0 THEN {log} ELSE After(Unwound[n - 1], Reversed(undo[Len(undo) + 1 - n]))

\* The log with the newest entries redone.
Rewound[n \in Nat] ==
    IF n = 0 THEN {log} ELSE After(Rewound[n - 1], redo[Len(redo) + 1 - n])

\* As long as only this application changes its log, undoing everything leads back to the
\* log it began with, and all that was undone can be redone, whatever was started over
\* running activities, edited, moved to another start, removed or undone (history.go,
\* app.go recordStart).
UndoLeadsBack ==
    alone => Unwound[Len(undo)] = {first} /\ Rewound[Len(redo)] # {}

LogShown == rows = log /\ run = Latest(Open(log))

\* When the user rests, the window comes to show the log and what runs, whichever refresh,
\* answer or removal was overtaken by another (App.tsx refresh, handleRemove).
ShowsLog == <>[]LogShown

\* "An activity started from a to-do has finished once it's no longer the running one"
\* (App.tsx:748): a window that shows what really runs asks about a to-do only if the
\* to-do's activity is over.
AskedWhenOver ==
    [][(finishing' \notin {None, finishing} /\ run' = Latest(Open(log'))) =>
            \A x \in Open(log') : x.s # act'[finishing'.id]]_vars
=============================================================================
