-------------------------------- MODULE MCDesk --------------------------------
(***************************************************************************)
(* The desktop window over its log, the window's account and the figures   *)
(* made of a log, checked in one run: they share no state here, so each    *)
(* behaviour takes the steps of one of them.                               *)
(***************************************************************************)
EXTENDS Integers, FiniteSets

CONSTANTS None, Unread, Cold, Text, Todo, User, job, home, office

VARIABLES
    part,  \* the machine that takes its steps
    log, undo, redo, run, loaded, rows, hidden, asks, answers, runs, finishing, auto,
    stopping, stops, clock, left, first, alone, act,
    session, cookies, revoked, verified, token, key, calls, mount, mounts, page, app,
    invited, invites, pulls, cache, walk, read, shared, visible, watched, accountLeft,
    now, logged, running

window == <<log, undo, redo, run, loaded, rows, hidden, asks, answers, runs, finishing, auto,
            stopping, stops, clock, left, first, alone, act>>
account == <<session, cookies, revoked, verified, token, key, calls, mount, mounts, page, app,
             invited, invites, pulls, cache, walk, read, shared, visible, watched, accountLeft>>
figures == <<now, logged, running>>

\* One title worked on for two projects; a day of two hours and a week of two days.
Work == {[title |-> job, project |-> home], [title |-> job, project |-> office]}

Window == INSTANCE Window WITH
    PerMinute <- 2, Leftover <- FALSE, MaxTime <- 5, MaxTaps <- 3, MaxOthers <- 1,
    MaxAsks <- 1
Account == INSTANCE WindowAccount WITH
    MaxCookies <- 2, MaxMounts <- 1, MaxTaps <- 2, MaxOthers <- 1, left <- accountLeft
Figures == INSTANCE Summary WITH
    Task <- Work, Hour <- 2, Hours <- 2, Week <- 2, MonthStarts <- {0, 3}, LastDay <- 3,
    Steps <- {3}, MaxLogged <- 3, TrendWeeks <- 2, DonutDays <- 2, Dots <- 4, GraphDays <- 6,
    TopTasks <- 2, Core <- <<1, 1>>, log <- logged

ASSUME DeskInBounds ==
    /\ Window!WindowNone /\ Window!WindowBounds
    /\ Account!AccountNone /\ Account!AccountBounds
    /\ Figures!SummaryBounds

\* The initial states of the machines that stay as they began, cut to one.
Still ==
    /\ part # "window" => log = {} /\ auto = TRUE /\ left.others = 0
    /\ part # "account" => session = None /\ watched = "rows"

DeskInit ==
    /\ part \in {"window", "account", "figures"}
    /\ Window!Init /\ Account!Init /\ Figures!Init
    /\ Still

DeskNext ==
    \/ part = "window" /\ Window!Next /\ UNCHANGED <<part, account, figures>>
    \/ part = "account" /\ Account!Next /\ UNCHANGED <<part, window, figures>>
    \/ part = "figures" /\ Figures!Next /\ UNCHANGED <<part, window, account>>

DeskSpec == DeskInit /\ [][DeskNext]_<<part, window, account, figures>>

DeskFairSpec ==
    /\ DeskSpec
    /\ WF_window(part = "window" /\ Window!StopLands)
    /\ SF_window(part = "window" /\ Window!Answers)
    /\ WF_window(part = "window" /\ Window!Refreshing)
    /\ WF_window(part = "window" /\ Window!RefreshTick)
    /\ WF_account(part = "account" /\ Account!Calls)
    /\ WF_account(part = "account" /\ Account!Pulls)
    /\ WF_account(part = "account" /\ Account!Rows)
    /\ SF_account(part = "account" /\ Account!ReadShared)
    /\ WF_account(part = "account" /\ Account!WalkEnds)
-----------------------------------------------------------------------------
Typed ==
    /\ part = "window" => Window!TypeOK
    /\ part = "account" => Account!TypeOK
    /\ part = "figures" => Figures!TypeOK
UndoLeadsBack == part = "window" => Window!UndoLeadsBack
ViewsAgree == part = "figures" => Figures!ViewsAgree
RecordsHold == part = "figures" => Figures!RecordsHold
TokenOfItsSession == part = "account" => Account!TokenOfItsSession

\* ShowsLog, InvitesFollow and RowsFollow of the machine that takes its steps, as one
\* property: the window comes to show its log and what runs, and a window in order the
\* invitations of its account and the rows shared with it (App.tsx refresh, handleRemove,
\* invites; app.go SharingSharedEntries).
ShowsWhatIs ==
    <>[](/\ part = "window" => Window!LogShown
         /\ part = "account" => Account!InvitesShown /\ Account!RowsShown)
=============================================================================
