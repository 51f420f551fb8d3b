------------------------------- MODULE Projects -------------------------------
(***************************************************************************)
(* The projects of an account and their colors, on phones                  *)
(* (mobile/src/app/projects.tsx, lib/project-colors.ts,                    *)
(* sync/project-colors.ts) and desktops (ProjectsView.tsx and the commands *)
(* behind it).                                                             *)
(*                                                                         *)
(* A color choice is kept on the device and shared through one field of    *)
(* the account's key row, which every device reads, merges and writes back *)
(* whole.  Renaming and deleting a project go through the entries, the     *)
(* running timer, the teams it is shared with and its color, one after the *)
(* other.                                                                  *)
(*                                                                         *)
(* Bounds: the entries of the account are one table (EntrySync and         *)
(* PhoneLog have their sync); the devices' clocks agree; a device has one  *)
(* rename or deletion in flight; only phones sign out.                     *)
(***************************************************************************)
EXTENDS Naturals, FiniteSets

CONSTANTS
    Project, Entry,
    Phones, Desktops,
    Accounts,
    First,      \* the project of each entry to begin with
    Owner,      \* the account whose projects these are; desktops stay signed in to it
    Palette,    \* the colors a project can be pinned to
    Auto,       \* no pinned color: the reset that syncs
    None,
    Columns,    \* whether the server has wrapped_projects: a subset of BOOLEAN
    MaxChoices, \* bound on colors chosen
    MaxChanges, \* bound on renames and deletions begun
    MaxFails,   \* bound on failed requests
    MaxOuts     \* bound on sign-outs

ProjectsBounds ==
    /\ {MaxChoices, MaxChanges, MaxFails, MaxOuts} \subseteq Nat
    /\ Owner \in Accounts /\ First \in [Entry -> Project]

VARIABLES
    column,   \* the server has the column
    server,   \* user_keys.wrapped_projects of each account
    colors,   \* the choices each device holds
    who,      \* the account each device is signed in to, or None
    sync,     \* the color sync each device has in flight
    catalog,  \* the projects each desktop has registered
    listed,   \* the entries each phone shows, with their projects, as last reloaded
    home,     \* the project of each entry, or None once it is deleted
    shared,   \* the projects the account's share filters name
    running,  \* the project of the running timer, or None
    op,       \* the rename or deletion each device has in flight
    clock,    \* the time of the latest color choice
    left,     \* what is left of each bound
    team,     \* history: the projects the user means to share
    crossed,  \* history: a sign-out overtook a sync or a rename
    stale,    \* history: a device renamed without knowing another's rename
    undone    \* history: a request after the entries' failed

vars == <<column, server, colors, who, sync, catalog, listed, home, shared, running, op,
          clock, left, team, crossed, stale, undone>>

Machines == Phones \cup Desktops
Choice == [color : Palette \cup {Auto}, at : Nat, by : Accounts]
Pref == {choice \in Choice : choice.at <= clock}  \* none is dated ahead
Colors == [Project -> Pref \cup {None}]
NoColors == [p \in Project |-> None]
Still == [pc |-> "idle", acct |-> None, snap |-> NoColors, merged |-> NoColors, late |-> FALSE]
Free == [kind |-> None, at |-> None, from |-> None, to |-> None, tracking |-> FALSE,
         acct |-> None, seen |-> [e \in Entry |-> None]]

Phases == {"entries", "timer", "shares", "colors", "failed"}
Kinds == {"rename", "delete"}

ProjectsNone ==
    /\ None \notin Project \cup Accounts \cup Choice \cup Phases \cup Kinds
    /\ Auto \notin Palette

TypeOK ==
    /\ server \in [Accounts -> Colors] /\ colors \in [Machines -> Colors]
    /\ who \in [Machines -> Accounts \cup {None}]
    /\ \A d \in Machines :
           /\ sync[d].pc \in {"idle", "token", "read", "patch", "adopt"}
           /\ sync[d].snap \in Colors /\ sync[d].merged \in Colors
           /\ op[d].kind \in Kinds \cup {None} /\ op[d].at \in Phases \cup {None}
    /\ catalog \in [Desktops -> SUBSET Project]
    /\ listed \in [Phones -> [Entry -> Project \cup {None}]]
    /\ home \in [Entry -> Project \cup {None}]
    /\ shared \subseteq Project /\ running \in Project \cup {None} /\ clock \in Nat
    /\ {column, crossed, stale, undone} \subseteq BOOLEAN

Named(h) == {h[e] : e \in Entry} \ {None}
Tracked == Named(home)

Init ==
    /\ column \in Columns
    /\ server = [a \in Accounts |-> NoColors]
    /\ colors = [d \in Machines |-> NoColors]
    /\ who = [d \in Machines |-> Owner]
    /\ sync = [d \in Machines |-> Still] /\ op = [d \in Machines |-> Free]
    /\ home = First /\ listed = [d \in Phones |-> home]
    /\ catalog = [d \in Desktops |-> Tracked]
    /\ shared \in SUBSET Tracked /\ team = shared
    /\ running \in Tracked \cup {None}
    /\ clock = 0
    /\ left = [choices |-> MaxChoices, changes |-> MaxChanges, fails |-> MaxFails, outs |-> MaxOuts]
    /\ crossed = FALSE /\ stale = FALSE /\ undone = FALSE

Rest(vs) == UNCHANGED <<column, vs>>
-----------------------------------------------------------------------------
(* The list of projects *)

\* Every project of the history shown, and the running one.
PhoneRows(d) == Named(listed[d]) \cup (IF who[d] = Owner THEN {running} \ {None} ELSE {})

DesktopRows(d) == catalog[d]

Rows(d) == IF d \in Phones THEN PhoneRows(d) ELSE DesktopRows(d)

\* Each row of a loaded list opens the color, the rename and the delete dialog.
PhoneLists(d) == d \in Phones /\ who[d] # None /\ PhoneRows(d) # {}

DesktopLists(d) == d \in Desktops /\ DesktopRows(d) # {}

PhoneOffers(d, p) == PhoneLists(d) /\ op[d] = Free /\ p \in PhoneRows(d)

DesktopOffers(d, p) == DesktopLists(d) /\ op[d] = Free /\ p \in DesktopRows(d)

Offers(d, p) == PhoneOffers(d, p) \/ DesktopOffers(d, p)

Reload(d) ==
    /\ d \in Phones => who[d] = Owner /\ listed[d] # home
    /\ d \in Desktops => ~(Tracked \subseteq catalog[d])
    /\ listed' = IF d \in Phones THEN [listed EXCEPT ![d] = home] ELSE listed
    /\ catalog' = IF d \in Desktops THEN [catalog EXCEPT ![d] = @ \cup Tracked] ELSE catalog
    /\ Rest(<<server, colors, who, sync, home, shared, running, op, clock, left, team,
              crossed, stale, undone>>)

\* A project can be created before any time is tracked on it.
Create(d, p) ==
    /\ d \in Desktops /\ p \notin catalog[d]
    /\ left.changes > 0 /\ left' = [left EXCEPT !.changes = @ - 1]
    /\ catalog' = [catalog EXCEPT ![d] = @ \cup {p}]
    /\ Rest(<<server, colors, who, sync, listed, home, shared, running, op, clock, team,
              crossed, stale, undone>>)
-----------------------------------------------------------------------------
(* Colors *)

\* Slip: the first set's choice wins whatever its time.
MergeColorsFirst(a, b) == [p \in Project |-> IF a[p] = None THEN b[p] ELSE a[p]]

\* Each project's most recent choice; on a tie the first set's wins.
MergeColors(a, b) ==
    [p \in Project |->
        IF b[p] # None /\ (a[p] = None \/ b[p].at > a[p].at) THEN b[p] ELSE a[p]]

\* A sync that a choice finds in flight is not started again.
Begin(s, acct) ==
    IF s.pc = "idle" THEN [Still EXCEPT !.pc = "token", !.acct = acct] ELSE [s EXCEPT !.late = TRUE]

\* Either dialog offers the palette, and the reset of a pinned color alone.
PhonePicks(d, p, color) ==
    PhoneOffers(d, p) /\ (color = Auto => colors[d][p] # None /\ colors[d][p].color # Auto)

DesktopPicks(d, p, color) ==
    DesktopOffers(d, p) /\ (color = Auto => colors[d][p] # None /\ colors[d][p].color # Auto)

\* The phone applies a choice at once and syncs it; the desktop registers the
\* project, and its next sync takes the choice along.
Choose(d, p, color) ==
    /\ PhonePicks(d, p, color) \/ DesktopPicks(d, p, color)
    /\ left.choices > 0 /\ left' = [left EXCEPT !.choices = @ - 1]
    /\ clock' = clock + 1
    /\ colors' = [colors EXCEPT ![d][p] = [color |-> color, at |-> clock + 1, by |-> who[d]]]
    /\ sync' = [sync EXCEPT ![d] = Begin(@, who[d])]
    /\ catalog' = IF d \in Desktops THEN [catalog EXCEPT ![d] = @ \cup {p}] ELSE catalog
    /\ Rest(<<server, who, listed, home, shared, running, op, team, crossed, stale, undone>>)

SyncSoon(d) ==
    /\ sync[d].pc = "idle" /\ who[d] # None /\ colors[d] # server[who[d]]
    /\ sync' = [sync EXCEPT ![d] = Begin(@, who[d])]
    /\ Rest(<<server, colors, who, catalog, listed, home, shared, running, op, clock, left,
              team, crossed, stale, undone>>)

SyncGoes(d, from, to) ==
    /\ sync[d].pc = from /\ sync' = [sync EXCEPT ![d] = to]
    /\ Rest(<<colors, who, catalog, listed, home, shared, running, op, clock, left, team,
              crossed, stale, undone>>)

\* The choices are taken when the token is there.
SyncTake(d) ==
    /\ who[d] = sync[d].acct
    /\ SyncGoes(d, "token", [sync[d] EXCEPT !.pc = "read", !.snap = colors[d], !.late = FALSE])
    /\ UNCHANGED server

\* Slip: the server is written back only where it brought something new.
SyncReadLazy(d) ==
    LET merged == MergeColors(server[sync[d].acct], sync[d].snap) IN
    /\ SyncGoes(d, "read", [sync[d] EXCEPT !.merged = merged,
                                           !.pc = IF merged = sync[d].snap THEN "adopt" ELSE "patch"])
    /\ UNCHANGED server

SyncRead(d) ==
    LET remote == IF column THEN server[sync[d].acct] ELSE NoColors
        merged == MergeColors(remote, sync[d].snap) IN
    /\ SyncGoes(d, "read", [sync[d] EXCEPT !.merged = merged,
                                           !.pc = IF merged = remote THEN "adopt" ELSE "patch"])
    /\ UNCHANGED server

\* A server without the column leaves the device's colors as they are.
SyncPatch(d) ==
    /\ SyncGoes(d, "patch", [sync[d] EXCEPT !.pc = "adopt", !.merged = IF column THEN @ ELSE sync[d].snap])
    /\ server' = IF column THEN [server EXCEPT ![sync[d].acct] = sync[d].merged] ELSE server

\* A desktop takes no reset of a project it does not have.
Applied(d) ==
    [p \in Project |->
        IF \/ sync[d].merged[p] = None
           \/ d \in Desktops /\ p \notin catalog[d] /\ sync[d].merged[p].color = Auto
        THEN IF d \in Desktops THEN colors[d][p] ELSE None
        ELSE sync[d].merged[p]]

SyncAdopt(d) ==
    /\ sync[d].pc = "adopt" /\ sync' = [sync EXCEPT ![d] = Still]
    /\ colors' = [colors EXCEPT ![d] = Applied(d)]
    /\ catalog' = IF d \in Phones THEN catalog
                  ELSE [catalog EXCEPT ![d] = @ \cup {p \in Project : Applied(d)[p] # None}]
    /\ Rest(<<server, who, listed, home, shared, running, op, clock, left, team, crossed, stale,
              undone>>)

\* A failed sync is given up; the write may have reached the server.
SyncFail(d) ==
    /\ sync[d].pc \in {"token", "read", "patch"}
    /\ left.fails > 0 /\ left' = [left EXCEPT !.fails = @ - 1]
    /\ sync' = [sync EXCEPT ![d] = Still]
    /\ \/ UNCHANGED server
       \/ /\ sync[d].pc = "patch" /\ column
          /\ server' = [server EXCEPT ![sync[d].acct] = sync[d].merged]
    /\ Rest(<<colors, who, catalog, listed, home, shared, running, op, clock, team, crossed,
              stale, undone>>)

\* There is no token of an account that has been signed out.
SyncRefused(d) ==
    /\ who[d] # sync[d].acct
    /\ SyncGoes(d, "token", Still)
    /\ UNCHANGED server

\* Signing out forgets the phone's choices.
SignOut(d) ==
    /\ d \in Phones /\ who[d] # None
    /\ left.outs > 0 /\ left' = [left EXCEPT !.outs = @ - 1]
    /\ who' = [who EXCEPT ![d] = None] /\ colors' = [colors EXCEPT ![d] = NoColors]
    /\ listed' = [listed EXCEPT ![d] = [e \in Entry |-> None]]
    /\ crossed' = (crossed \/ sync[d].pc # "idle" \/ op[d] # Free)
    /\ Rest(<<server, sync, catalog, home, shared, running, op, clock, team, stale, undone>>)

SignIn(d, a) ==
    /\ who[d] = None /\ who' = [who EXCEPT ![d] = a]
    /\ listed' = IF a = Owner THEN [listed EXCEPT ![d] = home] ELSE listed
    /\ Rest(<<server, colors, sync, catalog, home, shared, running, op, clock, left, team,
              crossed, stale, undone>>)
-----------------------------------------------------------------------------
(* Renaming and deleting *)

\* A dialog whose request failed is still open, and can be sent again; the
\* phone's goes with its row.
Again(d, kind, from) == op[d].at = "failed" /\ op[d].kind = kind /\ op[d].from = from

Enter(d, kind, from, to) ==
    /\ left.changes > 0 /\ left' = [left EXCEPT !.changes = @ - 1]
    /\ op' = [op EXCEPT ![d] = [kind |-> kind, at |-> "entries", from |-> from, to |-> to,
                                 tracking |-> running = from, acct |-> who[d],
                                 seen |-> IF d \in Phones THEN listed[d] ELSE home]]
    /\ Rest(<<server, colors, who, sync, catalog, listed, home, shared, running, clock, team,
              crossed, stale, undone>>)

\* Renaming onto another project would fuse two histories: the phone refuses a
\* name that is among its rows, the desktop one that its log or its registry
\* has, unless nothing is left under the old name.
TakenOnPhone(d, to) == to \in PhoneRows(d)

\* Slip: the desktop asks its registry alone, which a rename may be ahead of.
TakenInRegistry(d, from, to) == to \in catalog[d] /\ from \in catalog[d]

TakenOnDesktop(d, from, to) == to \in Tracked \cup catalog[d] /\ from \in Tracked

PhoneRename(d, from, to) ==
    /\ d \in Phones /\ PhoneLists(d) /\ from \in PhoneRows(d)
    /\ op[d] = Free \/ Again(d, "rename", from)
    /\ from # to /\ ~TakenOnPhone(d, to)
    /\ Enter(d, "rename", from, to)

DesktopRename(d, from, to) ==
    /\ d \in Desktops /\ (DesktopOffers(d, from) \/ Again(d, "rename", from))
    /\ from # to /\ ~TakenOnDesktop(d, from, to)
    /\ Enter(d, "rename", from, to)

\* A deletion goes ahead once the name has been typed again.
PhoneDelete(d, from) ==
    /\ d \in Phones /\ PhoneLists(d) /\ from \in PhoneRows(d)
    /\ op[d] = Free \/ Again(d, "delete", from)
    /\ Enter(d, "delete", from, None)

DesktopDelete(d, from) ==
    /\ d \in Desktops /\ (DesktopOffers(d, from) \/ Again(d, "delete", from))
    /\ Enter(d, "delete", from, None)

At(d, kind, at) == op[d].kind = kind /\ op[d].at = at

\* The entries that go by the old name: those the phone showed, or those of
\* the desktop's log.
Moving(d) ==
    {e \in Entry : (IF d \in Phones THEN op[d].seen ELSE home)[e] = op[d].from}

Moved(d, es) == [e \in Entry |-> IF e \in es /\ home[e] # None THEN op[d].to ELSE home[e]]

Drop(f, p) == [f EXCEPT ![p] = None]

\* The phone moves the entries it shows; the desktop the rows of its log, and
\* carries the project's color, if it is still registered, to its new name.
MoveEntries(d) ==
    LET from == op[d].from to == op[d].to
        carried == IF from \in catalog[d] THEN colors[d][from] ELSE None IN
    /\ op[d].at = "entries"
    /\ home' = Moved(d, Moving(d))
    /\ op' = [op EXCEPT ![d].at = IF @ # "entries" THEN @
                                  ELSE IF op[d].tracking /\ op[d].kind = "rename" /\ d \in Phones
                                       THEN "timer" ELSE "shares"]
    /\ IF d \in Phones THEN UNCHANGED <<colors, catalog, running>>
       ELSE /\ catalog' = [catalog EXCEPT ![d] = (@ \ {from}) \cup ({to} \ {None})]
            /\ colors' = [colors EXCEPT ![d] =
                   IF to = None THEN Drop(@, from) ELSE [Drop(@, from) EXCEPT ![to] = carried]]
            /\ running' = IF running = from THEN to ELSE running
    /\ team' = IF from \in team THEN (team \ {from}) \cup ({to} \ {None}) ELSE team
    /\ stale' = (stale \/ op[d].seen # home \/ \E o \in Machines \ {d} : op[o] # Free)
    /\ Rest(<<server, who, sync, listed, shared, clock, left, crossed, undone>>)

\* Some of the phone's requests go through and one does not.
MoveSome(d) ==
    /\ d \in Phones /\ op[d].at = "entries"
    /\ left.fails > 0 /\ left' = [left EXCEPT !.fails = @ - 1]
    /\ \E es \in SUBSET Moving(d) : home' = Moved(d, es)
    /\ op' = [op EXCEPT ![d].at = "failed"]
    /\ Rest(<<server, colors, who, sync, catalog, listed, shared, running, clock, team, crossed,
              stale, undone>>)

\* The running timer takes the new name too.
RenameTimer(d) ==
    /\ At(d, "rename", "timer")
    /\ \/ /\ running' = IF running # None THEN op[d].to ELSE None
          /\ op' = [op EXCEPT ![d].at = "shares"] /\ UNCHANGED <<left, undone>>
       \/ /\ left.fails > 0 /\ left' = [left EXCEPT !.fails = @ - 1]
          /\ op' = [op EXCEPT ![d].at = "failed"] /\ undone' = TRUE /\ UNCHANGED running
    /\ Rest(<<server, colors, who, sync, catalog, listed, home, shared, clock, team, crossed,
              stale>>)

\* Slip: a share that names the old project just loses it.
ReshareDropping(d) ==
    /\ op[d].at = "shares"
    /\ shared' = shared \ {op[d].from}
    /\ op' = [op EXCEPT ![d] = IF d \in Phones THEN [@ EXCEPT !.at = "colors"] ELSE Free]
    /\ Rest(<<server, colors, who, sync, catalog, listed, home, running, clock, left, team, crossed,
              stale, undone>>)

\* Slip: a share follows a deletion as it does a rename.
ReshareAlways(d) ==
    /\ op[d].at = "shares"
    /\ shared' = IF op[d].from \in shared THEN (shared \ {op[d].from}) \cup {op[d].to} ELSE shared
    /\ op' = [op EXCEPT ![d] = IF d \in Phones THEN [@ EXCEPT !.at = "colors"] ELSE Free]
    /\ Rest(<<server, colors, who, sync, catalog, listed, home, running, clock, left, team, crossed,
              stale, undone>>)

\* Every share that names the project follows.  A failure is swallowed on the
\* phone; the desktop says so and leaves its dialog open for another try.
Reshare(d) ==
    LET from == op[d].from to == op[d].to IN
    /\ op[d].at = "shares"
    /\ \/ /\ shared' = IF from \in shared THEN (shared \ {from}) \cup ({to} \ {None}) ELSE shared
          /\ op' = [op EXCEPT ![d] = IF d \in Phones THEN [@ EXCEPT !.at = "colors"] ELSE Free]
          /\ UNCHANGED <<left, undone>>
       \/ /\ left.fails > 0 /\ left' = [left EXCEPT !.fails = @ - 1]
          /\ op' = [op EXCEPT ![d].at = IF d \in Phones THEN "colors" ELSE "failed"]
          /\ undone' = TRUE /\ UNCHANGED shared
    /\ Rest(<<server, colors, who, sync, catalog, listed, home, running, clock, team, crossed,
              stale>>)

\* Last, the phone gives the new name the old one's pinned color, resets the
\* old one, and reloads.
MoveColor(d) ==
    LET from == op[d].from to == op[d].to
        pref == colors[d][from]
        pinned == pref # None /\ pref.color # Auto
        reset == [color |-> Auto, at |-> clock + 2, by |-> op[d].acct]
        taken == [color |-> pref.color, at |-> clock + 1, by |-> op[d].acct] IN
    /\ d \in Phones /\ op[d].at = "colors"
    /\ colors' = IF ~pinned THEN colors
                 ELSE [colors EXCEPT ![d] = [p \in Project |->
                           IF p = from THEN reset ELSE IF p = to THEN taken ELSE @[p]]]
    /\ clock' = IF pinned THEN clock + 2 ELSE clock
    /\ sync' = IF pinned THEN [sync EXCEPT ![d] = Begin(@, op[d].acct)] ELSE sync
    /\ listed' = IF who[d] = Owner THEN [listed EXCEPT ![d] = home] ELSE listed
    /\ op' = [op EXCEPT ![d] = Free]
    /\ Rest(<<server, who, catalog, home, shared, running, left, team, crossed, stale, undone>>)

\* The dialog of a failed rename or deletion is closed.
GiveUp(d) ==
    /\ op[d].at = "failed" /\ op' = [op EXCEPT ![d] = Free]
    /\ Rest(<<server, colors, who, sync, catalog, listed, home, shared, running, clock, left,
              team, crossed, stale, undone>>)
-----------------------------------------------------------------------------
Syncing(d) == SyncTake(d) \/ SyncRefused(d) \/ SyncRead(d) \/ SyncPatch(d) \/ SyncAdopt(d)

Change(d) == MoveEntries(d) \/ RenameTimer(d) \/ Reshare(d) \/ MoveColor(d)

Next ==
    \E d \in Machines :
        \/ \E p \in Project :
               \/ Create(d, p) \/ PhoneDelete(d, p) \/ DesktopDelete(d, p)
               \/ (\E to \in Project : PhoneRename(d, p, to) \/ DesktopRename(d, p, to))
               \/ (\E color \in Palette \cup {Auto} : Choose(d, p, color))
        \/ Reload(d) \/ SyncSoon(d) \/ Syncing(d) \/ SyncFail(d)
        \/ SignOut(d) \/ (\E a \in Accounts : SignIn(d, a))
        \/ Change(d) \/ MoveSome(d) \/ GiveUp(d)

Spec == Init /\ [][Next]_vars

\* Every device syncs again and again, and every request is answered.
Fairness == \A d \in Machines : WF_vars(SyncSoon(d)) /\ WF_vars(Syncing(d)) /\ WF_vars(Change(d))

FairSpec == Spec /\ Fairness
-----------------------------------------------------------------------------
(* Properties *)

\* "Per project the newest choice wins" (sync/project-colors.ts): a sync
\* replaces what a device shows by nothing older, unless the choice was made
\* while that very sync was under way.
ChoiceKept ==
    \A d \in Machines : sync[d].pc = "adopt" /\ ~sync[d].late =>
        \A p \in Project :
            colors[d][p] # None /\ colors'[d][p] # colors[d][p] /\ sync'[d].pc = "idle" =>
                colors'[d][p] # None /\ colors'[d][p].at > colors[d][p].at

ChoiceStands == [][ChoiceKept]_vars

\* The same without the exception.
NewestChoiceWins ==
    [][\A d \in Machines, p \in Project :
        sync[d].pc = "adopt" /\ sync'[d].pc = "idle" /\ colors[d][p] # None
            /\ colors'[d][p] # colors[d][p] =>
                colors'[d][p] # None /\ colors'[d][p].at > colors[d][p].at]_vars

\* An account's key row holds the choices made under that account, unless a
\* sign-out overtook a sync or a rename.
OwnColors ==
    ~crossed => \A a \in Accounts, p \in Project : server[a][p] # None => server[a][p].by = a

\* A project that the user shares stays shared under each new name, and nothing
\* else becomes shared, unless a request after the entries' failed or two
\* devices renamed past one another.
TeamFollows == ~stale /\ ~undone /\ (\A d \in Machines : op[d] = Free) => shared = team

\* Entries of different projects come under one name by no rename, unless two
\* devices renamed past one another or one went through in part.
HistoriesApart ==
    ~stale /\ left.fails = MaxFails =>
        \A e, f \in Entry : First[e] # First[f] /\ home[e] = home[f] => home[e] = None

Pinned(f) == [p \in Project |-> IF f[p] = None THEN Auto ELSE f[p].color]

\* Once nobody chooses, every device shows the colors of its account's key row,
\* though each writes the field whole and without a version.
ColorsConverge ==
    <>[](\A d \in Machines : who[d] # None /\ column => Pinned(colors[d]) = Pinned(server[who[d]]))

\* A project that was renamed or deleted does not come back to the desktop's
\* list by itself.
GoneStaysGone ==
    [][\A d \in Desktops : sync[d].pc = "adopt" /\ sync'[d].pc = "idle" =>
        \A p \in catalog'[d] \ catalog[d] : p \in Tracked]_vars

\* registry.go:148: a retried rename is idempotent.
RetryKeepsColor ==
    [][\A d \in Desktops :
        At(d, "rename", "entries") /\ op'[d].at = "shares" /\ op[d].from \notin catalog[d] =>
            colors'[d] = colors[d]]_vars
=============================================================================
