------------------------------- MODULE MCTeam -------------------------------
(***************************************************************************)
(* A team's sharing and an account's projects, checked in one run: they    *)
(* share no state, so each behaviour takes the steps of one of them and    *)
(* leaves the other as it began.  The projects are checked twice, choosing *)
(* colors and renaming.                                                    *)
(***************************************************************************)
EXTENDS Sharing, TLC

CONSTANTS a, b, c, mine, yours, e1, e2, p, q, x, y, me, you, Automatic,
    Parts,     \* the machines checked: of "sharing", "colors" and "renames"
    Pinnable,  \* the projects whose colors are chosen
    Movable,     \* the projects that are renamed
    First,     \* the project of each entry before
    Accounts, Palette,
    Picks,     \* the bound on colors chosen
    Choices, Changes,  \* the bounds on renames
    Fails, Outs        \* and on failed requests and sign-outs

VARIABLES
    part,  \* the machine that takes its steps
    column, server, colors, who, sync, catalog, listed, home, named, running, change, clock,
    budget, meant, crossed, stale, undone

sharing == vars
projects == <<column, server, colors, who, sync, catalog, listed, home, named, running, change,
              clock, budget, meant, crossed, stale, undone>>

MCOwner == [d \in Devices |-> IF d = yours THEN b ELSE a]
MCAuthor == (e1 :> a) @@ (e2 :> b)
MCProject == (e1 :> p) @@ (e2 :> q)
MCFirst == (e1 :> x) @@ (e2 :> y)

Colors == INSTANCE Projects WITH
    Project <- Pinnable, Entry <- Entries, First <- First,
    Phones <- Devices \ Desktops, Desktops <- Desktops, Owner <- me, Accounts <- Accounts,
    Palette <- Palette, Columns <- BOOLEAN,
    MaxChoices <- Picks, MaxChanges <- 0, MaxFails <- Fails, MaxOuts <- Outs,
    Auto <- Automatic, shared <- named, op <- change, left <- budget, team <- meant
Renames == INSTANCE Projects WITH
    Project <- Movable, Entry <- Entries, First <- First,
    Phones <- Devices \ Desktops, Desktops <- Desktops, Owner <- me, Accounts <- Accounts,
    Palette <- Palette, Columns <- {TRUE},
    MaxChoices <- Choices, MaxChanges <- Changes, MaxFails <- Fails, MaxOuts <- Outs,
    Auto <- Automatic, shared <- named, op <- change, left <- budget, team <- meant

ASSUME ProjectsInBounds ==
    /\ Colors!ProjectsNone /\ Colors!ProjectsBounds
    /\ Renames!ProjectsNone /\ Renames!ProjectsBounds

AnyInit ==
    /\ part \in Parts
    /\ Init
    /\ IF part = "colors" THEN Colors!Init ELSE Renames!Init
    /\ part = "sharing" => named = {} /\ running = None

AnyNext ==
    \/ part = "sharing" /\ Next /\ UNCHANGED <<part, projects>>
    \/ part = "colors" /\ Colors!Next /\ UNCHANGED <<part, sharing>>
    \/ part = "renames" /\ Renames!Next /\ UNCHANGED <<part, sharing>>

AnySpec == AnyInit /\ [][AnyNext]_<<part, sharing, projects>>

AnyFairSpec ==
    /\ AnySpec
    /\ \A d \in Devices :
        /\ WF_sharing(part = "sharing" /\ Work(d))
        /\ WF_sharing(part = "sharing" /\ PassStep(d))
        /\ WF_sharing(part = "sharing" /\ ReconcileSoon(d))
        /\ WF_sharing(part = "sharing" /\ Refresh(d))
    /\ \A d \in Renames!Machines :
        /\ WF_projects(part = "renames" /\ Renames!SyncSoon(d))
        /\ WF_projects(part = "renames" /\ Renames!Syncing(d))
        /\ WF_projects(part = "renames" /\ Renames!Change(d))
-----------------------------------------------------------------------------
Typed ==
    /\ part = "sharing" => TypeOK
    /\ part = "colors" => Colors!TypeOK
    /\ part = "renames" => Renames!TypeOK
ChoiceStands == [][part = "colors" => Colors!ChoiceKept]_projects
TeamFollows == part = "renames" => Renames!TeamFollows
HistoriesApart == part = "renames" => Renames!HistoriesApart
ColorsConverge == Renames!ColorsConverge
=============================================================================
