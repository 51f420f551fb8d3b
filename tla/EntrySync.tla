------------------------------ MODULE EntrySync ------------------------------
(***************************************************************************)
(* The sync of completed entries between a device's log and the cloud      *)
(* (internal/integrations/neonsync/service.go, tombstones.go, client.go),  *)
(* with the window's commands that change the log while a sync runs        *)
(* (cmd/tock-desktop/app.go).                                              *)
(*                                                                         *)
(* A log row is keyed by its start; the cloud row of an entry is keyed by  *)
(* a hash of what it says, its start cut to the minute.  A deletion is a   *)
(* tombstone on the cloud row, and two files on each device queue the      *)
(* deletions and restorations the user made since the last sync.  Every    *)
(* request, every statement on the log and every rewrite of a file is a    *)
(* step, so commands, the other devices, failures and crashes fall between *)
(* any two of them.  Running activities take no part (see TimerSync).      *)
(***************************************************************************)
EXTENDS Naturals, Sequences, FiniteSets

CONSTANTS
    Device,     \* installations signed in to the account
    Body,       \* description, project and end of an entry
    None,       \* an absent row
    MaxStart,   \* entries start at 0..MaxStart
    PerMinute,  \* instants in a minute
    BatchSize,  \* idBatchSize: rows one PATCH may name
    MaxOps,     \* bound on the user's commands
    MaxFails,   \* bound on failed requests and crashes
    MaxEvents   \* bound on the two together

Start == 0..MaxStart
\* Slip: the start rounded to the next minute, not cut.
MinuteRoundedUp(s) == s + PerMinute - (s % PerMinute)

Minute(s) == s - (s % PerMinute)
Id == [minute : Start, body : Body]
Row == [start : Start, body : Body]
IdOf(row) == [minute |-> Minute(row.start), body |-> row.body]

ASSUME NoneAssumption == None \notin Start \cup Body \cup Row
ASSUME BoundsAssumption ==
    /\ MaxStart \in Nat /\ MaxOps \in Nat /\ MaxFails \in Nat /\ MaxEvents \in Nat
    /\ PerMinute \in Nat \ {0} /\ BatchSize \in Nat \ {0}

VARIABLES
    cloud,      \* cloud[i]: the entries table's row, absent, live or deleted
    local,      \* local[d][s]: the body of the entry that starts at s
    tombs,      \* tombs[d]: neonsync-tombstones.json
    restores,   \* restores[d]: neonsync-restorations.json
    queue,      \* queue[d]: the file rewrites the command in hand has yet to make
    journal,    \* journal[d]: the change the next undo (or redo) reverses
    pc,         \* pc[d]: where the sync of device d stands
    read,       \* read[d]: what that sync holds in memory
    todo,       \* todo[d]: the ids its current loop has still to visit
    ops,        \* user commands given so far
    fails,      \* requests failed and crashes so far
    revived,    \* history: ids whose restoration some user asked for
    owed,       \* history: owed[d]: deletions recorded on d between two syncs,
                \* of entries then live in the cloud, not yet carried out
    due         \* history: due[d]: restorations likewise, of entries then deleted

memory == <<pc, read, todo>>
files == <<tombs, restores>>
history == <<revived, owed, due>>
vars == <<cloud, local, files, queue, journal, memory, ops, fails, history>>

Steps == {"idle", "restores", "log", "staleTombs", "staleRestores", "restore",
          "push", "delete", "get", "remove", "prune", "add", "confirm"}
CloudRow == {"absent", "live", "deleted"}
Intent == [op : {"tomb", "unrestore", "restore", "untomb"}, id : Id]
Change == [removed : Row \cup {None}, created : Row \cup {None}, undone : BOOLEAN]
Memory == [tombs : SUBSET Id, restores : SUBSET Id,
           log : [Id -> Start \cup {None}], rows : [Id -> CloudRow]]

Unread == [tombs |-> {}, restores |-> {}, log |-> [i \in Id |-> None],
           rows |-> [i \in Id |-> "absent"]]

TypeOK ==
    /\ cloud \in [Id -> CloudRow]
    /\ local \in [Device -> [Start -> Body \cup {None}]]
    /\ tombs \in [Device -> SUBSET Id]
    /\ restores \in [Device -> SUBSET Id]
    /\ queue \in [Device -> Seq(Intent)]
    /\ journal \in [Device -> Change \cup {None}]
    /\ pc \in [Device -> Steps]
    /\ read \in [Device -> Memory]
    /\ todo \in [Device -> SUBSET Id]
    /\ ops \in 0..MaxOps
    /\ fails \in 0..MaxFails
    /\ revived \in SUBSET Id
    /\ owed \in [Device -> SUBSET Id]
    /\ due \in [Device -> SUBSET Id]

Init ==
    /\ cloud = [i \in Id |-> "absent"]
    /\ local = [d \in Device |-> [s \in Start |-> None]]
    /\ tombs = [d \in Device |-> {}]
    /\ restores = [d \in Device |-> {}]
    /\ queue = [d \in Device |-> <<>>]
    /\ journal = [d \in Device |-> None]
    /\ pc = [d \in Device |-> "idle"]
    /\ read = [d \in Device |-> Unread]
    /\ todo = [d \in Device |-> {}]
    /\ ops = 0
    /\ fails = 0
    /\ revived = {}
    /\ owed = [d \in Device |-> {}]
    /\ due = [d \in Device |-> {}]

-----------------------------------------------------------------------------
(* The user's commands.  Each writes the log in one transaction and then   *)
(* rewrites the files, one rewrite at a time; the next command waits.       *)

RowAt(d, s) == [start |-> s, body |-> local[d][s]]
LogIds(d) == {IdOf(RowAt(d, s)) : s \in {r \in Start : local[d][r] # None}}

Deletion(row) ==
    IF row = None THEN <<>>
    ELSE <<[op |-> "tomb", id |-> IdOf(row)], [op |-> "unrestore", id |-> IdOf(row)]>>

Restoration(row) ==
    IF row = None THEN <<>>
    ELSE <<[op |-> "restore", id |-> IdOf(row)], [op |-> "untomb", id |-> IdOf(row)]>>

\* ApplyChanges: the row removed must be as expected and the start free, or
\* nothing is written.
Replace(d, removed, created) ==
    [s \in Start |->
        IF created # None /\ created.start = s THEN created.body
        ELSE IF removed # None /\ removed.start = s THEN None
        ELSE local[d][s]]

Applicable(d, removed, created) ==
    /\ removed # None => local[d][removed.start] = removed.body
    /\ created # None /\ local[d][created.start] # None
       => removed # None /\ removed.start = created.start

Ids(row) == IF row = None THEN {} ELSE {IdOf(row)}

MayCommand(d) == ops < MaxOps /\ ops + fails < MaxEvents /\ queue[d] = <<>>

Command(d, removed, created, intents) ==
    /\ MayCommand(d)
    /\ Applicable(d, removed, created)
    /\ ops' = ops + 1
    /\ local' = [local EXCEPT ![d] = Replace(d, removed, created)]
    /\ queue' = [queue EXCEPT ![d] = intents]
    /\ owed' = [owed EXCEPT ![d] = @ \ Ids(created)]
    /\ due' = [due EXCEPT ![d] = @ \ Ids(removed)]
    /\ UNCHANGED <<cloud, files, memory, fails>>

Journal(d, removed, created) ==
    journal' = [journal EXCEPT ![d] =
                    [removed |-> removed, created |-> created, undone |-> FALSE]]

\* AddActivity, when no entry starts there; it records no restoration.
UserAdd(d, row) ==
    /\ Command(d, None, row, <<>>)
    /\ Journal(d, None, row)
    /\ UNCHANGED revived

\* UpdateActivity: a new body, a new start, both, or (notes only) neither.
UserEdit(d, s, row) ==
    /\ local[d][s] # None
    /\ Command(d, RowAt(d, s), row, Deletion(RowAt(d, s)))
    /\ Journal(d, RowAt(d, s), row)
    /\ UNCHANGED revived

UserRemove(d, s) ==
    /\ local[d][s] # None
    /\ Command(d, RowAt(d, s), None, Deletion(RowAt(d, s)))
    /\ Journal(d, RowAt(d, s), None)
    /\ UNCHANGED revived

\* UndoLastActivityChange and RedoLastActivityChange: the change reversed, and
\* its sides recorded in the order in which the changes list them.
UserUndo(d) ==
    /\ journal[d] # None
    /\ LET c == journal[d]
           moved == c.removed # None /\ c.created # None
                    /\ c.removed.start # c.created.start
           intents == IF moved /\ ~c.undone
                      THEN Restoration(c.removed) \o Deletion(c.created)
                      ELSE Deletion(c.created) \o Restoration(c.removed)
       IN /\ Command(d, c.created, c.removed, intents)
          /\ journal' = [journal EXCEPT ![d] =
                [removed |-> c.created, created |-> c.removed, undone |-> ~c.undone]]
          /\ revived' = revived \cup Ids(c.removed)

Awaits(d, op, i) ==
    \E n \in DOMAIN queue[d] : queue[d][n] = [op |-> op, id |-> i]

\* RecordDeletion and RecordRestoration, one file at a time.
Record(d) ==
    /\ queue[d] # <<>>
    /\ LET op == Head(queue[d]).op
           i  == Head(queue[d]).id
       IN /\ tombs' = [tombs EXCEPT ![d] =
                CASE op = "tomb" -> @ \cup {i} [] op = "untomb" -> @ \ {i} [] OTHER -> @]
          /\ restores' = [restores EXCEPT ![d] =
                CASE op = "restore" -> @ \cup {i} [] op = "unrestore" -> @ \ {i} [] OTHER -> @]
          /\ owed' = IF /\ op = "tomb" /\ pc[d] = "idle" /\ ~Awaits(d, "untomb", i)
                        /\ cloud[i] = "live" /\ i \notin LogIds(d)
                     THEN [owed EXCEPT ![d] = @ \cup {i}] ELSE owed
          /\ due' = IF /\ op = "restore" /\ pc[d] = "idle" /\ ~Awaits(d, "unrestore", i)
                       /\ cloud[i] = "deleted" /\ i \in LogIds(d)
                    THEN [due EXCEPT ![d] = @ \cup {i}] ELSE due
    /\ queue' = [queue EXCEPT ![d] = Tail(@)]
    /\ UNCHANGED <<cloud, local, journal, memory, ops, fails, revived>>

-----------------------------------------------------------------------------
(* SyncNow *)

Goto(d, step) == pc' = [pc EXCEPT ![d] = step]

\* A loop over ids is skipped when there are none.
Loop(d, ids, body, next) ==
    /\ todo' = [todo EXCEPT ![d] = ids]
    /\ Goto(d, IF ids = {} THEN next ELSE body)

Return(d) ==
    /\ Goto(d, "idle")
    /\ read' = [read EXCEPT ![d] = Unread]
    /\ todo' = [todo EXCEPT ![d] = {}]

\* Slip: the deletions are taken out of their file as they are read.
TakeTombs(d) ==
    /\ pc[d] = "idle"
    /\ read' = [read EXCEPT ![d].tombs = tombs[d]]
    /\ tombs' = [tombs EXCEPT ![d] = {}]
    /\ Goto(d, "restores")
    /\ UNCHANGED <<cloud, local, restores, queue, journal, todo, ops, fails, history>>

\* The pending intents are read before the log.
ReadTombs(d) ==
    /\ pc[d] = "idle"
    /\ read' = [read EXCEPT ![d].tombs = tombs[d]]
    /\ Goto(d, "restores")
    /\ UNCHANGED <<cloud, local, files, queue, journal, todo, ops, fails, history>>

ReadRestores(d) ==
    /\ pc[d] = "restores"
    /\ read' = [read EXCEPT ![d].restores = restores[d]]
    /\ Goto(d, "log")
    /\ UNCHANGED <<cloud, local, files, queue, journal, todo, ops, fails, history>>

\* localByID: of two rows with one id, the earliest start (the list is
\* newest first and the last one written stays).
Indexed(d) ==
    [i \in Id |->
        LET starts == {s \in Start : local[d][s] # None /\ IdOf(RowAt(d, s)) = i} IN
        IF starts = {} THEN None
        ELSE CHOOSE s \in starts : \A r \in starts : s <= r]

ReadLog(d) ==
    /\ pc[d] = "log"
    /\ read' = [read EXCEPT ![d].log = Indexed(d)]
    /\ Goto(d, "staleTombs")
    /\ UNCHANGED <<cloud, local, files, queue, journal, todo, ops, fails, history>>

Indices(d) == {i \in Id : read[d].log[i] # None}

\* pendingDeletions: a tombstone whose entry is in the log is stale.
DropStaleTombs(d) ==
    /\ pc[d] = "staleTombs"
    /\ tombs' = [tombs EXCEPT ![d] = @ \ (read[d].tombs \cap Indices(d))]
    /\ read' = [read EXCEPT ![d].tombs = @ \ Indices(d)]
    /\ Goto(d, "staleRestores")
    /\ UNCHANGED <<cloud, local, restores, queue, journal, todo, ops, fails, history>>

\* Slip: restorations judged as deletions are, stale when their entry is there.
DropLiveRestores(d) ==
    /\ pc[d] = "staleRestores"
    /\ restores' = [restores EXCEPT ![d] = @ \ (read[d].restores \cap Indices(d))]
    /\ read' = [read EXCEPT ![d].restores = @ \ Indices(d)]
    /\ Loop(d, read[d].restores \ Indices(d), "restore", "push")
    /\ UNCHANGED <<cloud, local, tombs, queue, journal, ops, fails, history>>

\* pendingRestorations: a restoration whose entry is not in the log is stale.
DropStaleRestores(d) ==
    /\ pc[d] = "staleRestores"
    /\ restores' = [restores EXCEPT ![d] = @ \ (read[d].restores \ Indices(d))]
    /\ read' = [read EXCEPT ![d].restores = @ \cap Indices(d)]
    /\ Loop(d, read[d].restores \cap Indices(d), "restore", "push")
    /\ UNCHANGED <<cloud, local, tombs, queue, journal, ops, fails, history>>

\* inBatches: consecutive slices of a list in no particular order.
Batch(d) ==
    {b \in SUBSET todo[d] :
        Cardinality(b) = IF Cardinality(todo[d]) < BatchSize
                         THEN Cardinality(todo[d]) ELSE BatchSize}

\* markRestored: PATCH deleted=false, which matches no absent row.
MarkRestored(d) ==
    /\ pc[d] = "restore"
    /\ \E b \in Batch(d) :
        /\ cloud' = [i \in Id |->
                        IF i \in b /\ cloud[i] = "deleted" THEN "live" ELSE cloud[i]]
        /\ Loop(d, todo[d] \ b, "restore", "push")
        /\ due' = [e \in Device |-> due[e] \ b]
    /\ UNCHANGED <<local, files, queue, journal, read, ops, fails, revived, owed>>

\* Slip: the upsert also sends deleted=false.
PushUndeleted(d) ==
    /\ pc[d] = "push"
    /\ cloud' = [i \in Id |-> IF i \in Indices(d) THEN "live" ELSE cloud[i]]
    /\ Loop(d, read[d].tombs, "delete", "get")
    /\ UNCHANGED <<local, files, queue, journal, read, ops, fails, history>>

\* push: one upsert of every indexed entry, which leaves deleted as it is.
Push(d) ==
    /\ pc[d] = "push"
    /\ cloud' = [i \in Id |->
                    IF i \in Indices(d) /\ cloud[i] = "absent" THEN "live" ELSE cloud[i]]
    /\ Loop(d, read[d].tombs, "delete", "get")
    /\ UNCHANGED <<local, files, queue, journal, read, ops, fails, history>>

\* markDeleted: PATCH deleted=true.
MarkDeleted(d) ==
    /\ pc[d] = "delete"
    /\ \E b \in Batch(d) :
        /\ cloud' = [i \in Id |->
                        IF i \in b /\ cloud[i] = "live" THEN "deleted" ELSE cloud[i]]
        /\ Loop(d, todo[d] \ b, "delete", "get")
        /\ owed' = [e \in Device |-> owed[e] \ b]
    /\ UNCHANGED <<local, files, queue, journal, read, ops, fails, revived, due>>

\* Slip: the pull only adds; what the cloud reports deleted stays in the log.
GetAdditions(d) ==
    /\ pc[d] = "get"
    /\ read' = [read EXCEPT ![d].rows = cloud]
    /\ Goto(d, "prune")
    /\ UNCHANGED <<cloud, local, files, queue, journal, todo, ops, fails, history>>

\* pull, its GET ...
GetEntries(d) ==
    /\ pc[d] = "get"
    /\ read' = [read EXCEPT ![d].rows = cloud]
    /\ Loop(d, {i \in Indices(d) : cloud[i] = "deleted"}, "remove", "prune")
    /\ UNCHANGED <<cloud, local, files, queue, journal, ops, fails, history>>

\* ... the removal of what it reports deleted, by the start indexed ...
RemoveRow(d) ==
    /\ pc[d] = "remove"
    /\ \E i \in todo[d] :
        /\ local' = [local EXCEPT ![d][read[d].log[i]] = None]
        /\ read' = [read EXCEPT ![d].log[i] = None]
        /\ Loop(d, todo[d] \ {i}, "remove", "prune")
    /\ UNCHANGED <<cloud, files, queue, journal, ops, fails, history>>

\* ... the tombstones it does not report live dropped ...
Live(d) == {i \in Id : read[d].rows[i] = "live"}

Prune(d) ==
    /\ pc[d] = "prune"
    /\ tombs' = [tombs EXCEPT ![d] = @ \cap Live(d)]
    /\ LET missing == Live(d) \ (Indices(d) \cup read[d].tombs) IN
        IF missing = {} /\ read[d].restores = {}
        THEN Return(d)
        ELSE Loop(d, missing, "add", "confirm") /\ UNCHANGED read
    /\ UNCHANGED <<cloud, local, restores, queue, journal, ops, fails, history>>

\* ... and what this device misses added, at the start cut to the minute and
\* over whatever starts there.
AddRow(d) ==
    /\ pc[d] = "add"
    /\ \E i \in todo[d] :
        /\ local' = [local EXCEPT ![d][i.minute] = i.body]
        /\ IF todo[d] = {i} /\ read[d].restores = {}
           THEN Return(d)
           ELSE /\ read' = [read EXCEPT ![d].log[i] = i.minute]
                /\ Loop(d, todo[d] \ {i}, "add", "confirm")
    /\ UNCHANGED <<cloud, files, queue, journal, ops, fails, history>>

\* confirmRestorations: the intents carried through the whole sync.
Confirm(d) ==
    /\ pc[d] = "confirm"
    /\ restores' = [restores EXCEPT ![d] = @ \ read[d].restores]
    /\ Return(d)
    /\ UNCHANGED <<cloud, local, tombs, queue, journal, ops, fails, history>>

\* A request or a statement fails: SyncNow returns where it stands.
Abort(d) ==
    /\ pc[d] # "idle"
    /\ fails < MaxFails /\ ops + fails < MaxEvents
    /\ fails' = fails + 1
    /\ Return(d)
    /\ UNCHANGED <<cloud, local, files, queue, journal, ops, history>>

\* The app is killed: the rewrites not yet made and the journal go with it.
Crash(d) ==
    /\ pc[d] # "idle" \/ queue[d] # <<>>
    /\ fails < MaxFails /\ ops + fails < MaxEvents
    /\ fails' = fails + 1
    /\ Return(d)
    /\ queue' = [queue EXCEPT ![d] = <<>>]
    /\ journal' = [journal EXCEPT ![d] = None]
    /\ UNCHANGED <<cloud, local, files, ops, history>>

-----------------------------------------------------------------------------

SyncStep(d) ==
    \/ ReadTombs(d)
    \/ ReadRestores(d)
    \/ ReadLog(d)
    \/ DropStaleTombs(d)
    \/ DropStaleRestores(d)
    \/ MarkRestored(d)
    \/ Push(d)
    \/ MarkDeleted(d)
    \/ GetEntries(d)
    \/ RemoveRow(d)
    \/ Prune(d)
    \/ AddRow(d)
    \/ Confirm(d)

User(d) ==
    /\ MayCommand(d)
    /\ \/ \E row \in Row : UserAdd(d, row)
       \/ \E s \in Start, row \in Row : UserEdit(d, s, row)
       \/ \E s \in Start : UserRemove(d, s)
       \/ UserUndo(d)

Next == \E d \in Device : SyncStep(d) \/ User(d) \/ Record(d) \/ Abort(d) \/ Crash(d)

\* autoSyncLoop syncs at every interval while the app lives, and a command's
\* own file rewrites follow its transaction in the same call.
Fairness == \A d \in Device : WF_vars(SyncStep(d)) /\ WF_vars(Record(d))

Spec == Init /\ [][Next]_vars
FairSpec == Spec /\ Fairness

-----------------------------------------------------------------------------
(* Properties *)

\* Where a sync may bring back an entry, a user asked for it: every restoration
\* on its way is of an entry some user revived.
Asked ==
    \A d \in Device :
        /\ restores[d] \subseteq revived
        /\ read[d].restores \subseteq revived
        /\ pc[d] = "restore" => todo[d] \subseteq revived
        /\ \A n \in DOMAIN queue[d] :
            queue[d][n].op = "restore" => queue[d][n].id \in revived

\* How far the sync of device d has carried the deletions it owes.
Carried(d) ==
    /\ pc[d] = "delete" => owed[d] \subseteq todo[d]
    /\ pc[d] \in {"restores", "log", "staleTombs", "staleRestores", "restore", "push"}
       => owed[d] \subseteq read[d].tombs
    /\ pc[d] \in {"staleTombs", "staleRestores", "restore", "push"}
       => owed[d] \cap Indices(d) = {}
    /\ pc[d] \in {"get", "remove", "prune", "add", "confirm"} => owed[d] = {}

\* The inductive invariant under DeletionRemembered.
DeletionInv ==
    \A d \in Device :
        /\ owed[d] \subseteq tombs[d]
        /\ owed[d] \cap LogIds(d) = {}
        /\ \A n \in DOMAIN queue[d] :
            queue[d][n].op = "untomb" => queue[d][n].id \notin owed[d]
        /\ Carried(d)

\* How far the sync of device d has carried the restorations due.
Returning(d) ==
    /\ pc[d] \in {"log", "staleTombs", "staleRestores"} => due[d] \subseteq read[d].restores
    /\ pc[d] \in {"staleTombs", "staleRestores"} => due[d] \subseteq Indices(d)
    /\ pc[d] = "restore" => due[d] \subseteq todo[d]
    /\ pc[d] \in {"push", "delete", "get", "remove", "prune", "add", "confirm"}
       => due[d] = {}

\* The inductive invariant under RestorationRemembered.
RestorationInv ==
    \A d \in Device :
        /\ due[d] \subseteq restores[d]
        /\ due[d] \subseteq LogIds(d)
        /\ \A n \in DOMAIN queue[d] :
            queue[d][n].op = "unrestore" => queue[d][n].id \notin due[d]
        /\ Returning(d)

\* A cloud tombstone is final until some user undoes that deletion: no stale
\* copy, on any device and however its syncs fail, brings the entry back
\* (push leaves the deleted column out, markRestored is the only writer of
\* deleted=false).
TombstoneStands ==
    [][\A i \in Id \ revived : ~(cloud[i] = "deleted" /\ cloud'[i] = "live")]_vars

\* A deletion recorded between two syncs, of an entry the cloud holds live, is
\* remembered by its device until the cloud row is marked, whichever request
\* fails, wherever a sync stops or the app is killed, and whatever the other
\* devices push, pull and delete meanwhile (pendingDeletions, markDeleted and
\* pruneConfirmedTombstones).
DeletionRemembered == \A d \in Device : owed[d] \subseteq tombs[d]

\* A restoration recorded between two syncs, of an entry the cloud holds
\* deleted, is remembered until the cloud row is live again, and the entry it
\* restores is not pulled out of the log in the meantime (pendingRestorations,
\* markRestored before pull, confirmRestorations after it).
RestorationRemembered == \A d \in Device : due[d] \subseteq restores[d] \cap LogIds(d)

\* Once the users rest, every log ends up holding exactly what is live in the
\* cloud, with no deletion and no restoration left to carry out (SyncNow: "the
\* cloud is a mirror").
Mirrored ==
    \A d \in Device : /\ LogIds(d) = {i \in Id : cloud[i] = "live"}
                      /\ tombs[d] = {} /\ restores[d] = {}
Converges == <>[]Mirrored
=============================================================================
