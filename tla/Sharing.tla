-------------------------------- MODULE Sharing --------------------------------
(***************************************************************************)
(* One team: its members, its epochs and their keys, the filter it shares, *)
(* the grants of its members' entries, and what each member is shown       *)
(* (mobile/src/sync/sharing.ts, sharing-api.ts, lib/share-sync.ts,         *)
(* lib/shared.tsx, app/teams.tsx, the desktop's components/TeamsView.tsx;  *)
(* the server's rules are the policies of                                  *)
(* internal/integrations/neonsync/sharing_schema.sql).                     *)
(*                                                                         *)
(* Every request of a command and of a granting pass is a step of its own. *)
(* Keys are pinned already and never change (AccountKeys has them), pins   *)
(* are one store per account, a filter is its projects, and the window of  *)
(* days, names and pictures are left out.  A wrap the code deletes before  *)
(* it inserts it again is the caller's own at most, under the policies,    *)
(* and then a new one: nothing.  One read of what others share is one step.*)
(***************************************************************************)
EXTENDS Naturals, FiniteSets

CONSTANTS
    Users,
    Creator,    \* the one administrator: the screens invite plain members
    Devices,
    Owner,      \* [Devices -> Users]
    Desktops,   \* the devices that run the desktop application
    Entries,
    Author,     \* [Entries -> Users]
    Project,    \* [Entries -> Projects], or None
    Projects,
    None,
    MaxEpochs,  \* bound on the epochs published
    MaxMoves    \* bound on commands begun (but for creating the team), requests
                \* failed and entries deleted, together

ASSUME SharingOwners == Owner \in [Devices -> Users] /\ Creator \in Users
ASSUME SharingEntries == Author \in [Entries -> Users] /\ Project \in [Entries -> Projects \cup {None}]
ASSUME SharingNone == None \notin Users \cup Devices \cup Projects
ASSUME SharingBounds == MaxEpochs \in Nat \ {0} /\ MaxMoves \in Nat

VARIABLES
    team,    \* "none", "live" or "gone"
    members, \* of each user: "none", "invited" or "active"
    epochs,  \* the epochs published are 1 .. epochs
    keys,    \* <<n, u>>: epoch n's key is wrapped to u
    shares,  \* the share row minted on each device, [on, epoch], or None
    grants,  \* the epoch each entry's DEK is wrapped to, or 0
    dead,    \* the entries deleted
    pins,    \* each account's [joined, seeded]
    op,      \* each device's command in flight
    pass,    \* each device's granting pass in flight
    shown,   \* the entries of others each device shows
    held,    \* those whose grant is still the one they were read under
    left,    \* what is left of the bound on moves
    said,    \* history: the users who created the team or accepted
    removed, \* history: the users whose removal was published
    torn     \* history: a command was cut short, or two crossed

vars == <<team, members, epochs, keys, shares, grants, dead, pins, op, pass, shown, held,
          left, said, removed, torn>>

Command(kind, first, u, on) ==
    [kind |-> kind, at |-> first, who |-> u, epoch |-> 0, todo |-> {}, on |-> on, row |-> None]
Idle == Command("none", "idle", None, {})
Resting == [at |-> "idle", epoch |-> 0, on |-> {}, have |-> {}, drop |-> {}, mine |-> {}]
Rows == [on : SUBSET Projects, epoch : 1..MaxEpochs]

Commands == [
    kind : {"none", "create", "invite", "remove", "share", "accept", "leave", "delete", "rewrite"},
    at : {"idle", "audience", "member", "epoch", "wrap", "verify", "plant", "drop", "roster",
          "publish", "refilter", "reshare", "read", "write", "list", "patch", "leave", "delete"},
    who : Users \cup {None}, epoch : 0..MaxEpochs, todo : SUBSET (Users \cup (1..MaxEpochs)),
    on : SUBSET Projects, row : Devices \cup {None}]

Passes == [at : {"idle", "seed", "verify", "filter", "grants", "drop", "withdraw"},
           epoch : 0..MaxEpochs, on : SUBSET Projects,
           have : SUBSET Entries, drop : SUBSET Entries, mine : SUBSET Entries]

TypeOK ==
    /\ team \in {"none", "live", "gone"}
    /\ members \in [Users -> {"none", "invited", "active"}]
    /\ epochs \in 0..MaxEpochs /\ keys \subseteq (1..MaxEpochs) \X Users
    /\ shares \in [Devices -> Rows \cup {None}]
    /\ grants \in [Entries -> 0..MaxEpochs] /\ dead \subseteq Entries
    /\ pins \in [Users -> [joined : BOOLEAN, seeded : BOOLEAN]]
    /\ op \in [Devices -> Commands]
    /\ pass \in [Devices -> Passes]
    /\ {shown, held} \subseteq [Devices -> SUBSET Entries]
    /\ \A d \in Devices : held[d] \subseteq shown[d]
    /\ said \subseteq Users /\ removed \subseteq Users /\ torn \in BOOLEAN

Init ==
    /\ team = "none" /\ members = [u \in Users |-> "none"]
    /\ epochs = 0 /\ keys = {} /\ shares = [d \in Devices |-> None]
    /\ grants = [e \in Entries |-> 0] /\ dead = {}
    /\ pins = [u \in Users |-> [joined |-> FALSE, seeded |-> FALSE]]
    /\ op = [d \in Devices |-> Idle] /\ pass = [d \in Devices |-> Resting]
    /\ shown = [d \in Devices |-> {}] /\ held = [d \in Devices |-> {}]
    /\ left = MaxMoves
    /\ said = {} /\ removed = {} /\ torn = FALSE

Spend == left > 0 /\ left' = left - 1

Roster == <<team, members, pins>>
Chain == <<epochs, keys>>
Slices == <<shares, grants>>
Views == <<shown, held>>
Past == <<said, removed>>

-----------------------------------------------------------------------------
(* What the server allows *)

Member(u) == team = "live" /\ members[u] = "active"
Admin(u) == Member(u) /\ u = Creator
Holds(u, n) == <<n, u>> \in keys
Shared == \E d \in Devices : shares[d] # None

\* A member reads the epochs; anyone else reads none, which the watermark or the
\* missing epoch makes an error.
VerifiedEpochs(u) == Member(u) /\ epochs > 0

-----------------------------------------------------------------------------
(* What the screens offer *)

\* The trash or the door in a team's header: the phone goes by who created it,
\* the desktop by the role.
PhoneHeaderOffers(u, kind) ==
    IF u = Creator THEN kind = "delete" ELSE Member(u) /\ kind = "leave"
DesktopHeaderOffers(u, kind) ==
    Member(u) /\ kind = (IF Admin(u) THEN "delete" ELSE "leave")
HeaderOffers(d, kind) ==
    /\ team = "live"
    /\ IF d \in Desktops THEN DesktopHeaderOffers(Owner[d], kind)
       ELSE PhoneHeaderOffers(Owner[d], kind)

\* A team the caller is only invited to is listed as an invitation, with its two
\* buttons; declining is leaving.
Pending(u) == team = "live" /\ members[u] = "invited"
InvitationOffers(d, kind) == Pending(Owner[d]) /\ kind \in {"accept", "leave"}

\* The people of a team: an administrator removes and invites.
PeopleOffers(d, kind, u) ==
    /\ Admin(Owner[d]) /\ u # Owner[d]
    /\ kind = (IF members[u] = "none" THEN "invite" ELSE "remove")

\* The filter is saved when it differs from the one the card read: what the share
\* is, or nothing when there is none.
SharingOffers(d, on) ==
    /\ Admin(Owner[d])
    /\ \A s \in Devices : shares[s] # None => shares[s].on # on
    /\ ~Shared => on # {}

CreateOffered(d) == team = "none" /\ Owner[d] = Creator

-----------------------------------------------------------------------------
(* Commands *)

Change(kind) == kind \in {"invite", "remove"}

Does(d, o) == op' = [op EXCEPT ![d] = o]

\* A tap begins a command; the card is busy until it ends.
Begin(d, kind, first, u, on) ==
    /\ op[d].at = "idle" /\ IF kind = "create" THEN UNCHANGED left ELSE Spend
    /\ Does(d, Command(kind, first, u, on))
    /\ torn' = (torn \/ \E c \in Devices : Change(kind) /\ Change(op[c].kind))
    /\ UNCHANGED <<Roster, Chain, Slices, dead, pass, Views, Past>>

CreateTap(d) ==
    /\ CreateOffered(d) /\ \A c \in Devices : op[c].kind # "create"
    /\ Begin(d, "create", "audience", None, {})
InviteTap(d, u) == PeopleOffers(d, "invite", u) /\ Begin(d, "invite", "verify", u, {})
RemoveTap(d, u) == PeopleOffers(d, "remove", u) /\ Begin(d, "remove", "verify", u, {})
SaveSharingTap(d, on) == SharingOffers(d, on) /\ Begin(d, "share", "verify", None, on)
AcceptTap(d) == InvitationOffers(d, "accept") /\ Begin(d, "accept", "patch", None, {})
LeaveTap(d) ==
    /\ InvitationOffers(d, "leave") \/ HeaderOffers(d, "leave")
    /\ Begin(d, "leave", "leave", None, {})
DeleteTap(d) == HeaderOffers(d, "delete") /\ Begin(d, "delete", "delete", None, {})

\* A project renamed (to # None) or deleted elsewhere in the application rewrites
\* the filters that name it.
ProjectGone(d, from) == Owner[d] = Creator /\ Begin(d, "rewrite", "list", None, {from})

To(d, at) == Does(d, [op[d] EXCEPT !.at = at])
End(d) == Does(d, Idle)
\* A refused or failed request ends the command where it stands.
CutShort(d) ==
    /\ End(d)
    /\ torn' = (torn \/ op[d].at \in {"member", "epoch", "wrap", "plant", "drop", "roster",
                                      "publish", "refilter", "reshare"})

CreateTeam(d) ==
    /\ op[d].kind = "create"
    /\ \/ /\ op[d].at = "audience" /\ team = "none"
          /\ team' = "live" /\ To(d, "member")
          /\ said' = said \cup {Creator}
          /\ UNCHANGED <<members, pins, epochs, keys>>
       \/ /\ op[d].at = "member" /\ team = "live"
          /\ members' = [members EXCEPT ![Creator] = "active"] /\ To(d, "epoch")
          /\ UNCHANGED <<team, pins, epochs, keys, said>>
       \/ /\ op[d].at = "epoch" /\ team = "live"
          /\ epochs' = 1 /\ To(d, "wrap")
          /\ UNCHANGED <<team, members, pins, keys, said>>
       \/ /\ op[d].at = "wrap" /\ team = "live"
          /\ keys' = keys \cup {<<1, Creator>>} /\ End(d)
          /\ pins' = [pins EXCEPT ![Creator].joined = TRUE]
          /\ UNCHANGED <<team, members, epochs, said>>
    /\ UNCHANGED <<shares, grants, dead, pass, Views, left, removed, torn>>

\* Slip: the row is planted without its status, which defaults to active.
PlantMember(d) ==
    /\ op[d].kind = "invite" /\ op[d].at = "plant" /\ Admin(Owner[d])
    /\ members' = [members EXCEPT ![op[d].who] = IF @ = "none" THEN "active" ELSE @]
    /\ removed' = removed \ {op[d].who}
    /\ To(d, "wrap")
    /\ UNCHANGED <<team, pins, Chain, Slices, dead, pass, Views, left, said, torn>>

\* inviteByEmail: the row, then every verified epoch's key, one request each.
Plant(d) ==
    /\ op[d].kind = "invite" /\ op[d].at = "plant" /\ Admin(Owner[d])
    /\ members' = [members EXCEPT ![op[d].who] = IF @ = "none" THEN "invited" ELSE @]
    /\ removed' = removed \ {op[d].who}
    /\ To(d, "wrap")
    /\ UNCHANGED <<team, pins, Chain, Slices, dead, pass, Views, left, said, torn>>

WrapToInvitee(d) ==
    /\ op[d].kind = "invite" /\ op[d].at = "wrap" /\ Admin(Owner[d])
    /\ \E n \in op[d].todo :
           /\ \A k \in op[d].todo : n <= k
           /\ Holds(Owner[d], n)
           /\ keys' = keys \cup {<<n, op[d].who>>}
           /\ Does(d, IF op[d].todo = {n} THEN Idle ELSE [op[d] EXCEPT !.todo = @ \ {n}])
    /\ UNCHANGED <<Roster, epochs, Slices, dead, pass, Views, left, Past, torn>>

\* removeMember: the row, the roster, the next epoch, its key for who remains,
\* and the filter under it.
Drop(d) ==
    /\ op[d].at = "drop" /\ Admin(Owner[d])
    /\ members' = [members EXCEPT ![op[d].who] = "none"]
    /\ To(d, "roster")
    /\ UNCHANGED <<team, pins, Chain, Slices, dead, pass, Views, left, Past, torn>>

ReadRoster(d) ==
    /\ op[d].at = "roster" /\ Member(Owner[d])
    /\ Does(d, [op[d] EXCEPT !.at = "publish",
                             !.todo = {u \in Users : members[u] # "none"} \ {op[d].who}])
    /\ UNCHANGED <<Roster, Chain, Slices, dead, pass, Views, left, Past, torn>>

Publish(d) ==
    /\ op[d].at = "publish" /\ Admin(Owner[d]) /\ op[d].epoch = epochs
    /\ epochs' = epochs + 1
    /\ removed' = IF members[op[d].who] = "none" THEN removed \cup {op[d].who} ELSE removed
    /\ Does(d, [op[d] EXCEPT !.epoch = epochs + 1, !.at = "wrap"])
    /\ UNCHANGED <<Roster, keys, Slices, dead, pass, Views, left, said, torn>>

WrapToMembers(d) ==
    /\ op[d].kind = "remove" /\ op[d].at = "wrap" /\ Admin(Owner[d])
    /\ keys' = keys \cup ({op[d].epoch} \X op[d].todo)
    /\ Does(d, [op[d] EXCEPT !.at = "refilter", !.todo = {}])
    /\ UNCHANGED <<Roster, epochs, Slices, dead, pass, Views, left, Past, torn>>

\* currentFilter: the first share row there is, which takes the key of its epoch.
ReadsRow(d, s) == Member(Owner[d]) /\ shares[s] # None /\ Holds(Owner[d], shares[s].epoch)
ReadsNoRow(d) == Member(Owner[d]) /\ ~Shared

Refilter(d) ==
    /\ op[d].at = "refilter"
    /\ \/ ReadsNoRow(d) /\ End(d)
       \/ \E s \in Devices :
            /\ ReadsRow(d, s)
            /\ Does(d, [op[d] EXCEPT !.at = "reshare", !.row = s, !.on = shares[s].on])
    /\ UNCHANGED <<Roster, Chain, Slices, dead, pass, Views, left, Past, torn>>

\* writeShare, at the end of a removal and of a saved filter.
WriteShare(d) ==
    /\ op[d].at \in {"reshare", "write"} /\ Admin(Owner[d])
    /\ shares' = [shares EXCEPT ![op[d].row] = [on |-> op[d].on, epoch |-> op[d].epoch]]
    /\ End(d)
    /\ UNCHANGED <<Roster, Chain, grants, dead, pass, Views, left, Past, torn>>

\* The epochs are verified first by an invitation, a removal and a saved filter.
Verify(d) ==
    /\ op[d].at = "verify" /\ VerifiedEpochs(Owner[d])
    /\ op[d].kind = "remove" => epochs < MaxEpochs
    /\ Does(d, [op[d] EXCEPT !.epoch = epochs,
                             !.todo = IF op[d].kind = "invite" THEN 1..epochs ELSE {},
                             !.at = CASE op[d].kind = "invite" -> "plant"
                                      [] op[d].kind = "remove" -> "drop"
                                      [] OTHER -> "read"])
    /\ UNCHANGED <<Roster, Chain, Slices, dead, pass, Views, left, Past, torn>>

\* setTeamShare keeps the row it finds, or mints one.
ReadShareRow(d) ==
    /\ op[d].at = "read"
    /\ \/ ReadsNoRow(d) /\ Does(d, [op[d] EXCEPT !.at = "write", !.row = d])
       \/ \E s \in Devices : ReadsRow(d, s) /\ Does(d, [op[d] EXCEPT !.at = "write", !.row = s])
    /\ UNCHANGED <<Roster, Chain, Slices, dead, pass, Views, left, Past, torn>>

\* rewriteSharedProject: the filter without the project, or with its new name.
RewriteSharedProject(d, to) ==
    /\ op[d].at = "list"
    /\ \/ ~Admin(Owner[d]) /\ End(d)
       \/ ReadsNoRow(d) /\ End(d)
       \/ \E s \in Devices :
            /\ ReadsRow(d, s)
            /\ IF op[d].on \subseteq shares[s].on
               THEN Does(d, Command("share", "verify", None,
                                    (shares[s].on \ op[d].on) \cup (to \ op[d].on)))
               ELSE End(d)
    /\ UNCHANGED <<Roster, Chain, Slices, dead, pass, Views, left, Past, torn>>

\* acceptInvite: the caller's own row, if it is still there and still invited.
AcceptInvite(d) ==
    /\ op[d].at = "patch" /\ (team = "live" => members[Owner[d]] # "active")
    /\ members' = IF team = "live" /\ members[Owner[d]] = "invited"
                  THEN [members EXCEPT ![Owner[d]] = "active"] ELSE members
    /\ pins' = [pins EXCEPT ![Owner[d]].joined = TRUE]
    /\ said' = said \cup {Owner[d]}
    /\ End(d)
    /\ UNCHANGED <<team, Chain, Slices, dead, pass, Views, left, removed, torn>>

LeaveTeam(d) ==
    /\ op[d].at = "leave"
    /\ members' = [members EXCEPT ![Owner[d]] = "none"]
    /\ End(d)
    /\ UNCHANGED <<team, pins, Chain, Slices, dead, pass, Views, left, Past, torn>>

\* Every row of the team goes with its audience.
DeleteTeam(d) ==
    /\ op[d].at = "delete"
    /\ team' = (IF team = "live" THEN "gone" ELSE team)
    /\ members' = [u \in Users |-> "none"]
    /\ epochs' = 0 /\ keys' = {} /\ shares' = [s \in Devices |-> None]
    /\ grants' = [e \in Entries |-> 0] /\ held' = [c \in Devices |-> {}]
    /\ End(d)
    /\ UNCHANGED <<pins, dead, pass, shown, left, Past, torn>>

\* A request the server refuses: the caller is no longer a member or an
\* administrator, holds no key, lost the race to the next epoch, or has accepted
\* already on another device.
Refused(d) ==
    /\ \/ op[d].at \in {"verify", "list"} /\ ~VerifiedEpochs(Owner[d])
       \/ op[d].at = "roster" /\ ~Member(Owner[d])
       \/ op[d].at \in {"plant", "drop", "reshare", "write"} /\ ~Admin(Owner[d])
       \/ op[d].at = "wrap" /\ op[d].kind # "create" /\ ~Admin(Owner[d])
       \/ /\ op[d].at = "wrap" /\ op[d].kind = "invite"
          /\ \E n \in op[d].todo : ~Holds(Owner[d], n)
       \/ op[d].at = "publish" /\ ~(Admin(Owner[d]) /\ op[d].epoch = epochs)
       \/ /\ op[d].at \in {"refilter", "read", "list"} /\ Shared
          /\ \E s \in Devices : shares[s] # None /\ ~ReadsRow(d, s)
       \/ op[d].at \in {"refilter", "read"} /\ ~Member(Owner[d])
       \/ op[d].at = "patch" /\ Member(Owner[d])
       \/ op[d].kind = "create" /\ op[d].at # "audience" /\ team # "live"
    /\ CutShort(d)
    /\ UNCHANGED <<Roster, Chain, Slices, dead, pass, Views, left, Past>>

Fail(d) ==
    /\ op[d].at # "idle" /\ Spend /\ CutShort(d)
    /\ UNCHANGED <<Roster, Chain, Slices, dead, pass, Views, Past>>

-----------------------------------------------------------------------------
(* Granting the account's own entries *)

Live(u) == {e \in Entries \ dead : Author[e] = u}
Selects(on, e) == on = {} \/ Project[e] \in on
Stay(d) == UNCHANGED <<Roster, Chain, Slices, dead, op, Views, left, Past, torn>>
Step(d, p) == pass' = [pass EXCEPT ![d] = p]

\* reconcileSoon: one pass at a time, over the history as last read.  One asked
\* for meanwhile begins when it ends.
ReconcileSoon(d) ==
    /\ team = "live" /\ pass[d].at = "idle"
    /\ members[Owner[d]] # "none" \/ Owner[d] = Creator
    /\ pins[Owner[d]].joined \/ ~pins[Owner[d]].seeded
    /\ Step(d, [Resting EXCEPT !.at = "seed", !.mine = Live(Owner[d])])
    /\ Stay(d)

\* The memberships that predate the joined set are adopted, once.
SeedJoined(d) ==
    LET u == Owner[d]
        adopt == u = Creator \/ members[u] = "active"
    IN  /\ pass[d].at = "seed"
        /\ pins' = IF pins[u].seeded THEN pins
                   ELSE [pins EXCEPT ![u] = [joined |-> @.joined \/ adopt, seeded |-> TRUE]]
        /\ Step(d, IF pins'[u].joined THEN [pass[d] EXCEPT !.at = "verify"] ELSE Resting)
        /\ UNCHANGED <<team, members, Chain, Slices, dead, op, Views, left, Past, torn>>

PassVerify(d) ==
    /\ pass[d].at = "verify"
    /\ Step(d, IF VerifiedEpochs(Owner[d])
               THEN [pass[d] EXCEPT !.at = "filter", !.epoch = epochs] ELSE Resting)
    /\ Stay(d)

PassFilter(d) ==
    /\ pass[d].at = "filter"
    /\ \/ \E s \in Devices :
            /\ ReadsRow(d, s)
            /\ Step(d, [pass[d] EXCEPT !.at = "grants", !.on = shares[s].on])
       \/ /\ ~Shared \/ \E s \in Devices : shares[s] # None /\ ~ReadsRow(d, s)
          /\ Step(d, Resting)
    /\ Stay(d)

Wanted(p) == {e \in p.mine : Selects(p.on, e)}
ToGrant(p) == Wanted(p) \ p.have

\* The account's own grants: those of its epoch are kept, the rest replaced.
PassGrants(d) ==
    LET own == {e \in Entries : Author[e] = Owner[d] /\ grants[e] # 0}
        stale == {e \in Wanted(pass[d]) \cap own : grants[e] # pass[d].epoch}
    IN  /\ pass[d].at = "grants"
        /\ Step(d, [pass[d] EXCEPT !.at = "drop", !.have = own \ stale, !.drop = stale])
        /\ Stay(d)

Withdrawn(e) ==
    /\ grants' = [grants EXCEPT ![e] = 0]
    /\ held' = [c \in Devices |-> held[c] \ {e}]

\* A grant under an older epoch goes before its replacement is inserted,
\* whatever stands under its name by then.
DropStale(d, e) ==
    /\ pass[d].at = "drop" /\ e \in pass[d].drop
    /\ Withdrawn(e)
    /\ Step(d, [pass[d] EXCEPT !.drop = @ \ {e}])
    /\ UNCHANGED <<Roster, Chain, shares, dead, op, shown, left, Past, torn>>

\* Slip: the epoch is not compared with the one the pass verified.
InsertGrantsLate(d) ==
    /\ pass[d].at = "drop" /\ pass[d].drop = {}
    /\ IF ToGrant(pass[d]) = {} \/ /\ Member(Owner[d]) /\ Shared
                                   /\ \A e \in ToGrant(pass[d]) : grants[e] = 0
       THEN /\ grants' = [e \in Entries |-> IF e \in ToGrant(pass[d]) THEN pass[d].epoch ELSE grants[e]]
            /\ Step(d, [pass[d] EXCEPT !.at = "withdraw"])
       ELSE Step(d, Resting) /\ UNCHANGED grants
    /\ UNCHANGED <<Roster, Chain, shares, dead, op, Views, left, Past, torn>>

\* One request for all of them: refused as a whole when the epoch has moved, the
\* author is no member, no filter stands, or another device granted one first.
InsertGrants(d) ==
    /\ pass[d].at = "drop" /\ pass[d].drop = {}
    /\ IF ToGrant(pass[d]) = {} \/ /\ Member(Owner[d]) /\ pass[d].epoch = epochs /\ Shared
                                   /\ \A e \in ToGrant(pass[d]) : grants[e] = 0
       THEN /\ grants' = [e \in Entries |-> IF e \in ToGrant(pass[d]) THEN pass[d].epoch ELSE grants[e]]
            /\ Step(d, [pass[d] EXCEPT !.at = "withdraw"])
       ELSE Step(d, Resting) /\ UNCHANGED grants
    /\ UNCHANGED <<Roster, Chain, shares, dead, op, Views, left, Past, torn>>

\* Slip: what the history no longer has is not withdrawn either.
WithdrawNothing(d) ==
    /\ pass[d].at = "withdraw" /\ Step(d, Resting)
    /\ UNCHANGED <<Roster, Chain, Slices, dead, op, Views, left, Past, torn>>

\* What left the slice is withdrawn, one request each.
Withdraw(d) ==
    /\ pass[d].at = "withdraw"
    /\ IF pass[d].have \subseteq Wanted(pass[d])
       THEN Step(d, Resting) /\ UNCHANGED <<grants, held>>
       ELSE \E e \in pass[d].have \ Wanted(pass[d]) :
                Withdrawn(e) /\ Step(d, [pass[d] EXCEPT !.have = @ \ {e}])
    /\ UNCHANGED <<Roster, Chain, shares, dead, op, shown, left, Past, torn>>

PassFails(d) ==
    /\ pass[d].at # "idle" /\ Spend /\ Step(d, Resting)
    /\ UNCHANGED <<Roster, Chain, Slices, dead, op, Views, Past, torn>>

-----------------------------------------------------------------------------
(* Reading what others share *)

\* listSharedEntries: an entry whose grant is unchanged comes from the cache;
\* any other takes its epoch's key and a row that is not deleted.
Readable(d, e) ==
    /\ Author[e] # Owner[d] /\ grants[e] # 0
    /\ e \in held[d] \/ (e \notin dead /\ Holds(Owner[d], grants[e]))

Refresh(d) ==
    LET next == {e \in Entries : VerifiedEpochs(Owner[d]) /\ Readable(d, e)}
    IN  /\ shown' = [shown EXCEPT ![d] = next]
        /\ held' = [held EXCEPT ![d] = next]
        /\ UNCHANGED <<Roster, Chain, Slices, dead, op, pass, left, Past, torn>>

DeleteEntry(e) ==
    /\ e \notin dead /\ Spend
    /\ dead' = dead \cup {e}
    /\ UNCHANGED <<Roster, Chain, Slices, op, pass, Views, Past, torn>>

-----------------------------------------------------------------------------
Tap(d) ==
    \/ CreateTap(d) \/ AcceptTap(d) \/ LeaveTap(d) \/ DeleteTap(d)
    \/ \E u \in Users : InviteTap(d, u) \/ RemoveTap(d, u)
    \/ \E on \in SUBSET Projects : SaveSharingTap(d, on)
    \/ \E p \in Projects : ProjectGone(d, p)

Work(d) ==
    \/ CreateTeam(d) \/ Verify(d) \/ Plant(d) \/ WrapToInvitee(d)
    \/ Drop(d) \/ ReadRoster(d) \/ Publish(d) \/ WrapToMembers(d) \/ Refilter(d)
    \/ ReadShareRow(d) \/ WriteShare(d)
    \/ \E to \in {{}} \cup {{p} : p \in Projects} : RewriteSharedProject(d, to)
    \/ AcceptInvite(d) \/ LeaveTeam(d) \/ DeleteTeam(d) \/ Refused(d)

PassStep(d) ==
    \/ SeedJoined(d) \/ PassVerify(d) \/ PassFilter(d) \/ PassGrants(d)
    \/ \E e \in Entries : DropStale(d, e)
    \/ InsertGrants(d) \/ Withdraw(d)

Next ==
    \/ \E d \in Devices :
        \/ Tap(d) \/ Work(d) \/ Fail(d)
        \/ ReconcileSoon(d) \/ PassStep(d) \/ PassFails(d)
        \/ Refresh(d)
    \/ \E e \in Entries : DeleteEntry(e)

Spec == Init /\ [][Next]_vars

\* Requests end, passes are started by every sync, and reads by every minute.
Fairness == \A d \in Devices :
    /\ WF_vars(Work(d)) /\ WF_vars(PassStep(d))
    /\ WF_vars(ReconcileSoon(d)) /\ WF_vars(Refresh(d))

FairSpec == Spec /\ Fairness

-----------------------------------------------------------------------------
(* Properties *)

\* Nobody's entries reach a team without their say: an entry is granted only
\* when its author created the team or accepted an invitation (reconcileShares,
\* seedJoined).
Consent == \A e \in Entries : grants[e] # 0 => Author[e] \in said

\* What is granted after a removal is dark to who was removed: no step grants an
\* entry under an epoch whose key they hold (removeMember, reconcileAudience).
RemovedSeeNothingNew ==
    [][\A e \in Entries, u \in Users :
        (grants'[e] \notin {0, grants[e]} /\ u \in removed) => ~Holds(u, grants'[e])]_vars

\* What the filter selects of an author's entries, for a reader.
Promised(d) ==
    {e \in Entries \ dead :
        /\ Member(Owner[d]) /\ Author[e] # Owner[d] /\ Member(Author[e])
        /\ \E s \in Devices : shares[s] # None /\ Selects(shares[s].on, e)}

\* Once nobody changes the team, every member is shown exactly what the filter
\* selects of the other members' entries: unless a command was cut short, two
\* crossed or two filters stand (reconcileShares, listSharedEntries).
SharingConverges ==
    <>[](\/ torn \/ \E s, t \in Devices : s # t /\ shares[s] # None /\ shares[t] # None
         \/ \A d \in Devices :
              {e \in shown[d] : Member(Author[e])} = Promised(d))

\* "Sharing cleared", the card says of a filter without projects: nothing is
\* granted under it (app/teams.tsx, matches in sync/sharing.ts).
ClearedSharesNothing ==
    [][\A d \in Devices :
        (pass[d].on = {} /\ pass[d].at = "drop" /\ pass'[d].at = "withdraw") =>
            \A e \in Entries : grants'[e] # 0 => grants[e] # 0]_vars
=============================================================================
