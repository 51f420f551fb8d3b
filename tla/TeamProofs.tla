------------------------------ MODULE TeamProofs ------------------------------
(***************************************************************************)
(* Proofs about a team that shares entries and about an account's projects *)
(* and colors, for any number of users, devices, entries, projects,        *)
(* commands, epochs and failures.                                          *)
(*                                                                         *)
(* Nobody's entries reach a team without their say: what is granted was    *)
(* inserted by a pass of its author's, and a pass only gets past its first *)
(* step for an account that has the team among those it joined: marked     *)
(* when the team was created or an invitation accepted, or adopted once    *)
(* from the team's creator and its active members.                         *)
(*                                                                         *)
(* Who was removed is shown nothing granted since: grants are inserted     *)
(* under the epoch that is current then, whose key is wrapped by the       *)
(* removal that published it and by invitations alone.  The removal drops  *)
(* the row before it reads whom to wrap to, and an invitation plants one;  *)
(* and no command carries an epoch from before into the current one.       *)
(*                                                                         *)
(* Then the projects: what renaming and deleting one do to the entries and *)
(* to the shares (MCTeam's Renames), which of two color choices a sync     *)
(* leaves standing (its Colors), and the types of both and of the sharing  *)
(* they run with.                                                          *)
(***************************************************************************)
EXTENDS MCTeam, TLAPS
-----------------------------------------------------------------------------
(* Sharing *)


\* A pass has its fields, whatever they hold.
Whole(v) == v = [at |-> v.at, epoch |-> v.epoch, on |-> v.on, have |-> v.have, drop |-> v.drop,
                 mine |-> v.mine]

Shapes ==
    /\ members \in [Users -> {"none", "invited", "active"}]
    /\ pins \in [Users -> [joined : BOOLEAN, seeded : BOOLEAN]]
    /\ DOMAIN grants = Entries
    /\ DOMAIN pass = Devices /\ \A d \in Devices : Whole(pass[d])

MembersSaid == \A u \in Users : members[u] = "active" => u \in said
JoinedSaid == \A u \in Users : pins[u].joined => u \in said
CreatorSaid == team # "none" => Creator \in said
PassSaid ==
    \A d \in Devices :
        /\ pass[d].at = "seed" => team # "none"
        /\ pass[d].at \notin {"idle", "seed"} => Owner[d] \in said
        /\ \A e \in pass[d].mine : Author[e] = Owner[d]

ConsentInv ==
    /\ Shapes
    /\ Consent /\ MembersSaid /\ JoinedSaid /\ CreatorSaid /\ PassSaid

\* A team starts without members, grants or passes.
LEMMA ConsentInit == Init => ConsentInv
<1> SUFFICES ASSUME Init PROVE ConsentInv
  OBVIOUS
<1> USE SharingOwners, SharingEntries
<1>1. Shapes
  BY DEF Init, Shapes, Resting, Whole
<1>2. Consent /\ MembersSaid /\ JoinedSaid /\ CreatorSaid
  BY DEF Init, Consent, MembersSaid, JoinedSaid, CreatorSaid
<1>3. PassSaid
  BY DEF Init, PassSaid, Resting
<1> QED
  BY <1>1, <1>2, <1>3 DEF ConsentInv

\* Steps of the other parts: no member, pin, grant or pass is touched.
LEMMA Quiet ==
    ASSUME ConsentInv, UNCHANGED <<team, members, pins, grants, pass>>, said' = said
    PROVE  ConsentInv'
  BY DEF ConsentInv, Shapes, Consent, MembersSaid, JoinedSaid, CreatorSaid, PassSaid

\* Steps of one device's pass that grant nothing new: it keeps its entries, and
\* gets past its first step only for an account that has joined.
LEMMA PassMoves ==
    ASSUME ConsentInv, NEW d \in Devices,
           DOMAIN pass' = Devices, \A m \in Devices \ {d} : pass'[m] = pass[m],
           Whole(pass'[d]),
           pass'[d].at = "seed" => team # "none",
           pass'[d].at \notin {"idle", "seed"} => Owner[d] \in said,
           \A e \in pass'[d].mine : Author[e] = Owner[d],
           UNCHANGED <<team, members, said>>,
           pins' \in [Users -> [joined : BOOLEAN, seeded : BOOLEAN]], JoinedSaid',
           DOMAIN grants' = Entries,
           \A e \in Entries : grants'[e] # 0 => grants[e] # 0 \/ Author[e] \in said
    PROVE  ConsentInv'
<1>1. Shapes'
  BY DEF ConsentInv, Shapes
<1>2. Consent' /\ MembersSaid' /\ CreatorSaid'
  BY DEF ConsentInv, Consent, MembersSaid, CreatorSaid
<1>3. PassSaid'
  BY DEF ConsentInv, PassSaid, Shapes
<1> QED
  BY <1>1, <1>2, <1>3 DEF ConsentInv

\* A pass rewritten in one field or in two is a pass still.
LEMMA RewrittenOnce ==
    ASSUME NEW v, Whole(v), NEW i
    PROVE  /\ Whole([v EXCEPT !.at = i]) /\ [v EXCEPT !.at = i].at = i
           /\ [v EXCEPT !.at = i].mine = v.mine
           /\ Whole([v EXCEPT !.epoch = i]) /\ [v EXCEPT !.epoch = i].at = v.at
           /\ [v EXCEPT !.epoch = i].mine = v.mine
           /\ Whole([v EXCEPT !.on = i]) /\ [v EXCEPT !.on = i].at = v.at
           /\ [v EXCEPT !.on = i].mine = v.mine
           /\ Whole([v EXCEPT !.have = i]) /\ [v EXCEPT !.have = i].at = v.at
           /\ [v EXCEPT !.have = i].mine = v.mine
           /\ Whole([v EXCEPT !.drop = i]) /\ [v EXCEPT !.drop = i].at = v.at
           /\ [v EXCEPT !.drop = i].mine = v.mine
<1> DEFINE R(k, n, o, h, w) == [at |-> k, epoch |-> n, on |-> o, have |-> h, drop |-> w,
                                mine |-> v.mine]
<1>0. v = R(v.at, v.epoch, v.on, v.have, v.drop)
  BY DEF Whole
<1>1. [v EXCEPT !.at = i] = R(i, v.epoch, v.on, v.have, v.drop)
  BY <1>0
<1>2. [v EXCEPT !.epoch = i] = R(v.at, i, v.on, v.have, v.drop)
  BY <1>0
<1>3. [v EXCEPT !.on = i] = R(v.at, v.epoch, i, v.have, v.drop)
  BY <1>0
<1>4. [v EXCEPT !.have = i] = R(v.at, v.epoch, v.on, i, v.drop)
  BY <1>0
<1>5. [v EXCEPT !.drop = i] = R(v.at, v.epoch, v.on, v.have, i)
  BY <1>0
<1>6. \A k, n, o, h, w : /\ Whole(R(k, n, o, h, w)) /\ R(k, n, o, h, w).at = k
                         /\ R(k, n, o, h, w).mine = v.mine
  BY DEF Whole
<1> QED
  BY <1>1, <1>2, <1>3, <1>4, <1>5, <1>6

\* A pass past its first step, of an account that agreed.
Granting(d, v) ==
    /\ Whole(v) /\ v.at # "seed"
    /\ v.at # "idle" => Owner[d] \in said
    /\ \A e \in v.mine : Author[e] = Owner[d]

\* A pass moved to another step grants nothing more than it did.
LEMMA StepTo ==
    ASSUME ConsentInv, NEW d \in Devices, NEW v, Step(d, v), Granting(d, v)
    PROVE  /\ DOMAIN pass' = Devices /\ Granting(d, pass'[d])
           /\ \A m \in Devices \ {d} : pass'[m] = pass[m]
<1>1. DOMAIN pass' = Devices /\ pass'[d] = v
  BY DEF ConsentInv, Shapes, Step
<1>2. \A m \in Devices \ {d} : pass'[m] = pass[m]
  BY DEF ConsentInv, Shapes, Step
<1> QED
  BY <1>1, <1>2

\* A device whose pass has ended grants nothing.
LEMMA AtRest == ASSUME NEW d PROVE Granting(d, Resting)
  BY DEF Granting, Whole, Resting

\* The commands: each touches the roster, the pins or the team, or nothing here.
LEMMA TapConsent == ASSUME ConsentInv, NEW d \in Devices, Tap(d) PROVE ConsentInv'
<1> USE DEF Begin, Roster, Slices, Past
<1> SUFFICES UNCHANGED <<team, members, pins, grants, pass, said>>
  BY Quiet
<1>1. CASE CreateTap(d) \/ AcceptTap(d) \/ LeaveTap(d) \/ DeleteTap(d)
  BY <1>1 DEF CreateTap, AcceptTap, LeaveTap, DeleteTap
<1>2. CASE \E u \in Users : InviteTap(d, u) \/ RemoveTap(d, u)
  BY <1>2 DEF InviteTap, RemoveTap
<1>3. CASE \E on \in SUBSET Projects : SaveSharingTap(d, on)
  BY <1>3 DEF SaveSharingTap
<1>4. CASE \E v \in Projects : ProjectGone(d, v)
  BY <1>4 DEF ProjectGone
<1> QED
  BY <1>1, <1>2, <1>3, <1>4 DEF Tap

\* Creating the team makes its creator a member who has said so.
LEMMA CreateConsent == ASSUME ConsentInv, NEW d \in Devices, CreateTeam(d) PROVE ConsentInv'
<1> USE SharingOwners
<1>1. Shapes'
  <2>0. /\ members' = members \/ members' = [members EXCEPT ![Creator] = "active"]
        /\ pins' = pins \/ pins' = [pins EXCEPT ![Creator].joined = TRUE]
    BY DEF CreateTeam
  <2>1. members' \in [Users -> {"none", "invited", "active"}]
    BY <2>0 DEF ConsentInv, Shapes
  <2>2. pins' \in [Users -> [joined : BOOLEAN, seeded : BOOLEAN]]
    <3>1. pins[Creator] \in [joined : BOOLEAN, seeded : BOOLEAN]
      BY DEF ConsentInv, Shapes
    <3>2. [pins[Creator] EXCEPT !.joined = TRUE] \in [joined : BOOLEAN, seeded : BOOLEAN]
      BY <3>1
    <3>3. \/ pins' = pins
          \/ pins' = [pins EXCEPT ![Creator] = [pins[Creator] EXCEPT !.joined = TRUE]]
      BY <2>0
    <3> QED
      BY <3>2, <3>3, ZenonT(60) DEF ConsentInv, Shapes
  <2>3. UNCHANGED <<grants, pass>>
    BY DEF CreateTeam, Slices
  <2> QED
    BY <2>1, <2>2, <2>3 DEF ConsentInv, Shapes
<1>2. said \subseteq said' /\ Creator \in said'
  BY DEF ConsentInv, CreatorSaid, CreateTeam, Past
<1>3. \A u \in Users : members'[u] = "active" => members[u] = "active" \/ u = Creator
  BY DEF ConsentInv, Shapes, CreateTeam, Roster
<1>4. \A u \in Users : pins'[u].joined => pins[u].joined \/ u = Creator
  BY DEF ConsentInv, Shapes, CreateTeam, Roster
<1>5. UNCHANGED <<grants, pass>> /\ team' # "none"
  BY DEF CreateTeam, Slices, Roster
<1>6. Consent' /\ MembersSaid' /\ JoinedSaid' /\ CreatorSaid' /\ PassSaid'
  BY <1>2, <1>3, <1>4, <1>5 DEF ConsentInv, Consent, MembersSaid, JoinedSaid, CreatorSaid, PassSaid
<1> QED
  BY <1>1, <1>6 DEF ConsentInv

\* The requests of a command: members are added by the request that plants them,
\* and become active only by accepting.
LEMMA WorkConsent == ASSUME ConsentInv, NEW d \in Devices, Work(d) PROVE ConsentInv'
<1>1. CASE CreateTeam(d)
  BY <1>1, CreateConsent
<1>2. CASE Verify(d) \/ WrapToInvitee(d) \/ ReadRoster(d) \/ Publish(d) \/ WrapToMembers(d)
           \/ Refilter(d) \/ ReadShareRow(d) \/ WriteShare(d) \/ Refused(d)
           \/ \E to \in {{}} \cup {{v} : v \in Projects} : RewriteSharedProject(d, to)
  <2>1. UNCHANGED <<team, members, pins, grants, pass, said>>
    BY <1>2 DEF Verify, WrapToInvitee, ReadRoster, Publish, WrapToMembers, Refilter,
                ReadShareRow, WriteShare, Refused, RewriteSharedProject, Roster, Slices, Past
  <2> QED
    BY <2>1, Quiet
<1>3. CASE Plant(d) \/ Drop(d) \/ LeaveTeam(d)
  <2>1. UNCHANGED <<team, pins, grants, pass, said>>
    BY <1>3 DEF Plant, Drop, LeaveTeam, Slices, Past
  <2>2. /\ members' \in [Users -> {"none", "invited", "active"}]
        /\ \A u \in Users : members'[u] = "active" => members[u] = "active"
    BY <1>3 DEF Plant, Drop, LeaveTeam, ConsentInv, Shapes
  <2> QED
    BY <2>1, <2>2 DEF ConsentInv, Shapes, Consent, MembersSaid, JoinedSaid, CreatorSaid, PassSaid
<1>4. CASE AcceptInvite(d)
  <2>1. UNCHANGED <<team, grants, pass>> /\ said' = said \cup {Owner[d]}
    BY <1>4 DEF AcceptInvite, Slices
  <2>2. /\ members' \in [Users -> {"none", "invited", "active"}]
        /\ \A u \in Users : members'[u] = "active" => members[u] = "active" \/ u = Owner[d]
    BY <1>4, SharingOwners DEF AcceptInvite, ConsentInv, Shapes
  <2>3. /\ pins' \in [Users -> [joined : BOOLEAN, seeded : BOOLEAN]]
        /\ \A u \in Users : pins'[u].joined => pins[u].joined \/ u = Owner[d]
    BY <1>4, SharingOwners DEF AcceptInvite, ConsentInv, Shapes
  <2> QED
    BY <2>1, <2>2, <2>3 DEF ConsentInv, Shapes, Consent, MembersSaid, JoinedSaid, CreatorSaid, PassSaid
<1>5. CASE DeleteTeam(d)
  <2>1. UNCHANGED <<pins, pass, said>>
    BY <1>5 DEF DeleteTeam, Past
  <2>2. Shapes'
    BY <1>5, <2>1 DEF DeleteTeam, ConsentInv, Shapes
  <2>3. Consent' /\ MembersSaid' /\ JoinedSaid'
    BY <1>5, <2>1 DEF DeleteTeam, ConsentInv, Consent, MembersSaid, JoinedSaid
  <2>4. CreatorSaid' /\ PassSaid'
    BY <1>5, <2>1 DEF DeleteTeam, ConsentInv, CreatorSaid, PassSaid
  <2> QED
    BY <2>2, <2>3, <2>4 DEF ConsentInv
<1> QED
  BY <1>1, <1>2, <1>3, <1>4, <1>5 DEF Work

\* The pass that grants entries: it grants its owner's, once they have joined.
LEMMA PassConsent == ASSUME ConsentInv, NEW d \in Devices, PassStep(d) PROVE ConsentInv'
<1>0. /\ Whole(pass[d])
      /\ pass[d].at \notin {"idle", "seed"} => Owner[d] \in said
      /\ \A e \in pass[d].mine : Author[e] = Owner[d]
      /\ Owner[d] \in Users
      /\ pins \in [Users -> [joined : BOOLEAN, seeded : BOOLEAN]] /\ JoinedSaid
      /\ DOMAIN grants = Entries
  BY SharingOwners DEF ConsentInv, Shapes, PassSaid
<1>1. CASE SeedJoined(d)
  <2>1. /\ pins' \in [Users -> [joined : BOOLEAN, seeded : BOOLEAN]]
        /\ \A u \in Users : pins'[u].joined =>
              \/ pins[u].joined
              \/ u = Owner[d] /\ (u = Creator \/ members[u] = "active")
    BY <1>0, <1>1 DEF SeedJoined
  <2>2. UNCHANGED <<team, members, grants, said>> /\ pass[d].at = "seed"
    BY <1>1 DEF SeedJoined, Slices, Past
  <2>3. JoinedSaid'
    BY <1>0, <2>1, <2>2 DEF ConsentInv, JoinedSaid, MembersSaid, CreatorSaid, PassSaid
  <2>4. DOMAIN pass' = Devices /\ Granting(d, pass'[d]) /\ \A m \in Devices \ {d} : pass'[m] = pass[m]
    <3>1. CASE pins'[Owner[d]].joined
      <4>1. Step(d, [pass[d] EXCEPT !.at = "verify"])
        BY <1>1, <3>1 DEF SeedJoined
      <4>2. Owner[d] \in said
        BY <1>0, <2>2, <2>3, <3>1 DEF JoinedSaid
      <4>3. Granting(d, [pass[d] EXCEPT !.at = "verify"])
        BY <1>0, <4>2 DEF Granting, Whole
      <4> QED
        BY <4>1, <4>3, StepTo
    <3>2. CASE ~pins'[Owner[d]].joined
      <4>1. Step(d, Resting)
        BY <1>1, <3>2 DEF SeedJoined
      <4> QED
        BY <4>1, StepTo, AtRest
    <3> QED
      BY <3>1, <3>2
  <2> QED
    BY <1>0, <2>1, <2>2, <2>3, <2>4, PassMoves DEF Granting
<1>2. ASSUME ~SeedJoined(d)
      PROVE  /\ UNCHANGED <<team, members, pins, said>>
             /\ DOMAIN pass' = Devices /\ Granting(d, pass'[d])
             /\ \A m \in Devices \ {d} : pass'[m] = pass[m]
  <2>0. \/ Step(d, Resting)
        \/ /\ pass[d].at \notin {"idle", "seed"}
           /\ \/ Step(d, [pass[d] EXCEPT !.at = "filter", !.epoch = epochs])
              \/ \E on : Step(d, [pass[d] EXCEPT !.at = "grants", !.on = on])
              \/ \E have, drop : Step(d, [pass[d] EXCEPT !.at = "drop", !.have = have, !.drop = drop])
              \/ \E drop : Step(d, [pass[d] EXCEPT !.drop = drop])
              \/ Step(d, [pass[d] EXCEPT !.at = "withdraw"])
              \/ \E have : Step(d, [pass[d] EXCEPT !.have = have])
    <3>1. CASE PassVerify(d)
      BY <3>1 DEF PassVerify
    <3>2. CASE PassFilter(d)
      BY <3>2 DEF PassFilter
    <3>3. CASE PassGrants(d)
      BY <3>3 DEF PassGrants
    <3>4. CASE \E e \in Entries : DropStale(d, e)
      BY <3>4 DEF DropStale
    <3>5. CASE InsertGrants(d)
      BY <3>5 DEF InsertGrants
    <3>6. CASE Withdraw(d)
      BY <3>6 DEF Withdraw
    <3> QED
      BY <1>2, <3>1, <3>2, <3>3, <3>4, <3>5, <3>6 DEF PassStep
  <2>1. UNCHANGED <<team, members, pins, said>>
    BY <1>2 DEF PassStep, PassVerify, PassFilter, PassGrants, DropStale, InsertGrants, Withdraw,
                Roster, Past, Stay
  <2>2. PICK v : Step(d, v) /\ Granting(d, v)
    <3>1. CASE Step(d, Resting)
      BY <3>1, AtRest
    <3>2. ASSUME NEW at, NEW i, NEW j, at # "seed", pass[d].at \notin {"idle", "seed"}
          PROVE  /\ Granting(d, [pass[d] EXCEPT !.at = at])
                 /\ Granting(d, [pass[d] EXCEPT !.drop = i])
                 /\ Granting(d, [pass[d] EXCEPT !.have = i])
                 /\ Granting(d, [pass[d] EXCEPT !.at = at, !.epoch = i])
                 /\ Granting(d, [pass[d] EXCEPT !.at = at, !.on = i])
                 /\ Granting(d, [pass[d] EXCEPT !.at = at, !.have = i, !.drop = j])
      <4>1. PICK v : v = pass[d]
        OBVIOUS
      <4>2. PICK t : t = [v EXCEPT !.at = at]
        OBVIOUS
      <4>3. PICK r : r = [t EXCEPT !.have = i]
        OBVIOUS
      <4>4. /\ [v EXCEPT !.at = at, !.epoch = i] = [t EXCEPT !.epoch = i]
            /\ [v EXCEPT !.at = at, !.on = i] = [t EXCEPT !.on = i]
        BY <4>2
      <4>5. [v EXCEPT !.at = at, !.have = i, !.drop = j] = [r EXCEPT !.drop = j]
        BY <4>2, <4>3
      <4>6. Whole(v) /\ v.at \notin {"idle", "seed"} /\ v.mine = pass[d].mine
        BY <1>0, <3>2, <4>1
      <4>7. Whole(t) /\ t.at = at /\ t.mine = v.mine
        BY <4>2, <4>6, RewrittenOnce
      <4>8. Whole(r) /\ r.at = at /\ r.mine = v.mine
        BY <4>3, <4>7, RewrittenOnce, ZenonT(60)
      <4>9. Granting(d, t) /\ Granting(d, [t EXCEPT !.epoch = i]) /\ Granting(d, [t EXCEPT !.on = i])
        <5>1. /\ Whole([t EXCEPT !.epoch = i]) /\ [t EXCEPT !.epoch = i].at = at
              /\ [t EXCEPT !.epoch = i].mine = v.mine
          BY <4>7, RewrittenOnce
        <5>2. /\ Whole([t EXCEPT !.on = i]) /\ [t EXCEPT !.on = i].at = at
              /\ [t EXCEPT !.on = i].mine = v.mine
          BY <4>7, RewrittenOnce
        <5> QED
          BY <1>0, <3>2, <4>6, <4>7, <5>1, <5>2 DEF Granting
      <4>10. Granting(d, [v EXCEPT !.drop = i]) /\ Granting(d, [v EXCEPT !.have = i])
        BY <1>0, <3>2, <4>6, RewrittenOnce DEF Granting
      <4>11. Granting(d, [r EXCEPT !.drop = j])
        <5>1. /\ Whole([r EXCEPT !.drop = j]) /\ [r EXCEPT !.drop = j].at = at
              /\ [r EXCEPT !.drop = j].mine = v.mine
          BY <4>8, RewrittenOnce
        <5> QED
          BY <1>0, <3>2, <4>6, <5>1 DEF Granting
      <4> QED
        BY <4>1, <4>2, <4>4, <4>5, <4>9, <4>10, <4>11
    <3>3. CASE pass[d].at \notin {"idle", "seed"}
      <4>1. /\ Granting(d, [pass[d] EXCEPT !.at = "filter", !.epoch = epochs])
            /\ Granting(d, [pass[d] EXCEPT !.at = "withdraw"])
            /\ \A on : Granting(d, [pass[d] EXCEPT !.at = "grants", !.on = on])
        BY <3>2, <3>3
      <4>2. /\ \A have, drop : Granting(d, [pass[d] EXCEPT !.at = "drop", !.have = have, !.drop = drop])
            /\ \A drop : Granting(d, [pass[d] EXCEPT !.drop = drop])
            /\ \A have : Granting(d, [pass[d] EXCEPT !.have = have])
        BY <3>2, <3>3
      <4> QED
        BY <2>0, <3>1, <4>1, <4>2
    <3> QED
      BY <2>0, <3>1, <3>3
  <2> QED
    BY <2>1, <2>2, StepTo
<1>3. ASSUME ~SeedJoined(d)
      PROVE  /\ DOMAIN grants' = Entries
             /\ \A e \in Entries : grants'[e] # 0 => grants[e] # 0 \/ Author[e] \in said
  <2>1. CASE PassVerify(d) \/ PassFilter(d) \/ PassGrants(d)
    BY <1>0, <2>1 DEF PassVerify, PassFilter, PassGrants, Stay, Slices
  <2>2. CASE (\E e \in Entries : DropStale(d, e)) \/ Withdraw(d)
    BY <1>0, <2>2 DEF DropStale, Withdraw, Withdrawn
  <2>3. CASE InsertGrants(d)
    <3>1. \A e \in ToGrant(pass[d]) : Author[e] \in said
      BY <1>0, <2>3 DEF InsertGrants, ToGrant, Wanted
    <3> QED
      BY <1>0, <2>3, <3>1 DEF InsertGrants
  <2> QED
    BY <1>3, <2>1, <2>2, <2>3 DEF PassStep
<1>4. ASSUME ~SeedJoined(d) PROVE ConsentInv'
  <2>1. JoinedSaid' /\ pins' \in [Users -> [joined : BOOLEAN, seeded : BOOLEAN]]
    BY <1>0, <1>2, <1>4 DEF JoinedSaid
  <2> QED
    BY <1>0, <1>2, <1>3, <1>4, <2>1, PassMoves DEF Granting
<1> QED
  BY <1>1, <1>4

\* The inductive step over every action.
LEMMA NextConsent == ConsentInv /\ [Next]_vars => ConsentInv'
<1> SUFFICES ASSUME ConsentInv, [Next]_vars PROVE ConsentInv'
  OBVIOUS
<1>1. CASE UNCHANGED vars
  BY <1>1, Quiet DEF vars
<1>2. ASSUME NEW d \in Devices, ReconcileSoon(d) PROVE ConsentInv'
  <2> DEFINE ours == Live(Owner[d])
  <2>1. Step(d, [Resting EXCEPT !.at = "seed", !.mine = ours]) /\ \A e \in ours : Author[e] = Owner[d]
    BY <1>2 DEF ReconcileSoon, Live
  <2>2. /\ DOMAIN pass' = Devices /\ pass'[d] = [Resting EXCEPT !.at = "seed", !.mine = ours]
        /\ \A m \in Devices \ {d} : pass'[m] = pass[m]
    BY <2>1 DEF Step, ConsentInv, Shapes
  <2>3. Whole(pass'[d]) /\ pass'[d].at = "seed" /\ pass'[d].mine = ours
    BY <2>2 DEF Resting, Whole
  <2>4. UNCHANGED <<team, members, pins, grants, said>> /\ team # "none"
    BY <1>2 DEF ReconcileSoon, Stay, Roster, Slices, Past
  <2> QED
    BY <2>1, <2>2, <2>3, <2>4, PassMoves DEF ConsentInv, Shapes, JoinedSaid
<1>3. ASSUME NEW d \in Devices, PassFails(d) PROVE ConsentInv'
  <2>1. UNCHANGED <<team, members, pins, grants, said>> /\ Step(d, Resting)
    BY <1>3 DEF PassFails, Roster, Slices, Past
  <2>2. /\ DOMAIN pass' = Devices /\ Granting(d, pass'[d])
        /\ \A m \in Devices \ {d} : pass'[m] = pass[m]
    BY <2>1, StepTo, AtRest
  <2> QED
    BY <2>1, <2>2, PassMoves DEF Granting, ConsentInv, Shapes, JoinedSaid
<1>4. ASSUME NEW d \in Devices, Fail(d) \/ Refresh(d) PROVE ConsentInv'
  BY <1>4, Quiet DEF Fail, Refresh, Roster, Slices, Past
<1>5. ASSUME NEW e \in Entries, DeleteEntry(e) PROVE ConsentInv'
  BY <1>5, Quiet DEF DeleteEntry, Roster, Slices, Past
<1> QED
  BY <1>1, <1>2, <1>3, <1>4, <1>5, TapConsent, WorkConsent, PassConsent DEF Next

\* An entry is only ever granted to a team its author created or agreed to join.
THEOREM ConsentAlways == Spec => []Consent
<1>1. ConsentInv => Consent
  BY DEF ConsentInv
<1> QED
  BY <1>1, ConsentInit, NextConsent, PTL DEF Spec

-----------------------------------------------------------------------------
(* Who was removed sees nothing granted since *)

\* A command knows its epochs from the request that verified them on.
Rolls(o) ==
    \/ o.at \in {"plant", "drop", "roster", "publish", "refilter", "reshare", "read", "write"}
    \/ o.at = "wrap" /\ o.kind # "create"

\* What a command's step says of its kind, its subject and what it has gathered.
InStep(o) ==
    /\ o.at \in {"drop", "roster", "publish", "refilter", "reshare"} => o.kind = "remove"
    /\ o.at = "plant" => o.kind = "invite"
    /\ o.at = "wrap" => o.kind \in {"create", "invite", "remove"}
    /\ o.kind = "create" => o.at \in {"audience", "member", "epoch", "wrap"}
    /\ o.kind \in {"invite", "remove"} => o.who \in Users
    /\ o.kind = "remove" => o.who # Creator
    /\ o.at \in {"drop", "roster", "publish"} => o.epoch < MaxEpochs
    /\ o.at \in {"reshare", "write"} => o.row \in Devices
    /\ o.at \in {"publish", "wrap"} /\ o.kind = "remove" => o.todo \subseteq Users \ {o.who}
    /\ o.at \in {"plant", "wrap"} /\ o.kind = "invite" => o.todo \subseteq 1..o.epoch

\* The epochs it verified were published, and none is before the first.
Numbered(o) == Rolls(o) => team # "none" /\ o.epoch >= 1 /\ (team = "live" => o.epoch <= epochs)

\* The first epoch is published once.
Creates(o) ==
    o.kind = "create" =>
        /\ o.at \in {"audience", "member", "epoch"} => epochs = 0
        /\ o.at = "wrap" /\ team = "live" => epochs >= 1

\* The current epoch's key is about to be wrapped to nobody who was removed.
Spares(o) ==
    o.epoch = epochs =>
        /\ o.kind = "remove" /\ o.at \in {"publish", "wrap"} => o.todo \cap removed = {}
        /\ o.kind = "invite" /\ o.at = "wrap" => o.who \notin removed

Fine(o) == InStep(o) /\ Numbered(o) /\ Creates(o) /\ Spares(o)

OneCreates == \A d, m \in Devices : op[d].kind = "create" /\ op[m].kind = "create" => d = m
Unborn == team = "none" => epochs = 0
Keyed == keys \subseteq (1..epochs) \X Users
RemovedOut == removed \subseteq Users \ {Creator} /\ \A u \in removed : members[u] = "none"
RemovedDark == \A u \in removed : ~Holds(u, epochs)

RemovalInv ==
    /\ TypeOK
    /\ \A d \in Devices : Fine(op[d])
    /\ OneCreates /\ Unborn /\ Keyed /\ RemovedOut /\ RemovedDark

LEMMA RemovalInit == Init => RemovalInv
<1> SUFFICES ASSUME Init PROVE RemovalInv
  OBVIOUS
<1> USE SharingOwners, SharingEntries, SharingBounds
<1>1. Idle \in Commands /\ Resting \in Passes
  BY DEF Idle, Command, Commands, Resting, Passes
<1>2. TypeOK
  <2>1. op \in [Devices -> Commands] /\ pass \in [Devices -> Passes]
    BY <1>1 DEF Init
  <2>2. /\ members \in [Users -> {"none", "invited", "active"}]
        /\ pins \in [Users -> [joined : BOOLEAN, seeded : BOOLEAN]]
        /\ shares \in [Devices -> Rows \cup {None}]
        /\ grants \in [Entries -> 0..MaxEpochs]
        /\ {shown, held} \subseteq [Devices -> SUBSET Entries]
    BY DEF Init
  <2>3. team \in {"none", "live", "gone"} /\ epochs \in 0..MaxEpochs
    BY DEF Init
  <2>4. torn \in BOOLEAN
    BY Zenon DEF Init
  <2>5. keys = {} /\ dead = {} /\ said = {} /\ removed = {} /\ \A d \in Devices : held[d] = {}
    BY DEF Init
  <2> QED
    BY <2>1, <2>2, <2>3, <2>4, <2>5 DEF TypeOK
<1>3. \A d \in Devices : Fine(op[d])
  BY DEF Init, Idle, Command, Fine, InStep, Numbered, Rolls, Creates, Spares
<1>4. OneCreates /\ Unborn /\ Keyed /\ RemovedOut /\ RemovedDark
  BY DEF Init, Idle, Command, OneCreates, Unborn, Keyed, RemovedOut, RemovedDark, Holds
<1> QED
  BY <1>2, <1>3, <1>4 DEF RemovalInv

\* A command rewritten in one of its fields, or in two or three.
Reads(o, kind, whom, at, epoch, todo, on, row) ==
    /\ o.kind = kind /\ o.who = whom /\ o.at = at /\ o.epoch = epoch
    /\ o.todo = todo /\ o.on = on /\ o.row = row

LEMMA CommandFields ==
    ASSUME NEW o \in Commands, NEW i, NEW j, NEW z
    PROVE  /\ Reads([o EXCEPT !.at = i], o.kind, o.who, i, o.epoch, o.todo, o.on, o.row)
           /\ Reads([o EXCEPT !.todo = i], o.kind, o.who, o.at, o.epoch, i, o.on, o.row)
           /\ Reads([o EXCEPT !.at = i, !.todo = j], o.kind, o.who, i, o.epoch, j, o.on, o.row)
           /\ Reads([o EXCEPT !.at = i, !.row = j], o.kind, o.who, i, o.epoch, o.todo, o.on, j)
           /\ Reads([o EXCEPT !.epoch = i, !.at = j], o.kind, o.who, j, i, o.todo, o.on, o.row)
           /\ Reads([o EXCEPT !.at = i, !.row = j, !.on = z],
                    o.kind, o.who, i, o.epoch, o.todo, z, j)
           /\ Reads([o EXCEPT !.epoch = i, !.todo = j, !.at = z],
                    o.kind, o.who, z, i, j, o.on, o.row)
<1>1. /\ Reads([o EXCEPT !.at = i], o.kind, o.who, i, o.epoch, o.todo, o.on, o.row)
      /\ Reads([o EXCEPT !.todo = i], o.kind, o.who, o.at, o.epoch, i, o.on, o.row)
  BY DEF Commands, Reads
<1>2. Reads([o EXCEPT !.at = i, !.todo = j], o.kind, o.who, i, o.epoch, j, o.on, o.row)
  BY DEF Commands, Reads
<1>3. Reads([o EXCEPT !.at = i, !.row = j], o.kind, o.who, i, o.epoch, o.todo, o.on, j)
  BY DEF Commands, Reads
<1>4. Reads([o EXCEPT !.epoch = i, !.at = j], o.kind, o.who, j, i, o.todo, o.on, o.row)
  BY DEF Commands, Reads
<1>5. Reads([o EXCEPT !.at = i, !.row = j, !.on = z],
            o.kind, o.who, i, o.epoch, o.todo, z, j)
  BY DEF Commands, Reads
<1>6. Reads([o EXCEPT !.epoch = i, !.todo = j, !.at = z],
            o.kind, o.who, z, i, j, o.on, o.row)
  BY DEF Commands, Reads
<1> QED
  BY <1>1, <1>2, <1>3, <1>4, <1>5, <1>6

Places == {"idle", "audience", "member", "epoch", "wrap", "verify", "plant", "drop", "roster",
           "publish", "refilter", "reshare", "read", "write", "list", "patch", "leave", "delete"}
Kinds == {"none", "create", "invite", "remove", "share", "accept", "leave", "delete", "rewrite"}

LEMMA CommandTyped ==
    ASSUME NEW o \in Commands, NEW at \in Places, NEW epoch \in 0..MaxEpochs,
           NEW todo \in SUBSET (Users \cup (1..MaxEpochs)), NEW on \in SUBSET Projects,
           NEW row \in Devices \cup {None}
    PROVE  /\ [o EXCEPT !.at = at] \in Commands
           /\ [o EXCEPT !.todo = todo] \in Commands
           /\ [o EXCEPT !.at = at, !.todo = todo] \in Commands
           /\ [o EXCEPT !.at = at, !.row = row] \in Commands
           /\ [o EXCEPT !.epoch = epoch, !.at = at] \in Commands
           /\ [o EXCEPT !.at = at, !.row = row, !.on = on] \in Commands
           /\ [o EXCEPT !.epoch = epoch, !.todo = todo, !.at = at] \in Commands
<1>1. [o EXCEPT !.at = at] \in Commands /\ [o EXCEPT !.todo = todo] \in Commands
  BY DEF Commands, Places
<1>2. [o EXCEPT !.at = at, !.todo = todo] \in Commands
  BY DEF Commands, Places
<1>3. [o EXCEPT !.at = at, !.row = row] \in Commands
  BY DEF Commands, Places
<1>4. [o EXCEPT !.epoch = epoch, !.at = at] \in Commands
  BY DEF Commands, Places
<1>5. [o EXCEPT !.at = at, !.row = row, !.on = on] \in Commands
  BY DEF Commands, Places
<1>6. [o EXCEPT !.epoch = epoch, !.todo = todo, !.at = at] \in Commands
  BY DEF Commands, Places
<1> QED
  BY <1>1, <1>2, <1>3, <1>4, <1>5, <1>6

LEMMA CommandAt ==
    ASSUME NEW o \in Commands, NEW at \in Places
    PROVE  /\ [o EXCEPT !.at = at] \in Commands
           /\ Reads([o EXCEPT !.at = at], o.kind, o.who, at, o.epoch, o.todo, o.on, o.row)
<1>1. [o EXCEPT !.at = at] \in Commands
  BY DEF Commands, Places
<1> QED
  BY <1>1, CommandFields

LEMMA NewCommandTyped ==
    ASSUME NEW kind \in Kinds, NEW at \in Places, NEW whom \in Users \cup {None},
           NEW on \in SUBSET Projects
    PROVE  /\ Command(kind, at, whom, on) \in Commands /\ Idle \in Commands
           /\ Reads(Command(kind, at, whom, on), kind, whom, at, 0, {}, on, None)
           /\ Reads(Idle, "none", None, "idle", 0, {}, {}, None)
  BY SharingBounds DEF Idle, Command, Commands, Reads, Places, Kinds

\* A step that rewrites one device's command and nothing the invariant relates
\* it to.
LEMMA CommandMoves ==
    ASSUME RemovalInv, TypeOK', NEW d \in Devices, NEW o, op' = [op EXCEPT ![d] = o], Fine(o),
           o.kind = "create" => \A m \in Devices : op[m].kind = "create" => m = d,
           UNCHANGED <<team, members, epochs, keys, removed>>
    PROVE  RemovalInv'
<1>1. op'[d] = o /\ \A m \in Devices \ {d} : op'[m] = op[m]
  BY DEF RemovalInv, TypeOK
<1>2. \A m \in Devices : Fine(op[m])
  BY DEF RemovalInv
<1>3. \A m \in Devices : Fine(op[m])'
  BY <1>1, <1>2 DEF Fine, InStep, Numbered, Rolls, Creates, Spares
<1>4. OneCreates'
  BY <1>1 DEF RemovalInv, OneCreates
<1>5. Unborn' /\ Keyed' /\ RemovedOut' /\ RemovedDark'
  BY DEF RemovalInv, Unborn, Keyed, RemovedOut, RemovedDark, Holds
<1> QED
  BY <1>3, <1>4, <1>5 DEF RemovalInv

\* A step that touches nothing of it.
LEMMA CommandsStand ==
    ASSUME RemovalInv, TypeOK', UNCHANGED <<team, members, epochs, keys, removed, op>>
    PROVE  RemovalInv'
  BY DEF RemovalInv, Fine, InStep, Numbered, Rolls, Creates, Spares, OneCreates, Unborn, Keyed,
         RemovedOut, RemovedDark, Holds

\* One device's command goes on, and nothing else that is typed changes.
LEMMA CommandTypes ==
    ASSUME TypeOK, NEW d \in Devices, NEW o \in Commands, Does(d, o)
    PROVE  op' \in [Devices -> Commands] /\ op'[d] = o
  BY DEF TypeOK, Does

LEMMA CommandGoesOn ==
    ASSUME RemovalInv, NEW d \in Devices, NEW o \in Commands, Does(d, o), Fine(o),
           o.kind = "create" => \A m \in Devices : op[m].kind = "create" => m = d,
           UNCHANGED <<Roster, Chain, Slices, dead, pass, Views, Past>>, torn' \in BOOLEAN
    PROVE  RemovalInv'
<1>1. TypeOK
  BY DEF RemovalInv
<1>2. UNCHANGED <<team, members, pins, epochs, keys, shares, grants, dead, pass, shown, held,
                  said, removed>>
  BY DEF Roster, Chain, Slices, Views, Past
<1>3. op' \in [Devices -> Commands]
  BY <1>1, CommandTypes
<1>4. TypeOK'
  BY <1>1, <1>2, <1>3 DEF TypeOK, Passes, Rows
<1> QED
  BY <1>2, <1>4, CommandMoves DEF Does

\* A command that has ended relates to nothing.
LEMMA IdleFine == Fine(Idle) /\ Idle.kind # "create"
  BY DEF Fine, InStep, Numbered, Rolls, Creates, Spares, Idle, Command

LEMMA IdleTyped == Idle \in Commands
  BY NewCommandTyped, SMTT(60) DEF Idle, Kinds, Places

LEMMA CommandEnds ==
    ASSUME RemovalInv, NEW d \in Devices, End(d),
           UNCHANGED <<Roster, Chain, Slices, dead, pass, Views, Past>>, torn' \in BOOLEAN
    PROVE  RemovalInv'
  BY IdleTyped, IdleFine, CommandGoesOn DEF End

\* The taps: a command begins at its first step, having gathered nothing.
LEMMA BeginsFine ==
    ASSUME RemovalInv, NEW d \in Devices,
           NEW kind \in {"create", "invite", "remove", "share", "accept", "leave", "delete", "rewrite"},
           NEW first \in {"audience", "verify", "patch", "leave", "delete", "list"},
           NEW u \in Users \cup {None}, NEW on \in SUBSET Projects, Begin(d, kind, first, u, on),
           kind = "create" => first = "audience" /\ team = "none" /\ \A m \in Devices : op[m].kind # "create",
           kind \in {"invite", "remove"} => u \in Users,
           kind = "remove" => u # Creator
    PROVE  RemovalInv'
<1>1. PICK o \in Commands : Does(d, o) /\ Reads(o, kind, u, first, 0, {}, on, None)
  BY NewCommandTyped DEF Begin, Kinds, Places
<1>2. Fine(o)
  BY <1>1 DEF Reads, RemovalInv, Unborn, Fine, InStep, Numbered, Rolls, Creates, Spares
<1>3. o.kind = "create" => \A m \in Devices : op[m].kind = "create" => m = d
  BY <1>1 DEF Reads
<1>4. UNCHANGED <<Roster, Chain, Slices, dead, pass, Views, Past>>
  BY DEF Begin
<1>5. torn' \in BOOLEAN
  BY Zenon DEF Begin
<1> QED
  BY <1>1, <1>2, <1>3, <1>4, <1>5, CommandGoesOn

LEMMA TapRemoval == ASSUME RemovalInv, NEW d \in Devices, Tap(d) PROVE RemovalInv'
<1>1. CASE CreateTap(d)
  BY <1>1, BeginsFine DEF CreateTap, CreateOffered
<1>2. CASE AcceptTap(d)
  BY <1>2, BeginsFine DEF AcceptTap
<1>3. CASE LeaveTap(d)
  BY <1>3, BeginsFine DEF LeaveTap
<1>4. CASE DeleteTap(d)
  BY <1>4, BeginsFine DEF DeleteTap
<1>5. ASSUME NEW u \in Users, InviteTap(d, u) PROVE RemovalInv'
  BY <1>5, BeginsFine DEF InviteTap
<1>6. ASSUME NEW u \in Users, RemoveTap(d, u) PROVE RemovalInv'
  BY <1>6, BeginsFine DEF RemoveTap, PeopleOffers, Admin
<1>7. ASSUME NEW on \in SUBSET Projects, SaveSharingTap(d, on) PROVE RemovalInv'
  BY <1>7, BeginsFine DEF SaveSharingTap
<1>8. ASSUME NEW v \in Projects, ProjectGone(d, v) PROVE RemovalInv'
  BY <1>8, BeginsFine DEF ProjectGone
<1> QED
  BY <1>1, <1>2, <1>3, <1>4, <1>5, <1>6, <1>7, <1>8 DEF Tap

\* The requests that only read, and those the server refuses.
LEMMA ReadsFine ==
    ASSUME RemovalInv, NEW d \in Devices,
           \/ Verify(d) \/ ReadRoster(d) \/ Refilter(d) \/ ReadShareRow(d) \/ Refused(d) \/ Fail(d)
           \/ \E to \in {{}} \cup {{v} : v \in Projects} : RewriteSharedProject(d, to)
    PROVE  RemovalInv'
<1>0. /\ TypeOK /\ op[d] \in Commands /\ Fine(op[d]) /\ epochs \in 0..MaxEpochs
      /\ MaxEpochs \in Nat \ {0}
      /\ \A s \in Devices : shares[s] # None => shares[s].on \in SUBSET Projects
      /\ \A u \in removed : members[u] = "none"
      /\ removed \subseteq Users
  BY SharingBounds DEF RemovalInv, TypeOK, Rows, RemovedOut
<1>1. UNCHANGED <<Roster, Chain, Slices, dead, pass, Views, Past>>
  BY DEF Verify, ReadRoster, Refilter, ReadShareRow, Refused, Fail, RewriteSharedProject
<1>2. torn' \in BOOLEAN
  <2>1. torn \in BOOLEAN
    BY <1>0 DEF TypeOK
  <2>2. torn' = torn \/ CutShort(d)
    BY DEF Verify, ReadRoster, Refilter, ReadShareRow, Refused, Fail, RewriteSharedProject
  <2>3. CutShort(d) => torn' \in BOOLEAN
    BY Zenon DEF CutShort
  <2> QED
    BY <2>1, <2>2, <2>3
<1>3. CASE End(d)
  BY <1>1, <1>2, <1>3, CommandEnds
<1>4. CASE Refused(d) \/ Fail(d)
  BY <1>3, <1>4 DEF Refused, Fail, CutShort
<1>5. CASE Verify(d)
  <2> DEFINE todo == IF op[d].kind = "invite" THEN 1..epochs ELSE {}
             at == CASE op[d].kind = "invite" -> "plant"
                     [] op[d].kind = "remove" -> "drop"
                     [] OTHER -> "read"
             o == [op[d] EXCEPT !.epoch = epochs, !.todo = todo, !.at = at]
  <2>1. /\ Does(d, o) /\ op[d].at = "verify" /\ epochs >= 1 /\ team = "live"
        /\ op[d].kind = "remove" => epochs < MaxEpochs
    BY <1>0, <1>5 DEF Verify, VerifiedEpochs, Member
  <2>2. at \in {"plant", "drop", "read"} /\ todo \in SUBSET (Users \cup (1..MaxEpochs))
    BY <1>0
  <2>3. o \in Commands /\ Reads(o, op[d].kind, op[d].who, at, epochs, todo, op[d].on, op[d].row)
    <3> HIDE DEF at, todo
    <3> QED
      BY <1>0, <2>2, CommandTyped, CommandFields DEF Places
  <2>4. Fine(o) /\ o.kind # "create"
    <3>1. /\ op[d].kind = "invite" => at = "plant" /\ todo = 1..epochs
          /\ op[d].kind = "remove" => at = "drop"
          /\ op[d].kind # "invite" /\ op[d].kind # "remove" => at = "read"
      OBVIOUS
    <3>2. op[d].kind # "create" /\ InStep(op[d])
      BY <1>0, <2>1 DEF Fine, InStep
    <3> HIDE DEF at, todo, o
    <3> QED
      BY <1>0, <2>1, <2>2, <2>3, <3>1, <3>2
      DEF Reads, Fine, InStep, Numbered, Rolls, Creates, Spares
  <2> HIDE DEF o
  <2> QED
    BY <1>1, <1>2, <2>1, <2>3, <2>4, CommandGoesOn
<1>6. CASE ReadRoster(d)
  <2> DEFINE todo == {u \in Users : members[u] # "none"} \ {op[d].who}
             o == [op[d] EXCEPT !.at = "publish", !.todo = todo]
  <2>1. Does(d, o) /\ op[d].at = "roster"
    BY <1>6 DEF ReadRoster
  <2>2. todo \subseteq Users \ {op[d].who} /\ todo \cap removed = {}
    BY <1>0
  <2>3. o \in Commands /\ Reads(o, op[d].kind, op[d].who, "publish", op[d].epoch, todo, op[d].on, op[d].row)
    <3> HIDE DEF todo
    <3> QED
      BY <1>0, <2>2, CommandTyped, CommandFields DEF Places
  <2>4. Fine(o) /\ o.kind # "create"
    <3> HIDE DEF todo, o
    <3> QED
      BY <1>0, <2>1, <2>2, <2>3 DEF Reads, Fine, InStep, Numbered, Rolls, Creates, Spares
  <2> HIDE DEF o
  <2> QED
    BY <1>1, <1>2, <2>1, <2>3, <2>4, CommandGoesOn
<1>7. ASSUME Refilter(d), NEW s \in Devices, shares[s] # None,
             Does(d, [op[d] EXCEPT !.at = "reshare", !.row = s, !.on = shares[s].on])
      PROVE  RemovalInv'
  <2> DEFINE o == [op[d] EXCEPT !.at = "reshare", !.row = s, !.on = shares[s].on]
  <2>1. Does(d, o) /\ op[d].at = "refilter"
    BY <1>7 DEF Refilter
  <2>2. o \in Commands /\ Reads(o, op[d].kind, op[d].who, "reshare", op[d].epoch, op[d].todo, shares[s].on, s)
    BY <1>0, <1>7, CommandTyped, CommandFields, ZenonT(60) DEF Places
  <2>3. Fine(o) /\ o.kind # "create"
    <3> HIDE DEF o
    <3> QED
      BY <1>0, <2>1, <2>2 DEF Reads, Fine, InStep, Numbered, Rolls, Creates, Spares
  <2> HIDE DEF o
  <2> QED
    BY <1>1, <1>2, <2>1, <2>2, <2>3, CommandGoesOn
<1>8. ASSUME ReadShareRow(d), NEW s \in Devices,
             Does(d, [op[d] EXCEPT !.at = "write", !.row = s])
      PROVE  RemovalInv'
  <2> DEFINE o == [op[d] EXCEPT !.at = "write", !.row = s]
  <2>1. Does(d, o) /\ op[d].at = "read"
    BY <1>8 DEF ReadShareRow
  <2>2. o \in Commands /\ Reads(o, op[d].kind, op[d].who, "write", op[d].epoch, op[d].todo, op[d].on, s)
    BY <1>0, CommandTyped, CommandFields DEF Places
  <2>3. Fine(o) /\ o.kind # "create"
    <3> HIDE DEF o
    <3> QED
      BY <1>0, <2>1, <2>2 DEF Reads, Fine, InStep, Numbered, Rolls, Creates, Spares
  <2> HIDE DEF o
  <2> QED
    BY <1>1, <1>2, <2>1, <2>2, <2>3, CommandGoesOn
<1>9. ASSUME NEW on \in SUBSET Projects, Does(d, Command("share", "verify", None, on))
      PROVE  RemovalInv'
  <2> DEFINE o == Command("share", "verify", None, on)
  <2>1. o \in Commands /\ Reads(o, "share", None, "verify", 0, {}, on, None)
    BY NewCommandTyped DEF Kinds, Places
  <2>2. Fine(o) /\ o.kind # "create"
    <3> HIDE DEF o
    <3> QED
      BY <2>1 DEF Reads, Fine, InStep, Numbered, Rolls, Creates, Spares
  <2> HIDE DEF o
  <2> QED
    BY <1>1, <1>2, <1>9, <2>1, <2>2, CommandGoesOn DEF o
<1>10. CASE Refilter(d)
  BY <1>3, <1>7, <1>10 DEF Refilter, ReadsRow
<1>11. CASE ReadShareRow(d)
  BY <1>8, <1>11 DEF ReadShareRow, ReadsRow
<1>12. ASSUME NEW to \in {{}} \cup {{v} : v \in Projects}, RewriteSharedProject(d, to)
       PROVE  RemovalInv'
  <2>1. ASSUME NEW s \in Devices, shares[s] # None
        PROVE  (shares[s].on \ op[d].on) \cup (to \ op[d].on) \in SUBSET Projects
    BY <1>0, <2>1
  <2> QED
    BY <1>3, <1>9, <1>12, <2>1 DEF RewriteSharedProject, ReadsRow
<1> QED
  BY <1>4, <1>5, <1>6, <1>10, <1>11, <1>12

\* The team's own rows.
LEMMA CreateRemoval == ASSUME RemovalInv, NEW d \in Devices, CreateTeam(d) PROVE RemovalInv'
<1>0. /\ TypeOK /\ op[d] \in Commands /\ op[d].kind = "create" /\ Creator \in Users
      /\ MaxEpochs \in Nat \ {0} /\ Creator \notin removed /\ Fine(op[d])
      /\ \A m \in Devices : op[m].kind = "create" => m = d
      /\ \A m \in Devices : Fine(op[m])
  BY SharingBounds, SharingOwners DEF CreateTeam, RemovalInv, TypeOK, OneCreates, RemovedOut
<1> DEFINE o(at) == [op[d] EXCEPT !.at = at]
<1> HIDE DEF o
<1>1. ASSUME NEW at \in Places
      PROVE  /\ o(at) \in Commands
             /\ Reads(o(at), "create", op[d].who, at, op[d].epoch, op[d].todo, op[d].on, op[d].row)
  BY <1>0, <1>1, CommandAt DEF o
<1>2. UNCHANGED <<shares, grants, dead, pass, shown, held, removed, torn>>
  BY DEF CreateTeam, Views
<1>3. CASE op[d].at = "audience" /\ team = "none" /\ team' = "live" /\ Does(d, o("member"))
           /\ said' = said \cup {Creator} /\ UNCHANGED <<members, pins, epochs, keys>>
  <2>1. op' \in [Devices -> Commands] /\ op'[d] = o("member") /\ \A m \in Devices \ {d} : op'[m] = op[m]
    BY <1>0, <1>1, <1>3 DEF Does, Places, TypeOK
  <2>2. TypeOK'
    BY <1>0, <1>2, <1>3, <2>1 DEF TypeOK, Passes, Rows
  <2>3. epochs = 0
    BY <1>0, <1>3 DEF Fine, Creates
  <2>4. \A m \in Devices : Fine(op[m])'
    BY <1>0, <1>1, <1>2, <1>3, <2>1, <2>3, SMTT(60)
    DEF Places, Reads, Fine, InStep, Numbered, Rolls, Creates, Spares
  <2> QED
    BY <1>0, <1>1, <1>2, <1>3, <2>1, <2>2, <2>4
    DEF Places, Reads, RemovalInv, OneCreates, Unborn, Keyed, RemovedOut, RemovedDark, Holds
<1>4. CASE op[d].at = "member" /\ team = "live" /\ members' = [members EXCEPT ![Creator] = "active"]
           /\ Does(d, o("epoch")) /\ UNCHANGED <<team, pins, epochs, keys, said>>
  <2>1. op' \in [Devices -> Commands] /\ op'[d] = o("epoch") /\ \A m \in Devices \ {d} : op'[m] = op[m]
    BY <1>0, <1>1, <1>4 DEF Does, Places, TypeOK
  <2>2. TypeOK'
    BY <1>0, <1>2, <1>4, <2>1 DEF TypeOK, Passes, Rows
  <2>3. epochs = 0
    BY <1>0, <1>4 DEF Fine, Creates
  <2>4. \A m \in Devices : Fine(op[m])'
    BY <1>0, <1>1, <1>2, <1>4, <2>1, <2>3, SMTT(60)
    DEF Places, Reads, Fine, InStep, Numbered, Rolls, Creates, Spares
  <2>5. RemovedOut'
    BY <1>0, <1>2, <1>4 DEF RemovalInv, RemovedOut, TypeOK
  <2> QED
    BY <1>0, <1>1, <1>2, <1>4, <2>1, <2>2, <2>4, <2>5
    DEF Places, Reads, RemovalInv, OneCreates, Unborn, Keyed, RemovedDark, Holds
<1>5. CASE op[d].at = "epoch" /\ team = "live" /\ epochs' = 1 /\ Does(d, o("wrap"))
           /\ UNCHANGED <<team, members, pins, keys, said>>
  <2>1. op' \in [Devices -> Commands] /\ op'[d] = o("wrap") /\ \A m \in Devices \ {d} : op'[m] = op[m]
    BY <1>0, <1>1, <1>5 DEF Does, Places, TypeOK
  <2>2. TypeOK'
    BY <1>0, <1>2, <1>5, <2>1 DEF TypeOK, Passes, Rows
  <2>3. epochs = 0 /\ keys = {}
    BY <1>0, <1>5 DEF Fine, Creates, RemovalInv, Keyed
  <2>4. ASSUME NEW m \in Devices PROVE Fine(op[m])'
    <3>1. CASE m = d
      BY <1>0, <1>1, <1>2, <1>5, <2>1, <3>1, SMTT(60)
      DEF Places, Reads, Fine, InStep, Numbered, Rolls, Creates, Spares
    <3>2. CASE m # d
      <4>1. op'[m] = op[m] /\ op[m].kind # "create" /\ Fine(op[m])
        BY <1>0, <2>1, <3>2
      <4>2. ~Rolls(op[m])
        BY <4>1, <1>5, <2>3, <1>0 DEF Fine, Numbered, TypeOK, Commands
      <4> QED
        BY <4>1, <4>2, <1>2 DEF Fine, InStep, Numbered, Rolls, Creates, Spares
    <3> QED
      BY <3>1, <3>2
  <2> QED
    BY <1>0, <1>1, <1>2, <1>5, <2>1, <2>2, <2>3, <2>4
    DEF Places, Reads, RemovalInv, OneCreates, Unborn, Keyed, RemovedOut, RemovedDark, Holds
<1>6. CASE op[d].at = "wrap" /\ team = "live" /\ keys' = keys \cup {<<1, Creator>>} /\ End(d)
           /\ pins' = [pins EXCEPT ![Creator].joined = TRUE] /\ UNCHANGED <<team, members, epochs, said>>
  <2>0. epochs >= 1 /\ epochs \in 0..MaxEpochs
    BY <1>0, <1>6 DEF Fine, Creates, TypeOK
  <2>1. op' \in [Devices -> Commands] /\ op'[d] = Idle /\ \A m \in Devices \ {d} : op'[m] = op[m]
    BY <1>0, <1>6, IdleTyped DEF Does, End, TypeOK
  <2>2. TypeOK'
    <3>1. pins' \in [Users -> [joined : BOOLEAN, seeded : BOOLEAN]]
      <4>1. pins[Creator] \in [joined : BOOLEAN, seeded : BOOLEAN]
        BY <1>0 DEF TypeOK
      <4>2. [pins[Creator] EXCEPT !.joined = TRUE] \in [joined : BOOLEAN, seeded : BOOLEAN]
        BY <4>1
      <4>3. pins' = [pins EXCEPT ![Creator] = [pins[Creator] EXCEPT !.joined = TRUE]]
        BY <1>6
      <4> QED
        BY <1>0, <4>2, <4>3 DEF TypeOK
    <3>2. keys' \subseteq (1..MaxEpochs) \X Users
      BY <1>0, <1>6 DEF TypeOK
    <3> QED
      BY <1>0, <1>2, <1>6, <2>1, <3>1, <3>2 DEF TypeOK, Passes, Rows
  <2>3. \A m \in Devices : Fine(op[m])'
    BY <1>0, <1>2, <1>6, <2>1, IdleFine
    DEF Fine, InStep, Numbered, Rolls, Creates, Spares
  <2>4. Keyed' /\ RemovedDark'
    BY <1>0, <1>2, <1>6, <2>0 DEF RemovalInv, Keyed, RemovedDark, Holds
  <2> QED
    BY <1>0, <1>2, <1>6, <2>1, <2>2, <2>3, <2>4, IdleFine
    DEF RemovalInv, OneCreates, Unborn, RemovedOut
<1> QED
  BY <1>3, <1>4, <1>5, <1>6 DEF CreateTeam, To, o
LEMMA MembersRemoval ==
    ASSUME RemovalInv, NEW d \in Devices, Plant(d) \/ Drop(d) \/ AcceptInvite(d) \/ LeaveTeam(d)
    PROVE  RemovalInv'
<1>0. /\ TypeOK /\ op[d] \in Commands /\ Fine(op[d]) /\ Owner[d] \in Users
      /\ \A m \in Devices : Fine(op[m])
  BY SharingOwners DEF RemovalInv, TypeOK
<1>1. UNCHANGED <<team, epochs, keys, shares, grants, dead, pass, shown, held, torn>>
  BY DEF Plant, Drop, AcceptInvite, LeaveTeam, Chain, Slices, Views
<1>2. PICK o \in Commands :
         /\ Does(d, o) /\ InStep(o) /\ Numbered(o) /\ Creates(o)
         /\ o.kind = "create" => op[d].kind = "create"
         /\ \/ Plant(d) /\ o.at = "wrap" /\ o.kind = "invite" /\ o.who = op[d].who
            \/ ~Plant(d) /\ o.at \in {"idle", "roster"}
  <2>1. CASE Plant(d)
    <3> DEFINE o == [op[d] EXCEPT !.at = "wrap"]
    <3>1. /\ o \in Commands
          /\ Reads(o, op[d].kind, op[d].who, "wrap", op[d].epoch, op[d].todo, op[d].on, op[d].row)
      BY <1>0, CommandAt DEF Places
    <3>2. Does(d, o) /\ op[d].at = "plant" /\ op[d].kind = "invite"
      BY <2>1 DEF Plant, To
    <3>3. /\ InStep(o) /\ Numbered(o) /\ Creates(o) /\ o.kind # "create"
          /\ o.at = "wrap" /\ o.kind = "invite" /\ o.who = op[d].who
      <4> HIDE DEF o
      <4> QED
        BY <1>0, <3>1, <3>2 DEF Reads, Fine, InStep, Numbered, Rolls, Creates
    <3> HIDE DEF o
    <3> QED
      BY <2>1, <3>1, <3>2, <3>3
  <2>2. CASE Drop(d)
    <3> DEFINE o == [op[d] EXCEPT !.at = "roster"]
    <3>1. /\ o \in Commands
          /\ Reads(o, op[d].kind, op[d].who, "roster", op[d].epoch, op[d].todo, op[d].on, op[d].row)
      BY <1>0, CommandAt DEF Places
    <3>2. Does(d, o) /\ op[d].at = "drop"
      BY <2>2 DEF Drop, To
    <3>3. ~Plant(d)
      BY <3>2 DEF Plant
    <3>4. InStep(o) /\ Numbered(o) /\ Creates(o) /\ o.kind # "create" /\ o.at = "roster"
      <4> HIDE DEF o
      <4> QED
        BY <1>0, <3>1, <3>2 DEF Reads, Fine, InStep, Numbered, Rolls, Creates
    <3> HIDE DEF o
    <3> QED
      BY <3>1, <3>2, <3>3, <3>4
  <2>3. CASE AcceptInvite(d) \/ LeaveTeam(d)
    <3>1. Does(d, Idle) /\ ~Plant(d)
      BY <2>3 DEF AcceptInvite, LeaveTeam, End, Plant
    <3>2. Fine(Idle) /\ Idle.kind # "create" /\ Idle.at = "idle"
      BY IdleFine DEF Idle, Command
    <3> HIDE DEF Idle
    <3> QED
      BY <3>1, <3>2, IdleTyped DEF Fine
  <2> QED
    BY <2>1, <2>2, <2>3
<1>3. op' \in [Devices -> Commands] /\ op'[d] = o /\ \A m \in Devices \ {d} : op'[m] = op[m]
  BY <1>0, <1>2 DEF Does, TypeOK
<1>4. /\ members' \in [Users -> {"none", "invited", "active"}] /\ said' \subseteq Users
      /\ removed' \subseteq removed /\ \A u \in removed' : members'[u] = "none"
      /\ Plant(d) => op[d].who \notin removed'
  <2>1. /\ members \in [Users -> {"none", "invited", "active"}] /\ said \subseteq Users
        /\ \A u \in removed : members[u] = "none"
        /\ removed \subseteq Users
    BY <1>0 DEF RemovalInv, RemovedOut, TypeOK
  <2>2. CASE Plant(d)
    BY <2>1, <2>2 DEF Plant, Past
  <2>3. CASE Drop(d)
    BY <2>1, <2>3 DEF Drop, Past, Plant
  <2>4. CASE AcceptInvite(d) \/ LeaveTeam(d)
    BY <1>0, <2>1, <2>4 DEF AcceptInvite, LeaveTeam, Past, Plant
  <2> QED
    BY <2>2, <2>3, <2>4
<1>5. pins' \in [Users -> [joined : BOOLEAN, seeded : BOOLEAN]]
  <2>1. pins[Owner[d]] \in [joined : BOOLEAN, seeded : BOOLEAN]
    BY <1>0 DEF TypeOK
  <2>2. [pins[Owner[d]] EXCEPT !.joined = TRUE] \in [joined : BOOLEAN, seeded : BOOLEAN]
    BY <2>1
  <2>3. pins' = pins \/ pins' = [pins EXCEPT ![Owner[d]] = [pins[Owner[d]] EXCEPT !.joined = TRUE]]
    BY DEF Plant, Drop, AcceptInvite, LeaveTeam
  <2> QED
    BY <1>0, <2>2, <2>3 DEF TypeOK
<1>6. TypeOK'
  BY <1>0, <1>1, <1>3, <1>4, <1>5 DEF TypeOK, Passes, Rows
<1>7. \A m \in Devices : Fine(op[m])'
  BY <1>0, <1>1, <1>2, <1>3, <1>4 DEF Fine, InStep, Numbered, Rolls, Creates, Spares
<1>8. OneCreates' /\ Unborn' /\ Keyed' /\ RemovedOut' /\ RemovedDark'
  BY <1>1, <1>2, <1>3, <1>4 DEF RemovalInv, OneCreates, Unborn, Keyed, RemovedOut, RemovedDark, Holds
<1> QED
  BY <1>6, <1>7, <1>8 DEF RemovalInv

\* A new epoch's key is nobody's yet; its list leaves out whoever was removed.
LEMMA PublishRemoval == ASSUME RemovalInv, NEW d \in Devices, Publish(d) PROVE RemovalInv'
<1> DEFINE o == [op[d] EXCEPT !.epoch = epochs + 1, !.at = "wrap"]
<1>0. /\ TypeOK /\ op[d] \in Commands /\ \A m \in Devices : Fine(op[m]) /\ op[m] \in Commands
      /\ op[d].at = "publish" /\ op[d].epoch = epochs /\ team = "live" /\ Fine(op[d])
      /\ epochs \in Nat /\ MaxEpochs \in Nat
  BY SharingBounds DEF RemovalInv, TypeOK, Publish, Admin, Member
<1>1. /\ op[d].kind = "remove" /\ op[d].who \in Users \ {Creator} /\ epochs < MaxEpochs /\ epochs >= 1
      /\ op[d].todo \subseteq Users \ {op[d].who} /\ op[d].todo \cap removed = {}
  BY <1>0 DEF Fine, InStep, Numbered, Rolls, Spares
<1>2. /\ Does(d, o) /\ epochs' = epochs + 1
      /\ removed' = IF members[op[d].who] = "none" THEN removed \cup {op[d].who} ELSE removed
      /\ UNCHANGED <<team, members, pins, keys, shares, grants, dead, pass, shown, held, said, torn>>
  BY DEF Publish, Roster, Slices, Views
<1>3. /\ o \in Commands
      /\ Reads(o, op[d].kind, op[d].who, "wrap", epochs + 1, op[d].todo, op[d].on, op[d].row)
  <2>1. epochs + 1 \in 0..MaxEpochs
    BY <1>0, <1>1
  <2>2. o \in Commands
    BY <1>0, <2>1 DEF Commands
  <2> QED
    BY <1>0, <2>2, CommandFields
<1> HIDE DEF o
<1>4. op' \in [Devices -> Commands] /\ op'[d] = o /\ \A m \in Devices \ {d} : op'[m] = op[m]
  BY <1>0, <1>2, <1>3 DEF Does, TypeOK
<1>5. TypeOK'
  BY <1>0, <1>1, <1>2, <1>4 DEF TypeOK, Passes, Rows
<1>6. ASSUME NEW m \in Devices PROVE Fine(op[m])'
  <2>1. CASE m = d
    BY <1>0, <1>1, <1>2, <1>3, <1>4, <2>1
    DEF Reads, Fine, InStep, Numbered, Rolls, Creates, Spares
  <2>2. CASE m # d
    <3>1. op'[m] = op[m] /\ Fine(op[m]) /\ op[m].epoch \in Nat
      BY <1>0, <1>4, <2>2 DEF Commands
    <3>2. InStep(op[m])' /\ Numbered(op[m])'
      BY <1>0, <1>2, <3>1 DEF Fine, InStep, Numbered, Rolls
    <3>3. Creates(op[m])'
      BY <1>0, <1>1, <1>2, <3>1 DEF Fine, Creates
    <3>4. Spares(op[m])'
      BY <1>0, <1>2, <3>1 DEF Fine, InStep, Spares, Numbered, Rolls
    <3> QED
      BY <3>2, <3>3, <3>4 DEF Fine
  <2> QED
    BY <2>1, <2>2
<1>7. RemovedOut' /\ RemovedDark' /\ Keyed'
  BY <1>0, <1>1, <1>2 DEF RemovalInv, TypeOK, RemovedOut, RemovedDark, Keyed, Holds
<1>8. OneCreates' /\ Unborn'
  BY <1>0, <1>1, <1>2, <1>3, <1>4 DEF Reads, RemovalInv, OneCreates, Unborn
<1> QED
  BY <1>5, <1>6, <1>7, <1>8 DEF RemovalInv

\* Keys are wrapped to an invitee and to the members who remain.
LEMMA WrapRemoval ==
    ASSUME RemovalInv, NEW d \in Devices, WrapToInvitee(d) \/ WrapToMembers(d) PROVE RemovalInv'
<1>0. /\ TypeOK /\ op[d] \in Commands /\ \A m \in Devices : Fine(op[m])
      /\ op[d].at = "wrap" /\ op[d].kind \in {"invite", "remove"} /\ team = "live" /\ Fine(op[d])
      /\ op[d].epoch \in Nat /\ epochs \in Nat /\ epochs <= MaxEpochs /\ MaxEpochs \in Nat
      /\ op[d].epoch >= 1 /\ op[d].epoch <= epochs
  BY SharingBounds DEF RemovalInv, TypeOK, Commands, WrapToInvitee, WrapToMembers, Admin, Member,
                       Fine, Numbered, Rolls
<1>1. UNCHANGED <<team, members, pins, epochs, shares, grants, dead, pass, shown, held, said,
                  removed, torn>>
  BY DEF WrapToInvitee, WrapToMembers, Roster, Slices, Views, Past
<1>2. PICK new : /\ keys' = keys \cup new /\ new \subseteq (1..epochs) \X Users
                 /\ \A u \in removed : <<epochs, u>> \notin new
  <2>1. CASE WrapToInvitee(d)
    <3>1. PICK n \in op[d].todo : keys' = keys \cup {<<n, op[d].who>>}
      BY <2>1 DEF WrapToInvitee
    <3>2. op[d].kind = "invite" /\ n \in 1..op[d].epoch /\ op[d].who \in Users
      BY <1>0, <2>1 DEF WrapToInvitee, Fine, InStep
    <3>3. n = epochs => op[d].who \notin removed
      <4>1. n = epochs => op[d].epoch = epochs
        BY <1>0, <3>2
      <4> QED
        BY <1>0, <3>2, <4>1 DEF Fine, Spares
    <3>4. {<<n, op[d].who>>} \subseteq (1..epochs) \X Users
      BY <1>0, <3>2
    <3>5. \A u \in removed : <<epochs, u>> \notin {<<n, op[d].who>>}
      BY <3>3
    <3> QED
      BY <3>1, <3>4, <3>5
  <2>2. CASE WrapToMembers(d)
    <3>1. keys' = keys \cup ({op[d].epoch} \X op[d].todo) /\ op[d].kind = "remove"
      BY <2>2 DEF WrapToMembers
    <3>2. op[d].todo \subseteq Users /\ (op[d].epoch = epochs => op[d].todo \cap removed = {})
      BY <1>0, <3>1 DEF Fine, InStep, Spares
    <3> DEFINE new == {op[d].epoch} \X op[d].todo
    <3>3. keys' = keys \cup new
      BY <3>1
    <3>4. new \subseteq (1..epochs) \X Users
      BY <1>0, <3>2
    <3>5. \A u \in removed : <<epochs, u>> \notin new
      BY <3>2
    <3> HIDE DEF new
    <3> QED
      BY <3>3, <3>4, <3>5
  <2> QED
    BY <2>1, <2>2
<1>3. PICK o \in Commands : Does(d, o) /\ Fine(o) /\ o.kind # "create"
  <2>1. CASE WrapToMembers(d)
    <3> DEFINE o == [op[d] EXCEPT !.at = "refilter", !.todo = {}]
    <3>1. /\ o \in Commands
          /\ Reads(o, op[d].kind, op[d].who, "refilter", op[d].epoch, {}, op[d].on, op[d].row)
      <4>1. o \in Commands
        BY <1>0 DEF Commands
      <4> QED
        BY <1>0, <4>1, CommandFields
    <3>2. Does(d, o) /\ op[d].kind = "remove"
      BY <2>1 DEF WrapToMembers
    <3>3. Fine(o) /\ o.kind # "create"
      <4> HIDE DEF o
      <4> QED
        BY <1>0, <3>1, <3>2 DEF Reads, Fine, InStep, Numbered, Rolls, Creates, Spares
    <3> HIDE DEF o
    <3> QED
      BY <3>1, <3>2, <3>3
  <2>2. CASE WrapToInvitee(d)
    <3>1. PICK n : Does(d, IF op[d].todo = {n} THEN Idle ELSE [op[d] EXCEPT !.todo = @ \ {n}])
      BY <2>2 DEF WrapToInvitee
    <3> DEFINE o == [op[d] EXCEPT !.todo = op[d].todo \ {n}]
    <3>2. /\ o \in Commands
          /\ Reads(o, op[d].kind, op[d].who, op[d].at, op[d].epoch, op[d].todo \ {n}, op[d].on, op[d].row)
      <4>1. o \in Commands
        BY <1>0 DEF Commands
      <4> QED
        BY <1>0, <4>1, CommandFields
    <3>3. op[d].kind = "invite"
      BY <2>2 DEF WrapToInvitee
    <3>4. Fine(o) /\ o.kind # "create"
      <4> HIDE DEF o
      <4> QED
        BY <1>0, <3>2, <3>3 DEF Reads, Fine, InStep, Numbered, Rolls, Creates, Spares
    <3>5. Does(d, Idle) \/ Does(d, o)
      BY <3>1
    <3> HIDE DEF o
    <3> QED
      BY <3>2, <3>4, <3>5, IdleTyped, IdleFine
  <2> QED
    BY <1>0, <2>1, <2>2
<1>4. op' \in [Devices -> Commands] /\ op'[d] = o /\ \A m \in Devices \ {d} : op'[m] = op[m]
  BY <1>0, <1>3 DEF Does, TypeOK
<1>5. keys' \subseteq (1..epochs) \X Users /\ RemovedDark'
  BY <1>1, <1>2 DEF RemovalInv, Keyed, RemovedDark, Holds
<1>6. TypeOK'
  <2>1. keys' \subseteq (1..MaxEpochs) \X Users
    BY <1>0, <1>5
  <2> QED
    BY <1>0, <1>1, <1>4, <2>1 DEF TypeOK, Passes, Rows
<1>7. \A m \in Devices : Fine(op[m])'
  BY <1>0, <1>1, <1>3, <1>4 DEF Fine, InStep, Numbered, Rolls, Creates, Spares
<1>8. OneCreates' /\ Unborn' /\ RemovedOut' /\ Keyed'
  BY <1>1, <1>3, <1>4, <1>5 DEF RemovalInv, OneCreates, Unborn, RemovedOut, Keyed
<1> QED
  BY <1>5, <1>6, <1>7, <1>8 DEF RemovalInv

\* Writing the share row, deleting the team, and a granting pass touch neither
\* keys nor commands in flight, but for the whole team's end.
LEMMA WriteShareRemoval == ASSUME RemovalInv, NEW d \in Devices, WriteShare(d) PROVE RemovalInv'
<1>0. /\ TypeOK /\ op[d] \in Commands /\ Fine(op[d])
      /\ op[d].at \in {"reshare", "write"}
      /\ UNCHANGED <<team, members, pins, epochs, keys, grants, dead, pass, shown, held, said,
                     removed, torn>>
      /\ MaxEpochs \in Nat
  BY SharingBounds DEF RemovalInv, TypeOK, WriteShare, Roster, Chain, Views, Past
<1>1. shares' \in [Devices -> Rows \cup {None}]
  <2>1. op[d].epoch >= 1 /\ op[d].epoch \in 0..MaxEpochs /\ op[d].on \in SUBSET Projects
    BY <1>0 DEF Fine, Numbered, Rolls, Commands
  <2>2. [on |-> op[d].on, epoch |-> op[d].epoch] \in Rows
    BY <1>0, <2>1 DEF Rows
  <2>3. shares' = [shares EXCEPT ![op[d].row] = [on |-> op[d].on, epoch |-> op[d].epoch]]
    BY DEF WriteShare
  <2> QED
    BY <1>0, <2>2, <2>3 DEF TypeOK
<1>2. op' \in [Devices -> Commands] /\ op' = [op EXCEPT ![d] = Idle]
  BY <1>0, IdleTyped DEF WriteShare, End, Does, TypeOK
<1>3. TypeOK'
  BY <1>0, <1>1, <1>2 DEF TypeOK, Passes, Rows
<1> QED
  BY <1>0, <1>2, <1>3, IdleFine, CommandMoves

LEMMA DeleteRemoval == ASSUME RemovalInv, NEW d \in Devices, DeleteTeam(d) PROVE RemovalInv'
<1>0. /\ TypeOK /\ \A m \in Devices : Fine(op[m]) /\ op[m] \in Commands
      /\ team' = (IF team = "live" THEN "gone" ELSE team) /\ members' = [u \in Users |-> "none"]
      /\ epochs' = 0 /\ keys' = {} /\ shares' = [s \in Devices |-> None]
      /\ grants' = [e \in Entries |-> 0] /\ held' = [m \in Devices |-> {}]
      /\ UNCHANGED <<pins, dead, pass, shown, said, removed, torn>>
      /\ MaxEpochs \in Nat
  BY SharingBounds DEF RemovalInv, TypeOK, DeleteTeam, Past
<1>1. op' \in [Devices -> Commands] /\ op'[d] = Idle /\ \A m \in Devices \ {d} : op'[m] = op[m]
  BY <1>0, IdleTyped DEF DeleteTeam, End, Does, TypeOK
<1>2. TypeOK'
  BY <1>0, <1>1 DEF TypeOK, Passes, Rows
<1>3. ASSUME NEW m \in Devices PROVE Fine(op[m])'
  <2>1. CASE m = d
    BY <1>0, <1>1, <2>1, IdleFine DEF Fine, InStep, Numbered, Rolls, Creates, Spares, Idle, Command
  <2>2. CASE m # d
    <3>1. op'[m] = op[m] /\ Fine(op[m]) /\ op[m].epoch \in Nat
      BY <1>0, <1>1, <2>2 DEF Commands
    <3>2. InStep(op[m])' /\ Numbered(op[m])' /\ Creates(op[m])'
      BY <1>0, <3>1 DEF Fine, InStep, Numbered, Rolls, Creates
    <3>3. Spares(op[m])'
      BY <1>0, <3>1 DEF Fine, InStep, Spares, Numbered, Rolls
    <3> QED
      BY <3>2, <3>3 DEF Fine
  <2> QED
    BY <2>1, <2>2
<1>4. OneCreates' /\ Unborn' /\ Keyed' /\ RemovedOut' /\ RemovedDark'
  BY <1>0, <1>1, IdleFine DEF RemovalInv, OneCreates, Unborn, Keyed, RemovedOut, RemovedDark, Holds
<1> QED
  BY <1>2, <1>3, <1>4 DEF RemovalInv

LEMMA WorkRemoval == ASSUME RemovalInv, NEW d \in Devices, Work(d) PROVE RemovalInv'
  BY CreateRemoval, ReadsFine, MembersRemoval, PublishRemoval, WrapRemoval, WriteShareRemoval,
     DeleteRemoval DEF Work

\* A granting pass, a read and a deletion keep the types, and nothing else of it
\* but the pins changes.
LEMMA PassTyped ==
    ASSUME NEW v \in Passes, NEW epoch \in 0..MaxEpochs, NEW on \in SUBSET Projects,
           NEW es \in SUBSET Entries, NEW fs \in SUBSET Entries
    PROVE  /\ \A at \in {"seed", "verify", "withdraw"} : [v EXCEPT !.at = at] \in Passes
           /\ [v EXCEPT !.at = "filter", !.epoch = epoch] \in Passes
           /\ [v EXCEPT !.at = "grants", !.on = on] \in Passes
           /\ [v EXCEPT !.at = "drop", !.have = es, !.drop = fs] \in Passes
           /\ [v EXCEPT !.drop = es] \in Passes /\ [v EXCEPT !.have = es] \in Passes
           /\ [Resting EXCEPT !.at = "seed", !.mine = es] \in Passes
           /\ Resting \in Passes
<1>1. \A at \in {"seed", "verify", "withdraw"} : [v EXCEPT !.at = at] \in Passes
  BY DEF Passes
<1>2. [v EXCEPT !.at = "filter", !.epoch = epoch] \in Passes
  BY DEF Passes
<1>3. [v EXCEPT !.at = "grants", !.on = on] \in Passes
  BY DEF Passes
<1>4. [v EXCEPT !.at = "drop", !.have = es, !.drop = fs] \in Passes
  BY DEF Passes
<1>5. [v EXCEPT !.drop = es] \in Passes /\ [v EXCEPT !.have = es] \in Passes
  BY DEF Passes
<1>6. Resting \in Passes
  BY SharingBounds DEF Resting, Passes
<1>7. [Resting EXCEPT !.at = "seed", !.mine = es] \in Passes
  BY <1>6 DEF Passes
<1> QED
  BY <1>1, <1>2, <1>3, <1>4, <1>5, <1>6, <1>7

LEMMA PassRemoval ==
    ASSUME RemovalInv, NEW d \in Devices, ReconcileSoon(d) \/ PassStep(d) \/ PassFails(d)
    PROVE  RemovalInv'
<1>0. /\ TypeOK /\ pass[d] \in Passes /\ Owner[d] \in Users /\ epochs \in 0..MaxEpochs
      /\ UNCHANGED <<team, members, epochs, keys, removed, op, said, dead, shares, shown, torn>>
  BY SharingOwners
  DEF RemovalInv, TypeOK, ReconcileSoon, PassStep, PassFails, SeedJoined, PassVerify, PassFilter,
      PassGrants, DropStale, InsertGrants, Withdraw, Stay, Roster, Chain, Slices, Views, Past
<1>1. PICK v \in Passes : Step(d, v)
  <2>1. CASE ReconcileSoon(d)
    <3>1. Live(Owner[d]) \in SUBSET Entries
      BY DEF Live
    <3> QED
      BY <1>0, <2>1, <3>1, PassTyped DEF ReconcileSoon
  <2>2. CASE SeedJoined(d) \/ PassVerify(d)
    BY <1>0, <2>2, PassTyped DEF SeedJoined, PassVerify
  <2>3. CASE PassFilter(d)
    <3>1. \A s \in Devices : shares[s] # None => shares[s].on \in SUBSET Projects
      BY <1>0 DEF TypeOK, Rows
    <3> QED
      BY <1>0, <2>3, <3>1, PassTyped DEF PassFilter, ReadsRow
  <2>4. CASE PassGrants(d)
    <3> DEFINE own == {e \in Entries : Author[e] = Owner[d] /\ grants[e] # 0}
               older == {e \in Wanted(pass[d]) \cap own : grants[e] # pass[d].epoch}
    <3>1. Step(d, [pass[d] EXCEPT !.at = "drop", !.have = own \ older, !.drop = older])
      BY <2>4 DEF PassGrants
    <3>2. own \ older \in SUBSET Entries /\ older \in SUBSET Entries
      OBVIOUS
    <3> HIDE DEF own, older
    <3> QED
      BY <1>0, <3>1, <3>2, PassTyped
  <2>5. CASE \E e \in Entries : DropStale(d, e)
    <3>1. PICK e : Step(d, [pass[d] EXCEPT !.drop = @ \ {e}])
      BY <2>5 DEF DropStale
    <3>2. pass[d].drop \ {e} \in SUBSET Entries
      BY <1>0 DEF Passes
    <3> QED
      BY <1>0, <3>1, <3>2, PassTyped
  <2>6. CASE InsertGrants(d) \/ PassFails(d)
    BY <1>0, <2>6, PassTyped DEF InsertGrants, PassFails
  <2>7. CASE Withdraw(d)
    <3>1. Step(d, Resting) \/ \E e : Step(d, [pass[d] EXCEPT !.have = @ \ {e}])
      BY <2>7 DEF Withdraw
    <3>2. \A e : pass[d].have \ {e} \in SUBSET Entries
      BY <1>0 DEF Passes
    <3> QED
      BY <1>0, <3>1, <3>2, PassTyped
  <2> QED
    BY <2>1, <2>2, <2>3, <2>4, <2>5, <2>6, <2>7 DEF PassStep
<1>2. pass' \in [Devices -> Passes]
  BY <1>0, <1>1 DEF TypeOK, Step
<1>3. pins' \in [Users -> [joined : BOOLEAN, seeded : BOOLEAN]]
  <2>1. CASE SeedJoined(d)
    BY <1>0, <2>1 DEF SeedJoined, TypeOK
  <2>2. CASE ~SeedJoined(d)
    BY <1>0, <2>2
    DEF TypeOK, ReconcileSoon, PassStep, PassFails, PassVerify, PassFilter, PassGrants, DropStale,
        InsertGrants, Withdraw, Stay, Roster
  <2> QED
    BY <2>1, <2>2
<1>4. /\ grants' \in [Entries -> 0..MaxEpochs] /\ held' \in [Devices -> SUBSET Entries]
      /\ \A m \in Devices : held'[m] \subseteq shown'[m]
  <2>0. /\ grants \in [Entries -> 0..MaxEpochs] /\ held \in [Devices -> SUBSET Entries]
        /\ \A m \in Devices : held[m] \subseteq shown[m]
        /\ pass[d].epoch \in 0..MaxEpochs /\ 0 \in 0..MaxEpochs /\ shown' = shown
    BY <1>0, SharingBounds DEF TypeOK, Passes
  <2>1. CASE \E e \in Entries : DropStale(d, e)
    BY <2>0, <2>1 DEF DropStale, Withdrawn
  <2>2. CASE Withdraw(d)
    BY <2>0, <2>2, ZenonT(60) DEF Withdraw, Withdrawn
  <2>3. CASE InsertGrants(d)
    BY <2>0, <2>3 DEF InsertGrants, Views
  <2>4. CASE ReconcileSoon(d) \/ SeedJoined(d) \/ PassVerify(d) \/ PassFilter(d) \/ PassGrants(d)
             \/ PassFails(d)
    BY <2>0, <2>4 DEF ReconcileSoon, SeedJoined, PassVerify, PassFilter, PassGrants, PassFails,
                      Stay, Slices, Views
  <2> QED
    BY <2>1, <2>2, <2>3, <2>4 DEF PassStep
<1>5. TypeOK'
  BY <1>0, <1>2, <1>3, <1>4 DEF TypeOK, Rows
<1> QED
  BY <1>0, <1>5, CommandsStand

LEMMA NextRemoval == RemovalInv /\ [Next]_vars => RemovalInv'
<1> SUFFICES ASSUME RemovalInv, [Next]_vars PROVE RemovalInv'
  OBVIOUS
<1>0. TypeOK
  BY DEF RemovalInv
<1>1. CASE UNCHANGED vars
  <2>1. TypeOK'
    BY <1>0, <1>1 DEF vars, TypeOK, Passes, Rows
  <2> QED
    BY <1>1, <2>1, CommandsStand DEF vars
<1>2. ASSUME NEW d \in Devices, Refresh(d) PROVE RemovalInv'
  <2> DEFINE next == {e \in Entries : VerifiedEpochs(Owner[d]) /\ Readable(d, e)}
  <2>1. /\ shown' = [shown EXCEPT ![d] = next] /\ held' = [held EXCEPT ![d] = next]
        /\ next \in SUBSET Entries
    BY <1>2 DEF Refresh
  <2>2. UNCHANGED <<team, members, pins, epochs, keys, shares, grants, dead, op, pass, said,
                    removed, torn>>
    BY <1>2 DEF Refresh, Roster, Chain, Slices, Past
  <2> HIDE DEF next
  <2>3. /\ {shown', held'} \subseteq [Devices -> SUBSET Entries]
        /\ \A m \in Devices : held'[m] \subseteq shown'[m]
    BY <1>0, <2>1 DEF TypeOK
  <2>4. TypeOK'
    BY <1>0, <2>2, <2>3 DEF TypeOK, Passes, Rows
  <2> QED
    BY <2>2, <2>4, CommandsStand
<1>3. ASSUME NEW e \in Entries, DeleteEntry(e) PROVE RemovalInv'
  <2>1. /\ dead' = dead \cup {e}
        /\ UNCHANGED <<team, members, pins, epochs, keys, shares, grants, op, pass, shown, held,
                       said, removed, torn>>
    BY <1>3 DEF DeleteEntry, Roster, Chain, Slices, Views, Past
  <2>2. TypeOK'
    BY <1>0, <2>1 DEF TypeOK, Passes, Rows
  <2> QED
    BY <2>1, <2>2, CommandsStand
<1> QED
  BY <1>1, <1>2, <1>3, TapRemoval, WorkRemoval, ReadsFine, PassRemoval DEF Next

\* Every variable keeps its type, for any bound on the epochs.
THEOREM TypeCorrect == Spec => []TypeOK
<1>1. RemovalInv => TypeOK
  BY DEF RemovalInv
<1> QED
  BY <1>1, RemovalInit, NextRemoval, PTL DEF Spec

\* Entries are granted under the epoch that is current then.
LEMMA GrantedNow ==
    ASSUME TypeOK, [Next]_vars, NEW e \in Entries, grants'[e] \notin {0, grants[e]}
    PROVE  grants'[e] = epochs
<1>1. CASE \E d \in Devices : InsertGrants(d)
  <2>1. PICK d \in Devices : InsertGrants(d)
    BY <1>1
  <2>2. ToGrant(pass[d]) # {} /\ pass[d].epoch = epochs
        /\ grants' = [f \in Entries |-> IF f \in ToGrant(pass[d]) THEN pass[d].epoch ELSE grants[f]]
    BY <2>1 DEF InsertGrants
  <2> QED
    BY <2>2
<1>2. ASSUME NEW d \in Devices, DeleteTeam(d) PROVE FALSE
  BY <1>2 DEF DeleteTeam
<1>3. ASSUME NEW d \in Devices, Withdraw(d) \/ \E f \in Entries : DropStale(d, f) PROVE FALSE
  BY <1>3 DEF Withdraw, DropStale, Withdrawn, TypeOK
<1>4. CASE UNCHANGED grants
  BY <1>4
<1>5. ASSUME NEW d \in Devices, Tap(d) PROVE UNCHANGED grants
  BY <1>5 DEF Tap, CreateTap, AcceptTap, LeaveTap, DeleteTap, InviteTap, RemoveTap, SaveSharingTap,
              ProjectGone, Begin, Slices
<1>6. ASSUME NEW d \in Devices, Work(d), ~DeleteTeam(d) PROVE UNCHANGED grants
  BY <1>6 DEF Work, CreateTeam, Verify, Plant, WrapToInvitee, Drop, ReadRoster, Publish,
              WrapToMembers, Refilter, ReadShareRow, WriteShare, RewriteSharedProject,
              AcceptInvite, LeaveTeam, Refused, Slices
<1>7. ASSUME NEW d \in Devices, PassStep(d), ~InsertGrants(d), ~Withdraw(d),
             ~\E f \in Entries : DropStale(d, f)
      PROVE  UNCHANGED grants
  BY <1>7 DEF PassStep, SeedJoined, PassVerify, PassFilter, PassGrants, Stay, Slices
<1>8. ASSUME NEW d \in Devices, Fail(d) \/ ReconcileSoon(d) \/ PassFails(d) \/ Refresh(d)
      PROVE  UNCHANGED grants
  BY <1>8 DEF Fail, ReconcileSoon, PassFails, Refresh, Stay, Slices
<1>9. ASSUME NEW f \in Entries, DeleteEntry(f) PROVE UNCHANGED grants
  BY <1>9 DEF DeleteEntry, Slices
<1> QED
  BY <1>1, <1>2, <1>3, <1>4, <1>5, <1>6, <1>7, <1>8, <1>9 DEF Next, vars

\* No step grants an entry under a key that somebody removed holds.
THEOREM RemovedSeeNothing == Spec => RemovedSeeNothingNew
<1>1. RemovalInv /\ [Next]_vars =>
        \A e \in Entries, u \in Users :
            (grants'[e] \notin {0, grants[e]} /\ u \in removed) => ~Holds(u, grants'[e])
  BY GrantedNow DEF RemovalInv, RemovedDark
<1> QED
  BY <1>1, RemovalInit, NextRemoval, PTL DEF Spec, RemovedSeeNothingNew

-----------------------------------------------------------------------------
(* Renames and deletions *)

Homes == [Entries -> Movable \cup {None}]

\* A rename or deletion in flight, or none.
Operations == [kind : Renames!Kinds \cup {None}, at : Renames!Phases \cup {None},
               from : Movable \cup {None}, to : Movable \cup {None}, tracking : BOOLEAN,
               acct : Accounts \cup {None}, seen : Homes]

\* What the invariants below need of the types.
RenTyped ==
    /\ home \in Homes
    /\ listed \in [Devices \ Desktops -> Homes]
    /\ who \in [Renames!Machines -> Accounts \cup {None}]
    /\ change \in [Renames!Machines -> Operations]
    /\ budget \in [choices : Nat, changes : Nat, fails : 0..Fails, outs : Nat]

\* No name is the absent one.
LEMMA RenameNames ==
    /\ None \notin Movable /\ None \notin Accounts
    /\ None \notin Renames!Phases /\ None \notin Renames!Kinds
    /\ Fails \in Nat /\ First \in [Entries -> Movable] /\ me \in Accounts
BY ProjectsInBounds DEF Renames!ProjectsNone, Renames!ProjectsBounds

LEMMA InitRenTyped == ASSUME Renames!Init PROVE RenTyped
<1>1. home = First /\ home \in Homes
  BY RenameNames DEF Renames!Init, Homes
<1>2. listed \in [Devices \ Desktops -> Homes]
  BY <1>1 DEF Renames!Init
<1>3. who \in [Renames!Machines -> Accounts \cup {None}]
  BY RenameNames DEF Renames!Init
<1>4. Renames!Free \in Operations
  BY DEF Renames!Free, Operations, Homes
<1>5. change \in [Renames!Machines -> Operations]
  BY <1>4 DEF Renames!Init
<1>6. budget \in [choices : Nat, changes : Nat, fails : 0..Fails, outs : Nat]
  BY ProjectsInBounds DEF Renames!Init, Renames!ProjectsBounds
<1> QED BY <1>1, <1>2, <1>3, <1>5, <1>6 DEF RenTyped

\* What a step spends of the bounds.
LEMMA Spends ==
    ASSUME RenTyped,
           \/ budget' = budget
           \/ budget.choices > 0 /\ budget' = [budget EXCEPT !.choices = @ - 1]
           \/ budget.changes > 0 /\ budget' = [budget EXCEPT !.changes = @ - 1]
           \/ budget.fails > 0 /\ budget' = [budget EXCEPT !.fails = @ - 1]
           \/ budget.outs > 0 /\ budget' = [budget EXCEPT !.outs = @ - 1]
    PROVE  /\ budget' \in [choices : Nat, changes : Nat, fails : 0..Fails, outs : Nat]
           /\ budget.fails \in 0..Fails /\ budget'.fails \in 0..Fails
           /\ budget'.fails <= budget.fails
BY RenameNames DEF RenTyped

\* The steps of the dialogs and of the syncs, which leave the entries, the shares
\* and the operations alone.
RenQuiet ==
    /\ UNCHANGED <<home, named, meant, change, stale, undone>>
    /\ budget'.fails <= budget.fails

LEMMA ColorSteps ==
    ASSUME RenTyped, NEW d \in Renames!Machines,
           \/ \E proj \in Movable :
               \/ Renames!Create(d, proj)
               \/ \E color \in Palette \cup {Automatic} : Renames!Choose(d, proj, color)
           \/ Renames!SyncSoon(d) \/ Renames!Syncing(d) \/ Renames!SyncFail(d)
    PROVE  RenTyped' /\ RenQuiet
<1>1. UNCHANGED <<home, named, meant, change, stale, undone, listed, who>>
  BY DEF Renames!Create, Renames!Choose, Renames!SyncSoon, Renames!Syncing, Renames!SyncTake,
         Renames!SyncRefused, Renames!SyncRead, Renames!SyncPatch, Renames!SyncAdopt,
         Renames!SyncFail, Renames!SyncGoes, Renames!Rest
<1>2. \/ budget' = budget
      \/ budget.choices > 0 /\ budget' = [budget EXCEPT !.choices = @ - 1]
      \/ budget.changes > 0 /\ budget' = [budget EXCEPT !.changes = @ - 1]
      \/ budget.fails > 0 /\ budget' = [budget EXCEPT !.fails = @ - 1]
  BY DEF Renames!Create, Renames!Choose, Renames!SyncSoon, Renames!Syncing, Renames!SyncTake,
         Renames!SyncRefused, Renames!SyncRead, Renames!SyncPatch, Renames!SyncAdopt,
         Renames!SyncFail, Renames!SyncGoes, Renames!Rest
<1>3. /\ budget' \in [choices : Nat, changes : Nat, fails : 0..Fails, outs : Nat]
      /\ budget'.fails <= budget.fails
  BY <1>2, Spends
<1> QED BY <1>1, <1>3 DEF RenTyped, RenQuiet

LEMMA ListSteps ==
    ASSUME RenTyped, NEW d \in Renames!Machines,
           \/ Renames!Reload(d) \/ Renames!SignOut(d)
           \/ \E acct \in Accounts : Renames!SignIn(d, acct)
    PROVE  RenTyped' /\ RenQuiet
<1>1. home \in Homes /\ listed \in [Devices \ Desktops -> Homes]
      /\ who \in [Renames!Machines -> Accounts \cup {None}]
  BY DEF RenTyped
<1>2. [e \in Entries |-> None] \in Homes
  BY DEF Homes
<1>3. CASE Renames!Reload(d)
  <2>1. UNCHANGED <<home, named, meant, change, stale, undone, who, budget>>
    BY <1>3 DEF Renames!Reload, Renames!Rest
  <2>2. listed' \in [Devices \ Desktops -> Homes]
    BY <1>1, <1>3 DEF Renames!Reload
  <2>3. budget'.fails <= budget.fails
    BY <2>1, Spends
  <2> QED BY <2>1, <2>2, <2>3 DEF RenTyped, RenQuiet
<1>4. CASE Renames!SignOut(d)
  <2>1. UNCHANGED <<home, named, meant, change, stale, undone>>
    BY <1>4 DEF Renames!SignOut, Renames!Rest
  <2>2. budget.outs > 0 /\ budget' = [budget EXCEPT !.outs = @ - 1]
    BY <1>4 DEF Renames!SignOut
  <2>3. /\ budget' \in [choices : Nat, changes : Nat, fails : 0..Fails, outs : Nat]
        /\ budget'.fails <= budget.fails
    BY <2>2, Spends
  <2>4. listed' \in [Devices \ Desktops -> Homes]
    BY <1>1, <1>2, <1>4 DEF Renames!SignOut
  <2>5. who' \in [Renames!Machines -> Accounts \cup {None}]
    BY <1>1, <1>4 DEF Renames!SignOut
  <2> QED BY <2>1, <2>3, <2>4, <2>5 DEF RenTyped, RenQuiet
<1>5. ASSUME NEW acct \in Accounts, Renames!SignIn(d, acct) PROVE RenTyped' /\ RenQuiet
  <2>1. UNCHANGED <<home, named, meant, change, stale, undone, budget>>
    BY <1>5 DEF Renames!SignIn, Renames!Rest
  <2>2. listed' \in [Devices \ Desktops -> Homes]
    BY <1>1, <1>5 DEF Renames!SignIn
  <2>3. who' \in [Renames!Machines -> Accounts \cup {None}]
    BY <1>1, <1>5 DEF Renames!SignIn
  <2>4. budget'.fails <= budget.fails
    BY <2>1, Spends
  <2> QED BY <2>1, <2>2, <2>3, <2>4 DEF RenTyped, RenQuiet
<1> QED BY <1>3, <1>4, <1>5

\* An operation that fuses no two histories of the entries it saw.
Fitting(o) ==
    /\ o.from \in Movable /\ o.from # o.to
    /\ o.to = None \/ o.to \notin Renames!Named(o.seen) \/ o.from \notin Renames!Named(o.seen)

\* A dialog is confirmed: the entries are next.
RenEntered(d) ==
    /\ change' \in [Renames!Machines -> Operations]
    /\ \A o \in Renames!Machines \ {d} : change'[o] = change[o]
    /\ change'[d].at = "entries" /\ Fitting(change'[d]) /\ change'[d].acct = who[d]
    /\ change[d].at \in {None, "failed"}
    /\ UNCHANGED <<home, named, meant, stale, undone>>
    /\ budget'.fails <= budget.fails

LEMMA Enters ==
    ASSUME RenTyped, NEW d \in Renames!Machines, NEW kind \in Renames!Kinds,
           NEW from \in Movable, NEW to \in Movable \cup {None}, from # to,
           change[d].at \in {None, "failed"},
           LET seen == IF d \in Devices \ Desktops THEN listed[d] ELSE home IN
               to = None \/ to \notin Renames!Named(seen) \/ from \notin Renames!Named(seen),
           Renames!Enter(d, kind, from, to)
    PROVE  RenTyped' /\ RenEntered(d)
<1> DEFINE seen == IF d \in Devices \ Desktops THEN listed[d] ELSE home
           o == [kind |-> kind, at |-> "entries", from |-> from, to |-> to,
                 tracking |-> running = from, acct |-> who[d], seen |-> seen]
<1>1. /\ home \in Homes /\ listed \in [Devices \ Desktops -> Homes]
      /\ who \in [Renames!Machines -> Accounts \cup {None}]
      /\ change \in [Renames!Machines -> Operations]
  BY DEF RenTyped
<1>2. seen \in Homes /\ who[d] \in Accounts \cup {None}
  BY <1>1
<1>3. (running = from) \in BOOLEAN
  OBVIOUS
<1>4. o \in Operations
  BY <1>2, <1>3 DEF Operations, Renames!Phases
<1>5. change' = [change EXCEPT ![d] = o]
  BY DEF Renames!Enter
<1>6. UNCHANGED <<home, named, meant, stale, undone, listed, who>>
  BY DEF Renames!Enter, Renames!Rest
<1>7. budget.changes > 0 /\ budget' = [budget EXCEPT !.changes = @ - 1]
  BY DEF Renames!Enter
<1>8. /\ budget' \in [choices : Nat, changes : Nat, fails : 0..Fails, outs : Nat]
      /\ budget'.fails <= budget.fails
  BY <1>7, Spends
<1> HIDE DEF o
<1>9. change' \in [Renames!Machines -> Operations] /\ change'[d] = o
  BY <1>1, <1>4, <1>5
<1>10. \A other \in Renames!Machines \ {d} : change'[other] = change[other]
  BY <1>1, <1>5
<1>11. o.at = "entries" /\ o.from = from /\ o.to = to /\ o.seen = seen /\ o.acct = who[d]
  BY DEF o
<1>12. Fitting(o)
  BY <1>11 DEF Fitting
<1> QED BY <1>1, <1>6, <1>8, <1>9, <1>10, <1>11, <1>12 DEF RenTyped, RenEntered

LEMMA EnterSteps ==
    ASSUME RenTyped, NEW d \in Renames!Machines, NEW from \in Movable,
           \/ Renames!PhoneDelete(d, from) \/ Renames!DesktopDelete(d, from)
           \/ \E to \in Movable : Renames!PhoneRename(d, from, to) \/ Renames!DesktopRename(d, from, to)
    PROVE  RenTyped' /\ RenEntered(d)
<1> DEFINE seen == IF d \in Devices \ Desktops THEN listed[d] ELSE home
<1>1. ASSUME NEW kind, change[d] = Renames!Free \/ Renames!Again(d, kind, from)
      PROVE  change[d].at \in {None, "failed"}
  <2>1. Renames!Free.at = None
    BY DEF Renames!Free
  <2> QED BY <1>1, <2>1 DEF Renames!Again
<1>2. CASE Renames!PhoneDelete(d, from) \/ Renames!DesktopDelete(d, from)
  <2>1. change[d].at \in {None, "failed"}
    BY <1>1, <1>2 DEF Renames!PhoneDelete, Renames!DesktopDelete, Renames!DesktopOffers
  <2>2. Renames!Enter(d, "delete", from, None)
    BY <1>2 DEF Renames!PhoneDelete, Renames!DesktopDelete
  <2>3. from # None /\ "delete" \in Renames!Kinds
    BY RenameNames DEF Renames!Kinds
  <2> QED BY <2>1, <2>2, <2>3, Enters
<1>3. ASSUME NEW to \in Movable, Renames!PhoneRename(d, from, to) PROVE RenTyped' /\ RenEntered(d)
  <2>1. change[d].at \in {None, "failed"}
    BY <1>1, <1>3 DEF Renames!PhoneRename
  <2>2. Renames!Enter(d, "rename", from, to) /\ from # to /\ d \in Devices \ Desktops
    BY <1>3 DEF Renames!PhoneRename
  <2>3. to \notin Renames!Named(seen)
    BY <1>3, <2>2 DEF Renames!PhoneRename, Renames!TakenOnPhone, Renames!PhoneRows
  <2>4. "rename" \in Renames!Kinds
    BY DEF Renames!Kinds
  <2> QED BY <2>1, <2>2, <2>3, <2>4, Enters
<1>4. ASSUME NEW to \in Movable, Renames!DesktopRename(d, from, to) PROVE RenTyped' /\ RenEntered(d)
  <2>1. change[d].at \in {None, "failed"}
    BY <1>1, <1>4 DEF Renames!DesktopRename, Renames!DesktopOffers
  <2>2. Renames!Enter(d, "rename", from, to) /\ from # to /\ d \in Desktops
    BY <1>4 DEF Renames!DesktopRename
  <2>3. to \notin Renames!Named(home) \/ from \notin Renames!Named(home)
    BY <1>4 DEF Renames!DesktopRename, Renames!TakenOnDesktop, Renames!Tracked
  <2>4. seen = home /\ "rename" \in Renames!Kinds
    BY <2>2 DEF Renames!Kinds
  <2> QED BY <2>1, <2>2, <2>3, <2>4, Enters
<1> QED BY <1>2, <1>3, <1>4

\* An operation goes on, or its dialog is left open on a failure.
RenGoes(d, at) ==
    /\ change' \in [Renames!Machines -> Operations]
    /\ \A o \in Renames!Machines \ {d} : change'[o] = change[o]
    /\ change'[d].at = at /\ change'[d].from = change[d].from
    /\ change'[d].to = change[d].to /\ change'[d].seen = change[d].seen
    /\ change'[d].acct = change[d].acct

LEMMA Goes ==
    ASSUME RenTyped, NEW d \in Renames!Machines, NEW at \in Renames!Phases,
           change' = [change EXCEPT ![d].at = at]
    PROVE  RenGoes(d, at)
<1>1. change \in [Renames!Machines -> Operations] /\ change[d] \in Operations
  BY DEF RenTyped
<1> DEFINE o == [change[d] EXCEPT !.at = at]
<1>2. o \in Operations
  BY <1>1 DEF Operations
<1>3. o.at = at /\ o.from = change[d].from /\ o.to = change[d].to /\ o.seen = change[d].seen
      /\ o.acct = change[d].acct
  BY <1>1 DEF Operations
<1>4. change' = [change EXCEPT ![d] = o]
  BY <1>1
<1> HIDE DEF o
<1>5. change' \in [Renames!Machines -> Operations] /\ change'[d] = o
      /\ \A other \in Renames!Machines \ {d} : change'[other] = change[other]
  BY <1>1, <1>2, <1>4
<1> QED BY <1>3, <1>5 DEF RenGoes

\* An operation is over.
RenEnds(d) ==
    /\ change' \in [Renames!Machines -> Operations]
    /\ \A o \in Renames!Machines \ {d} : change'[o] = change[o]
    /\ change'[d].at = None

LEMMA Ends ==
    ASSUME RenTyped, NEW d \in Renames!Machines, change' = [change EXCEPT ![d] = Renames!Free]
    PROVE  RenEnds(d)
<1>1. change \in [Renames!Machines -> Operations]
  BY DEF RenTyped
<1>2. Renames!Free \in Operations /\ Renames!Free.at = None
  BY DEF Renames!Free, Operations, Homes
<1>3. change' \in [Renames!Machines -> Operations] /\ change'[d] = Renames!Free
      /\ \A other \in Renames!Machines \ {d} : change'[other] = change[other]
  BY <1>1, <1>2
<1> QED BY <1>2, <1>3 DEF RenEnds

\* A name follows an operation.
Follows(names, o) ==
    IF o.from \in names THEN (names \ {o.from}) \cup ({o.to} \ {None}) ELSE names

LEMMA MovedTyped ==
    ASSUME RenTyped, NEW d \in Renames!Machines, NEW es \in SUBSET Entries
    PROVE  Renames!Moved(d, es) \in Homes
<1>1. home \in Homes /\ change[d].to \in Movable \cup {None}
  BY DEF RenTyped, Operations
<1> QED BY <1>1 DEF Renames!Moved, Homes

\* The entries take the new name; unless devices went past one another, they are
\* the entries under the old one.
LEMMA MoveSteps ==
    ASSUME RenTyped, NEW d \in Renames!Machines, Renames!MoveEntries(d)
    PROVE  /\ RenTyped'
           /\ change[d].at = "entries"
           /\ RenGoes(d, "timer") \/ RenGoes(d, "shares")
           /\ meant' = Follows(meant, change[d])
           /\ UNCHANGED <<named, undone, budget>>
           /\ ~stale' => /\ ~stale /\ change[d].seen = home
                         /\ \A o \in Renames!Machines \ {d} : change[o].at = None
                         /\ \A e \in Entries :
                               home'[e] = IF home[e] = change[d].from /\ home[e] # None
                                          THEN change[d].to ELSE home[e]
<1>1. home \in Homes /\ change \in [Renames!Machines -> Operations] /\ change[d] \in Operations
  BY DEF RenTyped
<1>2. change[d].at = "entries" /\ meant' = Follows(meant, change[d])
  BY DEF Renames!MoveEntries, Follows
<1>3. UNCHANGED <<named, undone, budget, listed, who>>
  BY DEF Renames!MoveEntries, Renames!Rest
<1>4. RenGoes(d, "timer") \/ RenGoes(d, "shares")
  <2>1. \/ change' = [change EXCEPT ![d].at = "timer"]
        \/ change' = [change EXCEPT ![d].at = "shares"]
    BY <1>1, <1>2 DEF Renames!MoveEntries
  <2>2. {"timer", "shares"} \subseteq Renames!Phases
    BY DEF Renames!Phases
  <2> QED BY <2>1, <2>2, Goes
<1>5. Renames!Moving(d) \subseteq Entries
  BY DEF Renames!Moving
<1>6. home' = Renames!Moved(d, Renames!Moving(d)) /\ home' \in Homes
  BY <1>5, MovedTyped DEF Renames!MoveEntries
<1>7. RenTyped'
  BY <1>3, <1>4, <1>6 DEF RenTyped, RenGoes
<1>8. ~stale' => /\ ~stale /\ change[d].seen = home
                 /\ \A o \in Renames!Machines \ {d} : change[o] = Renames!Free
  BY DEF Renames!MoveEntries
<1>9. Renames!Free.at = None
  BY DEF Renames!Free
<1>10. ASSUME ~stale', NEW e \in Entries
       PROVE  home'[e] = IF home[e] = change[d].from /\ home[e] # None THEN change[d].to ELSE home[e]
  <2>1. e \in Renames!Moving(d) <=> home[e] = change[d].from
    BY <1>8, <1>10 DEF Renames!Moving
  <2>2. home'[e] = IF e \in Renames!Moving(d) /\ home[e] # None THEN change[d].to ELSE home[e]
    BY <1>6 DEF Renames!Moved
  <2> QED BY <2>1, <2>2
<1> QED BY <1>2, <1>3, <1>4, <1>7, <1>8, <1>9, <1>10

LEMMA MoveSomeSteps ==
    ASSUME RenTyped, NEW d \in Renames!Machines, Renames!MoveSome(d)
    PROVE  /\ RenTyped'
           /\ change[d].at = "entries" /\ RenGoes(d, "failed")
           /\ UNCHANGED <<named, meant, stale, undone>>
           /\ budget'.fails < budget.fails
<1>1. UNCHANGED <<named, meant, stale, undone, listed, who>> /\ change[d].at = "entries"
  BY DEF Renames!MoveSome, Renames!Rest
<1>2. RenGoes(d, "failed")
  BY Goes DEF Renames!MoveSome, Renames!Phases
<1>3. Renames!Moving(d) \subseteq Entries
  BY DEF Renames!Moving
<1>4. home' \in Homes
  BY <1>3, MovedTyped DEF Renames!MoveSome
<1>5. budget.fails > 0 /\ budget' = [budget EXCEPT !.fails = @ - 1]
  BY DEF Renames!MoveSome
<1>6. budget' \in [choices : Nat, changes : Nat, fails : 0..Fails, outs : Nat]
  BY <1>5, Spends
<1>7. budget'.fails < budget.fails
  BY <1>5 DEF RenTyped
<1> QED BY <1>1, <1>2, <1>4, <1>6, <1>7 DEF RenTyped, RenGoes

\* The running timer, and the dialog that is closed on a failure.
LEMMA TimerSteps ==
    ASSUME RenTyped, NEW d \in Renames!Machines, Renames!RenameTimer(d)
    PROVE  /\ RenTyped'
           /\ change[d].at = "timer"
           /\ (RenGoes(d, "shares") /\ undone' = undone) \/ (RenGoes(d, "failed") /\ undone')
           /\ UNCHANGED <<home, named, meant, stale>> /\ budget'.fails <= budget.fails
<1>1. UNCHANGED <<home, named, meant, stale, listed, who>> /\ change[d].at = "timer"
  BY DEF Renames!RenameTimer, Renames!At, Renames!Rest
<1>2. (RenGoes(d, "shares") /\ undone' = undone) \/ (RenGoes(d, "failed") /\ undone')
  <2>1. {"shares", "failed"} \subseteq Renames!Phases
    BY DEF Renames!Phases
  <2>2. \/ change' = [change EXCEPT ![d].at = "shares"] /\ undone' = undone
        \/ change' = [change EXCEPT ![d].at = "failed"] /\ undone'
    BY DEF Renames!RenameTimer
  <2> QED BY <2>1, <2>2, Goes
<1>3. budget' = budget \/ (budget.fails > 0 /\ budget' = [budget EXCEPT !.fails = @ - 1])
  BY DEF Renames!RenameTimer
<1>4. /\ budget' \in [choices : Nat, changes : Nat, fails : 0..Fails, outs : Nat]
      /\ budget'.fails <= budget.fails
  BY <1>3, Spends
<1> QED BY <1>1, <1>2, <1>4 DEF RenTyped, RenGoes

\* The shares that name the project follow, or a request of theirs failed.
LEMMA ReshareSteps ==
    ASSUME RenTyped, NEW d \in Renames!Machines, Renames!Reshare(d)
    PROVE  /\ RenTyped'
           /\ change[d].at = "shares"
           /\ RenGoes(d, "colors") \/ RenGoes(d, "failed") \/ RenEnds(d)
           /\ undone' \/ (undone' = undone /\ named' = Follows(named, change[d]) /\ ~RenGoes(d, "failed"))
           /\ UNCHANGED <<home, meant, stale>> /\ budget'.fails <= budget.fails
<1>1. UNCHANGED <<home, meant, stale, listed, who>> /\ change[d].at = "shares"
  BY DEF Renames!Reshare, Renames!Rest
<1>2. change \in [Renames!Machines -> Operations]
  BY DEF RenTyped
<1>3. CASE named' = Follows(named, change[d]) /\ undone' = undone /\ budget' = budget
           /\ change' = [change EXCEPT ![d] =
                  IF d \in Devices \ Desktops THEN [@ EXCEPT !.at = "colors"] ELSE Renames!Free]
  <2>1. RenGoes(d, "colors") \/ RenEnds(d)
    <3>1. CASE d \in Devices \ Desktops
      <4>1. change' = [change EXCEPT ![d].at = "colors"]
        BY <1>2, <1>3, <3>1
      <4> QED BY <4>1, Goes DEF Renames!Phases
    <3>2. CASE d \notin Devices \ Desktops
      <4>1. change' = [change EXCEPT ![d] = Renames!Free]
        BY <1>3, <3>2
      <4> QED BY <4>1, Ends
    <3> QED BY <3>1, <3>2
  <2>2. ~RenGoes(d, "failed")
    BY <2>1, RenameNames DEF RenGoes, RenEnds, Renames!Phases
  <2>3. /\ budget' \in [choices : Nat, changes : Nat, fails : 0..Fails, outs : Nat]
        /\ budget'.fails <= budget.fails
    BY <1>3, Spends
  <2> QED BY <1>1, <1>3, <2>1, <2>2, <2>3 DEF RenTyped, RenGoes, RenEnds
<1>4. CASE /\ budget.fails > 0 /\ budget' = [budget EXCEPT !.fails = @ - 1]
           /\ change' = [change EXCEPT ![d].at = IF d \in Devices \ Desktops THEN "colors" ELSE "failed"]
           /\ undone' = TRUE
  <2>1. RenGoes(d, "colors") \/ RenGoes(d, "failed")
    <3>1. {"colors", "failed"} \subseteq Renames!Phases
      BY DEF Renames!Phases
    <3>2. \/ change' = [change EXCEPT ![d].at = "colors"]
          \/ change' = [change EXCEPT ![d].at = "failed"]
      BY <1>4
    <3> QED BY <3>1, <3>2, Goes
  <2>2. /\ budget' \in [choices : Nat, changes : Nat, fails : 0..Fails, outs : Nat]
        /\ budget'.fails <= budget.fails
    BY <1>4, Spends
  <2> QED BY <1>1, <1>4, <2>1, <2>2 DEF RenTyped, RenGoes
<1> QED BY <1>3, <1>4 DEF Renames!Reshare, Follows

\* The color, and the dialog of a failed operation.
LEMMA LastSteps ==
    ASSUME RenTyped, NEW d \in Renames!Machines, Renames!MoveColor(d) \/ Renames!GiveUp(d)
    PROVE  /\ RenTyped'
           /\ change[d].at \in {"colors", "failed"} /\ RenEnds(d)
           /\ UNCHANGED <<home, named, meant, stale, undone>> /\ budget'.fails <= budget.fails
<1>1. home \in Homes /\ listed \in [Devices \ Desktops -> Homes]
  BY DEF RenTyped
<1>2. change[d].at \in {"colors", "failed"} /\ change' = [change EXCEPT ![d] = Renames!Free]
  BY DEF Renames!MoveColor, Renames!GiveUp
<1>3. RenEnds(d)
  BY <1>2, Ends
<1>4. UNCHANGED <<home, named, meant, stale, undone, who, budget>>
  BY DEF Renames!MoveColor, Renames!GiveUp, Renames!Rest
<1>5. listed' \in [Devices \ Desktops -> Homes]
  <2>1. listed' = listed \/ listed' = [listed EXCEPT ![d] = home]
    BY DEF Renames!MoveColor, Renames!GiveUp, Renames!Rest
  <2> QED BY <1>1, <2>1
<1>6. budget'.fails <= budget.fails
  BY <1>4, Spends
<1> QED BY <1>2, <1>3, <1>4, <1>5, <1>6 DEF RenTyped, RenEnds

-----------------------------------------------------------------------------

\* Every operation still to move its entries fits what it saw.
FitInv == \A d \in Renames!Machines : change[d].at = "entries" => Fitting(change[d])

\* While no two devices renamed past one another and no rename went through in
\* part, entries of different projects are of different projects.
ApartInv ==
    ~stale /\ budget.fails = Fails =>
        \A e, f \in Entries : First[e] # First[f] /\ home[e] = home[f] => home[e] = None

\* An operation between its entries and the shares.
Halfway(d) == change[d].at \in {"timer", "shares"}

\* The shares name what the user means, or lack what the one operation that is
\* halfway still has to do.
FollowInv ==
    ~stale /\ ~undone =>
        \/ named = meant /\ \A d \in Renames!Machines : ~Halfway(d)
        \/ \E d \in Renames!Machines :
              /\ Halfway(d) /\ \A o \in Renames!Machines \ {d} : ~Halfway(o)
              /\ meant = Follows(named, change[d])

LEMMA InitRenamed == ASSUME Renames!Init PROVE FitInv /\ ApartInv /\ FollowInv
<1>1. \A d \in Renames!Machines : change[d].at = None
  BY DEF Renames!Init, Renames!Free
<1>2. FitInv
  BY <1>1, RenameNames DEF FitInv, Renames!Phases
<1>3. ApartInv
  BY DEF Renames!Init, ApartInv
<1>4. FollowInv
  BY <1>1, RenameNames DEF Renames!Init, FollowInv, Halfway, Renames!Phases
<1> QED BY <1>2, <1>3, <1>4

LEMMA QuietKeeps ==
    ASSUME RenTyped, RenTyped', RenQuiet, FitInv, ApartInv, FollowInv
    PROVE  FitInv' /\ ApartInv' /\ FollowInv'
<1>1. FitInv'
  BY DEF RenQuiet, FitInv, Fitting, Renames!Named
<1>2. ApartInv'
  <2>1. budget'.fails = Fails => budget.fails = Fails
    BY RenameNames DEF RenTyped, RenQuiet
  <2> QED BY <2>1 DEF RenQuiet, ApartInv
<1>3. FollowInv'
  BY DEF RenQuiet, FollowInv, Halfway, Follows
<1> QED BY <1>1, <1>2, <1>3

LEMMA EnterKeeps ==
    ASSUME RenTyped, RenTyped', NEW d \in Renames!Machines, RenEntered(d), FitInv, ApartInv, FollowInv
    PROVE  FitInv' /\ ApartInv' /\ FollowInv'
<1>1. FitInv'
  BY DEF RenEntered, FitInv
<1>2. ApartInv'
  <2>1. budget'.fails = Fails => budget.fails = Fails
    BY RenameNames DEF RenTyped, RenEntered
  <2> QED BY <2>1 DEF RenEntered, ApartInv
<1>3. FollowInv'
  <2> SUFFICES ASSUME ~stale', ~undone' PROVE FollowInv'
    BY DEF FollowInv
  <2>1. \A o \in Renames!Machines : Halfway(o)' <=> Halfway(o)
    BY RenameNames DEF RenEntered, Halfway, Renames!Phases
  <2>2. \A o \in Renames!Machines : Halfway(o) => change'[o] = change[o]
    BY RenameNames DEF RenEntered, Halfway, Renames!Phases
  <2>3. ~stale /\ ~undone /\ named' = named /\ meant' = meant
    BY DEF RenEntered
  <2>4. CASE named = meant /\ \A o \in Renames!Machines : ~Halfway(o)
    BY <2>1, <2>3, <2>4 DEF FollowInv
  <2>5. CASE \E o \in Renames!Machines :
              /\ Halfway(o) /\ \A other \in Renames!Machines \ {o} : ~Halfway(other)
              /\ meant = Follows(named, change[o])
    BY <2>1, <2>2, <2>3, <2>5 DEF FollowInv, Follows
  <2> QED BY <2>3, <2>4, <2>5 DEF FollowInv
<1> QED BY <1>1, <1>2, <1>3

\* No operation goes back to its entries.
LEMMA FitKeeps ==
    ASSUME FitInv, NEW d \in Renames!Machines, NEW at \in {"timer", "shares", "colors", "failed"},
           RenGoes(d, at) \/ RenEnds(d)
    PROVE  FitInv'
BY RenameNames DEF FitInv, RenGoes, RenEnds, Renames!Phases

LEMMA ApartKeeps ==
    ASSUME RenTyped, RenTyped', ApartInv, UNCHANGED <<home, stale>>, budget'.fails <= budget.fails
    PROVE  ApartInv'
<1>1. budget'.fails = Fails => budget.fails = Fails
  BY RenameNames DEF RenTyped
<1> QED BY <1>1 DEF ApartInv

LEMMA MoveKeeps ==
    ASSUME RenTyped, NEW d \in Renames!Machines, Renames!MoveEntries(d), FitInv, ApartInv, FollowInv
    PROVE  FitInv' /\ ApartInv' /\ FollowInv'
<1>1. /\ RenTyped'
      /\ change[d].at = "entries"
      /\ RenGoes(d, "timer") \/ RenGoes(d, "shares")
      /\ meant' = Follows(meant, change[d])
      /\ UNCHANGED <<named, undone, budget>>
  BY MoveSteps
<1>2. ~stale' => /\ ~stale /\ change[d].seen = home
                 /\ \A o \in Renames!Machines \ {d} : change[o].at = None
                 /\ \A e \in Entries :
                       home'[e] = IF home[e] = change[d].from /\ home[e] # None
                                  THEN change[d].to ELSE home[e]
  BY MoveSteps
<1>3. FitInv'
  BY <1>1, FitKeeps
<1>4. ApartInv'
  <2> SUFFICES ASSUME ~stale', budget'.fails = Fails,
                      NEW e \in Entries, NEW f \in Entries, First[e] # First[f], home'[e] = home'[f]
               PROVE  home'[e] = None
    BY DEF ApartInv
  <2>1. home[e] = home[f] => home[e] = None
    BY <1>1, <1>2 DEF ApartInv
  <2>2. Fitting(change[d]) /\ change[d].seen = home
    BY <1>1, <1>2 DEF FitInv
  <2>3. change[d].to = None \/ ~(\E g, h \in Entries : home[g] = change[d].to /\ home[h] = change[d].from)
    <3> SUFFICES ASSUME change[d].to # None, NEW g \in Entries, NEW h \in Entries,
                        home[g] = change[d].to, home[h] = change[d].from
                 PROVE  FALSE
      OBVIOUS
    <3>1. change[d].from # None
      BY <2>2, RenameNames DEF Fitting
    <3>2. change[d].to \in Renames!Named(home) /\ change[d].from \in Renames!Named(home)
      BY <3>1 DEF Renames!Named
    <3> QED BY <2>2, <3>2 DEF Fitting
  <2>4. /\ home'[e] = IF home[e] = change[d].from /\ home[e] # None THEN change[d].to ELSE home[e]
        /\ home'[f] = IF home[f] = change[d].from /\ home[f] # None THEN change[d].to ELSE home[f]
    BY <1>2
  <2>5. First[f] # First[e] /\ home'[f] = home'[e]
    OBVIOUS
  <2>6. CASE home[e] = change[d].from /\ home[e] # None /\ ~(home[f] = change[d].from /\ home[f] # None)
    BY <2>3, <2>4, <2>6
  <2>7. CASE home[f] = change[d].from /\ home[f] # None /\ ~(home[e] = change[d].from /\ home[e] # None)
    BY <2>3, <2>4, <2>7
  <2>8. CASE ~(home[e] = change[d].from /\ home[e] # None) /\ ~(home[f] = change[d].from /\ home[f] # None)
    BY <2>1, <2>4, <2>8
  <2>9. CASE home[e] = change[d].from /\ home[e] # None /\ home[f] = change[d].from /\ home[f] # None
    BY <2>1, <2>9
  <2> QED BY <2>6, <2>7, <2>8, <2>9
<1>5. FollowInv'
  <2> SUFFICES ASSUME ~stale', ~undone' PROVE FollowInv'
    BY DEF FollowInv
  <2>1. ~stale /\ ~undone /\ \A o \in Renames!Machines \ {d} : change[o].at = None
    BY <1>1, <1>2
  <2>2. \A o \in Renames!Machines : ~Halfway(o)
    BY <1>1, <2>1, RenameNames DEF Halfway, Renames!Phases
  <2>3. named = meant
    BY <2>1, <2>2 DEF FollowInv
  <2>4. Halfway(d)' /\ \A o \in Renames!Machines \ {d} : ~Halfway(o)'
    BY <1>1, <2>2 DEF RenGoes, Halfway
  <2>5. meant' = Follows(named', change'[d])
    <3>1. change'[d].from = change[d].from /\ change'[d].to = change[d].to
      BY <1>1 DEF RenGoes
    <3>2. meant' = Follows(named', change[d])
      BY <1>1, <2>3
    <3> QED BY <3>1, <3>2 DEF Follows
  <2> QED BY <2>4, <2>5 DEF FollowInv, Follows
<1> QED BY <1>3, <1>4, <1>5

LEMMA MoveSomeKeeps ==
    ASSUME RenTyped, NEW d \in Renames!Machines, Renames!MoveSome(d), FitInv, ApartInv, FollowInv
    PROVE  FitInv' /\ ApartInv' /\ FollowInv'
<1>1. /\ RenTyped'
      /\ change[d].at = "entries" /\ RenGoes(d, "failed")
      /\ UNCHANGED <<named, meant, stale, undone>>
      /\ budget'.fails < budget.fails
  BY MoveSomeSteps
<1>2. FitInv'
  BY <1>1, FitKeeps
<1>3. ApartInv'
  <2>1. budget'.fails # Fails
    BY <1>1, RenameNames DEF RenTyped
  <2> QED BY <2>1 DEF ApartInv
<1>4. FollowInv'
  <2>1. \A o \in Renames!Machines : Halfway(o)' <=> Halfway(o)
    BY <1>1 DEF RenGoes, Halfway
  <2>2. \A o \in Renames!Machines : Halfway(o) => change'[o] = change[o]
    BY <1>1 DEF RenGoes, Halfway
  <2> QED BY <1>1, <2>1, <2>2 DEF FollowInv, Follows
<1> QED BY <1>2, <1>3, <1>4

LEMMA TimerKeeps ==
    ASSUME RenTyped, NEW d \in Renames!Machines, Renames!RenameTimer(d), FitInv, ApartInv, FollowInv
    PROVE  FitInv' /\ ApartInv' /\ FollowInv'
<1>1. /\ RenTyped'
      /\ change[d].at = "timer"
      /\ (RenGoes(d, "shares") /\ undone' = undone) \/ (RenGoes(d, "failed") /\ undone')
      /\ UNCHANGED <<home, named, meant, stale>> /\ budget'.fails <= budget.fails
  BY TimerSteps
<1>2. FitInv' /\ ApartInv'
  BY <1>1, FitKeeps, ApartKeeps
<1>3. FollowInv'
  <2> SUFFICES ASSUME ~stale', ~undone' PROVE FollowInv'
    BY DEF FollowInv
  <2>1. RenGoes(d, "shares") /\ ~stale /\ ~undone
    BY <1>1
  <2>2. \A o \in Renames!Machines : Halfway(o)' <=> Halfway(o)
    BY <1>1, <2>1 DEF RenGoes, Halfway
  <2>3. PICK o \in Renames!Machines : /\ Halfway(o) /\ \A other \in Renames!Machines \ {o} : ~Halfway(other)
                                      /\ meant = Follows(named, change[o])
    BY <1>1, <2>1 DEF FollowInv, Halfway
  <2>4. change'[o].from = change[o].from /\ change'[o].to = change[o].to
    BY <2>1 DEF RenGoes
  <2>5. meant' = Follows(named', change'[o])
    BY <1>1, <2>3, <2>4 DEF Follows
  <2> QED BY <2>2, <2>3, <2>5 DEF FollowInv, Follows
<1> QED BY <1>2, <1>3

LEMMA ReshareKeeps ==
    ASSUME RenTyped, NEW d \in Renames!Machines, Renames!Reshare(d), FitInv, ApartInv, FollowInv
    PROVE  FitInv' /\ ApartInv' /\ FollowInv'
<1>1. /\ RenTyped'
      /\ change[d].at = "shares"
      /\ RenGoes(d, "colors") \/ RenGoes(d, "failed") \/ RenEnds(d)
      /\ undone' \/ (undone' = undone /\ named' = Follows(named, change[d]) /\ ~RenGoes(d, "failed"))
      /\ UNCHANGED <<home, meant, stale>> /\ budget'.fails <= budget.fails
  BY ReshareSteps
<1>2. FitInv' /\ ApartInv'
  BY <1>1, FitKeeps, ApartKeeps
<1>3. FollowInv'
  <2> SUFFICES ASSUME ~stale', ~undone' PROVE FollowInv'
    BY DEF FollowInv
  <2>1. ~stale /\ ~undone /\ named' = Follows(named, change[d]) /\ meant' = meant
        /\ (RenGoes(d, "colors") \/ RenEnds(d))
    BY <1>1
  <2>2. Halfway(d)
    BY <1>1 DEF Halfway
  <2>3. meant = Follows(named, change[d]) /\ \A o \in Renames!Machines \ {d} : ~Halfway(o)
    BY <2>1, <2>2 DEF FollowInv
  <2>4. \A o \in Renames!Machines : ~Halfway(o)'
    BY <2>1, <2>3, RenameNames DEF RenGoes, RenEnds, Halfway, Renames!Phases
  <2> QED BY <2>1, <2>3, <2>4 DEF FollowInv
<1> QED BY <1>2, <1>3

LEMMA LastKeeps ==
    ASSUME RenTyped, NEW d \in Renames!Machines, Renames!MoveColor(d) \/ Renames!GiveUp(d),
           FitInv, ApartInv, FollowInv
    PROVE  FitInv' /\ ApartInv' /\ FollowInv'
<1>1. /\ RenTyped'
      /\ change[d].at \in {"colors", "failed"} /\ RenEnds(d)
      /\ UNCHANGED <<home, named, meant, stale, undone>> /\ budget'.fails <= budget.fails
  BY LastSteps
<1>2. FitInv' /\ ApartInv'
  BY <1>1, FitKeeps, ApartKeeps
<1>3. FollowInv'
  <2>1. \A o \in Renames!Machines : Halfway(o)' <=> Halfway(o)
    BY <1>1, RenameNames DEF RenEnds, Halfway, Renames!Phases
  <2>2. \A o \in Renames!Machines : Halfway(o) => change'[o] = change[o]
    BY <1>1 DEF RenEnds, Halfway
  <2> QED BY <1>1, <2>1, <2>2 DEF FollowInv, Follows
<1> QED BY <1>2, <1>3

-----------------------------------------------------------------------------

\* The invariant of the renames, where they are what moves.
RenamesInv == part = "renames" => RenTyped /\ FitInv /\ ApartInv /\ FollowInv

LEMMA InitRenames == AnyInit => RenamesInv
BY InitRenTyped, InitRenamed DEF AnyInit, RenamesInv

LEMMA RenamesStep ==
    ASSUME RenTyped, FitInv, ApartInv, FollowInv, Renames!Next
    PROVE  RenTyped' /\ FitInv' /\ ApartInv' /\ FollowInv'
<1>1. PICK d \in Renames!Machines :
        \/ \E proj \in Movable :
               \/ Renames!Create(d, proj) \/ Renames!PhoneDelete(d, proj) \/ Renames!DesktopDelete(d, proj)
               \/ (\E to \in Movable : Renames!PhoneRename(d, proj, to) \/ Renames!DesktopRename(d, proj, to))
               \/ (\E color \in Palette \cup {Automatic} : Renames!Choose(d, proj, color))
        \/ Renames!Reload(d) \/ Renames!SyncSoon(d) \/ Renames!Syncing(d) \/ Renames!SyncFail(d)
        \/ Renames!SignOut(d) \/ (\E acct \in Accounts : Renames!SignIn(d, acct))
        \/ Renames!Change(d) \/ Renames!MoveSome(d) \/ Renames!GiveUp(d)
  BY DEF Renames!Next
<1>2. CASE \/ \E proj \in Movable :
                 \/ Renames!Create(d, proj)
                 \/ \E color \in Palette \cup {Automatic} : Renames!Choose(d, proj, color)
           \/ Renames!SyncSoon(d) \/ Renames!Syncing(d) \/ Renames!SyncFail(d)
  BY <1>2, ColorSteps, QuietKeeps
<1>3. CASE \/ Renames!Reload(d) \/ Renames!SignOut(d)
           \/ \E acct \in Accounts : Renames!SignIn(d, acct)
  BY <1>3, ListSteps, QuietKeeps
<1>4. CASE \E proj \in Movable :
             \/ Renames!PhoneDelete(d, proj) \/ Renames!DesktopDelete(d, proj)
             \/ \E to \in Movable : Renames!PhoneRename(d, proj, to) \/ Renames!DesktopRename(d, proj, to)
  BY <1>4, EnterSteps, EnterKeeps
<1>5. CASE Renames!MoveEntries(d)
  BY <1>5, MoveSteps, MoveKeeps
<1>6. CASE Renames!MoveSome(d)
  BY <1>6, MoveSomeSteps, MoveSomeKeeps
<1>7. CASE Renames!RenameTimer(d)
  BY <1>7, TimerSteps, TimerKeeps
<1>8. CASE Renames!Reshare(d)
  BY <1>8, ReshareSteps, ReshareKeeps
<1>9. CASE Renames!MoveColor(d) \/ Renames!GiveUp(d)
  BY <1>9, LastSteps, LastKeeps
<1> QED BY <1>1, <1>2, <1>3, <1>4, <1>5, <1>6, <1>7, <1>8, <1>9 DEF Renames!Change

LEMMA NextRenames == RenamesInv /\ [AnyNext]_<<part, sharing, projects>> => RenamesInv'
<1> SUFFICES ASSUME RenamesInv, [AnyNext]_<<part, sharing, projects>>, part' = "renames"
             PROVE  RenTyped' /\ FitInv' /\ ApartInv' /\ FollowInv'
  BY DEF RenamesInv
<1>1. part = "renames" /\ (Renames!Next \/ UNCHANGED projects)
  BY DEF AnyNext
<1>2. RenTyped /\ FitInv /\ ApartInv /\ FollowInv
  BY <1>1 DEF RenamesInv
<1>3. CASE Renames!Next
  BY <1>2, <1>3, RenamesStep
<1>4. CASE UNCHANGED projects
  <2>1. UNCHANGED <<home, named, meant, change, stale, undone, listed, who, budget>>
    BY <1>4 DEF projects
  <2>2. RenTyped'
    BY <1>2, <2>1 DEF RenTyped
  <2>3. RenQuiet
    BY <1>2, <2>1, Spends DEF RenQuiet
  <2> QED BY <1>2, <2>2, <2>3, QuietKeeps
<1> QED BY <1>1, <1>3, <1>4

\* What holds at every stage of a rename or a deletion.
THEOREM RenamesInvariant == AnySpec => []RenamesInv
BY InitRenames, NextRenames, PTL DEF AnySpec

\* Entries of different projects come under one name by no rename, unless two
\* devices renamed past one another or one went through in part.
THEOREM HistoriesStayApart == AnySpec => []HistoriesApart
<1>1. RenamesInv => HistoriesApart
  BY DEF RenamesInv, ApartInv, HistoriesApart, Renames!HistoriesApart
<1> QED BY <1>1, RenamesInvariant, PTL

\* A project that the user shares stays shared under each new name, and nothing
\* else becomes shared, unless a request after the entries' failed or two
\* devices renamed past one another.
THEOREM SharesFollow == AnySpec => []TeamFollows
<1>1. RenamesInv => TeamFollows
  <2> SUFFICES ASSUME RenamesInv, part = "renames", ~stale, ~undone,
                      \A d \in Renames!Machines : change[d] = Renames!Free
               PROVE  named = meant
    BY DEF TeamFollows, Renames!TeamFollows
  <2>1. Renames!Free.at = None
    BY DEF Renames!Free
  <2>2. \A d \in Renames!Machines : ~Halfway(d)
    BY <2>1, RenameNames DEF Halfway, Renames!Phases
  <2> QED BY <2>2 DEF RenamesInv, FollowInv
<1> QED BY <1>1, RenamesInvariant, PTL

-----------------------------------------------------------------------------
(* Colors *)

Shades == [Pinnable -> Colors!Choice \cup {None}]

\* A color sync in flight, or none.
Syncs == [pc : {"idle", "token", "read", "patch", "adopt"}, acct : Accounts \cup {None},
          snap : Shades, merged : Shades, late : BOOLEAN]

\* What the invariants below need of the types; colors are chosen with nothing
\* being renamed.
ShadeTyped ==
    /\ colors \in [Colors!Machines -> Shades]
    /\ server \in [Accounts -> Shades]
    /\ who \in [Colors!Machines -> Accounts \cup {None}]
    /\ \A d \in Desktops : who[d] # None
    /\ sync \in [Colors!Machines -> Syncs]
    /\ \A d \in Colors!Machines : sync[d].pc # "idle" => sync[d].acct \in Accounts
    /\ clock \in Nat
    /\ \A d \in Colors!Machines : change[d].at = None
    /\ budget.changes = 0 /\ budget \in [choices : Nat, changes : Nat, fails : Nat, outs : Nat]

\* A choice someone holds for a project, or will after a sync.
Held(proj, u) ==
    \/ \E d \in Colors!Machines :
        u = colors[d][proj] \/ u = sync[d].snap[proj] \/ u = sync[d].merged[proj]
    \/ \E acct \in Accounts : u = server[acct][proj]

\* A time names a project's choice.
TimeNames ==
    \A proj \in Pinnable : \A u, w \in Colors!Choice :
        Held(proj, u) /\ Held(proj, w) => u.at <= clock /\ (u.at = w.at => u = w)

\* A sync holds the device's own choices until one is made meanwhile.
SnapStands ==
    \A d \in Colors!Machines :
        sync[d].pc \in {"read", "patch", "adopt"} /\ ~sync[d].late =>
            \A proj \in Pinnable : colors[d][proj] = None \/ colors[d][proj] = sync[d].snap[proj]

\* What a sync will adopt is no older than what it took along.
MergeStands ==
    \A d \in Colors!Machines : sync[d].pc \in {"patch", "adopt"} =>
        \A proj \in Pinnable : sync[d].snap[proj] # None =>
            /\ sync[d].merged[proj] # None
            /\ \/ sync[d].merged[proj] = sync[d].snap[proj]
               \/ sync[d].merged[proj].at > sync[d].snap[proj].at

ShadeInv == ShadeTyped /\ TimeNames /\ SnapStands /\ MergeStands

LEMMA ShadeNames ==
    /\ None \notin Colors!Choice /\ None \notin Accounts
    /\ None \notin Colors!Phases /\ None \notin Colors!Kinds
    /\ me \in Accounts /\ Fails \in Nat /\ Picks \in Nat /\ Outs \in Nat
BY ProjectsInBounds DEF Colors!ProjectsNone, Colors!ProjectsBounds

LEMMA StillTyped == Colors!NoColors \in Shades /\ Colors!Still \in Syncs /\ Colors!Still.pc = "idle"
<1>1. Colors!NoColors \in Shades
  BY DEF Colors!NoColors, Shades
<1> QED BY <1>1 DEF Colors!Still, Syncs

LEMMA InitShades == ASSUME Colors!Init PROVE ShadeInv
<1>1. colors = [d \in Colors!Machines |-> Colors!NoColors] /\ server = [acct \in Accounts |-> Colors!NoColors]
      /\ sync = [d \in Colors!Machines |-> Colors!Still] /\ clock = 0
  BY DEF Colors!Init
<1>2. ShadeTyped
  <2>1. who \in [Colors!Machines -> Accounts \cup {None}] /\ \A d \in Desktops : who[d] # None
    BY ShadeNames DEF Colors!Init, Colors!Machines
  <2>2. \A d \in Colors!Machines : change[d].at = None
    BY DEF Colors!Init, Colors!Free
  <2>3. budget.changes = 0 /\ budget \in [choices : Nat, changes : Nat, fails : Nat, outs : Nat]
    BY ShadeNames DEF Colors!Init
  <2> QED BY <1>1, <2>1, <2>2, <2>3, StillTyped DEF ShadeTyped
<1>3. \A proj \in Pinnable : \A u \in Colors!Choice : ~Held(proj, u)
  <2>1. \A proj \in Pinnable : Colors!NoColors[proj] = None
    BY DEF Colors!NoColors
  <2>2. Colors!Still.snap = Colors!NoColors /\ Colors!Still.merged = Colors!NoColors
    BY DEF Colors!Still
  <2> QED BY <1>1, <2>1, <2>2, ShadeNames DEF Held
<1>4. TimeNames
  BY <1>3 DEF TimeNames
<1>5. SnapStands /\ MergeStands
  BY <1>1, StillTyped DEF SnapStands, MergeStands
<1> QED BY <1>2, <1>4, <1>5 DEF ShadeInv

\* Nothing new is held but what is chosen now.
LEMMA HeldNames ==
    ASSUME TimeNames, clock \in Nat, NEW fresh, NEW target,
           \A proj \in Pinnable : \A u \in Colors!Choice :
               Held(proj, u)' => Held(proj, u) \/ (u = fresh /\ proj = target),
           clock' = clock + 1 /\ fresh.at = clock + 1
    PROVE  TimeNames'
<1> SUFFICES ASSUME NEW proj \in Pinnable, NEW u \in Colors!Choice, NEW w \in Colors!Choice,
                    Held(proj, u)', Held(proj, w)'
             PROVE  u.at <= clock' /\ (u.at = w.at => u = w)
  BY DEF TimeNames
<1>1. u.at \in Nat /\ w.at \in Nat
  BY DEF Colors!Choice
<1>2. Held(proj, u) \/ u = fresh
  OBVIOUS
<1>3. Held(proj, w) \/ w = fresh
  OBVIOUS
<1>4. Held(proj, u) => u.at <= clock
  BY DEF TimeNames
<1>5. Held(proj, w) => w.at <= clock
  BY DEF TimeNames
<1>6. Held(proj, u) /\ Held(proj, w) => (u.at = w.at => u = w)
  BY DEF TimeNames
<1> QED BY <1>1, <1>2, <1>3, <1>4, <1>5, <1>6

LEMMA HeldStays ==
    ASSUME TimeNames,
           \A proj \in Pinnable : \A u \in Colors!Choice : Held(proj, u)' => Held(proj, u),
           clock' = clock
    PROVE  TimeNames'
BY DEF TimeNames

LEMMA ShadeSpends ==
    ASSUME ShadeTyped,
           \/ budget' = budget
           \/ budget.choices > 0 /\ budget' = [budget EXCEPT !.choices = @ - 1]
           \/ budget.fails > 0 /\ budget' = [budget EXCEPT !.fails = @ - 1]
           \/ budget.outs > 0 /\ budget' = [budget EXCEPT !.outs = @ - 1]
    PROVE  budget' \in [choices : Nat, changes : Nat, fails : Nat, outs : Nat] /\ budget'.changes = 0
BY DEF ShadeTyped

LEMMA SyncSet ==
    ASSUME ShadeTyped, NEW d \in Colors!Machines, NEW now \in Syncs, sync' = [sync EXCEPT ![d] = now],
           now.pc # "idle" => now.acct \in Accounts
    PROVE  /\ sync' \in [Colors!Machines -> Syncs]
           /\ sync'[d] = now /\ \A o \in Colors!Machines \ {d} : sync'[o] = sync[o]
           /\ \A o \in Colors!Machines : sync'[o].pc # "idle" => sync'[o].acct \in Accounts
<1>1. sync \in [Colors!Machines -> Syncs]
      /\ \A o \in Colors!Machines : sync[o].pc # "idle" => sync[o].acct \in Accounts
  BY DEF ShadeTyped
<1>2. /\ sync' \in [Colors!Machines -> Syncs]
      /\ sync'[d] = now /\ \A o \in Colors!Machines \ {d} : sync'[o] = sync[o]
  BY <1>1
<1> QED BY <1>1, <1>2

\* A sync goes on with choices somebody holds.
LEMMA SyncStep ==
    ASSUME ShadeInv, NEW d \in Colors!Machines, NEW now \in Syncs, sync' = [sync EXCEPT ![d] = now],
           now.pc # "idle" => now.acct \in Accounts,
           UNCHANGED <<colors, who, change, clock>>,
           budget' \in [choices : Nat, changes : Nat, fails : Nat, outs : Nat] /\ budget'.changes = 0,
           server' \in [Accounts -> Shades],
           \A acct \in Accounts, proj \in Pinnable : \A u \in Colors!Choice :
               u = server'[acct][proj] => Held(proj, u),
           \A proj \in Pinnable : \A u \in Colors!Choice :
               u = now.snap[proj] \/ u = now.merged[proj] => Held(proj, u),
           now.pc \in {"read", "patch", "adopt"} /\ ~now.late =>
               \A proj \in Pinnable : colors[d][proj] = None \/ colors[d][proj] = now.snap[proj],
           now.pc \in {"patch", "adopt"} => \A proj \in Pinnable : now.snap[proj] # None =>
               /\ now.merged[proj] # None
               /\ now.merged[proj] = now.snap[proj] \/ now.merged[proj].at > now.snap[proj].at
    PROVE  ShadeInv'
<1>1. /\ sync' \in [Colors!Machines -> Syncs]
      /\ sync'[d] = now /\ \A o \in Colors!Machines \ {d} : sync'[o] = sync[o]
      /\ \A o \in Colors!Machines : sync'[o].pc # "idle" => sync'[o].acct \in Accounts
  BY SyncSet DEF ShadeInv
<1>2. ShadeTyped'
  BY <1>1 DEF ShadeInv, ShadeTyped
<1>3. ASSUME NEW proj \in Pinnable, NEW u \in Colors!Choice, Held(proj, u)'
      PROVE  Held(proj, u)
  <2>1. CASE \E o \in Colors!Machines :
               u = colors'[o][proj] \/ u = sync'[o].snap[proj] \/ u = sync'[o].merged[proj]
    <3>1. PICK o \in Colors!Machines :
               u = colors'[o][proj] \/ u = sync'[o].snap[proj] \/ u = sync'[o].merged[proj]
      BY <2>1
    <3>2. CASE o = d
      BY <1>1, <3>1, <3>2 DEF Held
    <3>3. CASE o # d
      BY <1>1, <3>1, <3>3 DEF Held
    <3> QED BY <3>2, <3>3
  <2>2. CASE \E acct \in Accounts : u = server'[acct][proj]
    BY <2>2
  <2> QED BY <1>3, <2>1, <2>2 DEF Held
<1>4. TimeNames'
  BY <1>3, HeldStays DEF ShadeInv
<1>5. SnapStands'
  BY <1>1 DEF ShadeInv, SnapStands
<1>6. MergeStands'
  BY <1>1 DEF ShadeInv, MergeStands
<1> QED BY <1>2, <1>4, <1>5, <1>6 DEF ShadeInv

\* Each project's choice is one of the two, and the newer.
LEMMA Merging ==
    ASSUME NEW us \in Shades, NEW theirs \in Shades
    PROVE  /\ Colors!MergeColors(us, theirs) \in Shades
           /\ \A proj \in Pinnable :
                /\ Colors!MergeColors(us, theirs)[proj] = us[proj] \/ Colors!MergeColors(us, theirs)[proj] = theirs[proj]
                /\ theirs[proj] # None =>
                     \/ Colors!MergeColors(us, theirs)[proj] = theirs[proj]
                     \/ us[proj] # None /\ Colors!MergeColors(us, theirs)[proj] = us[proj]
                        /\ ~(theirs[proj].at > us[proj].at)
BY DEF Colors!MergeColors, Shades

LEMMA SyncShape ==
    ASSUME ShadeInv, NEW d \in Colors!Machines
    PROVE  /\ sync[d] \in Syncs /\ colors[d] \in Shades /\ sync[d].snap \in Shades
           /\ sync[d].merged \in Shades
           /\ sync[d].pc # "idle" => sync[d].acct \in Accounts /\ server[sync[d].acct] \in Shades
           /\ \A proj \in Pinnable : \A u \in Colors!Choice :
                u = colors[d][proj] \/ u = sync[d].snap[proj] \/ u = sync[d].merged[proj] => Held(proj, u)
           /\ \A acct \in Accounts, proj \in Pinnable : \A u \in Colors!Choice :
                u = server[acct][proj] => Held(proj, u)
           /\ \A proj \in Pinnable : Colors!NoColors[proj] = None
           /\ \A u \in Colors!Choice : u # None
<1>1. \A proj \in Pinnable : Colors!NoColors[proj] = None
  BY DEF Colors!NoColors
<1>2. \A u \in Colors!Choice : u # None
  BY ShadeNames
<1>3. sync[d] \in Syncs /\ colors[d] \in Shades
      /\ (sync[d].pc # "idle" => sync[d].acct \in Accounts /\ server[sync[d].acct] \in Shades)
  BY DEF ShadeInv, ShadeTyped
<1> QED BY <1>1, <1>2, <1>3 DEF Held, Syncs

LEMMA SyncBegins ==
    ASSUME ShadeInv, NEW d \in Colors!Machines,
           Colors!SyncSoon(d) \/ Colors!SyncTake(d) \/ Colors!SyncRefused(d)
    PROVE  ShadeInv'
<1>1. UNCHANGED <<colors, who, change, clock, server, budget>>
  BY DEF Colors!SyncSoon, Colors!SyncTake, Colors!SyncRefused, Colors!SyncGoes, Colors!Rest
<1>2. budget' \in [choices : Nat, changes : Nat, fails : Nat, outs : Nat] /\ budget'.changes = 0
  BY <1>1, ShadeSpends DEF ShadeInv
<1>3. server' \in [Accounts -> Shades]
  BY <1>1 DEF ShadeInv, ShadeTyped
<1>4. who[d] \in Accounts \cup {None}
  BY DEF ShadeInv, ShadeTyped
<1>5. \A acct \in Accounts, proj \in Pinnable : \A u \in Colors!Choice :
          u = server'[acct][proj] => Held(proj, u)
  BY <1>1, SyncShape
<1>6. CASE Colors!SyncSoon(d)
  <2> DEFINE now == [Colors!Still EXCEPT !.pc = "token", !.acct = who[d]]
  <2>1. who[d] \in Accounts /\ sync[d].pc = "idle"
    BY <1>4, <1>6 DEF Colors!SyncSoon
  <2>2. sync' = [sync EXCEPT ![d] = now]
    <3>1. sync' = [sync EXCEPT ![d] = Colors!Begin(sync[d], who[d])]
      BY <1>6 DEF Colors!SyncSoon
    <3>2. Colors!Begin(sync[d], who[d]) = now
      BY <2>1 DEF Colors!Begin
    <3> QED BY <3>1, <3>2
  <2>3. /\ now \in Syncs /\ now.pc = "token" /\ now.acct \in Accounts
        /\ now.snap = Colors!NoColors /\ now.merged = Colors!NoColors
    BY <2>1, StillTyped DEF Colors!Still, Syncs
  <2> HIDE DEF now
  <2>4. \A proj \in Pinnable : \A u \in Colors!Choice :
            u = now.snap[proj] \/ u = now.merged[proj] => Held(proj, u)
    BY <2>3, SyncShape
  <2> QED BY <1>1, <1>2, <1>3, <1>5, <2>2, <2>3, <2>4, SyncStep
<1>7. CASE Colors!SyncTake(d)
  <2> DEFINE now == [sync[d] EXCEPT !.pc = "read", !.snap = colors[d], !.late = FALSE]
  <2>1. sync' = [sync EXCEPT ![d] = now] /\ sync[d].pc = "token"
    BY <1>7 DEF Colors!SyncTake, Colors!SyncGoes
  <2>2. /\ now \in Syncs /\ now.pc = "read" /\ now.acct \in Accounts
        /\ now.snap = colors[d] /\ now.merged = sync[d].merged
    BY <2>1, SyncShape DEF Syncs
  <2> HIDE DEF now
  <2>3. \A proj \in Pinnable : \A u \in Colors!Choice :
            u = now.snap[proj] \/ u = now.merged[proj] => Held(proj, u)
    BY <2>2, SyncShape
  <2>4. \A proj \in Pinnable : colors[d][proj] = None \/ colors[d][proj] = now.snap[proj]
    BY <2>2
  <2> QED BY <1>1, <1>2, <1>3, <1>5, <2>1, <2>2, <2>3, <2>4, SyncStep
<1>8. CASE Colors!SyncRefused(d)
  <2>1. sync' = [sync EXCEPT ![d] = Colors!Still]
    BY <1>8 DEF Colors!SyncRefused, Colors!SyncGoes
  <2>2. Colors!Still.snap = Colors!NoColors /\ Colors!Still.merged = Colors!NoColors
    BY DEF Colors!Still
  <2>3. \A proj \in Pinnable : \A u \in Colors!Choice :
            u = Colors!Still.snap[proj] \/ u = Colors!Still.merged[proj] => Held(proj, u)
    BY <2>2, SyncShape
  <2> QED BY <1>1, <1>2, <1>3, <1>5, <2>1, <2>3, StillTyped, SyncStep
<1> QED BY <1>6, <1>7, <1>8

LEMMA SyncReads ==
    ASSUME ShadeInv, NEW d \in Colors!Machines, Colors!SyncRead(d)
    PROVE  ShadeInv'
<1> DEFINE remote == IF column THEN server[sync[d].acct] ELSE Colors!NoColors
           merged == Colors!MergeColors(remote, sync[d].snap)
           now == [sync[d] EXCEPT !.merged = merged, !.pc = IF merged = remote THEN "adopt" ELSE "patch"]
<1>1. UNCHANGED <<colors, who, change, clock, server, budget>>
  BY DEF Colors!SyncRead, Colors!SyncGoes, Colors!Rest
<1>2. budget' \in [choices : Nat, changes : Nat, fails : Nat, outs : Nat] /\ budget'.changes = 0
      /\ server' \in [Accounts -> Shades]
  BY <1>1, ShadeSpends DEF ShadeInv, ShadeTyped
<1>3. sync' = [sync EXCEPT ![d] = now] /\ sync[d].pc = "read"
  BY DEF Colors!SyncRead, Colors!SyncGoes
<1>4. /\ remote \in Shades /\ sync[d].snap \in Shades
      /\ \A proj \in Pinnable : \A u \in Colors!Choice : u = remote[proj] => Held(proj, u)
  BY <1>3, StillTyped, SyncShape
<1>5. /\ merged \in Shades
      /\ \A proj \in Pinnable :
           /\ merged[proj] = remote[proj] \/ merged[proj] = sync[d].snap[proj]
           /\ sync[d].snap[proj] # None =>
                \/ merged[proj] = sync[d].snap[proj]
                \/ remote[proj] # None /\ merged[proj] = remote[proj]
                   /\ ~(sync[d].snap[proj].at > remote[proj].at)
  BY <1>4, Merging
<1> HIDE DEF remote, merged
<1>6. /\ now \in Syncs /\ now.pc \in {"adopt", "patch"} /\ now.acct \in Accounts
      /\ now.snap = sync[d].snap /\ now.merged = merged /\ now.late = sync[d].late
  BY <1>3, <1>5, SyncShape DEF Syncs
<1>7. \A proj \in Pinnable : \A u \in Colors!Choice :
          u = now.snap[proj] \/ u = now.merged[proj] => Held(proj, u)
  BY <1>4, <1>5, <1>6, SyncShape
<1>8. ASSUME NEW proj \in Pinnable, now.snap[proj] # None
      PROVE  /\ now.merged[proj] # None
             /\ now.merged[proj] = now.snap[proj] \/ now.merged[proj].at > now.snap[proj].at
  <2>1. sync[d].snap[proj] \in Colors!Choice /\ sync[d].snap[proj] # None
    BY <1>4, <1>6, <1>8 DEF Shades
  <2>2. CASE merged[proj] = sync[d].snap[proj]
    BY <1>6, <2>1, <2>2
  <2>3. CASE remote[proj] # None /\ merged[proj] = remote[proj] /\ ~(sync[d].snap[proj].at > remote[proj].at)
    <3>1. remote[proj] \in Colors!Choice
      BY <1>4, <2>3 DEF Shades
    <3>2. Held(proj, remote[proj]) /\ Held(proj, sync[d].snap[proj])
      BY <1>4, <2>1, <3>1, SyncShape
    <3>3. sync[d].snap[proj].at = remote[proj].at => sync[d].snap[proj] = remote[proj]
      BY <2>1, <3>1, <3>2 DEF ShadeInv, TimeNames
    <3>4. sync[d].snap[proj].at \in Nat /\ remote[proj].at \in Nat
      BY <2>1, <3>1 DEF Colors!Choice
    <3> QED BY <1>6, <2>3, <3>3, <3>4
  <2> QED BY <1>5, <2>1, <2>2, <2>3
<1>9. ~now.late => \A proj \in Pinnable : colors[d][proj] = None \/ colors[d][proj] = now.snap[proj]
  BY <1>3, <1>6 DEF ShadeInv, SnapStands
<1> HIDE DEF now
<1>10. \A acct \in Accounts, proj \in Pinnable : \A u \in Colors!Choice :
          u = server'[acct][proj] => Held(proj, u)
  BY <1>1, SyncShape
<1> QED BY <1>1, <1>2, <1>3, <1>6, <1>7, <1>8, <1>9, <1>10, SyncStep

\* The write leaves the row with choices the sync carried, and a server without
\* the column makes it keep its own.
LEMMA SyncWrites ==
    ASSUME ShadeInv, NEW d \in Colors!Machines, Colors!SyncPatch(d)
    PROVE  ShadeInv'
<1> DEFINE merged == IF column THEN sync[d].merged ELSE sync[d].snap
           now == [sync[d] EXCEPT !.pc = "adopt", !.merged = merged]
<1>1. UNCHANGED <<colors, who, change, clock, budget>>
  BY DEF Colors!SyncPatch, Colors!SyncGoes, Colors!Rest
<1>2. budget' \in [choices : Nat, changes : Nat, fails : Nat, outs : Nat] /\ budget'.changes = 0
  BY <1>1, ShadeSpends DEF ShadeInv
<1>3. sync' = [sync EXCEPT ![d] = now] /\ sync[d].pc = "patch"
  BY DEF Colors!SyncPatch, Colors!SyncGoes
<1>4. server' = IF column THEN [server EXCEPT ![sync[d].acct] = sync[d].merged] ELSE server
  BY DEF Colors!SyncPatch
<1>5. server \in [Accounts -> Shades] /\ sync[d].acct \in Accounts
  BY <1>3 DEF ShadeInv, ShadeTyped
<1>6. server' \in [Accounts -> Shades]
  BY <1>4, <1>5, SyncShape
<1>7. \A acct \in Accounts : server'[acct] = server[acct] \/ server'[acct] = sync[d].merged
  BY <1>4, <1>5
<1>8. \A acct \in Accounts, proj \in Pinnable : \A u \in Colors!Choice :
          u = server'[acct][proj] => Held(proj, u)
  BY <1>7, SyncShape
<1>9. merged \in Shades
      /\ \A proj \in Pinnable : merged[proj] = sync[d].merged[proj] \/ merged[proj] = sync[d].snap[proj]
  BY SyncShape
<1>10. \A proj \in Pinnable : sync[d].snap[proj] # None =>
          /\ merged[proj] # None
          /\ merged[proj] = sync[d].snap[proj] \/ merged[proj].at > sync[d].snap[proj].at
  BY <1>3 DEF ShadeInv, MergeStands
<1> HIDE DEF merged
<1>11. /\ now \in Syncs /\ now.pc = "adopt" /\ now.acct \in Accounts
       /\ now.snap = sync[d].snap /\ now.merged = merged /\ now.late = sync[d].late
  BY <1>5, <1>9, SyncShape DEF Syncs
<1> HIDE DEF now
<1>12. \A proj \in Pinnable : \A u \in Colors!Choice :
          u = now.snap[proj] \/ u = now.merged[proj] => Held(proj, u)
  BY <1>9, <1>11, SyncShape
<1>13. ~now.late => \A proj \in Pinnable : colors[d][proj] = None \/ colors[d][proj] = now.snap[proj]
  BY <1>3, <1>11 DEF ShadeInv, SnapStands
<1>14. \A proj \in Pinnable : now.snap[proj] # None =>
          /\ now.merged[proj] # None
          /\ now.merged[proj] = now.snap[proj] \/ now.merged[proj].at > now.snap[proj].at
  BY <1>10, <1>11
<1> QED BY <1>1, <1>2, <1>3, <1>6, <1>8, <1>11, <1>12, <1>13, <1>14, SyncStep

\* A sync that failed is given up, its write having reached the server or not.
LEMMA SyncStops ==
    ASSUME ShadeInv, NEW d \in Colors!Machines, Colors!SyncFail(d)
    PROVE  ShadeInv'
<1>1. UNCHANGED <<colors, who, change, clock>>
  BY DEF Colors!SyncFail, Colors!Rest
<1>2. budget.fails > 0 /\ budget' = [budget EXCEPT !.fails = @ - 1]
  BY DEF Colors!SyncFail
<1>3. budget' \in [choices : Nat, changes : Nat, fails : Nat, outs : Nat] /\ budget'.changes = 0
  BY <1>2, ShadeSpends DEF ShadeInv
<1>4. /\ sync' = [sync EXCEPT ![d] = Colors!Still]
      /\ \/ server' = server
         \/ sync[d].pc = "patch" /\ server' = [server EXCEPT ![sync[d].acct] = sync[d].merged]
  BY DEF Colors!SyncFail
<1>5. server \in [Accounts -> Shades] /\ sync[d].merged \in Shades
      /\ (sync[d].pc = "patch" => sync[d].acct \in Accounts)
  BY SyncShape DEF ShadeInv, ShadeTyped
<1>6. server' \in [Accounts -> Shades]
      /\ \A acct \in Accounts : server'[acct] = server[acct] \/ server'[acct] = sync[d].merged
  BY <1>4, <1>5
<1>7. \A acct \in Accounts, proj \in Pinnable : \A u \in Colors!Choice :
          u = server'[acct][proj] => Held(proj, u)
  BY <1>6, SyncShape
<1>8. Colors!Still.snap = Colors!NoColors /\ Colors!Still.merged = Colors!NoColors
  BY DEF Colors!Still
<1>9. \A proj \in Pinnable : \A u \in Colors!Choice :
          u = Colors!Still.snap[proj] \/ u = Colors!Still.merged[proj] => Held(proj, u)
  BY <1>8, SyncShape
<1> QED BY <1>1, <1>3, <1>4, <1>6, <1>7, <1>9, StillTyped, SyncStep

\* What a device shows once it adopts a sync: what the sync brought, or what it
\* showed before.
LEMMA Adopted ==
    ASSUME ShadeInv, NEW d \in Colors!Machines
    PROVE  /\ Colors!Applied(d) \in Shades
           /\ \A proj \in Pinnable :
                \/ Colors!Applied(d)[proj] = None /\ sync[d].merged[proj] = None
                \/ Colors!Applied(d)[proj] = colors[d][proj]
                \/ Colors!Applied(d)[proj] = sync[d].merged[proj]
<1>1. colors[d] \in Shades /\ sync[d].merged \in Shades
  BY SyncShape
<1>2. None \in Colors!Choice \cup {None}
  OBVIOUS
<1>3. d \in Desktops \/ d \in Devices \ Desktops
  BY DEF Colors!Machines
<1> QED BY <1>1, <1>2, <1>3 DEF Colors!Applied, Shades

LEMMA SyncAdopts ==
    ASSUME ShadeInv, NEW d \in Colors!Machines, Colors!SyncAdopt(d)
    PROVE  ShadeInv'
<1>1. UNCHANGED <<server, who, change, clock, budget>>
  BY DEF Colors!SyncAdopt, Colors!Rest
<1>2. sync' = [sync EXCEPT ![d] = Colors!Still] /\ colors' = [colors EXCEPT ![d] = Colors!Applied(d)]
  BY DEF Colors!SyncAdopt
<1>3. /\ sync' \in [Colors!Machines -> Syncs]
      /\ sync'[d] = Colors!Still /\ \A o \in Colors!Machines \ {d} : sync'[o] = sync[o]
      /\ \A o \in Colors!Machines : sync'[o].pc # "idle" => sync'[o].acct \in Accounts
  BY <1>2, SyncSet, StillTyped DEF ShadeInv
<1>4. colors \in [Colors!Machines -> Shades]
  BY DEF ShadeInv, ShadeTyped
<1>5. /\ colors' \in [Colors!Machines -> Shades]
      /\ colors'[d] = Colors!Applied(d) /\ \A o \in Colors!Machines \ {d} : colors'[o] = colors[o]
  BY <1>2, <1>4, Adopted
<1>6. ShadeTyped'
  BY <1>1, <1>3, <1>5 DEF ShadeInv, ShadeTyped
<1>7. Colors!Still.snap = Colors!NoColors /\ Colors!Still.merged = Colors!NoColors
  BY DEF Colors!Still
<1>8. ASSUME NEW proj \in Pinnable, NEW u \in Colors!Choice, Held(proj, u)'
      PROVE  Held(proj, u)
  <2>1. CASE \E o \in Colors!Machines :
               u = colors'[o][proj] \/ u = sync'[o].snap[proj] \/ u = sync'[o].merged[proj]
    <3>1. PICK o \in Colors!Machines :
               u = colors'[o][proj] \/ u = sync'[o].snap[proj] \/ u = sync'[o].merged[proj]
      BY <2>1
    <3>2. CASE o = d
      <4>1. u # None /\ Colors!NoColors[proj] = None
        BY SyncShape
      <4>2. u = Colors!Applied(d)[proj]
        BY <1>3, <1>5, <1>7, <3>1, <3>2, <4>1
      <4>3. u = colors[d][proj] \/ u = sync[d].merged[proj]
        BY <4>1, <4>2, Adopted
      <4> QED BY <4>3, SyncShape
    <3>3. CASE o # d
      BY <1>3, <1>5, <3>1, <3>3 DEF Held
    <3> QED BY <3>2, <3>3
  <2>2. CASE \E acct \in Accounts : u = server'[acct][proj]
    BY <1>1, <2>2 DEF Held
  <2> QED BY <1>8, <2>1, <2>2 DEF Held
<1>9. TimeNames'
  BY <1>1, <1>8, HeldStays DEF ShadeInv
<1>10. SnapStands'
  BY <1>3, <1>5, StillTyped DEF ShadeInv, SnapStands
<1>11. MergeStands'
  BY <1>3, StillTyped DEF ShadeInv, MergeStands
<1> QED BY <1>6, <1>9, <1>10, <1>11 DEF ShadeInv

\* The account signed in to, and the lists: they leave what is held, but a
\* sign-out, which forgets a phone's.
LEMMA AccountSteps ==
    ASSUME ShadeInv, NEW d \in Colors!Machines,
           \/ Colors!Reload(d) \/ Colors!SignOut(d)
           \/ \E acct \in Accounts : Colors!SignIn(d, acct)
    PROVE  ShadeInv'
<1>1. UNCHANGED <<server, change, clock, sync>>
  BY DEF Colors!Reload, Colors!SignOut, Colors!SignIn, Colors!Rest
<1>2. budget' = budget \/ (budget.outs > 0 /\ budget' = [budget EXCEPT !.outs = @ - 1])
  BY DEF Colors!Reload, Colors!SignOut, Colors!SignIn, Colors!Rest
<1>3. budget' \in [choices : Nat, changes : Nat, fails : Nat, outs : Nat] /\ budget'.changes = 0
  BY <1>2, ShadeSpends DEF ShadeInv
<1>4. /\ who \in [Colors!Machines -> Accounts \cup {None}] /\ \A o \in Desktops : who[o] # None
      /\ colors \in [Colors!Machines -> Shades]
  BY DEF ShadeInv, ShadeTyped
<1>5. who' \in [Colors!Machines -> Accounts \cup {None}] /\ \A o \in Desktops : who'[o] # None
  <2>1. CASE Colors!Reload(d)
    BY <1>4, <2>1 DEF Colors!Reload, Colors!Rest
  <2>2. CASE Colors!SignOut(d)
    BY <1>4, <2>2 DEF Colors!SignOut
  <2>3. ASSUME NEW acct \in Accounts, Colors!SignIn(d, acct)
        PROVE  who' \in [Colors!Machines -> Accounts \cup {None}] /\ \A o \in Desktops : who'[o] # None
    BY <1>4, <2>3, ShadeNames DEF Colors!SignIn
  <2> QED BY <2>1, <2>2, <2>3
<1>6. colors' = colors \/ colors' = [colors EXCEPT ![d] = Colors!NoColors]
  BY DEF Colors!Reload, Colors!SignOut, Colors!SignIn, Colors!Rest
<1>7. /\ colors' \in [Colors!Machines -> Shades]
      /\ \A o \in Colors!Machines : colors'[o] = colors[o] \/ colors'[o] = Colors!NoColors
  BY <1>4, <1>6, StillTyped
<1>8. ShadeTyped'
  BY <1>1, <1>3, <1>5, <1>7 DEF ShadeInv, ShadeTyped
<1>9. ASSUME NEW proj \in Pinnable, NEW u \in Colors!Choice, Held(proj, u)'
      PROVE  Held(proj, u)
  <2>1. u # None /\ Colors!NoColors[proj] = None
    BY SyncShape
  <2> QED BY <1>1, <1>7, <1>9, <2>1 DEF Held
<1>10. TimeNames'
  BY <1>1, <1>9, HeldStays DEF ShadeInv
<1>11. \A proj \in Pinnable : Colors!NoColors[proj] = None
  BY SyncShape
<1>12. SnapStands'
  BY <1>1, <1>7, <1>11 DEF ShadeInv, SnapStands
<1>13. MergeStands'
  BY <1>1 DEF ShadeInv, MergeStands
<1> QED BY <1>8, <1>10, <1>12, <1>13 DEF ShadeInv

\* A choice is newer than all that is held; a sync that it finds in flight no
\* longer holds all of the device's choices.
LEMMA Chooses ==
    ASSUME ShadeInv, NEW d \in Colors!Machines, NEW target \in Pinnable,
           NEW color \in Palette \cup {Automatic}, Colors!Choose(d, target, color)
    PROVE  ShadeInv'
<1> DEFINE fresh == [color |-> color, at |-> clock + 1, by |-> who[d]]
           chosen == [colors[d] EXCEPT ![target] = fresh]
           now == Colors!Begin(sync[d], who[d])
<1>1. UNCHANGED <<server, who, change>>
  BY DEF Colors!Choose, Colors!Rest
<1>2. /\ budget.choices > 0 /\ budget' = [budget EXCEPT !.choices = @ - 1]
      /\ clock' = clock + 1 /\ sync' = [sync EXCEPT ![d] = now]
  BY DEF Colors!Choose
<1>3. colors' = [colors EXCEPT ![d][target] = fresh]
  BY DEF Colors!Choose
<1>4. /\ clock \in Nat /\ who[d] \in Accounts \cup {None} /\ colors \in [Colors!Machines -> Shades]
      /\ \A o \in Desktops : who[o] # None
  BY DEF ShadeInv, ShadeTyped
<1>5. who[d] # None
  BY <1>4 DEF Colors!Choose, Colors!PhonePicks, Colors!DesktopPicks, Colors!PhoneOffers,
              Colors!DesktopOffers, Colors!PhoneLists, Colors!DesktopLists
<1>6. who[d] \in Accounts
  BY <1>4, <1>5
<1>7. fresh \in Colors!Choice /\ fresh.at = clock + 1
  BY <1>4, <1>6 DEF Colors!Choice
<1>8. colors[d] \in Shades /\ sync[d] \in Syncs
      /\ (sync[d].pc # "idle" => sync[d].acct \in Accounts)
  BY SyncShape
<1> HIDE DEF fresh
<1>9. chosen \in Shades /\ chosen[target] = fresh
      /\ \A proj \in Pinnable : proj # target => chosen[proj] = colors[d][proj]
  BY <1>7, <1>8 DEF Shades
<1>10. colors' = [colors EXCEPT ![d] = chosen]
  BY <1>3, <1>4
<1> HIDE DEF chosen
<1>11. /\ colors' \in [Colors!Machines -> Shades]
       /\ colors'[d] = chosen /\ \A o \in Colors!Machines \ {d} : colors'[o] = colors[o]
  BY <1>4, <1>9, <1>10
<1>12. \/ /\ now \in Syncs /\ now.pc = "token" /\ now.acct \in Accounts
          /\ now.snap = Colors!NoColors /\ now.merged = Colors!NoColors
       \/ /\ now \in Syncs /\ now.pc = sync[d].pc /\ now.acct = sync[d].acct /\ now.late = TRUE
          /\ now.snap = sync[d].snap /\ now.merged = sync[d].merged /\ sync[d].pc # "idle"
  <2>1. CASE sync[d].pc = "idle"
    <3>1. now = [Colors!Still EXCEPT !.pc = "token", !.acct = who[d]]
      BY <2>1 DEF Colors!Begin
    <3> HIDE DEF now
    <3> QED BY <1>6, <3>1, StillTyped DEF Colors!Still, Syncs
  <2>2. CASE sync[d].pc # "idle"
    <3>1. now = [sync[d] EXCEPT !.late = TRUE]
      BY <2>2 DEF Colors!Begin
    <3> HIDE DEF now
    <3> QED BY <1>8, <2>2, <3>1 DEF Syncs
  <2> QED BY <2>1, <2>2
<1> HIDE DEF now
<1>13. now \in Syncs /\ (now.pc # "idle" => now.acct \in Accounts)
  BY <1>8, <1>12
<1>14. /\ sync' \in [Colors!Machines -> Syncs]
       /\ sync'[d] = now /\ \A o \in Colors!Machines \ {d} : sync'[o] = sync[o]
       /\ \A o \in Colors!Machines : sync'[o].pc # "idle" => sync'[o].acct \in Accounts
  BY <1>2, <1>13, SyncSet DEF ShadeInv
<1>15. budget' \in [choices : Nat, changes : Nat, fails : Nat, outs : Nat] /\ budget'.changes = 0
  BY <1>2, ShadeSpends DEF ShadeInv
<1>16. clock' \in Nat
  BY <1>2, <1>4
<1>17. ShadeTyped'
  BY <1>1, <1>11, <1>14, <1>15, <1>16 DEF ShadeInv, ShadeTyped
<1>18. ASSUME NEW proj \in Pinnable, NEW u \in Colors!Choice, Held(proj, u)'
       PROVE  Held(proj, u) \/ (u = fresh /\ proj = target)
  <2>1. u # None /\ Colors!NoColors[proj] = None
    BY SyncShape
  <2>2. CASE \E o \in Colors!Machines :
               u = colors'[o][proj] \/ u = sync'[o].snap[proj] \/ u = sync'[o].merged[proj]
    <3>1. PICK o \in Colors!Machines :
               u = colors'[o][proj] \/ u = sync'[o].snap[proj] \/ u = sync'[o].merged[proj]
      BY <2>2
    <3>2. CASE o = d
      <4>1. u = chosen[proj] \/ u = sync[d].snap[proj] \/ u = sync[d].merged[proj]
        BY <1>11, <1>12, <1>14, <2>1, <3>1, <3>2
      <4>2. u = colors[d][proj] \/ u = sync[d].snap[proj] \/ u = sync[d].merged[proj]
            \/ (u = fresh /\ proj = target)
        BY <1>9, <4>1
      <4> QED BY <4>2, SyncShape
    <3>3. CASE o # d
      BY <1>11, <1>14, <3>1, <3>3 DEF Held
    <3> QED BY <3>2, <3>3
  <2>3. CASE \E acct \in Accounts : u = server'[acct][proj]
    BY <1>1, <2>3 DEF Held
  <2> QED BY <1>18, <2>2, <2>3 DEF Held
<1>19. TimeNames'
  BY <1>2, <1>4, <1>7, <1>18, HeldNames DEF ShadeInv
<1>20. SnapStands'
  BY <1>11, <1>12, <1>14 DEF ShadeInv, SnapStands
<1>21. MergeStands'
  <2>1. now.pc \in {"patch", "adopt"} => sync[d].pc = now.pc /\ now.snap = sync[d].snap /\ now.merged = sync[d].merged
    BY <1>12
  <2> QED BY <1>14, <2>1 DEF ShadeInv, MergeStands
<1> QED BY <1>17, <1>19, <1>20, <1>21 DEF ShadeInv

\* While colors are chosen nothing is renamed, deleted or created.
LEMMA NoRenames ==
    ASSUME ShadeInv, NEW d \in Colors!Machines, NEW proj \in Pinnable
    PROVE  /\ ~Colors!Create(d, proj) /\ ~Colors!PhoneDelete(d, proj) /\ ~Colors!DesktopDelete(d, proj)
           /\ \A to \in Pinnable : ~Colors!PhoneRename(d, proj, to) /\ ~Colors!DesktopRename(d, proj, to)
<1>1. ~(budget.changes > 0)
  BY DEF ShadeInv, ShadeTyped
<1>2. ~Colors!Create(d, proj)
  BY <1>1 DEF Colors!Create
<1>3. \A kind, from, to : ~Colors!Enter(d, kind, from, to)
  BY <1>1 DEF Colors!Enter
<1>4. ~Colors!PhoneDelete(d, proj) /\ ~Colors!DesktopDelete(d, proj)
  BY <1>3 DEF Colors!PhoneDelete, Colors!DesktopDelete
<1> QED BY <1>2, <1>3, <1>4 DEF Colors!PhoneRename, Colors!DesktopRename

LEMMA NoChanges ==
    ASSUME ShadeInv, NEW d \in Colors!Machines
    PROVE  ~Colors!Change(d) /\ ~Colors!MoveSome(d) /\ ~Colors!GiveUp(d)
<1>1. change[d].at \notin Colors!Phases
  BY ShadeNames DEF ShadeInv, ShadeTyped
<1> QED BY <1>1 DEF Colors!Phases, Colors!Change, Colors!MoveEntries, Colors!RenameTimer, Colors!At,
                    Colors!Reshare, Colors!MoveColor, Colors!MoveSome, Colors!GiveUp

LEMMA ColorsStep == ASSUME ShadeInv, Colors!Next PROVE ShadeInv'
<1>1. PICK d \in Colors!Machines :
        \/ \E proj \in Pinnable :
               \/ Colors!Create(d, proj) \/ Colors!PhoneDelete(d, proj) \/ Colors!DesktopDelete(d, proj)
               \/ (\E to \in Pinnable : Colors!PhoneRename(d, proj, to) \/ Colors!DesktopRename(d, proj, to))
               \/ (\E color \in Palette \cup {Automatic} : Colors!Choose(d, proj, color))
        \/ Colors!Reload(d) \/ Colors!SyncSoon(d) \/ Colors!Syncing(d) \/ Colors!SyncFail(d)
        \/ Colors!SignOut(d) \/ (\E acct \in Accounts : Colors!SignIn(d, acct))
        \/ Colors!Change(d) \/ Colors!MoveSome(d) \/ Colors!GiveUp(d)
  BY DEF Colors!Next
<1>2. CASE \E proj \in Pinnable :
             \/ Colors!Create(d, proj) \/ Colors!PhoneDelete(d, proj) \/ Colors!DesktopDelete(d, proj)
             \/ (\E to \in Pinnable : Colors!PhoneRename(d, proj, to) \/ Colors!DesktopRename(d, proj, to))
             \/ (\E color \in Palette \cup {Automatic} : Colors!Choose(d, proj, color))
  BY <1>2, NoRenames, Chooses
<1>3. CASE Colors!SyncSoon(d) \/ Colors!SyncTake(d) \/ Colors!SyncRefused(d)
  BY <1>3, SyncBegins
<1>4. CASE Colors!SyncRead(d) \/ Colors!SyncPatch(d) \/ Colors!SyncFail(d) \/ Colors!SyncAdopt(d)
  BY <1>4, SyncReads, SyncWrites, SyncStops, SyncAdopts
<1>5. CASE \/ Colors!Reload(d) \/ Colors!SignOut(d)
           \/ \E acct \in Accounts : Colors!SignIn(d, acct)
  BY <1>5, AccountSteps
<1> QED BY <1>1, <1>2, <1>3, <1>4, <1>5, NoChanges DEF Colors!Syncing

\* A sync replaces what a device shows by nothing older than what it took along.
LEMMA AdoptsNewer ==
    ASSUME ShadeInv, NEW d \in Colors!Machines, sync[d].pc = "adopt", ~sync[d].late,
           Colors!SyncAdopt(d), NEW proj \in Pinnable, colors[d][proj] # None,
           colors'[d][proj] # colors[d][proj]
    PROVE  colors'[d][proj] # None /\ colors'[d][proj].at > colors[d][proj].at
<1>1. colors[d][proj] = sync[d].snap[proj]
  BY DEF ShadeInv, SnapStands
<1>2. /\ sync[d].merged[proj] # None
      /\ sync[d].merged[proj] = sync[d].snap[proj] \/ sync[d].merged[proj].at > sync[d].snap[proj].at
  BY <1>1 DEF ShadeInv, MergeStands
<1>3. colors \in [Colors!Machines -> Shades] /\ colors' = [colors EXCEPT ![d] = Colors!Applied(d)]
  BY DEF ShadeInv, ShadeTyped, Colors!SyncAdopt
<1>4. colors'[d][proj] = Colors!Applied(d)[proj]
  BY <1>3
<1>5. colors'[d][proj] = sync[d].merged[proj]
  BY <1>2, <1>4, Adopted
<1> QED BY <1>1, <1>2, <1>5

LEMMA ColorsKept == ASSUME ShadeInv, Colors!Next PROVE Colors!ChoiceKept
<1> SUFFICES ASSUME NEW d \in Colors!Machines, sync[d].pc = "adopt", ~sync[d].late,
                    NEW proj \in Pinnable, colors[d][proj] # None,
                    colors'[d][proj] # colors[d][proj], sync'[d].pc = "idle"
             PROVE  colors'[d][proj] # None /\ colors'[d][proj].at > colors[d][proj].at
  BY DEF Colors!ChoiceKept
<1>1. PICK o \in Colors!Machines :
        \/ \E other \in Pinnable :
               \/ Colors!Create(o, other) \/ Colors!PhoneDelete(o, other) \/ Colors!DesktopDelete(o, other)
               \/ (\E to \in Pinnable : Colors!PhoneRename(o, other, to) \/ Colors!DesktopRename(o, other, to))
               \/ (\E color \in Palette \cup {Automatic} : Colors!Choose(o, other, color))
        \/ Colors!Reload(o) \/ Colors!SyncSoon(o) \/ Colors!Syncing(o) \/ Colors!SyncFail(o)
        \/ Colors!SignOut(o) \/ (\E acct \in Accounts : Colors!SignIn(o, acct))
        \/ Colors!Change(o) \/ Colors!MoveSome(o) \/ Colors!GiveUp(o)
  BY DEF Colors!Next
<1>2. sync[d] \in Syncs /\ sync \in [Colors!Machines -> Syncs]
  BY DEF ShadeInv, ShadeTyped
<1>3. sync' # sync
  BY <1>2
<1>4. \E now : sync' = [sync EXCEPT ![o] = now]
  <2>1. CASE \E other \in Pinnable, color \in Palette \cup {Automatic} : Colors!Choose(o, other, color)
    BY <2>1 DEF Colors!Choose
  <2>2. CASE Colors!Reload(o) \/ Colors!SignOut(o) \/ \E acct \in Accounts : Colors!SignIn(o, acct)
    BY <1>3, <2>2 DEF Colors!Reload, Colors!SignOut, Colors!SignIn, Colors!Rest
  <2>3. CASE Colors!SyncSoon(o) \/ Colors!SyncFail(o) \/ Colors!SyncAdopt(o)
    BY <2>3 DEF Colors!SyncSoon, Colors!SyncFail, Colors!SyncAdopt
  <2>4. CASE Colors!SyncTake(o) \/ Colors!SyncRefused(o) \/ Colors!SyncRead(o) \/ Colors!SyncPatch(o)
    BY <2>4 DEF Colors!SyncTake, Colors!SyncRefused, Colors!SyncRead, Colors!SyncPatch, Colors!SyncGoes
  <2> QED BY <1>1, <2>1, <2>2, <2>3, <2>4, NoRenames, NoChanges DEF Colors!Syncing
<1>5. o = d
  BY <1>2, <1>4
<1>6. ~(\E other \in Pinnable, color \in Palette \cup {Automatic} : Colors!Choose(o, other, color))
  <2> SUFFICES ASSUME NEW other \in Pinnable, NEW color \in Palette \cup {Automatic},
                      Colors!Choose(o, other, color)
               PROVE  FALSE
    OBVIOUS
  <2>1. sync' = [sync EXCEPT ![d] = [sync[d] EXCEPT !.late = TRUE]]
    BY <1>5 DEF Colors!Choose, Colors!Begin
  <2>2. sync'[d].pc = "adopt"
    BY <1>2, <2>1 DEF Syncs
  <2> QED BY <2>2
<1>7. ~(Colors!Reload(o) \/ Colors!SignOut(o) \/ \E acct \in Accounts : Colors!SignIn(o, acct))
  BY <1>3 DEF Colors!Reload, Colors!SignOut, Colors!SignIn, Colors!Rest
<1>8. ~(Colors!SyncSoon(o) \/ Colors!SyncFail(o))
  BY <1>5 DEF Colors!SyncSoon, Colors!SyncFail
<1>9. ~(Colors!SyncTake(o) \/ Colors!SyncRefused(o) \/ Colors!SyncRead(o) \/ Colors!SyncPatch(o))
  BY <1>5 DEF Colors!SyncTake, Colors!SyncRefused, Colors!SyncRead, Colors!SyncPatch, Colors!SyncGoes
<1>10. Colors!SyncAdopt(d)
  BY <1>1, <1>5, <1>6, <1>7, <1>8, <1>9, NoRenames, NoChanges DEF Colors!Syncing
<1> QED BY <1>10, AdoptsNewer

\* The invariant of the colors, where they are what moves.
ColorsInv == part = "colors" => ShadeInv

LEMMA NextColors == ColorsInv /\ [AnyNext]_<<part, sharing, projects>> => ColorsInv'
<1> SUFFICES ASSUME ColorsInv, [AnyNext]_<<part, sharing, projects>>, part' = "colors"
             PROVE  ShadeInv'
  BY DEF ColorsInv
<1>1. part = "colors" /\ (Colors!Next \/ UNCHANGED projects)
  BY DEF AnyNext
<1>2. ShadeInv
  BY <1>1 DEF ColorsInv
<1>3. CASE Colors!Next
  BY <1>2, <1>3, ColorsStep
<1>4. CASE UNCHANGED projects
  <2>1. UNCHANGED <<server, colors, who, sync, clock, change, budget>>
    BY <1>4 DEF projects
  <2>2. ShadeTyped'
    BY <1>2, <2>1 DEF ShadeInv, ShadeTyped
  <2>3. TimeNames'
    BY <1>2, <2>1 DEF ShadeInv, TimeNames, Held
  <2>4. SnapStands' /\ MergeStands'
    BY <1>2, <2>1 DEF ShadeInv, SnapStands, MergeStands
  <2> QED BY <2>2, <2>3, <2>4 DEF ShadeInv
<1> QED BY <1>1, <1>3, <1>4

\* What holds of the choices the devices, the syncs and the server hold.
THEOREM ColorsInvariant == AnySpec => []ColorsInv
<1>1. AnyInit => ColorsInv
  BY InitShades DEF AnyInit, ColorsInv
<1> QED BY <1>1, NextColors, PTL DEF AnySpec

\* A sync replaces what a device shows by nothing older, unless the choice was
\* made while that very sync was under way.
THEOREM ChoicesStand == AnySpec => ChoiceStands
<1>1. ColorsInv /\ [AnyNext]_<<part, sharing, projects>>
        => [part = "colors" => Colors!ChoiceKept]_projects
  <2> SUFFICES ASSUME ColorsInv, AnyNext, part = "colors", ~UNCHANGED projects
               PROVE  Colors!ChoiceKept
    BY DEF projects
  <2>1. Colors!Next /\ ShadeInv
    BY DEF AnyNext, ColorsInv
  <2> QED BY <2>1, ColorsKept
<1> QED BY <1>1, ColorsInvariant, PTL DEF AnySpec, ChoiceStands

-----------------------------------------------------------------------------
(* Types *)

\* A color sync in flight, or none, with choices dated up to now.
Paints == [pc : {"idle", "token", "read", "patch", "adopt"}, acct : Accounts \cup {None},
           snap : Renames!Colors, merged : Renames!Colors, late : BOOLEAN]

\* The choices that the server, the devices and their syncs hold, and whom for.
TintTyped ==
    /\ clock \in Nat
    /\ server \in [Accounts -> Renames!Colors] /\ colors \in [Renames!Machines -> Renames!Colors]
    /\ sync \in [Renames!Machines -> Paints]
    /\ \A d \in Renames!Machines : sync[d].pc # "idle" => sync[d].acct \in Accounts
    /\ \A d \in Desktops : who[d] # None

\* Whoever began an operation was signed in.
Begun ==
    \A d \in Renames!Machines : change[d].at # None =>
        change[d].acct \in Accounts /\ change[d].from \in Movable

\* The lists of projects, and the marks of the history.
ListTyped ==
    /\ catalog \in [Desktops -> SUBSET Movable]
    /\ named \subseteq Movable /\ running \in Movable \cup {None}
    /\ {column, crossed, stale, undone} \subseteq BOOLEAN

LEMMA SameTints ==
    ASSUME clock' = clock
    PROVE  Renames!Colors' = Renames!Colors /\ Paints' = Paints
BY DEF Renames!Colors, Renames!Pref, Paints

\* What is dated up to now is dated up to later.
LEMMA TintsGrow ==
    ASSUME clock \in Nat, clock' \in Nat, clock <= clock'
    PROVE  /\ Renames!Pref \subseteq Renames!Pref' /\ Renames!Colors \subseteq Renames!Colors'
           /\ Paints \subseteq Paints'
<1>1. Renames!Pref \subseteq Renames!Pref'
  <2> SUFFICES ASSUME NEW choice \in Renames!Choice, choice.at <= clock PROVE choice.at <= clock'
    BY DEF Renames!Pref
  <2>1. choice.at \in Nat
    BY DEF Renames!Choice
  <2> QED BY <2>1
<1>2. Renames!Colors \subseteq Renames!Colors'
  BY <1>1 DEF Renames!Colors
<1> QED BY <1>1, <1>2 DEF Paints

\* A color sync that goes on with choices dated up to now, for an account.
LEMMA PaintSet ==
    ASSUME TintTyped, NEW d \in Renames!Machines, NEW next, sync' = [sync EXCEPT ![d] = next],
           next \in Paints', next.pc # "idle" => next.acct \in Accounts, Paints \subseteq Paints'
    PROVE  /\ sync' \in [Renames!Machines -> Paints']
           /\ \A o \in Renames!Machines : sync'[o].pc # "idle" => sync'[o].acct \in Accounts
<1>1. sync \in [Renames!Machines -> Paints]
      /\ \A o \in Renames!Machines : sync[o].pc # "idle" => sync[o].acct \in Accounts
  BY DEF TintTyped
<1>2. sync'[d] = next /\ \A o \in Renames!Machines \ {d} : sync'[o] = sync[o]
  BY <1>1
<1>3. sync' \in [Renames!Machines -> Paints']
  BY <1>1
<1> QED BY <1>1, <1>2, <1>3

LEMMA TintShape ==
    ASSUME TintTyped, NEW d \in Renames!Machines
    PROVE  /\ sync[d] \in Paints /\ colors[d] \in Renames!Colors
           /\ sync[d].snap \in Renames!Colors /\ sync[d].merged \in Renames!Colors
           /\ sync[d].late \in BOOLEAN
           /\ sync[d].pc # "idle" => sync[d].acct \in Accounts /\ server[sync[d].acct] \in Renames!Colors
           /\ Renames!NoColors \in Renames!Colors
           /\ Renames!Still \in Paints /\ Renames!Still.pc = "idle"
<1>1. sync[d] \in Paints /\ colors[d] \in Renames!Colors
      /\ (sync[d].pc # "idle" => sync[d].acct \in Accounts /\ server[sync[d].acct] \in Renames!Colors)
  BY DEF TintTyped
<1>2. Renames!NoColors \in Renames!Colors
  BY DEF Renames!NoColors, Renames!Colors
<1>3. Renames!Still \in Paints /\ Renames!Still.pc = "idle"
  BY <1>2 DEF Renames!Still, Paints
<1> QED BY <1>1, <1>2, <1>3 DEF Paints

LEMMA TintQuiet ==
    ASSUME TintTyped, UNCHANGED <<clock, server, colors, sync, who>> PROVE TintTyped'
BY SameTints DEF TintTyped

\* Beginning a sync, or finding one in flight.
LEMMA PaintBegins ==
    ASSUME TintTyped, NEW d \in Renames!Machines, NEW acct \in Accounts
    PROVE  LET next == Renames!Begin(sync[d], acct)
           IN  next \in Paints /\ (next.pc # "idle" => next.acct \in Accounts)
<1> DEFINE next == Renames!Begin(sync[d], acct)
<1>1. CASE sync[d].pc = "idle"
  <2>1. next = [Renames!Still EXCEPT !.pc = "token", !.acct = acct]
    BY <1>1 DEF Renames!Begin
  <2> HIDE DEF next
  <2>2. next \in Paints
    BY <2>1, TintShape DEF Paints
  <2>3. next.acct = acct
    BY <2>1 DEF Renames!Still
  <2> QED BY <2>2, <2>3 DEF next
<1>2. CASE sync[d].pc # "idle"
  <2>1. next = [sync[d] EXCEPT !.late = TRUE]
    BY <1>2 DEF Renames!Begin
  <2> HIDE DEF next
  <2>2. next \in Paints /\ next.acct = sync[d].acct
    BY <2>1, TintShape DEF Paints
  <2> QED BY <1>2, <2>2, TintShape DEF next
<1> QED BY <1>1, <1>2

LEMMA TintPicks ==
    ASSUME TintTyped, RenTyped, NEW d \in Renames!Machines, NEW target \in Movable,
           NEW color \in Palette \cup {Automatic}, Renames!Choose(d, target, color)
    PROVE  TintTyped'
<1> DEFINE fresh == [color |-> color, at |-> clock + 1, by |-> who[d]]
           chosen == [colors[d] EXCEPT ![target] = fresh]
<1>1. UNCHANGED <<server, who>> /\ clock' = clock + 1
      /\ sync' = [sync EXCEPT ![d] = Renames!Begin(sync[d], who[d])]
  BY DEF Renames!Choose, Renames!Rest
<1>2. clock \in Nat /\ clock' \in Nat /\ clock <= clock' /\ (\A o \in Desktops : who[o] # None)
  BY <1>1 DEF TintTyped
<1>3. who[d] \in Accounts
  <2>1. who[d] # None
    BY <1>2 DEF Renames!Choose, Renames!PhonePicks, Renames!DesktopPicks, Renames!PhoneOffers,
                Renames!DesktopOffers, Renames!PhoneLists, Renames!DesktopLists
  <2> QED BY <2>1 DEF RenTyped
<1>4. Renames!Pref \subseteq Renames!Pref' /\ Renames!Colors \subseteq Renames!Colors' /\ Paints \subseteq Paints'
  BY <1>2, TintsGrow
<1>5. fresh \in Renames!Pref'
  BY <1>1, <1>2, <1>3 DEF Renames!Pref, Renames!Choice
<1> HIDE DEF fresh
<1>6. chosen \in Renames!Colors'
  <2>1. colors[d] \in Renames!Colors'
    BY <1>4, TintShape
  <2> QED BY <1>5, <2>1 DEF Renames!Colors
<1>7. colors' = [colors EXCEPT ![d] = chosen]
  BY DEF Renames!Choose, TintTyped, fresh
<1> HIDE DEF chosen
<1>8. server' \in [Accounts -> Renames!Colors'] /\ colors' \in [Renames!Machines -> Renames!Colors']
  BY <1>1, <1>4, <1>6, <1>7 DEF TintTyped
<1> DEFINE next == Renames!Begin(sync[d], who[d])
<1>9. next \in Paints /\ (next.pc # "idle" => next.acct \in Accounts)
  BY <1>3, PaintBegins
<1> HIDE DEF next
<1>10. sync' = [sync EXCEPT ![d] = next] /\ next \in Paints'
  BY <1>1, <1>4, <1>9 DEF next
<1>11. /\ sync' \in [Renames!Machines -> Paints']
       /\ \A o \in Renames!Machines : sync'[o].pc # "idle" => sync'[o].acct \in Accounts
  BY <1>4, <1>9, <1>10, PaintSet
<1> QED BY <1>1, <1>2, <1>8, <1>11 DEF TintTyped

\* A step of a sync, or none, at no later time.
LEMMA TintStep ==
    ASSUME TintTyped, NEW d \in Renames!Machines, clock' = clock, NEW next \in Paints,
           sync' = [sync EXCEPT ![d] = next], next.pc # "idle" => next.acct \in Accounts,
           server' \in [Accounts -> Renames!Colors], colors' \in [Renames!Machines -> Renames!Colors],
           who' = who
    PROVE  TintTyped'
<1>1. Renames!Colors' = Renames!Colors /\ Paints' = Paints
  BY SameTints
<1>2. /\ sync' \in [Renames!Machines -> Paints']
      /\ \A o \in Renames!Machines : sync'[o].pc # "idle" => sync'[o].acct \in Accounts
  BY <1>1, PaintSet
<1> QED BY <1>1, <1>2 DEF TintTyped

LEMMA TintMerge ==
    ASSUME NEW us \in Renames!Colors, NEW theirs \in Renames!Colors
    PROVE  Renames!MergeColors(us, theirs) \in Renames!Colors
BY DEF Renames!MergeColors, Renames!Colors

\* A sync is begun, takes the choices, or finds the account signed out.
LEMMA TintBegins ==
    ASSUME TintTyped, RenTyped, NEW d \in Renames!Machines,
           Renames!SyncSoon(d) \/ Renames!SyncTake(d) \/ Renames!SyncRefused(d)
    PROVE  TintTyped'
<1>1. UNCHANGED <<server, colors, who, clock>>
  BY DEF Renames!SyncSoon, Renames!SyncTake, Renames!SyncRefused, Renames!SyncGoes, Renames!Rest
<1>2. server \in [Accounts -> Renames!Colors] /\ colors \in [Renames!Machines -> Renames!Colors]
  BY DEF TintTyped
<1>3. CASE Renames!SyncSoon(d)
  <2> DEFINE next == Renames!Begin(sync[d], who[d])
  <2>1. who[d] \in Accounts
    BY <1>3 DEF Renames!SyncSoon, RenTyped
  <2>2. sync' = [sync EXCEPT ![d] = next]
    BY <1>3 DEF Renames!SyncSoon
  <2>3. next \in Paints /\ (next.pc # "idle" => next.acct \in Accounts)
    BY <2>1, PaintBegins
  <2> HIDE DEF next
  <2> QED BY <1>1, <1>2, <2>2, <2>3, TintStep
<1>4. CASE Renames!SyncTake(d)
  <2> DEFINE next == [sync[d] EXCEPT !.pc = "read", !.snap = colors[d], !.late = FALSE]
  <2>1. sync[d].pc # "idle" /\ sync' = [sync EXCEPT ![d] = next]
    BY <1>4 DEF Renames!SyncTake, Renames!SyncGoes
  <2>2. next \in Paints /\ next.acct = sync[d].acct
    BY TintShape DEF Paints
  <2> HIDE DEF next
  <2> QED BY <1>1, <1>2, <2>1, <2>2, TintShape, TintStep
<1>5. CASE Renames!SyncRefused(d)
  <2>1. sync' = [sync EXCEPT ![d] = Renames!Still]
    BY <1>5 DEF Renames!SyncRefused, Renames!SyncGoes
  <2> QED BY <1>1, <1>2, <2>1, TintShape, TintStep
<1> QED BY <1>3, <1>4, <1>5

\* What the server holds is merged with what was taken.
LEMMA TintReads ==
    ASSUME TintTyped, NEW d \in Renames!Machines, Renames!SyncRead(d) PROVE TintTyped'
<1> DEFINE remote == IF column THEN server[sync[d].acct] ELSE Renames!NoColors
           merged == Renames!MergeColors(remote, sync[d].snap)
           next == [sync[d] EXCEPT !.merged = merged, !.pc = IF merged = remote THEN "adopt" ELSE "patch"]
<1>1. UNCHANGED <<server, colors, who, clock>> /\ sync[d].pc = "read"
      /\ sync' = [sync EXCEPT ![d] = next]
  BY DEF Renames!SyncRead, Renames!SyncGoes, Renames!Rest
<1>2. server \in [Accounts -> Renames!Colors] /\ colors \in [Renames!Machines -> Renames!Colors]
  BY DEF TintTyped
<1>3. remote \in Renames!Colors
  BY <1>1, TintShape
<1> HIDE DEF remote
<1>4. merged \in Renames!Colors
  BY <1>3, TintShape, TintMerge
<1> HIDE DEF merged
<1>5. next \in Paints /\ next.acct = sync[d].acct
  BY <1>4, TintShape DEF Paints
<1> HIDE DEF next
<1> QED BY <1>1, <1>2, <1>5, TintShape, TintStep

\* The write, and a sync that fails before it or after it.
LEMMA TintWrites ==
    ASSUME TintTyped, NEW d \in Renames!Machines, Renames!SyncPatch(d) \/ Renames!SyncFail(d)
    PROVE  TintTyped'
<1>1. UNCHANGED <<colors, who, clock>> /\ sync[d].pc # "idle"
  BY DEF Renames!SyncPatch, Renames!SyncFail, Renames!SyncGoes, Renames!Rest
<1>2. server \in [Accounts -> Renames!Colors] /\ colors \in [Renames!Machines -> Renames!Colors]
  BY DEF TintTyped
<1>3. server' = server \/ server' = [server EXCEPT ![sync[d].acct] = sync[d].merged]
  BY DEF Renames!SyncPatch, Renames!SyncFail
<1>4. server' \in [Accounts -> Renames!Colors]
  BY <1>2, <1>3, TintShape
<1>5. CASE Renames!SyncPatch(d)
  <2> DEFINE what == IF column THEN sync[d].merged ELSE sync[d].snap
             next == [sync[d] EXCEPT !.pc = "adopt", !.merged = what]
  <2>1. sync' = [sync EXCEPT ![d] = next]
    BY <1>5 DEF Renames!SyncPatch, Renames!SyncGoes
  <2>2. what \in Renames!Colors
    BY TintShape
  <2> HIDE DEF what
  <2>3. next \in Paints /\ next.acct = sync[d].acct
    BY <2>2, TintShape DEF Paints
  <2> HIDE DEF next
  <2> QED BY <1>1, <1>2, <1>4, <2>1, <2>3, TintShape, TintStep
<1>6. CASE Renames!SyncFail(d)
  <2>1. sync' = [sync EXCEPT ![d] = Renames!Still]
    BY <1>6 DEF Renames!SyncFail
  <2> QED BY <1>1, <1>2, <1>4, <2>1, TintShape, TintStep
<1> QED BY <1>5, <1>6

\* The device takes over what was merged.
LEMMA TintAdopts ==
    ASSUME TintTyped, NEW d \in Renames!Machines, Renames!SyncAdopt(d) PROVE TintTyped'
<1>1. UNCHANGED <<server, who, clock>> /\ sync' = [sync EXCEPT ![d] = Renames!Still]
      /\ colors' = [colors EXCEPT ![d] = Renames!Applied(d)]
  BY DEF Renames!SyncAdopt, Renames!Rest
<1>2. server \in [Accounts -> Renames!Colors] /\ colors \in [Renames!Machines -> Renames!Colors]
  BY DEF TintTyped
<1>3. sync[d].merged \in Renames!Colors /\ colors[d] \in Renames!Colors
  BY TintShape
<1>4. Renames!Applied(d) \in Renames!Colors
  BY <1>3 DEF Renames!Applied, Renames!Colors
<1>5. colors' \in [Renames!Machines -> Renames!Colors]
  BY <1>1, <1>2, <1>4
<1> QED BY <1>1, <1>2, <1>5, TintShape, TintStep

\* The account, and the steps of a rename or a deletion but the phone's last:
\* no sync goes on, and the colors of at most one device change.
LEMMA TintHolds ==
    ASSUME TintTyped, NEW d \in Renames!Machines, UNCHANGED <<clock, server, sync>>,
           NEW shades \in Renames!Colors, colors' = colors \/ colors' = [colors EXCEPT ![d] = shades],
           \A o \in Desktops : who'[o] # None
    PROVE  TintTyped'
<1>1. Renames!Colors' = Renames!Colors /\ Paints' = Paints
  BY SameTints
<1>2. colors' \in [Renames!Machines -> Renames!Colors]
  BY DEF TintTyped
<1> QED BY <1>1, <1>2 DEF TintTyped

LEMMA TintAccount ==
    ASSUME TintTyped, RenTyped, NEW d \in Renames!Machines,
           Renames!SignOut(d) \/ \E acct \in Accounts : Renames!SignIn(d, acct)
    PROVE  TintTyped'
<1>1. who \in [Renames!Machines -> Accounts \cup {None}] /\ \A o \in Desktops : who[o] # None
  BY DEF TintTyped, RenTyped
<1>2. CASE Renames!SignOut(d)
  <2>1. UNCHANGED <<clock, server, sync>> /\ colors' = [colors EXCEPT ![d] = Renames!NoColors]
    BY <1>2 DEF Renames!SignOut, Renames!Rest
  <2>2. \A o \in Desktops : who'[o] # None
    BY <1>1, <1>2 DEF Renames!SignOut
  <2> QED BY <2>1, <2>2, TintShape, TintHolds
<1>3. ASSUME NEW acct \in Accounts, Renames!SignIn(d, acct) PROVE TintTyped'
  <2>1. UNCHANGED <<clock, server, sync, colors>>
    BY <1>3 DEF Renames!SignIn, Renames!Rest
  <2>2. \A o \in Desktops : who'[o] # None
    BY <1>1, <1>3, RenameNames DEF Renames!SignIn
  <2> QED BY <2>1, <2>2, TintShape, TintHolds
<1> QED BY <1>2, <1>3

\* A desktop's rename carries the project's color.
LEMMA TintMoves ==
    ASSUME TintTyped, RenTyped, Begun, NEW d \in Renames!Machines, Renames!MoveEntries(d)
    PROVE  TintTyped'
<1> DEFINE from == change[d].from
           to == change[d].to
           carried == IF from \in catalog[d] THEN colors[d][from] ELSE None
           bare == Renames!Drop(colors[d], from)
           shades == IF to = None THEN bare ELSE [bare EXCEPT ![to] = carried]
<1>1. UNCHANGED <<clock, server, sync, who>>
  BY DEF Renames!MoveEntries, Renames!Rest
<1>2. \A o \in Desktops : who'[o] # None
  BY <1>1 DEF TintTyped
<1>3. from \in Movable
  <2>1. change[d].at # None
    BY RenameNames DEF Renames!MoveEntries, Renames!Phases
  <2> QED BY <2>1 DEF Begun
<1>4. colors[d] \in Renames!Colors
  BY TintShape
<1>5. bare \in Renames!Colors
  BY <1>4 DEF Renames!Drop, Renames!Colors
<1>6. carried \in Renames!Pref \cup {None}
  BY <1>3, <1>4 DEF Renames!Colors
<1>7. colors' = colors \/ colors' = [colors EXCEPT ![d] = shades]
  BY DEF Renames!MoveEntries
<1> HIDE DEF carried, bare
<1>8. shades \in Renames!Colors
  BY <1>5, <1>6 DEF Renames!Colors
<1> HIDE DEF shades
<1> QED BY <1>1, <1>2, <1>7, <1>8, TintHolds

\* The phone gives the new name the old one's pinned color, dated now.
LEMMA TintLast ==
    ASSUME TintTyped, RenTyped, Begun, NEW d \in Renames!Machines, Renames!MoveColor(d)
    PROVE  TintTyped'
<1> DEFINE from == change[d].from
           to == change[d].to
           pref == colors[d][from]
           pinned == pref # None /\ pref.color # Automatic
           reset == [color |-> Automatic, at |-> clock + 2, by |-> change[d].acct]
           taken == [color |-> pref.color, at |-> clock + 1, by |-> change[d].acct]
           shades == [proj \in Movable |->
                       IF proj = from THEN reset ELSE IF proj = to THEN taken ELSE colors[d][proj]]
           next == Renames!Begin(sync[d], change[d].acct)
<1>1. change[d].acct \in Accounts /\ from \in Movable
  <2>1. change[d].at # None
    BY RenameNames DEF Renames!MoveColor, Renames!Phases
  <2> QED BY <2>1 DEF Begun
<1>2. UNCHANGED <<server, who>>
  BY DEF Renames!MoveColor, Renames!Rest
<1>3. CASE ~pinned
  <2>1. UNCHANGED <<colors, clock, sync>>
    BY <1>3 DEF Renames!MoveColor
  <2> QED BY <1>2, <2>1, TintQuiet
<1>4. CASE pinned
  <2>1. /\ clock' = clock + 2 /\ sync' = [sync EXCEPT ![d] = next]
        /\ colors' = [colors EXCEPT ![d] = shades]
    BY <1>4 DEF Renames!MoveColor, TintTyped
  <2>2. clock \in Nat /\ clock' \in Nat /\ clock <= clock' /\ \A o \in Desktops : who[o] # None
    BY <2>1 DEF TintTyped
  <2>3. Renames!Pref \subseteq Renames!Pref' /\ Renames!Colors \subseteq Renames!Colors' /\ Paints \subseteq Paints'
    BY <2>2, TintsGrow
  <2>4. colors[d] \in Renames!Colors /\ colors[d] \in Renames!Colors'
    BY <2>3, TintShape
  <2>5. pref.color \in Palette \cup {Automatic}
    <3>1. pref \in Renames!Choice
      BY <1>1, <1>4, <2>4 DEF Renames!Colors, Renames!Pref
    <3> QED BY <3>1 DEF Renames!Choice
  <2> HIDE DEF pref
  <2>6. reset \in Renames!Pref' /\ taken \in Renames!Pref'
    BY <1>1, <2>1, <2>2, <2>5 DEF Renames!Pref, Renames!Choice
  <2> HIDE DEF reset, taken
  <2>7. shades \in Renames!Colors'
    BY <2>4, <2>6 DEF Renames!Colors
  <2> HIDE DEF shades
  <2>8. server' \in [Accounts -> Renames!Colors'] /\ colors' \in [Renames!Machines -> Renames!Colors']
    BY <1>2, <2>1, <2>3, <2>7 DEF TintTyped
  <2>9. next \in Paints /\ (next.pc # "idle" => next.acct \in Accounts)
    BY <1>1, PaintBegins
  <2> HIDE DEF next
  <2>10. next \in Paints'
    BY <2>3, <2>9
  <2>11. /\ sync' \in [Renames!Machines -> Paints']
         /\ \A o \in Renames!Machines : sync'[o].pc # "idle" => sync'[o].acct \in Accounts
    BY <2>1, <2>3, <2>9, <2>10, PaintSet
  <2> QED BY <1>2, <2>2, <2>8, <2>11 DEF TintTyped
<1> QED BY <1>3, <1>4

LEMMA InitTint == ASSUME Renames!Init PROVE TintTyped /\ Begun
<1>1. Renames!NoColors \in Renames!Colors
  BY DEF Renames!NoColors, Renames!Colors
<1>2. Renames!Still \in Paints /\ Renames!Still.pc = "idle"
  BY <1>1 DEF Renames!Still, Paints
<1>3. /\ clock = 0 /\ server = [acct \in Accounts |-> Renames!NoColors]
      /\ colors = [d \in Renames!Machines |-> Renames!NoColors]
      /\ who = [d \in Renames!Machines |-> me] /\ sync = [d \in Renames!Machines |-> Renames!Still]
      /\ change = [d \in Renames!Machines |-> Renames!Free]
  BY DEF Renames!Init
<1>4. me # None /\ Desktops \subseteq Renames!Machines
  BY RenameNames DEF Renames!Machines
<1>5. TintTyped
  BY <1>1, <1>2, <1>3, <1>4 DEF TintTyped
<1>6. Renames!Free.at = None
  BY DEF Renames!Free
<1> QED BY <1>3, <1>5, <1>6 DEF Begun

LEMMA TintNext ==
    ASSUME TintTyped, RenTyped, Begun, Renames!Next PROVE TintTyped'
<1>1. PICK d \in Renames!Machines :
        \/ \E proj \in Movable :
               \/ Renames!Create(d, proj) \/ Renames!PhoneDelete(d, proj) \/ Renames!DesktopDelete(d, proj)
               \/ (\E to \in Movable : Renames!PhoneRename(d, proj, to) \/ Renames!DesktopRename(d, proj, to))
               \/ (\E color \in Palette \cup {Automatic} : Renames!Choose(d, proj, color))
        \/ Renames!Reload(d) \/ Renames!SyncSoon(d) \/ Renames!Syncing(d) \/ Renames!SyncFail(d)
        \/ Renames!SignOut(d) \/ (\E acct \in Accounts : Renames!SignIn(d, acct))
        \/ Renames!Change(d) \/ Renames!MoveSome(d) \/ Renames!GiveUp(d)
  BY DEF Renames!Next
<1>2. CASE \E proj \in Movable, color \in Palette \cup {Automatic} : Renames!Choose(d, proj, color)
  BY <1>2, TintPicks
<1>3. CASE \E proj \in Movable :
             \/ Renames!Create(d, proj) \/ Renames!PhoneDelete(d, proj) \/ Renames!DesktopDelete(d, proj)
             \/ \E to \in Movable : Renames!PhoneRename(d, proj, to) \/ Renames!DesktopRename(d, proj, to)
  <2>1. UNCHANGED <<clock, server, colors, sync, who>>
    BY <1>3 DEF Renames!Create, Renames!PhoneDelete, Renames!DesktopDelete, Renames!PhoneRename,
                Renames!DesktopRename, Renames!Enter, Renames!Rest
  <2> QED BY <2>1, TintQuiet
<1>4. CASE Renames!SyncSoon(d) \/ Renames!SyncTake(d) \/ Renames!SyncRefused(d)
  BY <1>4, TintBegins
<1>5. CASE Renames!SyncRead(d) \/ Renames!SyncPatch(d) \/ Renames!SyncFail(d) \/ Renames!SyncAdopt(d)
  BY <1>5, TintReads, TintWrites, TintAdopts
<1>6. CASE Renames!SignOut(d) \/ \E acct \in Accounts : Renames!SignIn(d, acct)
  BY <1>6, TintAccount
<1>7. CASE Renames!MoveEntries(d) \/ Renames!MoveColor(d)
  BY <1>7, TintMoves, TintLast
<1>8. CASE \/ Renames!Reload(d) \/ Renames!RenameTimer(d) \/ Renames!Reshare(d)
           \/ Renames!MoveSome(d) \/ Renames!GiveUp(d)
  <2>1. UNCHANGED <<clock, server, colors, sync, who>>
    BY <1>8 DEF Renames!Reload, Renames!RenameTimer, Renames!Reshare, Renames!MoveSome,
                Renames!GiveUp, Renames!Rest
  <2> QED BY <2>1, TintQuiet
<1> QED BY <1>1, <1>2, <1>3, <1>4, <1>5, <1>6, <1>7, <1>8 DEF Renames!Change, Renames!Syncing

\* A dialog is confirmed by whoever is signed in.
LEMMA Confirmed ==
    ASSUME TintTyped, RenTyped, NEW d \in Renames!Machines, NEW from \in Movable,
           \/ Renames!PhoneDelete(d, from) \/ Renames!DesktopDelete(d, from)
           \/ \E to \in Movable : Renames!PhoneRename(d, from, to) \/ Renames!DesktopRename(d, from, to)
    PROVE  who[d] \in Accounts
<1>1. who[d] # None
  BY DEF TintTyped, Renames!PhoneDelete, Renames!DesktopDelete, Renames!PhoneRename,
         Renames!DesktopRename, Renames!PhoneLists
<1> QED BY <1>1 DEF RenTyped

\* An operation goes on as it was begun, or is over.
LEMMA BegunGoes ==
    ASSUME Begun, NEW d \in Renames!Machines, NEW at, change[d].at # None,
           RenGoes(d, at) \/ RenEnds(d)
    PROVE  Begun'
<1> SUFFICES ASSUME NEW o \in Renames!Machines, change'[o].at # None
             PROVE  change'[o].acct \in Accounts /\ change'[o].from \in Movable
  BY DEF Begun
<1>1. CASE o = d
  BY <1>1 DEF Begun, RenGoes, RenEnds
<1>2. CASE o # d
  BY <1>2 DEF Begun, RenGoes, RenEnds
<1> QED BY <1>1, <1>2

LEMMA BegunNext ==
    ASSUME TintTyped, RenTyped, Begun, Renames!Next PROVE Begun'
<1>1. PICK d \in Renames!Machines :
        \/ \E proj \in Movable :
               \/ Renames!Create(d, proj) \/ Renames!PhoneDelete(d, proj) \/ Renames!DesktopDelete(d, proj)
               \/ (\E to \in Movable : Renames!PhoneRename(d, proj, to) \/ Renames!DesktopRename(d, proj, to))
               \/ (\E color \in Palette \cup {Automatic} : Renames!Choose(d, proj, color))
        \/ Renames!Reload(d) \/ Renames!SyncSoon(d) \/ Renames!Syncing(d) \/ Renames!SyncFail(d)
        \/ Renames!SignOut(d) \/ (\E acct \in Accounts : Renames!SignIn(d, acct))
        \/ Renames!Change(d) \/ Renames!MoveSome(d) \/ Renames!GiveUp(d)
  BY DEF Renames!Next
<1>2. CASE \/ \E proj \in Movable :
                 \/ Renames!Create(d, proj)
                 \/ \E color \in Palette \cup {Automatic} : Renames!Choose(d, proj, color)
           \/ Renames!SyncSoon(d) \/ Renames!Syncing(d) \/ Renames!SyncFail(d)
           \/ Renames!Reload(d) \/ Renames!SignOut(d)
           \/ \E acct \in Accounts : Renames!SignIn(d, acct)
  <2>1. RenQuiet
    BY <1>2, ColorSteps, ListSteps
  <2> QED BY <2>1 DEF RenQuiet, Begun
<1>3. ASSUME NEW proj \in Movable,
             \/ Renames!PhoneDelete(d, proj) \/ Renames!DesktopDelete(d, proj)
             \/ \E to \in Movable : Renames!PhoneRename(d, proj, to) \/ Renames!DesktopRename(d, proj, to)
      PROVE  Begun'
  <2>1. RenEntered(d) /\ who[d] \in Accounts
    BY <1>3, EnterSteps, Confirmed
  <2>2. change'[d].acct \in Accounts /\ change'[d].from \in Movable
    BY <2>1 DEF RenEntered, Fitting
  <2>3. \A o \in Renames!Machines \ {d} : change'[o] = change[o]
    BY <2>1 DEF RenEntered
  <2> QED BY <2>2, <2>3 DEF Begun
<1>4. CASE Renames!Change(d) \/ Renames!MoveSome(d) \/ Renames!GiveUp(d)
  <2>1. change[d].at \in {"entries", "timer", "shares", "colors", "failed"}
        /\ ((\E at : RenGoes(d, at)) \/ RenEnds(d))
    BY <1>4, MoveSteps, MoveSomeSteps, TimerSteps, ReshareSteps, LastSteps DEF Renames!Change
  <2>2. change[d].at # None
    BY <2>1, RenameNames DEF Renames!Phases
  <2> QED BY <2>1, <2>2, BegunGoes
<1> QED BY <1>1, <1>2, <1>3, <1>4

LEMMA TrackedTyped == ASSUME RenTyped PROVE Renames!Tracked \subseteq Movable
BY DEF RenTyped, Homes, Renames!Tracked, Renames!Named

LEMMA ListInit == ASSUME Renames!Init PROVE ListTyped
<1>1. Renames!Tracked \subseteq Movable
  BY InitRenTyped, TrackedTyped
<1> QED BY <1>1 DEF Renames!Init, ListTyped

LEMMA ListQuiet ==
    ASSUME ListTyped, UNCHANGED <<named, running, column, stale, undone>>, crossed' \in BOOLEAN,
           NEW d \in Renames!Machines, NEW names \in SUBSET Movable,
           catalog' = catalog \/ catalog' = [catalog EXCEPT ![d] = @ \cup names]
    PROVE  ListTyped'
<1>1. catalog' \in [Desktops -> SUBSET Movable]
  <2>1. catalog \in [Desktops -> SUBSET Movable]
    BY DEF ListTyped
  <2> QED BY <2>1
<1> QED BY <1>1 DEF ListTyped

\* The colors, the account and the lists.
LEMMA ListColors ==
    ASSUME ListTyped, RenTyped, NEW d \in Renames!Machines,
           \/ \E proj \in Movable :
               \/ Renames!Create(d, proj)
               \/ \E color \in Palette \cup {Automatic} : Renames!Choose(d, proj, color)
           \/ Renames!Reload(d) \/ Renames!SyncSoon(d) \/ Renames!Syncing(d) \/ Renames!SyncFail(d)
           \/ Renames!SignOut(d) \/ (\E acct \in Accounts : Renames!SignIn(d, acct))
           \/ Renames!GiveUp(d) \/ Renames!MoveColor(d) \/ Renames!MoveSome(d)
    PROVE  ListTyped'
<1>1. UNCHANGED <<named, running, column, stale, undone>>
  BY DEF Renames!Create, Renames!Choose, Renames!Reload, Renames!SyncSoon, Renames!Syncing,
         Renames!SyncTake, Renames!SyncRefused, Renames!SyncRead, Renames!SyncPatch,
         Renames!SyncAdopt, Renames!SyncFail, Renames!SyncGoes, Renames!SignOut, Renames!SignIn,
         Renames!GiveUp, Renames!MoveColor, Renames!MoveSome, Renames!Rest
<1>2. crossed' \in BOOLEAN
  <2>1. crossed \in BOOLEAN
    BY DEF ListTyped
  <2> QED BY <2>1 DEF Renames!Create, Renames!Choose, Renames!Reload, Renames!SyncSoon, Renames!Syncing,
         Renames!SyncTake, Renames!SyncRefused, Renames!SyncRead, Renames!SyncPatch,
         Renames!SyncAdopt, Renames!SyncFail, Renames!SyncGoes, Renames!SignOut, Renames!SignIn,
         Renames!GiveUp, Renames!MoveColor, Renames!MoveSome, Renames!Rest
<1>3. \E names \in SUBSET Movable :
          catalog' = catalog \/ catalog' = [catalog EXCEPT ![d] = @ \cup names]
  <2>1. CASE catalog' = catalog
    BY <2>1
  <2>2. ASSUME NEW proj \in Movable,
               \/ Renames!Create(d, proj)
               \/ \E color \in Palette \cup {Automatic} : Renames!Choose(d, proj, color)
        PROVE  catalog' = catalog \/ catalog' = [catalog EXCEPT ![d] = @ \cup {proj}]
    BY <2>2 DEF Renames!Create, Renames!Choose
  <2>3. CASE Renames!Reload(d)
    <3>1. catalog' = catalog \/ catalog' = [catalog EXCEPT ![d] = @ \cup Renames!Tracked]
      BY <2>3 DEF Renames!Reload
    <3> QED BY <3>1, TrackedTyped
  <2>4. CASE Renames!SyncAdopt(d)
    <3> DEFINE names == {proj \in Movable : Renames!Applied(d)[proj] # None}
    <3>1. catalog' = catalog \/ catalog' = [catalog EXCEPT ![d] = @ \cup names]
      BY <2>4 DEF Renames!SyncAdopt
    <3> QED BY <3>1
  <2>5. CASE \/ Renames!SyncSoon(d) \/ Renames!SyncTake(d) \/ Renames!SyncRefused(d)
             \/ Renames!SyncRead(d) \/ Renames!SyncPatch(d) \/ Renames!SyncFail(d)
             \/ Renames!SignOut(d) \/ (\E acct \in Accounts : Renames!SignIn(d, acct))
             \/ Renames!GiveUp(d) \/ Renames!MoveColor(d) \/ Renames!MoveSome(d)
    BY <2>1, <2>5 DEF Renames!SyncSoon, Renames!SyncTake, Renames!SyncRefused, Renames!SyncRead,
         Renames!SyncPatch, Renames!SyncFail, Renames!SyncGoes, Renames!SignOut, Renames!SignIn,
         Renames!GiveUp, Renames!MoveColor, Renames!MoveSome, Renames!Rest
  <2>6. \A proj \in Movable : {proj} \in SUBSET Movable
    OBVIOUS
  <2> QED BY <2>2, <2>3, <2>4, <2>5, <2>6 DEF Renames!Syncing
<1> QED BY <1>1, <1>2, <1>3, ListQuiet

\* Dialogs, and the names that follow an operation.
LEMMA ListMoves ==
    ASSUME ListTyped, RenTyped, NEW d \in Renames!Machines,
           \/ Renames!MoveEntries(d) \/ Renames!RenameTimer(d) \/ Renames!Reshare(d)
           \/ \E kind \in Renames!Kinds, from \in Movable, to \in Movable \cup {None} :
                  Renames!Enter(d, kind, from, to)
    PROVE  ListTyped'
<1>1. /\ change[d].to \in Movable \cup {None} /\ catalog \in [Desktops -> SUBSET Movable]
      /\ named \subseteq Movable /\ running \in Movable \cup {None}
      /\ column \in BOOLEAN /\ crossed \in BOOLEAN /\ stale \in BOOLEAN /\ undone \in BOOLEAN
  BY DEF ListTyped, RenTyped, Operations
<1>2. UNCHANGED <<column, crossed>>
  BY DEF Renames!MoveEntries, Renames!RenameTimer, Renames!Reshare, Renames!Enter, Renames!Rest
<1>3. stale' \in BOOLEAN /\ undone' \in BOOLEAN
  BY <1>1 DEF Renames!MoveEntries, Renames!RenameTimer, Renames!Reshare, Renames!Enter, Renames!Rest
<1>4. named' \subseteq Movable
  BY <1>1 DEF Renames!MoveEntries, Renames!RenameTimer, Renames!Reshare, Renames!Enter, Renames!Rest
<1>5. running' \in Movable \cup {None}
  BY <1>1 DEF Renames!MoveEntries, Renames!RenameTimer, Renames!Reshare, Renames!Enter, Renames!Rest
<1>6. catalog' \in [Desktops -> SUBSET Movable]
  <2>1. CASE catalog' = catalog
    BY <1>1, <2>1
  <2>2. CASE Renames!MoveEntries(d) /\ catalog' # catalog
    <3> DEFINE rows == (catalog[d] \ {change[d].from}) \cup ({change[d].to} \ {None})
    <3>1. catalog' = [catalog EXCEPT ![d] = rows] /\ d \in Desktops
      BY <2>2 DEF Renames!MoveEntries, Renames!Machines
    <3>2. rows \in SUBSET Movable
      BY <1>1, <3>1
    <3> HIDE DEF rows
    <3> QED BY <1>1, <3>1, <3>2
  <2>3. CASE ~Renames!MoveEntries(d)
    BY <2>1, <2>3 DEF Renames!RenameTimer, Renames!Reshare, Renames!Enter, Renames!Rest
  <2> QED BY <2>1, <2>2, <2>3
<1> QED BY <1>1, <1>2, <1>3, <1>4, <1>5, <1>6 DEF ListTyped

LEMMA ListNext ==
    ASSUME ListTyped, RenTyped, Renames!Next PROVE ListTyped'
<1>1. PICK d \in Renames!Machines :
        \/ \E proj \in Movable :
               \/ Renames!Create(d, proj) \/ Renames!PhoneDelete(d, proj) \/ Renames!DesktopDelete(d, proj)
               \/ (\E to \in Movable : Renames!PhoneRename(d, proj, to) \/ Renames!DesktopRename(d, proj, to))
               \/ (\E color \in Palette \cup {Automatic} : Renames!Choose(d, proj, color))
        \/ Renames!Reload(d) \/ Renames!SyncSoon(d) \/ Renames!Syncing(d) \/ Renames!SyncFail(d)
        \/ Renames!SignOut(d) \/ (\E acct \in Accounts : Renames!SignIn(d, acct))
        \/ Renames!Change(d) \/ Renames!MoveSome(d) \/ Renames!GiveUp(d)
  BY DEF Renames!Next
<1>2. CASE \/ \E proj \in Movable :
               \/ Renames!Create(d, proj)
               \/ \E color \in Palette \cup {Automatic} : Renames!Choose(d, proj, color)
           \/ Renames!Reload(d) \/ Renames!SyncSoon(d) \/ Renames!Syncing(d) \/ Renames!SyncFail(d)
           \/ Renames!SignOut(d) \/ (\E acct \in Accounts : Renames!SignIn(d, acct))
           \/ Renames!GiveUp(d) \/ Renames!MoveColor(d) \/ Renames!MoveSome(d)
  BY <1>2, ListColors
<1>3. ASSUME NEW proj \in Movable,
             \/ Renames!PhoneDelete(d, proj) \/ Renames!DesktopDelete(d, proj)
             \/ \E to \in Movable : Renames!PhoneRename(d, proj, to) \/ Renames!DesktopRename(d, proj, to)
      PROVE  ListTyped'
  <2>1. \E kind \in Renames!Kinds, from \in Movable, to \in Movable \cup {None} :
            Renames!Enter(d, kind, from, to)
    BY <1>3 DEF Renames!PhoneDelete, Renames!DesktopDelete, Renames!PhoneRename,
                Renames!DesktopRename, Renames!Kinds
  <2> QED BY <2>1, ListMoves
<1>4. CASE Renames!MoveEntries(d) \/ Renames!RenameTimer(d) \/ Renames!Reshare(d)
  BY <1>4, ListMoves
<1> QED BY <1>1, <1>2, <1>3, <1>4 DEF Renames!Change

LEMMA RenTypedNext == ASSUME RenTyped, Renames!Next PROVE RenTyped'
<1>1. PICK d \in Renames!Machines :
        \/ \E proj \in Movable :
               \/ Renames!Create(d, proj) \/ Renames!PhoneDelete(d, proj) \/ Renames!DesktopDelete(d, proj)
               \/ (\E to \in Movable : Renames!PhoneRename(d, proj, to) \/ Renames!DesktopRename(d, proj, to))
               \/ (\E color \in Palette \cup {Automatic} : Renames!Choose(d, proj, color))
        \/ Renames!Reload(d) \/ Renames!SyncSoon(d) \/ Renames!Syncing(d) \/ Renames!SyncFail(d)
        \/ Renames!SignOut(d) \/ (\E acct \in Accounts : Renames!SignIn(d, acct))
        \/ Renames!Change(d) \/ Renames!MoveSome(d) \/ Renames!GiveUp(d)
  BY DEF Renames!Next
<1> QED BY <1>1, ColorSteps, ListSteps, EnterSteps, MoveSteps, MoveSomeSteps, TimerSteps,
           ReshareSteps, LastSteps DEF Renames!Change

\* The types of the renames, where they are what moves.
RenamesTyped == part = "renames" => RenTyped /\ TintTyped /\ Begun /\ ListTyped

LEMMA NextRenamesTyped ==
    RenamesTyped /\ [AnyNext]_<<part, sharing, projects>> => RenamesTyped'
<1> SUFFICES ASSUME RenamesTyped, [AnyNext]_<<part, sharing, projects>>, part' = "renames"
             PROVE  RenTyped' /\ TintTyped' /\ Begun' /\ ListTyped'
  BY DEF RenamesTyped
<1>1. part = "renames" /\ (Renames!Next \/ UNCHANGED projects)
  BY DEF AnyNext
<1>2. RenTyped /\ TintTyped /\ Begun /\ ListTyped
  BY <1>1 DEF RenamesTyped
<1>3. CASE Renames!Next
  BY <1>2, <1>3, RenTypedNext, TintNext, BegunNext, ListNext
<1>4. CASE UNCHANGED projects
  <2>1. UNCHANGED <<column, server, colors, who, sync, catalog, listed, home, named, running,
                    change, clock, budget, crossed, stale, undone>>
    BY <1>4 DEF projects
  <2>2. TintTyped'
    BY <1>2, <2>1, TintQuiet
  <2> QED BY <1>2, <2>1, <2>2 DEF RenTyped, Begun, ListTyped
<1> QED BY <1>1, <1>3, <1>4

LEMMA RenamesTypes == RenamesTyped /\ part = "renames" => Renames!TypeOK
<1> SUFFICES ASSUME RenTyped, TintTyped, Begun, ListTyped PROVE Renames!TypeOK
  BY DEF RenamesTyped
<1>1. server \in [Accounts -> Renames!Colors] /\ colors \in [Renames!Machines -> Renames!Colors]
  BY DEF TintTyped
<1>2. who \in [Renames!Machines -> Accounts \cup {None}]
  BY DEF RenTyped
<1>3. ASSUME NEW d \in Renames!Machines
      PROVE  /\ sync[d].pc \in {"idle", "token", "read", "patch", "adopt"}
             /\ sync[d].snap \in Renames!Colors /\ sync[d].merged \in Renames!Colors
             /\ change[d].kind \in Renames!Kinds \cup {None} /\ change[d].at \in Renames!Phases \cup {None}
  BY TintShape DEF Paints, RenTyped, Operations
<1>4. /\ listed \in [Devices \ Desktops -> [Entries -> Movable \cup {None}]]
      /\ home \in [Entries -> Movable \cup {None}]
  BY DEF RenTyped, Homes
<1> QED BY <1>1, <1>2, <1>3, <1>4 DEF TintTyped, ListTyped, Renames!TypeOK

\* What the colors' types need besides: nothing is renamed, deleted or created.
MarkTyped ==
    /\ home \in [Entries -> Pinnable \cup {None}]
    /\ listed \in [Devices \ Desktops -> [Entries -> Pinnable \cup {None}]]
    /\ catalog \in [Desktops -> SUBSET Pinnable]
    /\ named \subseteq Pinnable /\ running \in Pinnable \cup {None}
    /\ {column, crossed, stale, undone} \subseteq BOOLEAN
    /\ \A d \in Colors!Machines : change[d] = Colors!Free

LEMMA MarkInit == ASSUME Colors!Init PROVE MarkTyped
<1>1. home \in [Entries -> Pinnable \cup {None}] /\ home = First
  BY ProjectsInBounds DEF Colors!Init, Colors!ProjectsBounds
<1>2. Colors!Tracked \subseteq Pinnable
  BY <1>1 DEF Colors!Tracked, Colors!Named
<1>3. listed \in [Devices \ Desktops -> [Entries -> Pinnable \cup {None}]]
  BY <1>1 DEF Colors!Init
<1>4. catalog \in [Desktops -> SUBSET Pinnable]
  BY <1>2 DEF Colors!Init
<1> QED BY <1>1, <1>2, <1>3, <1>4 DEF Colors!Init, MarkTyped

LEMMA MarkNext == ASSUME ShadeInv, MarkTyped, Colors!Next PROVE MarkTyped'
<1>1. PICK d \in Colors!Machines :
        \/ \E proj \in Pinnable :
               \/ Colors!Create(d, proj) \/ Colors!PhoneDelete(d, proj) \/ Colors!DesktopDelete(d, proj)
               \/ (\E to \in Pinnable : Colors!PhoneRename(d, proj, to) \/ Colors!DesktopRename(d, proj, to))
               \/ (\E color \in Palette \cup {Automatic} : Colors!Choose(d, proj, color))
        \/ Colors!Reload(d) \/ Colors!SyncSoon(d) \/ Colors!Syncing(d) \/ Colors!SyncFail(d)
        \/ Colors!SignOut(d) \/ (\E acct \in Accounts : Colors!SignIn(d, acct))
        \/ Colors!Change(d) \/ Colors!MoveSome(d) \/ Colors!GiveUp(d)
  BY DEF Colors!Next
<1>2. \/ \E proj \in Pinnable, color \in Palette \cup {Automatic} : Colors!Choose(d, proj, color)
      \/ Colors!Reload(d) \/ Colors!SyncSoon(d) \/ Colors!Syncing(d) \/ Colors!SyncFail(d)
      \/ Colors!SignOut(d) \/ (\E acct \in Accounts : Colors!SignIn(d, acct))
  BY <1>1, NoRenames, NoChanges
<1>3. UNCHANGED <<home, named, running, column, stale, undone, change>>
  BY <1>2 DEF Colors!Choose, Colors!Reload, Colors!SyncSoon, Colors!Syncing,
         Colors!SyncTake, Colors!SyncRefused, Colors!SyncRead, Colors!SyncPatch,
         Colors!SyncAdopt, Colors!SyncFail, Colors!SyncGoes, Colors!SignOut, Colors!SignIn, Colors!Rest
<1>4. /\ home \in [Entries -> Pinnable \cup {None}]
      /\ listed \in [Devices \ Desktops -> [Entries -> Pinnable \cup {None}]]
      /\ catalog \in [Desktops -> SUBSET Pinnable] /\ crossed \in BOOLEAN
  BY DEF MarkTyped
<1>5. crossed' \in BOOLEAN
  BY <1>2, <1>4 DEF Colors!Choose, Colors!Reload, Colors!SyncSoon, Colors!Syncing,
         Colors!SyncTake, Colors!SyncRefused, Colors!SyncRead, Colors!SyncPatch,
         Colors!SyncAdopt, Colors!SyncFail, Colors!SyncGoes, Colors!SignOut, Colors!SignIn, Colors!Rest
<1>6. Colors!Tracked \subseteq Pinnable
  BY <1>4 DEF Colors!Tracked, Colors!Named
<1>7. listed' \in [Devices \ Desktops -> [Entries -> Pinnable \cup {None}]]
  <2> DEFINE bare == [e \in Entries |-> None]
  <2>1. \/ listed' = listed \/ listed' = [listed EXCEPT ![d] = home]
        \/ listed' = [listed EXCEPT ![d] = bare]
    BY <1>2 DEF Colors!Choose, Colors!Reload, Colors!SyncSoon, Colors!Syncing,
         Colors!SyncTake, Colors!SyncRefused, Colors!SyncRead, Colors!SyncPatch,
         Colors!SyncAdopt, Colors!SyncFail, Colors!SyncGoes, Colors!SignOut, Colors!SignIn, Colors!Rest
  <2>2. bare \in [Entries -> Pinnable \cup {None}]
    OBVIOUS
  <2> HIDE DEF bare
  <2> QED BY <1>4, <2>1, <2>2
<1>8. \E names \in SUBSET Pinnable :
          catalog' = catalog \/ catalog' = [catalog EXCEPT ![d] = @ \cup names]
  <2>1. CASE catalog' = catalog
    BY <2>1
  <2>2. ASSUME NEW proj \in Pinnable, NEW color \in Palette \cup {Automatic}, Colors!Choose(d, proj, color)
        PROVE  catalog' = catalog \/ catalog' = [catalog EXCEPT ![d] = @ \cup {proj}]
    BY <2>2 DEF Colors!Choose
  <2>3. CASE Colors!Reload(d)
    <3>1. catalog' = catalog \/ catalog' = [catalog EXCEPT ![d] = @ \cup Colors!Tracked]
      BY <2>3 DEF Colors!Reload
    <3> QED BY <1>6, <3>1
  <2>4. CASE Colors!SyncAdopt(d)
    <3> DEFINE names == {proj \in Pinnable : Colors!Applied(d)[proj] # None}
    <3>1. catalog' = catalog \/ catalog' = [catalog EXCEPT ![d] = @ \cup names]
      BY <2>4 DEF Colors!SyncAdopt
    <3> QED BY <3>1
  <2>5. CASE \/ Colors!SyncSoon(d) \/ Colors!SyncTake(d) \/ Colors!SyncRefused(d)
             \/ Colors!SyncRead(d) \/ Colors!SyncPatch(d) \/ Colors!SyncFail(d)
             \/ Colors!SignOut(d) \/ (\E acct \in Accounts : Colors!SignIn(d, acct))
    BY <2>1, <2>5 DEF Colors!SyncSoon, Colors!SyncTake, Colors!SyncRefused, Colors!SyncRead,
         Colors!SyncPatch, Colors!SyncFail, Colors!SyncGoes, Colors!SignOut, Colors!SignIn, Colors!Rest
  <2>6. \A proj \in Pinnable : {proj} \in SUBSET Pinnable
    OBVIOUS
  <2> QED BY <1>2, <2>2, <2>3, <2>4, <2>5, <2>6 DEF Colors!Syncing
<1>9. catalog' \in [Desktops -> SUBSET Pinnable]
  BY <1>4, <1>8
<1> QED BY <1>3, <1>5, <1>7, <1>9 DEF MarkTyped

\* No choice that is held is dated ahead.
LEMMA ColorsTypes == ASSUME ShadeInv, MarkTyped PROVE Colors!TypeOK
<1>1. ASSUME NEW f \in Shades, \A proj \in Pinnable : \A u \in Colors!Choice : u = f[proj] => Held(proj, u)
      PROVE  f \in Colors!Colors
  <2>1. \A proj \in Pinnable : \A u \in Colors!Choice : Held(proj, u) => u.at <= clock
    BY DEF ShadeInv, TimeNames
  <2>2. \A proj \in Pinnable : f[proj] \in Colors!Pref \cup {None}
    BY <1>1, <2>1 DEF Shades, Colors!Pref
  <2> QED BY <1>1, <2>2 DEF Shades, Colors!Colors
<1>2. ASSUME NEW d \in Colors!Machines
      PROVE  /\ colors[d] \in Colors!Colors
             /\ sync[d].pc \in {"idle", "token", "read", "patch", "adopt"}
             /\ sync[d].snap \in Colors!Colors /\ sync[d].merged \in Colors!Colors
             /\ change[d].kind \in Colors!Kinds \cup {None} /\ change[d].at \in Colors!Phases \cup {None}
  <2>1. colors[d] \in Colors!Colors /\ sync[d].snap \in Colors!Colors /\ sync[d].merged \in Colors!Colors
    BY <1>1, SyncShape
  <2>2. sync[d].pc \in {"idle", "token", "read", "patch", "adopt"}
    BY SyncShape DEF Syncs
  <2>3. change[d].kind = None /\ change[d].at = None
    BY DEF MarkTyped, Colors!Free
  <2> QED BY <2>1, <2>2, <2>3
<1>3. colors \in [Colors!Machines -> Colors!Colors]
  BY <1>2 DEF ShadeInv, ShadeTyped
<1>4. server \in [Accounts -> Colors!Colors]
  <2>1. server \in [Accounts -> Shades]
    BY DEF ShadeInv, ShadeTyped
  <2>2. ASSUME NEW acct \in Accounts PROVE server[acct] \in Colors!Colors
    <3>1. server[acct] \in Shades
      BY <2>1
    <3>2. \A proj \in Pinnable : \A u \in Colors!Choice : u = server[acct][proj] => Held(proj, u)
      BY DEF Held
    <3> QED BY <1>1, <3>1, <3>2
  <2> QED BY <2>1, <2>2
<1>5. who \in [Colors!Machines -> Accounts \cup {None}] /\ clock \in Nat
  BY DEF ShadeInv, ShadeTyped
<1> QED BY <1>2, <1>3, <1>4, <1>5 DEF MarkTyped, Colors!TypeOK

\* The types of the colors, where they are what moves.
ColorsTyped == part = "colors" => ShadeInv /\ MarkTyped

LEMMA NextColorsTyped == ColorsTyped /\ [AnyNext]_<<part, sharing, projects>> => ColorsTyped'
<1> SUFFICES ASSUME ColorsTyped, [AnyNext]_<<part, sharing, projects>>, part' = "colors"
             PROVE  ShadeInv' /\ MarkTyped'
  BY DEF ColorsTyped
<1>1. part = "colors" /\ (Colors!Next \/ UNCHANGED projects)
  BY DEF AnyNext
<1>2. ShadeInv /\ MarkTyped
  BY <1>1 DEF ColorsTyped
<1>3. ShadeInv'
  BY <1>2, NextColors DEF ColorsInv
<1>4. CASE UNCHANGED projects
  <2>1. UNCHANGED <<column, catalog, listed, home, named, running, change, crossed, stale, undone>>
    BY <1>4 DEF projects
  <2> QED BY <1>2, <1>3, <2>1 DEF MarkTyped
<1> QED BY <1>1, <1>2, <1>3, <1>4, MarkNext

\* The teams' types, whatever moves.
LEMMA NextSharing == RemovalInv /\ [AnyNext]_<<part, sharing, projects>> => RemovalInv'
<1>1. [AnyNext]_<<part, sharing, projects>> => [Next]_vars
  BY DEF AnyNext, sharing
<1> QED BY <1>1, NextRemoval

\* Whichever part takes its steps has its types: no color choice is dated ahead
\* of the latest, whoever renames or deletes a project is signed in, and every
\* share, list and name is of projects there are.
THEOREM TypesHold == AnySpec => []Typed
<1> DEFINE TypedInv == RemovalInv /\ RenamesTyped /\ ColorsTyped
<1>1. AnyInit => TypedInv
  BY RemovalInit, InitRenTyped, InitTint, ListInit, InitShades, MarkInit
     DEF AnyInit, RenamesTyped, ColorsTyped
<1>2. TypedInv /\ [AnyNext]_<<part, sharing, projects>> => TypedInv'
  BY NextSharing, NextRenamesTyped, NextColorsTyped
<1>3. TypedInv => Typed
  <2>1. RemovalInv => TypeOK
    BY DEF RemovalInv
  <2> QED BY <2>1, RenamesTypes, ColorsTypes DEF ColorsTyped, Typed
<1> QED BY <1>1, <1>2, <1>3, PTL DEF AnySpec
=============================================================================
