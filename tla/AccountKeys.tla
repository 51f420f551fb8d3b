------------------------------ MODULE AccountKeys ------------------------------
(***************************************************************************)
(* The keys of one account (mobile/src/sync/account.ts, sync/identity.ts;  *)
(* internal/integrations/neonsync/service.go Unlock,                       *)
(* sharing_service.go provisionIdentity).                                  *)
(*                                                                         *)
(* Its devices share one row of user_keys, which holds the key everything  *)
(* is sealed under and the sharing identity, each wrapped with the         *)
(* password, and one public row in identities.  A device that signs in     *)
(* recovers both, or makes what the account has not got yet; any of its    *)
(* requests may fail before or after the server acted, and it may stop in  *)
(* between.                                                                *)
(*                                                                         *)
(* Keys are numbers, 0 for none: what is made is always new.               *)
(***************************************************************************)
EXTENDS Naturals

CONSTANTS
    Devices,
    Phones,     \* those that read the row again before they look for the identity
    MaxMade,    \* bound on keys made
    MaxFails    \* bound on failed requests and on devices stopping

ASSUME KeysDevices == Phones \subseteq Devices
ASSUME KeysBounds == MaxMade \in Nat /\ MaxFails \in Nat

VARIABLES
    row,     \* user_keys: [dek, ident]
    public,  \* identities: the public half last published
    holds,   \* what each device keeps: [dek, ident]
    doing,   \* the sign-in of each device: [at, dek, ident, seen]
    made,    \* how many keys have been made
    fails

vars == <<row, public, holds, doing, made, fails>>

Key == 0..MaxMade
Steps == {"out", "read", "insert", "save", "look", "patch", "publish", "keep", "in"}
Out == [at |-> "out", dek |-> 0, ident |-> 0, seen |-> 0]

TypeOK ==
    /\ row \in [dek : Key, ident : Key]
    /\ public \in Key
    /\ holds \in [Devices -> [dek : Key, ident : Key]]
    /\ doing \in [Devices -> [at : Steps, dek : Key, ident : Key, seen : Key]]
    /\ made \in Key
    /\ fails \in 0..MaxFails

Init ==
    /\ row = [dek |-> 0, ident |-> 0] /\ public = 0
    /\ holds = [d \in Devices |-> [dek |-> 0, ident |-> 0]]
    /\ doing = [d \in Devices |-> Out]
    /\ made = 0 /\ fails = MaxFails

\* Device d goes on to the step `to`.
Goes(d, to) == doing' = [doing EXCEPT ![d].at = to]

SignIn(d) ==
    /\ doing[d].at = "out"
    /\ Goes(d, "read")
    /\ UNCHANGED <<row, public, holds, made, fails>>

\* getUserKeys: the key of the row is opened, or a first one is made.
ReadKeys(d) ==
    /\ doing[d].at = "read"
    /\ IF row.dek # 0
       THEN /\ doing' = [doing EXCEPT ![d] = [at |-> "save", dek |-> row.dek, ident |-> 0,
                                              seen |-> row.ident]]
            /\ UNCHANGED made
       ELSE /\ made < MaxMade /\ made' = made + 1
            /\ doing' = [doing EXCEPT ![d] = [at |-> "insert", dek |-> made', ident |-> 0,
                                              seen |-> 0]]
    /\ UNCHANGED <<row, public, holds, fails>>

\* Slip: the row is written over.
UpsertKeys(d) ==
    /\ doing[d].at = "insert"
    /\ row' = [row EXCEPT !.dek = doing[d].dek]
    /\ Goes(d, "save")
    /\ UNCHANGED <<public, holds, made, fails>>

\* insertUserKeys: refused when the account has a row, and the sign-in with it.
InsertKeys(d) ==
    /\ doing[d].at = "insert"
    /\ IF row.dek = 0
       THEN row' = [row EXCEPT !.dek = doing[d].dek] /\ Goes(d, "save")
       ELSE doing' = [doing EXCEPT ![d] = Out] /\ UNCHANGED row
    /\ UNCHANGED <<public, holds, made, fails>>

SaveKey(d) ==
    /\ doing[d].at = "save"
    /\ holds' = [holds EXCEPT ![d].dek = doing[d].dek]
    /\ Goes(d, "look")
    /\ UNCHANGED <<row, public, made, fails>>

\* provisionIdentity: a phone reads the row again, a desktop goes by what it read
\* with the key; the identity is opened, or one is made.
LookForIdentity(d) ==
    LET seen == IF d \in Phones THEN row.ident ELSE doing[d].seen IN
    /\ doing[d].at = "look"
    /\ IF seen # 0
       THEN /\ doing' = [doing EXCEPT ![d].at = "publish", ![d].ident = seen, ![d].seen = seen]
            /\ UNCHANGED made
       ELSE /\ made < MaxMade /\ made' = made + 1
            /\ doing' = [doing EXCEPT ![d].at = "patch", ![d].ident = made', ![d].seen = 0]
    /\ UNCHANGED <<row, public, holds, fails>>

PatchIdentity(d) ==
    /\ doing[d].at = "patch"
    /\ row' = [row EXCEPT !.ident = doing[d].ident]
    /\ Goes(d, "publish")
    /\ UNCHANGED <<public, holds, made, fails>>

Publish(d) ==
    /\ doing[d].at = "publish"
    /\ public' = doing[d].ident
    /\ Goes(d, "keep")
    /\ UNCHANGED <<row, holds, made, fails>>

\* saveIdentity
KeepIdentity(d) ==
    /\ doing[d].at = "keep"
    /\ holds' = [holds EXCEPT ![d].ident = doing[d].ident]
    /\ Goes(d, "in")
    /\ UNCHANGED <<row, public, made, fails>>

\* unlockSharing: signed in without an identity, a phone asks for the password.
UnlockSharing(d) ==
    /\ d \in Phones /\ doing[d].at = "in" /\ holds[d].ident = 0
    /\ Goes(d, "look")
    /\ UNCHANGED <<row, public, holds, made, fails>>

SignOut(d) ==
    /\ doing[d].at = "in"
    /\ doing' = [doing EXCEPT ![d] = Out]
    /\ holds' = [holds EXCEPT ![d] = [dek |-> 0, ident |-> 0]]
    /\ UNCHANGED <<row, public, made, fails>>

\* A request fails, before or after the server acted.  Without its key a device
\* is not signed in; without the identity it is; publishing an identity the row
\* had already may fail.
Fail(d) ==
    /\ fails > 0 /\ fails' = fails - 1
    /\ \/ /\ doing[d].at \in {"read", "insert"}
          /\ \/ doing[d].at = "insert" /\ row.dek = 0 /\ row' = [row EXCEPT !.dek = doing[d].dek]
             \/ UNCHANGED row
          /\ doing' = [doing EXCEPT ![d] = Out]
          /\ UNCHANGED public
       \/ /\ doing[d].at \in {"look", "patch"}
          /\ \/ doing[d].at = "patch" /\ row' = [row EXCEPT !.ident = doing[d].ident]
             \/ UNCHANGED row
          /\ Goes(d, "in")
          /\ UNCHANGED public
       \/ /\ doing[d].at = "publish"
          /\ public' \in {public, doing[d].ident}
          /\ Goes(d, IF doing[d].seen # 0 THEN "keep" ELSE "in")
          /\ UNCHANGED row
    /\ UNCHANGED <<holds, made>>

\* A device stops: what it keeps it keeps, and without a key it is signed out.
Stop(d) ==
    /\ fails > 0 /\ fails' = fails - 1
    /\ doing[d].at \notin {"out", "in"}
    /\ IF holds[d].dek # 0 THEN Goes(d, "in") ELSE doing' = [doing EXCEPT ![d] = Out]
    /\ UNCHANGED <<row, public, holds, made>>

Next ==
    \E d \in Devices :
        \/ SignIn(d) \/ ReadKeys(d) \/ InsertKeys(d) \/ SaveKey(d)
        \/ LookForIdentity(d) \/ PatchIdentity(d) \/ Publish(d) \/ KeepIdentity(d)
        \/ UnlockSharing(d) \/ SignOut(d) \/ Fail(d) \/ Stop(d)

Spec == Init /\ [][Next]_vars

-----------------------------------------------------------------------------
(* Properties *)

\* Whatever the devices do at once, and whatever fails, they all work with the
\* one key the account's row holds: an entry any of them seals, all can open.
KeysAgree == \A d \in Devices : holds[d].dek \in {0, row.dek}

\* The account's key is made once, and never made again.
KeyIsForGood == [][row.dek # 0 => row'.dek = row.dek]_vars

\* identity.ts:35: "Unwraps the account's identity, or mints and publishes one if
\* it has none": once nothing is under way, a device's identity is the one the
\* account's row holds.
IdentitiesAgree ==
    (\A d \in Devices : doing[d].at \in {"out", "in"}) =>
        \A d \in Devices : holds[d].ident \in {0, row.ident}

-----------------------------------------------------------------------------
(* The inductive invariant *)

\* A device about to insert a key carries one, about to save one the row's.
IInv ==
    /\ TypeOK
    /\ KeysAgree
    /\ \A d \in Devices : doing[d].at \in {"insert", "save"} => doing[d].dek # 0
    /\ \A d \in Devices : doing[d].at = "save" => doing[d].dek = row.dek
=============================================================================
