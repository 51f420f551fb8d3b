--------------------------- MODULE MCEntryWishes ---------------------------
(***************************************************************************)
(* EntrySync with a record of what the users last asked for on each        *)
(* device, to confront the sync with what the code says it keeps.          *)
(***************************************************************************)
EXTENDS EntrySync

VARIABLE wish   \* wish[d][i]: what the users last asked of entry i on device d

Wish == {"nothing", "added", "edited", "restored", "removed"}

\* A removal anywhere ends the wish to keep the entry; one on this device asks
\* for its absence.
Wished(d, how) ==
    LET gone == Ids(journal'[d].removed)
        here == Ids(journal'[d].created)
    IN wish' = [e \in Device |-> [i \in Id |->
                  IF e = d /\ i \in here THEN how
                  ELSE IF e = d /\ i \in gone THEN "removed"
                  ELSE IF i \in gone THEN "nothing"
                  ELSE IF i \in here /\ wish[e][i] = "removed" THEN "nothing"
                  ELSE wish[e][i]]]

WishInit == Init /\ wish = [d \in Device |-> [i \in Id |-> "nothing"]]

WishNext ==
    \E d \in Device :
        \/ \E row \in Row : UserAdd(d, row) /\ Wished(d, "added")
        \/ \E s \in Start, row \in Row : UserEdit(d, s, row) /\ Wished(d, "edited")
        \/ \E s \in Start : UserRemove(d, s) /\ Wished(d, "removed")
        \/ UserUndo(d) /\ Wished(d, "restored")
        \/ (SyncStep(d) \/ Record(d) \/ Abort(d) \/ Crash(d)) /\ UNCHANGED wish

WishSpec == WishInit /\ [][WishNext]_<<vars, wish>>

\* No command falls within a sync and no sync within a command.
SerialNext ==
    /\ WishNext
    /\ \A d \in Device : /\ ops' # ops => pc[d] = "idle"
                         /\ pc'[d] # pc[d] => queue[d] = <<>>
SerialSpec == WishInit /\ [][SerialNext]_<<vars, wish>>

Kept(how) ==
    \A d \in Device, i \in Id : wish[d][i] = how => i \in LogIds(d)

\* What an edit made of an entry stays in the log until a user changes it: "the
\* local database stays the source of truth" (service.go, SyncNow).
EditedStays == Kept("edited")

\* A removed entry does not come back on the device it was removed on unless a
\* user asks for it: RecordDeletion has the next sync propagate the removal
\* "instead of the pull step resurrecting it" (service.go).
RemovedStays ==
    \A d \in Device, i \in Id : wish[d][i] = "removed" => i \notin LogIds(d)
=============================================================================
