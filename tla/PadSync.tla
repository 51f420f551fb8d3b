------------------------------- MODULE PadSync -------------------------------
(***************************************************************************)
(* The sketchpad on every device of an account: the window's queue of      *)
(* calls (cmd/tock-desktop/frontend/src/components/SketchpadView.tsx), the *)
(* pad and its file (internal/app/sketchpad/sketchpad.go), and the         *)
(* account's versioned record (internal/integrations/neonsync/sketchpad.go)*)
(*                                                                         *)
(* The pad is locked only while it is read or changed, so calls of the     *)
(* window, requests of a sync, crashes and the other devices interleave.   *)
(* A block is told from another by what it says, so none is typed twice.   *)
(***************************************************************************)
EXTENDS Naturals, Sequences, FiniteSets

CONSTANTS
    Text,                \* what a pad may say
    Empty,               \* the text that says nothing
    Block,               \* the blocks a text is made of
    Blocks(_),           \* those of one text
    Erases(_, _),        \* the blocks of which the second text has fewer than the first
    Edited(_, _),        \* the texts that one edit makes of a text, given the blocks
                         \* it may write
    MergeTexts(_, _, _)  \* the three-way merge of a base, ours and theirs

CONSTANTS
    Device,      \* installations signed in to the account
    Starts,      \* the texts every device may hold and have agreed on at first
    Imports,     \* what a window's local storage may hold at first
    NoText,      \* no text: an absent event or reply
    MaxEdits,    \* bound on the edits of all users, a copy imported counting as one
    MaxFails,    \* bound on failed requests, failed file writes and crashes
    MaxVersion   \* bound on the record's version

ASSUME BoundsAssumption ==
    MaxEdits \in Nat /\ MaxFails \in Nat /\ MaxVersion \in Nat \ {0}

VARIABLES
    record,   \* the cloud's sketchpads row; version 0 is one nobody has written
    pad,      \* pad[d]: the state in memory, with the record last agreed with
    disk,     \* disk[d]: the pad file
    legacy,   \* legacy[d]: the copy in the window's local storage
    shown,    \* shown[d]: the text the editor last reported or was given
    calls,    \* calls[d]: the window's queue of calls, the first one running
    reply,    \* reply[d]: what the backend answered the first call, not yet read
    event,    \* event[d]: a sketchpad:changed on its way to the window
    sync,     \* sync[d]: where the sync of device d stands: the pad as it found it
              \* (snap), the record as it last read or wrote it (got), the text it
              \* wants the record to hold, and how often it has worked that out
    edits,    \* edits made so far
    fails,    \* failures so far
    typed,    \* history: what has ever been typed
    erased    \* history: what a user has ever taken out of an editor

window == <<legacy, shown, calls, reply>>
history == <<edits, typed, erased>>
vars == <<record, pad, disk, window, event, sync, history, fails>>

Record == [version : 0..MaxVersion, html : Text]
Pad == [html : Text, saved : BOOLEAN, version : 0..MaxVersion, agreed : Text]
Call == [op : {"load", "save"}, base : Text, html : Text]
SyncState == [pc : {"idle", "fetch", "put", "reread", "answer", "adopt", "emit"},
              snap : Pad, got : Record, next : Text, tries : 0..3]
Reply == [ok : BOOLEAN, html : Text]

\* startSketchpad: the first call of a window loads the pad.
Load(text) == [op |-> "load", base |-> Empty, html |-> text]

\* A pad nobody has loaded, a record nobody has written, and no sync under way.
NoPad == [html |-> Empty, saved |-> FALSE, version |-> 0, agreed |-> Empty]
NoRecord == [version |-> 0, html |-> Empty]
At(step) == [pc |-> step, snap |-> NoPad, got |-> NoRecord, next |-> Empty, tries |-> 0]

Init ==
    /\ \E text \in Starts :
        /\ record = [version |-> IF text = Empty THEN 0 ELSE 1, html |-> text]
        /\ pad = [d \in Device |-> [html |-> text, saved |-> text # Empty,
                                    version |-> record.version, agreed |-> text]]
        /\ typed = Blocks(text) \cup UNION {Blocks(copy) : copy \in Imports}
    /\ disk = pad
    /\ legacy \in [Device -> Imports]
    /\ shown = [d \in Device |-> Empty]
    /\ calls = [d \in Device |-> <<Load(legacy[d])>>]
    /\ reply = [d \in Device |-> NoText]
    /\ event = [d \in Device |-> NoText]
    /\ sync = [d \in Device |-> At("idle")]
    /\ edits \in 0..MaxEdits
    /\ edits = Cardinality({d \in Device : legacy[d] # Empty})
    /\ fails = 0
    /\ erased = {}

TypeOK ==
    /\ record \in Record
    /\ pad \in [Device -> Pad] /\ disk \in [Device -> Pad]
    /\ legacy \in [Device -> Text] /\ shown \in [Device -> Text]
    /\ calls \in [Device -> Seq(Call)]
    /\ reply \in [Device -> Reply \cup {NoText}]
    /\ event \in [Device -> Text \cup {NoText}]
    /\ sync \in [Device -> SyncState]
    /\ edits \in 0..MaxEdits
    /\ fails \in 0..MaxFails
    /\ typed \subseteq Block /\ erased \subseteq Block

-----------------------------------------------------------------------------
(* The editor and the window's calls *)

\* RichTextEditor.flush and saveSketchpad: an edit carries the text it began
\* from.  Reporting it late, after the text under it moved, changes nothing.
Type(d) ==
    /\ edits < MaxEdits
    /\ \E html \in Edited(shown[d], Block \ typed) :
        /\ calls' = [calls EXCEPT ![d] =
                        Append(@, [op |-> "save", base |-> shown[d], html |-> html])]
        /\ shown' = [shown EXCEPT ![d] = html]
        /\ typed' = typed \cup Blocks(html)
        /\ erased' = erased \cup Erases(shown[d], html)
    /\ edits' = edits + 1
    /\ UNCHANGED <<record, pad, disk, legacy, reply, event, sync, fails>>

Failing(ok) ==
    /\ ok \/ fails < MaxFails
    /\ fails' = IF ok THEN fails ELSE fails + 1

\* The pad becomes p, and persist writes it unless the disk fails.
Persist(d, p, ok) ==
    /\ Failing(ok)
    /\ pad' = [pad EXCEPT ![d] = [p EXCEPT !.saved = TRUE]]
    /\ disk' = IF ok THEN [disk EXCEPT ![d] = [p EXCEPT !.saved = TRUE]] ELSE disk

Running(d, op) == calls[d] # <<>> /\ Head(calls[d]).op = op /\ reply[d] = NoText

\* Pad.Load: folds the copy in local storage in, the first time or when there
\* is one.
RunLoad(d, ok) ==
    LET text == Head(calls[d]).html
        html == IF text # Empty \/ ~pad[d].saved THEN MergeTexts(Empty, pad[d].html, text)
                ELSE pad[d].html
    IN /\ Running(d, "load")
       /\ IF text # Empty \/ ~pad[d].saved
          THEN Persist(d, [pad[d] EXCEPT !.html = html], ok)
          ELSE ok /\ UNCHANGED <<pad, disk, fails>>
       /\ reply' = [reply EXCEPT ![d] = [ok |-> ok, html |-> html]]
       /\ UNCHANGED <<record, legacy, shown, calls, event, sync, history>>

\* What Pad.Save stores: an edit of a text the pad has moved on from is merged.
Saved(base, html, stored) == IF stored # base THEN MergeTexts(base, html, stored) ELSE html

RunSave(d, ok) ==
    LET call == Head(calls[d])
        html == Saved(call.base, call.html, pad[d].html)
    IN /\ Running(d, "save")
       /\ Persist(d, [pad[d] EXCEPT !.html = html], ok)
       /\ reply' = [reply EXCEPT ![d] = [ok |-> ok, html |-> html]]
       /\ UNCHANGED <<record, legacy, shown, calls, event, sync, history>>

\* settle: the last call of the queue shows its result.
Shown(d, text) == shown' = IF Len(calls[d]) = 1 THEN [shown EXCEPT ![d] = text] ELSE shown

\* The window reads the answer.  Text the backend could not store goes to local
\* storage, and stays there until a load has taken it in.
Settle(d) ==
    LET call == Head(calls[d]) IN
    /\ reply[d] # NoText
    /\ \/ /\ reply[d].ok
          /\ Shown(d, reply[d].html)
          /\ legacy' = IF call.op = "load" THEN [legacy EXCEPT ![d] = Empty] ELSE legacy
       \/ /\ ~reply[d].ok /\ call.op = "load"
          /\ Shown(d, call.html)
          /\ UNCHANGED legacy
       \/ /\ ~reply[d].ok /\ call.op = "save"
          /\ legacy' = [legacy EXCEPT ![d] = call.html]
          /\ UNCHANGED shown
    /\ calls' = [calls EXCEPT ![d] = Tail(@)]
    /\ reply' = [reply EXCEPT ![d] = NoText]
    /\ UNCHANGED <<record, pad, disk, event, sync, history, fails>>

\* The window shows what a sync brought in, unless a call is waiting.
Deliver(d) ==
    /\ event[d] # NoText
    /\ shown' = IF calls[d] = <<>> THEN [shown EXCEPT ![d] = event[d]] ELSE shown
    /\ event' = [event EXCEPT ![d] = NoText]
    /\ UNCHANGED <<record, pad, disk, legacy, calls, reply, sync, history, fails>>
-----------------------------------------------------------------------------
(* Pad.Sync *)

Go(d, step) == sync' = [sync EXCEPT ![d] = step]

\* Every poll, and a while after the last edit; one at a time, and not before
\* the window has loaded the pad.
SyncStart(d) ==
    /\ sync[d].pc = "idle"
    /\ pad[d].saved
    /\ Go(d, [At("fetch") EXCEPT !.snap = pad[d]])
    /\ UNCHANGED <<record, pad, disk, window, event, history, fails>>

\* The owner is "" for a record nobody has written, and for a pad that has not
\* agreed with one.
SameOwner(p, remote) == (p.version = 0) = (remote.version = 0)

\* The text both sides come from: none if they share no history.
Ancestor(p, remote) ==
    IF ~SameOwner(p, remote) \/ remote.version < p.version THEN Empty ELSE p.agreed

\* Slip: a pad at the record's version counts as synced, edited or not.
SameVersion(p, remote) == remote.version = p.version /\ SameOwner(p, remote)

InStep(p, remote) ==
    remote.version = p.version /\ SameOwner(p, remote) /\ p.html = p.agreed

\* One round of the loop over the record just read, up to the write.
Consider(s, remote) ==
    LET want == MergeTexts(Ancestor(s.snap, remote), s.snap.html, remote.html)
    IN IF InStep(s.snap, remote) THEN At("idle")
       ELSE [s EXCEPT !.pc = IF want = remote.html /\ remote.version > 0
                             THEN "adopt" ELSE "put",
                      !.got = remote, !.next = want, !.tries = @ + 1]

Fetch(d) ==
    /\ sync[d].pc = "fetch"
    /\ Go(d, Consider(sync[d], record))
    /\ UNCHANGED <<record, pad, disk, window, event, history, fails>>

\* Slip: the record is replaced whichever version it is at.
WinsBlindly(d) == TRUE

\* What PutSketchpad writes: the version after the one it has seen.
Written(d) == [version |-> sync[d].got.version + 1, html |-> sync[d].next]

\* putVersioned: the write wins if the record is still at the version read.
Wins(d) == record.version = sync[d].got.version

PutWins(d) ==
    /\ sync[d].pc = "put"
    /\ Wins(d)
    /\ record.version < MaxVersion
    /\ record' = Written(d)
    /\ Go(d, [sync[d] EXCEPT !.pc = "answer", !.got = Written(d)])
    /\ UNCHANGED <<pad, disk, window, event, history, fails>>

PutConflicts(d) ==
    /\ sync[d].pc = "put"
    /\ ~Wins(d)
    /\ Go(d, [sync[d] EXCEPT !.pc = "reread"])
    /\ UNCHANGED <<record, pad, disk, window, event, history, fails>>

\* The conflict answers with the fresh record; the third one ends the sync,
\* unless the record already says what this device wanted.
Reread(d) ==
    /\ sync[d].pc = "reread"
    /\ Go(d, IF sync[d].tries < 3 THEN Consider(sync[d], record)
             ELSE IF record.html # sync[d].next THEN At("idle")
             ELSE [sync[d] EXCEPT !.pc = "adopt", !.got = record])
    /\ UNCHANGED <<record, pad, disk, window, event, history, fails>>

\* Slip: an edit saved while the sync was on the network is overwritten.
AdoptedOver(d) == sync[d].got.html

\* What adopt makes the pad: the record, merged with any edit since.
Adopted(d) == MergeTexts(sync[d].snap.html, pad[d].html, sync[d].got.html)

Adopt(d, ok) ==
    /\ sync[d].pc \in {"answer", "adopt"}
    /\ Persist(d, [pad[d] EXCEPT !.html = Adopted(d), !.version = sync[d].got.version,
                                 !.agreed = sync[d].got.html], ok)
    /\ Go(d, At(IF ok /\ Adopted(d) # pad[d].html THEN "emit" ELSE "idle"))
    /\ UNCHANGED <<record, window, event, history>>

\* syncSketchpad hands the window the pad as it stands by then.
Emit(d) ==
    /\ sync[d].pc = "emit"
    /\ event[d] = NoText
    /\ event' = [event EXCEPT ![d] = pad[d].html]
    /\ Go(d, At("idle"))
    /\ UNCHANGED <<record, pad, disk, window, history, fails>>

\* A request fails, or its answer is lost.
Abort(d) ==
    /\ sync[d].pc \in {"fetch", "put", "reread", "answer"}
    /\ Failing(FALSE)
    /\ Go(d, At("idle"))
    /\ UNCHANGED <<record, pad, disk, window, event, history>>

\* The app dies and starts again: the pad is read from its file, and the window
\* loads it with the copy in its local storage.
Crash(d) ==
    /\ Failing(FALSE)
    /\ pad' = [pad EXCEPT ![d] = disk[d]]
    /\ shown' = [shown EXCEPT ![d] = Empty]
    /\ calls' = [calls EXCEPT ![d] = <<Load(legacy[d])>>]
    /\ reply' = [reply EXCEPT ![d] = NoText]
    /\ event' = [event EXCEPT ![d] = NoText]
    /\ Go(d, At("idle"))
    /\ UNCHANGED <<record, disk, legacy, history>>
-----------------------------------------------------------------------------
Sync(d) == Fetch(d) \/ PutWins(d) \/ PutConflicts(d) \/ Reread(d) \/ Adopt(d, TRUE) \/ Emit(d)

Window(d) == RunLoad(d, TRUE) \/ RunSave(d, TRUE) \/ Settle(d) \/ Deliver(d)

Next ==
    \E d \in Device :
        \/ Type(d) \/ Settle(d) \/ Deliver(d)
        \/ \E ok \in BOOLEAN : RunLoad(d, ok) \/ RunSave(d, ok) \/ Adopt(d, ok)
        \/ SyncStart(d) \/ Fetch(d) \/ PutWins(d) \/ PutConflicts(d) \/ Reread(d) \/ Emit(d)
        \/ Abort(d) \/ Crash(d)

Spec == Init /\ [][Next]_vars

\* The poll keeps starting syncs, every request that does not fail is answered,
\* and the window's promises settle.
FairSpec ==
    /\ Spec
    /\ \A d \in Device : WF_vars(SyncStart(d)) /\ WF_vars(Sync(d)) /\ WF_vars(Window(d))
-----------------------------------------------------------------------------
\* A block that the record or a device's file holds stays in it until a user
\* takes it out of an editor: no merge, race, failed write or crash drops it
\* (merge.go:8-11 and Pad.adopt).
TextStays ==
    [][/\ Blocks(record.html) \ erased' \subseteq Blocks(record'.html)
       /\ \A d \in Device : Blocks(disk[d].html) \ erased' \subseteq Blocks(disk'[d].html)]_vars

\* A pad that names a version of the record holds as agreed what the record held
\* at that version, so the next merge starts from a true ancestor
\* (stored.Version and stored.Agreed, written together by Pad.adopt).
VersionNamesText ==
    \A d \in Device :
        /\ pad[d].version <= record.version
        /\ pad[d].version = record.version => pad[d].agreed = record.html

\* Once users and failures pause, every device holds the record's text and has
\* agreed with it, and nobody writes again (Pad.Sync and its retries).
Converges ==
    <>[](\A d \in Device : pad[d].html = record.html /\ pad[d].agreed = record.html
                               /\ pad[d].version = record.version)
=============================================================================
