------------------------------- MODULE PadPhone -------------------------------
(***************************************************************************)
(* The sketchpad on the phone: the editor in its web view                  *)
(* (mobile/src/dom/SketchpadEditor.tsx), the page that owns it             *)
(* (mobile/src/pages/SketchpadPage.tsx), the pad and its files             *)
(* (mobile/src/lib/sketchpad.ts) and the account's record                  *)
(* (mobile/src/sync/sketchpad.ts).                                         *)
(*                                                                         *)
(* Edits and values cross between the web view and the page one way each,  *)
(* in order; between two awaits nothing else runs on the page.  A text is  *)
(* the set of its lines, and merging three of them applies both sides'     *)
(* changes (PadMerge has the merge line by line).                          *)
(*                                                                         *)
(* Bounds: the changes of the user, the to-dos ticked for him, the changes *)
(* of another device, the failed requests and kills.  A sync begins at any *)
(* time: one is due every half a minute and whenever edits pause, and one  *)
(* that falls due during another is dropped.                               *)
(***************************************************************************)
EXTENDS Naturals, Sequences, FiniteSets

CONSTANTS
    Plain,      \* lines of text
    Todo,       \* lines with a box to tick
    MaxTyped,   \* bound on the user's changes
    MaxTicks,   \* bound on to-dos ticked because their activity stopped
    MaxOthers,  \* bound on the changes of another device
    MaxFaults,  \* bound on failed requests and kills of the application
    Attempts    \* how often a sync tries to write: 3 in the code

PadPhoneBounds ==
    {MaxTyped, MaxTicks, MaxOthers, MaxFaults} \subseteq Nat /\ Attempts \in Nat \ {0}

Open(t) == [todo |-> t, done |-> FALSE]
Done(t) == [todo |-> t, done |-> TRUE]
Line == [plain : Plain] \cup [todo : Todo, done : BOOLEAN]
Text == SUBSET Line

VARIABLES
    shown,    \* the text in the editor
    last,     \* the value it last reported or was given
    pending,  \* it has a change not yet reported
    posted,   \* its reports on their way to the page, [html, base]
    value,    \* the page's state: what it last asked the editor to show
    given,    \* values on their way to the editor
    text,     \* the pad, in memory and on disk
    agreed,   \* the record last agreed with, in memory and on disk
    record,   \* the account's record; version 0 is one nobody has written
    sync,     \* the sync under way: [at, synced, remote, next, tries]
    left,     \* what is left of each bound
    typed,    \* history: the lines the user wrote or had ticked
    others,   \* history: the lines other devices wrote
    gone      \* history: the lines someone took out, or a kill did

editor == <<shown, last, pending>>
bridge == <<posted, value, given>>
pad == <<text, agreed>>
history == <<typed, others, gone>>
vars == <<editor, bridge, pad, record, sync, left, history>>

Record == [version : Nat, html : Text]
NoRecord == [version |-> 0, html |-> {}]
Resting == [at |-> "idle", synced |-> {}, remote |-> NoRecord, next |-> {}, tries |-> 0]

TypeOK ==
    /\ shown \in Text /\ last \in Text /\ pending \in BOOLEAN
    /\ posted \in Seq([html : Text, base : Text])
    /\ value \in Text /\ given \in Seq(Text)
    /\ text \in Text /\ agreed \in Record /\ record \in Record
    /\ sync \in [at : {"idle", "read", "put", "answer", "reread"}, synced : Text,
                 remote : Record, next : Text, tries : 0..(Attempts - 1)]
    /\ history \in Text \X Text \X Text

Spend(what) == left[what] > 0 /\ left' = [left EXCEPT ![what] = @ - 1]

\* The pad is new, or has been here; the account's record likewise.
Init ==
    /\ \E here, there \in SUBSET {Open(t) : t \in Todo} :
        /\ text = here
        /\ record = [version |-> IF there = {} THEN 0 ELSE 1, html |-> there]
        /\ agreed \in {NoRecord, record}
        /\ agreed # NoRecord => here = there
        /\ typed = here /\ others = there
    /\ shown = text /\ last = text /\ value = text
    /\ pending = FALSE /\ posted = <<>> /\ given = <<>>
    /\ sync = Resting /\ gone = {}
    /\ left = [typed |-> MaxTyped, ticks |-> MaxTicks, others |-> MaxOthers,
               faults |-> MaxFaults]

\* mergeSketchpad
Merge(base, ours, theirs) == (ours \cap theirs) \cup (ours \ base) \cup (theirs \ base)

-----------------------------------------------------------------------------
(* The editor *)

\* A change someone makes of the text was: a new line, one taken out, a box ticked.
Changes(was) ==
    {[html |-> was \cup {l}, new |-> {l}, out |-> {}] :
        l \in {l \in Line : l \notin was \cup typed \cup others \cup gone
                            /\ ("done" \in DOMAIN l => ~l.done)}}
    \cup {[html |-> was \ {l}, new |-> {}, out |-> {l}] : l \in was}
    \cup {[html |-> (was \ {Open(t)}) \cup {Done(t)}, new |-> {Done(t)}, out |-> {Open(t)}] :
            t \in {t \in Todo : Open(t) \in was}}

Type ==
    /\ Spend("typed")
    /\ \E c \in Changes(shown) :
        /\ shown' = c.html
        /\ typed' = typed \cup c.new
        /\ gone' = gone \cup c.out
    /\ pending' = TRUE
    /\ UNCHANGED <<last, bridge, pad, record, sync, others>>

Report ==
    /\ posted' = Append(posted, [html |-> shown, base |-> last])
    /\ last' = shown
    /\ pending' = FALSE

\* A quarter of a second after the last change, on losing focus, or when hidden.
Flush ==
    /\ pending
    /\ Report
    /\ UNCHANGED <<shown, value, given, pad, record, sync, left, history>>

\* Slip: the value is shown over a change not yet reported.
GiveOver(v) ==
    /\ last' = v /\ shown' = v /\ pending' = FALSE
    /\ UNCHANGED posted

\* A value arrives: a change not yet reported goes first, in its place.
Give(v) ==
    \/ v = last /\ UNCHANGED <<editor, posted>>
    \/ v # last /\ pending /\ Report /\ UNCHANGED shown
    \/ v # last /\ ~pending /\ last' = v /\ shown' = v /\ UNCHANGED <<pending, posted>>

Receive ==
    /\ given # <<>>
    /\ Give(Head(given))
    /\ given' = Tail(given)
    /\ UNCHANGED <<value, pad, record, sync, left, history>>
-----------------------------------------------------------------------------
(* The page and the pad *)

\* setValue: React tells the editor of a value only when it differs from the last.
Set(v) ==
    /\ value' = v
    /\ given' = IF v # value THEN Append(given, v) ELSE given

\* saveSketchpad
Save(html, base) ==
    LET next == IF text = base THEN html ELSE Merge(base, html, text) IN
    /\ text' = next
    /\ IF next # html THEN Set(next) ELSE UNCHANGED <<value, given>>

\* The page takes the editor's report.
Take ==
    /\ posted # <<>>
    /\ Save(Head(posted).html, Head(posted).base)
    /\ posted' = Tail(posted)
    /\ UNCHANGED <<editor, agreed, record, sync, left, history>>

\* tick: the activity started from t has stopped, and t is to be ticked off.
Tick(t) ==
    /\ Open(t) \in text
    /\ Spend("ticks")
    /\ text' = (text \ {Open(t)}) \cup {Done(t)}
    /\ Set(text')
    /\ typed' = typed \cup {Done(t)}
    /\ gone' = gone \cup {Open(t)}
    /\ UNCHANGED <<editor, posted, agreed, record, sync, others>>
-----------------------------------------------------------------------------
(* syncSketchpad and reconcilePad *)

\* Every half a minute, on coming to the front, and once edits have paused.
SyncStart ==
    /\ sync.at = "idle"
    /\ sync' = [Resting EXCEPT !.at = "read", !.synced = text]
    /\ UNCHANGED <<editor, bridge, pad, record, left, history>>

\* Nothing is shared with a record behind the one agreed with, or of no owner yet.
FromScratch(remote) ==
    \/ (remote.version = 0) # (agreed.version = 0)
    \/ remote.version < agreed.version

Wanted(remote) ==
    Merge(IF FromScratch(remote) THEN {} ELSE agreed.html, sync.synced, remote.html)

\* The record is agreed with, and merged with any edit saved meanwhile.
Adopt(remote) ==
    /\ agreed' = remote
    /\ text' = Merge(sync.synced, text, remote.html)
    /\ IF text' # text THEN Set(text') ELSE UNCHANGED <<value, given>>

\* Slip: a record at the version agreed with is taken to have it all.
SettledByVersion(remote) ==
    \/ ~FromScratch(remote) /\ remote.version = agreed.version
    \/ Wanted(remote) = remote.html /\ remote.version > 0

\* There is nothing to write: both are as agreed, or the record has it all.
Settled(remote) ==
    \/ ~FromScratch(remote) /\ remote.version = agreed.version /\ sync.synced = agreed.html
    \/ Wanted(remote) = remote.html /\ remote.version > 0

Consider(remote, tries) ==
    \/ /\ Settled(remote)
       /\ Adopt(remote)
       /\ sync' = Resting
    \/ /\ ~Settled(remote)
       /\ sync' = [sync EXCEPT !.at = "put", !.remote = remote, !.tries = tries,
                               !.next = Wanted(remote)]
       /\ UNCHANGED <<pad, value, given>>

SyncRead ==
    /\ sync.at = "read"
    /\ Consider(record, 0)
    /\ UNCHANGED <<editor, posted, record, left, history>>

\* The write takes hold only over the version that was read.
SyncPut ==
    /\ sync.at = "put"
    /\ IF record.version = sync.remote.version
       THEN /\ record' = [version |-> record.version + 1, html |-> sync.next]
            /\ sync' = [sync EXCEPT !.at = "answer", !.remote = record']
       ELSE /\ sync' = [sync EXCEPT !.at = "reread"]
            /\ UNCHANGED record
    /\ UNCHANGED <<editor, bridge, pad, left, history>>

SyncAnswered ==
    /\ sync.at = "answer"
    /\ Adopt(sync.remote)
    /\ sync' = Resting
    /\ UNCHANGED <<editor, posted, record, left, history>>

\* The write lost its race; after the last attempt the sync is over.
SyncReread ==
    /\ sync.at = "reread"
    /\ \/ sync.tries + 1 < Attempts /\ Consider(record, sync.tries + 1)
       \/ sync.tries + 1 = Attempts /\ sync' = Resting /\ UNCHANGED <<pad, value, given>>
    /\ UNCHANGED <<editor, posted, record, left, history>>

\* A request fails, or its answer is lost.
SyncFails ==
    /\ sync.at # "idle"
    /\ Spend("faults")
    /\ sync' = Resting
    /\ UNCHANGED <<editor, bridge, pad, record, history>>
-----------------------------------------------------------------------------
\* Another device writes the record over the version it read.
Other ==
    /\ Spend("others")
    /\ \E c \in Changes(record.html) :
        /\ record' = [version |-> record.version + 1, html |-> c.html]
        /\ others' = others \cup c.new
        /\ gone' = gone \cup c.out
    /\ UNCHANGED <<editor, bridge, pad, sync, typed>>

\* What the editor had not handed over is lost.
Lost == (shown \cup UNION {posted[i].html : i \in DOMAIN posted}) \ text

Relaunched ==
    /\ shown' = text /\ last' = text /\ pending' = FALSE
    /\ posted' = <<>> /\ value' = text /\ given' = <<>>
    /\ sync' = Resting

\* The application is killed; the pad and the record agreed with are read again.
Kill ==
    /\ Spend("faults")
    /\ Relaunched
    /\ gone' = gone \cup (Lost \cap typed)
    /\ UNCHANGED <<pad, record, typed, others>>

\* The same, after the record was written down as agreed and before the pad was:
\* what the pad lacks of it will be taken for lines erased here.
KillTorn ==
    /\ sync.at = "answer"
    /\ Spend("faults")
    /\ Relaunched
    /\ agreed' = sync.remote
    /\ gone' = gone \cup (Lost \cap typed) \cup (sync.remote.html \ text)
    /\ UNCHANGED <<text, record, typed, others>>

Sync == SyncRead \/ SyncPut \/ SyncAnswered \/ SyncReread

Next ==
    \/ Type \/ Flush \/ Receive \/ Take
    \/ \E t \in Todo : Tick(t)
    \/ SyncStart \/ Sync \/ SyncFails
    \/ Other \/ Kill \/ KillTorn

Spec == Init /\ [][Next]_vars

FairSpec ==
    /\ Spec
    /\ WF_vars(Flush) /\ WF_vars(Receive) /\ WF_vars(Take)
    /\ WF_vars(SyncStart) /\ WF_vars(Sync)
-----------------------------------------------------------------------------
\* Reported by the editor, or still in it: what the pad will hear of.
OnItsWay ==
    (UNION {posted[i].html : i \in DOMAIN posted}) \cup (IF pending THEN shown ELSE {})

\* A line the user wrote is in the pad or on its way to it until someone takes
\* it out, and a line another device wrote stays in the record as long, whatever
\* values and syncs arrive while the user types (flush, saveSketchpad,
\* syncSketchpad, reconcilePad).
LinesStay ==
    /\ typed \ gone \subseteq text \cup OnItsWay
    /\ others \ gone \subseteq record.html

\* A line the user wrote reaches the account's record, or someone takes it out,
\* though edits fall between syncs, races are lost and requests fail
\* (syncSoon, syncSketchpad, reconcilePad).
EditsReach ==
    \A l \in Line : l \in typed ~> (l \in record.html \/ l \in gone)

\* The editor comes to show the pad: "report it instead; the owner answers with
\* a value that includes both" (RichTextEditor's effect on a new value).
ShowsPad == (shown # text) ~> (shown = text)
=============================================================================
