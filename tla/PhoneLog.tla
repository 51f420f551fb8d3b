------------------------------- MODULE PhoneLog -------------------------------
(***************************************************************************)
(* The history on the phone (mobile/src/pages/LogPage.tsx,                 *)
(* components/EntryActions.tsx, lib/entries.tsx, lib/undo.tsx,             *)
(* sync/entries.ts).                                                       *)
(*                                                                         *)
(* A row of the entries table is named by its content, so an edit writes   *)
(* the row of the new content and tombstones the old one, and a push never *)
(* clears a tombstone.  Every command is a sequence of requests, any of    *)
(* which may fail or lose its answer, followed by a reload of the list and *)
(* an offer to undo.                                                       *)
(*                                                                         *)
(* Bounds: one command at a time, and one reload beside its own; a batch   *)
(* of tombstones is one id, where the code takes a hundred; the page is    *)
(* worked while commands are left, and a reload of its own is asked for    *)
(* first, or beside a command.                                             *)
(***************************************************************************)
EXTENDS Naturals, Sequences, SequencesExt

CONSTANTS
    Content,    \* what an entry can say: description, project, start, end
    Renames,    \* renamings of a project: what each of its entries becomes
    None,
    MaxOps,     \* bound on the user's commands
    MaxOthers,  \* bound on the other devices' writes
    MaxFails    \* bound on failed requests

LogNone == \A s \in SUBSET Content : None # s
LogBounds ==
    /\ {MaxOps, MaxOthers, MaxFails} \subseteq Nat
    /\ IsFiniteSet(Content)
    /\ \A to \in Renames : \A e \in DOMAIN to : to[e] \in Content \ DOMAIN to

VARIABLES
    cloud,      \* the rows of the entries table, by content
    entries,    \* the list the phone shows, or None before the first reload
    offer,      \* what the snackbar's Undo would do, or None
    task,       \* the command in flight: [kind, todo, undo]
    load,       \* a reload in flight beside it: the rows it was answered, or None
    left,       \* what is left of each bound
    acts,       \* history: the user's activities, each the contents that may hold it
    taken,      \* history: contents pushed while a row of theirs existed
    theirs      \* history: contents the other devices wrote

vars == <<cloud, entries, offer, task, load, left,
          acts, taken, theirs>>

NoUndo == [back |-> {}, out |-> {}]
Free == [kind |-> "none", todo |-> <<>>, undo |-> NoUndo]
Requests == {"push", "add", "delete", "retire", "restore", "load"}

TypeOK ==
    /\ cloud \in [Content -> {"none", "live", "dead"}]
    /\ entries = None \/ entries \subseteq Content
    /\ task.kind \in {"none", "edit", "remove", "chosen", "add", "rename", "undo"}
    /\ \A i \in 1..Len(task.todo) :
          task.todo[i].do \in Requests /\ task.todo[i].ids \subseteq Content
    /\ load = None \/ load \subseteq Content
    /\ offer = None \/ offer.back \cup offer.out \subseteq Content
    /\ acts \in SUBSET (SUBSET Content)

Live == {c \in Content : cloud[c] = "live"}

Init ==
    /\ cloud \in [Content -> {"none", "live"}]
    /\ entries = None
    /\ offer = None /\ task = Free /\ load = None
    /\ left = [ops |-> MaxOps, others |-> MaxOthers, fails |-> MaxFails]
    /\ acts = {{c} : c \in Live}
    /\ taken = {} /\ theirs = {}

-----------------------------------------------------------------------------
(* What the page shows *)

\* The user's own rows among those listed: a teammate's can neither be ticked nor
\* opened.
Listed == IF entries = None THEN {} ELSE entries

\* A row's menu and its dialog.
MenuOffers(e, kind) == e \in Listed /\ kind \in {"edit", "remove"}
DialogOffers(kind, e) == IF kind = "add" THEN e = None ELSE MenuOffers(e, kind)

\* The rows ticked, one at a time or by the day, the ones a search hides since
\* included; they are deleted together once there is one.
Ticks == SUBSET Listed
PageOffers(kind, ticked) == kind = "add" \/ (kind = "chosen" /\ ticked # {})

Page == <<entries, load, offer>>

-----------------------------------------------------------------------------
(* The commands, each the requests it makes in their order *)

Request(do, ids) == [do |-> do, ids |-> ids]
Load == Request("load", {})

\* setDeleted: one request per batch.
SetDeleted(ids, do) == SetToSeq({Request(do, {c}) : c \in ids})

\* Slip: the old entry is tombstoned before the new one is written.
EditEntryBackwards(old, new) == <<Request("retire", {old}), Request("push", {new})>>

\* editEntry: the new content first, so that a failure leaves a duplicate.
EditEntry(old, new) == <<Request("push", {new}), Request("retire", {old})>>

Begin(kind, todo, undo) ==
    /\ task = Free
    /\ left.ops > 0 /\ left' = [left EXCEPT !.ops = @ - 1]
    /\ task' = [kind |-> kind, todo |-> todo, undo |-> undo]
    /\ UNCHANGED <<cloud, taken, theirs>>

\* While an edit is under way either content may hold the activity.
Alternative(old, new) == acts' = {IF old \in A THEN A \cup {new} ELSE A : A \in acts}

\* The dialog of an entry: saved as it was, nothing is written.
Save(e, new) ==
    /\ DialogOffers("edit", e)
    /\ IF new = e
       THEN Begin("edit", <<Load>>, NoUndo) /\ UNCHANGED acts
       ELSE /\ Begin("edit", EditEntry(e, new) \o <<Load>>, [back |-> {e}, out |-> {new}])
            /\ Alternative(e, new)
    /\ UNCHANGED Page

\* Delete in an entry's menu or dialog.
RemoveEntry(e) ==
    /\ MenuOffers(e, "remove") \/ DialogOffers("remove", e)
    /\ Begin("remove", SetDeleted({e}, "delete") \o <<Load>>, [back |-> {e}, out |-> {}])
    /\ UNCHANGED <<Page, acts>>

\* Delete in selection mode, once confirmed: undo is offered before the reload.
RemoveChosen(chosen) ==
    /\ chosen \in Ticks /\ PageOffers("chosen", chosen)
    /\ Begin("chosen", SetDeleted(chosen, "delete") \o <<Load>>, [back |-> chosen, out |-> {}])
    /\ UNCHANGED <<Page, acts>>

\* Add past activity.
Add(c) ==
    /\ PageOffers("add", {}) /\ DialogOffers("add", None)
    /\ Begin("add", <<Request("add", {c}), Load>>, NoUndo)
    /\ UNCHANGED <<Page, acts>>

\* A project renamed on its page: all its listed entries are written under the
\* new name, then the old ones are tombstoned; to[e] is what e becomes.
RenameProject(to) ==
    LET moving == DOMAIN to \cap Listed IN
    /\ moving # {}
    /\ Begin("rename", <<Request("push", {to[e] : e \in moving})>> \o SetDeleted(moving, "retire") \o <<Load>>,
             NoUndo)
    /\ acts' = {A \cup {to[e] : e \in A \cap moving} : A \in acts}
    /\ UNCHANGED Page

\* The snackbar's Undo: what was tombstoned comes back, what was written goes.
Undo ==
    /\ task = Free /\ offer # None
    /\ task' = [kind |-> "undo", undo |-> offer,
                todo |-> SetDeleted(offer.back, "restore") \o SetDeleted(offer.out, "retire")
                         \o <<Load>>]
    /\ acts' = IF offer.out = {} THEN acts
               ELSE {IF A \cap offer.out # {} THEN A \cup offer.back ELSE A : A \in acts}
    /\ UNCHANGED <<cloud, Page, left, taken, theirs>>

-----------------------------------------------------------------------------
(* The requests *)

\* The upsert leaves `deleted` out, so it never clears a tombstone.
PushEntries(ids) ==
    [c \in Content |-> IF c \in ids /\ cloud[c] = "none" THEN "live" ELSE cloud[c]]

Marked(ids, as) ==
    [c \in Content |-> IF c \in ids /\ cloud[c] # "none" THEN as ELSE cloud[c]]

\* Deleted for good: the activities with no other live row are gone.
Without(ids) ==
    {A \ ids : A \in {B \in acts : B \cap ids = {} \/ (B \cap Live) \ ids # {}}}

\* What a request does to the rows, and to what the user may count on.
Effect(r) ==
    /\ cloud' = CASE r.do \in {"push", "add"} -> PushEntries(r.ids)
                  [] r.do \in {"delete", "retire"} -> Marked(r.ids, "dead")
                  [] r.do = "restore" -> Marked(r.ids, "live")
                  [] OTHER -> cloud
    /\ taken' = IF r.do \in {"push", "add"} THEN taken \cup {c \in r.ids : cloud[c] # "none"} ELSE taken
    /\ acts' = CASE r.do = "add" -> acts \cup {{c} : c \in {d \in r.ids : cloud[d] = "none"}}
                 [] r.do = "delete" -> Without(r.ids)
                 [] r.do = "retire" -> {A \ r.ids : A \in acts} \ {{}}
                 [] r.do = "restore" /\ task.undo.out = {} -> acts \cup {{c} : c \in r.ids}
                 [] OTHER -> acts

Rest == [task EXCEPT !.todo = Tail(@)]
Done == IF Len(task.todo) = 1 THEN Free ELSE Rest

\* What follows a request at once: the offer, after the reload of an edit or a
\* removal, or after the last of the ticked; the snackbar gone, after an undo.
Offers ==
    CASE task.kind \in {"edit", "remove"} /\ Len(task.todo) = 1 /\ task.undo # NoUndo -> task.undo
      [] task.kind = "chosen" /\ Len(task.todo) = 2 -> task.undo
      [] task.kind = "undo" /\ Len(task.todo) = 1 -> None
      [] OTHER -> offer

Step ==
    /\ task.todo # <<>>
    /\ Effect(Head(task.todo))
    /\ entries' = IF Head(task.todo).do = "load" THEN Live ELSE entries
    /\ offer' = Offers
    /\ task' = Done
    /\ UNCHANGED <<load, left, theirs>>

\* A request fails, before or after the server acted: the rest of the command
\* is not run, but a failed reload is only shown.
Fail ==
    /\ task.todo # <<>>
    /\ left.fails > 0 /\ left' = [left EXCEPT !.fails = @ - 1]
    /\ IF Head(task.todo).do = "load"
       THEN /\ offer' = Offers /\ task' = Done
            /\ UNCHANGED <<cloud, taken, acts>>
       ELSE /\ Effect(Head(task.todo)) \/ UNCHANGED <<cloud, taken, acts>>
            /\ task' = Free
            /\ offer' = IF task.kind = "undo" THEN None ELSE offer
    /\ UNCHANGED <<entries, load, theirs>>

-----------------------------------------------------------------------------
(* The page *)

\* Pulling the list down, a flush that pushed, or the first list of the session.
ReloadAsk ==
    /\ entries = None \/ (left.ops > 0 /\ task # Free)
    /\ load = None /\ load' = Live
    /\ UNCHANGED <<cloud, entries, offer, task, left, acts, taken, theirs>>

Reload ==
    /\ load # None
    /\ entries' = load /\ load' = None
    /\ UNCHANGED <<cloud, offer, task, left, acts, taken, theirs>>

\* The snackbar's six seconds are over.
Dismiss ==
    /\ offer # None /\ task = Free /\ offer' = None
    /\ UNCHANGED <<cloud, entries, task, load, left, acts, taken, theirs>>

\* Another device writes an entry, tombstones one or restores one.
Other(c) ==
    /\ left.others > 0 /\ left' = [left EXCEPT !.others = @ - 1]
    /\ \/ cloud[c] \in {"none", "dead"} /\ cloud' = [cloud EXCEPT ![c] = "live"]
          /\ acts' = acts \cup {{c}}
       \/ cloud[c] = "live" /\ cloud' = [cloud EXCEPT ![c] = "dead"]
          /\ UNCHANGED acts
    /\ theirs' = theirs \cup {c}
    /\ UNCHANGED <<Page, task, taken>>

Next ==
    \/ \E e \in Content, new \in Content : Save(e, new)
    \/ \E to \in Renames : RenameProject(to)
    \/ \E e \in Content : RemoveEntry(e) \/ Add(e) \/ Other(e)
    \/ (\E chosen \in Ticks : RemoveChosen(chosen)) \/ Undo \/ Dismiss
    \/ Step \/ Fail
    \/ ReloadAsk \/ Reload

Spec == Init /\ [][Next]_vars

-----------------------------------------------------------------------------
(* Properties *)

Held(A) == \E c \in A : cloud[c] = "live"

\* Whatever request fails, every activity the user has not deleted has a live
\* row of one of its contents, unless a content it moved to was written before
\* (editEntry: a failure part-way leaves a duplicate rather than a loss).
EachActivityLives ==
    task = Free => \A A \in acts : Held(A) \/ A \cap (taken \cup theirs) # {}

\* The same without the exception.
EditNeverLoses == task = Free => \A A \in acts : Held(A) \/ A \cap theirs # {}

=============================================================================
