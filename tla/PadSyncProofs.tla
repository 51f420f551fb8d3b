---------------------------- MODULE PadSyncProofs ----------------------------
(***************************************************************************)
(* Proofs about PadSync, for every set of devices, every set of texts that *)
(* edits and merges do not leave, and every bound: type correctness, that  *)
(* a version of the record names one text wherever it is remembered, and   *)
(* that a block stays where it is until a user takes it out.               *)
(***************************************************************************)
EXTENDS PadSync, TLAPS

\* What the proofs take of the texts: edits and merges make texts of texts.
TextsClosed ==
    /\ Empty \in Text /\ Starts \subseteq Text /\ Imports \subseteq Text
    /\ \A t \in Text : Blocks(t) \subseteq Block
    /\ \A t \in Text, new \in SUBSET Block : Edited(t, new) \subseteq Text
    /\ \A t, u \in Text : Erases(t, u) \subseteq Block
    /\ \A b, o, t \in Text : MergeTexts(b, o, t) \in Text

\* An answer answers a call, and a sync that is fetching has counted no try.
Orderly ==
    \A d \in Device :
        /\ reply[d] # NoText => calls[d] # <<>>
        /\ sync[d].pc = "fetch" => sync[d].tries = 0

\* A version and a text that are remembered together: the version is not ahead
\* of the record's, and if it is the record's so is the text.
Names(version, text) ==
    version <= record.version /\ (version = record.version => text = record.html)

\* Every place that remembers a version names its text.
NamesInv ==
    /\ record.version = 0 => record.html = Empty
    /\ \A d \in Device :
        /\ Names(pad[d].version, pad[d].agreed)
        /\ Names(disk[d].version, disk[d].agreed)
        /\ Names(sync[d].got.version, sync[d].got.html)

-----------------------------------------------------------------------------
(* The values a step makes *)

LEMMA AtType ==
    ASSUME TextsClosed,
           NEW step \in {"idle", "fetch", "put", "reread", "answer", "adopt", "emit"}
    PROVE  At(step) \in SyncState
BY BoundsAssumption DEF At, SyncState, NoPad, NoRecord, Pad, Record, TextsClosed

LEMMA ConsiderType ==
    ASSUME TextsClosed, NEW s \in SyncState, s.tries < 3, NEW remote \in Record
    PROVE  /\ Consider(s, remote) \in SyncState
           /\ Consider(s, remote).pc # "fetch"
           /\ \/ Consider(s, remote).got = remote
              \/ Consider(s, remote).got = NoRecord
<1> DEFINE want == MergeTexts(Ancestor(s.snap, remote), s.snap.html, remote.html)
           step == IF want = remote.html /\ remote.version > 0 THEN "adopt" ELSE "put"
<1>1. want \in Text
  BY DEF TextsClosed, Ancestor, SyncState, Pad, Record
<1>2. step \in {"adopt", "put"}
  OBVIOUS
<1>3. s.tries + 1 \in 0..3
  BY DEF SyncState
<1>4. CASE InStep(s.snap, remote)
  <2>1. Consider(s, remote) = At("idle")
    BY <1>4 DEF Consider
  <2> QED BY <2>1, AtType DEF At
<1>5. CASE ~InStep(s.snap, remote)
  <2>1. Consider(s, remote) = [s EXCEPT !.pc = step, !.got = remote, !.next = want,
                                        !.tries = @ + 1]
    BY <1>5 DEF Consider
  <2> HIDE DEF want, step
  <2> QED BY <2>1, <1>1, <1>2, <1>3 DEF SyncState
<1> QED BY <1>4, <1>5

LEMMA SavedType ==
    ASSUME TextsClosed, NEW base \in Text, NEW html \in Text, NEW stored \in Text
    PROVE  Saved(base, html, stored) \in Text
BY DEF Saved, TextsClosed

\* What a write of the pad leaves of the types.
LEMMA PersistType ==
    ASSUME TypeOK, NEW d \in Device, NEW p \in Pad, NEW ok \in BOOLEAN, Persist(d, p, ok)
    PROVE  /\ pad' \in [Device -> Pad]
           /\ disk' \in [Device -> Pad]
           /\ fails' \in 0..MaxFails
<1>1. [p EXCEPT !.saved = TRUE] \in Pad
  BY DEF Pad
<1>2. pad' \in [Device -> Pad] /\ disk' \in [Device -> Pad]
  BY <1>1 DEF Persist, TypeOK
<1>3. fails' \in 0..MaxFails
  BY BoundsAssumption DEF Persist, Failing, TypeOK
<1> QED BY <1>2, <1>3

-----------------------------------------------------------------------------
(* Type correctness *)

LEMMA InitTyped ==
    ASSUME TextsClosed, Init
    PROVE  TypeOK /\ Orderly
<1>1. PICK text \in Starts :
        /\ record = [version |-> IF text = Empty THEN 0 ELSE 1, html |-> text]
        /\ pad = [d \in Device |-> [html |-> text, saved |-> text # Empty,
                                    version |-> record.version, agreed |-> text]]
        /\ typed = Blocks(text) \cup UNION {Blocks(copy) : copy \in Imports}
  BY DEF Init
<1>2. text \in Text
  BY DEF TextsClosed
<1>3. record \in Record
  BY <1>1, <1>2, BoundsAssumption DEF Record
<1>4. pad \in [Device -> Pad] /\ disk \in [Device -> Pad]
  <2>1. [html |-> text, saved |-> text # Empty, version |-> record.version,
         agreed |-> text] \in Pad
    BY <1>2, <1>3 DEF Pad, Record
  <2> QED BY <1>1, <2>1 DEF Init
<1>5. typed \subseteq Block
  BY <1>1, <1>2 DEF TextsClosed
<1>6. legacy \in [Device -> Text] /\ shown \in [Device -> Text]
  BY DEF Init, TextsClosed
<1>7. calls \in [Device -> Seq(Call)]
  <2>1. ASSUME NEW d \in Device PROVE <<Load(legacy[d])>> \in Seq(Call)
    BY <1>6 DEF Load, Call, TextsClosed
  <2> QED BY <2>1 DEF Init
<1>8. sync \in [Device -> SyncState]
  BY AtType DEF Init
<1>9. reply \in [Device -> Reply \cup {NoText}] /\ event \in [Device -> Text \cup {NoText}]
  BY DEF Init
<1>10. edits \in 0..MaxEdits /\ fails \in 0..MaxFails /\ erased \subseteq Block
  BY BoundsAssumption DEF Init
<1>11. Orderly
  BY DEF Init, Orderly, At
<1> QED BY <1>3, <1>4, <1>5, <1>6, <1>7, <1>8, <1>9, <1>10, <1>11 DEF TypeOK

\* The steps of the window.
LEMMA WindowTyped ==
    ASSUME TextsClosed, TypeOK, Orderly, NEW d \in Device,
           \/ Type(d) \/ Settle(d) \/ Deliver(d)
           \/ \E ok \in BOOLEAN : RunLoad(d, ok) \/ RunSave(d, ok)
    PROVE  TypeOK' /\ Orderly'
<1>1. CASE Type(d)
  <2>1. PICK html \in Edited(shown[d], Block \ typed) :
          /\ calls' = [calls EXCEPT ![d] =
                          Append(@, [op |-> "save", base |-> shown[d], html |-> html])]
          /\ shown' = [shown EXCEPT ![d] = html]
          /\ typed' = typed \cup Blocks(html)
          /\ erased' = erased \cup Erases(shown[d], html)
    BY <1>1 DEF Type
  <2>2. shown[d] \in Text /\ html \in Text
    BY <2>1 DEF TypeOK, TextsClosed
  <2>3. [op |-> "save", base |-> shown[d], html |-> html] \in Call
    BY <2>2 DEF Call
  <2>4. calls' \in [Device -> Seq(Call)] /\ calls'[d] # <<>>
        /\ \A e \in Device \ {d} : calls'[e] = calls[e]
    BY <2>1, <2>3 DEF TypeOK
  <2>5. shown' \in [Device -> Text]
    BY <2>1, <2>2 DEF TypeOK
  <2>6. typed' \subseteq Block /\ erased' \subseteq Block
    BY <2>1, <2>2 DEF TypeOK, TextsClosed
  <2>7. edits' \in 0..MaxEdits
    BY <1>1, BoundsAssumption DEF Type, TypeOK
  <2>8. TypeOK'
    BY <1>1, <2>4, <2>5, <2>6, <2>7 DEF Type, TypeOK
  <2> QED BY <1>1, <2>4, <2>8 DEF Type, Orderly
<1>2. ASSUME NEW ok \in BOOLEAN, RunLoad(d, ok) PROVE TypeOK' /\ Orderly'
  <2> DEFINE text == Head(calls[d]).html
             html == IF text # Empty \/ ~pad[d].saved THEN MergeTexts(Empty, pad[d].html, text)
                     ELSE pad[d].html
  <2>1. calls[d] # <<>> /\ calls[d] \in Seq(Call)
    BY <1>2 DEF RunLoad, Running, TypeOK
  <2>2. text \in Text /\ pad[d] \in Pad
    <3>1. Head(calls[d]) \in Call
      BY <2>1
    <3> QED BY <3>1 DEF Call, TypeOK
  <2>3. html \in Text
    BY <2>2 DEF Pad, TextsClosed
  <2>4. [pad[d] EXCEPT !.html = html] \in Pad
    BY <2>2, <2>3 DEF Pad
  <2>5. reply' = [reply EXCEPT ![d] = [ok |-> ok, html |-> html]]
    BY <1>2 DEF RunLoad
  <2>6. reply' \in [Device -> Reply \cup {NoText}]
    BY <2>3, <2>5 DEF Reply, TypeOK
  <2>7. \/ Persist(d, [pad[d] EXCEPT !.html = html], ok)
        \/ UNCHANGED <<pad, disk, fails>>
    BY <1>2 DEF RunLoad
  <2>8. pad' \in [Device -> Pad] /\ disk' \in [Device -> Pad] /\ fails' \in 0..MaxFails
    <3> HIDE DEF html
    <3>1. CASE Persist(d, [pad[d] EXCEPT !.html = html], ok)
      BY <2>4, <3>1, PersistType
    <3>2. CASE UNCHANGED <<pad, disk, fails>>
      BY <3>2 DEF TypeOK
    <3> QED BY <2>7, <3>1, <3>2
  <2>9. UNCHANGED <<record, legacy, shown, calls, event, sync, history>>
    BY <1>2 DEF RunLoad
  <2>10. TypeOK'
    BY <2>6, <2>8, <2>9 DEF TypeOK, history
  <2>11. \A e \in Device \ {d} : reply'[e] = reply[e]
    BY <2>5 DEF TypeOK
  <2> QED BY <2>1, <2>9, <2>10, <2>11 DEF Orderly
<1>3. ASSUME NEW ok \in BOOLEAN, RunSave(d, ok) PROVE TypeOK' /\ Orderly'
  <2> DEFINE call == Head(calls[d])
             html == Saved(call.base, call.html, pad[d].html)
  <2>1. calls[d] # <<>> /\ calls[d] \in Seq(Call)
    BY <1>3 DEF RunSave, Running, TypeOK
  <2>2. call \in Call /\ pad[d] \in Pad
    BY <2>1 DEF TypeOK
  <2>3. html \in Text
    BY <2>2, SavedType DEF Call, Pad
  <2>4. [pad[d] EXCEPT !.html = html] \in Pad
    BY <2>2, <2>3 DEF Pad
  <2>5. /\ reply' = [reply EXCEPT ![d] = [ok |-> ok, html |-> html]]
        /\ Persist(d, [pad[d] EXCEPT !.html = html], ok)
        /\ UNCHANGED <<record, legacy, shown, calls, event, sync, history>>
    BY <1>3 DEF RunSave
  <2> HIDE DEF html
  <2>6. reply' \in [Device -> Reply \cup {NoText}]
    BY <2>3, <2>5 DEF Reply, TypeOK
  <2>7. pad' \in [Device -> Pad] /\ disk' \in [Device -> Pad] /\ fails' \in 0..MaxFails
    BY <2>4, <2>5, PersistType
  <2>8. TypeOK'
    BY <2>5, <2>6, <2>7 DEF TypeOK, history
  <2>9. \A e \in Device \ {d} : reply'[e] = reply[e]
    BY <2>5 DEF TypeOK
  <2> QED BY <2>1, <2>5, <2>8, <2>9 DEF Orderly
<1>4. CASE Settle(d)
  <2>1. reply[d] \in Reply /\ calls[d] # <<>> /\ calls[d] \in Seq(Call)
    BY <1>4 DEF Settle, TypeOK, Orderly
  <2>2. Head(calls[d]) \in Call /\ Tail(calls[d]) \in Seq(Call)
    BY <2>1
  <2>3. calls' = [calls EXCEPT ![d] = Tail(@)] /\ reply' = [reply EXCEPT ![d] = NoText]
        /\ UNCHANGED <<record, pad, disk, event, sync, history, fails>>
    BY <1>4 DEF Settle
  <2>4. shown' \in [Device -> Text] /\ legacy' \in [Device -> Text]
    BY <1>4, <2>1, <2>2, ZenonT(60) DEF Settle, Shown, TypeOK, Reply, Call, TextsClosed
  <2>5. calls' \in [Device -> Seq(Call)] /\ reply' \in [Device -> Reply \cup {NoText}]
    BY <2>2, <2>3 DEF TypeOK
  <2>6. TypeOK'
    BY <2>3, <2>4, <2>5 DEF TypeOK, history
  <2>7. /\ reply'[d] = NoText
        /\ \A e \in Device \ {d} : reply'[e] = reply[e] /\ calls'[e] = calls[e]
    BY <2>3 DEF TypeOK
  <2> QED BY <2>3, <2>6, <2>7 DEF Orderly
<1>5. CASE Deliver(d)
  <2>1. event[d] \in Text
    BY <1>5 DEF Deliver, TypeOK
  <2>2. shown' \in [Device -> Text] /\ event' \in [Device -> Text \cup {NoText}]
    BY <1>5, <2>1 DEF Deliver, TypeOK
  <2>3. UNCHANGED <<record, pad, disk, legacy, calls, reply, sync, history, fails>>
    BY <1>5 DEF Deliver
  <2>4. TypeOK'
    BY <2>2, <2>3 DEF TypeOK, history
  <2> QED BY <2>3, <2>4 DEF Orderly
<1> QED BY <1>1, <1>2, <1>3, <1>4, <1>5

\* The sync of d moves to a state that is typed and counts no try before it has
\* fetched.
LEMMA GoTyped ==
    ASSUME TypeOK, Orderly, NEW d \in Device, NEW s \in SyncState,
           s.pc = "fetch" => s.tries = 0, Go(d, s)
    PROVE  /\ sync' \in [Device -> SyncState]
           /\ \A e \in Device : sync'[e].pc = "fetch" => sync'[e].tries = 0
BY DEF TypeOK, Orderly, Go

\* The steps of a sync, and what goes wrong with it.
LEMMA SyncTyped ==
    ASSUME TextsClosed, TypeOK, Orderly, NEW d \in Device,
           \/ SyncStart(d) \/ Fetch(d) \/ PutWins(d) \/ PutConflicts(d) \/ Reread(d)
           \/ \E ok \in BOOLEAN : Adopt(d, ok)
           \/ Emit(d) \/ Abort(d) \/ Crash(d)
    PROVE  TypeOK' /\ Orderly'
<1> USE DEF window, history
<1>1. sync[d] \in SyncState /\ pad[d] \in Pad /\ disk[d] \in Pad /\ record \in Record
  BY DEF TypeOK
<1>2. CASE SyncStart(d)
  <2>1. [At("fetch") EXCEPT !.snap = pad[d]] \in SyncState
    BY <1>1, AtType DEF SyncState
  <2>2. [At("fetch") EXCEPT !.snap = pad[d]].tries = 0
    BY DEF At
  <2>3. sync' \in [Device -> SyncState]
        /\ \A e \in Device : sync'[e].pc = "fetch" => sync'[e].tries = 0
    BY <1>2, <2>1, <2>2, GoTyped DEF SyncStart
  <2> QED BY <1>2, <2>3 DEF SyncStart, TypeOK, Orderly
<1>3. CASE Fetch(d)
  <2>1. sync[d].tries < 3
    BY <1>3 DEF Fetch, Orderly
  <2>2. sync' \in [Device -> SyncState]
        /\ \A e \in Device : sync'[e].pc = "fetch" => sync'[e].tries = 0
    BY <1>1, <1>3, <2>1, ConsiderType, GoTyped DEF Fetch
  <2> QED BY <1>3, <2>2 DEF Fetch, TypeOK, Orderly
<1>4. CASE PutWins(d)
  <2>1. Written(d) \in Record
    BY <1>1, <1>4, BoundsAssumption DEF PutWins, Wins, Written, Record, SyncState
  <2>2. [sync[d] EXCEPT !.pc = "answer", !.got = Written(d)] \in SyncState
    BY <1>1, <2>1 DEF SyncState
  <2>3. [sync[d] EXCEPT !.pc = "answer", !.got = Written(d)].pc # "fetch"
    BY <1>1 DEF SyncState
  <2>4. sync' \in [Device -> SyncState]
        /\ \A e \in Device : sync'[e].pc = "fetch" => sync'[e].tries = 0
    BY <1>4, <2>2, <2>3, GoTyped DEF PutWins
  <2> QED BY <1>4, <2>1, <2>4 DEF PutWins, TypeOK, Orderly
<1>5. CASE PutConflicts(d)
  <2>1. [sync[d] EXCEPT !.pc = "reread"] \in SyncState
        /\ [sync[d] EXCEPT !.pc = "reread"].pc # "fetch"
    BY <1>1 DEF SyncState
  <2>2. sync' \in [Device -> SyncState]
        /\ \A e \in Device : sync'[e].pc = "fetch" => sync'[e].tries = 0
    BY <1>5, <2>1, GoTyped DEF PutConflicts
  <2> QED BY <1>5, <2>2 DEF PutConflicts, TypeOK, Orderly
<1>6. CASE Reread(d)
  <2> DEFINE s == IF sync[d].tries < 3 THEN Consider(sync[d], record)
                  ELSE IF record.html # sync[d].next THEN At("idle")
                  ELSE [sync[d] EXCEPT !.pc = "adopt", !.got = record]
  <2>1. s \in SyncState /\ s.pc # "fetch"
    <3>1. CASE sync[d].tries < 3
      BY <1>1, <3>1, ConsiderType
    <3>2. CASE ~(sync[d].tries < 3) /\ record.html # sync[d].next
      BY <3>2, AtType DEF At
    <3>3. CASE ~(sync[d].tries < 3) /\ record.html = sync[d].next
      BY <1>1, <3>3 DEF SyncState
    <3> QED BY <3>1, <3>2, <3>3
  <2>2. Go(d, s)
    BY <1>6 DEF Reread
  <2> HIDE DEF s
  <2>3. sync' \in [Device -> SyncState]
        /\ \A e \in Device : sync'[e].pc = "fetch" => sync'[e].tries = 0
    BY <2>1, <2>2, GoTyped
  <2> QED BY <1>6, <2>3 DEF Reread, TypeOK, Orderly
<1>7. ASSUME NEW ok \in BOOLEAN, Adopt(d, ok) PROVE TypeOK' /\ Orderly'
  <2> DEFINE p == [pad[d] EXCEPT !.html = Adopted(d), !.version = sync[d].got.version,
                                 !.agreed = sync[d].got.html]
             step == IF ok /\ Adopted(d) # pad[d].html THEN "emit" ELSE "idle"
  <2>1. Adopted(d) \in Text
    BY <1>1 DEF Adopted, TextsClosed, SyncState, Pad, Record
  <2>2. p \in Pad
    BY <1>1, <2>1 DEF SyncState, Pad, Record
  <2>3. At(step) \in SyncState /\ At(step).pc # "fetch"
    BY AtType DEF At
  <2>4. Persist(d, p, ok) /\ Go(d, At(step))
        /\ UNCHANGED <<record, window, event, history>>
    BY <1>7 DEF Adopt
  <2> HIDE DEF p, step
  <2>5. pad' \in [Device -> Pad] /\ disk' \in [Device -> Pad] /\ fails' \in 0..MaxFails
    BY <2>2, <2>4, PersistType
  <2>6. sync' \in [Device -> SyncState]
        /\ \A e \in Device : sync'[e].pc = "fetch" => sync'[e].tries = 0
    BY <2>3, <2>4, GoTyped
  <2> QED BY <2>4, <2>5, <2>6 DEF TypeOK, Orderly
<1>8. CASE Emit(d)
  <2>1. sync' \in [Device -> SyncState]
        /\ \A e \in Device : sync'[e].pc = "fetch" => sync'[e].tries = 0
    BY <1>8, AtType, GoTyped DEF Emit, At
  <2>2. event' \in [Device -> Text \cup {NoText}]
    BY <1>1, <1>8 DEF Emit, TypeOK, Pad
  <2> QED BY <1>8, <2>1, <2>2 DEF Emit, TypeOK, Orderly
<1>9. CASE Abort(d)
  <2>1. sync' \in [Device -> SyncState]
        /\ \A e \in Device : sync'[e].pc = "fetch" => sync'[e].tries = 0
    BY <1>9, AtType, GoTyped DEF Abort, At
  <2>2. fails' \in 0..MaxFails
    BY <1>9, BoundsAssumption DEF Abort, Failing, TypeOK
  <2> QED BY <1>9, <2>1, <2>2 DEF Abort, TypeOK, Orderly
<1>10. CASE Crash(d)
  <2>1. sync' \in [Device -> SyncState]
        /\ \A e \in Device : sync'[e].pc = "fetch" => sync'[e].tries = 0
    BY <1>10, AtType, GoTyped DEF Crash, At
  <2>2. fails' \in 0..MaxFails
    BY <1>10, BoundsAssumption DEF Crash, Failing, TypeOK
  <2>3. <<Load(legacy[d])>> \in Seq(Call)
    BY DEF Load, Call, TextsClosed, TypeOK
  <2>4. calls' \in [Device -> Seq(Call)]
    BY <1>10, <2>3 DEF Crash, TypeOK
  <2>5. /\ pad' \in [Device -> Pad] /\ shown' \in [Device -> Text]
        /\ reply' \in [Device -> Reply \cup {NoText}]
        /\ event' \in [Device -> Text \cup {NoText}]
    BY <1>1, <1>10 DEF Crash, TypeOK, TextsClosed
  <2>6. TypeOK'
    BY <1>10, <2>1, <2>2, <2>4, <2>5 DEF Crash, TypeOK
  <2>7. /\ reply'[d] = NoText
        /\ \A e \in Device \ {d} : reply'[e] = reply[e] /\ calls'[e] = calls[e]
    BY <1>10 DEF Crash, TypeOK
  <2> QED BY <2>1, <2>6, <2>7 DEF Orderly
<1> QED BY <1>2, <1>3, <1>4, <1>5, <1>6, <1>7, <1>8, <1>9, <1>10

LEMMA NextTyped ==
    ASSUME TextsClosed, TypeOK, Orderly, [Next]_vars
    PROVE  TypeOK' /\ Orderly'
<1>1. CASE UNCHANGED vars
  BY <1>1 DEF vars, window, history, TypeOK, Orderly
<1>2. CASE Next
  BY <1>2, WindowTyped, SyncTyped DEF Next
<1> QED BY <1>1, <1>2

\* The state of the pads, the windows and the syncs stays within its types
\* (PadSync's whole state, as stored and SketchpadState declare it).
THEOREM TypeCorrect == TextsClosed => (Spec => []TypeOK)
<1> SUFFICES ASSUME TextsClosed PROVE Spec => []TypeOK
  OBVIOUS
<1>1. Init => TypeOK /\ Orderly
  BY InitTyped
<1>2. TypeOK /\ Orderly /\ [Next]_vars => (TypeOK /\ Orderly)'
  BY NextTyped
<1> QED BY <1>1, <1>2, PTL DEF Spec
-----------------------------------------------------------------------------
(* Versions name texts *)

LEMMA InitNames ==
    ASSUME TextsClosed, Init
    PROVE  NamesInv
<1>1. TypeOK
  BY InitTyped
<1>2. PICK text \in Starts :
        /\ record = [version |-> IF text = Empty THEN 0 ELSE 1, html |-> text]
        /\ pad = [d \in Device |-> [html |-> text, saved |-> text # Empty,
                                    version |-> record.version, agreed |-> text]]
  BY DEF Init
<1>3. ASSUME NEW d \in Device
      PROVE  /\ Names(pad[d].version, pad[d].agreed)
             /\ Names(disk[d].version, disk[d].agreed)
  <2>1. pad[d].version = record.version /\ pad[d].agreed = record.html /\ disk = pad
    BY <1>2 DEF Init
  <2>2. record.version \in Nat
    BY <1>1, BoundsAssumption DEF TypeOK, Record
  <2> QED BY <2>1, <2>2 DEF Names
<1>4. ASSUME NEW d \in Device PROVE Names(sync[d].got.version, sync[d].got.html)
  <2>1. sync[d].got = NoRecord
    BY DEF Init, At
  <2> QED BY <1>2, <2>1 DEF Names, NoRecord
<1> QED BY <1>2, <1>3, <1>4 DEF NamesInv

\* While the record stays, what a device remembers may be what some device
\* remembered before, the record itself, or nothing yet.
LEMMA NamesKept ==
    ASSUME TypeOK, NamesInv, UNCHANGED record,
           \A d \in Device :
              /\ \/ pad'[d].version = pad[d].version /\ pad'[d].agreed = pad[d].agreed
                 \/ pad'[d].version = disk[d].version /\ pad'[d].agreed = disk[d].agreed
                 \/ /\ pad'[d].version = sync[d].got.version
                    /\ pad'[d].agreed = sync[d].got.html
              /\ \/ disk'[d].version = disk[d].version /\ disk'[d].agreed = disk[d].agreed
                 \/ disk'[d].version = pad'[d].version /\ disk'[d].agreed = pad'[d].agreed
              /\ sync'[d].got \in {sync[d].got, record, NoRecord}
    PROVE  NamesInv'
<1>1. record.version \in Nat
  BY BoundsAssumption DEF TypeOK, Record
<1>2. ASSUME NEW d \in Device
      PROVE  /\ Names(pad[d].version, pad[d].agreed)'
             /\ Names(disk[d].version, disk[d].agreed)'
  BY DEF NamesInv, Names
<1>3. ASSUME NEW d \in Device PROVE Names(sync[d].got.version, sync[d].got.html)'
  <2>1. CASE sync'[d].got = sync[d].got
    BY <2>1 DEF NamesInv, Names
  <2>2. CASE sync'[d].got = record
    BY <1>1, <2>2 DEF Names
  <2>3. CASE sync'[d].got = NoRecord
    BY <1>1, <2>3 DEF NamesInv, Names, NoRecord
  <2> QED BY <2>1, <2>2, <2>3
<1> QED BY <1>2, <1>3 DEF NamesInv

\* A write of the pad: memory and file name the version and text it is given.
LEMMA PersistNames ==
    ASSUME TypeOK, NEW d \in Device, NEW p \in Pad, NEW ok \in BOOLEAN, Persist(d, p, ok)
    PROVE  /\ pad'[d].version = p.version /\ pad'[d].agreed = p.agreed
           /\ \/ disk'[d] = disk[d]
              \/ disk'[d].version = p.version /\ disk'[d].agreed = p.agreed
           /\ \A e \in Device \ {d} : pad'[e] = pad[e] /\ disk'[e] = disk[e]
<1> DEFINE q == [p EXCEPT !.saved = TRUE]
<1>1. q.version = p.version /\ q.agreed = p.agreed
  BY DEF Pad
<1>2. pad' = [pad EXCEPT ![d] = q] /\ (disk' = disk \/ disk' = [disk EXCEPT ![d] = q])
  BY DEF Persist
<1> HIDE DEF q
<1>3. pad'[d] = q /\ (disk'[d] = disk[d] \/ disk'[d] = q)
  BY <1>2 DEF TypeOK
<1>4. \A e \in Device \ {d} : pad'[e] = pad[e] /\ disk'[e] = disk[e]
  BY <1>2 DEF TypeOK
<1> QED BY <1>1, <1>3, <1>4

\* A sync's move changes what it has got to nothing, or to the record.
LEMMA GoNames ==
    ASSUME TypeOK, NEW d \in Device, NEW s,
           s.got \in {sync[d].got, record, NoRecord}, Go(d, s)
    PROVE  \A e \in Device : sync'[e].got \in {sync[e].got, record, NoRecord}
BY DEF TypeOK, Go

\* The one step that moves the record leaves every version behind the new one
\* but this sync's, which is the new one.
LEMMA PutWinsNames ==
    ASSUME TypeOK, NamesInv, NEW d \in Device, PutWins(d)
    PROVE  NamesInv'
<1>1. record.version \in Nat /\ record' = Written(d)
      /\ Written(d).version = record.version + 1
  BY BoundsAssumption DEF PutWins, Wins, Written, TypeOK, Record
<1>2. record'.version = record.version + 1
  BY <1>1
<1>3. sync'[d].got = Written(d) /\ \A e \in Device \ {d} : sync'[e] = sync[e]
  BY DEF PutWins, Go, TypeOK, SyncState
<1>4. UNCHANGED <<pad, disk>>
  BY DEF PutWins
<1>5. ASSUME NEW v \in Nat, NEW text, Names(v, text) PROVE Names(v, text)'
  BY <1>1, <1>2, <1>5 DEF Names
<1>6. ASSUME NEW e \in Device
      PROVE  /\ Names(pad[e].version, pad[e].agreed)'
             /\ Names(disk[e].version, disk[e].agreed)'
  <2>1. pad[e].version \in Nat /\ disk[e].version \in Nat
    BY BoundsAssumption DEF TypeOK, Pad
  <2> QED BY <1>1, <1>2, <1>4, <2>1 DEF NamesInv, Names
<1>7. ASSUME NEW e \in Device PROVE Names(sync[e].got.version, sync[e].got.html)'
  <2>1. CASE e = d
    BY <1>1, <1>2, <1>3, <2>1 DEF Names
  <2>2. CASE e # d
    <3>1. sync[e].got.version \in Nat
      BY BoundsAssumption DEF TypeOK, SyncState, Record
    <3> QED BY <1>1, <1>2, <1>3, <2>2, <3>1 DEF NamesInv, Names
  <2> QED BY <2>1, <2>2
<1> QED BY <1>1, <1>2, <1>6, <1>7 DEF NamesInv

LEMMA StepNames ==
    ASSUME TextsClosed, TypeOK, Orderly, NamesInv, NEW d \in Device,
           \/ Type(d) \/ Settle(d) \/ Deliver(d)
           \/ \E ok \in BOOLEAN : RunLoad(d, ok) \/ RunSave(d, ok) \/ Adopt(d, ok)
           \/ SyncStart(d) \/ Fetch(d) \/ PutConflicts(d) \/ Reread(d) \/ Emit(d)
           \/ Abort(d) \/ Crash(d)
    PROVE  NamesInv'
<1> USE DEF window, history
<1>1. pad[d] \in Pad /\ disk[d] \in Pad /\ sync[d] \in SyncState /\ record \in Record
  BY DEF TypeOK
<1>2. CASE Type(d) \/ Settle(d) \/ Deliver(d)
  <2>1. UNCHANGED <<record, pad, disk, sync>>
    BY <1>2 DEF Type, Settle, Deliver
  <2> QED BY <2>1, NamesKept
<1>3. ASSUME NEW ok \in BOOLEAN, RunLoad(d, ok) \/ RunSave(d, ok) PROVE NamesInv'
  <2>1. UNCHANGED <<record, sync>>
    BY <1>3 DEF RunLoad, RunSave
  <2>2. CASE UNCHANGED <<pad, disk>>
    BY <2>1, <2>2, NamesKept
  <2>3. ASSUME NEW html \in Text, Persist(d, [pad[d] EXCEPT !.html = html], ok)
        PROVE  NamesInv'
    <3> DEFINE p == [pad[d] EXCEPT !.html = html]
    <3>1. p \in Pad /\ p.version = pad[d].version /\ p.agreed = pad[d].agreed
      BY <1>1 DEF Pad
    <3>2. Persist(d, p, ok)
      BY <2>3
    <3> HIDE DEF p
    <3> QED BY <2>1, <3>1, <3>2, PersistNames, NamesKept
  <2>4. \/ UNCHANGED <<pad, disk>>
        \/ \E html \in Text : Persist(d, [pad[d] EXCEPT !.html = html], ok)
    <3>1. calls[d] # <<>> /\ calls[d] \in Seq(Call)
      BY <1>3 DEF RunLoad, RunSave, Running, TypeOK
    <3>2. Head(calls[d]) \in Call
      BY <3>1
    <3>3. CASE RunLoad(d, ok)
      <4> DEFINE html == IF Head(calls[d]).html # Empty \/ ~pad[d].saved
                         THEN MergeTexts(Empty, pad[d].html, Head(calls[d]).html)
                         ELSE pad[d].html
      <4>1. html \in Text
        BY <1>1, <3>2 DEF Call, Pad, TextsClosed
      <4>2. Persist(d, [pad[d] EXCEPT !.html = html], ok) \/ UNCHANGED <<pad, disk>>
        BY <3>3 DEF RunLoad
      <4> QED BY <4>1, <4>2
    <3>4. CASE RunSave(d, ok)
      <4> DEFINE html == Saved(Head(calls[d]).base, Head(calls[d]).html, pad[d].html)
      <4>1. html \in Text
        BY <1>1, <3>2, SavedType DEF Call, Pad
      <4>2. Persist(d, [pad[d] EXCEPT !.html = html], ok)
        BY <3>4 DEF RunSave
      <4> QED BY <4>1, <4>2
    <3> QED BY <1>3, <3>3, <3>4
  <2> QED BY <2>2, <2>3, <2>4
<1>4. ASSUME NEW ok \in BOOLEAN, Adopt(d, ok) PROVE NamesInv'
  <2> DEFINE p == [pad[d] EXCEPT !.html = Adopted(d), !.version = sync[d].got.version,
                                 !.agreed = sync[d].got.html]
             s == At(IF ok /\ Adopted(d) # pad[d].html THEN "emit" ELSE "idle")
  <2>1. Adopted(d) \in Text
    BY <1>1 DEF Adopted, TextsClosed, SyncState, Pad, Record
  <2>2. p \in Pad /\ p.version = sync[d].got.version /\ p.agreed = sync[d].got.html
    BY <1>1, <2>1 DEF SyncState, Pad, Record
  <2>3. s.got = NoRecord
    BY DEF At
  <2>4. Persist(d, p, ok) /\ Go(d, s) /\ UNCHANGED record
    BY <1>4 DEF Adopt
  <2> HIDE DEF p, s
  <2>5. \A e \in Device : sync'[e].got \in {sync[e].got, record, NoRecord}
    BY <2>3, <2>4, GoNames
  <2> QED BY <2>2, <2>4, <2>5, PersistNames, NamesKept
<1>5. CASE SyncStart(d) \/ Fetch(d) \/ PutConflicts(d) \/ Reread(d) \/ Emit(d) \/ Abort(d)
  <2>1. UNCHANGED <<record, pad, disk>>
    BY <1>5 DEF SyncStart, Fetch, PutConflicts, Reread, Emit, Abort
  <2>2. PICK s : Go(d, s) /\ s.got \in {sync[d].got, record, NoRecord}
    <3>1. CASE SyncStart(d)
      <4>1. [At("fetch") EXCEPT !.snap = pad[d]].got = NoRecord
        BY DEF At
      <4> QED BY <3>1, <4>1 DEF SyncStart
    <3>2. CASE Fetch(d)
      <4>1. sync[d].tries < 3
        BY <3>2 DEF Fetch, Orderly
      <4>2. Consider(sync[d], record).got \in {record, NoRecord}
        BY <1>1, <4>1, ConsiderType
      <4> QED BY <3>2, <4>2 DEF Fetch
    <3>3. CASE PutConflicts(d)
      <4>1. [sync[d] EXCEPT !.pc = "reread"].got = sync[d].got
        BY <1>1 DEF SyncState
      <4> QED BY <3>3, <4>1 DEF PutConflicts
    <3>4. CASE Reread(d)
      <4> DEFINE s == IF sync[d].tries < 3 THEN Consider(sync[d], record)
                      ELSE IF record.html # sync[d].next THEN At("idle")
                      ELSE [sync[d] EXCEPT !.pc = "adopt", !.got = record]
      <4>1. CASE sync[d].tries < 3
        BY <1>1, <4>1, <3>4, ConsiderType DEF Reread
      <4>2. CASE ~(sync[d].tries < 3) /\ record.html # sync[d].next
        BY <3>4, <4>2 DEF Reread, At
      <4>3. CASE ~(sync[d].tries < 3) /\ record.html = sync[d].next
        <5>1. [sync[d] EXCEPT !.pc = "adopt", !.got = record].got = record
          BY <1>1 DEF SyncState
        <5> QED BY <3>4, <4>3, <5>1 DEF Reread
      <4> QED BY <4>1, <4>2, <4>3
    <3>5. CASE Emit(d) \/ Abort(d)
      <4>1. At("idle").got = NoRecord
        BY DEF At
      <4>2. Go(d, At("idle"))
        BY <3>5 DEF Emit, Abort
      <4> QED BY <4>1, <4>2
    <3> QED BY <1>5, <3>1, <3>2, <3>3, <3>4, <3>5
  <2>3. \A e \in Device : sync'[e].got \in {sync[e].got, record, NoRecord}
    BY <2>2, GoNames
  <2> QED BY <2>1, <2>3, NamesKept
<1>6. CASE Crash(d)
  <2>1. UNCHANGED <<record, disk>> /\ Go(d, At("idle"))
    BY <1>6 DEF Crash
  <2>2. \A e \in Device : pad'[e] \in {pad[e], disk[e]}
    BY <1>6 DEF Crash, TypeOK
  <2>3. \A e \in Device : sync'[e].got \in {sync[e].got, record, NoRecord}
    BY <2>1, GoNames DEF At
  <2> QED BY <2>1, <2>2, <2>3, NamesKept
<1> QED BY <1>2, <1>3, <1>4, <1>5, <1>6

LEMMA NextNames ==
    ASSUME TextsClosed, TypeOK, Orderly, NamesInv, [Next]_vars
    PROVE  NamesInv'
<1>1. CASE UNCHANGED vars
  BY <1>1 DEF vars, NamesInv, Names
<1>2. CASE Next
  BY <1>2, StepNames, PutWinsNames DEF Next
<1> QED BY <1>1, <1>2

\* A pad that names the record's version agreed with the record's text, so the
\* next merge starts from a true ancestor, whatever raced, failed or crashed
\* (stored.Version and stored.Agreed, written together by Pad.adopt).
THEOREM VersionsNameTexts == TextsClosed => (Spec => []VersionNamesText)
<1> SUFFICES ASSUME TextsClosed PROVE Spec => []VersionNamesText
  OBVIOUS
<1>1. Init => TypeOK /\ Orderly /\ NamesInv
  BY InitTyped, InitNames
<1>2. TypeOK /\ Orderly /\ NamesInv /\ [Next]_vars => (TypeOK /\ Orderly /\ NamesInv)'
  BY NextTyped, NextNames
<1>3. NamesInv => VersionNamesText
  BY DEF NamesInv, Names, VersionNamesText
<1> QED BY <1>1, <1>2, <1>3, PTL DEF Spec
-----------------------------------------------------------------------------
(* Text stays *)

\* A text that says nothing twice: what is taken out of it is gone.
Once(t) == \A u \in Text : Erases(t, u) \cap Blocks(u) = {}

\* No merge starts from a text that says something twice.
Unrepeated ==
    \A d \in Device :
        /\ \A n \in DOMAIN calls[d] : Once(calls[d][n].base)
        /\ Once(sync[d].snap.html) /\ Once(sync[d].snap.agreed)

\* What the proof takes of edits and of the merge (WrittenStays of MCPadMerge
\* says it of the merge in the code): a block that is gone has been taken out; a
\* merge holds what either side wrote, and what both still have of a base that
\* says nothing twice.
BlocksKept ==
    /\ Blocks(Empty) = {}
    /\ \A t, u \in Text : Blocks(t) \ Blocks(u) \subseteq Erases(t, u)
    /\ \A b, o, t \in Text :
        /\ (Blocks(o) \cup Blocks(t)) \ Blocks(b) \subseteq Blocks(MergeTexts(b, o, t))
        /\ Once(b) => Blocks(o) \cap Blocks(t) \subseteq Blocks(MergeTexts(b, o, t))

\* What the new text lacks of the old, a user has taken out.
Keeps(old, new) == Blocks(old) \ erased \subseteq Blocks(new)

\* A pad and the record both hold on to what they agreed on.
Holds(p) == Keeps(p.agreed, p.html) /\ Keeps(p.agreed, record.html)

\* How far the sync s has carried what its pad and the record said.
Carries(s) ==
    /\ Holds(s.snap)
    /\ Keeps(s.got.html, record.html)
    /\ s.pc \in {"put", "reread"} => Keeps(s.got.html, s.next) /\ Keeps(s.snap.html, s.next)
    /\ s.pc \in {"answer", "adopt"} => Keeps(s.snap.html, s.got.html)

\* Every text that a merge will start from is kept by both texts it will merge.
Kept(d) ==
    /\ Holds(pad[d]) /\ Holds(disk[d]) /\ Keeps(disk[d].html, pad[d].html)
    /\ \A n \in DOMAIN calls[d] : Keeps(calls[d][n].base, calls[d][n].html)
    /\ Carries(sync[d]) /\ Keeps(sync[d].snap.html, pad[d].html)

TextInv == \A d \in Device : Kept(d)

\* The merge keeps theirs if ours keeps the base, and ours if theirs does.
LEMMA MergeKeeps ==
    ASSUME TextsClosed, BlocksKept, NEW b \in Text, NEW o \in Text, NEW t \in Text,
           b = Empty \/ Once(b)
    PROVE  /\ MergeTexts(b, o, t) \in Text
           /\ Keeps(b, o) => Keeps(t, MergeTexts(b, o, t))
           /\ Keeps(b, t) => Keeps(o, MergeTexts(b, o, t))
<1>1. MergeTexts(b, o, t) \in Text
  BY DEF TextsClosed
<1>2. /\ (Blocks(o) \cup Blocks(t)) \ Blocks(b) \subseteq Blocks(MergeTexts(b, o, t))
      /\ Once(b) => Blocks(o) \cap Blocks(t) \subseteq Blocks(MergeTexts(b, o, t))
      /\ b = Empty => Blocks(b) = {}
  BY DEF BlocksKept
<1> QED BY <1>1, <1>2 DEF Keeps

\* Where nobody's texts move but those of d, the record only gains, and users
\* only take out more, every other device keeps what it kept.
LEMMA OthersKeep ==
    ASSUME TextInv, NEW d \in Device, erased \subseteq erased',
           Keeps(record.html, record'.html),
           NEW e \in Device, e # d,
           pad'[e] = pad[e], disk'[e] = disk[e], calls'[e] = calls[e], sync'[e] = sync[e]
    PROVE  Kept(e)'
<1>1. Kept(e)
  BY DEF TextInv
<1>2. Holds(pad[e])' /\ Holds(disk[e])' /\ Holds(sync[e].snap)'
  BY <1>1 DEF Kept, Carries, Holds, Keeps
<1>3. Carries(sync[e])'
  BY <1>1, <1>2 DEF Kept, Carries, Keeps
<1>4. Keeps(disk[e].html, pad[e].html)' /\ Keeps(sync[e].snap.html, pad[e].html)'
  BY <1>1 DEF Kept, Keeps
<1>5. (\A n \in DOMAIN calls[e] : Keeps(calls[e][n].base, calls[e][n].html))'
  BY <1>1 DEF Kept, Keeps
<1> QED BY <1>2, <1>3, <1>4, <1>5 DEF Kept

\* A step of one device that moves no record.
LEMMA OneKeeps ==
    ASSUME TextInv, NEW d \in Device, erased \subseteq erased', UNCHANGED record,
           \A e \in Device \ {d} :
               /\ pad'[e] = pad[e] /\ disk'[e] = disk[e]
               /\ calls'[e] = calls[e] /\ sync'[e] = sync[e],
           Kept(d)'
    PROVE  TextInv'
<1>1. Keeps(record.html, record'.html)
  BY DEF Keeps
<1>2. ASSUME NEW e \in Device PROVE Kept(e)'
  <2>1. CASE e = d
    BY <2>1
  <2>2. CASE e # d
    BY <1>1, <2>2, OthersKeep
  <2> QED BY <2>1, <2>2
<1> QED BY <1>2 DEF TextInv

LEMMA InitKeeps ==
    ASSUME TextsClosed, BlocksKept, Init
    PROVE  TextInv
<1>1. PICK text \in Starts :
        /\ record = [version |-> IF text = Empty THEN 0 ELSE 1, html |-> text]
        /\ pad = [d \in Device |-> [html |-> text, saved |-> text # Empty,
                                    version |-> record.version, agreed |-> text]]
  BY DEF Init
<1>2. ASSUME NEW d \in Device PROVE Kept(d)
  <2>1. /\ pad[d].html = text /\ pad[d].agreed = text /\ disk[d] = pad[d]
        /\ record.html = text
    BY <1>1 DEF Init
  <2>2. Holds(pad[d]) /\ Holds(disk[d]) /\ Keeps(disk[d].html, pad[d].html)
    BY <2>1 DEF Holds, Keeps
  <2>3. calls[d] = <<Load(legacy[d])>>
    BY DEF Init
  <2>4. ASSUME NEW n \in DOMAIN calls[d]
        PROVE  Keeps(calls[d][n].base, calls[d][n].html)
    <3>1. calls[d][n].base = Empty
      BY <2>3 DEF Load
    <3> QED BY <3>1 DEF Keeps, BlocksKept
  <2>5. sync[d] = At("idle")
    BY DEF Init
  <2>6. Carries(sync[d]) /\ Keeps(sync[d].snap.html, pad[d].html)
    BY <2>5 DEF Carries, Holds, Keeps, BlocksKept, At, NoPad, NoRecord
  <2> QED BY <2>2, <2>4, <2>6 DEF Kept
<1> QED BY <1>2 DEF TextInv

\* A sync that is not under way carries nothing.
LEMMA RestingCarries ==
    ASSUME BlocksKept, NEW step \in {"idle", "fetch", "put", "reread", "answer", "adopt", "emit"},
           NEW p
    PROVE  Carries(At(step)) /\ Keeps(At(step).snap.html, p.html)
BY DEF Carries, Holds, Keeps, BlocksKept, At, NoPad, NoRecord

\* A write of the pad that keeps what the pad said, and what it is to agree on.
LEMMA PersistKeeps ==
    ASSUME TypeOK, NEW d \in Device, Kept(d), NEW p \in Pad, NEW ok \in BOOLEAN,
           Persist(d, p, ok), UNCHANGED <<record, erased>>,
           Keeps(pad[d].html, p.html), Holds(p)
    PROVE  /\ pad'[d].html = p.html
           /\ Holds(pad[d])' /\ Holds(disk[d])' /\ Keeps(disk[d].html, pad[d].html)'
           /\ Keeps(disk[d].html, disk'[d].html)
           /\ \A e \in Device \ {d} : pad'[e] = pad[e] /\ disk'[e] = disk[e]
<1> DEFINE q == [p EXCEPT !.saved = TRUE]
<1>1. q.html = p.html /\ q.agreed = p.agreed
  BY DEF Pad
<1>2. pad' = [pad EXCEPT ![d] = q] /\ (disk' = disk \/ disk' = [disk EXCEPT ![d] = q])
  BY DEF Persist
<1> HIDE DEF q
<1>3. pad'[d] = q /\ (disk'[d] = disk[d] \/ disk'[d] = q)
  BY <1>2 DEF TypeOK
<1>4. \A e \in Device \ {d} : pad'[e] = pad[e] /\ disk'[e] = disk[e]
  BY <1>2 DEF TypeOK
<1>5. Holds(pad[d])'
  BY <1>1, <1>3 DEF Holds, Keeps
<1>6. Keeps(disk[d].html, q.html)
  BY <1>1 DEF Kept, Keeps
<1>7. Holds(disk[d])' /\ Keeps(disk[d].html, pad[d].html)' /\ Keeps(disk[d].html, disk'[d].html)
  <2>1. CASE disk'[d] = disk[d]
    BY <1>3, <1>6, <2>1 DEF Kept, Holds, Keeps
  <2>2. CASE disk'[d] = q
    BY <1>1, <1>3, <1>6, <2>2 DEF Holds, Keeps
  <2> QED BY <1>3, <2>1, <2>2
<1> QED BY <1>1, <1>3, <1>4, <1>5, <1>7

\* An edit tells what it takes out.
LEMMA TypeKeeps ==
    ASSUME TextsClosed, BlocksKept, TypeOK, TextInv, NEW d \in Device, Type(d)
    PROVE  TextInv'
<1>0. Kept(d)
  BY DEF TextInv
<1>1. PICK html \in Edited(shown[d], Block \ typed) :
        /\ calls' = [calls EXCEPT ![d] =
                        Append(@, [op |-> "save", base |-> shown[d], html |-> html])]
        /\ erased' = erased \cup Erases(shown[d], html)
  BY DEF Type
<1> DEFINE call == [op |-> "save", base |-> shown[d], html |-> html]
<1>2. shown[d] \in Text /\ html \in Text
  BY <1>1 DEF TypeOK, TextsClosed
<1>3. calls[d] \in Seq(Call) /\ call \in Call
  BY <1>2 DEF TypeOK, Call
<1>4. UNCHANGED <<record, pad, disk, sync>>
  BY DEF Type
<1>5. calls'[d] = Append(calls[d], call) /\ \A e \in Device \ {d} : calls'[e] = calls[e]
  BY <1>1 DEF TypeOK
<1>6. Blocks(call.base) \ erased' \subseteq Blocks(call.html)
  BY <1>1, <1>2 DEF BlocksKept
<1>7. (\A n \in DOMAIN calls[d] : Keeps(calls[d][n].base, calls[d][n].html))'
  <2>1. ASSUME NEW n \in DOMAIN Append(calls[d], call)
        PROVE  \/ n \in DOMAIN calls[d] /\ Append(calls[d], call)[n] = calls[d][n]
               \/ Append(calls[d], call)[n] = call
    <3> HIDE DEF call
    <3> QED BY <1>3
  <2>2. \A n \in DOMAIN calls[d] : Keeps(calls[d][n].base, calls[d][n].html)
    BY <1>0 DEF Kept
  <2>3. erased \subseteq erased'
    BY <1>1
  <2> HIDE DEF call
  <2> QED BY <1>5, <1>6, <2>1, <2>2, <2>3 DEF Keeps
<1>8. Kept(d)'
  <2>1. erased \subseteq erased'
    BY <1>1
  <2>2. Holds(pad[d])' /\ Holds(disk[d])' /\ Carries(sync[d])'
    BY <1>0, <1>4, <2>1 DEF Kept, Carries, Holds, Keeps
  <2>3. Keeps(disk[d].html, pad[d].html)' /\ Keeps(sync[d].snap.html, pad[d].html)'
    BY <1>0, <1>4, <2>1 DEF Kept, Keeps
  <2> QED BY <1>7, <2>2, <2>3 DEF Kept
<1> QED BY <1>1, <1>4, <1>5, <1>8, OneKeeps

\* What a call of the window stores keeps what the pad said.
LEMMA CallKeeps ==
    ASSUME TextsClosed, BlocksKept, TypeOK, TextInv, NEW d \in Device,
           NEW html \in Text, Keeps(pad[d].html, html), NEW ok \in BOOLEAN,
           \/ Persist(d, [pad[d] EXCEPT !.html = html], ok)
           \/ UNCHANGED <<pad, disk>>,
           UNCHANGED <<record, calls, sync, erased>>
    PROVE  TextInv' /\ Keeps(disk[d].html, disk'[d].html)
<1> DEFINE p == [pad[d] EXCEPT !.html = html]
<1>0. Kept(d)
  BY DEF TextInv
<1>1. p \in Pad /\ p.html = html /\ p.agreed = pad[d].agreed
  <2>1. pad[d] \in Pad
    BY DEF TypeOK
  <2> QED BY <2>1 DEF Pad
<1>2. Holds(p)
  BY <1>0, <1>1 DEF Kept, Holds, Keeps
<1>3. /\ Keeps(pad[d].html, pad'[d].html)
      /\ Holds(pad[d])' /\ Holds(disk[d])' /\ Keeps(disk[d].html, pad[d].html)'
      /\ Keeps(disk[d].html, disk'[d].html)
      /\ \A e \in Device \ {d} : pad'[e] = pad[e] /\ disk'[e] = disk[e]
  <2>1. CASE Persist(d, p, ok)
    <3> HIDE DEF p
    <3> QED BY <1>0, <1>1, <1>2, <2>1, PersistKeeps
  <2>2. CASE UNCHANGED <<pad, disk>>
    BY <1>0, <2>2 DEF Kept, Holds, Keeps
  <2> QED BY <2>1, <2>2
<1>4. Kept(d)'
  <2>1. Carries(sync[d])'
    BY <1>0 DEF Kept, Carries, Holds, Keeps
  <2>2. Keeps(sync[d].snap.html, pad[d].html)'
    BY <1>0, <1>3 DEF Kept, Keeps
  <2>3. (\A n \in DOMAIN calls[d] : Keeps(calls[d][n].base, calls[d][n].html))'
    BY <1>0 DEF Kept, Keeps
  <2> QED BY <1>3, <2>1, <2>2, <2>3 DEF Kept
<1> QED BY <1>3, <1>4, OneKeeps

LEMMA LoadKeeps ==
    ASSUME TextsClosed, BlocksKept, TypeOK, TextInv, NEW d \in Device,
           NEW ok \in BOOLEAN, RunLoad(d, ok)
    PROVE  TextInv' /\ Keeps(disk[d].html, disk'[d].html)
<1> DEFINE text == Head(calls[d]).html
           html == IF text # Empty \/ ~pad[d].saved THEN MergeTexts(Empty, pad[d].html, text)
                   ELSE pad[d].html
<1>1. calls[d] # <<>> /\ calls[d] \in Seq(Call)
  BY DEF RunLoad, Running, TypeOK
<1>2. Head(calls[d]) \in Call
  BY <1>1
<1>3. text \in Text /\ pad[d].html \in Text /\ Empty \in Text
  BY <1>2 DEF Call, TypeOK, Pad, TextsClosed
<1>4. Keeps(Empty, text)
  BY DEF Keeps, BlocksKept
<1>5. html \in Text /\ Keeps(pad[d].html, html)
  <2>1. CASE text # Empty \/ ~pad[d].saved
    BY <1>3, <1>4, <2>1, MergeKeeps
  <2>2. CASE ~(text # Empty \/ ~pad[d].saved)
    BY <1>3, <2>2 DEF Keeps
  <2> QED BY <2>1, <2>2
<1>6. \/ Persist(d, [pad[d] EXCEPT !.html = html], ok)
      \/ UNCHANGED <<pad, disk>>
  BY DEF RunLoad
<1>7. UNCHANGED <<record, calls, sync, erased>>
  BY DEF RunLoad, history
<1> HIDE DEF html
<1> QED BY <1>5, <1>6, <1>7, CallKeeps

LEMMA SaveKeeps ==
    ASSUME TextsClosed, BlocksKept, TypeOK, TextInv, Unrepeated, NEW d \in Device,
           NEW ok \in BOOLEAN, RunSave(d, ok)
    PROVE  TextInv' /\ Keeps(disk[d].html, disk'[d].html)
<1> DEFINE call == Head(calls[d])
           html == Saved(call.base, call.html, pad[d].html)
<1>1. calls[d] # <<>> /\ calls[d] \in Seq(Call)
  BY DEF RunSave, Running, TypeOK
<1>2. call \in Call /\ 1 \in DOMAIN calls[d] /\ call = calls[d][1]
  BY <1>1
<1>3. Keeps(call.base, call.html) /\ Once(call.base)
  BY <1>2 DEF TextInv, Kept, Unrepeated
<1>4. call.base \in Text /\ call.html \in Text /\ pad[d].html \in Text
  BY <1>2 DEF Call, TypeOK, Pad
<1> HIDE DEF call
<1>5. html \in Text /\ Keeps(pad[d].html, html)
  <2>1. CASE pad[d].html # call.base
    BY <1>3, <1>4, <2>1, MergeKeeps DEF Saved
  <2>2. CASE pad[d].html = call.base
    BY <1>3, <1>4, <2>2 DEF Saved
  <2> QED BY <2>1, <2>2
<1>6. Persist(d, [pad[d] EXCEPT !.html = html], ok)
  BY DEF RunSave, call
<1>7. UNCHANGED <<record, calls, sync, erased>>
  BY DEF RunSave, history
<1> HIDE DEF html
<1> QED BY <1>5, <1>6, <1>7, CallKeeps

LEMMA AdoptKeeps ==
    ASSUME TextsClosed, BlocksKept, TypeOK, TextInv, Unrepeated, NEW d \in Device,
           NEW ok \in BOOLEAN, Adopt(d, ok)
    PROVE  TextInv' /\ Keeps(disk[d].html, disk'[d].html)
<1> DEFINE p == [pad[d] EXCEPT !.html = Adopted(d), !.version = sync[d].got.version,
                               !.agreed = sync[d].got.html]
           step == IF ok /\ Adopted(d) # pad[d].html THEN "emit" ELSE "idle"
<1>0. Kept(d)
  BY DEF TextInv
<1>1. /\ pad[d] \in Pad /\ sync[d].got.version \in 0..MaxVersion
      /\ sync[d].snap.html \in Text /\ pad[d].html \in Text /\ sync[d].got.html \in Text
  BY DEF TypeOK, SyncState, Pad, Record
<1>2. /\ Keeps(sync[d].snap.html, pad[d].html)
      /\ Keeps(sync[d].snap.html, sync[d].got.html)
      /\ Once(sync[d].snap.html)
  BY <1>0 DEF Kept, Carries, Adopt, Unrepeated
<1>3. /\ Adopted(d) \in Text
      /\ Keeps(pad[d].html, Adopted(d)) /\ Keeps(sync[d].got.html, Adopted(d))
  BY <1>1, <1>2, MergeKeeps DEF Adopted
<1>4. p \in Pad /\ p.html = Adopted(d) /\ p.agreed = sync[d].got.html
  BY <1>1, <1>3 DEF Pad
<1>5. Keeps(sync[d].got.html, record.html)
  BY <1>0 DEF Kept, Carries
<1>6. /\ Persist(d, p, ok) /\ Go(d, At(step))
      /\ UNCHANGED <<record, calls, erased>>
  BY DEF Adopt, window, history
<1>7. step \in {"idle", "emit"}
  OBVIOUS
<1> HIDE DEF p, step
<1>8. Holds(p)
  BY <1>3, <1>4, <1>5 DEF Holds
<1>9. /\ Holds(pad[d])' /\ Holds(disk[d])' /\ Keeps(disk[d].html, pad[d].html)'
      /\ Keeps(disk[d].html, disk'[d].html)
      /\ \A e \in Device \ {d} : pad'[e] = pad[e] /\ disk'[e] = disk[e]
  BY <1>0, <1>3, <1>4, <1>6, <1>8, PersistKeeps
<1>10. sync'[d] = At(step) /\ \A e \in Device \ {d} : sync'[e] = sync[e]
  BY <1>6 DEF Go, TypeOK
<1>11. Kept(d)'
  <2>1. Carries(sync[d])' /\ Keeps(sync[d].snap.html, pad[d].html)'
    BY <1>10 DEF Carries, Holds, Keeps, BlocksKept, At, NoPad, NoRecord
  <2>2. (\A n \in DOMAIN calls[d] : Keeps(calls[d][n].base, calls[d][n].html))'
    BY <1>0, <1>6 DEF Kept, Keeps
  <2> QED BY <1>9, <2>1, <2>2 DEF Kept
<1> QED BY <1>6, <1>9, <1>10, <1>11, OneKeeps

\* What a sync works out over the record as it stands keeps the record's text
\* and the pad's, as both keep the text they come from.
LEMMA ConsiderCarries ==
    ASSUME TextsClosed, BlocksKept, NEW s \in SyncState, record \in Record,
           Holds(s.snap), Once(s.snap.agreed)
    PROVE  /\ Carries(Consider(s, record))
           /\ Consider(s, record).snap \in {s.snap, NoPad}
<1> DEFINE b == Ancestor(s.snap, record)
           want == MergeTexts(b, s.snap.html, record.html)
           step == IF want = record.html /\ record.version > 0 THEN "adopt" ELSE "put"
           r == [s EXCEPT !.pc = step, !.got = record, !.next = want, !.tries = @ + 1]
<1>1. s.snap.html \in Text /\ s.snap.agreed \in Text /\ record.html \in Text /\ Empty \in Text
  BY DEF SyncState, Pad, Record, TextsClosed
<1>2. b \in {Empty, s.snap.agreed}
  BY DEF Ancestor
<1>3. Keeps(b, s.snap.html) /\ Keeps(b, record.html) /\ (b = Empty \/ Once(b)) /\ b \in Text
  <2>1. CASE b = Empty
    BY <1>1, <2>1 DEF Keeps, BlocksKept
  <2>2. CASE b = s.snap.agreed
    BY <1>1, <2>2 DEF Holds
  <2> QED BY <1>2, <2>1, <2>2
<1> HIDE DEF b
<1>4. Keeps(record.html, want) /\ Keeps(s.snap.html, want)
  BY <1>1, <1>3, MergeKeeps
<1>5. step = "adopt" => want = record.html
  OBVIOUS
<1>6. step \in {"adopt", "put"}
  OBVIOUS
<1>7. CASE InStep(s.snap, record)
  <2>1. Consider(s, record) = At("idle")
    BY <1>7 DEF Consider
  <2>2. Carries(At("idle")) /\ At("idle").snap = NoPad
    BY RestingCarries DEF At
  <2> QED BY <2>1, <2>2
<1>8. CASE ~InStep(s.snap, record)
  <2>1. Consider(s, record) = r
    BY <1>8 DEF Consider, b
  <2> HIDE DEF want, step
  <2>2. r.pc = step /\ r.got = record /\ r.next = want /\ r.snap = s.snap
    BY DEF SyncState
  <2> HIDE DEF r
  <2>3. Keeps(record.html, record.html)
    BY DEF Keeps
  <2>4. Carries(r)
    BY <1>4, <1>5, <1>6, <2>2, <2>3 DEF Carries
  <2> QED BY <2>1, <2>2, <2>4
<1> QED BY <1>7, <1>8

\* A step of the sync of d that moves only the sync.
LEMMA MovedKeeps ==
    ASSUME TypeOK, BlocksKept, TextInv, NEW d \in Device,
           NEW s, Go(d, s), UNCHANGED <<record, pad, disk, calls, erased>>,
           Carries(s), Keeps(s.snap.html, pad[d].html)
    PROVE  TextInv'
<1>0. Kept(d)
  BY DEF TextInv
<1>1. sync'[d] = s /\ \A e \in Device \ {d} : sync'[e] = sync[e]
  BY DEF Go, TypeOK
<1>2. Carries(sync[d])'
  BY <1>1 DEF Carries, Holds, Keeps
<1>3. Keeps(sync[d].snap.html, pad[d].html)'
  BY <1>1 DEF Keeps
<1>4. Holds(pad[d])' /\ Holds(disk[d])' /\ Keeps(disk[d].html, pad[d].html)'
  BY <1>0 DEF Kept, Holds, Keeps
<1>5. (\A n \in DOMAIN calls[d] : Keeps(calls[d][n].base, calls[d][n].html))'
  BY <1>0 DEF Kept, Keeps
<1>6. Kept(d)'
  BY <1>2, <1>3, <1>4, <1>5 DEF Kept
<1> QED BY <1>1, <1>6, OneKeeps

LEMMA SyncKeeps ==
    ASSUME TextsClosed, BlocksKept, TypeOK, Orderly, TextInv, Unrepeated, NEW d \in Device,
           SyncStart(d) \/ Fetch(d) \/ PutConflicts(d) \/ Reread(d) \/ Emit(d) \/ Abort(d)
    PROVE  TextInv'
<1>0. /\ Kept(d) /\ sync[d] \in SyncState /\ record \in Record /\ pad[d] \in Pad
      /\ Once(sync[d].snap.agreed)
  BY DEF TextInv, TypeOK, Unrepeated
<1>1. UNCHANGED <<record, pad, disk, calls, erased>>
  BY DEF SyncStart, Fetch, PutConflicts, Reread, Emit, Abort, window, history
<1>2. CASE SyncStart(d)
  <2> DEFINE s == [At("fetch") EXCEPT !.snap = pad[d]]
  <2>1. s.pc = "fetch" /\ s.snap = pad[d] /\ s.got = NoRecord
    BY DEF At
  <2>2. Go(d, s)
    BY <1>2 DEF SyncStart
  <2> HIDE DEF s
  <2>3. Carries(s)
    BY <1>0, <2>1 DEF Carries, Kept, Keeps, BlocksKept, NoRecord
  <2>4. Keeps(s.snap.html, pad[d].html)
    BY <2>1 DEF Keeps
  <2> QED BY <1>1, <2>2, <2>3, <2>4, MovedKeeps
<1>3. ASSUME Go(d, Consider(sync[d], record)) PROVE TextInv'
  <2>1. Carries(Consider(sync[d], record))
        /\ Consider(sync[d], record).snap \in {sync[d].snap, NoPad}
    BY <1>0, ConsiderCarries DEF Kept, Carries
  <2>2. Keeps(Consider(sync[d], record).snap.html, pad[d].html)
    BY <1>0, <2>1 DEF Kept, Keeps, BlocksKept, NoPad
  <2> QED BY <1>1, <1>3, <2>1, <2>2, MovedKeeps
<1>4. CASE Fetch(d)
  BY <1>3, <1>4 DEF Fetch
<1>5. CASE PutConflicts(d)
  <2> DEFINE s == [sync[d] EXCEPT !.pc = "reread"]
  <2>1. s.pc = "reread" /\ s.snap = sync[d].snap /\ s.got = sync[d].got
        /\ s.next = sync[d].next
    BY <1>0 DEF SyncState
  <2>2. Go(d, s) /\ sync[d].pc = "put"
    BY <1>5 DEF PutConflicts
  <2> HIDE DEF s
  <2>3. Carries(s) /\ Keeps(s.snap.html, pad[d].html)
    BY <1>0, <2>1, <2>2 DEF Carries, Kept
  <2> QED BY <1>1, <2>2, <2>3, MovedKeeps
<1>6. ASSUME Go(d, At("idle")) PROVE TextInv'
  BY <1>1, <1>6, RestingCarries, MovedKeeps
<1>7. CASE Reread(d)
  <2>1. CASE sync[d].tries < 3
    BY <1>3, <1>7, <2>1 DEF Reread
  <2>2. CASE ~(sync[d].tries < 3) /\ record.html # sync[d].next
    BY <1>6, <1>7, <2>2 DEF Reread
  <2>3. CASE ~(sync[d].tries < 3) /\ record.html = sync[d].next
    <3> DEFINE s == [sync[d] EXCEPT !.pc = "adopt", !.got = record]
    <3>1. s.pc = "adopt" /\ s.snap = sync[d].snap /\ s.got = record
      BY <1>0 DEF SyncState
    <3>2. Go(d, s) /\ sync[d].pc = "reread"
      BY <1>7, <2>3 DEF Reread
    <3> HIDE DEF s
    <3>3. Keeps(s.snap.html, s.got.html) /\ Keeps(s.got.html, record.html)
      BY <1>0, <2>3, <3>1, <3>2 DEF Carries, Kept, Keeps
    <3>4. Carries(s) /\ Keeps(s.snap.html, pad[d].html)
      BY <1>0, <3>1, <3>3 DEF Carries, Kept
    <3> QED BY <1>1, <3>2, <3>4, MovedKeeps
  <2> QED BY <2>1, <2>2, <2>3
<1>8. CASE Emit(d) \/ Abort(d)
  BY <1>6, <1>8 DEF Emit, Abort
<1> QED BY <1>2, <1>4, <1>5, <1>7, <1>8

\* The record a write replaces is the one that the sync merged.
LEMMA PutWinsKeeps ==
    ASSUME TypeOK, NamesInv, TextInv, NEW d \in Device, PutWins(d)
    PROVE  TextInv' /\ Keeps(record.html, record'.html)
<1>0. Kept(d) /\ sync[d] \in SyncState
  BY DEF TextInv, TypeOK
<1>1. /\ record' = Written(d) /\ Written(d).html = sync[d].next
      /\ UNCHANGED <<pad, disk, calls, erased>>
  BY DEF PutWins, Written, window, history
<1>2. record.html = sync[d].got.html
  BY DEF PutWins, Wins, NamesInv, Names
<1>3. /\ Keeps(sync[d].got.html, sync[d].next) /\ Keeps(sync[d].snap.html, sync[d].next)
  BY <1>0 DEF Kept, Carries, PutWins
<1>4. record'.html = sync[d].next /\ Keeps(record.html, record'.html)
  BY <1>1, <1>2, <1>3
<1> DEFINE s == [sync[d] EXCEPT !.pc = "answer", !.got = Written(d)]
<1>5. s.pc = "answer" /\ s.got = Written(d) /\ s.snap = sync[d].snap
  BY <1>0 DEF SyncState
<1>6. Go(d, s)
  BY DEF PutWins
<1> HIDE DEF s
<1>7. sync'[d] = s /\ \A e \in Device \ {d} : sync'[e] = sync[e]
  BY <1>6 DEF Go, TypeOK
<1>8. Kept(d)'
  <2>1. Holds(pad[d])' /\ Holds(disk[d])' /\ Keeps(disk[d].html, pad[d].html)'
    BY <1>0, <1>1, <1>4 DEF Kept, Holds, Keeps
  <2>2. Holds(sync[d].snap)'
    BY <1>0, <1>1, <1>4, <1>5, <1>7 DEF Kept, Carries, Holds, Keeps
  <2>3. Keeps(sync[d].got.html, record.html)' /\ Keeps(sync[d].snap.html, sync[d].got.html)'
    BY <1>1, <1>3, <1>4, <1>5, <1>7 DEF Keeps
  <2>4. Carries(sync[d])'
    BY <1>5, <1>7, <2>2, <2>3 DEF Carries
  <2>5. Keeps(sync[d].snap.html, pad[d].html)'
    BY <1>0, <1>1, <1>5, <1>7 DEF Kept, Keeps
  <2>6. (\A n \in DOMAIN calls[d] : Keeps(calls[d][n].base, calls[d][n].html))'
    BY <1>0, <1>1 DEF Kept, Keeps
  <2> QED BY <2>1, <2>4, <2>5, <2>6 DEF Kept
<1>9. ASSUME NEW e \in Device PROVE Kept(e)'
  <2>1. CASE e = d
    BY <1>8, <2>1
  <2>2. CASE e # d
    BY <1>1, <1>4, <1>7, <2>2, OthersKeep
  <2> QED BY <2>1, <2>2
<1> QED BY <1>4, <1>9 DEF TextInv

\* A restart reads the file, which the pad in memory kept.
LEMMA CrashKeeps ==
    ASSUME TypeOK, BlocksKept, TextInv, NEW d \in Device, Crash(d)
    PROVE  TextInv'
<1>0. Kept(d)
  BY DEF TextInv
<1>1. UNCHANGED <<record, disk, erased>> /\ Go(d, At("idle"))
  BY DEF Crash, history
<1>2. /\ pad'[d] = disk[d] /\ calls'[d] = <<Load(legacy[d])>> /\ sync'[d] = At("idle")
      /\ \A e \in Device \ {d} :
           pad'[e] = pad[e] /\ calls'[e] = calls[e] /\ sync'[e] = sync[e]
  BY DEF Crash, Go, TypeOK
<1>3. Holds(pad[d])' /\ Holds(disk[d])' /\ Keeps(disk[d].html, pad[d].html)'
  BY <1>0, <1>1, <1>2 DEF Kept, Holds, Keeps
<1>4. Carries(sync[d])' /\ Keeps(sync[d].snap.html, pad[d].html)'
  BY <1>2 DEF Carries, Holds, Keeps, BlocksKept, At, NoPad, NoRecord
<1>5. ASSUME NEW n \in DOMAIN calls'[d]
      PROVE  Keeps(calls[d][n].base, calls[d][n].html)'
  <2>1. calls'[d][n].base = Empty
    BY <1>2 DEF Load
  <2> QED BY <2>1 DEF Keeps, BlocksKept
<1>6. Kept(d)'
  BY <1>3, <1>4, <1>5 DEF Kept
<1> QED BY <1>1, <1>2, <1>6, OneKeeps

\* The calls that a window has settled are gone; nothing else moves.
LEMMA SettledKeeps ==
    ASSUME TypeOK, Orderly, TextInv, NEW d \in Device, Settle(d) \/ Deliver(d)
    PROVE  TextInv'
<1>0. Kept(d) /\ calls[d] \in Seq(Call)
  BY DEF TextInv, TypeOK
<1>1. UNCHANGED <<record, pad, disk, sync, erased>>
  BY DEF Settle, Deliver, history
<1>2. /\ calls'[d] = calls[d] \/ (calls[d] # <<>> /\ calls'[d] = Tail(calls[d]))
      /\ \A e \in Device \ {d} : calls'[e] = calls[e]
  BY DEF Settle, Deliver, Orderly, TypeOK
<1>3. ASSUME NEW n \in DOMAIN calls'[d]
      PROVE  \E m \in DOMAIN calls[d] : calls'[d][n] = calls[d][m]
  <2>1. CASE calls'[d] = calls[d]
    BY <2>1
  <2>2. CASE calls[d] # <<>> /\ calls'[d] = Tail(calls[d])
    <3>1. n \in 1..(Len(calls[d]) - 1) /\ Tail(calls[d])[n] = calls[d][n + 1]
      BY <1>0, <2>2
    <3>2. n + 1 \in DOMAIN calls[d]
      BY <1>0, <3>1
    <3> QED BY <2>2, <3>1, <3>2
  <2> QED BY <1>2, <2>1, <2>2
<1>4. (\A n \in DOMAIN calls[d] : Keeps(calls[d][n].base, calls[d][n].html))'
  BY <1>0, <1>1, <1>3 DEF Kept, Keeps
<1>5. Kept(d)'
  <2>1. Holds(pad[d])' /\ Holds(disk[d])' /\ Carries(sync[d])'
    BY <1>0, <1>1 DEF Kept, Carries, Holds, Keeps
  <2>2. Keeps(disk[d].html, pad[d].html)' /\ Keeps(sync[d].snap.html, pad[d].html)'
    BY <1>0, <1>1 DEF Kept, Keeps
  <2> QED BY <1>4, <2>1, <2>2 DEF Kept
<1> QED BY <1>1, <1>2, <1>5, OneKeeps

LEMMA NextKeeps ==
    ASSUME TextsClosed, BlocksKept, TypeOK, Orderly, NamesInv, TextInv, Unrepeated, [Next]_vars
    PROVE  TextInv'
<1>1. CASE UNCHANGED vars
  <2>1. UNCHANGED <<record, pad, disk, calls, sync, erased>>
    BY <1>1 DEF vars, window, history
  <2>2. ASSUME NEW d \in Device PROVE Kept(d)'
    <3>1. Kept(d)
      BY DEF TextInv
    <3> QED BY <2>1, <3>1 DEF Kept, Carries, Holds, Keeps
  <2> QED BY <2>2 DEF TextInv
<1>2. CASE Next
  BY <1>2, TypeKeeps, SettledKeeps, LoadKeeps, SaveKeeps, AdoptKeeps, SyncKeeps,
     PutWinsKeeps, CrashKeeps DEF Next
<1> QED BY <1>1, <1>2

\* What one step leaves in the record and in the files.
LEMMA StepKeeps ==
    ASSUME TextsClosed, BlocksKept, TypeOK, NamesInv, TextInv, Unrepeated, [Next]_vars
    PROVE  /\ Blocks(record.html) \ erased' \subseteq Blocks(record'.html)
           /\ \A d \in Device :
                Blocks(disk[d].html) \ erased' \subseteq Blocks(disk'[d].html)
<1>1. erased \subseteq erased'
  <2>1. ASSUME NEW d \in Device, Type(d) PROVE erased \subseteq erased'
    BY <2>1 DEF Type
  <2>2. ASSUME NEW d \in Device, NEW ok \in BOOLEAN,
               RunLoad(d, ok) \/ RunSave(d, ok) \/ Adopt(d, ok)
        PROVE  erased' = erased
    BY <2>2 DEF RunLoad, RunSave, Adopt, history
  <2>3. ASSUME NEW d \in Device,
               \/ Settle(d) \/ Deliver(d) \/ SyncStart(d) \/ Fetch(d) \/ PutWins(d)
               \/ PutConflicts(d) \/ Reread(d) \/ Emit(d) \/ Abort(d) \/ Crash(d)
        PROVE  erased' = erased
    BY <2>3 DEF Settle, Deliver, SyncStart, Fetch, PutWins, PutConflicts, Reread, Emit,
                Abort, Crash, history
  <2>4. CASE UNCHANGED vars
    BY <2>4 DEF vars, history
  <2> QED BY <2>1, <2>2, <2>3, <2>4 DEF Next
<1>2. ASSUME NEW d \in Device, PutWins(d)
      PROVE  Keeps(record.html, record'.html) /\ disk' = disk
  <2>1. Keeps(record.html, record'.html)
    BY <1>2, PutWinsKeeps
  <2>2. disk' = disk
    BY <1>2 DEF PutWins
  <2> QED BY <2>1, <2>2
<1>3. ASSUME NEW d \in Device, NEW ok \in BOOLEAN,
             RunLoad(d, ok) \/ RunSave(d, ok) \/ Adopt(d, ok)
      PROVE  record' = record /\ \A e \in Device : Keeps(disk[e].html, disk'[e].html)
  <2>1. Keeps(disk[d].html, disk'[d].html)
    BY <1>3, LoadKeeps, SaveKeeps, AdoptKeeps
  <2>2. record' = record
    BY <1>3 DEF RunLoad, RunSave, Adopt
  <2>3. \A e \in Device \ {d} : disk'[e] = disk[e]
    BY <1>3 DEF RunLoad, RunSave, Adopt, Persist, TypeOK
  <2> QED BY <2>1, <2>2, <2>3 DEF Keeps
<1>4. CASE UNCHANGED <<record, disk>>
  BY <1>4
<1>5. \/ UNCHANGED <<record, disk>>
      \/ \E d \in Device : PutWins(d)
      \/ \E d \in Device, ok \in BOOLEAN : RunLoad(d, ok) \/ RunSave(d, ok) \/ Adopt(d, ok)
  <2>1. ASSUME NEW d \in Device,
               \/ Type(d) \/ Settle(d) \/ Deliver(d) \/ SyncStart(d) \/ Fetch(d)
               \/ PutConflicts(d) \/ Reread(d) \/ Emit(d) \/ Abort(d) \/ Crash(d)
        PROVE  UNCHANGED <<record, disk>>
    BY <2>1 DEF Type, Settle, Deliver, SyncStart, Fetch, PutConflicts, Reread, Emit, Abort, Crash
  <2>2. CASE UNCHANGED vars
    BY <2>2 DEF vars
  <2> QED BY <2>1, <2>2 DEF Next
<1> QED BY <1>1, <1>2, <1>3, <1>4, <1>5 DEF Keeps

\* A block that the record or a device's file holds stays in it until a user
\* takes it out of an editor, for any merge that holds what either side wrote and
\* what both kept, in every run that merges from no text that says a block twice
\* (Pad.Save, Pad.Load, Pad.adopt and the loop of Pad.Sync).
THEOREM TextsStay == TextsClosed /\ BlocksKept => (Spec /\ []Unrepeated => TextStays)
<1> SUFFICES ASSUME TextsClosed, BlocksKept PROVE Spec /\ []Unrepeated => TextStays
  OBVIOUS
<1> DEFINE Inv == TypeOK /\ Orderly /\ NamesInv /\ TextInv
<1>1. Init => Inv
  BY InitTyped, InitNames, InitKeeps
<1>2. Inv /\ Unrepeated /\ [Next]_vars => Inv'
  BY NextTyped, NextNames, NextKeeps
<1>3. Inv /\ Unrepeated /\ [Next]_vars
      => [/\ Blocks(record.html) \ erased' \subseteq Blocks(record'.html)
          /\ \A d \in Device : Blocks(disk[d].html) \ erased' \subseteq Blocks(disk'[d].html)]_vars
  BY StepKeeps
<1> QED BY <1>1, <1>2, <1>3, PTL DEF Spec, TextStays
=============================================================================
