--------------------------- MODULE EntrySyncProofs ---------------------------
(***************************************************************************)
(* Proofs about EntrySync, for every set of devices and bodies and every   *)
(* bound: type correctness, that a cloud tombstone stands until a user     *)
(* undoes the deletion, and that a recorded deletion and a recorded        *)
(* restoration are remembered until they are carried out.                  *)
(***************************************************************************)
EXTENDS EntrySync, WellFoundedInduction, TLAPS

-----------------------------------------------------------------------------
(* Arithmetic and sequences *)

\* A start cut to the minute is a start no later.
LEMMA MinuteType == ASSUME NEW s \in Start PROVE Minute(s) \in Start
<1>1. s \in Nat /\ PerMinute \in Nat \ {0} /\ s <= MaxStart
  BY BoundsAssumption DEF Start
<1>2. s % PerMinute \in 0..(PerMinute - 1)
  BY <1>1
<1>3. s % PerMinute <= s
  <2>1. CASE s < PerMinute
    BY <1>1, <2>1
  <2>2. CASE s >= PerMinute
    BY <1>1, <1>2, <2>2
  <2> QED BY <1>1, <2>1, <2>2
<1> QED BY <1>1, <1>2, <1>3, BoundsAssumption DEF Minute, Start

LEMMA IdType == ASSUME NEW row \in Row PROVE IdOf(row) \in Id
BY MinuteType DEF IdOf, Id, Row

\* Two runs of intents one after the other: their elements are those of either.
LEMMA Concatenated ==
    ASSUME NEW s \in Seq(Intent), NEW t \in Seq(Intent)
    PROVE  /\ s \o t \in Seq(Intent)
           /\ \A n \in DOMAIN (s \o t) :
                \/ \E m \in DOMAIN s : (s \o t)[n] = s[m]
                \/ \E m \in DOMAIN t : (s \o t)[n] = t[m]
<1>1. s \o t \in Seq(Intent)
  OBVIOUS
<1>2. ASSUME NEW n \in DOMAIN (s \o t)
      PROVE  \/ \E m \in DOMAIN s : (s \o t)[n] = s[m]
             \/ \E m \in DOMAIN t : (s \o t)[n] = t[m]
  <2>1. n \in 1..(Len(s) + Len(t))
    OBVIOUS
  <2>2. CASE n <= Len(s)
    BY <2>1, <2>2
  <2>3. CASE n > Len(s)
    <3>1. n - Len(s) \in 1..Len(t) /\ (s \o t)[n] = t[n - Len(s)]
      BY <2>1, <2>3
    <3> QED BY <3>1
  <2> QED BY <2>1, <2>2, <2>3
<1> QED BY <1>1, <1>2

\* What is left of a queue when its head is taken.
LEMMA TailElements ==
    ASSUME NEW s \in Seq(Intent), s # <<>>
    PROVE  /\ Head(s) \in Intent /\ Tail(s) \in Seq(Intent)
           /\ 1 \in DOMAIN s /\ Head(s) = s[1]
           /\ \A n \in DOMAIN Tail(s) : \E m \in DOMAIN s : Tail(s)[n] = s[m]
<1>1. Head(s) \in Intent /\ Tail(s) \in Seq(Intent) /\ Head(s) = s[1]
  OBVIOUS
<1>2. 1 \in DOMAIN s
  OBVIOUS
<1>3. ASSUME NEW n \in DOMAIN Tail(s)
      PROVE  \E m \in DOMAIN s : Tail(s)[n] = s[m]
  <2>1. n \in 1..(Len(s) - 1) /\ Tail(s)[n] = s[n + 1]
    OBVIOUS
  <2>2. n + 1 \in DOMAIN s
    BY <2>1
  <2> QED BY <2>1, <2>2
<1> QED BY <1>1, <1>2, <1>3

\* A deletion queues the tombstone of its row and nothing that brings it back.
LEMMA DeletionIntents ==
    ASSUME NEW row \in Row \cup {None}
    PROVE  /\ Deletion(row) \in Seq(Intent)
           /\ \A n \in DOMAIN Deletion(row) :
                /\ Deletion(row)[n].op \in {"tomb", "unrestore"}
                /\ Deletion(row)[n].id \in Ids(row)
<1>1. CASE row = None
  BY <1>1 DEF Deletion
<1>2. CASE row # None
  <2>1. IdOf(row) \in Id
    BY <1>2, IdType
  <2>2. [op |-> "tomb", id |-> IdOf(row)] \in Intent
        /\ [op |-> "unrestore", id |-> IdOf(row)] \in Intent
    BY <2>1 DEF Intent
  <2> QED BY <1>2, <2>2 DEF Deletion, Ids
<1> QED BY <1>1, <1>2

\* A restoration queues intents about its own row only.
LEMMA RestorationIntents ==
    ASSUME NEW row \in Row \cup {None}
    PROVE  /\ Restoration(row) \in Seq(Intent)
           /\ \A n \in DOMAIN Restoration(row) :
                /\ Restoration(row)[n].op \in {"restore", "untomb"}
                /\ Restoration(row)[n].id \in Ids(row)
<1>1. CASE row = None
  BY <1>1 DEF Restoration
<1>2. CASE row # None
  <2>1. IdOf(row) \in Id
    BY <1>2, IdType
  <2>2. [op |-> "restore", id |-> IdOf(row)] \in Intent
        /\ [op |-> "untomb", id |-> IdOf(row)] \in Intent
    BY <2>1 DEF Intent
  <2> QED BY <1>2, <2>2 DEF Restoration, Ids
<1> QED BY <1>1, <1>2

-----------------------------------------------------------------------------
(* Type correctness *)

LEMMA RowAtType ==
    ASSUME TypeOK, NEW d \in Device, NEW s \in Start, local[d][s] # None
    PROVE  RowAt(d, s) \in Row
BY DEF RowAt, Row, TypeOK

LEMMA IdsType == ASSUME NEW row \in Row \cup {None} PROVE Ids(row) \subseteq Id
BY IdType DEF Ids

\* The log after a command holds bodies where it holds anything.
LEMMA ReplaceType ==
    ASSUME TypeOK, NEW d \in Device,
           NEW removed \in Row \cup {None}, NEW created \in Row \cup {None}
    PROVE  Replace(d, removed, created) \in [Start -> Body \cup {None}]
<1>1. ASSUME NEW s \in Start
      PROVE  Replace(d, removed, created)[s] \in Body \cup {None}
  <2>1. local[d][s] \in Body \cup {None}
    BY DEF TypeOK
  <2>2. created # None => created.body \in Body
    BY DEF Row
  <2> QED BY <2>1, <2>2 DEF Replace
<1> QED BY <1>1 DEF Replace

LEMMA CommandType ==
    ASSUME TypeOK, NEW d \in Device,
           NEW removed \in Row \cup {None}, NEW created \in Row \cup {None},
           NEW intents \in Seq(Intent),
           Command(d, removed, created, intents),
           journal' \in [Device -> Change \cup {None}],
           revived' \in SUBSET Id
    PROVE  TypeOK'
<1>1. local' \in [Device -> [Start -> Body \cup {None}]]
  BY ReplaceType DEF Command, TypeOK
<1>2. queue' \in [Device -> Seq(Intent)]
  BY DEF Command, TypeOK
<1>3. ops' \in 0..MaxOps
  BY BoundsAssumption DEF Command, MayCommand, TypeOK
<1>4. owed' \in [Device -> SUBSET Id] /\ due' \in [Device -> SUBSET Id]
  BY DEF Command, TypeOK
<1> QED BY <1>1, <1>2, <1>3, <1>4 DEF TypeOK, Command, files, memory

LEMMA JournalType ==
    ASSUME TypeOK, NEW d \in Device,
           NEW removed \in Row \cup {None}, NEW created \in Row \cup {None},
           Journal(d, removed, created)
    PROVE  journal' \in [Device -> Change \cup {None}]
<1>1. [removed |-> removed, created |-> created, undone |-> FALSE] \in Change
  BY DEF Change
<1> QED BY <1>1 DEF Journal, TypeOK

\* The intents of an undo are intents, and those that restore or drop a
\* tombstone are about the row it brings back.
UndoIntents(c) ==
    IF c.removed # None /\ c.created # None /\ c.removed.start # c.created.start /\ ~c.undone
    THEN Restoration(c.removed) \o Deletion(c.created)
    ELSE Deletion(c.created) \o Restoration(c.removed)

LEMMA UndoIntentsType ==
    ASSUME NEW c \in Change
    PROVE  /\ UndoIntents(c) \in Seq(Intent)
           /\ \A n \in DOMAIN UndoIntents(c) :
                UndoIntents(c)[n].op \in {"restore", "untomb"}
                => UndoIntents(c)[n].id \in Ids(c.removed)
<1>1. c.removed \in Row \cup {None} /\ c.created \in Row \cup {None}
  BY DEF Change
<1> DEFINE s == Restoration(c.removed)
           t == Deletion(c.created)
<1>2. /\ s \in Seq(Intent)
      /\ \A n \in DOMAIN s : s[n].id \in Ids(c.removed)
  BY <1>1, RestorationIntents
<1>3. /\ t \in Seq(Intent)
      /\ \A n \in DOMAIN t : t[n].op \in {"tomb", "unrestore"}
  BY <1>1, DeletionIntents
<1>4. UndoIntents(c) = s \o t \/ UndoIntents(c) = t \o s
  BY DEF UndoIntents
<1> HIDE DEF s, t
<1>5. ASSUME NEW a \in Seq(Intent), NEW b \in Seq(Intent), UndoIntents(c) = a \o b,
             \A n \in DOMAIN a : a[n].op \in {"restore", "untomb"} => a[n].id \in Ids(c.removed),
             \A n \in DOMAIN b : b[n].op \in {"restore", "untomb"} => b[n].id \in Ids(c.removed)
      PROVE  /\ UndoIntents(c) \in Seq(Intent)
             /\ \A n \in DOMAIN UndoIntents(c) :
                  UndoIntents(c)[n].op \in {"restore", "untomb"}
                  => UndoIntents(c)[n].id \in Ids(c.removed)
  BY <1>5, Concatenated
<1>6. \A n \in DOMAIN t : t[n].op \in {"restore", "untomb"} => t[n].id \in Ids(c.removed)
  BY <1>3
<1> QED BY <1>2, <1>3, <1>4, <1>5, <1>6

\* ... and those that withdraw a restoration are about the row it takes away.
LEMMA UndoIntentsDrop ==
    ASSUME NEW c \in Change
    PROVE  \A n \in DOMAIN UndoIntents(c) :
               UndoIntents(c)[n].op = "unrestore" => UndoIntents(c)[n].id \in Ids(c.created)
<1>1. c.removed \in Row \cup {None} /\ c.created \in Row \cup {None}
  BY DEF Change
<1> DEFINE s == Restoration(c.removed)
           t == Deletion(c.created)
<1>2. /\ s \in Seq(Intent)
      /\ \A n \in DOMAIN s : s[n].op \in {"restore", "untomb"}
  BY <1>1, RestorationIntents
<1>3. /\ t \in Seq(Intent)
      /\ \A n \in DOMAIN t : t[n].id \in Ids(c.created)
  BY <1>1, DeletionIntents
<1>4. UndoIntents(c) = s \o t \/ UndoIntents(c) = t \o s
  BY DEF UndoIntents
<1> HIDE DEF s, t
<1>5. ASSUME NEW a \in Seq(Intent), NEW b \in Seq(Intent), UndoIntents(c) = a \o b,
             \A n \in DOMAIN a : a[n].op = "unrestore" => a[n].id \in Ids(c.created),
             \A n \in DOMAIN b : b[n].op = "unrestore" => b[n].id \in Ids(c.created)
      PROVE  \A n \in DOMAIN UndoIntents(c) :
                 UndoIntents(c)[n].op = "unrestore" => UndoIntents(c)[n].id \in Ids(c.created)
  BY <1>5, Concatenated
<1>6. \A n \in DOMAIN s : s[n].op = "unrestore" => s[n].id \in Ids(c.created)
  BY <1>2
<1> QED BY <1>2, <1>3, <1>4, <1>5, <1>6

LEMMA UndoCommand ==
    ASSUME TypeOK, NEW d \in Device, UserUndo(d)
    PROVE  /\ journal[d] \in Change
           /\ Command(d, journal[d].created, journal[d].removed, UndoIntents(journal[d]))
           /\ journal' = [journal EXCEPT ![d] =
                [removed |-> journal[d].created, created |-> journal[d].removed,
                 undone |-> ~journal[d].undone]]
           /\ revived' = revived \cup Ids(journal[d].removed)
<1>1. journal[d] \in Change
  BY DEF UserUndo, TypeOK
<1> QED BY <1>1 DEF UserUndo, UndoIntents

LEMMA UserType ==
    ASSUME TypeOK, NEW d \in Device, User(d)
    PROVE  TypeOK'
<1>1. ASSUME NEW row \in Row, UserAdd(d, row) PROVE TypeOK'
  <2>1. journal' \in [Device -> Change \cup {None}]
    BY <1>1, JournalType DEF UserAdd
  <2>2. revived' \in SUBSET Id /\ Command(d, None, row, <<>>) /\ <<>> \in Seq(Intent)
    BY <1>1 DEF UserAdd, TypeOK
  <2> QED BY <2>1, <2>2, CommandType
<1>2. ASSUME NEW s \in Start, NEW created \in Row \cup {None}, local[d][s] # None,
             Command(d, RowAt(d, s), created, Deletion(RowAt(d, s))),
             Journal(d, RowAt(d, s), created), UNCHANGED revived
      PROVE  TypeOK'
  <2>1. RowAt(d, s) \in Row
    BY <1>2, RowAtType
  <2>2. journal' \in [Device -> Change \cup {None}]
    BY <1>2, <2>1, JournalType
  <2>3. revived' \in SUBSET Id
    BY <1>2 DEF TypeOK
  <2>4. Deletion(RowAt(d, s)) \in Seq(Intent)
    BY <2>1, DeletionIntents
  <2> QED BY <1>2, <2>1, <2>2, <2>3, <2>4, CommandType
<1>3. ASSUME UserUndo(d) PROVE TypeOK'
  <2> DEFINE c == journal[d]
  <2>1. /\ c \in Change
        /\ Command(d, c.created, c.removed, UndoIntents(c))
        /\ journal' = [journal EXCEPT ![d] =
             [removed |-> c.created, created |-> c.removed, undone |-> ~c.undone]]
        /\ revived' = revived \cup Ids(c.removed)
    BY <1>3, UndoCommand
  <2>2. c.removed \in Row \cup {None} /\ c.created \in Row \cup {None}
    BY <2>1 DEF Change
  <2>3. [removed |-> c.created, created |-> c.removed, undone |-> ~c.undone] \in Change
    BY <2>1, <2>2 DEF Change
  <2>4. journal' \in [Device -> Change \cup {None}]
    BY <2>1, <2>3 DEF TypeOK
  <2>5. revived' \in SUBSET Id
    BY <2>1, <2>2, IdsType DEF TypeOK
  <2>6. UndoIntents(c) \in Seq(Intent)
    BY <2>1, UndoIntentsType
  <2> HIDE DEF c
  <2> QED BY <2>1, <2>2, <2>4, <2>5, <2>6, CommandType
<1> QED BY <1>1, <1>2, <1>3 DEF User, UserEdit, UserRemove

LEMMA RecordType ==
    ASSUME TypeOK, NEW d \in Device, Record(d)
    PROVE  TypeOK'
<1>1. queue[d] \in Seq(Intent) /\ queue[d] # <<>>
  BY DEF Record, TypeOK
<1>2. Head(queue[d]) \in Intent /\ Tail(queue[d]) \in Seq(Intent)
  BY <1>1, TailElements
<1>3. Head(queue[d]).id \in Id
  BY <1>2 DEF Intent
<1>4. tombs' \in [Device -> SUBSET Id]
  BY <1>3 DEF Record, TypeOK
<1>5. restores' \in [Device -> SUBSET Id]
  BY <1>3 DEF Record, TypeOK
<1>6. owed' \in [Device -> SUBSET Id]
  BY <1>3 DEF Record, TypeOK
<1>7. due' \in [Device -> SUBSET Id]
  BY <1>3 DEF Record, TypeOK
<1>8. queue' \in [Device -> Seq(Intent)]
  BY <1>2 DEF Record, TypeOK
<1> QED BY <1>4, <1>5, <1>6, <1>7, <1>8 DEF Record, TypeOK, memory

\* The row indexed under an id is one of the log's.
LEMMA LeastStart ==
    ASSUME NEW T \in SUBSET Start, T # {}
    PROVE  \E s \in T : \A r \in T : s <= r
<1> DEFINE R == OpToRel(<, Nat)
<1>1. \A x \in Nat : \A y \in Nat : <<y, x>> \in R <=> y < x
  BY DEF OpToRel
<1>2. IsWellFoundedOn(R, Nat)
  BY NatLessThanWellFounded
<1>3. T \subseteq Nat
  BY BoundsAssumption DEF Start
<1> HIDE DEF R
<1>4. PICK s \in T : \A r \in T : ~ (<<r, s>> \in R)
  BY <1>2, <1>3, WFMin
<1>5. ASSUME NEW r \in T PROVE s <= r
  <2>1. r \in Nat /\ s \in Nat
    BY <1>3
  <2>2. ~ (<<r, s>> \in R)
    BY <1>4
  <2>3. ~ (r < s)
    BY <1>1, <2>1, <2>2
  <2> QED BY <2>1, <2>3
<1> QED BY <1>5

LEMMA IndexedRow ==
    ASSUME TypeOK, NEW d \in Device, NEW i \in Id
    PROVE  /\ Indexed(d)[i] \in Start \cup {None}
           /\ Indexed(d)[i] # None => i \in LogIds(d)
           /\ i \in LogIds(d) => Indexed(d)[i] # None
<1> DEFINE starts == {s \in Start : local[d][s] # None /\ IdOf(RowAt(d, s)) = i}
<1>1. Indexed(d)[i] = IF starts = {} THEN None
                      ELSE CHOOSE s \in starts : \A r \in starts : s <= r
  BY DEF Indexed
<1>2. i \in LogIds(d) <=> starts # {}
  BY DEF LogIds
<1>3. CASE starts = {}
  BY <1>1, <1>2, <1>3
<1>4. CASE starts # {}
  <2>1. starts \in SUBSET Start
    OBVIOUS
  <2> HIDE DEF starts
  <2>2. Indexed(d)[i] \in starts
    BY <1>1, <1>4, <2>1, LeastStart
  <2>3. Indexed(d)[i] \in Start
    BY <2>1, <2>2
  <2> QED BY <1>2, <1>4, <2>3, NoneAssumption
<1> QED BY <1>3, <1>4

LEMMA IndexedType ==
    ASSUME TypeOK, NEW d \in Device
    PROVE  Indexed(d) \in [Id -> Start \cup {None}]
<1>1. \A i \in Id : Indexed(d)[i] \in Start \cup {None}
  BY IndexedRow
<1>2. Indexed(d) = [i \in Id |-> Indexed(d)[i]]
  BY DEF Indexed
<1> QED BY <1>1, <1>2

\* A loop over ids, and a return, leave the sync's place and work well formed.
LEMMA LoopType ==
    ASSUME TypeOK, NEW d \in Device, NEW ids \in SUBSET Id,
           NEW body \in Steps, NEW next \in Steps, Loop(d, ids, body, next)
    PROVE  pc' \in [Device -> Steps] /\ todo' \in [Device -> SUBSET Id]
<1>1. pc' \in [Device -> Steps]
  BY DEF Loop, Goto, TypeOK
<1>2. todo' \in [Device -> SUBSET Id]
  BY DEF Loop, TypeOK
<1> QED BY <1>1, <1>2

LEMMA ReturnType ==
    ASSUME TypeOK, NEW d \in Device, Return(d)
    PROVE  /\ pc' \in [Device -> Steps] /\ todo' \in [Device -> SUBSET Id]
           /\ read' \in [Device -> Memory]
<1>1. "idle" \in Steps
  BY DEF Steps
<1>2. Unread \in Memory
  BY DEF Unread, Memory, CloudRow
<1> QED BY <1>1, <1>2 DEF Return, Goto, TypeOK

\* What the sync holds in memory, one part of it rewritten.
LEMMA ReadFields ==
    ASSUME TypeOK, NEW d \in Device
    PROVE  /\ read[d].tombs \in SUBSET Id
           /\ read[d].restores \in SUBSET Id
           /\ read[d].log \in [Id -> Start \cup {None}]
           /\ read[d].rows \in [Id -> CloudRow]
           /\ Indices(d) \in SUBSET Id /\ Live(d) \in SUBSET Id
           /\ todo[d] \in SUBSET Id
BY DEF TypeOK, Memory, Indices, Live

LEMMA ReadType ==
    ASSUME TypeOK, NEW d \in Device
    PROVE  /\ \A T \in SUBSET Id : [read EXCEPT ![d].tombs = T] \in [Device -> Memory]
           /\ \A T \in SUBSET Id : [read EXCEPT ![d].restores = T] \in [Device -> Memory]
           /\ \A f \in [Id -> Start \cup {None}] :
                [read EXCEPT ![d].log = f] \in [Device -> Memory]
           /\ \A i \in Id, s \in Start \cup {None} :
                [read EXCEPT ![d].log[i] = s] \in [Device -> Memory]
           /\ \A f \in [Id -> CloudRow] :
                [read EXCEPT ![d].rows = f] \in [Device -> Memory]
<1> DEFINE m == read[d]
<1>0. m \in Memory /\ read \in [Device -> Memory]
  BY DEF TypeOK
<1>1. ASSUME NEW T \in SUBSET Id PROVE [m EXCEPT !.tombs = T] \in Memory
  BY <1>0 DEF Memory
<1>2. ASSUME NEW T \in SUBSET Id PROVE [m EXCEPT !.restores = T] \in Memory
  BY <1>0 DEF Memory
<1>3. ASSUME NEW f \in [Id -> Start \cup {None}] PROVE [m EXCEPT !.log = f] \in Memory
  BY <1>0 DEF Memory
<1>4. ASSUME NEW i \in Id, NEW s \in Start \cup {None}
      PROVE  [m EXCEPT !.log[i] = s] \in Memory
  <2>1. [m.log EXCEPT ![i] = s] \in [Id -> Start \cup {None}]
    BY <1>0 DEF Memory
  <2> QED BY <1>0, <2>1 DEF Memory
<1>5. ASSUME NEW f \in [Id -> CloudRow] PROVE [m EXCEPT !.rows = f] \in Memory
  BY <1>0 DEF Memory
<1> QED BY <1>0, <1>1, <1>2, <1>3, <1>4, <1>5

\* The steps that only read.
LEMMA ReadStepsType ==
    ASSUME TypeOK, NEW d \in Device,
           ReadTombs(d) \/ ReadRestores(d) \/ ReadLog(d) \/ GetEntries(d)
    PROVE  TypeOK'
<1> USE DEF memory, files, history
<1>0. pc' \in [Device -> Steps] /\ todo' \in [Device -> SUBSET Id]
  <2>1. CASE GetEntries(d)
    <3>1. {i \in Indices(d) : cloud[i] = "deleted"} \in SUBSET Id
      BY ReadFields
    <3>2. "remove" \in Steps /\ "prune" \in Steps
      BY DEF Steps
    <3> QED BY <2>1, <3>1, <3>2, LoopType DEF GetEntries
  <2>2. CASE ReadTombs(d) \/ ReadRestores(d) \/ ReadLog(d)
    <3>1. {"restores", "log", "staleTombs"} \subseteq Steps
      BY DEF Steps
    <3>2. todo' = todo /\ \E step \in Steps : Goto(d, step)
      BY <2>2, <3>1 DEF ReadTombs, ReadRestores, ReadLog
    <3> QED BY <3>2 DEF Goto, TypeOK
  <2> QED BY <2>1, <2>2
<1>1. tombs[d] \in SUBSET Id /\ restores[d] \in SUBSET Id /\ cloud \in [Id -> CloudRow]
  BY DEF TypeOK
<1>2. read' \in [Device -> Memory]
  <2>1. CASE ReadTombs(d)
    BY <1>1, <2>1, ReadType DEF ReadTombs
  <2>2. CASE ReadRestores(d)
    BY <1>1, <2>2, ReadType DEF ReadRestores
  <2>3. CASE ReadLog(d)
    BY <2>3, IndexedType, ReadType DEF ReadLog
  <2>4. CASE GetEntries(d)
    BY <1>1, <2>4, ReadType DEF GetEntries
  <2> QED BY <2>1, <2>2, <2>3, <2>4
<1>3. UNCHANGED <<cloud, local, tombs, restores, queue, journal, ops, fails, revived, owed, due>>
  BY DEF ReadTombs, ReadRestores, ReadLog, GetEntries
<1> QED BY <1>0, <1>2, <1>3 DEF TypeOK

\* The steps that rewrite the files or only remember.
LEMMA FileStepsType ==
    ASSUME TypeOK, NEW d \in Device,
           DropStaleTombs(d) \/ DropStaleRestores(d) \/ Prune(d) \/ Confirm(d)
    PROVE  TypeOK'
<1> USE DEF memory, files, history
<1>0. /\ read[d].tombs \in SUBSET Id /\ read[d].restores \in SUBSET Id
      /\ Indices(d) \in SUBSET Id /\ Live(d) \in SUBSET Id
  BY ReadFields
<1>1. {"staleRestores", "restore", "push", "add", "confirm"} \subseteq Steps
  BY DEF Steps
<1>2. ASSUME DropStaleTombs(d) PROVE TypeOK'
  <2>1. tombs' \in [Device -> SUBSET Id]
    BY <1>2 DEF DropStaleTombs, TypeOK
  <2>2. read' \in [Device -> Memory]
    <3>1. read' = [read EXCEPT ![d].tombs = read[d].tombs \ Indices(d)]
      BY <1>2 DEF DropStaleTombs
    <3> QED BY <1>0, <3>1, ReadType
  <2>3. pc' \in [Device -> Steps]
    BY <1>1, <1>2 DEF DropStaleTombs, Goto, TypeOK
  <2> QED BY <1>2, <2>1, <2>2, <2>3 DEF DropStaleTombs, TypeOK
<1>3. ASSUME DropStaleRestores(d) PROVE TypeOK'
  <2>1. restores' \in [Device -> SUBSET Id]
    BY <1>3 DEF DropStaleRestores, TypeOK
  <2>2. read' \in [Device -> Memory]
    <3>1. read' = [read EXCEPT ![d].restores = read[d].restores \cap Indices(d)]
      BY <1>3 DEF DropStaleRestores
    <3> QED BY <1>0, <3>1, ReadType
  <2>3. pc' \in [Device -> Steps] /\ todo' \in [Device -> SUBSET Id]
    <3>1. read[d].restores \cap Indices(d) \in SUBSET Id
      BY <1>0
    <3> QED BY <1>1, <1>3, <3>1, LoopType DEF DropStaleRestores
  <2> QED BY <1>3, <2>1, <2>2, <2>3 DEF DropStaleRestores, TypeOK
<1>4. ASSUME Prune(d) PROVE TypeOK'
  <2> DEFINE missing == Live(d) \ (Indices(d) \cup read[d].tombs)
  <2>1. tombs' \in [Device -> SUBSET Id]
    BY <1>4 DEF Prune, TypeOK
  <2>2. missing \in SUBSET Id
    BY <1>0
  <2>3. /\ pc' \in [Device -> Steps] /\ todo' \in [Device -> SUBSET Id]
        /\ read' \in [Device -> Memory]
    <3>1. CASE Return(d)
      BY <3>1, ReturnType
    <3>2. CASE Loop(d, missing, "add", "confirm") /\ UNCHANGED read
      <4>1. read' \in [Device -> Memory]
        BY <3>2 DEF TypeOK
      <4> HIDE DEF missing
      <4> QED BY <1>1, <2>2, <3>2, <4>1, LoopType
    <3> QED BY <1>4, <3>1, <3>2 DEF Prune
  <2> QED BY <1>4, <2>1, <2>3 DEF Prune, TypeOK
<1>5. ASSUME Confirm(d) PROVE TypeOK'
  <2>1. restores' \in [Device -> SUBSET Id]
    BY <1>5 DEF Confirm, TypeOK
  <2>2. /\ pc' \in [Device -> Steps] /\ todo' \in [Device -> SUBSET Id]
        /\ read' \in [Device -> Memory]
    BY <1>5, ReturnType DEF Confirm
  <2> QED BY <1>5, <2>1, <2>2 DEF Confirm, TypeOK
<1> QED BY <1>2, <1>3, <1>4, <1>5

\* The requests that write the cloud.
LEMMA CloudStepsType ==
    ASSUME TypeOK, NEW d \in Device, MarkRestored(d) \/ Push(d) \/ MarkDeleted(d)
    PROVE  TypeOK'
<1> USE DEF memory, files, history
<1>0. read[d].tombs \in SUBSET Id /\ todo[d] \in SUBSET Id
  BY ReadFields
<1>1. {"restore", "push", "delete", "get"} \subseteq Steps
  BY DEF Steps
<1>2. ASSUME MarkRestored(d) PROVE TypeOK'
  <2>1. PICK b \in Batch(d) :
          /\ cloud' = [i \in Id |->
                IF i \in b /\ cloud[i] = "deleted" THEN "live" ELSE cloud[i]]
          /\ Loop(d, todo[d] \ b, "restore", "push")
          /\ due' = [e \in Device |-> due[e] \ b]
    BY <1>2 DEF MarkRestored
  <2>2. cloud' \in [Id -> CloudRow]
    BY <2>1 DEF TypeOK, CloudRow
  <2>3. todo[d] \ b \in SUBSET Id
    BY <1>0
  <2>4. pc' \in [Device -> Steps] /\ todo' \in [Device -> SUBSET Id]
    BY <1>1, <2>1, <2>3, LoopType
  <2>5. due' \in [Device -> SUBSET Id]
    BY <2>1 DEF TypeOK
  <2> QED BY <1>2, <2>2, <2>4, <2>5 DEF MarkRestored, TypeOK
<1>3. ASSUME Push(d) PROVE TypeOK'
  <2>1. cloud' \in [Id -> CloudRow]
    BY <1>3 DEF Push, TypeOK, CloudRow
  <2>2. pc' \in [Device -> Steps] /\ todo' \in [Device -> SUBSET Id]
    BY <1>0, <1>1, <1>3, LoopType DEF Push
  <2> QED BY <1>3, <2>1, <2>2 DEF Push, TypeOK
<1>4. ASSUME MarkDeleted(d) PROVE TypeOK'
  <2>1. PICK b \in Batch(d) :
          /\ cloud' = [i \in Id |->
                IF i \in b /\ cloud[i] = "live" THEN "deleted" ELSE cloud[i]]
          /\ Loop(d, todo[d] \ b, "delete", "get")
          /\ owed' = [e \in Device |-> owed[e] \ b]
    BY <1>4 DEF MarkDeleted
  <2>2. cloud' \in [Id -> CloudRow]
    BY <2>1 DEF TypeOK, CloudRow
  <2>3. todo[d] \ b \in SUBSET Id
    BY <1>0
  <2>4. pc' \in [Device -> Steps] /\ todo' \in [Device -> SUBSET Id]
    BY <1>1, <2>1, <2>3, LoopType
  <2>5. owed' \in [Device -> SUBSET Id]
    BY <2>1 DEF TypeOK
  <2> QED BY <1>4, <2>2, <2>4, <2>5 DEF MarkDeleted, TypeOK
<1> QED BY <1>2, <1>3, <1>4

\* The steps of pull that write the log.
LEMMA LogStepsType ==
    ASSUME TypeOK, NEW d \in Device, RemoveRow(d) \/ AddRow(d)
    PROVE  TypeOK'
<1> USE DEF memory, files, history
<1>0. /\ todo[d] \in SUBSET Id /\ read[d].log \in [Id -> Start \cup {None}]
      /\ local \in [Device -> [Start -> Body \cup {None}]]
  BY ReadFields DEF TypeOK
<1>1. {"remove", "prune", "add", "confirm"} \subseteq Steps
  BY DEF Steps
<1>2. ASSUME RemoveRow(d) PROVE TypeOK'
  <2>1. PICK i \in todo[d] :
          /\ local' = [local EXCEPT ![d][read[d].log[i]] = None]
          /\ read' = [read EXCEPT ![d].log[i] = None]
          /\ Loop(d, todo[d] \ {i}, "remove", "prune")
    BY <1>2 DEF RemoveRow
  <2>2. local' \in [Device -> [Start -> Body \cup {None}]]
    BY <1>0, <2>1
  <2>3. read' \in [Device -> Memory]
    BY <1>0, <2>1, ReadType
  <2>4. todo[d] \ {i} \in SUBSET Id
    BY <1>0
  <2>5. pc' \in [Device -> Steps] /\ todo' \in [Device -> SUBSET Id]
    BY <1>1, <2>1, <2>4, LoopType
  <2> QED BY <1>2, <2>2, <2>3, <2>5 DEF RemoveRow, TypeOK
<1>3. ASSUME AddRow(d) PROVE TypeOK'
  <2>1. PICK i \in todo[d] :
          /\ local' = [local EXCEPT ![d][i.minute] = i.body]
          /\ IF todo[d] = {i} /\ read[d].restores = {}
             THEN Return(d)
             ELSE /\ read' = [read EXCEPT ![d].log[i] = i.minute]
                  /\ Loop(d, todo[d] \ {i}, "add", "confirm")
    BY <1>3 DEF AddRow
  <2>2. i \in Id /\ i.minute \in Start /\ i.body \in Body
    BY <1>0, <2>1 DEF Id
  <2>3. local' \in [Device -> [Start -> Body \cup {None}]]
    BY <1>0, <2>1, <2>2
  <2>4. /\ pc' \in [Device -> Steps] /\ todo' \in [Device -> SUBSET Id]
        /\ read' \in [Device -> Memory]
    <3>1. CASE Return(d)
      BY <3>1, ReturnType
    <3>2. CASE /\ read' = [read EXCEPT ![d].log[i] = i.minute]
               /\ Loop(d, todo[d] \ {i}, "add", "confirm")
      <4>1. todo[d] \ {i} \in SUBSET Id
        BY <1>0
      <4>2. read' \in [Device -> Memory]
        BY <2>2, <3>2, ReadType
      <4> QED BY <1>1, <3>2, <4>1, <4>2, LoopType
    <3> QED BY <2>1, <3>1, <3>2
  <2> QED BY <1>3, <2>3, <2>4 DEF AddRow, TypeOK
<1> QED BY <1>2, <1>3

LEMMA StopType ==
    ASSUME TypeOK, NEW d \in Device, Abort(d) \/ Crash(d)
    PROVE  TypeOK'
<1> USE DEF memory, files, history
<1>1. /\ pc' \in [Device -> Steps] /\ todo' \in [Device -> SUBSET Id]
      /\ read' \in [Device -> Memory]
  BY ReturnType DEF Abort, Crash
<1>2. fails' \in 0..MaxFails
  BY BoundsAssumption DEF Abort, Crash, TypeOK
<1>3. queue' \in [Device -> Seq(Intent)] /\ journal' \in [Device -> Change \cup {None}]
  <2>1. <<>> \in Seq(Intent)
    OBVIOUS
  <2> QED BY <2>1, ZenonT(60) DEF Abort, Crash, TypeOK
<1> QED BY <1>1, <1>2, <1>3 DEF Abort, Crash, TypeOK

LEMMA InitType == ASSUME Init PROVE TypeOK
<1>1. Unread \in Memory
  BY DEF Unread, Memory, CloudRow
<1>2. "idle" \in Steps /\ "absent" \in CloudRow /\ <<>> \in Seq(Intent)
  BY DEF Steps, CloudRow
<1>3. 0 \in 0..MaxOps /\ 0 \in 0..MaxFails
  BY BoundsAssumption
<1> QED BY <1>1, <1>2, <1>3 DEF Init, TypeOK

LEMMA NextType == ASSUME TypeOK, [Next]_vars PROVE TypeOK'
<1>1. CASE UNCHANGED vars
  BY <1>1 DEF vars, memory, files, history, TypeOK
<1>2. ASSUME NEW d \in Device, SyncStep(d) PROVE TypeOK'
  BY <1>2, ReadStepsType, FileStepsType, CloudStepsType, LogStepsType DEF SyncStep
<1>3. ASSUME NEW d \in Device, User(d) PROVE TypeOK'
  BY <1>3, UserType
<1>4. ASSUME NEW d \in Device, Record(d) PROVE TypeOK'
  BY <1>4, RecordType
<1>5. ASSUME NEW d \in Device, Abort(d) \/ Crash(d) PROVE TypeOK'
  BY <1>5, StopType
<1> QED BY <1>1, <1>2, <1>3, <1>4, <1>5 DEF Next

\* Every variable holds a value of its kind in every state that commands, syncs,
\* failures and crashes can reach, whatever the devices, bodies and bounds.
THEOREM TypeCorrect == Spec => []TypeOK
<1>1. Init => TypeOK
  BY InitType
<1>2. TypeOK /\ [Next]_vars => TypeOK'
  BY NextType
<1> QED BY <1>1, <1>2, PTL DEF Spec

-----------------------------------------------------------------------------
(* A cloud tombstone stands *)

\* A step that neither queues nor reads a restoration keeps every restoration on
\* its way one that a user asked for.
LEMMA AskedKept ==
    ASSUME TypeOK, Asked, NEW d \in Device,
           revived \subseteq revived',
           \A e \in Device : restores'[e] \subseteq restores[e] \cup revived',
           \A e \in Device \ {d} :
               /\ read'[e] = read[e] /\ todo'[e] = todo[e] /\ pc'[e] = pc[e]
               /\ queue'[e] = queue[e],
           read'[d].restores \subseteq read[d].restores \cup restores[d],
           pc'[d] = "restore" => todo'[d] \subseteq revived,
           \A n \in DOMAIN queue'[d] :
               queue'[d][n].op = "restore" => queue'[d][n].id \in revived'
    PROVE  Asked'
<1>1. ASSUME NEW e \in Device PROVE restores'[e] \subseteq revived'
  BY DEF Asked
<1>2. ASSUME NEW e \in Device PROVE read'[e].restores \subseteq revived'
  BY DEF Asked
<1>3. ASSUME NEW e \in Device, pc'[e] = "restore" PROVE todo'[e] \subseteq revived'
  BY <1>3 DEF Asked
<1>4. ASSUME NEW e \in Device, NEW n \in DOMAIN queue'[e], queue'[e][n].op = "restore"
      PROVE  queue'[e][n].id \in revived'
  BY <1>4 DEF Asked
<1> QED BY <1>1, <1>2, <1>3, <1>4 DEF Asked

LEMMA AskedCommand ==
    ASSUME TypeOK, Asked, NEW d \in Device,
           NEW removed, NEW created, NEW intents \in Seq(Intent),
           Command(d, removed, created, intents), revived \subseteq revived',
           \A n \in DOMAIN intents : intents[n].op = "restore" => intents[n].id \in revived'
    PROVE  Asked'
<1>1. /\ UNCHANGED <<restores, read, todo, pc>>
      /\ queue' = [queue EXCEPT ![d] = intents] /\ queue \in [Device -> Seq(Intent)]
  BY DEF Command, files, memory, TypeOK
<1>2. queue'[d] = intents /\ \A e \in Device \ {d} : queue'[e] = queue[e]
  BY <1>1
<1>3. pc'[d] = "restore" => todo'[d] \subseteq revived
  BY <1>1 DEF Asked
<1> QED BY <1>1, <1>2, <1>3, AskedKept

LEMMA AskedUser == ASSUME TypeOK, Asked, NEW d \in Device, User(d) PROVE Asked'
<1>1. ASSUME NEW row \in Row, UserAdd(d, row) PROVE Asked'
  <2> DEFINE none == <<>>
  <2>1. Command(d, None, row, none) /\ revived' = revived
    BY <1>1 DEF UserAdd
  <2>2. none \in Seq(Intent) /\ DOMAIN none = {}
    OBVIOUS
  <2> HIDE DEF none
  <2> QED BY <2>1, <2>2, AskedCommand
<1>2. ASSUME NEW s \in Start, NEW created, local[d][s] # None,
             Command(d, RowAt(d, s), created, Deletion(RowAt(d, s))), revived' = revived
      PROVE  Asked'
  <2>1. RowAt(d, s) \in Row
    BY <1>2, RowAtType
  <2>2. /\ Deletion(RowAt(d, s)) \in Seq(Intent)
        /\ \A n \in DOMAIN Deletion(RowAt(d, s)) :
             Deletion(RowAt(d, s))[n].op \in {"tomb", "unrestore"}
    BY <2>1, DeletionIntents
  <2>3. \A n \in DOMAIN Deletion(RowAt(d, s)) : Deletion(RowAt(d, s))[n].op # "restore"
    BY <2>2
  <2> QED BY <1>2, <2>2, <2>3, AskedCommand
<1>3. ASSUME UserUndo(d) PROVE Asked'
  <2> DEFINE c == journal[d]
  <2>1. /\ c \in Change
        /\ Command(d, c.created, c.removed, UndoIntents(c))
        /\ revived' = revived \cup Ids(c.removed)
    BY <1>3, UndoCommand
  <2>2. UndoIntents(c) \in Seq(Intent)
    BY <2>1, UndoIntentsType
  <2>3. \A n \in DOMAIN UndoIntents(c) :
          UndoIntents(c)[n].op = "restore" => UndoIntents(c)[n].id \in revived'
    BY <2>1, UndoIntentsType
  <2> HIDE DEF c
  <2> QED BY <2>1, <2>2, <2>3, AskedCommand
<1> QED BY <1>1, <1>2, <1>3 DEF User, UserEdit, UserRemove

LEMMA AskedRecord == ASSUME TypeOK, Asked, NEW d \in Device, Record(d) PROVE Asked'
<1>1. queue[d] \in Seq(Intent) /\ queue[d] # <<>>
  BY DEF Record, TypeOK
<1>2. /\ Head(queue[d]) = queue[d][1] /\ 1 \in DOMAIN queue[d]
      /\ \A n \in DOMAIN Tail(queue[d]) :
           \E m \in DOMAIN queue[d] : Tail(queue[d])[n] = queue[d][m]
  BY <1>1, TailElements
<1>3. Head(queue[d]).op = "restore" => Head(queue[d]).id \in revived
  BY <1>2 DEF Asked
<1>4. UNCHANGED <<read, todo, pc, revived>>
  BY DEF Record, memory
<1>5. ASSUME NEW e \in Device PROVE restores'[e] \subseteq restores[e] \cup revived'
  BY <1>3, <1>4 DEF Record, TypeOK
<1>6. queue' = [queue EXCEPT ![d] = Tail(queue[d])] /\ queue \in [Device -> Seq(Intent)]
  BY DEF Record, TypeOK
<1>7. queue'[d] = Tail(queue[d]) /\ \A e \in Device \ {d} : queue'[e] = queue[e]
  BY <1>6
<1>8. \A n \in DOMAIN queue'[d] :
        queue'[d][n].op = "restore" => queue'[d][n].id \in revived'
  BY <1>2, <1>4, <1>7 DEF Asked
<1>9. pc'[d] = "restore" => todo'[d] \subseteq revived
  BY <1>4 DEF Asked
<1> QED BY <1>4, <1>5, <1>7, <1>8, <1>9, AskedKept

\* A sync reads the restorations it carries out from its file, and drops those
\* whose entry is gone; it asks for none itself.
LEMMA AskedSync == ASSUME TypeOK, Asked, NEW d \in Device, SyncStep(d) PROVE Asked'
<1> USE DEF memory, files, history
<1>1. UNCHANGED <<queue, revived>>
  BY DEF SyncStep, ReadTombs, ReadRestores, ReadLog, DropStaleTombs, DropStaleRestores,
         MarkRestored, Push, MarkDeleted, GetEntries, RemoveRow, Prune, AddRow, Confirm
<1>2. \A e \in Device : restores'[e] \subseteq restores[e]
  BY ZenonT(60) DEF SyncStep, ReadTombs, ReadRestores, ReadLog, DropStaleTombs, DropStaleRestores,
         MarkRestored, Push, MarkDeleted, GetEntries, RemoveRow, Prune, AddRow, Confirm, TypeOK
<1>3. \A e \in Device \ {d} :
        read'[e] = read[e] /\ todo'[e] = todo[e] /\ pc'[e] = pc[e]
  <2>1. \A e \in Device \ {d} : pc'[e] = pc[e]
    BY DEF SyncStep, ReadTombs, ReadRestores, ReadLog, DropStaleTombs, DropStaleRestores,
           MarkRestored, Push, MarkDeleted, GetEntries, RemoveRow, Prune, AddRow, Confirm,
           Goto, Loop, Return, TypeOK
  <2>2. \A e \in Device \ {d} : todo'[e] = todo[e]
    BY DEF SyncStep, ReadTombs, ReadRestores, ReadLog, DropStaleTombs, DropStaleRestores,
           MarkRestored, Push, MarkDeleted, GetEntries, RemoveRow, Prune, AddRow, Confirm,
           Loop, Return, TypeOK
  <2>3. \A e \in Device \ {d} : read'[e] = read[e]
    BY DEF SyncStep, ReadTombs, ReadRestores, ReadLog, DropStaleTombs, DropStaleRestores,
           MarkRestored, Push, MarkDeleted, GetEntries, RemoveRow, Prune, AddRow, Confirm,
           Return, TypeOK
  <2> QED BY <2>1, <2>2, <2>3
<1>4. read'[d].restores \subseteq read[d].restores \cup restores[d]
  <2>0. d \in DOMAIN read /\ read[d] \in Memory
    BY DEF TypeOK
  <2>1. CASE read' = [read EXCEPT ![d] = Unread]
    BY <2>0, <2>1 DEF Unread
  <2>2. CASE ReadRestores(d)
    BY <2>0, <2>2 DEF ReadRestores, Memory
  <2>3. CASE DropStaleRestores(d)
    BY <2>0, <2>3 DEF DropStaleRestores, Memory
  <2>4. CASE UNCHANGED read
    BY <2>4
  <2>5. CASE ReadTombs(d) \/ ReadLog(d) \/ DropStaleTombs(d) \/ GetEntries(d)
    BY <2>0, <2>5 DEF ReadTombs, ReadLog, DropStaleTombs, GetEntries, Memory
  <2>6. CASE RemoveRow(d)
    BY <2>0, <2>6 DEF RemoveRow, Memory
  <2>7. CASE \E i \in todo[d] : read' = [read EXCEPT ![d].log[i] = i.minute]
    BY <2>0, <2>7 DEF Memory
  <2>8. \/ read' = [read EXCEPT ![d] = Unread]
        \/ UNCHANGED read
        \/ ReadRestores(d) \/ DropStaleRestores(d)
        \/ ReadTombs(d) \/ ReadLog(d) \/ DropStaleTombs(d) \/ GetEntries(d)
        \/ RemoveRow(d)
        \/ \E i \in todo[d] : read' = [read EXCEPT ![d].log[i] = i.minute]
    BY DEF SyncStep, MarkRestored, Push, MarkDeleted, Prune, AddRow, Confirm, Return
  <2> QED BY <2>1, <2>2, <2>3, <2>4, <2>5, <2>6, <2>7, <2>8
<1>5. pc'[d] = "restore" => todo'[d] \subseteq revived
  <2>1. ASSUME DropStaleRestores(d), pc'[d] = "restore" PROVE todo'[d] \subseteq revived
    BY <2>1 DEF DropStaleRestores, Loop, Asked, TypeOK
  <2>2. ASSUME MarkRestored(d), pc'[d] = "restore" PROVE todo'[d] \subseteq revived
    BY <2>2 DEF MarkRestored, Loop, Asked, TypeOK
  <2>3. ASSUME SyncStep(d), ~DropStaleRestores(d), ~MarkRestored(d)
        PROVE  pc'[d] # "restore"
    BY <2>3 DEF SyncStep, ReadTombs, ReadRestores, ReadLog, DropStaleTombs, Push,
           MarkDeleted, GetEntries, RemoveRow, Prune, AddRow, Confirm, Goto, Loop, Return, TypeOK
  <2> QED BY <2>1, <2>2, <2>3
<1>6. \A n \in DOMAIN queue'[d] :
        queue'[d][n].op = "restore" => queue'[d][n].id \in revived'
  BY <1>1 DEF Asked
<1> QED BY <1>1, <1>2, <1>3, <1>4, <1>5, <1>6, AskedKept

LEMMA AskedStop == ASSUME TypeOK, Asked, NEW d \in Device, Abort(d) \/ Crash(d) PROVE Asked'
<1>1. UNCHANGED <<restores, revived>> /\ Return(d)
  BY DEF Abort, Crash, files, history
<1>2. \A e \in Device \ {d} :
        read'[e] = read[e] /\ todo'[e] = todo[e] /\ pc'[e] = pc[e]
  BY <1>1 DEF Return, Goto, TypeOK
<1>3. read'[d].restores = {} /\ pc'[d] # "restore"
  BY <1>1 DEF Return, Goto, Unread, TypeOK
<1>4. queue' = queue \/ queue' = [queue EXCEPT ![d] = <<>>]
  BY DEF Abort, Crash
<1>5. \A e \in Device \ {d} : queue'[e] = queue[e]
  BY <1>4 DEF TypeOK
<1>6. \A n \in DOMAIN queue'[d] :
        queue'[d][n].op = "restore" => queue'[d][n].id \in revived'
  <2>1. CASE queue' = queue
    BY <1>1, <2>1 DEF Asked
  <2>2. CASE queue' = [queue EXCEPT ![d] = <<>>]
    <3>1. queue'[d] = <<>> /\ DOMAIN queue'[d] = {}
      BY <2>2 DEF TypeOK
    <3> QED BY <3>1
  <2> QED BY <1>4, <2>1, <2>2
<1> QED BY <1>1, <1>2, <1>3, <1>5, <1>6, AskedKept

LEMMA AskedNext == ASSUME TypeOK, Asked, [Next]_vars PROVE Asked'
<1>1. CASE UNCHANGED vars
  BY <1>1 DEF vars, memory, files, history, Asked
<1>2. ASSUME NEW d \in Device, SyncStep(d) \/ User(d) \/ Record(d) \/ Abort(d) \/ Crash(d)
      PROVE  Asked'
  BY <1>2, AskedSync, AskedUser, AskedRecord, AskedStop
<1> QED BY <1>1, <1>2 DEF Next

LEMMA AskedInit == ASSUME Init PROVE Asked
BY DEF Init, Asked, Unread

\* Only a restoration on its way clears a tombstone.
LEMMA OnlyRestored ==
    ASSUME TypeOK, Asked, [Next]_vars, NEW i \in Id \ revived
    PROVE  ~(cloud[i] = "deleted" /\ cloud'[i] = "live")
<1> USE DEF memory, files, history
<1>1. ASSUME NEW d \in Device, MarkRestored(d)
      PROVE  cloud'[i] = cloud[i]
  <2>1. PICK b \in Batch(d) :
          cloud' = [j \in Id |-> IF j \in b /\ cloud[j] = "deleted" THEN "live" ELSE cloud[j]]
    BY <1>1 DEF MarkRestored
  <2>2. b \subseteq revived
    BY <1>1 DEF MarkRestored, Batch, Asked
  <2> QED BY <2>1, <2>2
<1>2. ASSUME NEW d \in Device, Push(d) \/ MarkDeleted(d)
      PROVE  ~(cloud[i] = "deleted" /\ cloud'[i] = "live")
  BY <1>2 DEF Push, MarkDeleted
<1>3. ASSUME NEW d \in Device,
             \/ SyncStep(d) /\ ~MarkRestored(d) /\ ~Push(d) /\ ~MarkDeleted(d)
             \/ User(d) \/ Record(d) \/ Abort(d) \/ Crash(d)
      PROVE  cloud' = cloud
  BY <1>3 DEF SyncStep, ReadTombs, ReadRestores, ReadLog, DropStaleTombs, DropStaleRestores,
              GetEntries, RemoveRow, Prune, AddRow, Confirm, User, UserAdd, UserEdit,
              UserRemove, UserUndo, Command, Record, Abort, Crash
<1>4. CASE UNCHANGED vars
  BY <1>4 DEF vars
<1> QED BY <1>1, <1>2, <1>3, <1>4 DEF Next

\* A deletion the cloud has accepted is final until some user undoes it: no
\* stale copy, late push or repeated sync on any device brings the entry back.
THEOREM TombstonesStand == Spec => TombstoneStands
<1>1. Init => TypeOK /\ Asked
  BY InitType, AskedInit
<1>2. TypeOK /\ Asked /\ [Next]_vars => (TypeOK /\ Asked)'
  BY NextType, AskedNext
<1>3. TypeOK /\ Asked /\ [Next]_vars
      => [\A i \in Id \ revived : ~(cloud[i] = "deleted" /\ cloud'[i] = "live")]_vars
  BY OnlyRestored
<1> QED BY <1>1, <1>2, <1>3, PTL DEF Spec, TombstoneStands

-----------------------------------------------------------------------------
(* A recorded deletion is remembered *)

\* The part of the invariant about one device.
Remembered(d) ==
    /\ owed[d] \subseteq tombs[d]
    /\ owed[d] \cap LogIds(d) = {}
    /\ \A n \in DOMAIN queue[d] :
        queue[d][n].op = "untomb" => queue[d][n].id \notin owed[d]
    /\ Carried(d)

\* A device on which nothing but its debts moved, and those only shrank.
LEMMA OtherDevice ==
    ASSUME NEW e \in Device, Remembered(e), owed'[e] \subseteq owed[e],
           tombs'[e] = tombs[e], local'[e] = local[e], queue'[e] = queue[e],
           pc'[e] = pc[e], read'[e] = read[e], todo'[e] = todo[e]
    PROVE  Remembered(e)'
<1>1. LogIds(e)' = LogIds(e)
  BY DEF LogIds, RowAt
<1>2. Indices(e)' = Indices(e)
  BY DEF Indices
<1>3. Carried(e)'
  BY <1>2 DEF Remembered, Carried
<1> QED BY <1>1, <1>3 DEF Remembered

LEMMA NothingOwed ==
    ASSUME NEW d \in Device, owed'[d] = {}
    PROVE  Remembered(d)'
BY DEF Remembered, Carried

\* A step of device d leaves the other devices' part alone.
LEMMA OthersRemember ==
    ASSUME TypeOK, DeletionInv, NEW d \in Device,
           SyncStep(d) \/ User(d) \/ Record(d) \/ Abort(d) \/ Crash(d),
           NEW e \in Device, e # d
    PROVE  Remembered(e)'
<1> USE DEF memory, files, history
<1>0. Remembered(e)
  BY DEF DeletionInv, Remembered
<1>1. CASE User(d)
  <2>1. PICK removed, created, intents : Command(d, removed, created, intents)
    BY <1>1 DEF User, UserAdd, UserEdit, UserRemove, UserUndo
  <2>2. /\ owed'[e] = owed[e] /\ tombs'[e] = tombs[e] /\ local'[e] = local[e]
        /\ queue'[e] = queue[e] /\ pc'[e] = pc[e] /\ read'[e] = read[e] /\ todo'[e] = todo[e]
    BY <2>1 DEF Command, TypeOK
  <2> QED BY <1>0, <2>2, OtherDevice
<1>2. CASE Record(d)
  <2>1. /\ owed'[e] = owed[e] /\ tombs'[e] = tombs[e] /\ local'[e] = local[e]
        /\ queue'[e] = queue[e] /\ pc'[e] = pc[e] /\ read'[e] = read[e] /\ todo'[e] = todo[e]
    BY <1>2 DEF Record, TypeOK
  <2> QED BY <1>0, <2>1, OtherDevice
<1>3. CASE Abort(d) \/ Crash(d)
  <2>1. /\ owed'[e] = owed[e] /\ tombs'[e] = tombs[e] /\ local'[e] = local[e]
        /\ queue'[e] = queue[e] /\ pc'[e] = pc[e] /\ read'[e] = read[e] /\ todo'[e] = todo[e]
    BY <1>3 DEF Abort, Crash, Return, Goto, TypeOK
  <2> QED BY <1>0, <2>1, OtherDevice
<1>4. CASE SyncStep(d)
  <2>1. owed'[e] \subseteq owed[e]
    BY <1>4 DEF SyncStep, ReadTombs, ReadRestores, ReadLog, DropStaleTombs, DropStaleRestores,
                MarkRestored, Push, MarkDeleted, GetEntries, RemoveRow, Prune, AddRow, Confirm
  <2>2. tombs'[e] = tombs[e] /\ queue'[e] = queue[e]
    BY <1>4 DEF SyncStep, ReadTombs, ReadRestores, ReadLog, DropStaleTombs, DropStaleRestores,
                MarkRestored, Push, MarkDeleted, GetEntries, RemoveRow, Prune, AddRow, Confirm,
                TypeOK
  <2>3. local'[e] = local[e]
    BY <1>4 DEF SyncStep, ReadTombs, ReadRestores, ReadLog, DropStaleTombs, DropStaleRestores,
                MarkRestored, Push, MarkDeleted, GetEntries, RemoveRow, Prune, AddRow, Confirm,
                TypeOK
  <2>4. pc'[e] = pc[e] /\ todo'[e] = todo[e]
    BY <1>4, SMTT(60) DEF SyncStep, ReadTombs, ReadRestores, ReadLog, DropStaleTombs, DropStaleRestores,
                MarkRestored, Push, MarkDeleted, GetEntries, RemoveRow, Prune, AddRow, Confirm,
                Goto, Loop, Return, TypeOK
  <2>5. read'[e] = read[e]
    BY <1>4 DEF SyncStep, ReadTombs, ReadRestores, ReadLog, DropStaleTombs, DropStaleRestores,
                MarkRestored, Push, MarkDeleted, GetEntries, RemoveRow, Prune, AddRow, Confirm,
                Return, TypeOK
  <2> QED BY <1>0, <2>1, <2>2, <2>3, <2>4, <2>5, OtherDevice
<1> QED BY <1>1, <1>2, <1>3, <1>4

\* After a command the log holds what it held and the row created.
LEMMA LogAfterCommand ==
    ASSUME TypeOK, NEW d \in Device, NEW removed, NEW created \in Row \cup {None},
           local' = [local EXCEPT ![d] = Replace(d, removed, created)]
    PROVE  LogIds(d)' \subseteq LogIds(d) \cup Ids(created)
<1>1. local'[d] = Replace(d, removed, created)
  BY DEF TypeOK
<1>2. ASSUME NEW s \in Start, local'[d][s] # None
      PROVE  IdOf([start |-> s, body |-> local'[d][s]]) \in LogIds(d) \cup Ids(created)
  <2>1. CASE created # None /\ created.start = s
    <3>1. created \in Row /\ local'[d][s] = created.body
      BY <1>1, <2>1 DEF Replace
    <3>2. [start |-> s, body |-> local'[d][s]] = created
      BY <2>1, <3>1 DEF Row
    <3> QED BY <2>1, <3>2 DEF Ids
  <2>2. CASE ~(created # None /\ created.start = s)
    <3>1. local'[d][s] = local[d][s]
      BY <1>1, <1>2, <2>2 DEF Replace
    <3> QED BY <1>2, <3>1 DEF LogIds, RowAt
  <2> QED BY <2>1, <2>2
<1>3. LogIds(d)' = {IdOf([start |-> s, body |-> local'[d][s]]) :
                        s \in {r \in Start : local'[d][r] # None}}
  BY DEF LogIds, RowAt
<1> QED BY <1>2, <1>3

LEMMA CommandRemembers ==
    ASSUME TypeOK, DeletionInv, NEW d \in Device,
           NEW removed, NEW created \in Row \cup {None}, NEW intents \in Seq(Intent),
           Command(d, removed, created, intents),
           \A n \in DOMAIN intents : intents[n].op = "untomb" => intents[n].id \in Ids(created)
    PROVE  Remembered(d)'
<1>0. Remembered(d)
  BY DEF DeletionInv, Remembered
<1>1. /\ owed'[d] = owed[d] \ Ids(created) /\ queue'[d] = intents
      /\ UNCHANGED <<tombs, pc, read, todo>>
  BY DEF Command, TypeOK, memory, files
<1>2. LogIds(d)' \subseteq LogIds(d) \cup Ids(created)
  BY LogAfterCommand DEF Command
<1>3. owed'[d] \subseteq tombs'[d] /\ owed'[d] \cap LogIds(d)' = {}
  BY <1>0, <1>1, <1>2 DEF Remembered
<1>4. \A n \in DOMAIN queue'[d] : queue'[d][n].op = "untomb" => queue'[d][n].id \notin owed'[d]
  BY <1>1
<1>5. Indices(d)' = Indices(d)
  BY <1>1 DEF Indices
<1>6. Carried(d)'
  BY <1>0, <1>1, <1>5 DEF Remembered, Carried
<1> QED BY <1>3, <1>4, <1>6 DEF Remembered

LEMMA UserRemembers ==
    ASSUME TypeOK, DeletionInv, NEW d \in Device, User(d)
    PROVE  Remembered(d)'
<1>1. ASSUME NEW row \in Row, UserAdd(d, row) PROVE Remembered(d)'
  <2> DEFINE none == <<>>
  <2>1. Command(d, None, row, none)
    BY <1>1 DEF UserAdd
  <2>2. none \in Seq(Intent) /\ DOMAIN none = {}
    OBVIOUS
  <2> HIDE DEF none
  <2> QED BY <2>1, <2>2, CommandRemembers
<1>2. ASSUME NEW s \in Start, NEW created \in Row \cup {None}, local[d][s] # None,
             Command(d, RowAt(d, s), created, Deletion(RowAt(d, s)))
      PROVE  Remembered(d)'
  <2>1. RowAt(d, s) \in Row
    BY <1>2, RowAtType
  <2>2. /\ Deletion(RowAt(d, s)) \in Seq(Intent)
        /\ \A n \in DOMAIN Deletion(RowAt(d, s)) :
             Deletion(RowAt(d, s))[n].op \in {"tomb", "unrestore"}
    BY <2>1, DeletionIntents
  <2>3. \A n \in DOMAIN Deletion(RowAt(d, s)) : Deletion(RowAt(d, s))[n].op # "untomb"
    BY <2>2
  <2> QED BY <1>2, <2>2, <2>3, CommandRemembers
<1>3. ASSUME UserUndo(d) PROVE Remembered(d)'
  <2> DEFINE c == journal[d]
  <2>1. c \in Change /\ Command(d, c.created, c.removed, UndoIntents(c))
    BY <1>3, UndoCommand
  <2>2. c.removed \in Row \cup {None}
    BY <2>1 DEF Change
  <2>3. UndoIntents(c) \in Seq(Intent)
    BY <2>1, UndoIntentsType
  <2>4. \A n \in DOMAIN UndoIntents(c) :
          UndoIntents(c)[n].op = "untomb" => UndoIntents(c)[n].id \in Ids(c.removed)
    BY <2>1, UndoIntentsType
  <2> HIDE DEF c
  <2> QED BY <2>1, <2>2, <2>3, <2>4, CommandRemembers
<1> QED BY <1>1, <1>2, <1>3 DEF User, UserEdit, UserRemove

LEMMA RecordRemembers ==
    ASSUME TypeOK, DeletionInv, NEW d \in Device, Record(d)
    PROVE  Remembered(d)'
<1> DEFINE q == queue[d]
           op == Head(q).op
           i == Head(q).id
<1>0. Remembered(d)
  BY DEF DeletionInv, Remembered
<1>1. q \in Seq(Intent) /\ q # <<>>
  BY DEF Record, TypeOK
<1>2. /\ Head(q) = q[1] /\ 1 \in DOMAIN q /\ queue'[d] = Tail(q)
      /\ \A n \in DOMAIN Tail(q) : \E m \in DOMAIN q : Tail(q)[n] = q[m]
  BY <1>1, TailElements DEF Record, TypeOK
<1>3. UNCHANGED <<local, pc, read, todo>>
  BY DEF Record, memory
<1>4. LogIds(d)' = LogIds(d) /\ Indices(d)' = Indices(d)
  BY <1>3 DEF LogIds, RowAt, Indices
<1>5. \/ owed' = owed
      \/ /\ op = "tomb" /\ pc[d] = "idle" /\ ~Awaits(d, "untomb", i) /\ i \notin LogIds(d)
         /\ owed' = [owed EXCEPT ![d] = owed[d] \cup {i}]
  BY DEF Record
<1>6. tombs' = [tombs EXCEPT ![d] =
          CASE op = "tomb" -> tombs[d] \cup {i} [] op = "untomb" -> tombs[d] \ {i}
            [] OTHER -> tombs[d]]
  BY DEF Record
<1>7. /\ op = "tomb" => tombs'[d] = tombs[d] \cup {i}
      /\ op = "untomb" => tombs'[d] = tombs[d] \ {i}
      /\ op \notin {"tomb", "untomb"} => tombs'[d] = tombs[d]
  BY <1>6 DEF TypeOK
<1>8. op = "untomb" => i \notin owed[d]
  BY <1>0, <1>2 DEF Remembered
<1>9. CASE owed' = owed
  <2>1. owed'[d] \subseteq tombs'[d]
    BY <1>0, <1>7, <1>8, <1>9 DEF Remembered
  <2>2. \A n \in DOMAIN queue'[d] :
          queue'[d][n].op = "untomb" => queue'[d][n].id \notin owed'[d]
    BY <1>0, <1>2, <1>9 DEF Remembered
  <2>3. Carried(d)'
    BY <1>0, <1>3, <1>4, <1>9 DEF Remembered, Carried
  <2> QED BY <1>0, <1>4, <1>9, <2>1, <2>2, <2>3 DEF Remembered
<1>10. CASE /\ op = "tomb" /\ pc[d] = "idle" /\ ~Awaits(d, "untomb", i) /\ i \notin LogIds(d)
            /\ owed' = [owed EXCEPT ![d] = owed[d] \cup {i}]
  <2>0. owed'[d] = owed[d] \cup {i}
    BY <1>10 DEF TypeOK
  <2>1. owed'[d] \subseteq tombs'[d] /\ owed'[d] \cap LogIds(d)' = {}
    BY <1>0, <1>4, <1>7, <1>10, <2>0 DEF Remembered
  <2>2. ASSUME NEW m \in DOMAIN q, q[m].op = "untomb" PROVE q[m].id # i
    <3>1. q[m] \in Intent
      BY <1>1
    <3>2. q[m] = [op |-> q[m].op, id |-> q[m].id]
      BY <3>1 DEF Intent
    <3>3. q[m].id = i => q[m] = [op |-> "untomb", id |-> i]
      BY <2>2, <3>2
    <3> QED BY <1>10, <3>3 DEF Awaits
  <2>3. \A n \in DOMAIN queue'[d] :
          queue'[d][n].op = "untomb" => queue'[d][n].id \notin owed'[d]
    BY <1>0, <1>2, <2>0, <2>2 DEF Remembered
  <2>4. Carried(d)'
    BY <1>3, <1>10 DEF Carried
  <2> QED BY <2>1, <2>3, <2>4 DEF Remembered
<1> QED BY <1>5, <1>9, <1>10

\* Only the start of a sync, its look at the log, and its way to the PATCH of the
\* deletions change how far it has carried them.
LEMMA SyncRemembers ==
    ASSUME TypeOK, DeletionInv, NEW d \in Device, SyncStep(d)
    PROVE  Remembered(d)'
<1> USE DEF memory, files, history
<1> DEFINE before == {"restores", "log", "staleTombs", "staleRestores", "restore", "push"}
           indexed == {"staleTombs", "staleRestores", "restore", "push"}
<1>0. /\ Remembered(d) /\ d \in DOMAIN read /\ read[d] \in Memory
      /\ d \in DOMAIN pc /\ d \in DOMAIN todo /\ d \in DOMAIN tombs
  BY DEF DeletionInv, Remembered, TypeOK
<1>1. ASSUME UNCHANGED <<local, queue>>, owed'[d] = owed[d], owed[d] \subseteq tombs'[d],
             pc'[d] \in before, owed[d] \subseteq read'[d].tombs,
             pc'[d] \in indexed => owed[d] \cap Indices(d)' = {}
      PROVE  Remembered(d)'
  <2>1. LogIds(d)' = LogIds(d)
    BY <1>1 DEF LogIds, RowAt
  <2>2. Carried(d)'
    BY <1>1 DEF Carried
  <2> QED BY <1>0, <1>1, <2>1, <2>2 DEF Remembered
<1>2. ASSUME ReadTombs(d) PROVE Remembered(d)'
  <2>1. /\ pc'[d] = "restores" /\ read'[d].tombs = tombs[d]
        /\ UNCHANGED <<local, queue, owed, tombs>>
    BY <1>0, <1>2 DEF ReadTombs, Goto, Memory
  <2> QED BY <1>0, <1>1, <2>1 DEF Remembered
<1>3. ASSUME ReadRestores(d) PROVE Remembered(d)'
  <2>1. /\ pc'[d] = "log" /\ read'[d].tombs = read[d].tombs
        /\ UNCHANGED <<local, queue, owed, tombs>>
    BY <1>0, <1>3 DEF ReadRestores, Goto, Memory
  <2>2. owed[d] \subseteq read[d].tombs
    BY <1>0, <1>3 DEF ReadRestores, Remembered, Carried
  <2> QED BY <1>0, <1>1, <2>1, <2>2 DEF Remembered
<1>4. ASSUME ReadLog(d) PROVE Remembered(d)'
  <2>1. /\ pc'[d] = "staleTombs" /\ read'[d].tombs = read[d].tombs
        /\ read'[d].log = Indexed(d)
        /\ UNCHANGED <<local, queue, owed, tombs>>
    BY <1>0, <1>4 DEF ReadLog, Goto, Memory
  <2>2. owed[d] \subseteq read[d].tombs
    BY <1>0, <1>4 DEF ReadLog, Remembered, Carried
  <2>3. Indices(d)' \subseteq LogIds(d)
    BY <2>1, IndexedRow DEF Indices
  <2>4. owed[d] \cap Indices(d)' = {}
    BY <1>0, <2>3 DEF Remembered
  <2> QED BY <1>0, <1>1, <2>1, <2>2, <2>4 DEF Remembered
<1>5. ASSUME DropStaleTombs(d) PROVE Remembered(d)'
  <2>1. /\ pc'[d] = "staleRestores" /\ read'[d].tombs = read[d].tombs \ Indices(d)
        /\ read'[d].log = read[d].log
        /\ tombs'[d] = tombs[d] \ (read[d].tombs \cap Indices(d))
        /\ UNCHANGED <<local, queue, owed>>
    BY <1>0, <1>5 DEF DropStaleTombs, Goto, Memory
  <2>2. Indices(d)' = Indices(d)
    BY <2>1 DEF Indices
  <2>3. owed[d] \subseteq read[d].tombs /\ owed[d] \cap Indices(d) = {}
    BY <1>0, <1>5 DEF DropStaleTombs, Remembered, Carried
  <2>4. owed[d] \subseteq tombs'[d] /\ owed[d] \subseteq read'[d].tombs
    BY <1>0, <2>1, <2>3 DEF Remembered
  <2> QED BY <1>1, <2>1, <2>2, <2>3, <2>4
<1>6. ASSUME DropStaleRestores(d) \/ MarkRestored(d) PROVE Remembered(d)'
  <2>1. /\ pc'[d] \in {"restore", "push"} /\ read'[d].tombs = read[d].tombs
        /\ read'[d].log = read[d].log
        /\ UNCHANGED <<local, queue, owed, tombs>>
    BY <1>0, <1>6 DEF DropStaleRestores, MarkRestored, Loop, Goto, Memory
  <2>2. Indices(d)' = Indices(d)
    BY <2>1 DEF Indices
  <2>3. owed[d] \subseteq read[d].tombs /\ owed[d] \cap Indices(d) = {}
    BY <1>0, <1>6 DEF DropStaleRestores, MarkRestored, Remembered, Carried
  <2> QED BY <1>0, <1>1, <2>1, <2>2, <2>3 DEF Remembered
<1>7. ASSUME Push(d) PROVE Remembered(d)'
  <2>1. /\ todo'[d] = read[d].tombs
        /\ pc'[d] = IF read[d].tombs = {} THEN "get" ELSE "delete"
        /\ UNCHANGED <<local, queue, owed, tombs>>
    BY <1>0, <1>7 DEF Push, Loop, Goto
  <2>2. owed[d] \subseteq read[d].tombs
    BY <1>0, <1>7 DEF Push, Remembered, Carried
  <2>3. Carried(d)'
    BY <2>1, <2>2 DEF Carried
  <2>4. LogIds(d)' = LogIds(d)
    BY <2>1 DEF LogIds, RowAt
  <2> QED BY <1>0, <2>1, <2>3, <2>4 DEF Remembered
<1>8. ASSUME MarkDeleted(d) PROVE Remembered(d)'
  <2>1. PICK b \in Batch(d) :
          /\ Loop(d, todo[d] \ b, "delete", "get")
          /\ owed' = [e \in Device |-> owed[e] \ b]
    BY <1>8 DEF MarkDeleted
  <2>2. /\ todo'[d] = todo[d] \ b
        /\ pc'[d] = IF todo[d] \ b = {} THEN "get" ELSE "delete"
        /\ owed'[d] = owed[d] \ b
    BY <1>0, <2>1 DEF Loop, Goto
  <2>3. owed[d] \subseteq todo[d]
    BY <1>0, <1>8 DEF MarkDeleted, Remembered, Carried
  <2>4. Carried(d)'
    BY <2>2, <2>3 DEF Carried
  <2>5. UNCHANGED <<local, queue, tombs>>
    BY <1>8 DEF MarkDeleted
  <2>6. LogIds(d)' = LogIds(d)
    BY <2>5 DEF LogIds, RowAt
  <2>7. /\ owed'[d] \subseteq tombs'[d] /\ owed'[d] \cap LogIds(d)' = {}
        /\ \A n \in DOMAIN queue'[d] :
             queue'[d][n].op = "untomb" => queue'[d][n].id \notin owed'[d]
    BY <1>0, <2>2, <2>5, <2>6 DEF Remembered
  <2> QED BY <2>4, <2>7 DEF Remembered
<1>9. ASSUME GetEntries(d) \/ RemoveRow(d) \/ Prune(d) \/ AddRow(d) \/ Confirm(d)
      PROVE  Remembered(d)'
  <2>1. owed[d] = {}
    BY <1>0, <1>9 DEF GetEntries, RemoveRow, Prune, AddRow, Confirm, Remembered, Carried
  <2>2. owed' = owed
    BY <1>9 DEF GetEntries, RemoveRow, Prune, AddRow, Confirm
  <2> QED BY <2>1, <2>2, NothingOwed
<1> QED BY <1>2, <1>3, <1>4, <1>5, <1>6, <1>7, <1>8, <1>9 DEF SyncStep

\* A failed or killed sync leaves the files as they are.
LEMMA StopRemembers ==
    ASSUME TypeOK, DeletionInv, NEW d \in Device, Abort(d) \/ Crash(d)
    PROVE  Remembered(d)'
<1>0. Remembered(d)
  BY DEF DeletionInv, Remembered
<1>1. UNCHANGED <<local, tombs, owed>> /\ pc'[d] = "idle"
  BY DEF Abort, Crash, files, history, Return, Goto, TypeOK
<1>2. queue'[d] = queue[d] \/ DOMAIN queue'[d] = {}
  BY DEF Abort, Crash, TypeOK
<1>3. LogIds(d)' = LogIds(d)
  BY <1>1 DEF LogIds, RowAt
<1>4. Carried(d)'
  BY <1>1 DEF Carried
<1>5. \A n \in DOMAIN queue'[d] :
        queue'[d][n].op = "untomb" => queue'[d][n].id \notin owed'[d]
  BY <1>0, <1>1, <1>2 DEF Remembered
<1> QED BY <1>0, <1>1, <1>3, <1>4, <1>5 DEF Remembered

LEMMA DeletionNext ==
    ASSUME TypeOK, DeletionInv, [Next]_vars
    PROVE  DeletionInv'
<1>1. CASE UNCHANGED vars
  <2>1. ASSUME NEW e \in Device PROVE LogIds(e)' = LogIds(e) /\ Indices(e)' = Indices(e)
    BY <1>1 DEF vars, memory, LogIds, RowAt, Indices
  <2>2. ASSUME NEW e \in Device PROVE Carried(e)'
    BY <1>1, <2>1 DEF vars, memory, history, DeletionInv, Carried
  <2> QED BY <1>1, <2>1, <2>2 DEF vars, files, history, DeletionInv
<1>2. ASSUME NEW d \in Device, SyncStep(d) \/ User(d) \/ Record(d) \/ Abort(d) \/ Crash(d)
      PROVE  DeletionInv'
  <2>1. ASSUME NEW e \in Device PROVE Remembered(e)'
    <3>1. CASE e = d
      BY <1>2, <3>1, UserRemembers, RecordRemembers, SyncRemembers, StopRemembers
    <3>2. CASE e # d
      BY <1>2, <3>2, OthersRemember
    <3> QED BY <3>1, <3>2
  <2> QED BY <2>1 DEF DeletionInv, Remembered
<1> QED BY <1>1, <1>2 DEF Next

LEMMA DeletionStart == ASSUME Init PROVE DeletionInv
<1>1. \A d \in Device : owed[d] = {}
  BY DEF Init
<1> QED BY <1>1 DEF DeletionInv, Carried

\* The inductive invariant about deletions, in every reachable state.
THEOREM DeletionInvariant == Spec => []DeletionInv
<1>1. Init => TypeOK /\ DeletionInv
  BY InitType, DeletionStart
<1>2. TypeOK /\ DeletionInv /\ [Next]_vars => (TypeOK /\ DeletionInv)'
  BY NextType, DeletionNext
<1> QED BY <1>1, <1>2, PTL DEF Spec

\* A deletion recorded between two syncs is never forgotten before the cloud row
\* is marked, on any number of devices, whatever fails and whoever crashes.
THEOREM DeletionsRemembered == Spec => []DeletionRemembered
<1>1. DeletionInv => DeletionRemembered
  BY DEF DeletionInv, DeletionRemembered
<1> QED BY <1>1, DeletionInvariant, PTL
-----------------------------------------------------------------------------
(* A recorded restoration is remembered *)

\* The part of the invariant about one device.
Restored(d) ==
    /\ due[d] \subseteq restores[d]
    /\ due[d] \subseteq LogIds(d)
    /\ \A n \in DOMAIN queue[d] :
        queue[d][n].op = "unrestore" => queue[d][n].id \notin due[d]
    /\ Returning(d)

\* A device on which nothing but what is due moved, and that only shrank.
LEMMA OtherRestores ==
    ASSUME NEW e \in Device, Restored(e), due'[e] \subseteq due[e],
           restores'[e] = restores[e], local'[e] = local[e], queue'[e] = queue[e],
           pc'[e] = pc[e], read'[e] = read[e], todo'[e] = todo[e]
    PROVE  Restored(e)'
<1>1. LogIds(e)' = LogIds(e)
  BY DEF LogIds, RowAt
<1>2. Indices(e)' = Indices(e)
  BY DEF Indices
<1>3. Returning(e)'
  BY <1>2 DEF Restored, Returning
<1> QED BY <1>1, <1>3 DEF Restored

LEMMA NothingDue ==
    ASSUME NEW d \in Device, due'[d] = {}
    PROVE  Restored(d)'
BY DEF Restored, Returning

\* A step of device d leaves the other devices' part alone.
LEMMA OthersRestore ==
    ASSUME TypeOK, RestorationInv, NEW d \in Device,
           SyncStep(d) \/ User(d) \/ Record(d) \/ Abort(d) \/ Crash(d),
           NEW e \in Device, e # d
    PROVE  Restored(e)'
<1> USE DEF memory, files, history
<1>0. Restored(e)
  BY DEF RestorationInv, Restored
<1>1. CASE User(d)
  <2>1. PICK removed, created, intents : Command(d, removed, created, intents)
    BY <1>1 DEF User, UserAdd, UserEdit, UserRemove, UserUndo
  <2>2. /\ due'[e] = due[e] /\ restores'[e] = restores[e] /\ local'[e] = local[e]
        /\ queue'[e] = queue[e] /\ pc'[e] = pc[e] /\ read'[e] = read[e] /\ todo'[e] = todo[e]
    BY <2>1 DEF Command, TypeOK
  <2> QED BY <1>0, <2>2, OtherRestores
<1>2. CASE Record(d)
  <2>1. /\ due'[e] = due[e] /\ restores'[e] = restores[e] /\ local'[e] = local[e]
        /\ queue'[e] = queue[e] /\ pc'[e] = pc[e] /\ read'[e] = read[e] /\ todo'[e] = todo[e]
    BY <1>2 DEF Record, TypeOK
  <2> QED BY <1>0, <2>1, OtherRestores
<1>3. CASE Abort(d) \/ Crash(d)
  <2>1. /\ due'[e] = due[e] /\ restores'[e] = restores[e] /\ local'[e] = local[e]
        /\ queue'[e] = queue[e] /\ pc'[e] = pc[e] /\ read'[e] = read[e] /\ todo'[e] = todo[e]
    BY <1>3 DEF Abort, Crash, Return, Goto, TypeOK
  <2> QED BY <1>0, <2>1, OtherRestores
<1>4. CASE SyncStep(d)
  <2>1. due'[e] \subseteq due[e]
    BY <1>4 DEF SyncStep, ReadTombs, ReadRestores, ReadLog, DropStaleTombs, DropStaleRestores,
                MarkRestored, Push, MarkDeleted, GetEntries, RemoveRow, Prune, AddRow, Confirm
  <2>2. restores'[e] = restores[e] /\ queue'[e] = queue[e]
    BY <1>4 DEF SyncStep, ReadTombs, ReadRestores, ReadLog, DropStaleTombs, DropStaleRestores,
                MarkRestored, Push, MarkDeleted, GetEntries, RemoveRow, Prune, AddRow, Confirm,
                TypeOK
  <2>3. local'[e] = local[e]
    BY <1>4 DEF SyncStep, ReadTombs, ReadRestores, ReadLog, DropStaleTombs, DropStaleRestores,
                MarkRestored, Push, MarkDeleted, GetEntries, RemoveRow, Prune, AddRow, Confirm,
                TypeOK
  <2>4. pc'[e] = pc[e] /\ todo'[e] = todo[e]
    BY <1>4, SMTT(60) DEF SyncStep, ReadTombs, ReadRestores, ReadLog, DropStaleTombs, DropStaleRestores,
                MarkRestored, Push, MarkDeleted, GetEntries, RemoveRow, Prune, AddRow, Confirm,
                Goto, Loop, Return, TypeOK
  <2>5. read'[e] = read[e]
    BY <1>4 DEF SyncStep, ReadTombs, ReadRestores, ReadLog, DropStaleTombs, DropStaleRestores,
                MarkRestored, Push, MarkDeleted, GetEntries, RemoveRow, Prune, AddRow, Confirm,
                Return, TypeOK
  <2> QED BY <1>0, <2>1, <2>2, <2>3, <2>4, <2>5, OtherRestores
<1> QED BY <1>1, <1>2, <1>3, <1>4

\* A command takes out of the log at most the row it removes.
LEMMA LogKeptByCommand ==
    ASSUME TypeOK, NEW d \in Device,
           NEW removed \in Row \cup {None}, NEW created \in Row \cup {None},
           Applicable(d, removed, created),
           local' = [local EXCEPT ![d] = Replace(d, removed, created)]
    PROVE  LogIds(d) \ Ids(removed) \subseteq LogIds(d)'
<1>1. local'[d] = Replace(d, removed, created)
  BY DEF TypeOK
<1>2. LogIds(d)' = {IdOf([start |-> s, body |-> local'[d][s]]) :
                        s \in {r \in Start : local'[d][r] # None}}
  BY DEF LogIds, RowAt
<1>3. ASSUME NEW s \in Start, local[d][s] # None, IdOf(RowAt(d, s)) \notin Ids(removed)
      PROVE  IdOf(RowAt(d, s)) \in LogIds(d)'
  <2>1. ~(removed # None /\ removed.start = s)
    <3>1. SUFFICES ASSUME removed # None, removed.start = s PROVE FALSE
      OBVIOUS
    <3>2. removed \in Row /\ local[d][s] = removed.body
      BY <3>1 DEF Applicable
    <3>3. RowAt(d, s) = removed
      BY <3>1, <3>2 DEF RowAt, Row
    <3> QED BY <1>3, <3>1, <3>3 DEF Ids
  <2>2. ~(created # None /\ created.start = s)
    BY <1>3, <2>1 DEF Applicable
  <2>3. local'[d][s] = local[d][s]
    BY <1>1, <2>1, <2>2 DEF Replace
  <2> QED BY <1>2, <1>3, <2>3 DEF RowAt
<1> QED BY <1>3 DEF LogIds

LEMMA CommandRestores ==
    ASSUME TypeOK, RestorationInv, NEW d \in Device,
           NEW removed \in Row \cup {None}, NEW created \in Row \cup {None},
           NEW intents \in Seq(Intent),
           Command(d, removed, created, intents),
           \A n \in DOMAIN intents :
               intents[n].op = "unrestore" => intents[n].id \in Ids(removed)
    PROVE  Restored(d)'
<1>0. Restored(d)
  BY DEF RestorationInv, Restored
<1>1. /\ due'[d] = due[d] \ Ids(removed) /\ queue'[d] = intents
      /\ UNCHANGED <<restores, pc, read, todo>>
  BY DEF Command, TypeOK, memory, files
<1>2. LogIds(d) \ Ids(removed) \subseteq LogIds(d)'
  BY LogKeptByCommand DEF Command
<1>3. due'[d] \subseteq restores'[d] /\ due'[d] \subseteq LogIds(d)'
  BY <1>0, <1>1, <1>2 DEF Restored
<1>4. \A n \in DOMAIN queue'[d] :
        queue'[d][n].op = "unrestore" => queue'[d][n].id \notin due'[d]
  BY <1>1
<1>5. Indices(d)' = Indices(d)
  BY <1>1 DEF Indices
<1>6. Returning(d)'
  BY <1>0, <1>1, <1>5 DEF Restored, Returning
<1> QED BY <1>3, <1>4, <1>6 DEF Restored

LEMMA UserRestores ==
    ASSUME TypeOK, RestorationInv, NEW d \in Device, User(d)
    PROVE  Restored(d)'
<1>1. ASSUME NEW row \in Row, UserAdd(d, row) PROVE Restored(d)'
  <2> DEFINE none == <<>>
  <2>1. Command(d, None, row, none)
    BY <1>1 DEF UserAdd
  <2>2. none \in Seq(Intent) /\ DOMAIN none = {}
    OBVIOUS
  <2> HIDE DEF none
  <2> QED BY <2>1, <2>2, CommandRestores
<1>2. ASSUME NEW s \in Start, NEW created \in Row \cup {None}, local[d][s] # None,
             Command(d, RowAt(d, s), created, Deletion(RowAt(d, s)))
      PROVE  Restored(d)'
  <2>1. RowAt(d, s) \in Row
    BY <1>2, RowAtType
  <2>2. /\ Deletion(RowAt(d, s)) \in Seq(Intent)
        /\ \A n \in DOMAIN Deletion(RowAt(d, s)) :
             Deletion(RowAt(d, s))[n].id \in Ids(RowAt(d, s))
    BY <2>1, DeletionIntents
  <2> QED BY <1>2, <2>1, <2>2, CommandRestores
<1>3. ASSUME UserUndo(d) PROVE Restored(d)'
  <2> DEFINE c == journal[d]
  <2>1. c \in Change /\ Command(d, c.created, c.removed, UndoIntents(c))
    BY <1>3, UndoCommand
  <2>2. c.removed \in Row \cup {None} /\ c.created \in Row \cup {None}
    BY <2>1 DEF Change
  <2>3. UndoIntents(c) \in Seq(Intent)
    BY <2>1, UndoIntentsType
  <2>4. \A n \in DOMAIN UndoIntents(c) :
          UndoIntents(c)[n].op = "unrestore" => UndoIntents(c)[n].id \in Ids(c.created)
    BY <2>1, UndoIntentsDrop
  <2> HIDE DEF c
  <2> QED BY <2>1, <2>2, <2>3, <2>4, CommandRestores
<1> QED BY <1>1, <1>2, <1>3 DEF User, UserEdit, UserRemove

\* A restoration becomes due as its file is written, when nothing queued
\* withdraws it and no sync is under way that could have missed it.
LEMMA RecordRestores ==
    ASSUME TypeOK, RestorationInv, NEW d \in Device, Record(d)
    PROVE  Restored(d)'
<1> DEFINE q == queue[d]
           op == Head(q).op
           i == Head(q).id
<1>0. Restored(d)
  BY DEF RestorationInv, Restored
<1>1. q \in Seq(Intent) /\ q # <<>>
  BY DEF Record, TypeOK
<1>2. /\ Head(q) = q[1] /\ 1 \in DOMAIN q /\ queue'[d] = Tail(q)
      /\ \A n \in DOMAIN Tail(q) : \E m \in DOMAIN q : Tail(q)[n] = q[m]
  BY <1>1, TailElements DEF Record, TypeOK
<1>3. UNCHANGED <<local, pc, read, todo>>
  BY DEF Record, memory
<1>4. LogIds(d)' = LogIds(d) /\ Indices(d)' = Indices(d)
  BY <1>3 DEF LogIds, RowAt, Indices
<1>5. \/ due' = due
      \/ /\ op = "restore" /\ pc[d] = "idle" /\ ~Awaits(d, "unrestore", i) /\ i \in LogIds(d)
         /\ due' = [due EXCEPT ![d] = due[d] \cup {i}]
  BY DEF Record
<1>6. restores' = [restores EXCEPT ![d] =
          CASE op = "restore" -> restores[d] \cup {i}
            [] op = "unrestore" -> restores[d] \ {i}
            [] OTHER -> restores[d]]
  BY DEF Record
<1>7. /\ op = "restore" => restores'[d] = restores[d] \cup {i}
      /\ op = "unrestore" => restores'[d] = restores[d] \ {i}
      /\ op \notin {"restore", "unrestore"} => restores'[d] = restores[d]
  BY <1>6 DEF TypeOK
<1>8. op = "unrestore" => i \notin due[d]
  BY <1>0, <1>2 DEF Restored
<1>9. CASE due' = due
  <2>1. due'[d] \subseteq restores'[d]
    BY <1>0, <1>7, <1>8, <1>9 DEF Restored
  <2>2. \A n \in DOMAIN queue'[d] :
          queue'[d][n].op = "unrestore" => queue'[d][n].id \notin due'[d]
    BY <1>0, <1>2, <1>9 DEF Restored
  <2>3. Returning(d)'
    BY <1>0, <1>3, <1>4, <1>9 DEF Restored, Returning
  <2> QED BY <1>0, <1>4, <1>9, <2>1, <2>2, <2>3 DEF Restored
<1>10. CASE /\ op = "restore" /\ pc[d] = "idle" /\ ~Awaits(d, "unrestore", i)
            /\ i \in LogIds(d) /\ due' = [due EXCEPT ![d] = due[d] \cup {i}]
  <2>0. due'[d] = due[d] \cup {i}
    BY <1>10 DEF TypeOK
  <2>1. due'[d] \subseteq restores'[d] /\ due'[d] \subseteq LogIds(d)'
    BY <1>0, <1>4, <1>7, <1>10, <2>0 DEF Restored
  <2>2. ASSUME NEW m \in DOMAIN q, q[m].op = "unrestore" PROVE q[m].id # i
    <3>1. q[m] \in Intent
      BY <1>1
    <3>2. q[m] = [op |-> q[m].op, id |-> q[m].id]
      BY <3>1 DEF Intent
    <3>3. q[m].id = i => q[m] = [op |-> "unrestore", id |-> i]
      BY <2>2, <3>2
    <3> QED BY <1>10, <3>3 DEF Awaits
  <2>3. \A n \in DOMAIN queue'[d] :
          queue'[d][n].op = "unrestore" => queue'[d][n].id \notin due'[d]
    BY <1>0, <1>2, <2>0, <2>2 DEF Restored
  <2>4. Returning(d)'
    BY <1>3, <1>10 DEF Returning
  <2> QED BY <2>1, <2>3, <2>4 DEF Restored
<1> QED BY <1>5, <1>9, <1>10

\* A sync reads what is due before it looks at the log, keeps it because the log
\* holds its entry, and has marked all of it by the time it pushes and pulls.
LEMMA SyncRestores ==
    ASSUME TypeOK, RestorationInv, NEW d \in Device, SyncStep(d)
    PROVE  Restored(d)'
<1> USE DEF memory, files, history
<1>0. /\ Restored(d) /\ d \in DOMAIN read /\ read[d] \in Memory
      /\ d \in DOMAIN pc /\ d \in DOMAIN todo /\ d \in DOMAIN restores
  BY DEF RestorationInv, Restored, TypeOK
<1>1. ASSUME UNCHANGED <<local, queue>>, due'[d] \subseteq due[d],
             due[d] \subseteq restores'[d], Returning(d)'
      PROVE  Restored(d)'
  <2>1. LogIds(d)' = LogIds(d)
    BY <1>1 DEF LogIds, RowAt
  <2> QED BY <1>0, <1>1, <2>1 DEF Restored
<1>2. ASSUME ReadTombs(d) PROVE Restored(d)'
  <2>1. pc'[d] = "restores" /\ UNCHANGED <<local, queue, due, restores>>
    BY <1>0, <1>2 DEF ReadTombs, Goto
  <2>2. Returning(d)'
    BY <2>1 DEF Returning
  <2> QED BY <1>0, <1>1, <2>1, <2>2 DEF Restored
<1>3. ASSUME ReadRestores(d) PROVE Restored(d)'
  <2>1. /\ pc'[d] = "log" /\ read'[d].restores = restores[d]
        /\ UNCHANGED <<local, queue, due, restores>>
    BY <1>0, <1>3 DEF ReadRestores, Goto, Memory
  <2>2. Returning(d)'
    BY <1>0, <2>1 DEF Restored, Returning
  <2> QED BY <1>0, <1>1, <2>1, <2>2 DEF Restored
<1>4. ASSUME ReadLog(d) PROVE Restored(d)'
  <2>1. /\ pc'[d] = "staleTombs" /\ read'[d].restores = read[d].restores
        /\ read'[d].log = Indexed(d)
        /\ UNCHANGED <<local, queue, due, restores>>
    BY <1>0, <1>4 DEF ReadLog, Goto, Memory
  <2>2. due[d] \subseteq read[d].restores
    BY <1>0, <1>4 DEF ReadLog, Restored, Returning
  <2>3. due[d] \subseteq Id
    BY DEF TypeOK
  <2>4. due[d] \subseteq Indices(d)'
    BY <1>0, <2>1, <2>3, IndexedRow DEF Indices, Restored
  <2>5. Returning(d)'
    BY <2>1, <2>2, <2>4 DEF Returning
  <2> QED BY <1>0, <1>1, <2>1, <2>5 DEF Restored
<1>5. ASSUME DropStaleTombs(d) PROVE Restored(d)'
  <2>1. /\ pc'[d] = "staleRestores" /\ read'[d].restores = read[d].restores
        /\ read'[d].log = read[d].log
        /\ UNCHANGED <<local, queue, due, restores>>
    BY <1>0, <1>5 DEF DropStaleTombs, Goto, Memory
  <2>2. Indices(d)' = Indices(d)
    BY <2>1 DEF Indices
  <2>3. due[d] \subseteq read[d].restores /\ due[d] \subseteq Indices(d)
    BY <1>0, <1>5 DEF DropStaleTombs, Restored, Returning
  <2>4. Returning(d)'
    BY <2>1, <2>2, <2>3 DEF Returning
  <2> QED BY <1>0, <1>1, <2>1, <2>4 DEF Restored
<1>6. ASSUME DropStaleRestores(d) PROVE Restored(d)'
  <2> DEFINE kept == read[d].restores \cap Indices(d)
  <2>1. /\ pc'[d] = IF kept = {} THEN "push" ELSE "restore"
        /\ todo'[d] = kept
        /\ restores'[d] = restores[d] \ (read[d].restores \ Indices(d))
        /\ UNCHANGED <<local, queue, due>>
    BY <1>0, <1>6 DEF DropStaleRestores, Loop, Goto
  <2>2. due[d] \subseteq kept
    BY <1>0, <1>6 DEF DropStaleRestores, Restored, Returning
  <2>3. Returning(d)'
    BY <2>1, <2>2 DEF Returning
  <2>4. due[d] \subseteq restores'[d]
    BY <1>0, <2>1, <2>2 DEF Restored
  <2> QED BY <1>1, <2>1, <2>3, <2>4
<1>7. ASSUME MarkRestored(d) PROVE Restored(d)'
  <2>1. PICK b \in Batch(d) :
          /\ Loop(d, todo[d] \ b, "restore", "push")
          /\ due' = [e \in Device |-> due[e] \ b]
    BY <1>7 DEF MarkRestored
  <2>2. /\ todo'[d] = todo[d] \ b
        /\ pc'[d] = IF todo[d] \ b = {} THEN "push" ELSE "restore"
        /\ due'[d] = due[d] \ b
    BY <1>0, <2>1 DEF Loop, Goto
  <2>3. due[d] \subseteq todo[d]
    BY <1>0, <1>7 DEF MarkRestored, Restored, Returning
  <2>4. Returning(d)'
    BY <2>2, <2>3 DEF Returning
  <2>5. UNCHANGED <<local, queue, restores>>
    BY <1>7 DEF MarkRestored
  <2> QED BY <1>0, <1>1, <2>2, <2>4, <2>5 DEF Restored
<1>8. ASSUME \/ Push(d) \/ MarkDeleted(d) \/ GetEntries(d) \/ RemoveRow(d)
             \/ Prune(d) \/ AddRow(d) \/ Confirm(d)
      PROVE  Restored(d)'
  <2>1. due[d] = {}
    BY <1>0, <1>8 DEF Push, MarkDeleted, GetEntries, RemoveRow, Prune, AddRow, Confirm,
                      Restored, Returning
  <2>2. due' = due
    BY <1>8 DEF Push, MarkDeleted, GetEntries, RemoveRow, Prune, AddRow, Confirm
  <2> QED BY <2>1, <2>2, NothingDue
<1> QED BY <1>2, <1>3, <1>4, <1>5, <1>6, <1>7, <1>8 DEF SyncStep

\* A failed or killed sync leaves the files and the log as they are.
LEMMA StopRestores ==
    ASSUME TypeOK, RestorationInv, NEW d \in Device, Abort(d) \/ Crash(d)
    PROVE  Restored(d)'
<1>0. Restored(d)
  BY DEF RestorationInv, Restored
<1>1. UNCHANGED <<local, restores, due>> /\ pc'[d] = "idle"
  BY DEF Abort, Crash, files, history, Return, Goto, TypeOK
<1>2. queue'[d] = queue[d] \/ DOMAIN queue'[d] = {}
  BY DEF Abort, Crash, TypeOK
<1>3. LogIds(d)' = LogIds(d)
  BY <1>1 DEF LogIds, RowAt
<1>4. Returning(d)'
  BY <1>1 DEF Returning
<1>5. \A n \in DOMAIN queue'[d] :
        queue'[d][n].op = "unrestore" => queue'[d][n].id \notin due'[d]
  BY <1>0, <1>1, <1>2 DEF Restored
<1> QED BY <1>0, <1>1, <1>3, <1>4, <1>5 DEF Restored

LEMMA RestorationNext ==
    ASSUME TypeOK, RestorationInv, [Next]_vars
    PROVE  RestorationInv'
<1>1. CASE UNCHANGED vars
  <2>1. ASSUME NEW e \in Device PROVE Restored(e)'
    <3>1. Restored(e) /\ UNCHANGED <<due, restores, local, queue, pc, read, todo>>
      BY <1>1 DEF vars, memory, files, history, RestorationInv, Restored
    <3> QED BY <3>1, OtherRestores
  <2> QED BY <2>1 DEF RestorationInv, Restored
<1>2. ASSUME NEW d \in Device, SyncStep(d) \/ User(d) \/ Record(d) \/ Abort(d) \/ Crash(d)
      PROVE  RestorationInv'
  <2>1. ASSUME NEW e \in Device PROVE Restored(e)'
    <3>1. CASE e = d
      BY <1>2, <3>1, UserRestores, RecordRestores, SyncRestores, StopRestores
    <3>2. CASE e # d
      BY <1>2, <3>2, OthersRestore
    <3> QED BY <3>1, <3>2
  <2> QED BY <2>1 DEF RestorationInv, Restored
<1> QED BY <1>1, <1>2 DEF Next

LEMMA RestorationStart == ASSUME Init PROVE RestorationInv
<1>1. \A d \in Device : due[d] = {}
  BY DEF Init
<1> QED BY <1>1 DEF RestorationInv, Returning

\* The inductive invariant about restorations, in every reachable state.
THEOREM RestorationInvariant == Spec => []RestorationInv
<1>1. Init => TypeOK /\ RestorationInv
  BY InitType, RestorationStart
<1>2. TypeOK /\ RestorationInv /\ [Next]_vars => (TypeOK /\ RestorationInv)'
  BY NextType, RestorationNext
<1> QED BY <1>1, <1>2, PTL DEF Spec

\* An undo of a deletion the cloud has accepted, recorded between two syncs, is
\* neither forgotten by its device nor undone by a pull before the cloud row is
\* live again, on any number of devices, whatever fails and whoever crashes.
THEOREM RestorationsRemembered == Spec => []RestorationRemembered
<1>1. RestorationInv => RestorationRemembered
  BY DEF RestorationInv, RestorationRemembered
<1> QED BY <1>1, RestorationInvariant, PTL
=============================================================================
