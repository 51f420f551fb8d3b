--------------------------- MODULE TimerSyncProofs ---------------------------
(***************************************************************************)
(* Proofs about TimerSync, for every set of devices and titles and every   *)
(* bound: type correctness, that a version names one timer, that a nil     *)
(* timer is never published, that the record implements the versioned row, *)
(* and, by the inductive invariant StopInv, that a stop stands.            *)
(***************************************************************************)
EXTENDS TimerSync, WellFoundedInduction, TLAPS

\* A non-empty set of naturals has a least element.
LEMMA LeastNatural ==
    ASSUME NEW T, T \subseteq Nat, T # {}
    PROVE  \E n \in T : \A m \in T : n <= m
<1> DEFINE R == OpToRel(<, Nat)
<1>1. \A x \in Nat : \A y \in Nat : <<y, x>> \in R <=> y < x
  BY DEF OpToRel
<1>2. IsWellFoundedOn(R, Nat)
  BY NatLessThanWellFounded
<1> HIDE DEF R
<1>3. PICK n \in T : \A m \in T : ~ (<<m, n>> \in R)
  BY <1>2, WFMin
<1>4. ASSUME NEW m \in T PROVE n <= m
  <2>1. m \in Nat /\ n \in Nat
    OBVIOUS
  <2>2. ~ (<<m, n>> \in R)
    BY <1>3
  <2>3. ~ (m < n)
    BY <1>1, <2>1, <2>2
  <2> QED BY <2>1, <2>3
<1> QED BY <1>4

\* The start with which every reader identifies the running activity exists
\* whenever an activity runs: a non-empty set of instants has a latest one.
LEMMA LatestExists ==
    ASSUME NEW S \in SUBSET Instant, S # {}
    PROVE  \E s \in S : \A r \in S : r <= s
<1> DEFINE T == {MaxTime - s : s \in S}
<1>1. T \subseteq Nat
  BY BoundsAssumption DEF Instant
<1>2. T # {}
  OBVIOUS
<1>3. PICK n \in T : \A m \in T : n <= m
  <2> HIDE DEF T
  <2> QED BY <1>1, <1>2, LeastNatural
<1>4. PICK s \in S : n = MaxTime - s
  OBVIOUS
<1>5. ASSUME NEW r \in S PROVE r <= s
  <2>1. n <= MaxTime - r
    BY <1>3
  <2> QED BY <2>1, <1>4, BoundsAssumption DEF Instant
<1> QED BY <1>5

-----------------------------------------------------------------------------
(* Type correctness *)

LEMMA RunningStartType ==
    ASSUME TypeOK, NEW d \in Device
    PROVE  /\ RunningStart(d) \in Instant \cup {None}
           /\ RunningStart(d) # None => RunningStart(d) \in Running(d)
<1>1. CASE Running(d) = {}
  BY <1>1 DEF RunningStart
<1>2. CASE Running(d) # {}
  <2>1. Running(d) \in SUBSET Instant
    BY DEF Running, Open
  <2>2. \E s \in Running(d) : \A r \in Running(d) : r <= s
    BY <1>2, <2>1, LatestExists
  <2>3. RunningStart(d) \in Running(d)
    BY <1>2, <2>2 DEF RunningStart
  <2> QED BY <2>1, <2>3
<1> QED BY <1>1, <1>2

\* The rows of one device after a start, and after any write of one row.
LEMMA StartType ==
    ASSUME TypeOK, NEW d \in Device, NEW s \in Instant, NEW t \in Title,
           NEW clock \in Instant
    PROVE  AfterStart(d, s, t, clock) \in [Instant -> Row \cup {None}]
<1>1. ASSUME NEW r \in Instant
      PROVE  AfterStart(d, s, t, clock)[r] \in Row \cup {None}
  <2>1. local[d][r] \in Row \cup {None}
    BY DEF TypeOK
  <2>2. CASE r = s
    BY <2>2 DEF AfterStart, Row
  <2>3. CASE r # s /\ r \in Running(d)
    BY <2>1, <2>3 DEF AfterStart, Row, Running, Open
  <2>4. CASE r # s /\ r \notin Running(d)
    BY <2>1, <2>4 DEF AfterStart
  <2> QED BY <2>2, <2>3, <2>4
<1> QED BY <1>1 DEF AfterStart

LEMMA StopType ==
    ASSUME TypeOK, NEW d \in Device, NEW s \in Running(d), NEW end \in Instant
    PROVE  AfterStop(d, s, end) \in [Instant -> Row \cup {None}]
<1>1. local[d] \in [Instant -> Row \cup {None}]
  BY DEF TypeOK
<1>2. s \in Instant /\ local[d][s] \in Row
  BY <1>1, NoneAssumption DEF Running, Open
<1>3. [local[d][s] EXCEPT !.end = end] \in Row
  BY <1>2 DEF Row
<1> QED BY <1>1, <1>2, <1>3 DEF AfterStop

LEMMA LocalViewType ==
    ASSUME TypeOK, NEW d \in Device
    PROVE  LocalView(d) \in Timer \cup {None}
<1> DEFINE last == agreed[d].timer
           s == RunningStart(d)
<1>1. last \in Timer \cup {None} /\ local[d] \in [Instant -> Row \cup {None}]
  BY DEF TypeOK, State
<1>2. ASSUME NEW r \in Instant, local[d][r] # None
      PROVE  TimerFrom(r, local[d][r]) \in Timer
  BY <1>1, <1>2 DEF TimerFrom, Timer, Row
<1>3. CASE s # None
  <2>1. s \in Instant /\ local[d][s] # None
    BY <1>3, RunningStartType DEF Running, Open
  <2> QED BY <1>3, <2>1, <1>2 DEF LocalView
<1>4. CASE s = None
  <2>1. CASE last = None
    BY <1>4, <2>1 DEF LocalView
  <2>2. CASE last # None
    <3>1. last \in Timer /\ last.start \in Instant
      BY <2>2, <1>1 DEF Timer
    <3>2. [last EXCEPT !.discarded = TRUE] \in Timer
      BY <3>1 DEF Timer
    <3> QED BY <1>4, <2>2, <3>1, <3>2, <1>2 DEF LocalView
  <2> QED BY <2>1, <2>2
<1> QED BY <1>3, <1>4

\* A command of the user: what it leaves of the type invariant.
LEMMA CommandType ==
    ASSUME TypeOK, NEW d \in Device,
           NEW rows \in [Instant -> Row \cup {None}],
           Command(d, rows), Journal(d, rows),
           now' \in Instant, UNCHANGED resumed
    PROVE  TypeOK'
<1>1. Changes(local[d], rows) \in SUBSET Change
  BY DEF Changes, Change, TypeOK
<1>2. journal' \in [Device -> SUBSET Change]
  BY <1>1 DEF Journal, TypeOK
<1>3. ops' \in 0..MaxOps
  BY BoundsAssumption DEF Command, TypeOK
<1> QED BY <1>2, <1>3 DEF TypeOK, Command

LEMMA UserType ==
    ASSUME TypeOK, NEW d \in Device, User(d)
    PROVE  TypeOK'
<1> DEFINE s == RunningStart(d)
<1>0. /\ s \in Instant \cup {None}
      /\ s # None => s \in Running(d)
      /\ local[d] \in [Instant -> Row \cup {None}]
  BY RunningStartType DEF TypeOK
<1>1. ASSUME NEW t \in Title, UserStart(d, t) PROVE TypeOK'
  <2>1. now + 1 \in Instant /\ now' \in Instant
    BY <1>1, BoundsAssumption DEF UserStart, Tick, TypeOK, Instant
  <2>2. AfterStart(d, now + 1, t, now + 1) \in [Instant -> Row \cup {None}]
    BY <2>1, StartType
  <2> QED BY <1>1, <2>1, <2>2, CommandType DEF UserStart
<1>2. CASE UserStop(d)
  <2>1. now + 1 \in Instant /\ now' \in Instant
    BY <1>2, BoundsAssumption DEF UserStop, Tick, TypeOK, Instant
  <2>2. AfterStop(d, s, now + 1) \in [Instant -> Row \cup {None}]
    BY <1>0, <1>2, <2>1, StopType DEF UserStop
  <2> QED BY <1>2, <2>1, <2>2, CommandType DEF UserStop
<1>3. ASSUME NEW t \in Title, UserEdit(d, t) PROVE TypeOK'
  <2>1. s \in Instant /\ local[d][s] \in Row
    BY <1>0, <1>3 DEF UserEdit, Running, Open
  <2>2. [local[d][s] EXCEPT !.title = t] \in Row
    BY <2>1 DEF Row
  <2>3. [local[d] EXCEPT ![s].title = t] \in [Instant -> Row \cup {None}]
    BY <1>0, <2>1, <2>2
  <2> QED BY <1>3, <2>3, CommandType DEF UserEdit, TypeOK
<1>4. CASE UserDiscard(d)
  <2>1. [local[d] EXCEPT ![s] = None] \in [Instant -> Row \cup {None}]
    BY <1>0, <1>4 DEF UserDiscard
  <2> QED BY <1>4, <2>1, CommandType DEF UserDiscard, TypeOK
<1>5. CASE UserUndo(d)
  <2>1. journal[d] \in SUBSET Change
    BY DEF TypeOK
  <2>2. \A c \in journal[d] : /\ c.start \in Instant
                              /\ c.before \in Row \cup {None}
                              /\ c.after \in Row \cup {None}
    BY <2>1 DEF Change
  <2> DEFINE rows == [r \in Instant |->
                        IF \E c \in journal[d] : c.start = r
                        THEN (CHOOSE c \in journal[d] : c.start = r).before
                        ELSE local[d][r]]
             back == {[start |-> c.start, before |-> c.after, after |-> c.before] :
                        c \in journal[d]}
  <2>3. ASSUME NEW r \in Instant PROVE rows[r] \in Row \cup {None}
    BY <1>0, <2>2
  <2>4. back \in SUBSET Change
    BY <2>2 DEF Change
  <2>6. ops' \in 0..MaxOps
    BY <1>5, BoundsAssumption DEF UserUndo, Command, TypeOK
  <2>7. local' = [local EXCEPT ![d] = rows] /\ journal' = [journal EXCEPT ![d] = back]
    BY <1>5 DEF UserUndo, Command
  <2>8. resumed' \in SUBSET Instant
    BY <1>5 DEF UserUndo, TypeOK
  <2>9. local' \in [Device -> [Instant -> Row \cup {None}]]
    BY <2>3, <2>7 DEF TypeOK
  <2>10. journal' \in [Device -> SUBSET Change]
    BY <2>4, <2>7 DEF TypeOK
  <2> QED BY <1>5, <2>6, <2>8, <2>9, <2>10 DEF UserUndo, Command, TypeOK
<1> QED BY <1>1, <1>2, <1>3, <1>4, <1>5 DEF User

LEMMA AppliedType ==
    ASSUME TypeOK, NEW d \in Device, NEW t \in Timer \cup {None}
    PROVE  /\ Applied(d, t).rows \in [Instant -> Row \cup {None}]
           /\ Applied(d, t).step \in {"save", "restart"}
           /\ Applied(d, t).step = "restart" => IsRunning(t)
<1> DEFINE s == RunningStart(d)
<1>1. /\ local[d] \in [Instant -> Row \cup {None}]
      /\ s \in Instant \cup {None}
      /\ s # None => s \in Running(d)
  BY RunningStartType DEF TypeOK
<1>2. CASE t = None
  BY <1>1, <1>2 DEF Applied
<1>3. CASE t # None
  <2>1. t \in Timer /\ t.start \in Instant /\ t.title \in Title
    BY <1>3 DEF Timer
  <2>2. [local[d] EXCEPT ![s] = None] \in [Instant -> Row \cup {None}]
    BY <1>1
  <2>3. s # None /\ t.end # None
        => AfterStop(d, s, t.end) \in [Instant -> Row \cup {None}]
    BY <1>1, <2>1, StopType DEF Timer
  <2>4. AfterStart(d, t.start, t.title, now) \in [Instant -> Row \cup {None}]
    BY <2>1, StartType DEF TypeOK
  <2>5. CASE t.discarded
    BY <1>1, <1>3, <2>2, <2>5 DEF Applied
  <2>6. CASE ~t.discarded /\ t.end # None
    BY <1>1, <1>3, <2>3, <2>6 DEF Applied
  <2>7. CASE ~t.discarded /\ t.end = None
    BY <1>1, <1>3, <2>2, <2>4, <2>7 DEF Applied, IsRunning
  <2> QED BY <2>5, <2>6, <2>7
<1> QED BY <1>2, <1>3

LEMMA ReturnType ==
    ASSUME TypeOK, NEW d \in Device, Return(d)
    PROVE  /\ pc' \in [Device -> Steps]
           /\ got' \in [Device -> State]
           /\ view' \in [Device -> Timer \cup {None}]
<1>1. Unread \in State
  BY BoundsAssumption DEF Unread, State
<1> QED BY <1>1 DEF Return, TypeOK, Steps

\* A restart is only ever asked for by an edit of a running timer.
RestartRuns == \A d \in Device : pc[d] = "restart" => IsRunning(got[d].timer)

LEMMA ReconcileType ==
    ASSUME TypeOK, RestartRuns, NEW d \in Device, ReconcileStep(d)
    PROVE  TypeOK'
<1>0. got[d] \in State /\ got[d].timer \in Timer \cup {None} /\ record \in State
  BY DEF TypeOK, State
<1>1. CASE Fetch(d)
  BY <1>0, <1>1 DEF Fetch, TypeOK, Steps
<1>2. CASE Unmoved(d)
  BY <1>2, ReturnType DEF Unmoved, TypeOK
<1>3. CASE Decide(d)
  <2>1. LocalView(d) \in Timer \cup {None}
    BY LocalViewType
  <2>2. Settled(LocalView(d), got[d].timer) \in Steps
    BY DEF Settled, Steps
  <2>3. pc' \in [Device -> Steps]
    <3>1. CASE ~RemoteMoved(d)
      BY <1>3, <3>1 DEF Decide, TypeOK, Steps
    <3>2. CASE RemoteMoved(d) /\ ~LocalMoved(d)
      BY <1>3, <3>2 DEF Decide, TypeOK, Steps
    <3>3. CASE RemoteMoved(d) /\ LocalMoved(d)
      BY <1>3, <2>2, <3>3 DEF Decide, TypeOK
    <3> QED BY <3>1, <3>2, <3>3
  <2> QED BY <1>3, <2>1, <2>3 DEF Decide, TypeOK
<1>4. CASE PutWins(d)
  <2>1. got[d].version + 1 \in 0..MaxVersion
    BY <1>0, <1>4, BoundsAssumption DEF PutWins, State
  <2>2. record' \in State
    BY <1>4, <2>1 DEF PutWins, TypeOK, State
  <2> QED BY <1>4, <2>2 DEF PutWins, TypeOK, Steps
<1>5. CASE PutConflicts(d)
  BY <1>5 DEF PutConflicts, TypeOK, Steps
<1>6. CASE SettleConflicts(d)
  BY <1>6, ReturnType DEF SettleConflicts, TypeOK
<1>7. CASE Reread(d)
  <2>1. Settled(view[d], record.timer) \in Steps
    BY DEF Settled, Steps
  <2> QED BY <1>0, <1>7, <2>1 DEF Reread, TypeOK
<1>8. CASE Apply(d)
  <2>1. /\ Applied(d, got[d].timer).rows \in [Instant -> Row \cup {None}]
        /\ Applied(d, got[d].timer).step \in Steps
    BY <1>0, AppliedType DEF Steps
  <2> QED BY <1>8, <2>1 DEF Apply, TypeOK
<1>9. CASE ApplyRestart(d)
  <2>1. got[d].timer.start \in Instant /\ got[d].timer.title \in Title
    BY <1>0, <1>9 DEF ApplyRestart, RestartRuns, IsRunning, Timer
  <2>2. AfterStart(d, got[d].timer.start, got[d].timer.title, now)
            \in [Instant -> Row \cup {None}]
    BY <2>1, StartType DEF TypeOK
  <2> QED BY <1>9, <2>2 DEF ApplyRestart, TypeOK, Steps
<1>10. CASE Save(d)
  BY <1>0, <1>10, ReturnType DEF Save, TypeOK
<1> QED BY <1>1, <1>2, <1>3, <1>4, <1>5, <1>6, <1>7, <1>8, <1>9, <1>10
        DEF ReconcileStep

LEMMA RestartStep ==
    ASSUME TypeOK, RestartRuns, [Next]_vars
    PROVE  RestartRuns'
<1>1. ASSUME NEW d \in Device, NEW e \in Device, ReconcileStep(d), pc'[e] = "restart"
      PROVE  IsRunning(got'[e].timer)
  <2>1. CASE Apply(d)
    <3>1. got[d].timer \in Timer \cup {None}
      BY DEF TypeOK, State
    <3> QED BY <1>1, <2>1, <3>1, AppliedType DEF Apply, TypeOK, RestartRuns
  <2>2. CASE ~Apply(d)
    <3>1. Settled(view[d], record.timer) # "restart"
          /\ Settled(LocalView(d), got[d].timer) # "restart"
      BY DEF Settled
    <3>2. CASE Decide(d)
      BY <1>1, <3>1, <3>2 DEF RestartRuns, TypeOK, Decide
    <3> QED BY <1>1, <2>2, <3>1, <3>2
            DEF ReconcileStep, RestartRuns, TypeOK, Fetch, Unmoved, PutWins,
                PutConflicts, SettleConflicts, Reread, ApplyRestart, Save, Return
  <2> QED BY <2>1, <2>2
<1>2. ASSUME NEW d \in Device, User(d) PROVE RestartRuns'
  BY <1>2 DEF User, UserStart, UserStop, UserEdit, UserDiscard, UserUndo, Command,
              RestartRuns
<1>3. ASSUME NEW d \in Device, Abort(d) PROVE RestartRuns'
  BY <1>3 DEF Abort, Return, RestartRuns, TypeOK
<1>4. CASE UNCHANGED vars
  BY <1>4 DEF vars, RestartRuns
<1> QED BY <1>1, <1>2, <1>3, <1>4 DEF Next, RestartRuns

LEMMA AbortType ==
    ASSUME TypeOK, NEW d \in Device, Abort(d)
    PROVE  TypeOK'
<1>1. fails' \in 0..MaxFails
  BY BoundsAssumption DEF Abort, TypeOK
<1> QED BY <1>1, ReturnType DEF Abort, TypeOK

\* Every behaviour of the timer sync keeps its state in its types.
THEOREM TypeCorrect == Spec => [](TypeOK /\ RestartRuns)
<1>1. Init => TypeOK /\ RestartRuns
  BY NoneAssumption, BoundsAssumption
  DEF Init, TypeOK, RestartRuns, IsRunning, State, Instant, Steps
<1>2. TypeOK /\ RestartRuns /\ [Next]_vars => (TypeOK /\ RestartRuns)'
  <2> SUFFICES ASSUME TypeOK, RestartRuns, [Next]_vars
               PROVE  TypeOK' /\ RestartRuns'
    OBVIOUS
  <2>1. ASSUME Next PROVE TypeOK'
    BY <2>1, UserType, ReconcileType, AbortType DEF Next
  <2>2. ASSUME UNCHANGED vars PROVE TypeOK'
    BY <2>2 DEF vars, TypeOK
  <2> QED BY <2>1, <2>2, RestartStep
<1> QED BY <1>1, <1>2, PTL DEF Spec

-----------------------------------------------------------------------------
(* A version names one timer *)

\* Only the row nobody has written yet has version 0.
UnwrittenIsEmpty == record.version = 0 => record.timer = None

\* The steps that leave the record, and what the devices know of it, alone.
LEMMA UserLeavesRecord ==
    ASSUME NEW d \in Device, User(d)
    PROVE  UNCHANGED <<record, agreed, pc, got, view>>
BY DEF User, UserStart, UserStop, UserEdit, UserDiscard, UserUndo, Command

\* What a device newly holds after its own step is what it held, what the
\* record says, or the state of a row never written.
LEMMA HeldStates ==
    ASSUME TypeOK, NEW d \in Device, ReconcileStep(d) \/ Abort(d), ~PutWins(d)
    PROVE  /\ UNCHANGED record
           /\ \A e \in Device : /\ agreed'[e] \in {agreed[e], got[e]}
                                /\ got'[e] \in {got[e], record, Unread}
<1>1. CASE Fetch(d) \/ Reread(d)
  BY <1>1 DEF Fetch, Reread, TypeOK
<1>2. CASE Unmoved(d) \/ SettleConflicts(d) \/ Abort(d)
  BY <1>2 DEF Unmoved, SettleConflicts, Abort, Return, TypeOK
<1>3. CASE Decide(d) \/ PutConflicts(d) \/ Apply(d) \/ ApplyRestart(d)
  BY <1>3 DEF Decide, PutConflicts, Apply, ApplyRestart
<1>4. CASE Save(d)
  BY <1>4 DEF Save, Return, TypeOK
<1> QED BY <1>1, <1>2, <1>3, <1>4 DEF ReconcileStep

LEMMA VersionStep ==
    ASSUME TypeOK, UnwrittenIsEmpty, VersionNamesTimer, [Next]_vars
    PROVE  UnwrittenIsEmpty' /\ VersionNamesTimer'
<1>0. /\ record \in State /\ record.version \in Nat
      /\ \A e \in Device : /\ agreed[e] \in State /\ agreed[e].version \in Nat
                           /\ got[e] \in State /\ got[e].version \in Nat
  BY BoundsAssumption DEF TypeOK, State
<1>1. ASSUME NEW d \in Device, PutWins(d)
      PROVE  UnwrittenIsEmpty' /\ VersionNamesTimer'
  <2>1. /\ record'.version = record.version + 1
        /\ got' = [got EXCEPT ![d] = record']
        /\ agreed' = agreed
    BY <1>0, <1>1 DEF PutWins
  <2>2. UnwrittenIsEmpty'
    BY <1>0, <2>1 DEF UnwrittenIsEmpty
  <2>3. ASSUME NEW e \in Device, NEW s \in {agreed'[e], got'[e]}
        PROVE  /\ s.version <= record'.version
               /\ s.version = record'.version => s.timer = record'.timer
    <3>1. CASE s = record'
      BY <1>0, <2>1, <3>1
    <3>2. CASE s # record'
      <4>1. s \in {agreed[e], got[e]}
        BY <1>1, <2>1, <3>2 DEF TypeOK
      <4>2. s.version <= record.version /\ s.version \in Nat
        BY <1>0, <4>1 DEF VersionNamesTimer
      <4> QED BY <1>0, <2>1, <4>2
    <3> QED BY <3>1, <3>2
  <2> QED BY <2>2, <2>3 DEF VersionNamesTimer
<1>2. ASSUME NEW d \in Device, ReconcileStep(d) \/ Abort(d), ~PutWins(d)
      PROVE  UnwrittenIsEmpty' /\ VersionNamesTimer'
  <2>1. /\ UNCHANGED record
        /\ \A e \in Device : /\ agreed'[e] \in {agreed[e], got[e]}
                             /\ got'[e] \in {got[e], record, Unread}
    BY <1>2, HeldStates
  <2>2. ASSUME NEW e \in Device, NEW s \in {agreed'[e], got'[e]}
        PROVE  /\ s.version <= record'.version
               /\ s.version = record'.version => s.timer = record'.timer
    <3>1. CASE s \in {agreed[e], got[e]}
      BY <2>1, <3>1 DEF VersionNamesTimer
    <3>2. CASE s = record
      BY <1>0, <2>1, <3>2
    <3>3. CASE s = Unread
      BY <1>0, <2>1, <3>3 DEF Unread, UnwrittenIsEmpty
    <3> QED BY <2>1, <3>1, <3>2, <3>3
  <2> QED BY <2>1, <2>2 DEF VersionNamesTimer, UnwrittenIsEmpty
<1>3. ASSUME NEW d \in Device, User(d)
      PROVE  UnwrittenIsEmpty' /\ VersionNamesTimer'
  BY <1>3, UserLeavesRecord DEF VersionNamesTimer, UnwrittenIsEmpty
<1>4. CASE UNCHANGED vars
  BY <1>4 DEF vars, VersionNamesTimer, UnwrittenIsEmpty
<1> QED BY <1>1, <1>2, <1>3, <1>4 DEF Next

\* The number alone tells a device whether the record moved since it agreed
\* (timersync.go:82), through lost answers, crashes before the save and racing
\* writers, for every number of devices.
THEOREM VersionsNameTimers == Spec => []VersionNamesTimer
<1>1. Init => UnwrittenIsEmpty /\ VersionNamesTimer
  BY DEF Init, UnwrittenIsEmpty, VersionNamesTimer
<1>2. /\ TypeOK /\ UnwrittenIsEmpty /\ VersionNamesTimer /\ [Next]_vars
      => (UnwrittenIsEmpty /\ VersionNamesTimer)'
  BY VersionStep
<1> QED BY <1>1, <1>2, TypeCorrect, PTL DEF Spec

-----------------------------------------------------------------------------
(* A nil timer is never published *)

\* A device that has agreed on some timer always has one to show.
LEMMA ViewOfAgreed ==
    ASSUME TypeOK, NEW d \in Device, LocalView(d) = None
    PROVE  agreed[d].timer = None
<1> DEFINE last == agreed[d].timer
           s == RunningStart(d)
<1> SUFFICES ASSUME last # None PROVE FALSE
  OBVIOUS
<1>1. last \in Timer /\ last.start \in Instant
  BY DEF TypeOK, State, Timer
<1>2. local[d] \in [Instant -> Row \cup {None}]
  BY DEF TypeOK
<1>3. ASSUME NEW r \in Instant, local[d][r] # None
      PROVE  TimerFrom(r, local[d][r]) # None
  <2>1. TimerFrom(r, local[d][r]) \in Timer
    BY <1>2, <1>3 DEF TimerFrom, Timer, Row
  <2> QED BY <2>1, NoneAssumption
<1>4. [last EXCEPT !.discarded = TRUE] # None
  <2>1. [last EXCEPT !.discarded = TRUE] \in Timer
    BY <1>1 DEF Timer
  <2> QED BY <2>1, NoneAssumption
<1>5. s # None => s \in Instant /\ local[d][s] # None
  BY RunningStartType DEF Running, Open
<1> QED BY <1>1, <1>3, <1>4, <1>5 DEF LocalView

LEMMA ViewStep ==
    ASSUME TypeOK, PublishedViewExists, [Next]_vars
    PROVE  PublishedViewExists'
<1>1. ASSUME NEW d \in Device, NEW e \in Device, ReconcileStep(d) \/ Abort(d),
             pc'[e] \in {"put", "putSettled"}
      PROVE  view'[e] # None
  <2>1. CASE Decide(d)
    <3>1. CASE e # d
      BY <1>1, <2>1, <3>1 DEF Decide, TypeOK, PublishedViewExists
    <3>2. CASE e = d /\ ~RemoteMoved(d)
      <4>1. LocalView(d) # agreed[d].timer
        BY <2>1, <3>2 DEF Decide, LocalMoved, SameTimer
      <4>2. view'[e] = LocalView(d)
        BY <2>1, <3>2 DEF Decide, TypeOK
      <4> QED BY <4>1, <4>2, ViewOfAgreed
    <3>3. CASE e = d /\ RemoteMoved(d)
      <4>1. pc'[d] \in {"apply", Settled(LocalView(d), got[d].timer)}
        BY <2>1, <3>3 DEF Decide, TypeOK
      <4>2. view'[e] = LocalView(d)
        BY <2>1, <3>3 DEF Decide, TypeOK
      <4> QED BY <1>1, <3>3, <4>1, <4>2 DEF Settled, RemoteWins
    <3> QED BY <3>1, <3>2, <3>3
  <2>2. CASE Reread(d)
    BY <1>1, <2>2 DEF Reread, TypeOK, PublishedViewExists, Settled, RemoteWins
  <2>3. CASE Apply(d)
    <3>1. Applied(d, got[d].timer).step \in {"save", "restart"}
      BY AppliedType DEF TypeOK, State
    <3> QED BY <1>1, <2>3, <3>1 DEF Apply, TypeOK, PublishedViewExists
  <2>4. CASE Unmoved(d) \/ SettleConflicts(d) \/ Save(d) \/ Abort(d)
    BY <1>1, <2>4 DEF Unmoved, SettleConflicts, Save, Abort, Return, TypeOK,
                      PublishedViewExists
  <2>5. CASE Fetch(d) \/ PutWins(d) \/ PutConflicts(d) \/ ApplyRestart(d)
    BY <1>1, <2>5 DEF Fetch, PutWins, PutConflicts, ApplyRestart, TypeOK,
                      PublishedViewExists
  <2> QED BY <1>1, <2>1, <2>2, <2>3, <2>4, <2>5 DEF ReconcileStep
<1>2. ASSUME NEW d \in Device, User(d)
      PROVE  PublishedViewExists'
  BY <1>2, UserLeavesRecord DEF PublishedViewExists
<1>3. CASE UNCHANGED vars
  BY <1>3 DEF vars, PublishedViewExists
<1> QED BY <1>1, <1>2, <1>3 DEF Next, PublishedViewExists

\* Reconcile and settle never dereference a nil timer (timersync.go:87, 110).
THEOREM ViewsArePublished == Spec => []PublishedViewExists
<1>1. Init => PublishedViewExists
  BY DEF Init, PublishedViewExists
<1>2. TypeOK /\ PublishedViewExists /\ [Next]_vars => PublishedViewExists'
  BY ViewStep
<1> QED BY <1>1, <1>2, TypeCorrect, PTL DEF Spec

-----------------------------------------------------------------------------
(* The record implements the versioned row *)

LEMMA RecordStep ==
    ASSUME TypeOK, PublishedViewExists, [Next]_vars
    PROVE  [Rec!Next]_[version |-> record.version, value |-> record.timer]
<1>1. ASSUME NEW d \in Device, PutWins(d)
      PROVE  Rec!Next
  <2>1. got[d].version \in 0..MaxVersion
    BY DEF TypeOK, State
  <2>2. view[d] \in Timer
    BY <1>1 DEF TypeOK, PublishedViewExists, PutWins
  <2>3. Rec!Swap(got[d].version, view[d])
    BY <1>1, <2>1 DEF PutWins, Rec!Swap
  <2> QED BY <2>1, <2>2, <2>3 DEF Rec!Next
<1>2. ASSUME NEW d \in Device, ReconcileStep(d) \/ Abort(d), ~PutWins(d)
      PROVE  UNCHANGED record
  BY <1>2, HeldStates
<1>3. ASSUME NEW d \in Device, User(d) PROVE UNCHANGED record
  BY <1>3, UserLeavesRecord
<1>4. CASE UNCHANGED vars
  BY <1>4 DEF vars
<1> QED BY <1>1, <1>2, <1>3, <1>4 DEF Next

\* Whatever the devices do, the record is a versioned row: a write replaces a
\* version its writer named, and no write is silently overwritten.
THEOREM RecordImplementsRow == Spec => RecordIsVersioned
<1>1. Init => Rec!Init
  BY DEF Init, Rec!Init
<1>2. TypeOK /\ PublishedViewExists /\ [Next]_vars
      => [Rec!Next]_[version |-> record.version, value |-> record.timer]
  BY RecordStep
<1> QED BY <1>1, <1>2, TypeCorrect, ViewsArePublished, PTL
        DEF Spec, RecordIsVersioned, Rec!Spec

-----------------------------------------------------------------------------
(* A stop stands: each part of StopInv is preserved by a lemma of its own,   *)
(* which rests on what a step can do to what runs on a device.               *)

Facts == TypeOK /\ RestartRuns /\ UnwrittenIsEmpty /\ VersionNamesTimer

-----------------------------------------------------------------------------
(* What runs on a device after a step *)

\* Starting leaves exactly one activity running.
LEMMA StartRuns ==
    ASSUME TypeOK, NEW d \in Device, NEW s \in Instant, NEW t \in Title,
           NEW clock \in Instant,
           NEW rows, rows = AfterStart(d, s, t, clock)
    PROVE  {r \in Instant : Open(rows[r])} = {s}
<1>1. Open(rows[s])
  <2>1. rows[s] = [title |-> t, end |-> None]
    BY DEF AfterStart
  <2>2. rows[s] \in Row
    BY <2>1 DEF Row
  <2> QED BY <2>1, <2>2, NoneAssumption DEF Open
<1>2. ASSUME NEW r \in Instant, r # s PROVE ~Open(rows[r])
  <2>1. CASE r \in Running(d)
    <3>1. rows[r] = [local[d][r] EXCEPT !.end = IF s < r THEN clock ELSE s]
      BY <1>2, <2>1 DEF AfterStart
    <3>2. local[d][r] \in Row
      BY <2>1 DEF TypeOK, Running, Open
    <3>3. rows[r].end \in Instant
      BY <3>1, <3>2 DEF Row
    <3> QED BY <3>3, NoneAssumption DEF Open
  <2>2. CASE r \notin Running(d)
    BY <1>2, <2>2 DEF AfterStart, Running
  <2> QED BY <2>1, <2>2
<1> QED BY <1>1, <1>2

\* Stopping the activity at s takes it, and no other, out.
LEMMA StopRuns ==
    ASSUME TypeOK, NEW d \in Device, NEW s \in Running(d), NEW end \in Instant,
           NEW rows, rows = AfterStop(d, s, end)
    PROVE  {r \in Instant : Open(rows[r])} = Running(d) \ {s}
<1>1. local[d] \in [Instant -> Row \cup {None}] /\ local[d][s] \in Row /\ s \in Instant
  BY DEF TypeOK, Running, Open
<1>2. rows[s].end = end
  BY <1>1 DEF AfterStop, Row
<1>3. ~Open(rows[s])
  BY <1>2, NoneAssumption DEF Open
<1>4. \A r \in Instant : r # s => rows[r] = local[d][r]
  BY <1>1 DEF AfterStop
<1> QED BY <1>3, <1>4 DEF Running

\* A command of the user only ends what runs, or reopens activities by an
\* undo, which `resumed' records, or starts one at an instant never used.
LEMMA UserRunning ==
    ASSUME TypeOK, NEW d \in Device, User(d)
    PROVE  /\ resumed \subseteq resumed'
           /\ \A e \in Device :
                \/ Running(e)' \subseteq Running(e)
                \/ Running(e)' \subseteq resumed'
                \/ Running(e)' = {now + 1} /\ now' = now + 1
<1> DEFINE s == RunningStart(d)
<1>0. /\ local[d] \in [Instant -> Row \cup {None}]
      /\ s \in Instant \cup {None}
      /\ s # None => s \in Running(d)
  BY RunningStartType DEF TypeOK
<1>1. ASSUME NEW t \in Title, UserStart(d, t)
      PROVE  UNCHANGED resumed /\ Running(d)' = {now + 1} /\ now' = now + 1
  <2>1. now + 1 \in Instant
    BY <1>1, BoundsAssumption DEF UserStart, Tick, TypeOK, Instant
  <2>2. local'[d] = AfterStart(d, now + 1, t, now + 1)
    BY <1>1 DEF UserStart, Command, TypeOK
  <2>3. {r \in Instant : Open(local'[d][r])} = {now + 1}
    BY <2>1, <2>2, StartRuns
  <2> QED BY <1>1, <2>3 DEF UserStart, Tick, Running
<1>2. ASSUME UserStop(d)
      PROVE  UNCHANGED resumed /\ Running(d)' \subseteq Running(d)
  <2>1. now + 1 \in Instant
    BY <1>2, BoundsAssumption DEF UserStop, Tick, TypeOK, Instant
  <2>2. local'[d] = AfterStop(d, s, now + 1)
    BY <1>2 DEF UserStop, Command, TypeOK
  <2>3. s \in Running(d)
    BY <1>0, <1>2 DEF UserStop
  <2>4. {r \in Instant : Open(local'[d][r])} = Running(d) \ {s}
    BY <2>1, <2>2, <2>3, StopRuns
  <2> QED BY <1>2, <2>4 DEF UserStop, Running
<1>3. ASSUME NEW t \in Title, UserEdit(d, t)
      PROVE  UNCHANGED resumed /\ Running(d)' \subseteq Running(d)
  <2>1. s \in Running(d)
    BY <1>0, <1>3 DEF UserEdit
  <2>2. local'[d] = [local[d] EXCEPT ![s].title = t]
    BY <1>3 DEF UserEdit, Command, TypeOK
  <2>3. \A r \in Instant : r # s => local'[d][r] = local[d][r]
    BY <1>0, <2>2
  <2> QED BY <1>3, <2>1, <2>3 DEF UserEdit, Running
<1>4. ASSUME UserDiscard(d)
      PROVE  UNCHANGED resumed /\ Running(d)' \subseteq Running(d)
  <2>1. local'[d] = [local[d] EXCEPT ![s] = None]
    BY <1>4 DEF UserDiscard, Command, TypeOK
  <2>2. \A r \in Instant : local'[d][r] \in {None, local[d][r]}
    BY <1>0, <2>1
  <2> QED BY <1>4, <2>2 DEF UserDiscard, Running, Open
<1>5. ASSUME UserUndo(d)
      PROVE  /\ resumed \subseteq resumed'
             /\ Running(d)' \subseteq Running(d) \/ Running(d)' \subseteq resumed'
  <2> DEFINE rows == [r \in Instant |->
                        IF \E c \in journal[d] : c.start = r
                        THEN (CHOOSE c \in journal[d] : c.start = r).before
                        ELSE local[d][r]]
             reopens == \E c \in journal[d] : Open(c.before) /\ ~Open(c.after)
  <2>1. /\ local'[d] = rows
        /\ resumed' = IF reopens
                      THEN resumed \cup {r \in Instant : Open(rows[r])}
                      ELSE resumed
        /\ \A c \in journal[d] : local[d][c.start] = c.after
    BY <1>5 DEF UserUndo, Command, TypeOK
  <2>2. CASE reopens
    BY <2>1, <2>2 DEF Running
  <2>3. CASE ~reopens
    <3>1. ASSUME NEW r \in Instant, Open(rows[r]) PROVE Open(local[d][r])
      <4>1. CASE \E c \in journal[d] : c.start = r
        <5>1. PICK c \in journal[d] : c.start = r /\ rows[r] = c.before
          BY <4>1
        <5> QED BY <2>1, <2>3, <3>1, <5>1
      <4>2. CASE ~ \E c \in journal[d] : c.start = r
        BY <3>1, <4>2
      <4> QED BY <4>1, <4>2
    <3> QED BY <2>1, <2>3, <3>1 DEF Running
  <2> QED BY <2>2, <2>3
<1>6. resumed \subseteq resumed'
      /\ \/ Running(d)' \subseteq Running(d)
         \/ Running(d)' \subseteq resumed'
         \/ Running(d)' = {now + 1} /\ now' = now + 1
  BY <1>1, <1>2, <1>3, <1>4, <1>5 DEF User
<1>7. \A e \in Device : e # d => Running(e)' = Running(e)
  BY DEF User, UserStart, UserStop, UserEdit, UserDiscard, UserUndo, Command,
         TypeOK, Running
<1> QED BY <1>6, <1>7

\* What applying the record writes: nothing, the removal or the stop of the
\* same running activity, or a start.
LEMMA AppliedRows ==
    ASSUME NEW d \in Device, NEW t
    PROVE  LET s == RunningStart(d)
               next == Applied(d, t)
           IN  \/ next.rows = local[d]
               \/ s # None /\ next.rows = [local[d] EXCEPT ![s] = None]
               \/ /\ t # None /\ s # None /\ t.end # None /\ s = t.start
                  /\ next.rows = AfterStop(d, s, t.end)
               \/ /\ IsRunning(t) /\ next.step = "save"
                  /\ next.rows = AfterStart(d, t.start, t.title, now)
<1>1. CASE t = None
  BY <1>1 DEF Applied
<1>2. CASE t # None /\ t.discarded
  BY <1>2 DEF Applied
<1>3. CASE t # None /\ ~t.discarded /\ t.end # None
  BY <1>3 DEF Applied
<1>4. CASE t # None /\ ~t.discarded /\ t.end = None
  BY <1>4 DEF Applied, IsRunning
<1> QED BY <1>1, <1>2, <1>3, <1>4

\* Applying the record to the local rows starts its timer, or starts nothing.
LEMMA AppliedRuns ==
    ASSUME TypeOK, NEW d \in Device, NEW t \in Timer \cup {None}
    PROVE  LET next == Applied(d, t)
               runs == {r \in Instant : Open(next.rows[r])}
           IN  \/ runs \subseteq Running(d)
               \/ next.step = "save" /\ IsRunning(t) /\ runs = {t.start}
<1> DEFINE s == RunningStart(d)
           next == Applied(d, t)
           runs == {r \in Instant : Open(next.rows[r])}
<1>1. /\ local[d] \in [Instant -> Row \cup {None}]
      /\ s \in Instant \cup {None}
      /\ s # None => s \in Running(d)
  BY RunningStartType DEF TypeOK
<1>2. CASE next.rows = local[d]
  BY <1>2 DEF Running
<1>3. CASE s # None /\ next.rows = [local[d] EXCEPT ![s] = None]
  <2>1. \A r \in Instant : next.rows[r] \in {None, local[d][r]}
    BY <1>1, <1>3
  <2> QED BY <2>1 DEF Running, Open
<1>4. CASE t # None /\ s # None /\ t.end # None /\ next.rows = AfterStop(d, s, t.end)
  <2>1. t.end \in Instant
    BY <1>4 DEF Timer
  <2>2. {r \in Instant : Open(next.rows[r])} = Running(d) \ {s}
    <3> HIDE DEF next
    <3> QED BY <1>1, <1>4, <2>1, StopRuns
  <2> QED BY <2>2
<1>5. CASE /\ IsRunning(t) /\ next.step = "save"
           /\ next.rows = AfterStart(d, t.start, t.title, now)
  <2>1. t.start \in Instant /\ t.title \in Title /\ now \in Instant
    BY <1>5 DEF IsRunning, Timer, TypeOK
  <2>2. {r \in Instant : Open(next.rows[r])} = {t.start}
    <3> HIDE DEF next
    <3> QED BY <1>5, <2>1, StartRuns
  <2> QED BY <1>5, <2>2
<1> QED BY <1>2, <1>3, <1>4, <1>5, AppliedRows

\* Applying a stopped timer leaves it stopped here: were it running and not
\* the activity every reader picks, two would run without an undo.
LEMMA AppliedStops ==
    ASSUME TypeOK, RunsAlone, NEW d \in Device, NEW t \in Timer,
           Ended(t), t.start \notin resumed
    PROVE  ~Open(Applied(d, t).rows[t.start])
<1> DEFINE s == RunningStart(d)
<1>1. /\ local[d] \in [Instant -> Row \cup {None}]
      /\ s \in Instant \cup {None}
      /\ s # None => s \in Running(d)
      /\ t.start \in Instant
  BY RunningStartType DEF TypeOK, Timer
<1>2. Ended(t) => t # None /\ (t.discarded \/ t.end # None)
  BY DEF Ended, IsRunning
<1>3. t.start \in Running(d) => s = t.start
  <2>1. SUFFICES ASSUME t.start \in Running(d) PROVE s = t.start
    OBVIOUS
  <2>2. Running(d) = {t.start}
    BY <2>1 DEF RunsAlone
  <2>3. s \in Running(d)
    BY <1>1, <2>2, LatestExists DEF RunningStart
  <2> QED BY <2>2, <2>3
<1>4. CASE s = t.start
  <2>1. CASE t.discarded
    <3>1. Applied(d, t).rows = [local[d] EXCEPT ![s] = None]
      BY <1>1, <1>2, <1>4, <2>1, NoneAssumption DEF Applied
    <3> QED BY <1>1, <1>4, <3>1 DEF Open
  <2>2. CASE ~t.discarded
    <3>1. t.end \in Instant /\ s # None
      BY <1>1, <1>2, <1>4, <2>2, NoneAssumption DEF Timer
    <3>2. Applied(d, t).rows = AfterStop(d, s, t.end)
      BY <1>2, <1>4, <2>2, <3>1, NoneAssumption DEF Applied
    <3>3. {r \in Instant : Open(Applied(d, t).rows[r])} = Running(d) \ {s}
      BY <1>1, <3>1, <3>2, StopRuns
    <3> QED BY <1>1, <1>4, <3>3
  <2> QED BY <2>1, <2>2
<1>5. CASE s # t.start
  <2>1. Applied(d, t).rows = local[d]
    BY <1>2, <1>5 DEF Applied
  <2> QED BY <1>1, <1>3, <1>5, <2>1 DEF Running
<1> QED BY <1>4, <1>5

\* A reconcile step only ends what runs, or starts the record's timer.
LEMMA ReconcileRunning ==
    ASSUME Facts, NEW d \in Device, ReconcileStep(d) \/ Abort(d)
    PROVE  /\ UNCHANGED <<now, resumed, journal>>
           /\ \A e \in Device : e # d => Running(e)' = Running(e)
           /\ \/ Running(d)' \subseteq Running(d)
              \/ /\ pc[d] \in {"apply", "restart"} /\ pc'[d] = "save"
                 /\ IsRunning(got[d].timer) /\ got'[d] = got[d]
                 /\ Running(d)' = {got[d].timer.start}
<1>1. CASE Apply(d)
  <2>1. got[d].timer \in Timer \cup {None}
    BY DEF Facts, TypeOK, State
  <2>2. local'[d] = Applied(d, got[d].timer).rows
    BY <1>1 DEF Apply, Facts, TypeOK
  <2>3. pc[d] = "apply" /\ pc'[d] = Applied(d, got[d].timer).step /\ got' = got
    BY <1>1 DEF Apply, Facts, TypeOK
  <2>4. \A e \in Device : e # d => Running(e)' = Running(e)
    BY <1>1 DEF Apply, Facts, TypeOK, Running
  <2>5. \/ Running(d)' \subseteq Running(d)
        \/ /\ Applied(d, got[d].timer).step = "save" /\ IsRunning(got[d].timer)
           /\ Running(d)' = {got[d].timer.start}
    BY <2>1, <2>2, AppliedRuns DEF Running, Facts
  <2> QED BY <1>1, <2>3, <2>4, <2>5 DEF Apply
<1>2. CASE ApplyRestart(d)
  <2> DEFINE t == got[d].timer
  <2>1. IsRunning(t)
    BY <1>2 DEF ApplyRestart, Facts, RestartRuns
  <2>2. t.start \in Instant /\ t.title \in Title /\ now \in Instant
    BY <2>1 DEF Facts, TypeOK, State, IsRunning, Timer
  <2>3. local'[d] = AfterStart(d, t.start, t.title, now)
    BY <1>2 DEF ApplyRestart, Facts, TypeOK
  <2>4. {r \in Instant : Open(local'[d][r])} = {t.start}
    BY <2>2, <2>3, StartRuns DEF Facts
  <2> QED BY <1>2, <2>1, <2>4 DEF ApplyRestart, Facts, TypeOK, Running
<1>3. CASE ~Apply(d) /\ ~ApplyRestart(d)
  BY <1>3 DEF ReconcileStep, Fetch, Unmoved, Decide, PutWins, PutConflicts,
              SettleConflicts, Reread, Save, Abort, Running
<1> QED BY <1>1, <1>2, <1>3

-----------------------------------------------------------------------------
(* The parts of the invariant *)

\* One activity runs at a time, unless an undo reopened something beside it.
LEMMA AloneStep ==
    ASSUME Facts, RunsAlone, [Next]_vars
    PROVE  RunsAlone'
<1>1. ASSUME NEW d \in Device, User(d), NEW e \in Device, NEW s \in Running(e)' \ resumed'
      PROVE  Running(e)' = {s}
  <2>1. /\ resumed \subseteq resumed'
        /\ \/ Running(e)' \subseteq Running(e)
           \/ Running(e)' \subseteq resumed'
           \/ Running(e)' = {now + 1}
    BY <1>1, UserRunning DEF Facts
  <2> QED BY <1>1, <2>1 DEF RunsAlone
<1>2. ASSUME NEW d \in Device, ReconcileStep(d) \/ Abort(d), NEW e \in Device,
             NEW s \in Running(e)' \ resumed'
      PROVE  Running(e)' = {s}
  <2>1. /\ resumed' = resumed
        /\ \/ Running(e)' \subseteq Running(e)
           \/ Running(e)' = {got[d].timer.start}
    BY <1>2, ReconcileRunning
  <2> QED BY <1>2, <2>1 DEF RunsAlone
<1>3. CASE UNCHANGED vars
  BY <1>3 DEF vars, RunsAlone, Running
<1> QED BY <1>1, <1>2, <1>3 DEF Next, RunsAlone

\* Times run forward.
LEMMA LaterIsTimely ==
    ASSUME NEW s \in Instant, NEW row \in Row \cup Timer \cup {None},
           NEW clock \in Instant, NEW later \in Instant, clock <= later,
           TimelyRow(s, row, clock)
    PROVE  TimelyRow(s, row, later)
BY BoundsAssumption DEF TimelyRow, Instant

LEMMA StartTimely ==
    ASSUME TypeOK, NEW d \in Device, NEW s \in Instant, NEW t \in Title,
           NEW clock \in Instant, now <= clock, s <= clock,
           \A r \in Instant : TimelyRow(r, local[d][r], now),
           NEW r \in Instant
    PROVE  TimelyRow(r, AfterStart(d, s, t, clock)[r], clock)
<1> DEFINE row == AfterStart(d, s, t, clock)[r]
<1>1. now \in Instant /\ local[d][r] \in Row \cup {None}
  BY DEF TypeOK
<1>2. CASE r = s
  BY <1>2 DEF AfterStart, TimelyRow
<1>3. CASE r # s /\ r \in Running(d)
  <2>1. local[d][r] \in Row /\ r <= now
    BY <1>3 DEF TypeOK, Running, Open, TimelyRow
  <2>2. row.end = IF s < r THEN clock ELSE s
    BY <1>3, <2>1 DEF AfterStart, Row
  <2>3. r <= clock /\ r <= row.end
    BY <1>1, <2>1, <2>2, BoundsAssumption DEF Instant
  <2> QED BY <2>3 DEF TimelyRow
<1>4. CASE r # s /\ r \notin Running(d)
  <2>1. row = local[d][r]
    BY <1>4 DEF AfterStart
  <2> QED BY <1>1, <2>1, LaterIsTimely
<1> QED BY <1>2, <1>3, <1>4

LEMMA StopTimely ==
    ASSUME TypeOK, NEW d \in Device, NEW s \in Running(d), NEW end \in Instant,
           NEW clock \in Instant, now <= clock, s <= end,
           \A r \in Instant : TimelyRow(r, local[d][r], now),
           NEW r \in Instant
    PROVE  TimelyRow(r, AfterStop(d, s, end)[r], clock)
<1> DEFINE row == AfterStop(d, s, end)[r]
<1>1. /\ now \in Instant /\ local[d] \in [Instant -> Row \cup {None}]
      /\ s \in Instant /\ local[d][s] \in Row
  BY DEF TypeOK, Running, Open
<1>2. CASE r = s
  <2>1. row.end = end /\ s <= now
    BY <1>1, <1>2, NoneAssumption DEF AfterStop, Row, TimelyRow
  <2> QED BY <1>1, <1>2, <2>1, BoundsAssumption DEF TimelyRow, Instant
<1>3. CASE r # s
  <2>1. row = local[d][r]
    BY <1>1, <1>3 DEF AfterStop
  <2> QED BY <1>1, <2>1, LaterIsTimely
<1> QED BY <1>2, <1>3

\* What a command leaves timely when the rows it writes are.
LEMMA CommandTimely ==
    ASSUME TypeOK, Timely, NEW d \in Device,
           NEW rows \in [Instant -> Row \cup {None}],
           Command(d, rows), Journal(d, rows), now' \in Instant, now <= now',
           \A s \in Instant : TimelyRow(s, rows[s], now')
    PROVE  Timely'
<1>1. ASSUME NEW s \in Instant, NEW row \in Row \cup Timer \cup {None},
             TimelyRow(s, row, now)
      PROVE  TimelyRow(s, row, now')
  BY <1>1, LaterIsTimely DEF TypeOK
<1>2. ASSUME NEW t \in Timer \cup {None}, TimelyTimer(t, now)
      PROVE  TimelyTimer(t, now')
  BY <1>1, <1>2 DEF TimelyTimer, Timer
<1>3. TimelyTimer(record.timer, now)'
  BY <1>2 DEF Command, Timely, TypeOK, State
<1>4. ASSUME NEW e \in Device
      PROVE  \A s \in Instant : TimelyRow(s, local'[e][s], now')
  BY <1>1 DEF Command, Timely, TypeOK
<1>5. ASSUME NEW e \in Device, NEW c \in journal'[e]
      PROVE  TimelyRow(c.start, c.before, now') /\ TimelyRow(c.start, c.after, now')
  <2>1. CASE e = d /\ d \in Journaled
    <3>1. c \in Changes(local[d], rows)
      BY <1>5, <2>1 DEF Journal, TypeOK
    <3>2. PICK s \in Instant :
            c.start = s /\ c.before = local[d][s] /\ c.after = rows[s]
      BY <3>1 DEF Changes
    <3>3. TimelyRow(s, local[d][s], now) /\ local[d][s] \in Row \cup {None}
      BY DEF Timely, TypeOK
    <3>4. TimelyRow(s, local[d][s], now')
      BY <1>1, <3>3
    <3> QED BY <3>2, <3>4
  <2>2. CASE ~(e = d /\ d \in Journaled)
    <3>1. c \in journal[e] /\ c \in Change
      BY <1>5, <2>2 DEF Journal, TypeOK
    <3>2. TimelyRow(c.start, c.before, now) /\ TimelyRow(c.start, c.after, now)
      BY <3>1 DEF Timely
    <3> QED BY <1>1, <3>1, <3>2 DEF Change
  <2> QED BY <2>1, <2>2
<1>6. ASSUME NEW e \in Device, NEW t \in {agreed'[e].timer, got'[e].timer, view'[e]}
      PROVE  TimelyTimer(t, now')
  <2>1. t \in {agreed[e].timer, got[e].timer, view[e]} /\ t \in Timer \cup {None}
    BY <1>6 DEF Command, TypeOK, State
  <2> QED BY <1>2, <2>1 DEF Timely
<1> QED BY <1>3, <1>4, <1>5, <1>6 DEF Timely

LEMMA UserTimely ==
    ASSUME TypeOK, Timely, NEW d \in Device, User(d)
    PROVE  Timely'
<1> DEFINE s == RunningStart(d)
<1>0. /\ s \in Instant \cup {None}
      /\ s # None => s \in Running(d)
      /\ local[d] \in [Instant -> Row \cup {None}]
      /\ \A r \in Instant : TimelyRow(r, local[d][r], now)
      /\ now \in Instant /\ now <= now
  BY RunningStartType, BoundsAssumption DEF TypeOK, Timely, Instant
<1>1. ASSUME NEW t \in Title, UserStart(d, t) PROVE Timely'
  <2>1. now + 1 \in Instant /\ now' = now + 1 /\ now <= now + 1 /\ now + 1 <= now + 1
    BY <1>1, BoundsAssumption DEF UserStart, Tick, TypeOK, Instant
  <2> DEFINE rows == AfterStart(d, now + 1, t, now + 1)
  <2>2. rows \in [Instant -> Row \cup {None}]
    BY <2>1, StartType
  <2>3. \A r \in Instant : TimelyRow(r, rows[r], now')
    BY <1>0, <2>1, StartTimely
  <2>4. Command(d, rows) /\ Journal(d, rows)
    BY <1>1 DEF UserStart
  <2> HIDE DEF rows
  <2> QED BY <2>1, <2>2, <2>3, <2>4, CommandTimely
<1>2. CASE UserStop(d)
  <2>1. now + 1 \in Instant /\ now' = now + 1 /\ now <= now + 1
    BY <1>2, BoundsAssumption DEF UserStop, Tick, TypeOK, Instant
  <2> DEFINE rows == AfterStop(d, s, now + 1)
  <2>2. s \in Running(d) /\ s \in Instant /\ s <= now + 1
    BY <1>0, <1>2, BoundsAssumption DEF UserStop, TimelyRow, Instant, Running, Open
  <2>3. rows \in [Instant -> Row \cup {None}]
    BY <2>1, <2>2, StopType
  <2>4. \A r \in Instant : TimelyRow(r, rows[r], now')
    BY <1>0, <2>1, <2>2, StopTimely
  <2>5. Command(d, rows) /\ Journal(d, rows)
    BY <1>2 DEF UserStop
  <2> HIDE DEF rows
  <2> QED BY <2>1, <2>3, <2>4, <2>5, CommandTimely
<1>3. ASSUME NEW t \in Title, UserEdit(d, t) PROVE Timely'
  <2> DEFINE rows == [local[d] EXCEPT ![s].title = t]
  <2>1. s \in Instant /\ local[d][s] \in Row
    BY <1>0, <1>3 DEF UserEdit, Running, Open
  <2>2. [local[d][s] EXCEPT !.title = t] \in Row
    BY <2>1 DEF Row
  <2>3. rows \in [Instant -> Row \cup {None}]
    BY <1>0, <2>1, <2>2
  <2>4. \A r \in Instant : r # s => rows[r] = local[d][r]
    BY <1>0
  <2>5. rows[s].end = local[d][s].end
    BY <1>0, <2>1 DEF Row
  <2>6. \A r \in Instant : TimelyRow(r, rows[r], now)
    BY <1>0, <2>1, <2>4, <2>5, NoneAssumption DEF TimelyRow
  <2>7. Command(d, rows) /\ Journal(d, rows) /\ now' = now
    BY <1>3 DEF UserEdit
  <2> HIDE DEF rows
  <2> QED BY <1>0, <2>3, <2>6, <2>7, CommandTimely
<1>4. CASE UserDiscard(d)
  <2> DEFINE rows == [local[d] EXCEPT ![s] = None]
  <2>1. rows \in [Instant -> Row \cup {None}]
    BY <1>0
  <2>2. \A r \in Instant : rows[r] \in {None, local[d][r]}
    BY <1>0
  <2>3. \A r \in Instant : TimelyRow(r, rows[r], now)
    BY <1>0, <2>2 DEF TimelyRow
  <2>4. Command(d, rows) /\ Journal(d, rows) /\ now' = now
    BY <1>4 DEF UserDiscard
  <2> HIDE DEF rows
  <2> QED BY <1>0, <2>1, <2>3, <2>4, CommandTimely
<1>5. CASE UserUndo(d)
  <2> DEFINE rows == [r \in Instant |->
                        IF \E c \in journal[d] : c.start = r
                        THEN (CHOOSE c \in journal[d] : c.start = r).before
                        ELSE local[d][r]]
             back == {[start |-> c.start, before |-> c.after, after |-> c.before] :
                        c \in journal[d]}
  <2>1. /\ local' = [local EXCEPT ![d] = rows] /\ journal' = [journal EXCEPT ![d] = back]
        /\ UNCHANGED <<now, record, agreed, got, view>>
    BY <1>5 DEF UserUndo, Command
  <2>2. ASSUME NEW r \in Instant PROVE TimelyRow(r, rows[r], now)
    BY <1>0 DEF Timely
  <2>3. ASSUME NEW c \in back
        PROVE  TimelyRow(c.start, c.before, now) /\ TimelyRow(c.start, c.after, now)
    BY DEF Timely
  <2> HIDE DEF rows, back
  <2> QED BY <2>1, <2>2, <2>3 DEF Timely, TypeOK
<1> QED BY <1>1, <1>2, <1>3, <1>4, <1>5 DEF User

LEMMA ViewTimely ==
    ASSUME TypeOK, Timely, NEW d \in Device
    PROVE  TimelyTimer(LocalView(d), now)
<1> DEFINE last == agreed[d].timer
           s == RunningStart(d)
<1>1. ASSUME NEW r \in Instant, local[d][r] # None
      PROVE  TimelyTimer(TimerFrom(r, local[d][r]), now)
  BY <1>1 DEF Timely, TimelyRow, TimelyTimer, TimerFrom
<1>2. last # None => /\ last \in Timer /\ last.start \in Instant
                     /\ TimelyTimer(last, now)
  BY DEF TypeOK, State, Timer, Timely
<1>3. last # None => TimelyTimer([last EXCEPT !.discarded = TRUE], now)
  <2> SUFFICES ASSUME last # None PROVE TimelyTimer([last EXCEPT !.discarded = TRUE], now)
    OBVIOUS
  <2> DEFINE t == [last EXCEPT !.discarded = TRUE]
  <2>1. t.start = last.start /\ t.end = last.end
    BY <1>2 DEF Timer
  <2> HIDE DEF t
  <2> QED BY <1>2, <2>1 DEF TimelyTimer, TimelyRow
<1>4. s # None => s \in Instant /\ local[d][s] # None
  BY RunningStartType DEF Running, Open
<1>5. TimelyTimer(None, now)
  BY DEF TimelyTimer
<1> QED BY <1>1, <1>2, <1>3, <1>4, <1>5 DEF LocalView

LEMMA ReconcileTimely ==
    ASSUME Facts, Timely, NEW d \in Device, ReconcileStep(d) \/ Abort(d)
    PROVE  Timely'
<1>0. /\ now' = now /\ journal' = journal /\ now \in Instant /\ now <= now
      /\ got[d].timer \in Timer \cup {None}
      /\ local[d] \in [Instant -> Row \cup {None}]
      /\ \A r \in Instant : TimelyRow(r, local[d][r], now)
  BY ReconcileRunning, BoundsAssumption, SMTT(60) DEF Facts, TypeOK, State, Instant, Timely
<1>1. \A r \in Instant : TimelyRow(r, local'[d][r], now)
  <2>1. CASE Apply(d)
    <3> DEFINE t == got[d].timer
               s == RunningStart(d)
               next == Applied(d, t)
    <3>1. local'[d] = next.rows
      BY <2>1 DEF Apply, Facts, TypeOK
    <3>2. CASE next.rows = local[d]
      BY <1>0, <3>1, <3>2
    <3>3. CASE next.rows = [local[d] EXCEPT ![s] = None]
      <4>1. \A r \in Instant : next.rows[r] \in {None, local[d][r]}
        BY <1>0, <3>3
      <4> QED BY <1>0, <3>1, <4>1 DEF TimelyRow
    <3>4. CASE /\ t # None /\ s # None /\ t.end # None /\ s = t.start
               /\ next.rows = AfterStop(d, s, t.end)
      <4>1. s \in Running(d) /\ t.end \in Instant
        BY <1>0, <3>4, RunningStartType DEF Timer, Facts
      <4>2. TimelyTimer(t, now)
        BY DEF Timely
      <4>3. s <= t.end
        BY <3>4, <4>2 DEF TimelyTimer, TimelyRow
      <4>4. \A r \in Instant : TimelyRow(r, AfterStop(d, s, t.end)[r], now)
        BY <1>0, <4>1, <4>3, StopTimely DEF Facts
      <4> QED BY <3>1, <3>4, <4>4
    <3>5. CASE IsRunning(t) /\ next.rows = AfterStart(d, t.start, t.title, now)
      <4>1. t # None /\ t.start \in Instant /\ t.title \in Title
        BY <1>0, <3>5 DEF IsRunning, Timer
      <4>2. TimelyTimer(t, now)
        BY DEF Timely
      <4>3. t.start <= now
        BY <4>1, <4>2 DEF TimelyTimer, TimelyRow
      <4>4. \A r \in Instant : TimelyRow(r, AfterStart(d, t.start, t.title, now)[r], now)
        BY <1>0, <4>1, <4>3, StartTimely DEF Facts
      <4> QED BY <3>1, <3>5, <4>4
    <3> HIDE DEF next
    <3>6. \/ next.rows = local[d]
          \/ next.rows = [local[d] EXCEPT ![s] = None]
          \/ /\ t # None /\ s # None /\ t.end # None /\ s = t.start
             /\ next.rows = AfterStop(d, s, t.end)
          \/ IsRunning(t) /\ next.rows = AfterStart(d, t.start, t.title, now)
      BY AppliedRows DEF next
    <3> QED BY <3>2, <3>3, <3>4, <3>5, <3>6
  <2>2. CASE ApplyRestart(d)
    <3> DEFINE t == got[d].timer
    <3>1. IsRunning(t)
      BY <2>2 DEF ApplyRestart, Facts, RestartRuns
    <3>2. t # None /\ t.start \in Instant /\ t.title \in Title
      BY <1>0, <3>1 DEF IsRunning, Timer
    <3>3. TimelyTimer(t, now)
      BY DEF Timely
    <3>4. t.start <= now
      BY <3>2, <3>3 DEF TimelyTimer, TimelyRow
    <3>5. local'[d] = AfterStart(d, t.start, t.title, now)
      BY <2>2 DEF ApplyRestart, Facts, TypeOK
    <3>6. \A r \in Instant : TimelyRow(r, AfterStart(d, t.start, t.title, now)[r], now)
      BY <1>0, <3>2, <3>4, StartTimely DEF Facts
    <3> QED BY <3>5, <3>6
  <2>3. CASE ~Apply(d) /\ ~ApplyRestart(d)
    <3>1. local' = local
      BY <2>3 DEF ReconcileStep, Fetch, Unmoved, Decide, PutWins, PutConflicts,
                  SettleConflicts, Reread, Save, Abort
    <3> QED BY <1>0, <3>1
  <2> QED BY <2>1, <2>2, <2>3
<1>2. \A e \in Device : e # d => local'[e] = local[e]
  BY DEF ReconcileStep, Fetch, Unmoved, Decide, PutWins, PutConflicts,
         SettleConflicts, Reread, Apply, ApplyRestart, Save, Abort, Facts, TypeOK
<1>3. TimelyTimer(Unread.timer, now) /\ TimelyTimer(None, now)
  BY DEF Unread, TimelyTimer
<1>4. record'.timer \in {record.timer, view[d]}
  <2>1. CASE PutWins(d)
    BY <2>1 DEF PutWins
  <2>2. CASE ~PutWins(d)
    BY <2>2, HeldStates DEF Facts
  <2> QED BY <2>1, <2>2
<1>5. ASSUME NEW e \in Device
      PROVE  /\ agreed'[e].timer \in {agreed[e].timer, got[e].timer}
             /\ got'[e].timer \in {got[e].timer, record.timer, Unread.timer, record'.timer}
  <2>1. CASE PutWins(d)
    BY <2>1 DEF PutWins, Facts, TypeOK
  <2>2. CASE ~PutWins(d)
    <3>1. agreed'[e] \in {agreed[e], got[e]} /\ got'[e] \in {got[e], record, Unread}
      BY <2>2, HeldStates DEF Facts
    <3> QED BY <3>1
  <2> QED BY <2>1, <2>2
<1>6. ASSUME NEW e \in Device
      PROVE  view'[e] \in {view[e], None, LocalView(d)}
  BY DEF ReconcileStep, Fetch, Unmoved, Decide, PutWins, PutConflicts,
         SettleConflicts, Reread, Apply, ApplyRestart, Save, Abort, Return, Facts, TypeOK
<1>7. TimelyTimer(LocalView(d), now)
  BY ViewTimely DEF Facts
<1>8. TimelyTimer(record'.timer, now)
  BY <1>4 DEF Timely
<1>9. ASSUME NEW e \in Device, NEW t \in {agreed'[e].timer, got'[e].timer, view'[e]}
      PROVE  TimelyTimer(t, now)
  BY <1>3, <1>5, <1>6, <1>7, <1>8 DEF Timely
<1>10. ASSUME NEW e \in Device
       PROVE  \A r \in Instant : TimelyRow(r, local'[e][r], now)
  BY <1>1, <1>2 DEF Timely
<1> QED BY <1>0, <1>8, <1>9, <1>10 DEF Timely

LEMMA TimelyStep ==
    ASSUME Facts, Timely, [Next]_vars
    PROVE  Timely'
<1>1. ASSUME NEW d \in Device, User(d) PROVE Timely'
  BY <1>1, UserTimely DEF Facts
<1>2. ASSUME NEW d \in Device, ReconcileStep(d) \/ Abort(d) PROVE Timely'
  BY <1>2, ReconcileTimely
<1>3. CASE UNCHANGED vars
  BY <1>3 DEF vars, Timely
<1> QED BY <1>1, <1>2, <1>3 DEF Next

\* A reconcile reads the record after it loaded the agreed state, so what it
\* holds is never older.
LEMMA ForwardStep ==
    ASSUME Facts, ReadsForward, [Next]_vars
    PROVE  ReadsForward'
<1>0. /\ record.version \in Nat
      /\ \A e \in Device : agreed[e].version \in Nat /\ got[e].version \in Nat
  BY BoundsAssumption DEF Facts, TypeOK, State
<1>1. ASSUME NEW d \in Device, NEW e \in Device, ReconcileStep(d) \/ Abort(d),
             pc'[e] # "idle"
      PROVE  agreed'[e].version <= got'[e].version
  <2>1. CASE e # d
    BY <1>1, <2>1 DEF ReconcileStep, Fetch, Unmoved, Decide, PutWins, PutConflicts,
         SettleConflicts, Reread, Apply, ApplyRestart, Save, Abort, Return, Facts, TypeOK,
         ReadsForward
  <2>2. CASE e = d /\ (Fetch(d) \/ Reread(d))
    <3>1. agreed' = agreed /\ got'[d] = record
      BY <2>2 DEF Fetch, Reread, Facts, TypeOK
    <3> QED BY <2>2, <3>1 DEF Facts, VersionNamesTimer
  <2>3. CASE e = d /\ PutWins(d)
    <3>1. agreed' = agreed /\ got'[d].version = got[d].version + 1 /\ pc[d] # "idle"
      BY <2>3 DEF PutWins, Facts, TypeOK
    <3> QED BY <1>0, <2>3, <3>1 DEF ReadsForward
  <2>4. CASE e = d /\ (Decide(d) \/ PutConflicts(d) \/ Apply(d) \/ ApplyRestart(d))
    BY <2>4 DEF Decide, PutConflicts, Apply, ApplyRestart, ReadsForward
  <2>5. CASE e = d /\ (Unmoved(d) \/ SettleConflicts(d) \/ Save(d) \/ Abort(d))
    BY <1>1, <2>5 DEF Unmoved, SettleConflicts, Save, Abort, Return, Facts, TypeOK
  <2> QED BY <1>1, <2>1, <2>2, <2>3, <2>4, <2>5 DEF ReconcileStep
<1>2. ASSUME NEW d \in Device, User(d) PROVE ReadsForward'
  BY <1>2, UserLeavesRecord DEF ReadsForward
<1>3. CASE UNCHANGED vars
  BY <1>3 DEF vars, ReadsForward
<1> QED BY <1>1, <1>2, <1>3 DEF Next, ReadsForward

\* The timer a device shows: stopped only when nothing runs there, running
\* only when its activity does.
LEMMA ViewShowsRunning ==
    ASSUME TypeOK, NEW d \in Device
    PROVE  /\ Ended(LocalView(d)) => Running(d) = {}
           /\ IsRunning(LocalView(d)) => LocalView(d).start \in Running(d)
<1> DEFINE last == agreed[d].timer
           s == RunningStart(d)
<1>1. /\ local[d] \in [Instant -> Row \cup {None}]
      /\ s # None => s \in Running(d) /\ s \in Instant /\ Open(local[d][s])
  BY RunningStartType DEF TypeOK, Running
<1>2. CASE s # None
  <2>1. LocalView(d) = TimerFrom(s, local[d][s])
    BY <1>2 DEF LocalView
  <2>2. /\ LocalView(d).start = s /\ LocalView(d).end = None
        /\ LocalView(d).discarded = FALSE
    BY <1>1, <1>2, <2>1 DEF TimerFrom, Open
  <2> QED BY <1>1, <1>2, <2>2 DEF Ended, IsRunning
<1>3. CASE s = None
  <2>1. Running(d) = {}
    <3>1. None \notin Running(d)
      BY NoneAssumption DEF Running
    <3>2. Running(d) \in SUBSET Instant
      BY DEF Running
    <3>3. Running(d) # {} => RunningStart(d) \in Running(d)
      BY <3>2, LatestExists DEF RunningStart
    <3> QED BY <1>3, <3>1, <3>3
  <2>2. CASE last = None
    BY <1>3, <2>1, <2>2 DEF LocalView, IsRunning
  <2>3. CASE last # None
    <3>1. last \in Timer /\ last.start \in Instant
      BY <2>3 DEF TypeOK, State, Timer
    <3>2. CASE last.end # None \/ last.discarded
      BY <1>3, <2>1, <2>3, <3>2 DEF LocalView, IsRunning
    <3>3. CASE ~(last.end # None \/ last.discarded) /\ local[d][last.start] = None
      <4>1. LocalView(d) = [last EXCEPT !.discarded = TRUE]
        BY <1>3, <2>3, <3>3 DEF LocalView
      <4>2. LocalView(d).discarded
        BY <3>1, <4>1 DEF Timer
      <4> QED BY <2>1, <4>2 DEF IsRunning
    <3>4. CASE ~(last.end # None \/ last.discarded) /\ local[d][last.start] # None
      <4>1. LocalView(d) = TimerFrom(last.start, local[d][last.start])
        BY <1>3, <2>3, <3>4 DEF LocalView
      <4>2. LocalView(d).end # None
        BY <2>1, <3>1, <3>4, <4>1 DEF TimerFrom, Running, Open
      <4> QED BY <2>1, <4>2 DEF IsRunning
    <3> QED BY <2>1, <3>2, <3>3, <3>4
  <2> QED BY <2>1, <2>2, <2>3
<1> QED BY <1>2, <1>3

\* A command reopens a stopped timer only through an undo.
LEMMA UserKeepsClosed ==
    ASSUME Facts, NEW d \in Device, User(d), NEW e \in Device,
           NEW t \in Timer \cup {None}, TimelyTimer(t, now), Closed(e, t),
           Ended(t), t.start \notin resumed'
    PROVE  t.start \notin Running(e)'
<1>1. /\ resumed \subseteq resumed'
      /\ \/ Running(e)' \subseteq Running(e)
         \/ Running(e)' \subseteq resumed'
         \/ Running(e)' = {now + 1} /\ now' = now + 1
  BY UserRunning DEF Facts
<1>2. t \in Timer /\ t.start \in Instant /\ t.start <= now /\ now \in Instant
  BY DEF Ended, Timer, TimelyTimer, TimelyRow, Facts, TypeOK
<1>3. t.start # now + 1
  BY <1>2, BoundsAssumption DEF Instant
<1> QED BY <1>1, <1>3 DEF Closed

LEMMA UserHolders ==
    ASSUME Facts, Timely, HolderStopped, NEW d \in Device, User(d)
    PROVE  HolderStopped'
<1>1. UNCHANGED <<record, agreed, pc, got, view>>
  BY UserLeavesRecord
<1>2. ASSUME NEW e \in Device, NEW t \in {agreed[e].timer, got[e].timer, view[e]},
             Closed(e, t), Ended(t), t.start \notin resumed'
      PROVE  t.start \notin Running(e)'
  <2>1. t \in Timer \cup {None} /\ TimelyTimer(t, now)
    BY DEF Facts, TypeOK, State, Timely
  <2> QED BY <1>2, <2>1, UserKeepsClosed
<1> QED BY <1>1, <1>2 DEF HolderStopped, Closed, Ended, IsRunning

LEMMA ReconcileHolders ==
    ASSUME Facts, RunsAlone, ReadsForward, HolderStopped,
           NEW d \in Device, ReconcileStep(d) \/ Abort(d)
    PROVE  HolderStopped'
<1>0. /\ record.version \in Nat
      /\ \A e \in Device : agreed[e].version \in Nat /\ got[e].version \in Nat
      /\ resumed' = resumed
      /\ PutWins(d) \/ record' = record
  BY ReconcileRunning, HeldStates, BoundsAssumption DEF Facts, TypeOK, State
<1>1. ASSUME NEW e \in Device, e # d
      PROVE  /\ agreed'[e] = agreed[e] /\ got'[e] = got[e] /\ view'[e] = view[e]
             /\ pc'[e] = pc[e] /\ Running(e)' = Running(e)
  BY <1>1 DEF ReconcileStep, Fetch, Unmoved, Decide, PutWins, PutConflicts,
         SettleConflicts, Reread, Apply, ApplyRestart, Save, Abort, Return, Facts, TypeOK,
         Running
<1>2. ASSUME NEW e \in Device, e # d, NEW s \in {agreed[e], got[e]},
             s.version = record'.version
      PROVE  record' = record
  <2>1. s.version <= record.version
    BY <1>2 DEF Facts, VersionNamesTimer
  <2>2. PutWins(d) => record'.version = record.version + 1
    BY DEF PutWins
  <2> QED BY <1>0, <1>2, <2>1, <2>2
<1>3. ASSUME NEW e \in Device, e # d
      PROVE  /\ agreed'[e].version = record'.version => Closed(e, agreed[e].timer)'
             /\ pc'[e] = "save" /\ got'[e].version = record'.version
                => Closed(e, got[e].timer)'
             /\ pc'[e] \in {"put", "reread", "putSettled"} => Closed(e, view[e])'
  BY <1>0, <1>1, <1>2, <1>3 DEF HolderStopped, Closed, Ended, IsRunning
<1>4. agreed'[d].version = record'.version => Closed(d, agreed[d].timer)'
  <2>1. CASE Save(d)
    <3>1. /\ agreed'[d] = got[d] /\ record' = record /\ pc[d] = "save"
          /\ Running(d)' = Running(d)
      BY <2>1 DEF Save, Facts, TypeOK, Running
    <3> QED BY <1>0, <3>1 DEF HolderStopped, Closed, Ended, IsRunning
  <2>2. CASE PutWins(d)
    <3>1. agreed' = agreed /\ record'.version = record.version + 1
      BY <2>2 DEF PutWins
    <3>2. agreed[d].version <= record.version
      BY DEF Facts, VersionNamesTimer
    <3> QED BY <1>0, <3>1, <3>2
  <2>3. CASE ~Save(d) /\ ~PutWins(d)
    <3>1. agreed' = agreed /\ record' = record
      BY <1>0, <2>3 DEF ReconcileStep, Fetch, Unmoved, Decide, PutConflicts,
         SettleConflicts, Reread, Apply, ApplyRestart, Abort
    <3>2. SUFFICES ASSUME agreed[d].version = record.version, Ended(agreed[d].timer),
                          agreed[d].timer.start \notin resumed
                   PROVE  agreed[d].timer.start \notin Running(d)'
      BY <1>0, <3>1 DEF Closed, Ended, IsRunning
    <3>3. agreed[d].timer.start \notin Running(d)
      BY <3>2 DEF HolderStopped, Closed
    <3>4. CASE Running(d)' \subseteq Running(d)
      BY <3>3, <3>4
    <3>5. CASE pc[d] \in {"apply", "restart"} /\ IsRunning(got[d].timer)
      <4>1. got[d].version = record.version
        <5>1. agreed[d].version <= got[d].version /\ got[d].version <= record.version
          BY <3>5 DEF ReadsForward, Facts, VersionNamesTimer
        <5> QED BY <1>0, <3>2, <5>1
      <4>2. got[d].timer = record.timer /\ agreed[d].timer = record.timer
        BY <3>2, <4>1 DEF Facts, VersionNamesTimer
      <4> QED BY <3>2, <3>5, <4>2 DEF Ended
    <3> QED BY <3>4, <3>5, ReconcileRunning
  <2> QED BY <2>1, <2>2, <2>3
<1>5. pc'[d] = "save" /\ got'[d].version = record'.version => Closed(d, got[d].timer)'
  <2>1. CASE PutWins(d)
    <3>1. /\ got'[d].timer = view[d] /\ pc[d] \in {"put", "putSettled"}
          /\ Running(d)' = Running(d)
      BY <2>1 DEF PutWins, Facts, TypeOK, Running
    <3> QED BY <1>0, <3>1 DEF HolderStopped, Closed, Ended, IsRunning
  <2>2. CASE Apply(d)
    <3>1. got'[d] = got[d] /\ local'[d] = Applied(d, got[d].timer).rows
      BY <2>2 DEF Apply, Facts, TypeOK
    <3>2. SUFFICES ASSUME Ended(got[d].timer), got[d].timer.start \notin resumed
                   PROVE  got[d].timer.start \notin Running(d)'
      BY <1>0, <3>1 DEF Closed, Ended, IsRunning
    <3>3. got[d].timer \in Timer
      BY <3>2 DEF Facts, TypeOK, State, Ended
    <3>4. ~Open(Applied(d, got[d].timer).rows[got[d].timer.start])
      BY <3>2, <3>3, AppliedStops DEF Facts
    <3> QED BY <3>1, <3>4 DEF Running
  <2>3. CASE ApplyRestart(d)
    <3>1. got'[d] = got[d] /\ IsRunning(got[d].timer)
      BY <2>3 DEF ApplyRestart, Facts, RestartRuns
    <3> QED BY <3>1 DEF Closed, Ended, IsRunning
  <2>4. CASE ~PutWins(d) /\ ~Apply(d) /\ ~ApplyRestart(d)
    <3>1. Settled(view[d], record.timer) # "save"
          /\ Settled(LocalView(d), got[d].timer) # "save"
      BY DEF Settled
    <3>2. pc'[d] # "save"
      BY <2>4, <3>1 DEF ReconcileStep, Fetch, Unmoved, Decide, PutConflicts,
         SettleConflicts, Reread, Save, Abort, Return, Facts, TypeOK
    <3> QED BY <3>2
  <2> QED BY <2>1, <2>2, <2>3, <2>4
<1>6. pc'[d] \in {"put", "reread", "putSettled"} => Closed(d, view[d])'
  <2>1. CASE Decide(d)
    <3>1. view'[d] = LocalView(d) /\ Running(d)' = Running(d)
      BY <2>1 DEF Decide, Facts, TypeOK, Running
    <3>2. Ended(LocalView(d)) => Running(d) = {}
      BY ViewShowsRunning DEF Facts
    <3> QED BY <3>1, <3>2 DEF Closed, Ended, IsRunning
  <2>2. CASE PutConflicts(d) \/ Reread(d)
    <3>1. view' = view /\ Running(d)' = Running(d) /\ pc[d] \in {"put", "reread"}
      BY <2>2 DEF PutConflicts, Reread, Running
    <3> QED BY <1>0, <3>1 DEF HolderStopped, Closed, Ended, IsRunning
  <2>3. CASE ~Decide(d) /\ ~PutConflicts(d) /\ ~Reread(d)
    <3>1. Applied(d, got[d].timer).step \in {"save", "restart"}
      BY AppliedType DEF Facts, TypeOK, State
    <3>2. pc'[d] \notin {"put", "reread", "putSettled"}
      BY <2>3, <3>1 DEF ReconcileStep, Fetch, Unmoved, PutWins, SettleConflicts,
         Apply, ApplyRestart, Save, Abort, Return, Facts, TypeOK
    <3> QED BY <3>2
  <2> QED BY <2>1, <2>2, <2>3
<1> QED BY <1>3, <1>4, <1>5, <1>6 DEF HolderStopped

LEMMA HolderStep ==
    ASSUME Facts, Timely, RunsAlone, ReadsForward, HolderStopped, [Next]_vars
    PROVE  HolderStopped'
<1>1. ASSUME NEW d \in Device, User(d) PROVE HolderStopped'
  BY <1>1, UserHolders
<1>2. ASSUME NEW d \in Device, ReconcileStep(d) \/ Abort(d) PROVE HolderStopped'
  BY <1>2, ReconcileHolders
<1>3. CASE UNCHANGED vars
  BY <1>3 DEF vars, HolderStopped, Closed, Ended, IsRunning, Running
<1> QED BY <1>1, <1>2, <1>3 DEF Next

\* What a reconcile is about to publish over the record it read.
LEMMA PutStep ==
    ASSUME Facts, HolderStopped, PutRevivesNothing, [Next]_vars
    PROVE  PutRevivesNothing'
<1>1. ASSUME NEW d \in Device, User(d) PROVE PutRevivesNothing'
  <2>1. UNCHANGED <<record, agreed, pc, got, view>> /\ resumed \subseteq resumed'
    BY <1>1, UserLeavesRecord, UserRunning DEF Facts
  <2> QED BY <2>1 DEF PutRevivesNothing, Ended, IsRunning, RemoteWins
<1>2. ASSUME NEW d \in Device, ReconcileStep(d) \/ Abort(d), NEW e \in Device,
             pc'[e] = "put", got'[e].version = record'.version,
             Ended(got'[e].timer), got'[e].timer.start \notin resumed',
             IsRunning(view'[e]), view'[e].start = got'[e].timer.start
      PROVE  FALSE
  <2>0. resumed' = resumed
    BY <1>2, ReconcileRunning
  <2>1. CASE Decide(d) /\ e = d
    <3>1. ~RemoteMoved(d) /\ view'[d] = LocalView(d) /\ got' = got /\ record' = record
      BY <1>2, <2>1 DEF Decide, Settled, Facts, TypeOK
    <3>2. agreed[d].version = record.version /\ agreed[d].timer = record.timer
          /\ got[d].timer = record.timer
      BY <1>2, <2>1, <3>1 DEF RemoteMoved, Facts, VersionNamesTimer
    <3>3. record.timer.start \notin Running(d)
      BY <1>2, <2>0, <2>1, <3>1, <3>2 DEF HolderStopped, Closed
    <3>4. view'[d].start \in Running(d)
      BY <1>2, <2>1, <3>1, ViewShowsRunning DEF Facts
    <3> QED BY <1>2, <2>1, <3>1, <3>2, <3>3, <3>4
  <2>2. CASE e # d
    <3>1. got'[e] = got[e] /\ view'[e] = view[e] /\ pc'[e] = pc[e]
      BY <1>2, <2>2 DEF ReconcileStep, Fetch, Unmoved, Decide, PutWins, PutConflicts,
         SettleConflicts, Reread, Apply, ApplyRestart, Save, Abort, Return, Facts, TypeOK
    <3>2. got[e].version = record.version
      <4>1. PutWins(d) => record'.version = record.version + 1
        BY DEF PutWins
      <4>2. got[e].version <= record.version
        BY DEF Facts, VersionNamesTimer
      <4>3. record.version \in Nat /\ got[e].version \in Nat
        BY BoundsAssumption DEF Facts, TypeOK, State
      <4>4. ~PutWins(d) => record' = record
        BY <1>2, HeldStates DEF Facts
      <4> QED BY <1>2, <3>1, <4>1, <4>2, <4>3, <4>4
    <3> QED BY <1>2, <2>0, <3>1, <3>2 DEF PutRevivesNothing
  <2>3. CASE e = d /\ ~Decide(d)
    <3>1. Applied(d, got[d].timer).step \in {"save", "restart"}
      BY AppliedType DEF Facts, TypeOK, State
    <3>2. pc'[d] # "put"
      BY <1>2, <2>3, <3>1 DEF ReconcileStep, Fetch, Unmoved, PutWins, PutConflicts,
         SettleConflicts, Reread, Apply, ApplyRestart, Save, Abort, Return, Settled,
         Facts, TypeOK
    <3> QED BY <1>2, <2>3, <3>2
  <2> QED BY <2>1, <2>2, <2>3
<1>3. ASSUME NEW d \in Device, ReconcileStep(d) \/ Abort(d), NEW e \in Device,
             pc'[e] = "putSettled"
      PROVE  ~RemoteWins(view'[e], got'[e].timer)
  <2>1. CASE e = d /\ Decide(d)
    <3>1. /\ view'[d] = LocalView(d) /\ got' = got
          /\ pc'[d] \in {"put", "apply", Settled(LocalView(d), got[d].timer)}
      BY <2>1 DEF Decide, Facts, TypeOK
    <3>2. Settled(LocalView(d), got[d].timer) = "putSettled"
      BY <1>3, <2>1, <3>1
    <3> QED BY <2>1, <3>1, <3>2 DEF Settled
  <2>2. CASE e = d /\ Reread(d)
    BY <1>3, <2>2 DEF Reread, Settled, Facts, TypeOK
  <2>3. CASE e = d /\ ~Decide(d) /\ ~Reread(d)
    <3>1. Applied(d, got[d].timer).step \in {"save", "restart"}
      BY AppliedType DEF Facts, TypeOK, State
    <3>2. pc'[d] # "putSettled"
      BY <1>3, <2>3, <3>1 DEF ReconcileStep, Fetch, Unmoved, PutWins, PutConflicts,
         SettleConflicts, Apply, ApplyRestart, Save, Abort, Return, Facts, TypeOK
    <3> QED BY <1>3, <2>3, <3>2
  <2>4. CASE e # d
    <3>1. got'[e] = got[e] /\ view'[e] = view[e] /\ pc'[e] = pc[e]
      BY <1>3, <2>4 DEF ReconcileStep, Fetch, Unmoved, Decide, PutWins, PutConflicts,
         SettleConflicts, Reread, Apply, ApplyRestart, Save, Abort, Return, Facts, TypeOK
    <3> QED BY <1>3, <3>1 DEF PutRevivesNothing
  <2> QED BY <2>1, <2>2, <2>3, <2>4
<1>4. CASE UNCHANGED vars
  BY <1>4 DEF vars, PutRevivesNothing, Ended, IsRunning, RemoteWins
<1> QED BY <1>1, <1>2, <1>3, <1>4 DEF Next, PutRevivesNothing

-----------------------------------------------------------------------------
(* A stop stands *)

LEMMA StopInvStep ==
    ASSUME Facts, StopInv, [Next]_vars
    PROVE  StopInv'
BY TimelyStep, AloneStep, ForwardStep, HolderStep, PutStep DEF StopInv

\* Only a write of the record can replace a stopped timer, and a write that
\* would run it again is neither made blindly nor won by its event time.
LEMMA NoRevival ==
    ASSUME Facts, StopInv, [Next]_vars, NEW s \in Instant \ resumed,
           record.timer # None, record.timer.start = s, ~IsRunning(record.timer),
           record'.timer # None, record'.timer.start = s, IsRunning(record'.timer)
    PROVE  FALSE
<1>1. PICK d \in Device : PutWins(d)
  <2>1. ASSUME NEW d \in Device, User(d) PROVE record' = record
    BY <2>1, UserLeavesRecord
  <2>2. ASSUME NEW d \in Device, ReconcileStep(d) \/ Abort(d), ~PutWins(d)
        PROVE  record' = record
    BY <2>2, HeldStates DEF Facts
  <2>3. ~ (record' = record)
    OBVIOUS
  <2> QED BY <2>1, <2>2, <2>3 DEF Next, vars
<1>2. /\ pc[d] \in {"put", "putSettled"} /\ got[d].version = record.version
      /\ record'.timer = view[d]
  BY <1>1 DEF PutWins
<1>3. got[d].timer = record.timer
  BY <1>2 DEF Facts, VersionNamesTimer
<1>4. pc[d] = "putSettled" /\ ~RemoteWins(view[d], record.timer)
  BY <1>2, <1>3 DEF StopInv, PutRevivesNothing, Ended
<1>5. EventTime(view[d]) = s
  BY <1>2 DEF EventTime, IsRunning
<1>6. s <= EventTime(record.timer)
  <2>1. record.timer.start = s /\ (record.timer.end # None => s <= record.timer.end)
    BY DEF StopInv, Timely, TimelyTimer, TimelyRow
  <2>2. s \in Nat /\ s <= s
    BY BoundsAssumption DEF Instant
  <2> QED BY <2>1, <2>2 DEF EventTime
<1> QED BY <1>4, <1>5, <1>6 DEF RemoteWins

LEMMA FactsHold == Spec => []Facts
<1>1. Init => UnwrittenIsEmpty /\ VersionNamesTimer
  BY DEF Init, UnwrittenIsEmpty, VersionNamesTimer
<1>2. /\ TypeOK /\ UnwrittenIsEmpty /\ VersionNamesTimer /\ [Next]_vars
      => (UnwrittenIsEmpty /\ VersionNamesTimer)'
  BY VersionStep
<1> QED BY <1>1, <1>2, TypeCorrect, PTL DEF Spec, Facts

\* The devices that hold the record's current version with a stopped timer do
\* not run it, however their reconciles interleave (timersync.go:82-98).
THEOREM StopInvariant == Spec => []StopInv
<1>1. Init => StopInv
  BY BoundsAssumption, NoneAssumption
  DEF Init, StopInv, Timely, TimelyRow, TimelyTimer, RunsAlone, ReadsForward,
      HolderStopped, Closed, Ended, PutRevivesNothing, Running, Open
<1>2. Facts /\ StopInv /\ [Next]_vars => StopInv'
  BY StopInvStep
<1> QED BY <1>1, <1>2, FactsHold, PTL DEF Spec

\* Once the record says a timer was stopped or deleted, no reconcile replaces
\* that state by the same timer running, unless some user undid a stop: for
\* every number of devices, commands, lost answers and crashes.
THEOREM StopsStand == Spec => StopStands
<1> DEFINE Stands ==
      \A s \in Instant \ resumed :
        ~(/\ record.timer # None /\ record.timer.start = s /\ ~IsRunning(record.timer)
          /\ record'.timer # None /\ record'.timer.start = s /\ IsRunning(record'.timer))
<1>1. Facts /\ StopInv /\ [Next]_vars => [Stands]_vars
  BY NoRevival
<1> QED BY <1>1, FactsHold, StopInvariant, PTL DEF Spec, StopStands
=============================================================================
