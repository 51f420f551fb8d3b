--------------------------- MODULE PhoneTimerProofs ---------------------------
(***************************************************************************)
(* Proofs about PhoneTimer, for every set of titles and every bound: type  *)
(* correctness, that a timer once ended or replaced never runs again, that *)
(* an entry is queued before its timer is ended, and that a stop ends no   *)
(* timer but the one it saw.                                               *)
(***************************************************************************)
EXTENDS PhoneTimer, TLAPS

-----------------------------------------------------------------------------
(* The shapes of the state, the versions left unbounded *)

Seen == [v : Nat, t : Timer \cup {None}]
Ops == [pc : Steps, kind : Kinds \cup {None}, on : Instant \cup {None},
        seen : Nat, base : Timer \cup {None}, t : Timer \cup {None},
        read : SUBSET Entry, before : Seen, got : Seen]

\* The work that may still write the record, and what of it follows a tap.
Unwritten == {"queue", "store", "begin", "write", "rewrite"}
Open == Unwritten \cup {"reread"}

\* What a tap's work carries: a stop and an edit their own timer's start, a
\* start or an edit an open timer, a stop an end.
OpInv ==
    /\ op.pc = "idle" => op.kind = None
    /\ op.pc \in Open => op.t # None /\ op.kind # None
    /\ op.pc \in {"queue", "store"} => op.base # None
    /\ op.kind = "stop" =>
        /\ op.base # None /\ op.t # None
        /\ op.t.s = op.base.s /\ op.t.e # None
    /\ op.kind \in {"start", "edit"} => op.t # None /\ op.t.e = None
    /\ op.kind = "edit" => op.pc \notin {"queue", "store", "rewrite"}

Shapes ==
    /\ record \in Seen /\ state \in Seen
    /\ kept \in Seen \cup {None} /\ poll \in Seen \cup {None}
    /\ op \in Ops
    /\ flush \in [pc : {"idle", "push", "drop"}, took : SUBSET Entry]
    /\ pending \in SUBSET Entry /\ cloud \in SUBSET Entry
    /\ queued \in SUBSET Entry /\ closed \in SUBSET Entry
    /\ shown \in Instant \cup {None} /\ editing \in Instant \cup {None}
    /\ asked \in Title \cup {None}
    /\ clock \in Instant /\ over \in SUBSET Instant
    /\ left \in [taps : Nat, others : Nat, fails : Nat, kills : Nat]
    /\ table \in BOOLEAN /\ localOnly \in BOOLEAN /\ up \in BOOLEAN /\ torn \in BOOLEAN

ShapeInv == Shapes /\ OpInv

Bounded == PhoneNone /\ PhoneBounds

LEMMA NoneIsNothing ==
    ASSUME Bounded
    PROVE  None \notin Instant /\ None \notin Title /\ None \notin Timer /\ None \notin Kinds
BY DEF Bounded, PhoneNone

LEMMA NothingSeen == Nothing \in Seen
BY DEF Nothing, Seen

LEMMA IdleOp == Idle \in Ops /\ Idle.pc = "idle" /\ Idle.kind = None
BY DEF Idle, Ops, Seen, Steps, Kinds

LEMMA InitShapes ==
    ASSUME Bounded, Init
    PROVE  ShapeInv
<1>1. 0 \in Instant
  BY DEF Bounded, PhoneBounds, Instant
<1>2. Nothing \in Seen /\ Idle \in Ops
  BY NothingSeen, IdleOp
<1>3. left \in [taps : Nat, others : Nat, fails : Nat, kills : Nat]
  BY DEF Init, Bounded, PhoneBounds
<1>4. table \in BOOLEAN
  BY DEF Init, Bounded, PhoneBounds
<1>5. localOnly \in BOOLEAN /\ up \in BOOLEAN /\ torn \in BOOLEAN
  BY DEF Init
<1>6. Shapes
  BY <1>1, <1>2, <1>3, <1>4, <1>5 DEF Init, Shapes
<1>7. OpInv
  BY NoneIsNothing DEF Init, OpInv, Idle, Open, Unwritten, Kinds
<1> QED BY <1>6, <1>7 DEF ShapeInv

\* Every write of the record leaves the history of ended starts a set of
\* instants.
LEMMA OverShape ==
    ASSUME Shapes, NEW t, Over(t), Bounded
    PROVE  over' \in SUBSET Instant
<1>1. CASE IsRunning(record.t)
  <2>1. record.t \in Timer
    BY <1>1 DEF IsRunning, Shapes, Seen
  <2>2. record.t.s \in Instant
    BY <2>1 DEF Timer
  <2> QED BY <2>2 DEF Over, Shapes
<1>2. CASE ~IsRunning(record.t)
  BY <1>2 DEF Over, Shapes
<1> QED BY <1>1, <1>2

\* A compare-and-set by the phone.
LEMMA SwapShape ==
    ASSUME ShapeInv, Bounded, op.pc \in Open, Swap(op.seen, op.t)
    PROVE  record' \in Seen /\ over' \in SUBSET Instant /\ closed' \in SUBSET Entry
<1>1. op \in Ops /\ op.t \in Timer
  BY DEF ShapeInv, Shapes, OpInv, Ops
<1>2. record' \in Seen
  BY <1>1 DEF Swap, Seen, Ops
<1>3. over' \in SUBSET Instant
  BY OverShape DEF ShapeInv, Swap
<1>4. CASE op.kind = "stop"
  <2>1. op.t.e \in Instant
    BY <1>1, <1>4 DEF ShapeInv, OpInv, Timer
  <2>2. EntryFromTimer(op.t, op.t.e) \in Entry
    BY <1>1, <2>1 DEF EntryFromTimer, Entry, Timer
  <2> QED BY <1>2, <1>3, <1>4, <2>2 DEF Swap, ShapeInv, Shapes
<1>5. CASE op.kind # "stop"
  BY <1>2, <1>3, <1>5 DEF Swap, ShapeInv, Shapes
<1> QED BY <1>4, <1>5

\* A start's work, from the tap.
LEMMA StartingShape ==
    ASSUME ShapeInv, Bounded, NEW d \in Title, Tick
    PROVE  /\ Starting(d) \in Ops /\ clock' \in Instant
           /\ Starting(d).pc \in {"queue", "begin"} /\ Starting(d).kind = "start"
           /\ Starting(d).seen = state.v /\ Starting(d).base = state.t
           /\ Starting(d).t = [d |-> d, s |-> clock + 1, e |-> None]
           /\ Starting(d).t \in Timer
           /\ Starting(d).before = Nothing /\ Starting(d).got = Nothing
           /\ Starting(d).pc = "queue" <=> IsRunning(state.t)
<1>1. clock + 1 \in Instant /\ clock' \in Instant
  BY DEF Tick, Instant, ShapeInv, Shapes, Bounded, PhoneBounds
<1>2. [d |-> d, s |-> clock + 1, e |-> None] \in Timer
  BY <1>1 DEF Timer
<1>3. state.v \in Nat /\ state.t \in Timer \cup {None}
  BY DEF ShapeInv, Shapes, Seen
<1>4. Starting(d) \in Ops
  BY <1>2, <1>3, NothingSeen DEF Starting, Idle, Ops, Steps, Nothing, Kinds
<1> QED BY <1>1, <1>2, <1>4 DEF Starting, Idle, Nothing

LEMMA StartingKeeps ==
    ASSUME ShapeInv, Bounded, NEW d \in Title, Tick, op' = Starting(d)
    PROVE  op' \in Ops /\ clock' \in Instant /\ OpInv'
<1>1. /\ op' \in Ops /\ clock' \in Instant
      /\ op'.pc \in {"queue", "begin"} /\ op'.kind = "start"
      /\ op'.base = state.t /\ op'.t = [d |-> d, s |-> clock + 1, e |-> None]
      /\ op'.pc = "queue" <=> IsRunning(state.t)
  BY StartingShape
<1>2. op'.pc = "queue" => op'.base # None
  BY <1>1 DEF IsRunning
<1>3. op'.t # None /\ op'.t.e = None
  <2>1. op'.t \in Timer
    BY StartingShape
  <2> QED BY <1>1, <2>1, NoneIsNothing
<1> QED BY <1>1, <1>2, <1>3, NoneIsNothing DEF OpInv, Open, Unwritten, Kinds

\* The steps that start a tap's work.
LEMMA TapShapes ==
    ASSUME ShapeInv, Bounded,
           \/ \E d \in Title : StartTap(d) \/ ResumeTap(d) \/ EditSave(d)
           \/ \E yes \in BOOLEAN : ResumeAnswer(yes)
           \/ StopTap \/ StopLands \/ EditTap
    PROVE  ShapeInv'
<1>1. /\ state.v \in Nat /\ state.t \in Timer \cup {None}
      /\ IsRunning(state.t) => state.t \in Timer /\ state.t.s \in Instant /\ state.t.e = None
  BY DEF ShapeInv, Shapes, Seen, IsRunning, Timer
<1>2. [left EXCEPT !.taps = @ - 1] \in [taps : Nat, others : Nat, fails : Nat, kills : Nat] \/ left.taps = 0
  BY DEF ShapeInv, Shapes
<1>3. ASSUME NEW d \in Title, StartTap(d) PROVE ShapeInv'
  <2>1. op' \in Ops /\ clock' \in Instant /\ OpInv'
    BY <1>3, StartingKeeps DEF StartTap
  <2>2. left' \in [taps : Nat, others : Nat, fails : Nat, kills : Nat]
    BY <1>2, <1>3 DEF StartTap, Tap
  <2> QED BY <1>3, <2>1, <2>2 DEF StartTap, Screen, ShapeInv, Shapes
<1>4. ASSUME NEW d \in Title, ResumeTap(d) PROVE ShapeInv'
  <2>1. left' \in [taps : Nat, others : Nat, fails : Nat, kills : Nat]
    BY <1>2, <1>4 DEF ResumeTap, Tap
  <2> QED BY <1>4, <2>1 DEF ResumeTap, ShapeInv, Shapes, OpInv
<1>5. ASSUME NEW d \in Title, EditSave(d) PROVE ShapeInv'
  <2>1. CASE IsRunning(state.t)
    <3>1. [state.t EXCEPT !.d = d] \in Timer /\ [state.t EXCEPT !.d = d].s = state.t.s
          /\ [state.t EXCEPT !.d = d].e = None
      BY <1>1, <2>1 DEF Timer
    <3>2. op' = [Idle EXCEPT !.pc = "begin", !.kind = "edit", !.on = editing, !.seen = state.v,
                             !.base = state.t, !.t = [state.t EXCEPT !.d = d]]
      BY <1>5, <2>1 DEF EditSave
    <3>3. editing \in Instant \cup {None}
      BY DEF ShapeInv, Shapes
    <3>4. op' \in Ops
      BY <1>1, <3>1, <3>2, <3>3, NothingSeen DEF Idle, Ops, Steps, Kinds, Nothing
    <3>5. op'.pc = "begin" /\ op'.kind = "edit" /\ op'.base = state.t
          /\ op'.t = [state.t EXCEPT !.d = d]
      BY <3>2 DEF Idle
    <3>6. OpInv'
      BY <1>1, <2>1, <3>1, <3>5, NoneIsNothing DEF OpInv, Open, Unwritten, Kinds
    <3> QED BY <1>5, <3>4, <3>6 DEF EditSave, ShapeInv, Shapes
  <2>2. CASE ~IsRunning(state.t)
    BY <1>5, <2>2 DEF EditSave, ShapeInv, Shapes, OpInv
  <2> QED BY <2>1, <2>2
<1>6. ASSUME NEW yes \in BOOLEAN, ResumeAnswer(yes) PROVE ShapeInv'
  <2>1. CASE yes
    <3>1. asked \in Title
      BY <1>6 DEF ResumeAnswer, ShapeInv, Shapes
    <3>2. Tick /\ op' = Starting(asked)
      BY <1>6, <2>1 DEF ResumeAnswer
    <3>3. op' \in Ops /\ clock' \in Instant /\ OpInv'
      BY <3>1, <3>2, StartingKeeps
    <3> QED BY <1>6, <3>3 DEF ResumeAnswer, ShapeInv, Shapes
  <2>2. CASE ~yes
    BY <1>6, <2>2 DEF ResumeAnswer, ShapeInv, Shapes, OpInv
  <2> QED BY <2>1, <2>2
<1>7. ASSUME StopTap PROVE ShapeInv'
  <2>1. left' \in [taps : Nat, others : Nat, fails : Nat, kills : Nat]
    BY <1>2, <1>7 DEF StopTap, Tap
  <2>2. shown' \in Instant
    BY <1>1, <1>7 DEF StopTap, CardShown
  <2> QED BY <1>7, <2>1, <2>2 DEF StopTap, ShapeInv, Shapes, OpInv
<1>8. ASSUME EditTap PROVE ShapeInv'
  <2>1. left' \in [taps : Nat, others : Nat, fails : Nat, kills : Nat]
    BY <1>2, <1>8 DEF EditTap, Tap
  <2>2. editing' \in Instant
    BY <1>1, <1>8 DEF EditTap, CardShown
  <2> QED BY <1>8, <2>1, <2>2 DEF EditTap, ShapeInv, Shapes, OpInv
<1>9. ASSUME StopLands PROVE ShapeInv'
  <2>1. CASE state.t = None
    BY <1>9, <2>1 DEF StopLands, ShapeInv, Shapes, OpInv
  <2>2. CASE state.t # None
    <3>1. state.t \in Timer /\ clock' \in Instant /\ clock + 1 \in Instant
      BY <1>1, <1>9, <2>2 DEF StopLands, Tick, Instant, ShapeInv, Shapes, Bounded, PhoneBounds
    <3>2. [state.t EXCEPT !.e = clock + 1] \in Timer
          /\ [state.t EXCEPT !.e = clock + 1].s = state.t.s
          /\ [state.t EXCEPT !.e = clock + 1].e = clock + 1
      BY <3>1 DEF Timer
    <3>3. op' = [Idle EXCEPT !.pc = "queue", !.kind = "stop", !.on = shown, !.seen = state.v,
                             !.base = state.t, !.t = [state.t EXCEPT !.e = clock + 1]]
      BY <1>9, <2>2 DEF StopLands
    <3>4. shown \in Instant \cup {None}
      BY DEF ShapeInv, Shapes
    <3>5. op' \in Ops
      BY <1>1, <3>2, <3>3, <3>4, NothingSeen DEF Idle, Ops, Steps, Kinds, Nothing
    <3>6. op'.pc = "queue" /\ op'.kind = "stop" /\ op'.base = state.t
          /\ op'.t = [state.t EXCEPT !.e = clock + 1]
      BY <3>3 DEF Idle
    <3>7. OpInv'
      BY <2>2, <3>1, <3>2, <3>6, NoneIsNothing DEF OpInv, Open, Unwritten, Kinds
    <3> QED BY <1>9, <3>1, <3>5, <3>7 DEF StopLands, ShapeInv, Shapes
  <2> QED BY <2>1, <2>2
<1> QED BY <1>3, <1>4, <1>5, <1>6, <1>7, <1>8, <1>9

\* The steps of the tap's work.
LEMMA WorkShapes ==
    ASSUME ShapeInv, Bounded, Work
    PROVE  ShapeInv'
<1> USE NoneIsNothing
<1>1. /\ op \in Ops /\ op.before \in Seen /\ op.got \in Seen /\ op.seen \in Nat
      /\ record \in Seen /\ record.v \in Nat /\ state \in Seen
      /\ record.t \in Timer \cup {None} /\ pending \in SUBSET Entry
      /\ op.pc \in Steps /\ op.kind \in Kinds \cup {None}
      /\ op.base \in Timer \cup {None} /\ op.t \in Timer \cup {None}
      /\ op.read \in SUBSET Entry
  BY DEF ShapeInv, Shapes, Ops, Seen
<1>2. ASSUME op.pc \in Open, op'.kind = op.kind, op'.base = op.base, op'.t = op.t,
             op'.pc \in {"landed", "reread", "failed"}
      PROVE  OpInv'
  BY <1>2 DEF OpInv, ShapeInv, Open, Unwritten, Kinds
<1>3. ASSUME op.pc \in Open, op' = [op EXCEPT !.pc = "failed"]
      PROVE  op' \in Ops /\ OpInv'
  BY <1>1, <1>2, <1>3 DEF Ops, Steps
<1>4. ASSUME op' = Idle PROVE op' \in Ops /\ OpInv'
  BY <1>4, IdleOp DEF OpInv, Open, Unwritten, Kinds
<1>5. CASE QueueRead
  <2>1. op' \in Ops
    BY <1>1, <1>5 DEF QueueRead, Ops, Steps
  <2>2. op'.pc = "store" /\ op'.kind = op.kind /\ op'.base = op.base /\ op'.t = op.t
    BY <1>1, <1>5 DEF QueueRead, Ops
  <2>3. OpInv'
    BY <1>5, <2>1, <2>2 DEF QueueRead, OpInv, ShapeInv, Open, Unwritten, Kinds
  <2> QED BY <1>5, <2>1, <2>3 DEF QueueRead, Screen, ShapeInv, Shapes
<1>6. CASE QueueStore
  <2> DEFINE end == IF op.kind = "start" THEN op.t.s ELSE op.t.e
  <2>1. op.base \in Timer /\ op.t \in Timer
    BY <1>1, <1>6 DEF QueueStore, ShapeInv, OpInv, Open, Unwritten
  <2>2. end \in Instant
    BY <1>1, <1>6, <2>1 DEF QueueStore, ShapeInv, OpInv, Open, Unwritten, Kinds, Timer
  <2>3. EntryFromTimer(op.base, end) \in Entry
    BY <2>1, <2>2 DEF EntryFromTimer, Entry, Timer
  <2>4. pending' \in SUBSET Entry /\ queued' \in SUBSET Entry
    BY <1>1, <1>6, <2>3 DEF QueueStore, ShapeInv, Shapes
  <2>5. op' \in Ops
    BY <1>1, <1>6 DEF QueueStore, Ops, Steps
  <2>6. op'.pc = "begin" /\ op'.kind = op.kind /\ op'.base = op.base /\ op'.t = op.t
    BY <1>1, <1>6 DEF QueueStore, Ops
  <2>7. OpInv'
    BY <1>6, <2>1, <2>6 DEF QueueStore, OpInv, ShapeInv, Open, Unwritten, Kinds
  <2> QED BY <1>6, <2>4, <2>5, <2>7 DEF QueueStore, Screen, ShapeInv, Shapes
<1>7. CASE Begin
  <2>1. [v |-> op.seen, t |-> op.t] \in Seen
    BY <1>1 DEF Seen
  <2>2. op' \in Ops /\ OpInv'
    <3>1. CASE localOnly
      BY <1>4, <1>7, <3>1 DEF Begin
    <3>2. CASE ~localOnly
      <4>1. op' \in Ops
        BY <1>1, <1>7, <3>2 DEF Begin, Ops, Steps
      <4>2. op'.pc = "write" /\ op'.kind = op.kind /\ op'.base = op.base /\ op'.t = op.t
        BY <1>1, <1>7, <3>2 DEF Begin, Ops
      <4> QED BY <1>7, <4>1, <4>2 DEF Begin, OpInv, ShapeInv, Open, Unwritten, Kinds
    <3> QED BY <3>1, <3>2
  <2> QED BY <1>7, <2>1, <2>2 DEF Begin, Adopt, Screen, ShapeInv, Shapes
<1>8. CASE Write
  <2>1. CASE op' = [op EXCEPT !.pc = "landed", !.got = [v |-> op.seen, t |-> op.base]]
             /\ UNCHANGED <<record, over, closed>>
    <3>1. [v |-> op.seen, t |-> op.base] \in Seen
      BY <1>1 DEF Seen
    <3>2. op.pc \in Open
      BY <1>8 DEF Write, Open, Unwritten
    <3>3. op' \in Ops
      BY <1>1, <2>1, <3>1 DEF Ops, Steps
    <3>4. OpInv'
      BY <1>1, <1>2, <2>1, <3>2 DEF Ops
    <3> QED BY <1>8, <2>1, <3>3, <3>4 DEF Write, Screen, ShapeInv, Shapes
  <2>2. CASE Swap(op.seen, op.t) /\ op' = [op EXCEPT !.pc = "landed", !.got = record']
    <3>1. record' \in Seen /\ over' \in SUBSET Instant /\ closed' \in SUBSET Entry
      BY <1>8, <2>2, SwapShape DEF Write, Open, Unwritten
    <3>2. op.pc \in Open
      BY <1>8 DEF Write, Open, Unwritten
    <3>3. op' \in Ops
      BY <1>1, <2>2, <3>1 DEF Ops, Steps
    <3>4. OpInv'
      BY <1>1, <1>2, <2>2, <3>2 DEF Ops
    <3> QED BY <1>8, <3>1, <3>3, <3>4 DEF Write, Screen, ShapeInv, Shapes
  <2>3. CASE op' = [op EXCEPT !.pc = "reread"] /\ UNCHANGED <<record, over, closed>>
    <3>1. op.pc \in Open
      BY <1>8 DEF Write, Open, Unwritten
    <3>2. op' \in Ops
      BY <1>1, <2>3 DEF Ops, Steps
    <3>3. OpInv'
      BY <1>1, <1>2, <2>3, <3>1 DEF Ops
    <3> QED BY <1>8, <2>3, <3>2, <3>3 DEF Write, Screen, ShapeInv, Shapes
  <2> QED BY <1>8, <2>1, <2>2, <2>3 DEF Write
<1>9. CASE Reread
  <2>1. op' \in Ops /\ OpInv'
    <3>1. CASE op.kind = "start"
      <4>1. op' = [op EXCEPT !.pc = "rewrite", !.seen = record.v]
        BY <1>9, <3>1 DEF Reread
      <4>2. op' \in Ops
        BY <1>1, <4>1 DEF Ops, Steps
      <4>3. op'.pc = "rewrite" /\ op'.kind = op.kind /\ op'.base = op.base /\ op'.t = op.t
        BY <1>1, <4>1 DEF Ops
      <4> QED BY <1>9, <3>1, <4>2, <4>3 DEF Reread, OpInv, ShapeInv, Open, Unwritten, Kinds
    <3>2. CASE op.kind = "stop" /\ IsRunning(record.t) /\ record.t.s = op.base.s
      <4>1. op' = [op EXCEPT !.pc = "rewrite", !.seen = record.v,
                             !.t = [record.t EXCEPT !.e = op.t.e]]
        BY <1>9, <3>2 DEF Reread
      <4>2. record.t \in Timer /\ op.t \in Timer
        BY <1>1, <3>2 DEF IsRunning, ShapeInv, OpInv
      <4>3. [record.t EXCEPT !.e = op.t.e] \in Timer
            /\ [record.t EXCEPT !.e = op.t.e].s = record.t.s
            /\ [record.t EXCEPT !.e = op.t.e].e = op.t.e
        BY <4>2 DEF Timer
      <4>4. op' \in Ops
        BY <1>1, <4>1, <4>3 DEF Ops, Steps
      <4>5. op'.pc = "rewrite" /\ op'.kind = op.kind /\ op'.base = op.base
            /\ op'.t = [record.t EXCEPT !.e = op.t.e]
        BY <1>1, <4>1 DEF Ops
      <4>6. op'.base # None /\ op'.t # None /\ op'.t.s = op'.base.s /\ op'.t.e # None
        BY <3>2, <4>3, <4>5 DEF ShapeInv, OpInv
      <4> QED BY <3>2, <4>4, <4>5, <4>6 DEF OpInv, Open, Unwritten, Kinds
    <3>3. CASE /\ op.kind # "start"
               /\ ~(op.kind = "stop" /\ IsRunning(record.t) /\ record.t.s = op.base.s)
      <4>1. op' = [op EXCEPT !.pc = "landed", !.got = record]
        BY <1>9, <3>3 DEF Reread
      <4>2. op.pc \in Open
        BY <1>9 DEF Reread, Open
      <4>3. op' \in Ops
        BY <1>1, <4>1 DEF Ops, Steps
      <4>4. OpInv'
        BY <1>1, <1>2, <4>1, <4>2 DEF Ops
      <4> QED BY <4>3, <4>4
    <3> QED BY <3>1, <3>2, <3>3
  <2> QED BY <1>9, <2>1 DEF Reread, Screen, ShapeInv, Shapes
<1>10. CASE Rewrite
  <2>1. CASE Swap(op.seen, op.t) /\ op' = [op EXCEPT !.pc = "landed", !.got = record']
    <3>1. record' \in Seen /\ over' \in SUBSET Instant /\ closed' \in SUBSET Entry
      BY <1>10, <2>1, SwapShape DEF Rewrite, Open, Unwritten
    <3>2. op.pc \in Open
      BY <1>10 DEF Rewrite, Open, Unwritten
    <3>3. op' \in Ops
      BY <1>1, <2>1, <3>1 DEF Ops, Steps
    <3>4. OpInv'
      BY <1>1, <1>2, <2>1, <3>2 DEF Ops
    <3> QED BY <1>10, <3>1, <3>3, <3>4 DEF Rewrite, Screen, ShapeInv, Shapes
  <2>2. CASE op' = [op EXCEPT !.pc = "failed"] /\ UNCHANGED <<record, over, closed>>
    <3>1. op' \in Ops /\ OpInv'
      BY <1>3, <1>10, <2>2 DEF Rewrite, Open, Unwritten, Steps
    <3> QED BY <1>10, <2>2, <3>1 DEF Rewrite, Screen, ShapeInv, Shapes
  <2> QED BY <1>10, <2>1, <2>2 DEF Rewrite
<1>11. CASE Fail
  <2>1. op' \in Ops /\ OpInv'
    BY <1>3, <1>11 DEF Fail, Open, Unwritten, Steps
  <2>2. left' \in [taps : Nat, others : Nat, fails : Nat, kills : Nat]
    BY <1>11 DEF Fail, ShapeInv, Shapes
  <2>3. record' \in Seen /\ over' \in SUBSET Instant /\ closed' \in SUBSET Entry
    <3>1. CASE UNCHANGED <<record, over, closed>>
      BY <3>1 DEF ShapeInv, Shapes
    <3>2. CASE Swap(op.seen, op.t)
      BY <1>11, <3>2, SwapShape DEF Fail, Open, Unwritten
    <3> QED BY <1>11, <3>1, <3>2 DEF Fail
  <2> QED BY <1>11, <2>1, <2>2, <2>3 DEF Fail, Screen, ShapeInv, Shapes
<1>12. CASE Settle
  BY <1>1, <1>4, <1>12 DEF Settle, Adopt, Screen, ShapeInv, Shapes
<1>13. CASE Missing
  BY <1>4, <1>13 DEF Missing, Screen, ShapeInv, Shapes
<1> QED BY <1>5, <1>6, <1>7, <1>8, <1>9, <1>10, <1>11, <1>12, <1>13 DEF Work

\* The poll, the flush, the kills and launches, and the other devices.
LEMMA RestShapes ==
    ASSUME ShapeInv, Bounded,
           \/ RefreshRead \/ RefreshAdopt \/ FlushRead \/ FlushPush \/ FlushDrop
           \/ Kill \/ Launch \/ PushTask \/ Other
    PROVE  ShapeInv'
<1> USE NoneIsNothing, NothingSeen
<1>1. CASE RefreshRead
  <2>1. localOnly' \in BOOLEAN
    BY <1>1 DEF RefreshRead, ShapeInv, Shapes
  <2>2. poll' \in Seen \cup {None}
    BY <1>1 DEF RefreshRead, ShapeInv, Shapes
  <2> QED BY <1>1, <2>1, <2>2 DEF RefreshRead, Screen, ShapeInv, Shapes, OpInv
<1>2. CASE RefreshAdopt
  BY <1>2 DEF RefreshAdopt, Adopt, Screen, ShapeInv, Shapes, OpInv
<1>3. CASE FlushRead
  BY <1>3 DEF FlushRead, Screen, ShapeInv, Shapes, OpInv
<1>4. CASE FlushPush
  <2>1. left' \in [taps : Nat, others : Nat, fails : Nat, kills : Nat]
    BY <1>4 DEF FlushPush, ShapeInv, Shapes
  <2>2. cloud' \in SUBSET Entry /\ flush' \in [pc : {"idle", "push", "drop"}, took : SUBSET Entry]
    BY <1>4 DEF FlushPush, ShapeInv, Shapes
  <2> QED BY <1>4, <2>1, <2>2 DEF FlushPush, Screen, ShapeInv, Shapes, OpInv
<1>5. CASE FlushDrop
  BY <1>5 DEF FlushDrop, Screen, ShapeInv, Shapes, OpInv
<1>6. CASE Kill
  <2>1. left' \in [taps : Nat, others : Nat, fails : Nat, kills : Nat]
    BY <1>6 DEF Kill, ShapeInv, Shapes
  <2>2. record' \in Seen /\ over' \in SUBSET Instant /\ closed' \in SUBSET Entry
    <3>1. CASE UNCHANGED <<record, over, closed>>
      BY <3>1 DEF ShapeInv, Shapes
    <3>2. CASE op.pc \in {"write", "rewrite"} /\ Swap(op.seen, op.t)
      BY <3>2, SwapShape DEF Open, Unwritten
    <3> QED BY <1>6, <3>1, <3>2 DEF Kill
  <2>3. op' \in Ops /\ OpInv'
    BY <1>6, IdleOp DEF Kill, OpInv, Open, Unwritten, Kinds
  <2>4. torn' \in BOOLEAN
    BY <1>6 DEF Kill
  <2>5. flush' \in [pc : {"idle", "push", "drop"}, took : SUBSET Entry]
    BY <1>6 DEF Kill
  <2> QED BY <1>6, <2>1, <2>2, <2>3, <2>4, <2>5 DEF Kill, ShapeInv, Shapes
<1>7. CASE Launch
  BY <1>7 DEF Launch, Adopt, Screen, ShapeInv, Shapes, OpInv
<1>8. CASE PushTask
  BY <1>8 DEF PushTask, Screen, ShapeInv, Shapes, OpInv
<1>9. CASE Other
  <2>1. record.v + 1 \in Nat /\ (IsRunning(record.t) => record.t \in Timer)
    BY DEF ShapeInv, Shapes, Seen, IsRunning
  <2>2. left' \in [taps : Nat, others : Nat, fails : Nat, kills : Nat]
    BY <1>9 DEF Other, ShapeInv, Shapes
  <2>3. Tick => clock + 1 \in Instant /\ clock' = clock + 1
    BY DEF Tick, Instant, ShapeInv, Shapes, Bounded, PhoneBounds
  <2>4. record' \in Seen /\ clock' \in Instant
    <3>1. CASE Tick /\ \E d \in Title :
                 record' = [v |-> record.v + 1, t |-> [d |-> d, s |-> clock + 1, e |-> None]]
      BY <2>1, <2>3, <3>1 DEF Seen, Timer
    <3>2. CASE IsRunning(record.t) /\ Tick /\
                 record' = [v |-> record.v + 1, t |-> [record.t EXCEPT !.e = clock + 1]]
      <4>1. [record.t EXCEPT !.e = clock + 1] \in Timer
        BY <2>1, <2>3, <3>2 DEF Timer
      <4> QED BY <2>1, <2>3, <3>2, <4>1 DEF Seen
    <3>3. CASE IsRunning(record.t) /\ UNCHANGED clock /\
                 \E d \in Title \ {record.t.d} :
                   record' = [v |-> record.v + 1, t |-> [record.t EXCEPT !.d = d]]
      <4>1. PICK d \in Title \ {record.t.d} :
                   record' = [v |-> record.v + 1, t |-> [record.t EXCEPT !.d = d]]
        BY <3>3
      <4>2. [record.t EXCEPT !.d = d] \in Timer
        BY <2>1, <3>3 DEF Timer
      <4> QED BY <2>1, <3>3, <4>1, <4>2 DEF Seen, ShapeInv, Shapes
    <3> QED BY <1>9, <3>1, <3>2, <3>3 DEF Other
  <2>5. over' \in SUBSET Instant
    <3>1. Over(record'.t)
      BY <1>9 DEF Other
    <3>2. IsRunning(record.t) => record.t.s \in Instant
      BY <2>1 DEF Timer
    <3> QED BY <3>1, <3>2 DEF Over, ShapeInv, Shapes
  <2> QED BY <1>9, <2>2, <2>4, <2>5 DEF Other, Phone, ShapeInv, Shapes, OpInv
<1> QED BY <1>1, <1>2, <1>3, <1>4, <1>5, <1>6, <1>7, <1>8, <1>9

LEMMA NextShapes ==
    ASSUME ShapeInv, Bounded, [Next]_vars
    PROVE  ShapeInv'
<1>1. CASE Next
  BY <1>1, TapShapes, WorkShapes, RestShapes DEF Next
<1>2. CASE UNCHANGED vars
  BY <1>2 DEF vars, ShapeInv, Shapes, OpInv
<1> QED BY <1>1, <1>2

\* What the screen, the queue, the tap under way and the record hold is made of
\* timers the phone or another device started.
THEOREM ShapesAlways == Bounded => (Spec => []ShapeInv)
<1> SUFFICES ASSUME Bounded
             PROVE  Spec => []ShapeInv
  OBVIOUS
<1>1. Init => ShapeInv
  BY InitShapes
<1>2. ShapeInv /\ [Next]_vars => ShapeInv'
  BY NextShapes
<1> QED BY <1>1, <1>2, PTL DEF Spec

-----------------------------------------------------------------------------
(* A timer that was ended or replaced never runs again *)

\* A state the phone holds, whoever it came from, is of no later version than
\* the record, and at the record's version it runs nothing that is over: a
\* compare-and-set that succeeds from it brings nothing back.
Fits(x) ==
    /\ x.v <= record.v
    /\ x.t # None => x.t.s <= clock
    /\ x.v = record.v /\ IsRunning(x.t) => x.t.s \notin over

FitsInv ==
    /\ Fits(record) /\ Fits(state) /\ Fits(op.before) /\ Fits(op.got)
    /\ kept # None => Fits(kept)
    /\ poll # None => Fits(poll)
    /\ op.pc \in Open => Fits([v |-> op.seen, t |-> op.t])
    /\ op.base # None => op.base.s <= clock
    /\ \A s \in over : s <= clock

\* A start goes again on whatever it finds, and for that its own start must
\* be one that the record has not had.
StartInv ==
    op.kind = "start" /\ op.pc \in Open =>
        /\ op.t.s \notin over
        /\ record.t # None => record.t.s # op.t.s

ReturnInv == FitsInv /\ StartInv

LEMMA InitReturns ==
    ASSUME Bounded, Init
    PROVE  ReturnInv
<1>1. Idle.before = Nothing /\ Idle.got = Nothing /\ Idle.base = None
  BY DEF Idle, Nothing
<1> QED BY <1>1, IdleOp, NoneIsNothing
        DEF Init, ReturnInv, FitsInv, StartInv, Fits, Nothing, IsRunning, Open, Unwritten, Kinds

\* A write of the record, by whom it may be: every state held from before is
\* of an earlier version then.
LEMMA WriteFits ==
    ASSUME ShapeInv, ReturnInv, record' \in Seen, clock \in Instant, clock' \in Instant,
           record'.v = record.v + 1, Over(record'.t), Bounded,
           clock <= clock', record'.t # None => record'.t.s <= clock',
           IsRunning(record'.t) => record'.t.s \notin over
    PROVE  /\ Fits(record)' /\ \A s \in over' : s <= clock'
           /\ \A x \in Seen : x.v <= record.v => x.v <= record'.v /\ x.v # record'.v
           /\ over' \subseteq over \cup (IF record.t = None THEN {} ELSE {record.t.s})
<1>1. record.v \in Nat /\ (IsRunning(record.t) => record.t \in Timer /\ record.t # None)
  BY DEF ShapeInv, Shapes, Seen, IsRunning
<1>2. over' \subseteq over \cup (IF record.t = None THEN {} ELSE {record.t.s})
  BY <1>1 DEF Over
<1>3. \A s \in over' : s <= clock'
  <2>1. \A s \in over : s \in Nat /\ s <= clock
    BY DEF ReturnInv, FitsInv, ShapeInv, Shapes, Instant
  <2>2. record.t # None => record.t.s \in Nat /\ record.t.s <= clock
    BY DEF ReturnInv, FitsInv, Fits, ShapeInv, Shapes, Seen, Timer, Instant
  <2>3. clock \in Nat /\ clock' \in Nat
    BY DEF Instant
  <2> QED BY <1>2, <2>1, <2>2, <2>3
<1>4. Fits(record)'
  <2>1. record'.v \in Nat
    BY <1>1
  <2>2. ASSUME IsRunning(record'.t) PROVE record'.t.s \notin over'
    BY <2>2 DEF Over
  <2> QED BY <2>1, <2>2 DEF Fits
<1>5. \A x \in Seen : x.v <= record.v => x.v <= record'.v /\ x.v # record'.v
  BY <1>1 DEF Seen
<1> QED BY <1>2, <1>3, <1>4, <1>5

\* A compare-and-set by the phone fits: it writes at the version it saw, and
\* what it writes fitted there.
LEMMA SwapFits ==
    ASSUME ShapeInv, ReturnInv, Bounded, op.pc \in Open, Swap(op.seen, op.t), clock' = clock
    PROVE  /\ record' \in Seen /\ record'.v = record.v + 1 /\ record'.t = op.t
           /\ Fits(record)' /\ \A s \in over' : s <= clock'
           /\ \A x \in Seen : x.v <= record.v => x.v <= record'.v /\ x.v # record'.v
<1>1. record' \in Seen
  BY SwapShape
<1>2. record'.v = record.v + 1 /\ record'.t = op.t /\ op.seen = record.v
  BY DEF Swap
<1>3. Over(record'.t)
  BY <1>2 DEF Swap
<1>4. Fits([v |-> op.seen, t |-> op.t])
  BY DEF ReturnInv, FitsInv
<1>5. /\ record'.t # None => record'.t.s <= clock
      /\ IsRunning(record'.t) => record'.t.s \notin over
  BY <1>2, <1>4 DEF Fits
<1>6. clock \in Instant /\ clock \in Nat
  BY DEF ShapeInv, Shapes, Instant
<1>7. clock' \in Instant /\ clock <= clock'
  BY <1>6
<1> QED BY <1>1, <1>2, <1>3, <1>5, <1>6, <1>7, WriteFits

\* The steps that leave the record alone, and take no new state in, keep the
\* fit while the clock moves on.
LEMMA StillFits ==
    ASSUME ShapeInv, FitsInv, Bounded, UNCHANGED <<record, over>>, clock <= clock',
           clock' \in Instant, NEW x, x \in Seen, Fits(x)
    PROVE  /\ x.v <= record'.v
           /\ x.t # None => x.t.s <= clock'
           /\ x.v = record'.v /\ IsRunning(x.t) => x.t.s \notin over'
<1>1. x.t # None => x.t.s \in Nat
  BY DEF Seen, Timer, Instant
<1>2. clock \in Nat /\ clock' \in Nat
  BY DEF ShapeInv, Shapes, Instant
<1> QED BY <1>1, <1>2 DEF Fits

LEMMA HeldStates ==
    ASSUME ShapeInv
    PROVE  /\ record \in Seen /\ state \in Seen /\ op.before \in Seen /\ op.got \in Seen
           /\ kept # None => kept \in Seen
           /\ poll # None => poll \in Seen
           /\ [v |-> op.seen, t |-> op.t] \in Seen
           /\ op.base \in Timer \cup {None} /\ op.t \in Timer \cup {None}
           /\ clock \in Instant /\ clock \in Nat /\ over \in SUBSET Instant
BY DEF ShapeInv, Shapes, Ops, Seen, Instant

\* What is held beside the tap's work, in a step that only moves the clock.
LEMMA StillHeld ==
    ASSUME ShapeInv, ReturnInv, Bounded, UNCHANGED <<record, over, state, kept, poll>>,
           clock <= clock', clock' \in Instant
    PROVE  /\ Fits(record)' /\ Fits(state)'
           /\ (kept # None => Fits(kept))' /\ (poll # None => Fits(poll))'
           /\ \A s \in over' : s <= clock'
<1>1. FitsInv
  BY DEF ReturnInv
<1>2. Fits(record)'
  BY <1>1, HeldStates, StillFits DEF FitsInv, Fits
<1>3. Fits(state)'
  BY <1>1, HeldStates, StillFits DEF FitsInv, Fits
<1>4. (kept # None => Fits(kept))'
  BY <1>1, HeldStates, StillFits DEF FitsInv, Fits
<1>5. (poll # None => Fits(poll))'
  BY <1>1, HeldStates, StillFits DEF FitsInv, Fits
<1>6. \A s \in over' : s <= clock'
  <2>1. \A s \in over : s \in Nat /\ s <= clock
    BY <1>1, HeldStates DEF FitsInv, Instant
  <2> QED BY <2>1, HeldStates DEF Instant
<1> QED BY <1>2, <1>3, <1>4, <1>5, <1>6

LEMMA StillWork ==
    ASSUME ShapeInv, ReturnInv, Bounded, UNCHANGED <<record, over, state, kept, poll, op>>,
           clock <= clock', clock' \in Instant
    PROVE  ReturnInv'
<1>1. FitsInv /\ StartInv
  BY DEF ReturnInv
<1>2. Fits(op.before)' /\ Fits(op.got)'
  BY <1>1, HeldStates, StillFits DEF FitsInv, Fits
<1>3. op.pc \in Open => Fits([v |-> op.seen, t |-> op.t])'
  BY <1>1, HeldStates, StillFits DEF FitsInv, Fits
<1>4. op.base # None => op.base.s <= clock'
  <2>1. op.base # None => op.base.s \in Nat /\ op.base.s <= clock
    BY <1>1, HeldStates DEF FitsInv, Timer, Instant
  <2> QED BY <2>1, HeldStates DEF Instant
<1>5. FitsInv'
  BY <1>2, <1>3, <1>4, StillHeld DEF FitsInv
<1>6. StartInv'
  BY <1>1 DEF StartInv
<1> QED BY <1>5, <1>6 DEF ReturnInv

\* A tap's work, as it begins: on the shown state, with its own start for a
\* start, with the shown timer's for a stop or an edit.
LEMMA NewWork ==
    ASSUME ShapeInv, ReturnInv, Bounded, UNCHANGED <<record, over, state, kept, poll>>,
           clock <= clock', clock' \in Instant,
           op'.seen = state.v, op'.base = state.t, op'.t \in Timer,
           op'.before = Nothing, op'.got = Nothing,
           \/ clock' = clock + 1 /\ op'.t.s = clock'
           \/ /\ op'.kind # "start" /\ state.t # None /\ op'.t.s = state.t.s
              /\ IsRunning(op'.t) => IsRunning(state.t)
    PROVE  ReturnInv'
<1> USE NoneIsNothing
<1>1. FitsInv /\ Fits(state)
  BY DEF ReturnInv, FitsInv
<1>2. record.v \in Nat /\ clock \in Nat /\ clock' \in Nat /\ state.v \in Nat
      /\ (record.t # None => record.t.s \in Nat) /\ (state.t # None => state.t.s \in Nat)
      /\ \A s \in over : s \in Nat
  BY HeldStates DEF Seen, Timer, Instant
<1>3. Fits(op.before)' /\ Fits(op.got)'
  BY <1>2 DEF Fits, Nothing, IsRunning
<1>4. Fits([v |-> op.seen, t |-> op.t])'
  <2>1. op'.seen <= record'.v
    BY <1>1 DEF Fits
  <2>2. op'.t.s <= clock'
    BY <1>1, <1>2 DEF Fits
  <2>3. op'.seen = record'.v /\ IsRunning(op'.t) => op'.t.s \notin over'
    BY <1>1, <1>2 DEF Fits, FitsInv
  <2> QED BY <2>1, <2>2, <2>3 DEF Fits
<1>5. op'.base # None => op'.base.s <= clock'
  BY <1>1, <1>2 DEF Fits
<1>6. FitsInv'
  BY <1>3, <1>4, <1>5, StillHeld DEF FitsInv
<1>7. StartInv'
  <2>1. CASE clock' = clock + 1 /\ op'.t.s = clock'
    BY <1>1, <1>2, <2>1 DEF StartInv, FitsInv, Fits
  <2>2. CASE op'.kind # "start"
    BY <2>2 DEF StartInv
  <2> QED BY <2>1, <2>2
<1> QED BY <1>6, <1>7 DEF ReturnInv

LEMMA StartingReturns ==
    ASSUME ShapeInv, ReturnInv, Bounded, UNCHANGED <<record, over, state, kept, poll>>,
           NEW d \in Title, Tick, op' = Starting(d)
    PROVE  ReturnInv'
<1>1. /\ op'.seen = state.v /\ op'.base = state.t /\ op'.t \in Timer
      /\ op'.before = Nothing /\ op'.got = Nothing /\ clock' \in Instant
      /\ op'.t = [d |-> d, s |-> clock + 1, e |-> None]
  BY StartingShape
<1>2. clock' = clock + 1 /\ clock <= clock' /\ op'.t.s = clock'
  BY <1>1, HeldStates DEF Tick
<1> QED BY <1>1, <1>2, NewWork

LEMMA TapReturns ==
    ASSUME ShapeInv, ReturnInv, Bounded,
           \/ \E d \in Title : StartTap(d) \/ ResumeTap(d) \/ EditSave(d)
           \/ \E yes \in BOOLEAN : ResumeAnswer(yes)
           \/ StopTap \/ StopLands \/ EditTap
    PROVE  ReturnInv'
<1>1. ASSUME NEW d \in Title, StartTap(d) PROVE ReturnInv'
  <2>1. UNCHANGED <<record, over, state, kept, poll>> /\ Tick /\ op' = Starting(d)
    BY <1>1 DEF StartTap
  <2> QED BY <2>1, StartingReturns
<1>2. ASSUME NEW yes \in BOOLEAN, ResumeAnswer(yes) PROVE ReturnInv'
  <2>1. UNCHANGED <<record, over, state, kept, poll>> /\ asked \in Title
    BY <1>2 DEF ResumeAnswer, ShapeInv, Shapes
  <2>2. CASE yes
    <3>1. Tick /\ op' = Starting(asked)
      BY <1>2, <2>2 DEF ResumeAnswer
    <3> QED BY <2>1, <3>1, StartingReturns
  <2>3. CASE ~yes
    <3>1. UNCHANGED <<op, clock>>
      BY <1>2, <2>3 DEF ResumeAnswer
    <3> QED BY <2>1, <3>1, HeldStates, StillWork
  <2> QED BY <2>2, <2>3
<1>3. ASSUME NEW d \in Title, EditSave(d) PROVE ReturnInv'
  <2>1. UNCHANGED <<record, over, state, kept, poll, clock>>
    BY <1>3 DEF EditSave
  <2>2. CASE IsRunning(state.t)
    <3>1. /\ op'.kind = "edit" /\ op'.seen = state.v /\ op'.base = state.t
          /\ op'.t = [state.t EXCEPT !.d = d]
          /\ op'.before = Nothing /\ op'.got = Nothing
      BY <1>3, <2>2 DEF EditSave, Idle, Nothing
    <3>2. state.t \in Timer /\ state.t # None
      BY <2>2, HeldStates DEF IsRunning, Seen
    <3>3. op'.t \in Timer /\ op'.t.s = state.t.s
      BY <3>1, <3>2 DEF Timer
    <3> QED BY <2>1, <2>2, <3>1, <3>2, <3>3, HeldStates, NewWork
  <2>3. CASE ~IsRunning(state.t)
    <3>1. op' = op
      BY <1>3, <2>3 DEF EditSave
    <3> QED BY <2>1, <3>1, HeldStates, StillWork
  <2> QED BY <2>2, <2>3
<1>4. ASSUME StopLands PROVE ReturnInv'
  <2>1. UNCHANGED <<record, over, state, kept, poll>>
    BY <1>4 DEF StopLands
  <2>2. CASE state.t = None
    <3>1. UNCHANGED <<op, clock>>
      BY <1>4, <2>2 DEF StopLands
    <3> QED BY <2>1, <3>1, HeldStates, StillWork
  <2>3. CASE state.t # None
    <3>1. /\ op'.kind = "stop" /\ op'.seen = state.v /\ op'.base = state.t
          /\ op'.t = [state.t EXCEPT !.e = clock + 1]
          /\ op'.before = Nothing /\ op'.got = Nothing /\ Tick
      BY <1>4, <2>3 DEF StopLands, Idle, Nothing
    <3>2. clock' = clock + 1 /\ clock' \in Instant /\ clock <= clock' /\ state.t \in Timer
      BY <3>1, <2>3, HeldStates DEF Tick, Instant, Seen, Bounded, PhoneBounds
    <3>3. op'.t \in Timer /\ op'.t.s = state.t.s /\ op'.t.e = clock'
      BY <3>1, <3>2 DEF Timer
    <3>4. ~IsRunning(op'.t)
      BY <3>2, <3>3, NoneIsNothing DEF IsRunning
    <3> QED BY <2>1, <2>3, <3>1, <3>2, <3>3, <3>4, NewWork
  <2> QED BY <2>2, <2>3
<1>5. ASSUME (\E d \in Title : ResumeTap(d)) \/ StopTap \/ EditTap PROVE ReturnInv'
  <2>1. UNCHANGED <<record, over, state, kept, poll, op, clock>>
    BY <1>5 DEF ResumeTap, StopTap, EditTap
  <2> QED BY <2>1, HeldStates, StillWork
<1> QED BY <1>1, <1>2, <1>3, <1>4, <1>5

\* A step of the work that writes nothing and shows nothing.
LEMMA WorkKept ==
    ASSUME ShapeInv, ReturnInv, Bounded, UNCHANGED <<record, over, state, kept, poll, clock>>,
           op'.base = op.base, op'.before = op.before, Fits(op'.got), op'.kind = op.kind,
           op'.pc \in Open =>
             op.pc \in Open /\ op'.seen <= record.v /\ op'.t # None /\ op'.t.s <= clock
             /\ (op'.seen = record.v /\ IsRunning(op'.t) => op'.t.s \notin over)
             /\ (op.kind = "start" => op'.t = op.t)
    PROVE  ReturnInv'
<1>1. FitsInv'
  BY DEF ReturnInv, FitsInv, Fits
<1>2. StartInv'
  BY DEF ReturnInv, StartInv
<1> QED BY <1>1, <1>2 DEF ReturnInv

LEMMA IdleReturns ==
    ASSUME op' = Idle, record'.v \in Nat
    PROVE  /\ Fits(op.before)' /\ Fits(op.got)' /\ ~(op'.base # None)
           /\ ~(op.pc \in Open)' /\ StartInv'
<1>1. /\ op'.before = Nothing /\ op'.got = Nothing /\ op'.base = None /\ op'.pc = "idle"
  BY DEF Idle, Nothing
<1> QED BY <1>1 DEF Fits, Nothing, IsRunning, StartInv, Open, Unwritten

\* After a compare-and-set by the phone nothing of its work is to be written.
LEMMA SwapReturns ==
    ASSUME ShapeInv, ReturnInv, Bounded, op.pc \in Open, Swap(op.seen, op.t),
           UNCHANGED <<state, kept, poll, clock>>,
           op'.base = op.base, op'.before = op.before, op'.got \in {op.got, record'},
           op'.pc \in {"landed", "failed"}
    PROVE  ReturnInv'
<1>1. /\ record' \in Seen /\ record'.v = record.v + 1 /\ record'.t = op.t
      /\ Fits(record)' /\ \A s \in over' : s <= clock'
      /\ \A x \in Seen : x.v <= record.v => x.v <= record'.v /\ x.v # record'.v
  BY SwapFits
<1>2. FitsInv
  BY DEF ReturnInv
<1>3. Fits(state)' /\ (kept # None => Fits(kept))' /\ (poll # None => Fits(poll))'
  BY <1>1, <1>2, HeldStates DEF FitsInv, Fits
<1>4. Fits(op.before)'
  BY <1>1, <1>2, HeldStates DEF FitsInv, Fits
<1>5. Fits(op.got)'
  BY <1>1, <1>2, HeldStates DEF FitsInv, Fits
<1>6. ~(op.pc \in Open)'
  BY DEF Open, Unwritten
<1>7. FitsInv'
  BY <1>1, <1>2, <1>3, <1>4, <1>5, <1>6 DEF FitsInv
<1>8. StartInv'
  BY <1>6 DEF StartInv
<1> QED BY <1>7, <1>8 DEF ReturnInv

LEMMA WorkReturns ==
    ASSUME ShapeInv, ReturnInv, Bounded, Work
    PROVE  ReturnInv'
<1>1. FitsInv /\ StartInv /\ OpInv /\ op \in Ops /\ record.v \in Nat
  BY HeldStates DEF ReturnInv, ShapeInv, Shapes, Seen
<1>2. op.pc \in Open =>
        /\ op.seen <= record.v /\ op.t # None /\ op.t.s <= clock
        /\ op.seen = record.v /\ IsRunning(op.t) => op.t.s \notin over
  BY <1>1 DEF FitsInv, Fits, OpInv
<1>3. Fits(op.got) /\ Fits(op.before) /\ Fits(record)
  BY <1>1 DEF FitsInv
<1>4. CASE QueueRead \/ QueueStore
  <2>1. /\ op'.base = op.base /\ op'.before = op.before /\ op'.got = op.got
        /\ op'.kind = op.kind /\ op'.seen = op.seen /\ op'.t = op.t
    BY <1>1, <1>4 DEF QueueRead, QueueStore, Ops
  <2>2. UNCHANGED <<record, over, state, kept, poll, clock>> /\ op.pc \in Open
    BY <1>4 DEF QueueRead, QueueStore, Open, Unwritten
  <2> QED BY <1>2, <1>3, <2>1, <2>2, WorkKept
<1>5. CASE Begin
  <2>1. /\ UNCHANGED <<record, over, poll, clock>> /\ op.pc \in Open
        /\ state' = [v |-> op.seen, t |-> op.t] /\ kept' = [v |-> op.seen, t |-> op.t]
    BY <1>5 DEF Begin, Adopt, Open, Unwritten
  <2>2. /\ Fits(state)' /\ Fits(kept)' /\ Fits(record)' /\ (poll # None => Fits(poll))'
        /\ \A s \in over' : s <= clock'
    BY <1>1, <2>1 DEF FitsInv, Fits
  <2>3. CASE op' = Idle
    BY <1>1, <2>1, <2>2, <2>3, IdleReturns DEF FitsInv, ReturnInv
  <2>4. CASE op' = [op EXCEPT !.pc = "write", !.before = state]
    <3>1. /\ op'.base = op.base /\ op'.before = state /\ op'.got = op.got
          /\ op'.kind = op.kind /\ op'.seen = op.seen /\ op'.t = op.t
      BY <1>1, <2>4 DEF Ops
    <3>2. FitsInv'
      BY <1>1, <2>1, <2>2, <3>1 DEF FitsInv, Fits
    <3>3. StartInv'
      BY <1>1, <2>1, <3>1 DEF StartInv
    <3> QED BY <3>2, <3>3 DEF ReturnInv
  <2> QED BY <1>5, <2>3, <2>4 DEF Begin
<1>6. CASE Write
  <2>1. UNCHANGED <<state, kept, poll, clock>> /\ op.pc \in Open
    BY <1>6 DEF Write, Open, Unwritten
  <2>2. CASE /\ op.kind = "stop" /\ ~IsRunning(op.base)
             /\ op' = [op EXCEPT !.pc = "landed", !.got = [v |-> op.seen, t |-> op.base]]
             /\ UNCHANGED <<record, over, closed>>
    <3>1. /\ op'.base = op.base /\ op'.before = op.before /\ op'.kind = op.kind
          /\ op'.got = [v |-> op.seen, t |-> op.base] /\ op'.pc = "landed"
      BY <1>1, <2>2 DEF Ops
    <3>2. Fits(op'.got)
      BY <1>1, <1>2, <2>1, <2>2, <3>1 DEF FitsInv, Fits
    <3>3. ~(op'.pc \in Open)
      BY <3>1 DEF Open, Unwritten
    <3> QED BY <2>1, <2>2, <3>1, <3>2, <3>3, WorkKept
  <2>3. CASE Swap(op.seen, op.t) /\ op' = [op EXCEPT !.pc = "landed", !.got = record']
    <3>1. /\ op'.base = op.base /\ op'.before = op.before
          /\ op'.got = record' /\ op'.pc = "landed"
      BY <1>1, <2>3 DEF Ops
    <3> QED BY <2>1, <2>3, <3>1, SwapReturns
  <2>4. CASE op' = [op EXCEPT !.pc = "reread"] /\ UNCHANGED <<record, over, closed>>
    <3>1. /\ op'.base = op.base /\ op'.before = op.before /\ op'.got = op.got
          /\ op'.kind = op.kind /\ op'.seen = op.seen /\ op'.t = op.t
      BY <1>1, <2>4 DEF Ops
    <3> QED BY <1>2, <1>3, <2>1, <2>4, <3>1, WorkKept
  <2> QED BY <1>6, <2>2, <2>3, <2>4 DEF Write
<1>7. CASE Reread
  <2>1. UNCHANGED <<record, over, state, kept, poll, clock>> /\ op.pc \in Open
    BY <1>7 DEF Reread, Open
  <2>2. CASE op.kind = "start"
    <3>1. op' = [op EXCEPT !.pc = "rewrite", !.seen = record.v]
      BY <1>7, <2>2 DEF Reread
    <3>2. /\ op'.base = op.base /\ op'.before = op.before /\ op'.got = op.got
          /\ op'.kind = op.kind /\ op'.seen = record.v /\ op'.t = op.t
      BY <1>1, <3>1 DEF Ops
    <3>3. op.t.s \notin over
      BY <1>1, <2>1, <2>2 DEF StartInv
    <3>4. op'.seen <= record.v
      BY <1>1, <3>2
    <3> QED BY <1>2, <1>3, <2>1, <3>2, <3>3, <3>4, WorkKept
  <2>3. CASE op.kind = "stop" /\ IsRunning(record.t) /\ record.t.s = op.base.s
    <3>1. op' = [op EXCEPT !.pc = "rewrite", !.seen = record.v,
                           !.t = [record.t EXCEPT !.e = op.t.e]]
      BY <1>7, <2>3 DEF Reread
    <3>2. /\ op'.base = op.base /\ op'.before = op.before /\ op'.got = op.got
          /\ op'.kind = op.kind /\ op'.seen = record.v
          /\ op'.t = [record.t EXCEPT !.e = op.t.e]
      BY <1>1, <3>1 DEF Ops
    <3>3. record.t \in Timer /\ record.t # None /\ op.t \in Timer /\ op.t.e # None
      BY <1>1, <2>3, HeldStates DEF IsRunning, Seen, OpInv
    <3>4. [record.t EXCEPT !.e = op.t.e] \in Timer
          /\ [record.t EXCEPT !.e = op.t.e].s = record.t.s
          /\ [record.t EXCEPT !.e = op.t.e].e = op.t.e
      BY <3>3 DEF Timer
    <3>5. op'.t # None /\ op'.t.s = record.t.s /\ ~IsRunning(op'.t)
      BY <3>2, <3>3, <3>4, NoneIsNothing DEF IsRunning
    <3>6. record.t.s <= clock
      BY <1>3, <3>3 DEF Fits
    <3>7. op'.seen <= record.v
      BY <1>1, <3>2
    <3> QED BY <1>3, <2>1, <2>3, <3>2, <3>5, <3>6, <3>7, WorkKept
  <2>4. CASE /\ op.kind # "start"
             /\ ~(op.kind = "stop" /\ IsRunning(record.t) /\ record.t.s = op.base.s)
    <3>1. op' = [op EXCEPT !.pc = "landed", !.got = record]
      BY <1>7, <2>4 DEF Reread
    <3>2. /\ op'.base = op.base /\ op'.before = op.before /\ op'.got = record
          /\ op'.kind = op.kind /\ op'.pc = "landed"
      BY <1>1, <3>1 DEF Ops
    <3>3. ~(op'.pc \in Open)
      BY <3>2 DEF Open, Unwritten
    <3> QED BY <1>3, <2>1, <3>2, <3>3, WorkKept
  <2> QED BY <2>2, <2>3, <2>4
<1>8. CASE Rewrite
  <2>1. UNCHANGED <<state, kept, poll, clock>> /\ op.pc \in Open
    BY <1>8 DEF Rewrite, Open, Unwritten
  <2>2. CASE Swap(op.seen, op.t) /\ op' = [op EXCEPT !.pc = "landed", !.got = record']
    <3>1. /\ op'.base = op.base /\ op'.before = op.before
          /\ op'.got = record' /\ op'.pc = "landed"
      BY <1>1, <2>2 DEF Ops
    <3> QED BY <2>1, <2>2, <3>1, SwapReturns
  <2>3. CASE op' = [op EXCEPT !.pc = "failed"] /\ UNCHANGED <<record, over, closed>>
    <3>1. /\ op'.base = op.base /\ op'.before = op.before /\ op'.got = op.got
          /\ op'.kind = op.kind /\ op'.pc = "failed"
      BY <1>1, <2>3 DEF Ops
    <3>2. ~(op'.pc \in Open)
      BY <3>1 DEF Open, Unwritten
    <3> QED BY <1>3, <2>1, <2>3, <3>1, <3>2, WorkKept
  <2> QED BY <1>8, <2>2, <2>3 DEF Rewrite
<1>9. CASE Fail
  <2>1. /\ UNCHANGED <<state, kept, poll, clock>> /\ op.pc \in Open
        /\ op' = [op EXCEPT !.pc = "failed"]
    BY <1>9 DEF Fail, Open, Unwritten
  <2>2. /\ op'.base = op.base /\ op'.before = op.before /\ op'.got = op.got
        /\ op'.kind = op.kind /\ op'.pc = "failed"
    BY <1>1, <2>1 DEF Ops
  <2>3. CASE UNCHANGED <<record, over, closed>>
    <3>1. ~(op'.pc \in Open)
      BY <2>2 DEF Open, Unwritten
    <3> QED BY <1>3, <2>1, <2>2, <2>3, <3>1, WorkKept
  <2>4. CASE Swap(op.seen, op.t)
    BY <2>1, <2>2, <2>4, SwapReturns
  <2> QED BY <1>9, <2>3, <2>4 DEF Fail
<1>10. CASE Settle
  <2>1. /\ UNCHANGED <<record, over, poll, clock>> /\ op' = Idle
        /\ state' = kept' /\ state' \in {op.got, op.before}
    BY <1>10 DEF Settle, Adopt
  <2>2. /\ Fits(state)' /\ Fits(kept)' /\ Fits(record)' /\ (poll # None => Fits(poll))'
        /\ \A s \in over' : s <= clock'
    BY <1>1, <1>3, <2>1 DEF FitsInv, Fits
  <2> QED BY <1>1, <2>1, <2>2, IdleReturns DEF FitsInv, ReturnInv
<1>11. CASE Missing
  <2>1. UNCHANGED <<record, over, poll, clock, state, kept>> /\ op' = Idle
    BY <1>11 DEF Missing
  <2>2. /\ Fits(state)' /\ (kept # None => Fits(kept))' /\ Fits(record)'
        /\ (poll # None => Fits(poll))' /\ \A s \in over' : s <= clock'
    BY <1>1, <2>1 DEF FitsInv, Fits
  <2> QED BY <1>1, <2>1, <2>2, IdleReturns DEF FitsInv, ReturnInv
<1> QED BY <1>4, <1>5, <1>6, <1>7, <1>8, <1>9, <1>10, <1>11 DEF Work

LEMMA KillReturns ==
    ASSUME ShapeInv, ReturnInv, Bounded, Kill
    PROVE  ReturnInv'
<1>1. FitsInv /\ record.v \in Nat
  BY HeldStates DEF ReturnInv, Seen
<1>2. UNCHANGED <<kept, clock>> /\ op' = Idle /\ poll' = None /\ state' = Nothing
  BY DEF Kill
<1>3. Fits(record)' /\ (kept # None => Fits(kept))' /\ (\A s \in over' : s <= clock') /\ record'.v \in Nat
  <2>1. CASE UNCHANGED <<record, over, closed>>
    BY <1>1, <1>2, <2>1 DEF FitsInv, Fits
  <2>2. CASE op.pc \in {"write", "rewrite"} /\ Swap(op.seen, op.t)
    <3>1. /\ record' \in Seen /\ record'.v = record.v + 1
          /\ Fits(record)' /\ \A s \in over' : s <= clock'
          /\ \A x \in Seen : x.v <= record.v => x.v <= record'.v /\ x.v # record'.v
      BY <1>2, <2>2, SwapFits DEF Open, Unwritten
    <3>2. (kept # None => Fits(kept))'
      BY <1>1, <1>2, <3>1, HeldStates DEF FitsInv, Fits
    <3> QED BY <1>1, <3>1, <3>2
  <2> QED BY <2>1, <2>2 DEF Kill
<1>4. Fits(state)'
  BY <1>2, <1>3 DEF Fits, Nothing, IsRunning
<1> QED BY <1>2, <1>3, <1>4, IdleReturns DEF FitsInv, ReturnInv

\* The other devices start at a time the account has not seen, end what runs,
\* or go on with it.
LEMMA OtherReturns ==
    ASSUME ShapeInv, ReturnInv, Bounded, Other
    PROVE  ReturnInv'
<1>1. FitsInv /\ StartInv /\ Fits(record) /\ record.v \in Nat
  BY HeldStates DEF ReturnInv, FitsInv, Seen
<1>2. record' \in Seen /\ clock' \in Instant /\ clock \in Instant
  <2>1. ShapeInv'
    BY RestShapes
  <2> QED BY <2>1, HeldStates DEF ShapeInv, Shapes
<1>3. UNCHANGED <<state, kept, poll, op>> /\ Over(record'.t)
  BY DEF Other, Phone
<1>4. IsRunning(record.t) => record.t \in Timer /\ record.t # None /\ record.t.s \in Nat
                             /\ record.t.s <= clock /\ record.t.s \notin over
  BY <1>1, HeldStates DEF IsRunning, Seen, Timer, Instant, Fits
<1>5. \A s \in over : s \in Nat /\ s <= clock
  BY <1>1, HeldStates DEF FitsInv, Instant
<1>6. clock \in Nat /\ clock' \in Nat
  BY <1>2 DEF Instant
<1>7. /\ record'.v = record.v + 1
      /\ \/ clock' = clock + 1 /\ record'.t.s = clock'
         \/ /\ IsRunning(record.t) /\ record'.t.s = record.t.s
            /\ clock' = clock \/ clock' = clock + 1
  <2>1. CASE Tick /\ \E d \in Title :
               record' = [v |-> record.v + 1, t |-> [d |-> d, s |-> clock + 1, e |-> None]]
    BY <2>1 DEF Tick
  <2>2. CASE IsRunning(record.t) /\ Tick /\
               record' = [v |-> record.v + 1, t |-> [record.t EXCEPT !.e = clock + 1]]
    <3>1. [record.t EXCEPT !.e = clock + 1].s = record.t.s
      BY <1>4, <2>2 DEF Timer
    <3> QED BY <2>2, <3>1 DEF Tick
  <2>3. CASE IsRunning(record.t) /\ UNCHANGED clock /\
               \E d \in Title \ {record.t.d} :
                 record' = [v |-> record.v + 1, t |-> [record.t EXCEPT !.d = d]]
    <3>1. PICK d \in Title \ {record.t.d} :
                 record' = [v |-> record.v + 1, t |-> [record.t EXCEPT !.d = d]]
      BY <2>3
    <3>2. [record.t EXCEPT !.d = d].s = record.t.s
      BY <1>4, <2>3 DEF Timer
    <3> QED BY <2>3, <3>1, <3>2
  <2> QED BY <2>1, <2>2, <2>3 DEF Other
<1>16. clock <= clock' /\ (record'.t # None => record'.t.s <= clock')
  BY <1>4, <1>6, <1>7
<1>17. IsRunning(record'.t) => record'.t.s \notin over
  BY <1>4, <1>5, <1>6, <1>7
<1>8. /\ Fits(record)' /\ \A s \in over' : s <= clock'
      /\ \A x \in Seen : x.v <= record.v => x.v <= record'.v /\ x.v # record'.v
      /\ over' \subseteq over \cup (IF record.t = None THEN {} ELSE {record.t.s})
  BY <1>2, <1>3, <1>7, <1>16, <1>17, WriteFits
<1>9. \A x \in Seen : x.t # None /\ x.t.s <= clock => x.t.s <= clock'
  BY <1>6, <1>16 DEF Seen, Timer, Instant
<1>10. Fits(state)' /\ (kept # None => Fits(kept))' /\ (poll # None => Fits(poll))'
  BY <1>1, <1>3, <1>8, <1>9, HeldStates DEF FitsInv, Fits
<1>11. Fits(op.before)' /\ Fits(op.got)'
  BY <1>1, <1>3, <1>8, <1>9, HeldStates DEF FitsInv, Fits
<1>12. op'.pc \in Open => Fits([v |-> op.seen, t |-> op.t])'
  BY <1>1, <1>3, <1>8, <1>9, HeldStates DEF FitsInv, Fits
<1>13. op'.base # None => op'.base.s <= clock'
  <2>1. op.base # None => op.base.s \in Nat /\ op.base.s <= clock
    BY <1>1, HeldStates DEF FitsInv, Timer, Instant
  <2> QED BY <1>3, <1>6, <1>16, <2>1
<1>14. FitsInv'
  BY <1>8, <1>10, <1>11, <1>12, <1>13 DEF FitsInv
<1>15. StartInv'
  <2>1. ASSUME op.kind = "start", op.pc \in Open
        PROVE  op.t.s \notin over' /\ (record'.t # None => record'.t.s # op.t.s)
    <3>1. op.t.s \notin over /\ (record.t # None => record.t.s # op.t.s)
      BY <1>1, <2>1 DEF StartInv
    <3>2. op.t \in Timer /\ op.t.s \in Nat /\ op.t.s <= clock
      BY <1>1, <2>1, HeldStates DEF FitsInv, Fits, ShapeInv, OpInv, Timer, Instant
    <3>3. op.t.s \notin over'
      BY <1>8, <3>1
    <3>4. op.t.s # clock + 1
      BY <1>6, <3>2
    <3> QED BY <1>4, <1>7, <3>1, <3>3, <3>4
  <2> QED BY <1>3, <2>1 DEF StartInv
<1> QED BY <1>14, <1>15 DEF ReturnInv

LEMMA RestReturns ==
    ASSUME ShapeInv, ReturnInv, Bounded,
           \/ RefreshRead \/ RefreshAdopt \/ FlushRead \/ FlushPush \/ FlushDrop
           \/ Launch \/ PushTask
    PROVE  ReturnInv'
<1>1. FitsInv /\ StartInv
  BY DEF ReturnInv
<1>2. UNCHANGED <<record, over, clock, op>>
  BY DEF RefreshRead, RefreshAdopt, FlushRead, FlushPush, FlushDrop, Launch, PushTask
<1>3. /\ state' \in {state} \cup ({kept, poll} \ {None})
      /\ kept' \in {kept, poll, record} /\ poll' \in {poll, record, None}
  <2>1. CASE RefreshRead \/ FlushRead \/ FlushPush \/ FlushDrop
    BY <2>1 DEF RefreshRead, FlushRead, FlushPush, FlushDrop
  <2>2. CASE RefreshAdopt \/ Launch \/ PushTask
    BY <2>2 DEF RefreshAdopt, Launch, PushTask, Adopt
  <2> QED BY <2>1, <2>2
<1>4. Fits(state)' /\ (kept # None => Fits(kept))' /\ (poll # None => Fits(poll))'
  BY <1>1, <1>2, <1>3 DEF FitsInv, Fits
<1>5. FitsInv'
  BY <1>1, <1>2, <1>4 DEF FitsInv, Fits
<1>6. StartInv'
  BY <1>1, <1>2 DEF StartInv
<1> QED BY <1>5, <1>6 DEF ReturnInv

LEMMA NextReturns ==
    ASSUME ShapeInv, ReturnInv, Bounded, [Next]_vars
    PROVE  ReturnInv'
<1>1. CASE UNCHANGED vars
  BY <1>1, HeldStates, StillWork DEF vars
<1>2. CASE Next
  BY <1>2, TapReturns, WorkReturns, RestReturns, KillReturns, OtherReturns DEF Next
<1> QED BY <1>1, <1>2

\* The invariant behind it: every state held anywhere fits the record.
THEOREM ReturnInvariant == Bounded => (Spec => []ReturnInv)
<1> SUFFICES ASSUME Bounded
             PROVE  Spec => []ReturnInv
  OBVIOUS
<1>1. Init => ShapeInv /\ ReturnInv
  BY InitShapes, InitReturns
<1>2. ShapeInv /\ ReturnInv /\ [Next]_vars => (ShapeInv /\ ReturnInv)'
  BY NextShapes, NextReturns
<1> QED BY <1>1, <1>2, PTL DEF Spec

\* A timer that was once ended or replaced in the record never runs there
\* again, for every bound on the taps, writes, failures and kills.
THEOREM EndedStaysEnded == Bounded => (Spec => []NeverReturns)
<1> SUFFICES ASSUME Bounded
             PROVE  Spec => []NeverReturns
  OBVIOUS
<1>1. ReturnInv => NeverReturns
  BY DEF ReturnInv, FitsInv, Fits, NeverReturns
<1>2. Spec => []ReturnInv
  BY ReturnInvariant
<1> QED BY <1>1, <1>2, PTL

-----------------------------------------------------------------------------
(* An entry is queued before its timer is ended *)

\* Past the queueing of its entry, a stop has the entry it goes on to end its
\* timer with.
StopInv ==
    op.kind = "stop" /\ op.pc \notin {"queue", "store"} =>
        \E q \in queued : q.s = op.base.s /\ q.e = op.t.e

QueuedInv == QueuedFirst /\ StopInv

LEMMA InitQueued ==
    ASSUME Bounded, Init
    PROVE  QueuedInv
BY IdleOp, NoneIsNothing DEF Init, QueuedInv, QueuedFirst, StopInv, Kinds

\* A step that leaves what the work carries as it was, and closes at most the
\* timer of a stop that has queued its entry.
LEMMA QueuedKept ==
    ASSUME ShapeInv, QueuedInv, queued \subseteq queued',
           \/ closed' = closed
           \/ /\ op.kind = "stop" /\ op.pc \notin {"queue", "store"}
              /\ closed' = closed \cup {EntryFromTimer(op.t, op.t.e)},
           op'.kind = "stop" /\ op'.pc \notin {"queue", "store"} =>
             /\ op.kind = "stop" /\ op.pc \notin {"queue", "store"}
             /\ op'.base = op.base /\ op'.t.e = op.t.e
    PROVE  QueuedInv'
<1>1. StopInv'
  BY DEF QueuedInv, StopInv
<1>2. QueuedFirst'
  <2>1. CASE closed' = closed
    BY <2>1 DEF QueuedInv, QueuedFirst
  <2>2. CASE /\ op.kind = "stop" /\ op.pc \notin {"queue", "store"}
             /\ closed' = closed \cup {EntryFromTimer(op.t, op.t.e)}
    <3>1. op.t.s = op.base.s
      BY <2>2 DEF ShapeInv, OpInv
    <3>2. \E q \in queued : q.s = op.t.s /\ q.e = op.t.e
      BY <2>2, <3>1 DEF QueuedInv, StopInv
    <3>3. \E q \in queued : LET c == EntryFromTimer(op.t, op.t.e) IN q.s = c.s /\ q.e = c.e
      BY <3>2 DEF EntryFromTimer
    <3> QED BY <2>2, <3>3 DEF QueuedInv, QueuedFirst
  <2> QED BY <2>1, <2>2
<1> QED BY <1>1, <1>2 DEF QueuedInv

LEMMA TapQueued ==
    ASSUME ShapeInv, QueuedInv, Bounded,
           \/ \E d \in Title : StartTap(d) \/ ResumeTap(d) \/ EditSave(d)
           \/ \E yes \in BOOLEAN : ResumeAnswer(yes)
           \/ StopTap \/ StopLands \/ EditTap
    PROVE  QueuedInv'
<1>1. UNCHANGED <<queued, closed>>
  BY DEF StartTap, ResumeTap, EditSave, ResumeAnswer, StopTap, StopLands, EditTap
<1>2. \/ op' = op
      \/ op'.kind # "stop"
      \/ op'.pc = "queue"
  <2>1. ASSUME NEW d \in Title, op' = Starting(d) PROVE op'.kind # "stop"
    BY <2>1 DEF Starting, Idle
  <2>2. ASSUME NEW d \in Title, StartTap(d) PROVE op'.kind # "stop"
    BY <2>1, <2>2 DEF StartTap
  <2>3. ASSUME NEW d \in Title, EditSave(d) PROVE op' = op \/ op'.kind # "stop"
    BY <2>3 DEF EditSave, Idle
  <2>4. ASSUME NEW yes \in BOOLEAN, ResumeAnswer(yes) PROVE op' = op \/ op'.kind # "stop"
    <3>1. asked \in Title
      BY <2>4 DEF ResumeAnswer, ShapeInv, Shapes
    <3> QED BY <2>1, <2>4, <3>1 DEF ResumeAnswer
  <2>5. ASSUME StopLands PROVE op' = op \/ op'.pc = "queue"
    BY <2>5 DEF StopLands, Idle
  <2>6. ASSUME (\E d \in Title : ResumeTap(d)) \/ StopTap \/ EditTap PROVE op' = op
    BY <2>6 DEF ResumeTap, StopTap, EditTap
  <2> QED BY <2>2, <2>3, <2>4, <2>5, <2>6
<1> QED BY <1>1, <1>2, QueuedKept

LEMMA WorkQueued ==
    ASSUME ShapeInv, QueuedInv, Bounded, Work
    PROVE  QueuedInv'
<1>1. op \in Ops /\ OpInv
  BY DEF ShapeInv, Shapes
<1>2. ASSUME op.pc \notin {"queue", "store"}, Swap(op.seen, op.t)
      PROVE  \/ closed' = closed
             \/ /\ op.kind = "stop" /\ op.pc \notin {"queue", "store"}
                /\ closed' = closed \cup {EntryFromTimer(op.t, op.t.e)}
  BY <1>2 DEF Swap
<1>3. ASSUME op' = Idle PROVE op'.kind # "stop"
  BY <1>3, IdleOp, NoneIsNothing DEF Kinds
<1>4. CASE QueueRead
  <2>1. op'.pc = "store"
    BY <1>1, <1>4 DEF QueueRead, Ops
  <2>2. UNCHANGED <<queued, closed>>
    BY <1>4 DEF QueueRead
  <2> QED BY <2>1, <2>2, QueuedKept
<1>5. CASE QueueStore
  <2> DEFINE entry == EntryFromTimer(op.base, IF op.kind = "start" THEN op.t.s ELSE op.t.e)
  <2>1. op'.kind = op.kind /\ op'.base = op.base /\ op'.t = op.t
    BY <1>1, <1>5 DEF QueueStore, Ops
  <2>2. queued' = queued \cup {entry} /\ closed' = closed
    BY <1>5 DEF QueueStore
  <2>3. op.kind = "stop" => entry.s = op.base.s /\ entry.e = op.t.e
    BY DEF EntryFromTimer
  <2>4. StopInv'
    BY <2>1, <2>2, <2>3 DEF StopInv
  <2>5. QueuedFirst'
    BY <2>2 DEF QueuedInv, QueuedFirst
  <2> QED BY <2>4, <2>5 DEF QueuedInv
<1>6. CASE Begin
  <2>1. UNCHANGED <<queued, closed>> /\ op.pc \notin {"queue", "store"}
    BY <1>6 DEF Begin
  <2>2. CASE op' = Idle
    BY <1>3, <2>1, <2>2, QueuedKept
  <2>3. CASE op' = [op EXCEPT !.pc = "write", !.before = state]
    <3>1. op'.kind = op.kind /\ op'.base = op.base /\ op'.t = op.t
      BY <1>1, <2>3 DEF Ops
    <3> QED BY <2>1, <3>1, QueuedKept
  <2> QED BY <1>6, <2>2, <2>3 DEF Begin
<1>7. CASE Write \/ Rewrite \/ Fail
  <2>1. UNCHANGED queued /\ op.pc \notin {"queue", "store"}
    BY <1>7 DEF Write, Rewrite, Fail
  <2>2. op'.kind = op.kind /\ op'.base = op.base /\ op'.t = op.t
    BY <1>1, <1>7 DEF Write, Rewrite, Fail, Ops
  <2>3. closed' = closed \/ Swap(op.seen, op.t)
    BY <1>7 DEF Write, Rewrite, Fail
  <2> QED BY <1>2, <2>1, <2>2, <2>3, QueuedKept
<1>8. CASE Reread
  <2>1. UNCHANGED <<queued, closed>> /\ op.pc \notin {"queue", "store"}
    BY <1>8 DEF Reread
  <2>2. CASE op.kind = "stop" /\ IsRunning(record.t) /\ record.t.s = op.base.s
    <3>1. op' = [op EXCEPT !.pc = "rewrite", !.seen = record.v,
                           !.t = [record.t EXCEPT !.e = op.t.e]]
      BY <1>8, <2>2 DEF Reread
    <3>2. op'.kind = op.kind /\ op'.base = op.base /\ op'.t = [record.t EXCEPT !.e = op.t.e]
      BY <1>1, <3>1 DEF Ops
    <3>3. record.t \in Timer
      BY <2>2 DEF IsRunning, ShapeInv, Shapes, Seen
    <3>4. op'.t.e = op.t.e
      BY <3>2, <3>3 DEF Timer
    <3> QED BY <2>1, <2>2, <3>2, <3>4, QueuedKept
  <2>3. CASE ~(op.kind = "stop" /\ IsRunning(record.t) /\ record.t.s = op.base.s)
    <3>1. op'.kind = op.kind /\ op'.base = op.base /\ op'.t = op.t
      BY <1>1, <1>8, <2>3 DEF Reread, Ops
    <3> QED BY <2>1, <3>1, QueuedKept
  <2> QED BY <2>2, <2>3
<1>9. CASE Settle \/ Missing
  <2>1. UNCHANGED <<queued, closed>> /\ op' = Idle
    BY <1>9 DEF Settle, Missing
  <2> QED BY <1>3, <2>1, QueuedKept
<1> QED BY <1>4, <1>5, <1>6, <1>7, <1>8, <1>9 DEF Work

LEMMA RestQueued ==
    ASSUME ShapeInv, QueuedInv, Bounded,
           \/ RefreshRead \/ RefreshAdopt \/ FlushRead \/ FlushPush \/ FlushDrop
           \/ Kill \/ Launch \/ PushTask \/ Other
    PROVE  QueuedInv'
<1>1. CASE RefreshRead \/ RefreshAdopt \/ FlushRead \/ FlushPush \/ FlushDrop
  <2>1. UNCHANGED <<queued, closed, op>>
    BY <1>1 DEF RefreshRead, RefreshAdopt, FlushRead, FlushPush, FlushDrop
  <2> QED BY <2>1, QueuedKept
<1>2. CASE Launch \/ PushTask \/ Other
  <2>1. UNCHANGED <<queued, closed, op>>
    BY <1>2 DEF Launch, PushTask, Other, Phone
  <2> QED BY <2>1, QueuedKept
<1>3. CASE Kill
  <2>1. op'.kind # "stop"
    BY <1>3, IdleOp, NoneIsNothing DEF Kill, Kinds
  <2>2. UNCHANGED queued
    BY <1>3 DEF Kill
  <2>3. \/ closed' = closed
        \/ /\ op.kind = "stop" /\ op.pc \notin {"queue", "store"}
           /\ closed' = closed \cup {EntryFromTimer(op.t, op.t.e)}
    BY <1>3 DEF Kill, Swap
  <2> QED BY <2>1, <2>2, <2>3, QueuedKept
<1> QED BY <1>1, <1>2, <1>3

LEMMA NextQueued ==
    ASSUME ShapeInv, QueuedInv, Bounded, [Next]_vars
    PROVE  QueuedInv'
<1>1. CASE Next
  BY <1>1, TapQueued, WorkQueued, RestQueued DEF Next
<1>2. CASE UNCHANGED vars
  BY <1>2, QueuedKept DEF vars
<1> QED BY <1>1, <1>2

\* Whenever the phone's stop has ended a timer in the record, the entry that
\* keeps its time was queued first, whatever failed or was killed since.
THEOREM QueuedBeforeClosed == Bounded => (Spec => []QueuedFirst)
<1> SUFFICES ASSUME Bounded
             PROVE  Spec => []QueuedFirst
  OBVIOUS
<1>1. Init => ShapeInv /\ QueuedInv
  BY InitShapes, InitQueued
<1>2. ShapeInv /\ QueuedInv /\ [Next]_vars => (ShapeInv /\ QueuedInv)'
  BY NextShapes, NextQueued
<1>3. QueuedInv => QueuedFirst
  BY DEF QueuedInv
<1> QED BY <1>1, <1>2, <1>3, PTL DEF Spec

-----------------------------------------------------------------------------
(* A stop closes no timer but the one it saw *)

LEMMA StepStops ==
    ASSUME ShapeInv, Bounded, [Next]_vars
    PROVE  ClosesItsOwn
<1> SUFFICES ASSUME op.kind = "stop", closed' # closed
             PROVE  \A c \in closed' \ closed : c.s = op.base.s
  BY DEF ClosesItsOwn
<1>1. Swap(op.seen, op.t)
  <2>1. CASE Work
    <3>1. CASE Write \/ Rewrite \/ Fail
      BY <3>1 DEF Write, Rewrite, Fail
    <3>2. CASE QueueRead \/ QueueStore \/ Begin \/ Reread \/ Settle \/ Missing
      BY <3>2 DEF QueueRead, QueueStore, Begin, Reread, Settle, Missing
    <3> QED BY <2>1, <3>1, <3>2 DEF Work
  <2>2. CASE \/ \E d \in Title : StartTap(d) \/ ResumeTap(d) \/ EditSave(d)
             \/ \E yes \in BOOLEAN : ResumeAnswer(yes)
             \/ StopTap \/ StopLands \/ EditTap
    BY <2>2 DEF StartTap, ResumeTap, EditSave, ResumeAnswer, StopTap, StopLands, EditTap
  <2>3. CASE RefreshRead \/ RefreshAdopt \/ FlushRead \/ FlushPush \/ FlushDrop
    BY <2>3 DEF RefreshRead, RefreshAdopt, FlushRead, FlushPush, FlushDrop
  <2>4. CASE Kill \/ Launch \/ PushTask \/ Other
    BY <2>4 DEF Kill, Launch, PushTask, Other
  <2>5. CASE UNCHANGED vars
    BY <2>5 DEF vars
  <2> QED BY <2>1, <2>2, <2>3, <2>4, <2>5 DEF Next
<1>2. closed' \ closed \subseteq {EntryFromTimer(op.t, op.t.e)}
  BY <1>1 DEF Swap
<1>3. op.t.s = op.base.s
  BY DEF ShapeInv, OpInv
<1> QED BY <1>2, <1>3 DEF EntryFromTimer

\* A stop that lost the race closes no timer but the one the phone saw running
\* when the stop was sent, at any step of any behaviour.
THEOREM StopsItsOwn == Bounded => (Spec => StopsWhatItSaw)
<1> SUFFICES ASSUME Bounded
             PROVE  Spec => StopsWhatItSaw
  OBVIOUS
<1>1. ShapeInv /\ [Next]_vars => [ClosesItsOwn]_vars
  BY StepStops
<1>2. Spec => []ShapeInv
  BY ShapesAlways
<1> QED BY <1>1, <1>2, PTL DEF Spec, StopsWhatItSaw

-----------------------------------------------------------------------------
(* Type correctness: no version exceeds what the taps and writes allow *)

One(p) == IF p THEN 1 ELSE 0

\* Every version is paid for: a write by a tap, whose work, card, dialog or
\* question it came from, or by a write of another device.
Owed == One(op.pc \in Open) + One(shown # None) + One(editing # None) + One(asked # None)

BudgetInv == record.v + left.taps + left.others + Owed <= MaxTaps + MaxOthers

LEMMA OneNat == ASSUME NEW p PROVE One(p) \in {0, 1}
BY DEF One

LEMMA OwedNat == Owed \in Nat /\ Owed' \in Nat
<1>1. /\ One(op.pc \in Open) \in {0, 1} /\ One(shown # None) \in {0, 1}
      /\ One(editing # None) \in {0, 1} /\ One(asked # None) \in {0, 1}
      /\ One(op'.pc \in Open) \in {0, 1} /\ One(shown' # None) \in {0, 1}
      /\ One(editing' # None) \in {0, 1} /\ One(asked' # None) \in {0, 1}
  BY OneNat
<1> QED BY <1>1 DEF Owed

LEMMA Amounts ==
    ASSUME ShapeInv, Bounded
    PROVE  /\ record.v \in Nat /\ left.taps \in Nat /\ left.others \in Nat /\ Owed \in Nat
           /\ MaxTaps \in Nat /\ MaxOthers \in Nat
           /\ One(op.pc \in Open) \in {0, 1} /\ One(shown # None) \in {0, 1}
           /\ One(editing # None) \in {0, 1} /\ One(asked # None) \in {0, 1}
<1>1. /\ One(op.pc \in Open) \in {0, 1} /\ One(shown # None) \in {0, 1}
      /\ One(editing # None) \in {0, 1} /\ One(asked # None) \in {0, 1}
  BY OneNat
<1>2. Owed \in Nat
  BY <1>1 DEF Owed
<1>3. record.v \in Nat /\ left.taps \in Nat /\ left.others \in Nat
  BY DEF ShapeInv, Shapes, Seen
<1>4. MaxTaps \in Nat /\ MaxOthers \in Nat
  BY DEF Bounded, PhoneBounds
<1> QED BY <1>1, <1>2, <1>3, <1>4

LEMMA InitBudget ==
    ASSUME Bounded, Init
    PROVE  BudgetInv
<1>1. record.v = 0 /\ left.taps = MaxTaps /\ left.others = MaxOthers
  BY DEF Init, Nothing
<1>2. Owed = 0
  BY IdleOp DEF Init, Owed, One, Open, Unwritten
<1> QED BY <1>1, <1>2 DEF BudgetInv, Bounded, PhoneBounds

\* A step that pays for what it writes.
LEMMA BudgetKept ==
    ASSUME ShapeInv, ShapeInv', Bounded, BudgetInv,
           record'.v + left'.taps + left'.others + Owed' <= record.v + left.taps + left.others + Owed
    PROVE  BudgetInv'
<1>1. /\ record'.v \in Nat /\ left'.taps \in Nat /\ left'.others \in Nat
  BY DEF ShapeInv, Shapes, Seen
<1>2. Owed' \in Nat
  <2>1. /\ One(op'.pc \in Open) \in {0, 1} /\ One(shown' # None) \in {0, 1}
        /\ One(editing' # None) \in {0, 1} /\ One(asked' # None) \in {0, 1}
    BY OneNat
  <2> QED BY <2>1 DEF Owed
<1> QED BY <1>1, <1>2, Amounts DEF BudgetInv

LEMMA TapBudget ==
    ASSUME ShapeInv, Bounded,
           \/ \E d \in Title : StartTap(d) \/ ResumeTap(d) \/ EditSave(d)
           \/ \E yes \in BOOLEAN : ResumeAnswer(yes)
           \/ StopTap \/ StopLands \/ EditTap
    PROVE  record'.v + left'.taps + left'.others + Owed' <= record.v + left.taps + left.others + Owed
<1> USE Amounts, OwedNat
<1>1. Tap => left.taps >= 1 /\ left'.taps = left.taps - 1 /\ left'.others = left.others
  BY DEF Tap, ShapeInv, Shapes
<1>2. op.pc = "idle" => One(op.pc \in Open) = 0
  BY DEF One, Open, Unwritten
<1>3. One(op'.pc \in Open) \in {0, 1} /\ record' = record
  BY OneNat DEF StartTap, ResumeTap, EditSave, ResumeAnswer, StopTap, StopLands, EditTap
<1>4. ASSUME NEW d \in Title, StartTap(d)
      PROVE  record'.v + left'.taps + left'.others + Owed' <= record.v + left.taps + left.others + Owed
  <2>1. Tap /\ op.pc = "idle" /\ UNCHANGED <<shown, editing, asked>>
    BY <1>4 DEF StartTap, Screen
  <2>2. Owed' <= 1 + Owed
    BY <1>2, <1>3, <2>1 DEF Owed
  <2> QED BY <1>1, <1>3, <2>1, <2>2
<1>5. ASSUME (\E d \in Title : ResumeTap(d)) \/ StopTap \/ EditTap
      PROVE  record'.v + left'.taps + left'.others + Owed' <= record.v + left.taps + left.others + Owed
  <2>1. Tap /\ op' = op
    BY <1>5 DEF ResumeTap, StopTap, EditTap
  <2>2. CASE \E d \in Title : ResumeTap(d)
    <3>1. asked = None /\ UNCHANGED <<shown, editing>>
      BY <2>2 DEF ResumeTap
    <3>2. One(asked # None) = 0 /\ One(asked' # None) <= 1
      BY <3>1 DEF One
    <3>3. Owed' <= 1 + Owed
      BY <2>1, <3>1, <3>2, OneNat DEF Owed
    <3> QED BY <1>1, <1>3, <2>1, <3>3
  <2>3. CASE StopTap
    <3>1. shown = None /\ UNCHANGED <<asked, editing>>
      BY <2>3 DEF StopTap
    <3>2. One(shown # None) = 0 /\ One(shown' # None) <= 1
      BY <3>1 DEF One
    <3>3. Owed' <= 1 + Owed
      BY <2>1, <3>1, <3>2, OneNat DEF Owed
    <3> QED BY <1>1, <1>3, <2>1, <3>3
  <2>4. CASE EditTap
    <3>1. editing = None /\ UNCHANGED <<asked, shown>>
      BY <2>4 DEF EditTap
    <3>2. One(editing # None) = 0 /\ One(editing' # None) <= 1
      BY <3>1 DEF One
    <3>3. Owed' <= 1 + Owed
      BY <2>1, <3>1, <3>2, OneNat DEF Owed
    <3> QED BY <1>1, <1>3, <2>1, <3>3
  <2> QED BY <1>5, <2>2, <2>3, <2>4
<1>6. ASSUME NEW d \in Title, EditSave(d)
      PROVE  record'.v + left'.taps + left'.others + Owed' <= record.v + left.taps + left.others + Owed
  <2>1. editing # None /\ editing' = None /\ op.pc = "idle" /\ UNCHANGED <<left, shown, asked>>
    BY <1>6 DEF EditSave
  <2>2. One(editing # None) = 1 /\ One(editing' # None) = 0
    BY <2>1 DEF One
  <2>3. Owed' <= Owed
    BY <1>2, <1>3, <2>1, <2>2 DEF Owed
  <2> QED BY <1>3, <2>1, <2>3
<1>7. ASSUME NEW yes \in BOOLEAN, ResumeAnswer(yes)
      PROVE  record'.v + left'.taps + left'.others + Owed' <= record.v + left.taps + left.others + Owed
  <2>1. asked # None /\ asked' = None /\ UNCHANGED <<left, shown, editing>>
    BY <1>7 DEF ResumeAnswer
  <2>2. op.pc = "idle" \/ op' = op
    BY <1>7 DEF ResumeAnswer
  <2>3. One(asked # None) = 1 /\ One(asked' # None) = 0
    BY <2>1 DEF One
  <2>4. Owed' <= Owed
    <3>1. One(op'.pc \in Open) <= One(op.pc \in Open) + 1
      BY <1>3, <2>2
    <3> QED BY <1>3, <2>1, <2>3, <3>1 DEF Owed
  <2> QED BY <1>3, <2>1, <2>4
<1>8. ASSUME StopLands
      PROVE  record'.v + left'.taps + left'.others + Owed' <= record.v + left.taps + left.others + Owed
  <2>1. shown # None /\ shown' = None /\ op.pc = "idle" /\ UNCHANGED <<left, editing, asked>>
    BY <1>8 DEF StopLands
  <2>2. One(shown # None) = 1 /\ One(shown' # None) = 0
    BY <2>1 DEF One
  <2>3. Owed' <= Owed
    BY <1>2, <1>3, <2>1, <2>2 DEF Owed
  <2> QED BY <1>3, <2>1, <2>3
<1> QED BY <1>4, <1>5, <1>6, <1>7, <1>8

LEMMA SwapVersion ==
    ASSUME Swap(op.seen, op.t)
    PROVE  record'.v = record.v + 1
BY DEF Swap

\* A write by the phone ends what its tap owed.
LEMMA WorkBudget ==
    ASSUME ShapeInv, Bounded, Work
    PROVE  record'.v + left'.taps + left'.others + Owed' <= record.v + left.taps + left.others + Owed
<1> USE Amounts, OwedNat
<1>1. UNCHANGED <<shown, editing, asked>>
  BY DEF Work, QueueRead, QueueStore, Begin, Write, Reread, Rewrite, Fail, Settle, Missing, Screen
<1>2. left'.taps = left.taps /\ left'.others = left.others
  <2>1. CASE Fail
    BY <2>1 DEF Fail, ShapeInv, Shapes
  <2>2. CASE ~Fail
    BY <2>2 DEF Work, QueueRead, QueueStore, Begin, Write, Reread, Rewrite, Settle, Missing
  <2> QED BY <2>1, <2>2
<1>3. op \in Ops
  BY DEF ShapeInv, Shapes
<1>4. CASE Write \/ Rewrite \/ Fail
  <2>1. op.pc \in Open /\ One(op.pc \in Open) = 1
    BY <1>4 DEF Write, Rewrite, Fail, Open, Unwritten, One
  <2>2. record' = record \/ (record'.v = record.v + 1 /\ ~(op'.pc \in Open))
    <3>1. \/ record' = record
          \/ /\ Swap(op.seen, op.t)
             /\ \/ op' = [op EXCEPT !.pc = "landed", !.got = record']
                \/ op' = [op EXCEPT !.pc = "failed"]
      BY <1>4 DEF Write, Rewrite, Fail
    <3>2. CASE /\ Swap(op.seen, op.t)
               /\ \/ op' = [op EXCEPT !.pc = "landed", !.got = record']
                  \/ op' = [op EXCEPT !.pc = "failed"]
      <4>1. op'.pc \in {"landed", "failed"}
        BY <1>3, <3>2 DEF Ops
      <4>2. record'.v = record.v + 1
        BY <3>2, SwapVersion
      <4> QED BY <4>1, <4>2 DEF Open, Unwritten
    <3> QED BY <3>1, <3>2
  <2>3. CASE record' = record
    <3>1. One(op'.pc \in Open) <= 1
      BY OneNat
    <3>2. One(op'.pc \in Open) \in {0, 1}
      BY OneNat
    <3> QED BY <1>1, <1>2, <2>1, <2>3, <3>1, <3>2 DEF Owed
  <2>4. CASE record'.v = record.v + 1 /\ ~(op'.pc \in Open)
    <3>1. One(op'.pc \in Open) = 0
      BY <2>4 DEF One
    <3> QED BY <1>1, <1>2, <2>1, <2>4, <3>1 DEF Owed
  <2> QED BY <2>2, <2>3, <2>4
<1>5. CASE QueueRead \/ QueueStore \/ Begin \/ Reread
  <2>1. One(op.pc \in Open) = 1 /\ record' = record
    BY <1>5 DEF QueueRead, QueueStore, Begin, Reread, Open, Unwritten, One
  <2>2. One(op'.pc \in Open) \in {0, 1}
    BY OneNat
  <2> QED BY <1>1, <1>2, <2>1, <2>2 DEF Owed
<1>6. CASE Settle \/ Missing
  <2>1. op' = Idle /\ record' = record
    BY <1>6 DEF Settle, Missing
  <2>2. One(op'.pc \in Open) = 0
    BY <2>1, IdleOp DEF One, Open, Unwritten
  <2> QED BY <1>1, <1>2, <2>1, <2>2 DEF Owed
<1> QED BY <1>4, <1>5, <1>6 DEF Work

LEMMA RestBudget ==
    ASSUME ShapeInv, Bounded,
           \/ RefreshRead \/ RefreshAdopt \/ FlushRead \/ FlushPush \/ FlushDrop
           \/ Kill \/ Launch \/ PushTask \/ Other
    PROVE  record'.v + left'.taps + left'.others + Owed' <= record.v + left.taps + left.others + Owed
<1> USE Amounts, OwedNat
<1>1. CASE RefreshRead \/ RefreshAdopt \/ FlushRead \/ FlushDrop \/ Launch \/ PushTask
  <2>1. UNCHANGED <<record, left, op, shown, editing, asked>>
    BY <1>1 DEF RefreshRead, RefreshAdopt, FlushRead, FlushDrop, Launch, PushTask, Screen
  <2> QED BY <2>1 DEF Owed
<1>2. CASE FlushPush
  <2>1. UNCHANGED <<record, op, shown, editing, asked>>
    BY <1>2 DEF FlushPush, Screen
  <2>2. left'.taps = left.taps /\ left'.others = left.others
    BY <1>2 DEF FlushPush, ShapeInv, Shapes
  <2> QED BY <2>1, <2>2 DEF Owed
<1>3. CASE Kill
  <2>1. left'.taps = left.taps /\ left'.others = left.others
    BY <1>3 DEF Kill, ShapeInv, Shapes
  <2>2. op' = Idle /\ shown' = None /\ editing' = None /\ asked' = None
    BY <1>3 DEF Kill
  <2>3. Owed' = 0
    BY <2>2, IdleOp DEF Owed, One, Open, Unwritten
  <2>4. record' = record \/ (record'.v = record.v + 1 /\ op.pc \in Open)
    <3>1. record' = record \/ (Swap(op.seen, op.t) /\ op.pc \in {"write", "rewrite"})
      BY <1>3 DEF Kill
    <3>2. CASE Swap(op.seen, op.t) /\ op.pc \in {"write", "rewrite"}
      <4>1. record'.v = record.v + 1
        BY <3>2, SwapVersion
      <4> QED BY <3>2, <4>1 DEF Open, Unwritten
    <3> QED BY <3>1, <3>2
  <2>5. record'.v <= record.v + Owed
    <3>1. CASE record' = record
      BY <3>1
    <3>2. CASE record'.v = record.v + 1 /\ op.pc \in Open
      <4>1. One(op.pc \in Open) = 1
        BY <3>2 DEF One
      <4> QED BY <3>2, <4>1 DEF Owed
    <3> QED BY <2>4, <3>1, <3>2
  <2>6. record'.v \in Nat
    BY <2>4
  <2> QED BY <2>1, <2>3, <2>5, <2>6
<1>4. CASE Other
  <2>1. left.others >= 1 /\ left'.others = left.others - 1 /\ left'.taps = left.taps
    BY <1>4 DEF Other, ShapeInv, Shapes
  <2>2. record'.v = record.v + 1
    BY <1>4 DEF Other
  <2>3. Owed' = Owed
    BY <1>4 DEF Other, Phone, Owed
  <2> QED BY <2>1, <2>2, <2>3
<1> QED BY <1>1, <1>2, <1>3, <1>4

LEMMA NextBudget ==
    ASSUME ShapeInv, ShapeInv', Bounded, BudgetInv, [Next]_vars
    PROVE  BudgetInv'
<1>1. CASE Next
  <2>1. record'.v + left'.taps + left'.others + Owed' <= record.v + left.taps + left.others + Owed
    BY <1>1, TapBudget, WorkBudget, RestBudget DEF Next
  <2> QED BY <2>1, BudgetKept
<1>2. CASE UNCHANGED vars
  BY <1>2 DEF vars, BudgetInv, Owed
<1> QED BY <1>1, <1>2

\* What the shapes leave open: every version held is one the record has had,
\* and the record's is within the budget.
LEMMA TypesFollow ==
    ASSUME ShapeInv, ReturnInv, BudgetInv, Bounded
    PROVE  TypeOK
<1>1. record.v <= MaxTaps + MaxOthers
  BY Amounts DEF BudgetInv
<1>2. \A x \in Seen : Fits(x) => x \in TimerState
  BY <1>1, Amounts DEF Fits, Seen, TimerState
<1>3. /\ record \in TimerState /\ state \in TimerState
      /\ op.before \in TimerState /\ op.got \in TimerState
      /\ kept \in TimerState \cup {None} /\ poll \in TimerState \cup {None}
  BY <1>2, HeldStates DEF ReturnInv, FitsInv
<1>4. op.read \in SUBSET Entry /\ flush.took \in SUBSET Entry /\ flush.pc \in {"idle", "push", "drop"}
      /\ op.pc \in Steps /\ op.kind \in Kinds \cup {None} /\ op.on \in Instant \cup {None}
      /\ op.base \in Timer \cup {None} /\ op.t \in Timer \cup {None}
  BY DEF ShapeInv, Shapes, Ops
<1>5. table \in BOOLEAN /\ localOnly \in BOOLEAN /\ up \in BOOLEAN /\ torn \in BOOLEAN
  BY DEF ShapeInv, Shapes
<1>6. {table, localOnly, up, torn} \subseteq BOOLEAN
  BY <1>5
<1>7. UNION {pending, cloud, queued, closed, op.read, flush.took} \subseteq Entry
  BY <1>4 DEF ShapeInv, Shapes
<1> QED BY <1>3, <1>4, <1>6, <1>7 DEF TypeOK, ShapeInv, Shapes

\* Type correctness, for every bound: in particular no version is beyond the
\* taps and the other devices' writes.
THEOREM TypeCorrect == Bounded => (Spec => []TypeOK)
<1> SUFFICES ASSUME Bounded
             PROVE  Spec => []TypeOK
  OBVIOUS
<1>1. Init => ShapeInv /\ ReturnInv /\ BudgetInv
  BY InitShapes, InitReturns, InitBudget
<1>2. ShapeInv /\ ReturnInv /\ BudgetInv /\ [Next]_vars => (ShapeInv /\ ReturnInv /\ BudgetInv)'
  BY NextShapes, NextReturns, NextBudget
<1>3. ShapeInv /\ ReturnInv /\ BudgetInv => TypeOK
  BY TypesFollow
<1> QED BY <1>1, <1>2, <1>3, PTL DEF Spec
=============================================================================
