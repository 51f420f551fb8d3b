------------------------------- MODULE Summary -------------------------------
(***************************************************************************)
(* What the program makes of the logged activities: the reports, charts    *)
(* and statistics (cmd/tock-desktop/frontend/src/lib/summary.ts and its    *)
(* copy on the phone, mobile/src/lib/summary.ts), the contribution graph,  *)
(* a day's timeline and goal, and an export of a range of days             *)
(* (mobile/src/lib/export.ts).                                             *)
(*                                                                         *)
(* Every view works its figures out on its own, over the same activities;  *)
(* several of them show the same time, split another way.                  *)
(*                                                                         *)
(* Time is counted in units from the first day; a clock hour, a day and a  *)
(* week are Hour, Hours and Week of the unit below, and a month begins on  *)
(* each of MonthStarts.  The activities are those of the user at now.      *)
(*                                                                         *)
(* Bounds: the activities logged, and the days the calendar has.           *)
(***************************************************************************)
EXTENDS Integers, Sequences, FiniteSets, FiniteSetsExt, SequencesExt

CONSTANTS
    Task,         \* what the user works on: [title, project]
    Hour,         \* units of a clock hour
    Hours,        \* hours of a day: 24 in the code
    Week,         \* days of a week: 7
    MonthStarts,  \* the days a month begins on
    LastDay,      \* bound on the calendar: the days are 0..LastDay
    Steps,        \* how far the clock goes between two looks at it
    MaxLogged,    \* bound on the activities logged
    TrendWeeks,   \* weeks of the trend: 8
    DonutDays,    \* days of the donut's short range: 7
    Dots,         \* days of the streak's row: 14
    GraphDays,    \* days of the contribution graph: 365
    TopTasks,     \* tasks a report names: 5
    Core          \* the hours every timeline shows: 8 to 18

SummaryBounds ==
    /\ {Hour, Hours, Week, MaxLogged, TrendWeeks, DonutDays, Dots, GraphDays, TopTasks}
            \subseteq Nat \ {0}
    /\ MonthStarts \subseteq 0..LastDay /\ 0 \in MonthStarts
    /\ Steps \subseteq Nat \ {0}
    /\ Core[1] \in 0..Hours /\ Core[2] \in Core[1]..Hours

VARIABLES
    now,      \* the clock
    log,      \* the finished activities, [task, start, end]
    running   \* the one that runs, as a set: [task, start]

vars == <<now, log, running>>

Day == Hour * Hours
Days == 0..LastDay
Time == 0..(Day * (LastDay + 1) - 1)
Project == {task.project : task \in Task}
Title == {task.title : task \in Task}

TypeOK ==
    /\ now \in Time
    /\ log \in SUBSET [task : Task, start : Time, end : Time]
    /\ running \in SUBSET [task : Task, start : Time]
    /\ Cardinality(log \cup running) <= MaxLogged
    /\ Cardinality(running) <= 1

Init == now = 0 /\ log = {} /\ running = {}

Pass ==
    /\ \E step \in Steps : now' = now + step
    /\ now' \in Time
    /\ UNCHANGED <<log, running>>

\* Starting an activity ends the one that runs.
Ended == {[task |-> r.task, start |-> r.start, end |-> now] : r \in running}

Start(task) ==
    /\ Cardinality(log \cup running) < MaxLogged
    /\ \A a \in log \cup running : a.start # now
    /\ log' = log \cup Ended
    /\ running' = {[task |-> task, start |-> now]}
    /\ UNCHANGED now

Stop ==
    /\ running # {}
    /\ log' = log \cup Ended
    /\ running' = {}
    /\ UNCHANGED now

Next == Pass \/ Stop \/ \E task \in Task : Start(task)

Spec == Init /\ [][Next]_vars
-----------------------------------------------------------------------------
(* The daily index *)

DurationMs(a) == a.end - a.start
DayOf(t) == t \div Day
Today == DayOf(now)

Sum(op(_), S) == MapThenSumSet(op, S)

\* An agg is the time each project got.
AggOf(activities) ==
    [p \in Project |-> Sum(DurationMs, {a \in activities : a.task.project = p})]

\* dailyIndex: an activity counts toward the day it began on.
DailyIndex == [d \in Days |-> AggOf({a \in log : DayOf(a.start) = d})]

AggTotal(agg) == Sum(LAMBDA p : agg[p], DOMAIN agg)
Merged(aggs, S) == [p \in Project |-> Sum(LAMBDA d : aggs[d][p], S)]

\* dominant, or "" of a day without any time
Dominant(agg) == {p \in Project : agg[p] > 0 /\ \A q \in Project : agg[p] >= agg[q]}

\* orderOf: the largest project first, the same in every bar of a chart.
OrderOf(aggs) ==
    LET totals == Merged(aggs, DOMAIN aggs)
    IN SetToSortSeq({p \in Project : totals[p] > 0}, LAMBDA p, q : totals[p] > totals[q])

ToSegments(agg, order) ==
    LET Worked(p) == agg[p] > 0
        worked == SelectSeq(order, Worked)
    IN [i \in DOMAIN worked |-> [project |-> worked[i], ms |-> agg[worked[i]]]]

Bar(agg, order) == [total |-> AggTotal(agg), segments |-> ToSegments(agg, order)]
Bars(aggs) ==
    LET order == OrderOf(aggs) IN [i \in DOMAIN aggs |-> Bar(aggs[i], order)]
Legend(aggs) ==
    LET totals == Merged(aggs, DOMAIN aggs) order == OrderOf(aggs)
    IN [i \in DOMAIN order |-> [project |-> order[i], ms |-> totals[order[i]]]]
-----------------------------------------------------------------------------
(* Reports *)

WeekOf(d) == d \div Week

MonthOf(d) == Cardinality({m \in MonthStarts : m <= d})

\* sumRange over the days of a period
SumRange(index, S) ==
    LET byProject == Merged(index, S)
    IN [total |-> AggTotal(byProject), byProject |-> byProject]

Rounded(part, whole) == (200 * part + whole) \div (2 * whole)

ProjectList(byProject, order) ==
    LET total == AggTotal(byProject) IN
    [i \in DOMAIN order |->
        [name |-> order[i], ms |-> byProject[order[i]],
         pct |-> IF total > 0 THEN Rounded(byProject[order[i]], total) ELSE 0]]

\* The rounding of a negative change goes toward the larger number too.
Delta(total, prev) ==
    [ms |-> total - prev, up |-> total >= prev, hasPrev |-> prev > 0,
     pct |-> IF prev > 0 THEN Rounded(total - prev, prev) ELSE 0]

\* topTasks: the titles by the time they got, each under its largest project.
Tasks(S) ==
    LET acts == {a \in log : DayOf(a.start) \in S /\ DurationMs(a) > 0}
        Of(title) == {a \in acts : a.task.title = title}
        ms == [title \in Title |-> Sum(DurationMs, Of(title))]
        sorted == SetToSortSeq({title \in Title : ms[title] > 0},
                               LAMBDA x, y : ms[x] > ms[y])
    IN [i \in 1..Min({Len(sorted), TopTasks}) |->
           [title |-> sorted[i], ms |-> ms[sorted[i]],
            sessions |-> Cardinality(Of(sorted[i])),
            projects |-> Dominant(AggOf(Of(sorted[i])))]]

\* finishReport, given the days of the period and of the one before it and the
\* aggs of its bars
FinishReport(index, aggs, S, before) ==
    LET order == OrderOf(aggs)
        cur == SumRange(index, S)
        worked == Cardinality({i \in DOMAIN aggs : AggTotal(aggs[i]) > 0})
    IN [total |-> cur.total,
        delta |-> Delta(cur.total, SumRange(index, before).total),
        avg |-> IF worked > 0 THEN cur.total \div worked ELSE 0,
        tracked |-> Cardinality({d \in S : AggTotal(index[d]) > 0}),
        bars |-> Bars(aggs),
        mix |-> ToSegments(cur.byProject, order),
        projects |-> ProjectList(cur.byProject, order),
        tasks |-> Tasks(S)]

WeekDays(w) == {d \in Days : WeekOf(d) = w}

\* A bar a day, of the week offset weeks from now's.
BuildWeekly(index, offset) ==
    LET w == WeekOf(Today) + offset
        first == w * Week
        aggs == [i \in 1..Week |-> IF first + i - 1 \in Days THEN index[first + i - 1]
                                   ELSE [p \in Project |-> 0]]
    IN FinishReport(index, aggs, WeekDays(w), WeekDays(w - 1))

MonthDays(m) == {d \in Days : MonthOf(d) = m}

\* A bar for every calendar week that the month touches.
BuildMonthly(index, offset) ==
    LET m == MonthOf(Today) + offset
        days == MonthDays(m)
        first == IF days = {} THEN 0 ELSE WeekOf(Min(days))
        weeks == IF days = {} THEN 0 ELSE WeekOf(Max(days)) - first + 1
        aggs == [i \in 1..weeks |->
                    Merged(index, {d \in days : WeekOf(d) - first = i - 1})]
    IN FinishReport(index, aggs, days, MonthDays(m - 1))

BuildReport(index, period, offset) ==
    IF period = "weekly" THEN BuildWeekly(index, offset) ELSE BuildMonthly(index, offset)
-----------------------------------------------------------------------------
(* Charts *)

\* buildDonut, of all days or of the last few
BuildDonut(index, range) ==
    LET S == IF range = "all" THEN Days ELSE {d \in Days : d > Today - DonutDays}
        byProject == Merged(index, S)
        order == SetToSortSeq({p \in Project : byProject[p] > 0},
                              LAMBDA p, q : byProject[p] > byProject[q])
    IN [total |-> AggTotal(byProject), segs |-> ProjectList(byProject, order)]

\* Slip: the last hour of an activity counts in full.
InHourWhole(a, h) ==
    IF h * Hour < a.end /\ (h + 1) * Hour > a.start
    THEN (h + 1) * Hour - Max({a.start, h * Hour}) ELSE 0

\* The part of an activity between two strokes of the clock.
InHour(a, h) == Max({0, Min({a.end, (h + 1) * Hour}) - Max({a.start, h * Hour})})

\* buildHourly: every activity cut at the hours, each piece under its hour of
\* the day.  A bar shows its whole time under the hour's dominant project.
BuildHourly ==
    LET Pieces(h, acts) ==
            Sum(LAMBDA a : Sum(LAMBDA d : InHour(a, d * Hours + h), Days \cup {LastDay + 1}),
                acts)
        perHour == [h \in 0..(Hours - 1) |->
            [p \in Project |-> Pieces(h, {a \in log : a.task.project = p})]]
    IN [h \in 0..(Hours - 1) |->
           [total |-> AggTotal(perHour[h]), project |-> Dominant(perHour[h])]]

\* buildWeekdayStacks: what a weekday got, and on how many of its days; a bar
\* is their quotient.
BuildWeekdayStacks(index) ==
    [wd \in 0..(Week - 1) |->
        LET dates == {d \in Days : d % Week = wd /\ AggTotal(index[d]) > 0}
        IN [sum |-> AggTotal(Merged(index, dates)), dates |-> Cardinality(dates)]]

\* buildTrend: a bar for each of the last weeks, this one last.
BuildTrend(index) ==
    LET aggs == [i \in 1..TrendWeeks |->
            Merged(index, {d \in Days : TrendWeeks - (WeekOf(Today) - WeekOf(d)) = i})]
    IN [bars |-> Bars(aggs), legend |-> Legend(aggs)]
-----------------------------------------------------------------------------
(* Statistics *)

Tracked(index) == {d \in Days : AggTotal(index[d]) > 0}

\* Slip: a day not yet worked breaks the streak.
CurrentStreakFromToday(index) ==
    LET back[d \in Nat \cup {-1}] == IF d \in Tracked(index) THEN 1 + back[d - 1] ELSE 0
    IN back[Today]

\* Back from today, or from yesterday while today has nothing.
CurrentStreak(index) ==
    LET tracked == Tracked(index)
        back[d \in Nat \cup {-1}] == IF d \in tracked THEN 1 + back[d - 1] ELSE 0
    IN back[IF Today \in tracked THEN Today ELSE Today - 1]

\* The longest run met while walking over the tracked days in order.
LongestStreak(index) ==
    LET Walk(acc, d) ==
            LET run == IF acc.prev = d - 1 THEN acc.run + 1 ELSE 1
            IN [prev |-> d, run |-> run, longest |-> Max({acc.longest, run})]
    IN FoldLeft(Walk, [prev |-> -2, run |-> 0, longest |-> 0],
                SetToSortSeq(Tracked(index), <)).longest

Level(ms) == Cardinality({i \in 1..4 : ms >= <<1, Hour \div 2, Hour, 2 * Hour>>[i]})

StreakDots(index) ==
    [i \in 1..Dots |->
        LET d == Today - (Dots - i)
            agg == IF d \in Days THEN index[d] ELSE [p \in Project |-> 0]
        IN [level |-> Level(AggTotal(agg)), tracked |-> AggTotal(agg) > 0]]

Largest(S) == Max(S \cup {0})

Records(index) ==
    [session |-> Largest({DurationMs(a) : a \in log}),
     day |-> Largest({AggTotal(index[d]) : d \in Days}),
     week |-> Largest({AggTotal(Merged(index, WeekDays(w))) : w \in WeekOf(0)..WeekOf(LastDay)})]

Middle(S) ==
    LET lengths == SetToSortSeq(S, LAMBDA a, b : DurationMs(a) < DurationMs(b))
    IN DurationMs(lengths[Len(lengths) \div 2 + 1])

\* buildStats' cards, of a log that has some time
Cards(index) ==
    LET worked == {a \in log : DurationMs(a) > 0}
        total == Sum(LAMBDA d : AggTotal(index[d]), Days)
        stacks == BuildWeekdayStacks(index)
    IN [total |-> total,
        sessions |-> Cardinality(worked),
        daily |-> total \div Cardinality(Tracked(index)),
        session |-> total \div Cardinality(worked),
        median |-> Middle(worked),
        best |-> {wd \in DOMAIN stacks : stacks[wd].dates > 0 /\ \A v \in DOMAIN stacks :
                     stacks[wd].sum * Max({1, stacks[v].dates})
                         >= stacks[v].sum * stacks[wd].dates},
        thisWeek |-> BuildReport(index, "weekly", 0)]
-----------------------------------------------------------------------------
(* The contribution graph, a day's timeline and its goal *)

\* ContributionGraph: the finished activities of the days it has squares for.
Contributions ==
    LET S == {d \in Days : d > Today - GraphDays /\ d <= Today}
        acts == {a \in log : DayOf(a.start) \in S}
        ms == [d \in S |-> Sum(DurationMs, {a \in acts : DayOf(a.start) = d})]
    IN [count |-> Cardinality(acts), total |-> Sum(LAMBDA d : ms[d], S),
        level |-> [d \in S |-> Level(ms[d])]]

Between(t, low, high) == Min({Max({t, low}), high})

\* DayTimeline: the spans of a day's activities, the running one's up to now.
Spans(day) ==
    LET low == day * Day high == low + Day
        Span(start, end) == [start |-> Between(start, low, high),
                             end |-> Min({Max({end, start}), high})]
    IN {Span(a.start, a.end) : a \in {a \in log : DayOf(a.start) = day}}
       \cup {Span(r.start, now) : r \in {r \in running : DayOf(r.start) = day}}

\* The hours it shows: the core of the day, stretched to whole hours of the
\* spans that stay.
TimelineWindow(day, staying) ==
    LET low == day * Day
        starts == {((s.start - low) \div Hour) * Hour : s \in staying} \cup {Core[1] * Hour}
        ends == {((s.end - low + Hour - 1) \div Hour) * Hour : s \in staying}
                    \cup {Core[2] * Hour}
    IN [start |-> Max({low + Min(starts), low}), end |-> Min({low + Max(ends), low + Day})]

\* TodayGoal: today's activities, and the one that runs once among them.
GoalTotal ==
    Sum(DurationMs, {a \in log : DayOf(a.start) = Today})
        + Sum(LAMBDA r : now - r.start, running)
-----------------------------------------------------------------------------
(* What the pages show of it *)

\* StackedBarChart: columns under the tallest, the first of which keeps its value in sight.
Chart(bars) ==
    LET tallest == Max({bars[i].total : i \in DOMAIN bars} \cup {0}) IN
    [i \in DOMAIN bars |->
        [bar |-> bars[i], of |-> tallest,
         pinned |-> /\ bars[i].total = tallest /\ tallest > 0
                    /\ \A j \in 1..(i - 1) : bars[j].total < tallest]]

\* MixRibbon: a period's mix as one bar, empty without any time.
Ribbon(mix, total) == IF total > 0 THEN mix ELSE <<>>

\* The report pages step back without end and forward up to now, and another
\* period begins at now.
Turned(page) ==
    {[page EXCEPT !.offset = @ - 1], [page EXCEPT !.offset = Min({0, @ + 1})]}
        \cup {[period |-> p, offset |-> 0] : p \in {"weekly", "monthly"}}

\* The pages a few taps lead to.
Pages[taps \in Nat] ==
    IF taps = 0 THEN {[period |-> "weekly", offset |-> 0]}
    ELSE Pages[taps - 1] \cup UNION {Turned(page) : page \in Pages[taps - 1]}

\* A report's page: a change only from a period that has time.
ReportShown(report) ==
    [headline |-> report.total,
     change |-> IF report.delta.hasPrev THEN {report.delta} ELSE {},
     stats |-> <<report.avg, report.tracked>>,
     ribbon |-> Ribbon(report.mix, report.total),
     chart |-> Chart(report.bars),
     projects |-> report.projects,
     tasks |-> report.tasks]

\* The donut's arcs, each from where the one before it ends.
Arcs(segs) ==
    [i \in DOMAIN segs |->
        LET from == FoldLeft(LAMBDA sum, seg : sum + seg.ms, 0, SubSeq(segs, 1, i - 1))
        IN <<from, from + segs[i].ms>>]

ChartsShown(index) ==
    LET donut == BuildDonut(index, "all") trend == BuildTrend(index)
    IN [total |-> donut.total, arcs |-> Arcs(donut.segs),
        weekday |-> BuildWeekdayStacks(index), hourly |-> BuildHourly,
        trend |-> Chart(trend.bars), legend |-> trend.legend]

\* Nothing is told of a log without any time.
StatsShown(index) ==
    IF Tracked(index) = {} THEN {}
    ELSE {[current |-> CurrentStreak(index), longest |-> LongestStreak(index),
           dots |-> StreakDots(index), cards |-> Cards(index), records |-> Records(index)]}
-----------------------------------------------------------------------------
(* An export *)

\* resolveExportRange: the days a choice of the dialog stands for.
ExportRange(range) ==
    CASE range = "all" -> {<<0, LastDay>>}
      [] range = "today" -> {<<Today, Today>>}
      [] range = "yesterday" -> {<<Today - 1, Today - 1>>}
      [] range = "custom" -> Days \X Days

\* submit: a range that ends before it begins is refused.
Submitted(range) == {days \in ExportRange(range) : days[1] <= days[2]}

\* What the dialog sends: a range, of one project or of all.
ExportsAsked ==
    [days : UNION {Submitted(range) : range \in {"all", "today", "yesterday", "custom"}},
     projects : {Project} \cup {{p} : p \in Project}]

\* selectForExport: what lies in the range of every activity that touches it.
SelectForExport(ask) ==
    LET low == ask.days[1] * Day high == (ask.days[2] + 1) * Day IN
    {[a EXCEPT !.start = Max({a.start, low}), !.end = Min({a.end, high})] :
        a \in {a \in log : /\ a.task.project \in ask.projects
                          /\ Max({a.start, low}) < Min({a.end, high})}}

\* renderText: a list with its time for every project, and the time of all lists.
ExportTotal(ask) ==
    LET picked == SelectForExport(ask) lists == AggOf(picked) IN AggTotal(lists)
-----------------------------------------------------------------------------
Total(seq) == FoldLeft(LAMBDA sum, x : sum + x.ms, 0, seq)

AddsUp(shown) ==
    /\ FoldLeft(LAMBDA sum, column : sum + column.bar.total, 0, shown.chart) = shown.headline
    /\ \A i \in DOMAIN shown.chart :
          Total(shown.chart[i].bar.segments) = shown.chart[i].bar.total
    /\ Total(shown.ribbon) = shown.headline
    /\ Total(shown.projects) = shown.headline
    /\ Total(shown.tasks) <= shown.headline
    /\ Len(shown.tasks) < TopTasks => Total(shown.tasks) = shown.headline

\* One column of a chart keeps its value in sight, unless there is nothing to see.
OnePinned(chart) ==
    LET pinned == {i \in DOMAIN chart : chart[i].pinned}
    IN Cardinality(pinned) = (IF \E i \in DOMAIN chart : chart[i].bar.total > 0 THEN 1 ELSE 0)

\* Every report adds up: its bars, its mix, its projects and, if it names them
\* all, its tasks are the same time, and the change it tells of leads from the
\* headline of the page one step back (buildReport, finishReport, ReportsView).
ReportsAddUp(index) ==
    \A page \in Pages[2] :
    \A report \in {BuildReport(index, page.period, page.offset)},
       previous \in {BuildReport(index, page.period, page.offset - 1).total} :
    \A shown \in {ReportShown(report)} :
        /\ AddsUp(shown) /\ OnePinned(shown.chart)
        /\ (shown.change = {}) = (previous = 0)
        /\ \A delta \in shown.change : delta.ms = shown.headline - previous

\* The charts split one log: the donut and its arcs, the hours of the day, the
\* weekdays and the cards have all its time; each bar of the trend is that
\* week's report, and the graph has its days' time (buildDonut, buildHourly,
\* buildWeekdayStacks, buildTrend, buildStats, ContributionGraph).
ChartsAgree(index) ==
    \A logged \in {Sum(DurationMs, log)}, shown \in {ChartsShown(index)},
       stats \in {StatsShown(index)} :
    /\ shown.total = logged
    /\ shown.arcs # <<>> => Last(shown.arcs)[2] = logged
    /\ Sum(LAMBDA h : shown.hourly[h].total, DOMAIN shown.hourly) = logged
    /\ Sum(LAMBDA wd : shown.weekday[wd].sum, DOMAIN shown.weekday) = logged
    /\ (stats = {}) = (logged = 0)
    /\ \A told \in stats : told.cards.total = logged
    /\ OnePinned(shown.trend)
    /\ \A i \in DOMAIN shown.trend :
          shown.trend[i].bar.total
              = SumRange(index, WeekDays(WeekOf(Today) + i - TrendWeeks)).total
    /\ GraphDays > LastDay => Contributions.total = logged

\* Whatever is asked for, exports of its days and its projects one by one have
\* the time of one (selectForExport, ExportDialog).
ExportsMeet ==
    \A cells \in {[d \in Days \cup {-1}, p \in Project |->
                       ExportTotal([days |-> <<d, d>>, projects |-> {p}])]} :
    /\ ExportTotal([days |-> <<0, LastDay>>, projects |-> Project]) = Sum(DurationMs, log)
    /\ \A ask \in ExportsAsked :
          ExportTotal(ask) =
              Sum(LAMBDA cell : cells[cell], (ask.days[1]..ask.days[2]) \X ask.projects)

\* Nothing of a day falls outside its timeline, and the goal counts what runs
\* once: stopping it leaves the total (DayTimeline, TodayGoal).
DayFits ==
    /\ \A day \in Days :
          LET spans == Spans(day) w == TimelineWindow(day, spans) IN
          \A s \in spans : w.start <= s.start /\ s.start <= s.end /\ s.end <= w.end
    /\ (\A r \in running : DayOf(r.start) = Today) =>
          GoalTotal = Sum(DurationMs, {a \in log \cup Ended : DayOf(a.start) = Today})

\* The views work their figures out apart and agree: every report adds up, the
\* charts split the same time, exports meet, and a day fits its timeline
\* (buildReport, buildDonut, buildHourly, selectForExport, DayTimeline).
ViewsAgree ==
    \A index \in {DailyIndex} :
    ReportsAddUp(index) /\ ChartsAgree(index) /\ ExportsMeet /\ DayFits

\* The runs of n tracked days up to a day of ends.
RunUpTo(n, ends, tracked) == \E last \in ends : (last - n + 1)..last \subseteq tracked

\* The streaks are the longest runs of tracked days there are, the current one's
\* dots are lit, and the records bound one another and what the cards tell
\* (buildStats).
RecordsHold ==
    \A index \in {DailyIndex} : \A stats \in StatsShown(index) :
    LET tracked == Tracked(index)
        current == stats.current
        longest == stats.longest
        records == stats.records
        cards == stats.cards
        lit == IF Today \in tracked THEN Dots ELSE Dots - 1
        Longest(ends) == Max({n \in 0..(LastDay + 1) : RunUpTo(n, ends, tracked)})
    IN /\ longest = Longest(Days)
       /\ current = Max({Longest({Today}), Longest({Today - 1})})
       /\ current <= longest
       /\ \A i \in (lit - Min({current, lit}) + 1)..lit : stats.dots[i].tracked
       /\ records.session <= records.day /\ records.day <= records.week
       /\ cards.thisWeek.total <= records.week /\ records.week <= cards.total
       /\ cards.session <= cards.daily /\ cards.daily <= records.day
       /\ cards.median <= records.session
       /\ cards.best # {}
=============================================================================
