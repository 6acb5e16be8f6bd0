---------------------------- MODULE UsageReport ----------------------------
(***************************************************************************)
(* How the server turns the events of one device into what its pages show. *)
(* An event says what the device does from its moment on, until the next   *)
(* event or for MaxGap at most; a report adds up the parts of these        *)
(* segments that lie in its window, each cut to whole seconds.  The pages  *)
(* differ in the window, in what they fetch for it and in what they do     *)
(* with the result.                                                        *)
(*                                                                         *)
(* Time passes in ticks, of which a second has several.  A day is short,   *)
(* and all days are equally long.  Rounding to minutes is left out.        *)
(***************************************************************************)
EXTENDS Integers, Sequences, FiniteSets, FiniteSetsExt

CONSTANTS
    Process,          \* the names of programs
    TicksPerSecond,
    MaxGap,           \* MaxCountableGapSeconds, in ticks; 0 is no limit
    DayTicks,         \* the length of a day
    AxisStart,        \* intradayStartHour
    Bin,              \* intradayBinMinutes
    DayCount,         \* weekDayCount
    HistoryLimit      \* historyEventLimit

ASSUME ReportAssumption ==
    /\ IsFiniteSet(Process)
    /\ TicksPerSecond \in Nat \ {0}
    /\ MaxGap \in Nat
    /\ DayTicks \in Nat \ {0}
    /\ AxisStart \in 0..DayTicks
    /\ Bin \in Nat \ {0} /\ DayCount \in Nat \ {0} /\ HistoryLimit \in Nat \ {0}

\* A program without a name is listed as "unknown".
Unnamed == ""
Listed == Process \cup {"unknown"}

\* time is OccurredAt; sequence numbers are never reused by a device.
Event == [time : Nat, sequence : Nat,
          state : {"active", "idle", "locked"}, process : Process \cup {Unnamed}]

Precedes(e, f) == e.time < f.time \/ (e.time = f.time /\ e.sequence < f.sequence)

Followers(events, e) == {f \in events : Precedes(e, f)}

Earlier(s, t) == IF s < t THEN s ELSE t
Later(s, t) == IF s < t THEN t ELSE s

\* The last events of a set: one, or none.
LastOf(events) == {e \in events : Followers(events, e) = {}}

\* Mutant: the state the window begins in is not fetched.
FetchWindow(events, start, end) == {e \in events : e.time \in start..(end - 1)}

\* The last event before the window, and those in it.
ReportEvents(events, start, end) ==
    LastOf({e \in events : e.time < start}) \cup {e \in events : e.time \in start..(end - 1)}

-----------------------------------------------------------------------------
(* CalculateUsage.                                                         *)

\* The next event in the order of time and sequence, if there is one by then.
NextTime(events, e, until) ==
    LET times == {f.time : f \in Followers(events, e)}
    IN  IF times = {} THEN until ELSE Earlier(Min(times), until)

SegmentStart(e, start) == Later(e.time, start)

\* Mutant: a segment lasts until the next event, however late.
UncappedEnd(events, e, until) == NextTime(events, e, until)

SegmentEnd(events, e, until) ==
    LET next == NextTime(events, e, until)
    IN  IF MaxGap > 0 THEN Earlier(next, e.time + MaxGap) ELSE next

\* Segments of events at or after the end are empty, as are all when the window has
\* not begun or is empty.
SegmentSeconds(events, e, start, until) ==
    LET length == SegmentEnd(events, e, until) - SegmentStart(e, start)
    IN  IF length > 0 THEN length \div TicksPerSecond ELSE 0

Name(e) == IF e.process = Unnamed THEN "unknown" ELSE e.process

ActiveOf(events, p) == {e \in events : e.state = "active" /\ Name(e) = p}

\* Seconds by program; a program with none is not in the code's map.
UsageUntil(events, start, until) ==
    LET seconds == [e \in events |-> SegmentSeconds(events, e, start, until)]
    IN  [p \in Listed |-> SumFunctionOnSet(seconds, ActiveOf(events, p))]

\* Mutant: the last segment goes on until now, whatever the window.
CalculateUntilNow(events, start, end, now) == UsageUntil(events, start, now)

CalculateUsage(events, start, end, now) == UsageUntil(events, start, Earlier(now, end))

\* TotalSeconds.
Total(report) == SumFunction(report)

-----------------------------------------------------------------------------
(* The pages.                                                              *)

DayStart(time) == time - (time % DayTicks)

\* dashboardData; boardToday computes its total the same way.
dashboard(events, now) ==
    LET start == DayStart(now)
    IN  CalculateUsage(ReportEvents(events, start, now), start, now, now)

Span(start, end) == [start |-> start, end |-> end]

\* Whole days, of which today is the last.
dailySpans(now) ==
    [i \in 1..DayCount |->
        LET start == DayStart(now) - (DayCount - i) * DayTicks
        IN  Span(start, start + DayTicks)]

\* Windows that all begin at midnight: one at every full bin, and one that ends now.
intradaySpans(now) ==
    LET midnight == DayStart(now)
        bins == (now - midnight - AxisStart + Bin - 1) \div Bin
    IN  IF now <= midnight + AxisStart THEN <<Span(midnight, now)>>
        ELSE [i \in 1..(bins + 1) |->
                 Span(midnight, IF i > bins THEN now ELSE midnight + AxisStart + (i - 1) * Bin)]

chartSpans(now, range) == IF range = "day" THEN intradaySpans(now) ELSE dailySpans(now)

FetchedSpan(spans) == Span(spans[1].start, spans[Len(spans)].end)

\* What usageChart and programChart fetch once and count per span.
SpanReports(events, now, range) ==
    LET spans == chartSpans(now, range)
        whole == FetchedSpan(spans)
        fetched == ReportEvents(events, whole.start, whole.end)
    IN  [i \in DOMAIN spans |-> CalculateUsage(fetched, spans[i].start, spans[i].end, now)]

\* Leading empty columns are dropped, unless all are empty.
firstNonEmptyIndex(columns) ==
    IF \E i \in DOMAIN columns : Total(columns[i]) > 0
    THEN Min({i \in DOMAIN columns : Total(columns[i]) > 0})
    ELSE 1

\* One column per span that is drawn, each with its seconds by program: summed up in
\* usageChart, a series per program in programChart.
Chart(events, now, range) ==
    LET columns == SpanReports(events, now, range)
    IN  IF range = "day" THEN columns
        ELSE SubSeq(columns, firstNonEmptyIndex(columns), Len(columns))

\* The bars of programChart.
ProgramTotals(events, now, range) ==
    LET whole == FetchedSpan(chartSpans(now, range))
    IN  CalculateUsage(ReportEvents(events, whole.start, whole.end),
                       whole.start, whole.end, now)

\* LockTransitions: the events that differ from the one before in whether they are
\* locked, the newest of them.
IsTransition(events, e) ==
    LET before == LastOf({f \in events : Precedes(f, e)})
    IN  IF before = {} THEN e.state = "locked"
        ELSE \E f \in before : (f.state = "locked") # (e.state = "locked")

\* Mutant: the oldest are kept.
OldestTransitions(events) ==
    LET all == {e \in events : IsTransition(events, e)}
    IN  {e \in all : Cardinality(all \ Followers(all, e)) <= HistoryLimit}

LockTransitions(events) ==
    LET all == {e \in events : IsTransition(events, e)}
    IN  {e \in all : Cardinality(Followers(all, e)) < HistoryLimit}

=============================================================================
