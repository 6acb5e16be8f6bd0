------------------------------- MODULE Usage -------------------------------
(***************************************************************************)
(* What a device does, tick by tick, the events its agent observes of it,  *)
(* and what the server makes of those that have arrived.  Events arrive in *)
(* the order of their making (EventUpload), as late as the network likes;  *)
(* while the agent does not run there are none.                            *)
(***************************************************************************)
EXTENDS UsageReport

CONSTANTS Heartbeat, MaxTime, None

VARIABLES
    now,
    doing,      \* what the device did in each tick so far
    last,       \* what the agent sent last, or None
    lastSentAt,
    pending,    \* events made and not yet arrived
    stored      \* the rows of the events table

vars == <<now, doing, last, lastSentAt, pending, stored>>

Activity == {[state |-> "active", process |-> p] : p \in Process}
            \cup {[state |-> s, process |-> Unnamed] : s \in {"active", "idle", "locked"}}

ASSUME UsageAssumption ==
    /\ Heartbeat \in Nat /\ MaxTime \in Nat /\ (MaxGap > 0 => Heartbeat <= MaxGap)
    /\ None \notin Activity

TypeOK ==
    /\ now \in 0..MaxTime
    /\ doing \in Seq(Activity \cup {None}) /\ Len(doing) = now
    /\ last \in Activity \cup {None}
    /\ lastSentAt \in 0..MaxTime
    /\ pending \in Seq(Event)
    /\ stored \subseteq Event

Init ==
    /\ now = 0 /\ doing = <<>>
    /\ last = None /\ lastSentAt = 0
    /\ pending = <<>> /\ stored = {}

shouldEmit(activity) ==
    \/ last = None
    \/ last # activity
    \/ now >= lastSentAt + Heartbeat

\* The buffer numbers events in the order it receives them.
NextSequence == Cardinality(stored) + Len(pending) + 1

\* Mutant: only the state of an active event is filled in.
HalfEventOf(activity) ==
    [time |-> now, sequence |-> NextSequence,
     state |-> IF activity.state = "active" THEN "active" ELSE "", process |-> activity.process]

EventOf(activity) ==
    [time |-> now, sequence |-> NextSequence,
     state |-> activity.state, process |-> activity.process]

\* One tick of the device and of its agent.
Observe(activity) ==
    /\ now < MaxTime
    /\ now' = now + 1
    /\ doing' = Append(doing, activity)
    /\ IF shouldEmit(activity)
       THEN /\ pending' = Append(pending, EventOf(activity))
            /\ last' = activity /\ lastSentAt' = now
       ELSE UNCHANGED <<pending, last, lastSentAt>>
    /\ UNCHANGED stored

\* A tick without an agent: the next one to start has sent nothing yet.
Unobserved ==
    /\ now < MaxTime
    /\ now' = now + 1
    /\ doing' = Append(doing, None)
    /\ last' = None /\ lastSentAt' = 0
    /\ UNCHANGED <<pending, stored>>

Arrive ==
    /\ pending # <<>>
    /\ stored' = stored \cup {Head(pending)}
    /\ pending' = Tail(pending)
    /\ UNCHANGED <<now, doing, last, lastSentAt>>

Next ==
    \/ \E activity \in Activity : Observe(activity)
    \/ Unobserved
    \/ Arrive

Spec == Init /\ [][Next]_vars

-----------------------------------------------------------------------------
(* What the pages should show.                                             *)

\* The tick up to which the server knows what there is to know.
Known == IF pending = <<>> THEN now ELSE Head(pending).time

Ticks(span) == {t \in span.start..(span.end - 1) : 0 <= t /\ t < now}

Observed(t) == doing[t + 1]

UsedBy(p, ticks) ==
    {t \in ticks : Observed(t) # None /\ Observed(t).state = "active" /\ Name(Observed(t)) = p}

\* How often the server may have taken an activity to go on: wherever the agent
\* stopped, and behind the last event it has.
Interruptions ==
    Cardinality({t \in 1..(now - 1) : Observed(t) = None /\ Observed(t - 1) # None})
    + (IF pending = <<>> THEN 0 ELSE 1)

Days == {Span(start, start + DayTicks) : start \in {t \in 0..(now - 1) : DayStart(t) = t}}

DayReport(span) ==
    CalculateUsage(ReportEvents(stored, span.start, span.end), span.start, span.end, now)

\* A day's report of a program is the use that was observed of it: short by less than
\* a second for each of its events, and long by less than MaxGap, if there is such a limit,
\* for each time nobody knew what followed.
ReportIsUse == \A span \in Days, p \in Listed :
    LET reported == DayReport(span)[p] * TicksPerSecond
        certain == {t \in Ticks(span) : t < Known}
        parts == Cardinality(ActiveOf(stored, p))
    IN  /\ Cardinality(UsedBy(p, certain)) <= reported + parts * (TicksPerSecond - 1)
        /\ MaxGap > 0 =>
               reported <= Cardinality(UsedBy(p, Ticks(span))) + Interruptions * (MaxGap - 1)

\* All pages tell the same of today and of each day: the dashboard, the board, the
\* end of the day's curve and the last column of the week, whatever each one fetched.
\* The curve never falls, and the week's bars are its columns, up to a second for
\* each midnight an event's segment was cut at.
ViewsAgree ==
    LET today == dashboard(stored, now)
        day == Chart(stored, now, "day")
        week == Chart(stored, now, "week")
        spans == dailySpans(now)
        first == DayCount - Len(week)
        bars == ProgramTotals(stored, now, "week")
        ofWeek(p) == SumFunction([i \in DOMAIN week |-> week[i][p]])
    IN  /\ day[Len(day)] = today /\ week[Len(week)] = today
        /\ ProgramTotals(stored, now, "day") = today
        /\ \A i \in DOMAIN week : week[i] = DayReport(spans[first + i])
        /\ \A i, j \in DOMAIN day, p \in Listed : i <= j => day[i][p] <= day[j][p]
        /\ \A p \in Listed : bars[p] - ofWeek(p) \in 0..(DayCount - 1)

\* What the pages said of a day all of whose events had arrived stays as it is, when
\* time goes on and later events arrive.
PastIsFinal ==
    [][\A span \in Days : span.end <= Known => DayReport(span)' = DayReport(span)]_vars

\* As far back as the history reaches, a device was locked whenever the transition
\* before was a lock, and not when it was an unlock or there was none.
HistoryShowsLocks ==
    LET history == LockTransitions(stored)
        complete == Cardinality(history) < HistoryLimit
        upTo(t) == {e \in history : e.time <= t}
    IN  \A t \in {t \in 0..(now - 1) : t < Known /\ Observed(t) # None} :
            complete \/ upTo(t) # {}
                => (Observed(t).state = "locked"
                    <=> \E e \in LastOf(upTo(t)) : e.state = "locked")

=============================================================================
