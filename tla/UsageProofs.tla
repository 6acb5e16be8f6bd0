---------------------------- MODULE UsageProofs ----------------------------
(***************************************************************************)
(* Proofs about the usage reports, for any events and any lengths of the   *)
(* day, the gap and the second.  First the reports themselves: which ticks *)
(* a segment counts, that no tick is counted twice, that what a page       *)
(* fetches is enough for its window, and what a cut loses.  Then the       *)
(* device: that the events tell what it did (Story), hence that its use    *)
(* and its locks are shown, that all pages agree, and that the past stays  *)
(* as it was.                                                              *)
(***************************************************************************)
EXTENDS Usage, Sums, SequenceTheorems

\* When the next event happens, without its definition as a minimum.
LEMMA NextTimeFacts == ASSUME NEW events \in SUBSET Event, NEW e \in Event, NEW until \in Int
                       PROVE  LET next == NextTime(events, e, until)
                              IN  /\ next \in Int /\ next <= until
                                  /\ \A f \in Followers(events, e) : next <= f.time
                                  /\ next = until \/ \E f \in Followers(events, e) : next = f.time
<1> DEFINE times == {f.time : f \in Followers(events, e)}
<1>1. times \in SUBSET Nat
  BY DEF Followers, Event
<1>2. CASE times = {}
  BY <1>2 DEF NextTime
<1>3. CASE times # {}
  <2>1. Min(times) \in times /\ \A t \in times : Min(times) <= t
    BY <1>1, <1>3, LeastIsMin
  <2>2. NextTime(events, e, until) = Earlier(Min(times), until)
    BY <1>3 DEF NextTime
  <2>3. Min(times) \in Nat
    BY <1>1, <2>1
  <2>4. CASE Min(times) < until
    <3>1. NextTime(events, e, until) = Min(times)
      BY <2>2, <2>4 DEF Earlier
    <3> QED
      BY <2>1, <2>3, <2>4, <3>1
  <2>5. CASE ~ (Min(times) < until)
    <3>1. NextTime(events, e, until) = until
      BY <2>2, <2>5 DEF Earlier
    <3>2. \A f \in Followers(events, e) : until <= f.time
      <4>1. \A f \in Followers(events, e) : f.time \in times
        OBVIOUS
      <4>2. \A x \in Nat : Min(times) <= x => until <= x
        BY <2>3, <2>5
      <4> HIDE DEF times
      <4> QED
        BY <1>1, <2>1, <4>1, <4>2
    <3> QED
      BY <3>1, <3>2
  <2> QED
    BY <2>4, <2>5
<1> QED
  BY <1>2, <1>3

-----------------------------------------------------------------------------
(* Segments.                                                               *)

\* The ticks a segment counts in a window.
Counted(events, e, start, until) ==
    SegmentStart(e, start)..(SegmentEnd(events, e, until) - 1)

\* What CalculateUsage counts for an event: the ticks of the window from the event on, for
\* MaxGap at most, at which no later event has happened yet.
THEOREM SegmentIsUntilNext ==
    ASSUME NEW events \in SUBSET Event, NEW e \in Event,
           NEW start \in Int, NEW until \in Int, NEW t \in Nat
    PROVE  t \in Counted(events, e, start, until)
           <=> /\ start <= t /\ t < until
               /\ e.time <= t /\ (MaxGap > 0 => t < e.time + MaxGap)
               /\ \A f \in Followers(events, e) : t < f.time
<1> DEFINE next == NextTime(events, e, until)
<1>1. /\ next \in Int /\ next <= until
      /\ \A f \in Followers(events, e) : next <= f.time
      /\ next = until \/ \E f \in Followers(events, e) : next = f.time
  BY NextTimeFacts
<1>2. \A f \in Followers(events, e) : f.time \in Nat
  BY DEF Followers, Event
<1>3. e.time \in Nat /\ MaxGap \in Nat
  BY ReportAssumption DEF Event
<1> HIDE DEF next
<1>4. t < next <=> t < until /\ \A f \in Followers(events, e) : t < f.time
  BY <1>1, <1>2
<1>5. /\ SegmentEnd(events, e, until) \in Int
      /\ t < SegmentEnd(events, e, until)
         <=> t < next /\ (MaxGap > 0 => t < e.time + MaxGap)
  BY <1>1, <1>3 DEF SegmentEnd, Earlier, next
<1>6. /\ SegmentStart(e, start) \in Nat
      /\ SegmentStart(e, start) <= t <=> start <= t /\ e.time <= t
  BY <1>3 DEF SegmentStart, Later
<1>7. t \in Counted(events, e, start, until)
      <=> SegmentStart(e, start) <= t /\ t < SegmentEnd(events, e, until)
  BY <1>5, <1>6 DEF Counted
<1> QED
  BY <1>4, <1>5, <1>6, <1>7

\* A segment has no ticks but natural ones.
LEMMA CountedIsNat ==
    ASSUME NEW events \in SUBSET Event, NEW e \in Event, NEW start \in Int, NEW until \in Int
    PROVE  Counted(events, e, start, until) \subseteq Nat
<1>1. SegmentStart(e, start) \in Nat
  BY DEF SegmentStart, Later, Event
<1>2. SegmentEnd(events, e, until) \in Int
  BY NextTimeFacts, ReportAssumption DEF SegmentEnd, Earlier, Event
<1> QED
  BY <1>1, <1>2 DEF Counted

\* No tick is counted for two events of a device, whose sequence numbers differ: not
\* even when they happened at the same moment.
THEOREM NoTickTwice ==
    ASSUME NEW events \in SUBSET Event, NEW e \in events, NEW f \in events,
           e.sequence # f.sequence, NEW start \in Int, NEW until \in Int
    PROVE  Counted(events, e, start, until) \cap Counted(events, f, start, until) = {}
<1> SUFFICES ASSUME NEW t \in Counted(events, e, start, until),
                    t \in Counted(events, f, start, until)
             PROVE  FALSE
  OBVIOUS
<1>1. t \in Nat
  BY CountedIsNat
<1>2. e.time <= t /\ f.time <= t
  BY <1>1, SegmentIsUntilNext
<1>3. Precedes(e, f) \/ Precedes(f, e)
  BY DEF Precedes, Event
<1>4. CASE Precedes(e, f)
  <2>1. f \in Followers(events, e)
    BY <1>4 DEF Followers
  <2> QED
    BY <1>1, <1>2, <2>1, SegmentIsUntilNext DEF Event
<1>5. CASE Precedes(f, e)
  <2>1. e \in Followers(events, f)
    BY <1>5 DEF Followers
  <2> QED
    BY <1>1, <1>2, <2>1, SegmentIsUntilNext DEF Event
<1> QED
  BY <1>3, <1>4, <1>5

\* ReportEvents fetches enough: for every window within the fetched one, the events
\* fetched count as they do among all events, and the others count nothing.
THEOREM FetchIsEnough ==
    ASSUME NEW events \in SUBSET Event, NEW e \in events,
           NEW start \in Int, NEW end \in Int, NEW from \in Int, NEW until \in Int,
           start <= from, until <= end
    PROVE  LET fetched == ReportEvents(events, start, end)
           IN  Counted(events, e, from, until)
               = IF e \in fetched THEN Counted(fetched, e, from, until) ELSE {}
<1> DEFINE fetched == ReportEvents(events, start, end)
<1>1. fetched \in SUBSET events
  BY DEF ReportEvents, LastOf
<1>2. \A f \in events : f.time \in Nat /\ f.sequence \in Nat
  BY DEF Event
<1>3. ASSUME NEW t \in Nat, t \in Counted(events, e, from, until)
      PROVE  e \in fetched
  <2>1. from <= t /\ t < until /\ e.time <= t /\ \A f \in Followers(events, e) : t < f.time
    BY <1>3, SegmentIsUntilNext
  <2> start <= t /\ t < end
    BY <2>1
  <2>2. CASE e.time < start
    <3>1. \A f \in {f \in events : f.time < start} : ~ Precedes(e, f)
      BY <1>2, <2>1 DEF Followers
    <3> QED
      BY <2>2, <3>1 DEF ReportEvents, LastOf, Followers
  <2>3. CASE e.time >= start
    BY <1>2, <2>1, <2>3 DEF ReportEvents
  <2> QED
    BY <1>2, <2>2, <2>3
<1>4. ASSUME e \in fetched, NEW t \in Nat, start <= t, t < end
      PROVE  (\A f \in Followers(fetched, e) : t < f.time)
             <=> (\A f \in Followers(events, e) : t < f.time)
  <2> SUFFICES ASSUME NEW f \in Followers(events, e), ~ (t < f.time)
               PROVE  f \in Followers(fetched, e)
    BY <1>1 DEF Followers
  <2>1. f \in events /\ Precedes(e, f) /\ f.time <= t
    BY <1>2 DEF Followers
  <2>2. CASE f.time < start
    <3>1. e.time < start
      BY <1>2, <2>1, <2>2 DEF Precedes
    <3>2. e \in LastOf({g \in events : g.time < start})
      BY <1>2, <1>4, <3>1 DEF ReportEvents
    <3> QED
      BY <2>1, <2>2, <3>2 DEF LastOf, Followers
  <2>3. CASE f.time >= start
    BY <1>2, <1>4, <2>1, <2>3 DEF ReportEvents, Followers
  <2> QED
    BY <1>2, <2>1, <2>2, <2>3
<1>5. ASSUME e \in fetched, NEW t \in Nat
      PROVE  t \in Counted(fetched, e, from, until) <=> t \in Counted(events, e, from, until)
  <2> HIDE DEF fetched
  <2>1. fetched \in SUBSET Event
    BY <1>1
  <2> QED
    BY <1>4, <1>5, <2>1, SegmentIsUntilNext
<1> HIDE DEF fetched
<1>6. CASE e \in fetched
  <2>1. Counted(fetched, e, from, until) \subseteq Nat /\ Counted(events, e, from, until) \subseteq Nat
    BY <1>1, CountedIsNat
  <2> QED
    BY <1>5, <1>6, <2>1 DEF fetched
<1>7. CASE e \notin fetched
  <2>1. Counted(events, e, from, until) \subseteq Nat
    BY CountedIsNat
  <2> QED
    BY <1>3, <1>7, <2>1 DEF fetched
<1> QED
  BY <1>6, <1>7

\* The seconds of a segment are its ticks, without a rest.
LEMMA SecondsOfTicks ==
    ASSUME NEW events \in SUBSET Event, NEW e \in Event, NEW start \in Int, NEW until \in Int
    PROVE  LET ticks == Counted(events, e, start, until)
           IN  /\ IsFiniteSet(ticks) /\ Cardinality(ticks) \in Nat
               /\ SegmentSeconds(events, e, start, until) = Cardinality(ticks) \div TicksPerSecond
               /\ SegmentSeconds(events, e, start, until) \in Nat
<1> DEFINE from == SegmentStart(e, start)
           to == SegmentEnd(events, e, until)
           ticks == Counted(events, e, start, until)
<1>1. from \in Nat
  BY DEF SegmentStart, Later, Event
<1>2. to \in Int
  BY NextTimeFacts, ReportAssumption DEF SegmentEnd, Earlier, Event
<1>3. ticks = from..(to - 1)
  BY DEF Counted
<1>4. SegmentSeconds(events, e, start, until)
      = IF to - from > 0 THEN (to - from) \div TicksPerSecond ELSE 0
  BY DEF SegmentSeconds
<1>5. TicksPerSecond \in Nat \ {0}
  BY ReportAssumption
<1> HIDE DEF from, to, ticks
<1>6. /\ IsFiniteSet(ticks)
      /\ Cardinality(ticks) = IF from > to - 1 THEN 0 ELSE (to - 1) - from + 1
  BY <1>1, <1>2, <1>3, FS_Interval
<1>7. CASE to - from > 0
  <2>1. Cardinality(ticks) = to - from /\ to - from \in Nat
    BY <1>1, <1>2, <1>6, <1>7
  <2> QED
    BY <1>4, <1>5, <1>6, <1>7, <2>1, DivNat DEF ticks
<1>8. CASE ~ (to - from > 0)
  <2>1. Cardinality(ticks) = 0
    BY <1>1, <1>2, <1>6, <1>8
  <2>2. 0 \div TicksPerSecond = 0
    BY <1>5
  <2> QED
    BY <1>4, <1>6, <1>8, <2>1, <2>2 DEF ticks
<1> QED
  BY <1>7, <1>8

LEMMA ReportTyped ==
    ASSUME NEW events \in SUBSET Event, IsFiniteSet(events), NEW start \in Int, NEW until \in Int
    PROVE  UsageUntil(events, start, until) \in [Listed -> Nat]
<1> DEFINE seconds == [e \in events |-> SegmentSeconds(events, e, start, until)]
<1>1. ASSUME NEW p \in Listed
      PROVE  SumFunctionOnSet(seconds, ActiveOf(events, p)) \in Nat
  <2>1. ActiveOf(events, p) \subseteq events /\ IsFiniteSet(ActiveOf(events, p))
    BY FS_Subset DEF ActiveOf
  <2>2. \A e \in ActiveOf(events, p) : seconds[e] \in Nat
    BY <2>1, SecondsOfTicks
  <2> HIDE DEF seconds
  <2> QED
    BY <2>1, <2>2, SumNat
<1> QED
  BY <1>1 DEF UsageUntil

\* What is fetched for a window gives the same report of each window within it as all events do.
THEOREM FetchedReport ==
    ASSUME NEW events \in SUBSET Event, IsFiniteSet(events),
           NEW start \in Int, NEW end \in Int, NEW from \in Int, NEW until \in Int,
           start <= from, until <= end
    PROVE  UsageUntil(ReportEvents(events, start, end), from, until)
           = UsageUntil(events, from, until)
<1> DEFINE fetched == ReportEvents(events, start, end)
           f == [e \in events |-> SegmentSeconds(events, e, from, until)]
           g == [e \in fetched |-> SegmentSeconds(fetched, e, from, until)]
<1>1. fetched \subseteq events /\ fetched \in SUBSET Event
  BY DEF ReportEvents, LastOf
<1>2. \A e \in events : Counted(events, e, from, until)
          = IF e \in fetched THEN Counted(fetched, e, from, until) ELSE {}
  BY FetchIsEnough
<1> HIDE DEF fetched
<1>3. \A e \in events : f[e] = Cardinality(Counted(events, e, from, until)) \div TicksPerSecond
                        /\ f[e] \in Int
  BY SecondsOfTicks
<1>4. \A e \in fetched : g[e] = Cardinality(Counted(fetched, e, from, until)) \div TicksPerSecond
  BY <1>1, SecondsOfTicks
<1>5. \A e \in fetched : g[e] = f[e]
  BY <1>1, <1>2, <1>3, <1>4
<1>6. \A e \in events \ fetched : f[e] = 0
  <2>1. 0 \div TicksPerSecond = 0 /\ Cardinality({}) = 0
    BY FS_EmptySet, ReportAssumption
  <2> QED
    BY <1>2, <1>3, <2>1
<1> HIDE DEF f, g
<1>7. ASSUME NEW p \in Listed
      PROVE  SumFunctionOnSet(g, ActiveOf(fetched, p)) = SumFunctionOnSet(f, ActiveOf(events, p))
  <2> DEFINE S == ActiveOf(events, p)
             U == ActiveOf(fetched, p)
  <2>1. S \subseteq events /\ IsFiniteSet(S) /\ U \subseteq S /\ U \subseteq fetched
    BY <1>1, FS_Subset DEF ActiveOf
  <2>2. \A e \in S \ U : e \in events \ fetched
    BY <2>1 DEF ActiveOf
  <2> HIDE DEF S, U
  <2>3. \A e \in U : f[e] \in Int /\ g[e] = f[e]
    BY <1>3, <1>5, <2>1
  <2>4. \A e \in S \ U : f[e] = 0
    BY <1>6, <2>2
  <2>5. SumFunctionOnSet(f, S) = SumFunctionOnSet(g, U)
    BY <2>1, <2>3, <2>4, SumSupport
  <2> QED
    BY <2>5 DEF S, U
<1> QED
  BY <1>7 DEF UsageUntil, f, g, fetched

\* More of an activity is counted up to a later moment.
LEMMA ReportGrows ==
    ASSUME NEW events \in SUBSET Event, IsFiniteSet(events), NEW start \in Int,
           NEW until \in Int, NEW later \in Int, until <= later, NEW p \in Listed
    PROVE  UsageUntil(events, start, until)[p] <= UsageUntil(events, start, later)[p]
<1> DEFINE f == [e \in events |-> SegmentSeconds(events, e, start, until)]
           g == [e \in events |-> SegmentSeconds(events, e, start, later)]
           S == ActiveOf(events, p)
<1>1. S \subseteq events /\ IsFiniteSet(S)
  BY FS_Subset DEF ActiveOf
<1>2. ASSUME NEW e \in events
      PROVE  f[e] \in Int /\ g[e] \in Int /\ f[e] <= g[e]
  <2> DEFINE A == Counted(events, e, start, until)
             B == Counted(events, e, start, later)
  <2>1. /\ IsFiniteSet(A) /\ IsFiniteSet(B) /\ Cardinality(A) \in Nat /\ Cardinality(B) \in Nat
        /\ f[e] = Cardinality(A) \div TicksPerSecond /\ f[e] \in Int
        /\ g[e] = Cardinality(B) \div TicksPerSecond /\ g[e] \in Int
    BY SecondsOfTicks
  <2>2. A \subseteq B
    <3>1. A \subseteq Nat
      BY CountedIsNat
    <3>2. \A t \in Nat : t \in A => t \in B
      BY SegmentIsUntilNext
    <3> QED
      BY <3>1, <3>2
  <2> HIDE DEF A, B, f, g
  <2>3. Cardinality(A) <= Cardinality(B)
    BY <2>1, <2>2, FS_Subset
  <2> QED
    BY <2>1, <2>3, DivMono, ReportAssumption
<1>3. UsageUntil(events, start, until)[p] = SumFunctionOnSet(f, S)
  BY DEF UsageUntil
<1>4. UsageUntil(events, start, later)[p] = SumFunctionOnSet(g, S)
  BY DEF UsageUntil
<1> HIDE DEF f, g, S
<1>5. SumFunctionOnSet(f, S) <= SumFunctionOnSet(g, S)
  BY <1>1, <1>2, SumLeq
<1> QED
  BY <1>3, <1>4, <1>5

\* A window counted in two parts: only an event whose segment goes on across the cut can lose
\* by it, a second at most, and there is one such event.
THEOREM CutLosesOneSecond ==
    ASSUME NEW events \in SUBSET Event, IsFiniteSet(events),
           \A e, f \in events : e.sequence = f.sequence => e = f,
           NEW a \in Int, NEW b \in Int, NEW c \in Int, a <= b, b <= c, NEW p \in Listed
    PROVE  UsageUntil(events, a, c)[p] - UsageUntil(events, a, b)[p] - UsageUntil(events, b, c)[p]
           \in 0..1
<1> DEFINE ac == [e \in events |-> SegmentSeconds(events, e, a, c)]
           ab == [e \in events |-> SegmentSeconds(events, e, a, b)]
           bc == [e \in events |-> SegmentSeconds(events, e, b, c)]
           lost == [e \in events |-> ac[e] - ab[e] - bc[e]]
           both == [e \in events |-> ab[e] + bc[e]]
           S == ActiveOf(events, p)
           Crosses(e) == b \in Nat /\ b \in Counted(events, e, a, c)
<1>1. S \subseteq events /\ IsFiniteSet(S)
  BY FS_Subset DEF ActiveOf
<1>2. ASSUME NEW e \in events
      PROVE  /\ ac[e] \in Nat /\ ab[e] \in Nat /\ bc[e] \in Nat
             /\ ac[e] - ab[e] - bc[e] \in 0..1
             /\ ~ Crosses(e) => ac[e] - ab[e] - bc[e] = 0
  <2> DEFINE AC == Counted(events, e, a, c)
             AB == Counted(events, e, a, b)
             BC == Counted(events, e, b, c)
  <2>1. /\ IsFiniteSet(AC) /\ IsFiniteSet(AB) /\ IsFiniteSet(BC)
        /\ Cardinality(AC) \in Nat /\ Cardinality(AB) \in Nat /\ Cardinality(BC) \in Nat
        /\ ac[e] = Cardinality(AC) \div TicksPerSecond /\ ac[e] \in Nat
        /\ ab[e] = Cardinality(AB) \div TicksPerSecond /\ ab[e] \in Nat
        /\ bc[e] = Cardinality(BC) \div TicksPerSecond /\ bc[e] \in Nat
    BY SecondsOfTicks
  <2>2. AC \subseteq Nat /\ AB \subseteq Nat /\ BC \subseteq Nat
    BY CountedIsNat
  <2> DEFINE Goes(t) == /\ e.time <= t /\ (MaxGap > 0 => t < e.time + MaxGap)
                        /\ \A f \in Followers(events, e) : t < f.time
  <2>3. ASSUME NEW t \in Nat
        PROVE  /\ t \in AC <=> a <= t /\ t < c /\ Goes(t)
               /\ t \in AB <=> t \in AC /\ t < b
               /\ t \in BC <=> t \in AC /\ b <= t
    <3>1. t \in AC <=> a <= t /\ t < c /\ Goes(t)
      BY SegmentIsUntilNext
    <3>2. t \in AB <=> a <= t /\ t < b /\ Goes(t)
      BY SegmentIsUntilNext
    <3>3. t \in BC <=> b <= t /\ t < c /\ Goes(t)
      BY SegmentIsUntilNext
    <3> HIDE DEF Goes, AC, AB, BC
    <3> QED
      BY <3>1, <3>2, <3>3
  <2>4. AB \cup BC = AC /\ AB \cap BC = {}
    BY <2>2, <2>3
  <2>5. AB = {} \/ BC = {} \/ Crosses(e)
    <3> SUFFICES ASSUME NEW s \in AB, NEW t \in BC
                 PROVE  Crosses(e)
      OBVIOUS
    <3>1. s \in Nat /\ t \in Nat /\ s < b /\ b <= t /\ s \in AC /\ t \in AC
      BY <2>2, <2>3
    <3>2. b \in Nat
      BY <3>1
    <3>3. e.time \in Nat /\ \A f \in Followers(events, e) : f.time \in Nat
      BY DEF Event, Followers
    <3>4. Goes(s) /\ Goes(t)
      BY <2>3, <3>1
    <3>5. Goes(b)
      BY <3>1, <3>2, <3>3, <3>4, ReportAssumption
    <3>6. a <= b /\ b < c
      BY <2>3, <3>1, <3>2
    <3> HIDE DEF Goes, AC
    <3>7. b \in AC
      BY <2>3, <3>2, <3>5, <3>6
    <3> QED
      BY <3>2, <3>7 DEF AC
  <2> HIDE DEF AC, AB, BC, ac, ab, bc
  <2>6. Cardinality(AC) = Cardinality(AB) + Cardinality(BC)
    <3>1. Cardinality(AB \cup BC) = Cardinality(AB) + Cardinality(BC) - Cardinality(AB \cap BC)
      BY <2>1, FS_Union
    <3>2. Cardinality(AB \cap BC) = 0
      BY <2>4, FS_EmptySet
    <3>3. Cardinality(AB) \in Nat /\ Cardinality(BC) \in Nat
      BY <2>1
    <3>4. Cardinality(AC) = Cardinality(AB \cup BC)
      BY <2>4
    <3> QED
      BY <3>1, <3>2, <3>3, <3>4
  <2>7. ac[e] - ab[e] - bc[e] \in 0..1
    BY <2>1, <2>6, DivAdd, ReportAssumption
  <2>8. CASE AB = {} \/ BC = {}
    <3>1. Cardinality({}) = 0 /\ 0 \div TicksPerSecond = 0
      BY FS_EmptySet, ReportAssumption
    <3>2. \/ ab[e] = 0 /\ ac[e] = bc[e]
          \/ bc[e] = 0 /\ ac[e] = ab[e]
      BY <2>1, <2>4, <2>8, <3>1
    <3> QED
      BY <2>1, <2>7, <3>2
  <2> QED
    BY <2>1, <2>5, <2>7, <2>8
<1>3. \A e, f \in events : Crosses(e) /\ Crosses(f) => e = f
  <2> SUFFICES ASSUME NEW e \in events, NEW f \in events, Crosses(e), Crosses(f), e # f
               PROVE  FALSE
    OBVIOUS
  <2>1. Counted(events, e, a, c) \cap Counted(events, f, a, c) = {}
    BY NoTickTwice
  <2> QED
    BY <2>1
<1>4. /\ UsageUntil(events, a, c)[p] = SumFunctionOnSet(ac, S)
      /\ UsageUntil(events, a, b)[p] = SumFunctionOnSet(ab, S)
      /\ UsageUntil(events, b, c)[p] = SumFunctionOnSet(bc, S)
  BY DEF UsageUntil
<1>5. \A e \in events : lost[e] = ac[e] - ab[e] - bc[e] /\ both[e] = ab[e] + bc[e]
  OBVIOUS
<1> HIDE DEF ac, ab, bc, lost, both, S, Crosses
<1>6. /\ \A e \in S : ac[e] \in Int /\ ab[e] \in Int /\ bc[e] \in Int
      /\ \A e \in S : both[e] \in Int /\ lost[e] \in Int /\ both[e] = ab[e] + bc[e]
      /\ \A e \in S : ac[e] = both[e] + lost[e]
  BY <1>1, <1>2, <1>5
<1>7. /\ SumFunctionOnSet(both, S) = SumFunctionOnSet(ab, S) + SumFunctionOnSet(bc, S)
      /\ SumFunctionOnSet(ac, S) = SumFunctionOnSet(both, S) + SumFunctionOnSet(lost, S)
  BY <1>1, <1>6, SumPlus
<1>8. /\ SumFunctionOnSet(ab, S) \in Int /\ SumFunctionOnSet(bc, S) \in Int
      /\ SumFunctionOnSet(lost, S) \in Int
  BY <1>1, <1>6, SumInt
<1>9. SumFunctionOnSet(lost, S) \in 0..1
  <2>1. CASE \E e \in S : lost[e] # 0
    <3>1. PICK e \in S : lost[e] # 0
      BY <2>1
    <3>2. \A f \in S \ {e} : lost[f] = 0
      BY <1>1, <1>2, <1>3, <1>5, <3>1
    <3>3. IsFiniteSet(S \ {e})
      BY <1>1, FS_Subset
    <3>4. SumFunctionOnSet(lost, S \ {e}) = 0
      BY <3>2, <3>3, SumZero
    <3>5. SumFunctionOnSet(lost, S) = lost[e] + SumFunctionOnSet(lost, S \ {e})
      BY <1>1, <1>6, SumTake
    <3>6. lost[e] \in 0..1
      BY <1>1, <1>2, <1>5
    <3> QED
      BY <3>4, <3>5, <3>6
  <2>2. CASE \A e \in S : lost[e] = 0
    BY <1>1, <2>2, SumZero
  <2> QED
    BY <2>1, <2>2
<1> QED
  BY <1>4, <1>7, <1>8, <1>9

-----------------------------------------------------------------------------
(* The device, its agent and the server.                                   *)

\* Events are numbered without gaps in the order they arrive in, and are of the past.
Numbered ==
    /\ IsFiniteSet(stored)
    /\ \A e \in stored : e.sequence \in 1..Cardinality(stored)
    /\ \A e, f \in stored : e.sequence = f.sequence => e = f
    /\ \A i \in 1..Len(pending) : pending[i].sequence = Cardinality(stored) + i
OfThePast == \A i \in 1..Len(pending) : pending[i].time <= now

Made == stored \cup {pending[i] : i \in 1..Len(pending)}

\* No two events are of one moment, and they arrive in the order of their moments.
PastFirst ==
    /\ \A e, f \in stored : e.time = f.time => e = f
    /\ \A e \in stored : \A i \in 1..Len(pending) : e.time < pending[i].time
    /\ \A i, j \in 1..Len(pending) : i < j => pending[i].time < pending[j].time

\* An event says what the device did in its moment.
Says(e, activity) == activity # None /\ e.state = activity.state /\ e.process = activity.process
Truthful == \A e \in Made : e.time < now /\ Says(e, Observed(e.time))

\* The device went on doing at t what e says of it, and no later event has been made by then.
Covers(e, t) ==
    /\ e.time <= t /\ (t = e.time \/ t < e.time + Heartbeat)
    /\ \A u \in e.time..t : Observed(u) = Observed(t)
    /\ \A f \in Made : f.time <= e.time \/ t < f.time
Covered == \A t \in 0..(now - 1) : Observed(t) # None => \E e \in Made : Covers(e, t)

\* What the agent remembers is its last event.
LastSent == last # None =>
    /\ now > 0 /\ Observed(now - 1) = last
    /\ \E e \in Made : e.time = lastSentAt /\ Covers(e, now - 1)

Story == PastFirst /\ Truthful /\ Covered /\ LastSent

IInv == TypeOK /\ Numbered /\ OfThePast

LEMMA PendingTyped == ASSUME TypeOK
                      PROVE  \A i \in 1..Len(pending) : pending[i] \in Event /\ pending[i].time \in Nat
<1>1. \A i \in 1..Len(pending) : pending[i] \in Event
  BY DEF TypeOK
<1>2. \A e \in Event : e.time \in Nat
  BY DEF Event
<1> QED
  BY <1>1, <1>2

LEMMA InitIInv == Init => IInv
<1> SUFFICES ASSUME Init PROVE IInv
  OBVIOUS
<1> USE DEF Init
<1>1. TypeOK
  BY UsageAssumption DEF TypeOK
<1>2. Numbered
  BY FS_EmptySet DEF Numbered
<1>3. OfThePast
  BY DEF OfThePast
<1> QED
  BY <1>1, <1>2, <1>3 DEF IInv

LEMMA ObserveIInv == ASSUME IInv, NEW activity \in Activity, Observe(activity)
                     PROVE  IInv'
<1> USE DEF IInv, TypeOK
<1>1. Cardinality(stored) \in Nat /\ Len(pending) \in Nat /\ now \in Nat
  BY FS_CardinalityType, UsageAssumption DEF Numbered
<1>2. EventOf(activity) \in Event
  BY <1>1 DEF EventOf, NextSequence, Event, Activity
<1>3. now' \in 0..MaxTime /\ now' = now + 1 /\ stored' = stored
  BY <1>1, UsageAssumption DEF Observe
<1>4. doing' \in Seq(Activity \cup {None}) /\ Len(doing') = now'
  BY <1>1 DEF Observe
<1>5. CASE shouldEmit(activity)
  <2>1. /\ pending' = Append(pending, EventOf(activity))
        /\ last' = activity /\ lastSentAt' = now
    BY <1>5 DEF Observe
  <2>2. TypeOK'
    BY <1>2, <1>3, <1>4, <2>1
  <2>3. /\ Len(pending') = Len(pending) + 1
        /\ \A i \in 1..Len(pending') :
             \/ i \in 1..Len(pending) /\ pending'[i] = pending[i]
             \/ i = Len(pending) + 1 /\ pending'[i] = EventOf(activity)
    BY <1>1, <1>2, <2>1
  <2>4. EventOf(activity).time = now /\ EventOf(activity).sequence = Cardinality(stored) + Len(pending) + 1
    BY DEF EventOf, NextSequence
  <2>5. \A i \in 1..Len(pending) : pending[i].time \in Nat
    BY PendingTyped
  <2>6. Numbered'
    <3> HIDE DEF TypeOK
    <3>1. \A i \in 1..Len(pending') : pending'[i].sequence = Cardinality(stored) + i
      <4>1. \A i \in 1..Len(pending) : pending[i].sequence = Cardinality(stored) + i
        BY DEF Numbered
      <4>2. Cardinality(stored) + (Len(pending) + 1) = Cardinality(stored) + Len(pending) + 1
        BY <1>1
      <4> QED
        BY <2>3, <2>4, <4>1, <4>2
    <3> QED
      BY <1>3, <3>1 DEF Numbered
  <2>7. OfThePast'
    <3> HIDE DEF TypeOK
    <3>1. \A i \in 1..Len(pending') : pending'[i].time \in Nat /\ pending'[i].time <= now
      BY <1>1, <2>3, <2>4, <2>5 DEF OfThePast
    <3> QED
      BY <1>1, <1>3, <3>1 DEF OfThePast
  <2> QED
    BY <2>2, <2>6, <2>7
<1>6. CASE ~ shouldEmit(activity)
  <2>1. UNCHANGED <<pending, last, lastSentAt>>
    BY <1>6 DEF Observe
  <2>2. \A i \in 1..Len(pending) : pending[i].time \in Nat
    BY PendingTyped
  <2>3. OfThePast'
    BY <1>1, <1>3, <2>1, <2>2 DEF OfThePast
  <2> QED
    BY <1>3, <1>4, <2>1, <2>3 DEF Numbered
<1> QED
  BY <1>5, <1>6

LEMMA UnobservedIInv == ASSUME IInv, Unobserved
                        PROVE  IInv'
<1> USE DEF IInv, TypeOK
<1>1. /\ now' = now + 1 /\ now' \in 0..MaxTime
      /\ last' = None /\ lastSentAt' = 0 /\ UNCHANGED <<pending, stored>>
  BY UsageAssumption DEF Unobserved
<1>2. doing' \in Seq(Activity \cup {None}) /\ Len(doing') = now'
  BY DEF Unobserved
<1>3. \A i \in 1..Len(pending) : pending[i].time \in Nat
  BY PendingTyped
<1>4. OfThePast'
  BY <1>1, <1>3, UsageAssumption DEF OfThePast
<1>5. TypeOK'
  BY <1>1, <1>2, UsageAssumption
<1>6. Numbered'
  BY <1>1 DEF Numbered
<1> QED
  BY <1>4, <1>5, <1>6

LEMMA ArriveIInv == ASSUME IInv, Arrive
                    PROVE  IInv'
<1> USE DEF IInv, TypeOK
<1> DEFINE e == Head(pending)
<1>1. /\ pending # <<>> /\ stored' = stored \cup {e} /\ pending' = Tail(pending)
      /\ UNCHANGED <<now, doing, last, lastSentAt>>
  BY DEF Arrive
<1>2. e \in Event /\ e = pending[1] /\ 1 \in 1..Len(pending)
  BY <1>1
<1>3. /\ pending' \in Seq(Event) /\ Len(pending') = Len(pending) - 1
      /\ \A i \in 1..Len(pending') : pending'[i] = pending[i + 1] /\ i + 1 \in 1..Len(pending)
  BY <1>1
<1>4. Cardinality(stored) \in Nat /\ IsFiniteSet(stored)
  BY FS_CardinalityType DEF Numbered
<1>5. e.sequence = Cardinality(stored) + 1
  BY <1>2 DEF Numbered
<1> HIDE DEF e
<1>6. e \notin stored
  BY <1>4, <1>5 DEF Numbered
<1>7. IsFiniteSet(stored') /\ Cardinality(stored') = Cardinality(stored) + 1
  BY <1>1, <1>4, <1>6, FS_AddElement
<1>8. TypeOK'
  BY <1>1, <1>2, <1>3
<1>9. Numbered'
  <2>1. \A f \in stored' : f.sequence \in 1..Cardinality(stored')
    BY <1>1, <1>4, <1>5, <1>7 DEF Numbered
  <2>2. \A f, g \in stored' : f.sequence = g.sequence => f = g
    BY <1>1, <1>4, <1>5 DEF Numbered
  <2>3. \A i \in 1..Len(pending') : pending'[i].sequence = Cardinality(stored') + i
    BY <1>3, <1>4, <1>7 DEF Numbered
  <2> QED
    BY <1>7, <2>1, <2>2, <2>3 DEF Numbered
<1>10. OfThePast'
  BY <1>1, <1>3 DEF OfThePast
<1> QED
  BY <1>8, <1>9, <1>10

LEMMA NextIInv == IInv /\ [Next]_vars => IInv'
<1> SUFFICES ASSUME IInv, [Next]_vars PROVE IInv'
  OBVIOUS
<1>1. CASE UNCHANGED vars
  BY <1>1 DEF vars, IInv, TypeOK, Numbered, OfThePast
<1> QED
  BY <1>1, ObserveIInv, UnobservedIInv, ArriveIInv DEF Next

THEOREM InvAlways == Spec => []IInv
  BY InitIInv, NextIInv, PTL DEF Spec

-----------------------------------------------------------------------------
(* What the events tell of the device.                                     *)

LEMMA MadeTyped == ASSUME TypeOK
                   PROVE  /\ Made \in SUBSET Event /\ \A e \in Made : e.time \in Nat
                          /\ now \in Nat /\ Len(pending) \in Nat
<1>1. \A i \in 1..Len(pending) : pending[i] \in Event
  BY PendingTyped
<1>2. Made \in SUBSET Event
  BY <1>1 DEF Made, TypeOK
<1>3. \A e \in Event : e.time \in Nat
  BY DEF Event
<1> QED
  BY <1>2, <1>3, UsageAssumption DEF TypeOK

LEMMA InitStory == Init => Story
<1> SUFFICES ASSUME Init PROVE Story
  OBVIOUS
<1>1. now = 0 /\ last = None /\ pending = <<>> /\ stored = {} /\ Made = {}
  BY DEF Init, Made
<1> QED
  BY <1>1 DEF Story, PastFirst, Truthful, Covered, LastSent

\* The ticks that have passed stay as they were.
LEMMA PassedStays ==
    ASSUME TypeOK, NEW activity \in Activity \cup {None}, doing' = Append(doing, activity)
    PROVE  /\ doing'[now + 1] = activity
           /\ \A t \in 0..(now - 1) : doing'[t + 1] = doing[t + 1]
<1>1. doing \in Seq(Activity \cup {None}) /\ Len(doing) = now /\ now \in Nat
  BY MadeTyped DEF TypeOK
<1>2. \A t \in 0..(now - 1) : t + 1 \in 1..Len(doing)
  BY <1>1
<1> QED
  BY <1>1, <1>2

LEMMA ObserveStory == ASSUME IInv, Story, NEW activity \in Activity, Observe(activity)
                      PROVE  Story'
<1>1. TypeOK
  BY DEF IInv
<1>2. /\ Made \in SUBSET Event /\ \A e \in Made : e.time \in Nat
      /\ now \in Nat /\ Len(pending) \in Nat
  BY <1>1, MadeTyped
<1>3. now' = now + 1 /\ stored' = stored /\ doing' = Append(doing, activity)
  BY DEF Observe
<1>4. activity # None
  BY UsageAssumption
<1> PICK n : n = now
  OBVIOUS
<1>5. /\ n \in Nat /\ doing'[n + 1] = activity
      /\ \A t \in 0..(n - 1) : doing'[t + 1] = doing[t + 1]
  BY <1>1, <1>2, <1>3, PassedStays
<1>6. \A e \in Made : e.time < now /\ Says(e, doing[e.time + 1])
  BY DEF Story, Truthful, Observed
<1>7. \A t \in 0..(n - 1) : doing[t + 1] # None => \E e \in Made : Covers(e, t)
  BY DEF Story, Covered, Observed
<1>8. CASE shouldEmit(activity)
  <2> PICK new : new = EventOf(activity)
    OBVIOUS
  <2>1. pending' = Append(pending, new) /\ last' = activity /\ lastSentAt' = n
    BY <1>8 DEF Observe
  <2>2. new.time = n /\ new.state = activity.state /\ new.process = activity.process
    BY DEF EventOf
  <2>3. /\ Len(pending') = Len(pending) + 1
        /\ \A i \in 1..Len(pending) : pending'[i] = pending[i]
        /\ pending'[Len(pending) + 1] = new
    BY <1>1, <2>1 DEF TypeOK
  <2>4. Made' = Made \cup {new}
    BY <1>2, <1>3, <2>3 DEF Made
  <2>5. PastFirst'
    <3>1. \A e \in stored : e \in Made
      BY DEF Made
    <3>2. \A i \in 1..Len(pending) : pending[i] \in Made
      BY DEF Made
    <3>3. \A i \in 1..Len(pending') : i \in 1..Len(pending) \/ i = Len(pending) + 1
      BY <1>2, <2>3
    <3>4. \A e \in stored : \A i \in 1..Len(pending') : e.time < pending'[i].time
      BY <1>2, <1>6, <2>2, <2>3, <3>1, <3>3 DEF Story, PastFirst
    <3>5. ASSUME NEW i \in 1..Len(pending'), NEW j \in 1..Len(pending'), i < j
          PROVE  pending'[i].time < pending'[j].time
      <4>1. i \in 1..Len(pending)
        BY <1>2, <2>3, <3>5
      <4>2. CASE j \in 1..Len(pending)
        BY <2>3, <3>5, <4>1, <4>2 DEF Story, PastFirst
      <4>3. CASE j = Len(pending) + 1
        BY <1>6, <2>2, <2>3, <3>2, <4>1, <4>3
      <4> QED
        BY <3>3, <4>2, <4>3
    <3> QED
      BY <1>3, <3>4, <3>5 DEF Story, PastFirst
  <2>6. Truthful'
    <3>1. ASSUME NEW e \in Made
          PROVE  e.time < now' /\ Says(e, doing'[e.time + 1])
      <4>1. e.time \in 0..(n - 1)
        BY <1>2, <1>6
      <4>2. doing'[e.time + 1] = doing[e.time + 1]
        BY <1>5, <4>1
      <4> QED
        BY <1>2, <1>3, <1>6, <4>2 DEF Says
    <3>2. new.time < now' /\ Says(new, doing'[new.time + 1])
      <4>1. doing'[new.time + 1] = activity
        BY <1>5, <2>2
      <4>2. new.time < now'
        BY <1>2, <1>3, <2>2
      <4> QED
        BY <1>4, <2>2, <4>1, <4>2 DEF Says
    <3> QED
      BY <2>4, <3>1, <3>2 DEF Truthful, Observed, Says
  <2>7. ASSUME NEW t \in 0..(n - 1), doing'[t + 1] # None
        PROVE  \E e \in Made' : Covers(e, t)'
    <3>1. PICK e \in Made : Covers(e, t)
      BY <1>5, <1>7, <2>7
    <3>2. \A u \in e.time..t : doing'[u + 1] = doing'[t + 1]
      <4>1. \A u \in e.time..t : u \in 0..(n - 1)
        BY <1>2
      <4> QED
        BY <1>5, <3>1, <4>1 DEF Covers, Observed
    <3>3. \A f \in Made' : f.time <= e.time \/ t < f.time
      BY <1>2, <1>5, <2>2, <2>4, <3>1 DEF Covers
    <3> QED
      BY <2>4, <3>1, <3>2, <3>3 DEF Covers, Observed
  <2>8. Covers(new, n)'
    <3>1. \A u \in new.time..n : doing'[u + 1] = doing'[n + 1]
      BY <1>5, <2>2
    <3>2. \A f \in Made' : f.time <= new.time \/ n < f.time
      BY <1>2, <1>5, <1>6, <2>2, <2>4
    <3> QED
      BY <1>5, <2>2, <3>1, <3>2 DEF Covers, Observed
  <2>9. Covered'
    <3>1. \A t \in 0..(now' - 1) : t \in 0..(n - 1) \/ t = n
      BY <1>3, <1>5
    <3> QED
      BY <2>4, <2>7, <2>8, <3>1 DEF Covered, Observed
  <2>10. LastSent'
    <3>1. now' > 0 /\ now' - 1 = n
      BY <1>3, <1>5
    <3> QED
      BY <1>5, <2>1, <2>2, <2>4, <2>8, <3>1 DEF LastSent, Observed
  <2> QED
    BY <2>5, <2>6, <2>9, <2>10 DEF Story
<1>9. CASE ~ shouldEmit(activity)
  <2>1. pending' = pending /\ last' = last /\ lastSentAt' = lastSentAt /\ Made' = Made
    BY <1>3, <1>9 DEF Observe, Made
  <2>2. last = activity /\ now < lastSentAt + Heartbeat /\ lastSentAt \in Nat
    BY <1>1, <1>9, <1>2, UsageAssumption DEF shouldEmit, TypeOK
  <2>3. PICK e \in Made : e.time = lastSentAt /\ Covers(e, n - 1)
    BY <1>4, <2>2 DEF Story, LastSent
  <2>4. n > 0 /\ doing[n - 1 + 1] = activity
    BY <1>4, <2>2 DEF Story, LastSent, Observed
  <2>5. PastFirst'
    BY <1>3, <2>1 DEF Story, PastFirst
  <2>6. Truthful'
    <3>1. ASSUME NEW f \in Made
          PROVE  f.time < now' /\ Says(f, doing'[f.time + 1])
      <4>1. f.time \in 0..(n - 1)
        BY <1>2, <1>6
      <4>2. doing'[f.time + 1] = doing[f.time + 1]
        BY <1>5, <4>1
      <4> QED
        BY <1>2, <1>3, <1>6, <4>2 DEF Says
    <3> QED
      BY <2>1, <3>1 DEF Truthful, Observed, Says
  <2>7. ASSUME NEW t \in 0..(n - 1), doing'[t + 1] # None
        PROVE  \E f \in Made' : Covers(f, t)'
    <3>1. PICK f \in Made : Covers(f, t)
      BY <1>5, <1>7, <2>7
    <3>2. \A u \in f.time..t : doing'[u + 1] = doing'[t + 1]
      <4>1. \A u \in f.time..t : u \in 0..(n - 1)
        BY <1>2
      <4> QED
        BY <1>5, <3>1, <4>1 DEF Covers, Observed
    <3> QED
      BY <2>1, <3>1, <3>2 DEF Covers, Observed
  <2>8. Covers(e, n)'
    <3>1. \A u \in e.time..n : doing'[u + 1] = activity
      <4>1. \A u \in e.time..n : u = n \/ (u \in 0..(n - 1) /\ u \in e.time..(n - 1))
        BY <1>2, <1>5
      <4>2. \A u \in e.time..(n - 1) : doing[u + 1] = activity
        BY <2>3, <2>4 DEF Covers, Observed
      <4> QED
        BY <1>5, <4>1, <4>2
    <3>2. \A f \in Made : f.time <= e.time \/ n < f.time
      <4>1. \A f \in Made : f.time <= e.time \/ n - 1 < f.time
        BY <2>3 DEF Covers
      <4> QED
        BY <1>2, <1>5, <1>6, <4>1
    <3>3. e.time <= n /\ n < e.time + Heartbeat
      BY <1>2, <1>6, <2>2, <2>3
    <3> QED
      BY <1>5, <2>1, <3>1, <3>2, <3>3 DEF Covers, Observed
  <2>9. Covered'
    <3>1. \A t \in 0..(now' - 1) : t \in 0..(n - 1) \/ t = n
      BY <1>3, <1>5
    <3> QED
      BY <2>1, <2>7, <2>8, <3>1 DEF Covered, Observed
  <2>10. LastSent'
    <3>1. now' > 0 /\ now' - 1 = n
      BY <1>3, <1>5
    <3> QED
      BY <1>5, <2>1, <2>2, <2>3, <2>8, <3>1 DEF LastSent, Observed
  <2> QED
    BY <2>5, <2>6, <2>9, <2>10 DEF Story
<1> QED
  BY <1>8, <1>9

LEMMA UnobservedStory == ASSUME IInv, Story, Unobserved
                         PROVE  Story'
<1>1. TypeOK
  BY DEF IInv
<1>2. /\ Made \in SUBSET Event /\ \A e \in Made : e.time \in Nat
      /\ now \in Nat /\ Len(pending) \in Nat
  BY <1>1, MadeTyped
<1>3. /\ now' = now + 1 /\ stored' = stored /\ pending' = pending /\ Made' = Made
      /\ doing' = Append(doing, None) /\ last' = None
  BY DEF Unobserved, Made
<1> PICK n : n = now
  OBVIOUS
<1>4. /\ n \in Nat /\ doing'[n + 1] = None
      /\ \A t \in 0..(n - 1) : doing'[t + 1] = doing[t + 1]
  BY <1>1, <1>2, <1>3, PassedStays
<1>5. PastFirst'
  BY <1>3 DEF Story, PastFirst
<1>6. Truthful'
  <2>1. ASSUME NEW e \in Made
        PROVE  e.time < now' /\ Says(e, doing'[e.time + 1])
    <3>1. e.time < n /\ Says(e, doing[e.time + 1])
      BY DEF Story, Truthful, Observed
    <3>2. e.time \in 0..(n - 1)
      BY <1>2, <1>4, <3>1
    <3>3. doing'[e.time + 1] = doing[e.time + 1]
      BY <1>4, <3>2
    <3> QED
      BY <1>2, <1>3, <1>4, <3>1, <3>3 DEF Says
  <2> QED
    BY <1>3, <2>1 DEF Truthful, Observed, Says
<1>7. ASSUME NEW t \in 0..(n - 1), doing'[t + 1] # None
      PROVE  \E e \in Made' : Covers(e, t)'
  <2>1. PICK e \in Made : Covers(e, t)
    BY <1>4, <1>7 DEF Story, Covered, Observed
  <2>2. \A u \in e.time..t : doing'[u + 1] = doing'[t + 1]
    <3>1. \A u \in e.time..t : u \in 0..(n - 1)
      BY <1>2
    <3> QED
      BY <1>4, <2>1, <3>1 DEF Covers, Observed
  <2> QED
    BY <1>3, <2>1, <2>2 DEF Covers, Observed
<1>8. Covered'
  <2>1. \A t \in 0..(now' - 1) : t \in 0..(n - 1) \/ t = n
    BY <1>3, <1>4
  <2> QED
    BY <1>4, <1>7, <2>1 DEF Covered, Observed
<1>9. LastSent'
  BY <1>3 DEF LastSent
<1> QED
  BY <1>5, <1>6, <1>8, <1>9 DEF Story

LEMMA ArriveMade == ASSUME TypeOK, Arrive
                    PROVE  /\ Made' = Made /\ pending # <<>> /\ stored' = stored \cup {pending[1]}
                           /\ pending' = Tail(pending) /\ Len(pending') = Len(pending) - 1
                           /\ \A i \in 1..Len(pending') : pending'[i] = pending[i + 1]
<1>1. pending \in Seq(Event) /\ pending # <<>> /\ Head(pending) = pending[1]
  BY DEF TypeOK, Arrive
<1>2. /\ stored' = stored \cup {pending[1]} /\ pending' = Tail(pending)
      /\ Len(pending') = Len(pending) - 1
      /\ \A i \in 1..Len(pending') : pending'[i] = pending[i + 1]
  BY <1>1 DEF Arrive
<1>3. Len(pending) \in Nat /\ Len(pending) > 0
  BY <1>1
<1>4. ASSUME NEW i \in 1..Len(pending), i # 1
      PROVE  i - 1 \in 1..Len(pending') /\ pending'[i - 1] = pending[i]
  BY <1>2, <1>3, <1>4
<1>5. Made' \subseteq Made
  BY <1>2, <1>3 DEF Made
<1>6. Made \subseteq Made'
  BY <1>2, <1>4 DEF Made
<1> QED
  BY <1>1, <1>2, <1>5, <1>6

LEMMA ArriveStory == ASSUME IInv, Story, Arrive
                     PROVE  Story'
<1>1. TypeOK
  BY DEF IInv
<1>2. /\ Made' = Made /\ pending # <<>> /\ stored' = stored \cup {pending[1]}
      /\ Len(pending') = Len(pending) - 1
      /\ \A i \in 1..Len(pending') : pending'[i] = pending[i + 1]
  BY <1>1, ArriveMade
<1>3. now' = now /\ doing' = doing /\ last' = last /\ lastSentAt' = lastSentAt
  BY DEF Arrive
<1>4. Len(pending) \in Nat /\ 1 \in 1..Len(pending)
  BY <1>1, <1>2 DEF TypeOK
<1>5. \A i \in 1..Len(pending') : i + 1 \in 1..Len(pending) /\ 1 < i + 1
  BY <1>2, <1>4
<1>6. \A e \in stored \cup {pending[1]} : e.time \in Nat
  BY <1>1, <1>4, MadeTyped DEF Made
<1>7. PastFirst'
  <2>1. \A e, f \in stored \cup {pending[1]} : e.time = f.time => e = f
    BY <1>4, <1>6 DEF Story, PastFirst
  <2>2. \A e \in stored \cup {pending[1]} : \A i \in 1..Len(pending') : e.time < pending[i + 1].time
    BY <1>4, <1>5 DEF Story, PastFirst
  <2>3. ASSUME NEW i \in 1..Len(pending'), NEW j \in 1..Len(pending'), i < j
        PROVE  pending'[i].time < pending'[j].time
    <3>1. i + 1 < j + 1
      BY <2>3
    <3> QED
      BY <1>2, <1>5, <3>1 DEF Story, PastFirst
  <2> QED
    BY <1>2, <2>1, <2>2, <2>3 DEF PastFirst
<1>8. Truthful' /\ Covered' /\ LastSent'
  BY <1>2, <1>3 DEF Story, Truthful, Covered, LastSent, Covers, Says, Observed
<1> QED
  BY <1>7, <1>8 DEF Story

LEMMA NextStory == IInv /\ Story /\ [Next]_vars => Story'
<1> SUFFICES ASSUME IInv, Story, [Next]_vars PROVE Story'
  OBVIOUS
<1>1. CASE UNCHANGED vars
  BY <1>1 DEF vars, Story, PastFirst, Truthful, Covered, LastSent, Covers, Says, Observed, Made
<1> QED
  BY <1>1, ObserveStory, UnobservedStory, ArriveStory DEF Next

\* The events the server has and those on their way tell of every tick of which the agent
\* knew (shouldEmit, eventFromSnapshot), one event for each moment at most.
THEOREM StoryAlways == Spec => []Story
  BY InvAlways, InitStory, NextStory, PTL DEF Spec

\* Whatever the device does and whenever its events arrive, the agent's and the server's records
\* stay well-formed (shouldEmit, eventFromSnapshot and the events table).
THEOREM TypeCorrect == Spec => []TypeOK
<1>1. IInv => TypeOK
  BY DEF IInv
<1> QED
  BY <1>1, InvAlways, PTL

\* No report counts a tick twice: CalculateUsage adds up disjoint segments of the stored events.
CountedOnce == \A e, f \in stored, start, until \in Nat :
    e # f => Counted(stored, e, start, until) \cap Counted(stored, f, start, until) = {}

THEOREM NothingCountedTwice == Spec => []CountedOnce
<1>1. IInv => CountedOnce
  BY NoTickTwice DEF IInv, TypeOK, Numbered, CountedOnce
<1> QED
  BY <1>1, InvAlways, PTL

\* A day's report counts what is stored of the events before its end.
LEMMA LaterEventsLeaveReport ==
    ASSUME NEW events, NEW e \in Event, NEW start \in Nat, NEW end \in Nat,
           start <= end, e.time >= end
    PROVE  ReportEvents(events \cup {e}, start, end) = ReportEvents(events, start, end)
<1>1. e.time \in Nat
  BY DEF Event
<1>2. {f \in events \cup {e} : f.time < start} = {f \in events : f.time < start}
  BY <1>1
<1>3. {f \in events \cup {e} : f.time \in start..(end - 1)} = {f \in events : f.time \in start..(end - 1)}
  BY <1>1
<1> QED
  BY <1>2, <1>3 DEF ReportEvents

LEMMA DayIsSpan == ASSUME IInv, NEW span \in Days
                   PROVE  span.start \in Nat /\ span.end \in Nat /\ span.start <= span.end
  BY ReportAssumption, UsageAssumption DEF Days, Span, IInv, TypeOK

\* The report of a day whose events have all arrived stays as it is: CalculateUsage is not
\* moved by the time it is asked at, nor ReportEvents by what arrives later.
THEOREM PastStaysFinal == Spec => PastIsFinal
<1> DEFINE Stays == \A span \in Days : span.end <= Known => DayReport(span)' = DayReport(span)
<1>1. IInv /\ [Next]_vars => [Stays]_vars
  <2> SUFFICES ASSUME IInv, Next, NEW span \in Days, span.end <= Known
               PROVE  DayReport(span)' = DayReport(span)
    OBVIOUS
  <2>1. span.start \in Nat /\ span.end \in Nat /\ span.start <= span.end
    BY DayIsSpan
  <2>2. now \in Nat /\ Known <= now
    <3>1. now \in Nat
      BY UsageAssumption DEF IInv, TypeOK
    <3>2. CASE pending = <<>>
      BY <3>1, <3>2 DEF Known
    <3>3. CASE pending # <<>>
      <4>1. Head(pending) = pending[1] /\ 1 \in 1..Len(pending)
        BY <3>3 DEF IInv, TypeOK
      <4> QED
        BY <3>1, <3>3, <4>1 DEF Known, IInv, OfThePast
    <3> QED
      BY <3>1, <3>2, <3>3
  <2>3. Known \in Nat
    <3>1. pending # <<>> => Head(pending) \in Event
      BY DEF IInv, TypeOK
    <3> QED
      BY <2>2, <3>1 DEF Known, Event
  <2>4. now' \in Nat /\ now <= now'
    BY <2>2 DEF Next, Observe, Unobserved, Arrive
  <2>5. Earlier(now, span.end) = span.end /\ Earlier(now', span.end) = span.end
    BY <2>1, <2>2, <2>3, <2>4 DEF Earlier
  <2>6. ReportEvents(stored', span.start, span.end) = ReportEvents(stored, span.start, span.end)
    <3>1. CASE stored' = stored
      BY <3>1
    <3>2. CASE Arrive
      <4>1. stored' = stored \cup {Head(pending)} /\ Head(pending).time = Known /\ Head(pending) \in Event
        BY <3>2 DEF Arrive, Known, IInv, TypeOK
      <4> QED
        BY <2>1, <4>1, LaterEventsLeaveReport
    <3> QED
      BY <3>1, <3>2 DEF Next, Observe, Unobserved
  <2> QED
    BY <2>5, <2>6 DEF DayReport, CalculateUsage
<1> QED
  BY <1>1, InvAlways, PTL DEF Spec, PastIsFinal, Stays

-----------------------------------------------------------------------------
(* The history of locks.                                                   *)

\* Events of which no two are of one moment.
Distinct(events) == \A e, f \in events : e.time = f.time => e = f

LEMMA OrderIsTime ==
    ASSUME NEW events \in SUBSET Event, Distinct(events), NEW e \in events, NEW f \in events
    PROVE  Precedes(e, f) <=> e.time < f.time
  BY DEF Distinct, Precedes, Event

LEMMA LastIsLatest ==
    ASSUME NEW events \in SUBSET Event, Distinct(events), NEW x \in events,
           \A y \in events : y.time <= x.time
    PROVE  LastOf(events) = {x}
<1>1. \A e \in events : Followers(events, e) = {f \in events : e.time < f.time}
  BY OrderIsTime DEF Followers
<1>2. \A e \in events : e.time \in Nat
  BY DEF Event
<1> QED
  BY <1>1, <1>2 DEF LastOf, Distinct

LEMMA LatestExists ==
    ASSUME NEW events \in SUBSET Event, NEW n \in Nat, \A e \in events : e.time <= n,
           events # {}
    PROVE  \E x \in events : \A y \in events : y.time <= x.time
<1> DEFINE times == {e.time : e \in events}
<1>1. times \in SUBSET Nat /\ times # {} /\ \A t \in times : t <= n
  BY DEF Event
<1>2. \A e \in events : e.time \in times
  OBVIOUS
<1>3. PICK t \in times : \A u \in times : u <= t
  <2> HIDE DEF times
  <2> QED
    BY <1>1, GreatestNat
<1> QED
  BY <1>2, <1>3

\* Whether a device is locked is what the last transition up to then says, and no if there
\* is none (LockTransitions without its limit).
THEOREM LastTransitionTells ==
    ASSUME NEW events \in SUBSET Event, Distinct(events), NEW e \in events
    PROVE  LET before == {f \in events : IsTransition(events, f) /\ f.time <= e.time}
           IN  e.state = "locked" <=> \E f \in LastOf(before) : f.state = "locked"
<1> DEFINE before == {f \in events : IsTransition(events, f) /\ f.time <= e.time}
           L == \E f \in LastOf(before) : f.state = "locked"
           Since(f) == f.time <= e.time /\ \A g \in before : g.time <= f.time
           Odd == {f \in events : Since(f) /\ ~ (f.state = "locked" <=> L)}
<1>1. \A f \in events : f.time \in Nat
  BY DEF Event
<1>2. before \in SUBSET Event /\ before \subseteq events /\ Distinct(before)
      /\ \A f \in before : f.time <= e.time
  BY DEF Distinct
<1>3. Since(e)
  BY <1>1, <1>2
<1>4. ASSUME NEW f \in before, \A g \in before : g.time <= f.time
      PROVE  L <=> f.state = "locked"
  <2>1. LastOf(before) = {f}
    <3> HIDE DEF before
    <3> QED
      BY <1>2, <1>4, LastIsLatest
  <2> QED
    BY <2>1
<1>5. before = {} => ~ L
  BY DEF LastOf
<1> SUFFICES ASSUME Odd # {}
             PROVE  FALSE
  BY <1>3
<1>6. PICK f \in Odd : \A g \in Odd : f.time <= g.time
  <2> DEFINE times == {g.time : g \in Odd}
  <2>1. times \in SUBSET Nat /\ times # {}
    BY <1>1
  <2>2. \A g \in Odd : g.time \in times
    OBVIOUS
  <2>3. PICK t \in times : \A u \in times : t <= u
    <3> HIDE DEF times
    <3> QED
      BY <2>1, LeastNat
  <2> QED
    BY <2>2, <2>3
<1>7. f \in events /\ Since(f) /\ ~ (f.state = "locked" <=> L)
  OBVIOUS
<1> HIDE DEF Odd, L
<1>8. ~ IsTransition(events, f)
  <2> SUFFICES ASSUME f \in before
               PROVE  FALSE
    BY <1>7
  <2> QED
    BY <1>4, <1>7
<1> DEFINE earlier == {g \in events : Precedes(g, f)}
<1>9. CASE LastOf(earlier) = {}
  <2>1. earlier = {}
    <3>1. earlier \in SUBSET Event /\ Distinct(earlier)
      BY DEF Distinct
    <3>2. \A g \in earlier : g.time <= f.time
      BY <1>1, <1>7, OrderIsTime
    <3>3. f.time \in Nat
      BY <1>1, <1>7
    <3> HIDE DEF earlier
    <3>4. earlier # {} => \E x \in earlier : \A y \in earlier : y.time <= x.time
      BY <3>1, <3>2, <3>3, LatestExists
    <3>5. earlier # {} => \E x \in earlier : LastOf(earlier) = {x}
      BY <3>1, <3>4, LastIsLatest
    <3> QED
      BY <1>9, <3>5
  <2>2. f.state # "locked"
    BY <1>8, <1>9 DEF IsTransition
  <2>3. before = {}
    <3> SUFFICES ASSUME NEW g \in before
                 PROVE  FALSE
      OBVIOUS
    <3>1. g \in events /\ g.time <= f.time /\ g # f
      BY <1>7, <1>8
    <3>2. g.time < f.time
      BY <1>1, <1>7, <3>1 DEF Distinct
    <3>3. g \in earlier
      BY <1>7, <3>1, <3>2, OrderIsTime
    <3> QED
      BY <2>1, <3>3
  <2> QED
    BY <1>5, <1>7, <2>2, <2>3
<1>10. CASE LastOf(earlier) # {}
  <2>1. PICK g \in LastOf(earlier) : TRUE
    BY <1>10
  <2>2. g \in events /\ g.time < f.time /\ \A h \in earlier : ~ Precedes(g, h)
    BY <1>7, <2>1, OrderIsTime DEF LastOf, Followers
  <2>3. g.state = "locked" <=> f.state = "locked"
    <3>1. ~ \E h \in LastOf(earlier) : (h.state = "locked") # (f.state = "locked")
      BY <1>8, <1>10 DEF IsTransition
    <3> QED
      BY <2>1, <3>1
  <2>4. Since(g)
    <3>1. ASSUME NEW h \in before
          PROVE  h.time <= g.time
      <4>1. h \in events /\ h.time <= f.time /\ h # f
        BY <1>7, <1>8, <3>1
      <4>2. h.time < f.time
        BY <1>1, <1>7, <4>1 DEF Distinct
      <4>3. h \in earlier
        BY <1>7, <4>1, <4>2, OrderIsTime
      <4>4. ~ (g.time < h.time)
        BY <2>2, <4>1, <4>3, OrderIsTime
      <4> QED
        BY <1>1, <2>2, <4>1, <4>4
    <3> QED
      BY <1>1, <1>7, <2>2, <3>1
  <2>5. g \in Odd
    BY <1>7, <2>2, <2>3, <2>4 DEF Odd
  <2> QED
    BY <1>1, <1>6, <1>7, <2>2, <2>5
<1> QED
  BY <1>9, <1>10

\* The history is the end of the list of transitions, and all of it when it is not full.
LEMMA HistoryIsEnd ==
    ASSUME NEW events \in SUBSET Event, Distinct(events), IsFiniteSet(events),
           NEW n \in Nat, \A e \in events : e.time <= n
    PROVE  LET all == {e \in events : IsTransition(events, e)}
               history == LockTransitions(events)
           IN  /\ history \subseteq all
               /\ \A e \in history, f \in all : e.time <= f.time => f \in history
               /\ Cardinality(history) < HistoryLimit => history = all
<1> DEFINE all == {e \in events : IsTransition(events, e)}
           history == LockTransitions(events)
<1>1. history = {e \in all : Cardinality(Followers(all, e)) < HistoryLimit}
  BY DEF LockTransitions
<1>2. all \in SUBSET Event /\ all \subseteq events /\ Distinct(all) /\ IsFiniteSet(all)
  BY FS_Subset DEF Distinct
<1> HIDE DEF all, history
<1>3. \A e \in all : e.time \in Nat /\ e.time <= n
  BY <1>2 DEF Event
<1>4. \A e, f \in all : f \in Followers(all, e) <=> e.time < f.time
  BY <1>2, OrderIsTime DEF Followers
<1>5. \A e \in all : Followers(all, e) \subseteq all
  BY DEF Followers
<1>6. \A e \in all : /\ IsFiniteSet(Followers(all, e))
                     /\ Cardinality(Followers(all, e)) \in Nat
  BY <1>2, <1>5, FS_Subset, FS_CardinalityType
<1>7. HistoryLimit \in Nat
  BY ReportAssumption
<1>8. ASSUME NEW e \in history, NEW f \in all, e.time <= f.time
      PROVE  f \in history
  <2>1. e \in all
    BY <1>1
  <2>2. Followers(all, f) \subseteq Followers(all, e)
    BY <1>3, <1>4, <1>5, <1>8, <2>1
  <2>3. Cardinality(Followers(all, f)) <= Cardinality(Followers(all, e))
    BY <1>6, <2>1, <2>2, FS_Subset
  <2>4. Cardinality(Followers(all, e)) < HistoryLimit
    BY <1>1
  <2>5. Cardinality(Followers(all, f)) < HistoryLimit
    BY <1>6, <1>7, <2>1, <2>3, <2>4
  <2> QED
    BY <1>1, <2>5
<1>9. ASSUME Cardinality(history) < HistoryLimit, all \ history # {}
      PROVE  FALSE
  <2> DEFINE rest == all \ history
  <2>1. rest \in SUBSET Event /\ \A e \in rest : e.time <= n
    BY <1>2, <1>3
  <2>2. PICK x \in rest : \A y \in rest : y.time <= x.time
    <3> HIDE DEF rest
    <3> QED
      BY <1>9, <2>1, LatestExists DEF rest
  <2>3. x \in all /\ x \notin history
    BY <2>2
  <2>4. Followers(all, x) \subseteq history
    BY <1>3, <1>4, <1>5, <2>2, <2>3
  <2>5. IsFiniteSet(history) /\ Cardinality(history) \in Nat
    BY <1>1, <1>2, FS_Subset, FS_CardinalityType
  <2>6. Cardinality(Followers(all, x)) <= Cardinality(history)
    BY <2>4, <2>5, FS_Subset
  <2>7. Cardinality(Followers(all, x)) < HistoryLimit
    BY <1>6, <1>7, <1>9, <2>3, <2>5, <2>6
  <2> QED
    BY <1>1, <2>3, <2>7
<1>10. history \subseteq all
  BY <1>1
<1> QED
  BY <1>8, <1>9, <1>10 DEF all, history

\* What the server has of the events is what happened before Known.
LEMMA KnownIsStored ==
    ASSUME TypeOK, Story
    PROVE  /\ stored \in SUBSET Event /\ stored \subseteq Made /\ Distinct(stored)
           /\ Known \in Nat /\ Known <= now
           /\ \A e \in Made : e.time < Known => e \in stored
           /\ pending # <<>> => \A e \in stored : e.time < Known
<1>1. /\ \A e \in Made : e.time \in Nat
      /\ now \in Nat /\ Len(pending) \in Nat
  BY MadeTyped
<1>2. stored \in SUBSET Event /\ stored \subseteq Made /\ Distinct(stored)
  BY DEF Made, TypeOK, Story, PastFirst, Distinct
<1>3. CASE pending = <<>>
  <2>1. Made = stored /\ Known = now
    BY <1>3 DEF Made, Known
  <2> QED
    BY <1>1, <1>2, <1>3, <2>1
<1>4. CASE pending # <<>>
  <2>1. pending \in Seq(Event) /\ Known = pending[1].time /\ 1 \in 1..Len(pending)
    BY <1>4 DEF Known, TypeOK
  <2>2. pending[1] \in Made
    BY <2>1 DEF Made
  <2>3. Known \in Nat /\ Known < now
    BY <1>1, <2>1, <2>2 DEF Story, Truthful
  <2>4. \A e \in stored : e.time < Known
    BY <2>1 DEF Story, PastFirst
  <2>5. ASSUME NEW i \in 1..Len(pending)
        PROVE  ~ (pending[i].time < Known)
    <3>1. i = 1 \/ 1 < i
      BY <1>1
    <3>2. pending[i].time \in Nat
      BY <1>1 DEF Made
    <3> QED
      BY <2>1, <2>3, <3>1, <3>2 DEF Story, PastFirst
  <2> QED
    BY <1>1, <1>2, <2>3, <2>4, <2>5 DEF Made
<1> QED
  BY <1>3, <1>4

\* Every tick before Known of which the agent knew is told by an event at the server.
LEMMA KnownIsTold ==
    ASSUME TypeOK, Story, NEW t \in 0..(now - 1), t < Known, Observed(t) # None
    PROVE  \E e \in stored : Covers(e, t) /\ Says(e, Observed(t))
<1>1. PICK e \in Made : Covers(e, t)
  BY DEF Story, Covered
<1>2. e.time <= t /\ e.time \in Nat /\ now \in Nat /\ Known \in Nat
  BY <1>1, MadeTyped, KnownIsStored DEF Covers
<1>3. e \in stored
  BY <1>2, KnownIsStored
<1>4. Observed(e.time) = Observed(t)
  BY <1>1, <1>2 DEF Covers
<1>5. Says(e, Observed(e.time))
  BY DEF Story, Truthful
<1> QED
  BY <1>1, <1>3, <1>4, <1>5

\* The page of locks tells when the device was locked, as far back as it reaches
\* (LockTransitions), whatever the device did and whenever its events arrived.
THEOREM LocksAreShown == Spec => []HistoryShowsLocks
<1>1. IInv /\ Story => HistoryShowsLocks
  <2> SUFFICES ASSUME IInv, Story,
                      NEW t \in 0..(now - 1), t < Known, Observed(t) # None
               PROVE  LET history == LockTransitions(stored)
                          upTo == {e \in history : e.time <= t}
                      IN  Cardinality(history) < HistoryLimit \/ upTo # {}
                          => (Observed(t).state = "locked"
                              <=> \E e \in LastOf(upTo) : e.state = "locked")
    BY DEF HistoryShowsLocks
  <2> DEFINE all == {e \in stored : IsTransition(stored, e)}
             history == LockTransitions(stored)
             upTo == {e \in history : e.time <= t}
             before == {e \in all : e.time <= t}
  <2>1. TypeOK /\ IsFiniteSet(stored) /\ stored \in SUBSET Event
    BY DEF IInv, Numbered, TypeOK
  <2>2. Distinct(stored) /\ now \in Nat /\ \A e \in stored : e \in Made /\ e.time \in Nat
    BY <2>1, MadeTyped, KnownIsStored
  <2>3. \A e \in stored : e.time <= now
    BY <2>2 DEF Story, Truthful
  <2>4. /\ history \subseteq all
        /\ \A e \in history, f \in all : e.time <= f.time => f \in history
        /\ Cardinality(history) < HistoryLimit => history = all
    BY <2>1, <2>2, <2>3, HistoryIsEnd
  <2>5. PICK e \in stored : Covers(e, t) /\ Says(e, Observed(t))
    BY <2>1, KnownIsTold
  <2>6. {f \in stored : IsTransition(stored, f) /\ f.time <= e.time} = before
    <3>1. \A f \in stored : f.time <= e.time <=> f.time <= t
      BY <2>2, <2>5 DEF Covers
    <3> QED
      BY <3>1
  <2>7. Observed(t).state = "locked" <=> \E f \in LastOf(before) : f.state = "locked"
    <3>1. e.state = "locked" <=> \E f \in LastOf(before) : f.state = "locked"
      BY <2>1, <2>2, <2>6, LastTransitionTells
    <3> QED
      BY <2>5, <3>1 DEF Says
  <2> HIDE DEF history
  <2>8. CASE Cardinality(history) < HistoryLimit
    <3>1. upTo = before
      BY <2>4, <2>8
    <3> QED
      BY <2>7, <3>1 DEF history
  <2>9. CASE upTo # {}
    <3>1. PICK y \in upTo : TRUE
      BY <2>9
    <3>2. y \in before /\ before \in SUBSET Event /\ Distinct(before)
      BY <2>1, <2>2, <2>4 DEF Distinct
    <3>3. \A f \in before : f.time <= now
      BY <2>3
    <3>4. PICK x \in before : \A f \in before : f.time <= x.time
      <4> HIDE DEF before
      <4> QED
        BY <2>2, <3>2, <3>3, LatestExists
    <3>5. x \in upTo
      BY <2>4, <3>1, <3>2, <3>4
    <3>6. upTo \subseteq before
      BY <2>4
    <3>7. upTo \in SUBSET Event /\ Distinct(upTo) /\ \A f \in upTo : f.time <= x.time
      BY <3>2, <3>4, <3>6 DEF Distinct
    <3> HIDE DEF upTo, before
    <3>8. LastOf(upTo) = {x} /\ LastOf(before) = {x}
      BY <3>2, <3>4, <3>5, <3>7, LastIsLatest
    <3>9. Observed(t).state = "locked" <=> \E f \in LastOf(upTo) : f.state = "locked"
      BY <2>7, <3>8
    <3> QED
      BY <3>9 DEF history, upTo
  <2> QED
    BY <2>8, <2>9 DEF history
<1> QED
  BY <1>1, InvAlways, StoryAlways, PTL

-----------------------------------------------------------------------------
(* The pages.                                                              *)

LEMMA DayStartFacts ==
    ASSUME NEW t \in Nat
    PROVE  DayStart(t) \in Nat /\ DayStart(t) <= t /\ t < DayStart(t) + DayTicks
<1>1. t \div DayTicks \in Nat /\ t % DayTicks \in 0..(DayTicks - 1)
      /\ t = DayTicks * (t \div DayTicks) + (t % DayTicks)
  BY DivNat, ReportAssumption
<1>2. DayTicks * (t \div DayTicks) \in Nat
  BY <1>1, Distribute, ReportAssumption
<1> DEFINE q == DayTicks * (t \div DayTicks)
           r == t % DayTicks
<1>3. q \in Nat /\ r \in 0..(DayTicks - 1) /\ t = q + r /\ DayStart(t) = t - r
  BY <1>1, <1>2 DEF DayStart
<1> HIDE DEF q, r
<1> QED
  BY <1>3, ReportAssumption

\* The days of the week follow each other, and the last one has begun and not ended.
LEMMA WeekSpans ==
    ASSUME NEW t \in Nat
    PROVE  LET spans == dailySpans(t)
           IN  /\ DOMAIN spans = 1..DayCount /\ Len(spans) = DayCount
               /\ \A i \in 1..DayCount : /\ spans[i].start \in Int /\ spans[i].end \in Int
                                         /\ spans[i].start <= spans[i].end
                                         /\ spans[1].start <= spans[i].start
                                         /\ spans[i].end <= spans[DayCount].end
                                         /\ spans[i].start <= t
               /\ \A i \in 1..(DayCount - 1) : /\ spans[i + 1].start = spans[i].end
                                               /\ spans[i].end <= t
               /\ spans[DayCount].start = DayStart(t) /\ t < spans[DayCount].end
<1> DEFINE n == DayCount
           d == DayTicks
           s == DayStart(t)
           spans == dailySpans(t)
<1>1. /\ n \in Nat \ {0} /\ d \in Nat \ {0} /\ s \in Nat /\ s <= t /\ t < s + d
  BY DayStartFacts, ReportAssumption
<1>2. /\ DOMAIN spans = 1..n
      /\ \A i \in 1..n : spans[i].start = s - (n - i) * d /\ spans[i].end = s - (n - i) * d + d
  BY DEF dailySpans, Span
<1>3. Len(spans) = n
  BY <1>1 DEF dailySpans
<1> HIDE DEF n, d, s, spans
<1>4. ASSUME NEW i \in 1..n
      PROVE  (n - i) * d \in Nat /\ (n - i) * d <= (n - 1) * d
  <2>1. n - i \in Nat /\ i - 1 \in Nat /\ (n - i) + (i - 1) = n - 1
    BY <1>1
  <2>2. ((n - i) + (i - 1)) * d = (n - i) * d + (i - 1) * d
        /\ (n - i) * d \in Nat /\ (i - 1) * d \in Nat
    BY <1>1, <2>1, Distribute
  <2> QED
    BY <2>1, <2>2
<1>5. ASSUME NEW i \in 1..(n - 1)
      PROVE  (n - i) * d = (n - (i + 1)) * d + d
  <2>1. n - (i + 1) \in Nat /\ (n - (i + 1)) + 1 = n - i
    BY <1>1
  <2>2. ((n - (i + 1)) + 1) * d = (n - (i + 1)) * d + d
    BY <1>1, <2>1, Distribute
  <2> QED
    BY <2>1, <2>2
<1>6. (n - n) * d = 0
  BY <1>1
<1>7. 1 \in 1..n /\ n \in 1..n
  BY <1>1
<1>8. ASSUME NEW i \in 1..n
      PROVE  /\ spans[i].start \in Int /\ spans[i].end \in Int
             /\ spans[i].start <= spans[i].end
             /\ spans[1].start <= spans[i].start
             /\ spans[i].end <= spans[n].end
             /\ spans[i].start <= t
  BY <1>1, <1>2, <1>4, <1>6, <1>7
<1>9. ASSUME NEW i \in 1..(n - 1)
      PROVE  spans[i + 1].start = spans[i].end /\ spans[i].end <= t
  <2>1. i \in 1..n /\ i + 1 \in 1..n
    BY <1>1
  <2>2. /\ spans[i].end = s - (n - i) * d + d
        /\ spans[i + 1].start = s - (n - (i + 1)) * d
        /\ (n - (i + 1)) * d \in Nat /\ (n - i) * d \in Nat
    BY <1>2, <1>4, <2>1
  <2> QED
    BY <1>1, <1>5, <2>2
<1>10. spans[n].start = s /\ t < spans[n].end
  BY <1>1, <1>2, <1>6, <1>7
<1> QED
  BY <1>2, <1>3, <1>8, <1>9, <1>10 DEF n, s, spans

\* The windows of the day begin at midnight, do not shrink and end now.
LEMMA DaySpans ==
    ASSUME NEW t \in Nat
    PROVE  LET spans == intradaySpans(t)
           IN  /\ Len(spans) \in Nat \ {0} /\ DOMAIN spans = 1..Len(spans)
               /\ \A i \in 1..Len(spans) : /\ spans[i].start = DayStart(t)
                                           /\ spans[i].end \in Int /\ spans[i].end <= t
               /\ \A i, j \in 1..Len(spans) : i <= j => spans[i].end <= spans[j].end
               /\ spans[Len(spans)].end = t
<1> DEFINE s == DayStart(t)
           late == t - s - AxisStart
           bins == (t - s - AxisStart + Bin - 1) \div Bin
           spans == intradaySpans(t)
<1>1. s \in Nat /\ s <= t /\ AxisStart \in Nat /\ Bin \in Nat \ {0}
  BY DayStartFacts, ReportAssumption
<1>2. CASE t <= s + AxisStart
  <2>1. spans = <<Span(s, t)>>
    BY <1>2 DEF intradaySpans
  <2> HIDE DEF spans, s
  <2>2. Len(spans) = 1 /\ DOMAIN spans = 1..1 /\ spans[1].start = s /\ spans[1].end = t
    BY <2>1 DEF Span
  <2> QED
    BY <1>1, <2>2 DEF spans, s
<1>3. CASE ~ (t <= s + AxisStart)
  <2> DEFINE end(i) == IF i > bins THEN t ELSE s + AxisStart + (i - 1) * Bin
  <2>1. spans = [i \in 1..(bins + 1) |-> Span(s, end(i))]
    BY <1>3 DEF intradaySpans
  <2>2. late + Bin - 1 \in Nat /\ late \in Nat \ {0} /\ bins = (late + Bin - 1) \div Bin
    BY <1>1, <1>3
  <2>3. /\ bins \in Nat /\ (late + Bin - 1) % Bin \in 0..(Bin - 1)
        /\ late + Bin - 1 = Bin * bins + ((late + Bin - 1) % Bin)
    BY <1>1, <2>2, DivNat
  <2> HIDE DEF bins, spans
  <2>4. Len(spans) = bins + 1 /\ DOMAIN spans = 1..(bins + 1)
    BY <2>1, <2>3
  <2>5. \A i \in 1..(bins + 1) : spans[i].start = s /\ spans[i].end = end(i)
    BY <2>1 DEF Span
  <2>6. ASSUME NEW i \in 1..(bins + 1), NEW j \in 1..(bins + 1), i <= j, ~ (j > bins)
        PROVE  /\ (i - 1) * Bin \in Nat /\ (i - 1) * Bin <= (j - 1) * Bin
               /\ (j - 1) * Bin \in Nat /\ (j - 1) * Bin <= late
    <3>1. /\ i - 1 \in Nat /\ j - i \in Nat /\ (i - 1) + (j - i) = j - 1
          /\ j - 1 \in Nat /\ bins - j \in Nat /\ (j - 1) + (bins - j) + 1 = bins
      BY <2>3, <2>6
    <3>2. /\ (i - 1) * Bin \in Nat /\ (j - i) * Bin \in Nat
          /\ ((i - 1) + (j - i)) * Bin = (i - 1) * Bin + (j - i) * Bin
      BY <1>1, <3>1, Distribute
    <3>3. /\ (j - 1) * Bin \in Nat /\ (bins - j) * Bin \in Nat
          /\ ((j - 1) + (bins - j)) * Bin = (j - 1) * Bin + (bins - j) * Bin
      BY <1>1, <3>1, Distribute
    <3>4. (bins - 1) + 1 = bins /\ bins - 1 \in Nat /\ bins - 1 = (j - 1) + (bins - j)
      BY <2>3, <3>1
    <3>5. ((bins - 1) + 1) * Bin = (bins - 1) * Bin + Bin
      BY <1>1, <3>4, Distribute
    <3>6. bins * Bin = Bin * bins
      BY <1>1, <2>3
    <3>7. (j - 1) * Bin <= (bins - 1) * Bin /\ bins * Bin = (bins - 1) * Bin + Bin
      BY <3>3, <3>4, <3>5
    <3>8. (bins - 1) * Bin <= late
      <4> DEFINE x == (bins - 1) * Bin
                 y == Bin * bins
                 z == (late + Bin - 1) % Bin
      <4>1. /\ x \in Nat /\ y = x + Bin /\ z \in 0..(Bin - 1) /\ late + Bin - 1 = y + z
        BY <1>1, <2>3, <3>3, <3>4, <3>6, <3>7
      <4> HIDE DEF x, y, z
      <4>2. x <= late
        BY <1>1, <2>2, <4>1
      <4> QED
        BY <4>2 DEF x
    <3>9. (bins - 1) * Bin \in Nat
      BY <1>1, <3>4, Distribute
    <3> QED
      BY <2>2, <3>1, <3>2, <3>3, <3>7, <3>8, <3>9
  <2>7. ASSUME NEW i \in 1..(bins + 1)
        PROVE  end(i) \in Int /\ end(i) <= t
    <3>1. CASE i > bins
      BY <1>1, <3>1
    <3>2. CASE ~ (i > bins)
      <4>1. i <= i
        BY <2>3
      <4>2. (i - 1) * Bin \in Nat /\ (i - 1) * Bin <= late
        BY <2>6, <3>2, <4>1
      <4> DEFINE x == (i - 1) * Bin
      <4>3. end(i) = s + AxisStart + x
        BY <3>2
      <4>4. x \in Nat /\ x <= late /\ late = t - s - AxisStart
        BY <4>2
      <4> HIDE DEF x, late, end
      <4> QED
        BY <1>1, <2>2, <4>3, <4>4
    <3> QED
      BY <3>1, <3>2
  <2>8. ASSUME NEW i \in 1..(bins + 1), NEW j \in 1..(bins + 1), i <= j
        PROVE  end(i) <= end(j)
    <3>1. CASE j > bins
      BY <2>7, <3>1
    <3>2. CASE ~ (j > bins)
      <4>1. ~ (i > bins)
        BY <2>3, <2>8, <3>2
      <4>2. /\ (i - 1) * Bin \in Nat /\ (j - 1) * Bin \in Nat
            /\ (i - 1) * Bin <= (j - 1) * Bin
        BY <2>6, <2>8, <3>2
      <4>3. end(i) = s + AxisStart + (i - 1) * Bin /\ end(j) = s + AxisStart + (j - 1) * Bin
        BY <3>2, <4>1
      <4> HIDE DEF end
      <4> QED
        BY <1>1, <4>2, <4>3
    <3> QED
      BY <3>1, <3>2
  <2>9. end(bins + 1) = t /\ bins + 1 \in 1..(bins + 1)
    BY <2>3
  <2> HIDE DEF end, late, s
  <2> QED
    BY <2>3, <2>4, <2>5, <2>7, <2>8, <2>9 DEF spans, s
<1> QED
  BY <1>2, <1>3

\* Every page counts the stored events in the window it shows.
Report(start, until) == UsageUntil(stored, start, until)

LEMMA PageReport ==
    ASSUME stored \in SUBSET Event, IsFiniteSet(stored), NEW start \in Int, NEW end \in Int,
           NEW from \in Int, NEW to \in Int, start <= from, to <= end, now \in Nat
    PROVE  CalculateUsage(ReportEvents(stored, start, end), from, to, now)
           = Report(from, Earlier(now, to))
<1>1. Earlier(now, to) \in Int /\ Earlier(now, to) <= end
  BY DEF Earlier
<1> QED
  BY <1>1, FetchedReport DEF CalculateUsage, Report

LEMMA StoredFacts ==
    ASSUME IInv
    PROVE  /\ stored \in SUBSET Event /\ IsFiniteSet(stored) /\ now \in Nat
           /\ \A e, f \in stored : e.sequence = f.sequence => e = f
           /\ DayStart(now) \in Nat /\ DayStart(now) <= now
           /\ \A start, until \in Int : Report(start, until) \in [Listed -> Nat]
<1>1. /\ stored \in SUBSET Event /\ IsFiniteSet(stored) /\ now \in Nat
      /\ \A e, f \in stored : e.sequence = f.sequence => e = f
  BY UsageAssumption DEF IInv, TypeOK, Numbered
<1>2. DayStart(now) \in Nat /\ DayStart(now) <= now
  BY <1>1, DayStartFacts
<1>3. \A start, until \in Int : Report(start, until) \in [Listed -> Nat]
  BY <1>1, ReportTyped DEF Report
<1> QED
  BY <1>1, <1>2, <1>3

LEMMA DashboardReport == ASSUME IInv
                         PROVE  dashboard(stored, now) = Report(DayStart(now), now)
<1>1. Earlier(now, now) = now
  BY DEF Earlier
<1>2. now <= now
  BY StoredFacts
<1>3. CalculateUsage(ReportEvents(stored, DayStart(now), now), DayStart(now), now, now)
      = Report(DayStart(now), Earlier(now, now))
  BY <1>2, StoredFacts, PageReport
<1> QED
  BY <1>1, <1>3 DEF dashboard

\* The columns before any are dropped, and the bars, of either range.
LEMMA SpansReport ==
    ASSUME IInv, NEW range,
           LET spans == chartSpans(now, range)
           IN  /\ Len(spans) \in Nat \ {0} /\ DOMAIN spans = 1..Len(spans)
               /\ \A i \in 1..Len(spans) : /\ spans[i].start \in Int /\ spans[i].end \in Int
                                           /\ spans[1].start <= spans[i].start
                                           /\ spans[i].end <= spans[Len(spans)].end
    PROVE  LET spans == chartSpans(now, range)
               columns == SpanReports(stored, now, range)
           IN  /\ DOMAIN columns = 1..Len(spans) /\ Len(columns) = Len(spans)
               /\ \A i \in 1..Len(spans) :
                      columns[i] = Report(spans[i].start, Earlier(now, spans[i].end))
               /\ ProgramTotals(stored, now, range)
                  = Report(spans[1].start, Earlier(now, spans[Len(spans)].end))
<1> DEFINE spans == chartSpans(now, range)
           columns == SpanReports(stored, now, range)
           whole == FetchedSpan(spans)
           fetched == ReportEvents(stored, whole.start, whole.end)
<1>1. whole.start = spans[1].start /\ whole.end = spans[Len(spans)].end
  BY DEF FetchedSpan, Span
<1>2. columns = [i \in 1..Len(spans) |->
                    CalculateUsage(fetched, spans[i].start, spans[i].end, now)]
  BY DEF SpanReports
<1>3. ProgramTotals(stored, now, range) = CalculateUsage(fetched, whole.start, whole.end, now)
  BY DEF ProgramTotals
<1> HIDE DEF columns, whole, spans
<1>4. /\ Len(spans) \in Nat \ {0} /\ 1 \in 1..Len(spans) /\ Len(spans) \in 1..Len(spans)
      /\ \A i \in 1..Len(spans) : /\ spans[i].start \in Int /\ spans[i].end \in Int
                                  /\ spans[1].start <= spans[i].start
                                  /\ spans[i].end <= spans[Len(spans)].end
  BY DEF spans
<1>5. whole.start \in Int /\ whole.end \in Int
  BY <1>1, <1>4
<1>6. ASSUME NEW from \in Int, NEW to \in Int, whole.start <= from, to <= whole.end
      PROVE  CalculateUsage(fetched, from, to, now) = Report(from, Earlier(now, to))
  BY <1>5, <1>6, StoredFacts, PageReport
<1> HIDE DEF fetched
<1>7. \A i \in 1..Len(spans) : columns[i] = Report(spans[i].start, Earlier(now, spans[i].end))
  BY <1>1, <1>2, <1>4, <1>6
<1>8. ProgramTotals(stored, now, range) = Report(whole.start, Earlier(now, whole.end))
  BY <1>3, <1>5, <1>6
<1>9. Len(columns) = Len(spans) /\ DOMAIN columns = 1..Len(spans)
  BY <1>2, <1>4
<1> QED
  BY <1>1, <1>7, <1>8, <1>9 DEF spans, columns

LEMMA DayChart ==
    ASSUME IInv
    PROVE  LET day == Chart(stored, now, "day")
               spans == intradaySpans(now)
           IN  /\ Len(day) = Len(spans) /\ DOMAIN day = 1..Len(spans)
               /\ \A i \in 1..Len(spans) : day[i] = Report(DayStart(now), spans[i].end)
               /\ ProgramTotals(stored, now, "day") = Report(DayStart(now), now)
<1> DEFINE spans == intradaySpans(now)
           day == Chart(stored, now, "day")
           columns == SpanReports(stored, now, "day")
           n == Len(spans)
<1>1. chartSpans(now, "day") = spans /\ day = columns
  BY DEF chartSpans, Chart
<1>2. now \in Nat /\ DayStart(now) \in Nat
  BY StoredFacts
<1>3. /\ Len(spans) \in Nat \ {0} /\ DOMAIN spans = 1..Len(spans)
      /\ \A i \in 1..Len(spans) : /\ spans[i].start = DayStart(now)
                                  /\ spans[i].end \in Int /\ spans[i].end <= now
      /\ spans[Len(spans)].end = now
  BY <1>2, DaySpans
<1> HIDE DEF spans
<1>4. 1 \in 1..n /\ n \in 1..n
  BY <1>3
<1>5. \A i \in 1..n : /\ spans[i].start \in Int /\ spans[i].end \in Int
                       /\ spans[1].start <= spans[i].start /\ spans[i].end <= spans[n].end
  BY <1>2, <1>3, <1>4
<1>6. /\ DOMAIN columns = 1..n /\ Len(columns) = n
      /\ \A i \in 1..n : columns[i] = Report(spans[i].start, Earlier(now, spans[i].end))
      /\ ProgramTotals(stored, now, "day") = Report(spans[1].start, Earlier(now, spans[n].end))
  BY <1>1, <1>3, <1>5, SpansReport
<1>7. \A i \in 1..n : spans[i].start = DayStart(now) /\ Earlier(now, spans[i].end) = spans[i].end
  BY <1>2, <1>3 DEF Earlier
<1> HIDE DEF n, columns, day
<1> QED
  BY <1>1, <1>3, <1>4, <1>6, <1>7 DEF n, spans, columns, day

LEMMA ListedIsFinite == IsFiniteSet(Listed)
  BY ReportAssumption, FS_AddElement DEF Listed

LEMMA EmptyReport ==
    ASSUME NEW report \in [Listed -> Nat]
    PROVE  ~ (Total(report) > 0) => \A p \in Listed : report[p] = 0
<1>1. Total(report) = SumFunctionOnSet(report, Listed)
  BY DEF Total, SumFunction
<1>2. \A p \in Listed : report[p] \in Nat
  OBVIOUS
<1>3. SumFunctionOnSet(report, Listed) \in Nat
  BY <1>2, ListedIsFinite, SumNat
<1>4. \A p \in Listed : report[p] <= SumFunctionOnSet(report, Listed)
  BY <1>2, ListedIsFinite, TermLeqSum
<1> QED
  BY <1>1, <1>2, <1>3, <1>4

\* The columns of a day in the week.
OfDay(i) == Report(dailySpans(now)[i].start, Earlier(now, dailySpans(now)[i].end))

\* The week's columns are the reports of its days, from the first one that is not empty.
LEMMA WeekChart ==
    ASSUME IInv
    PROVE  LET week == Chart(stored, now, "week")
               spans == dailySpans(now)
           IN  /\ \A i \in 1..DayCount : OfDay(i) \in [Listed -> Nat]
               /\ \E d \in 0..(DayCount - 1) :
                     /\ Len(week) = DayCount - d /\ DOMAIN week = 1..(DayCount - d)
                     /\ \A i \in 1..(DayCount - d) : week[i] = OfDay(d + i)
                     /\ \A i \in 1..d, p \in Listed : OfDay(i)[p] = 0
               /\ ProgramTotals(stored, now, "week") = Report(spans[1].start, now)
<1> DEFINE spans == dailySpans(now)
           week == Chart(stored, now, "week")
           columns == SpanReports(stored, now, "week")
           n == DayCount
           first == firstNonEmptyIndex(columns)
<1>1. chartSpans(now, "week") = spans /\ week = SubSeq(columns, first, Len(columns))
  BY DEF chartSpans, Chart
<1>2. now \in Nat /\ n \in Nat \ {0}
  BY StoredFacts, ReportAssumption
<1>3. /\ DOMAIN spans = 1..n /\ Len(spans) = n
      /\ \A i \in 1..n : /\ spans[i].start \in Int /\ spans[i].end \in Int
                          /\ spans[1].start <= spans[i].start /\ spans[i].end <= spans[n].end
      /\ now < spans[n].end
  BY <1>2, WeekSpans
<1>4. /\ DOMAIN columns = 1..n /\ Len(columns) = n
      /\ \A i \in 1..n : columns[i] = OfDay(i)
      /\ ProgramTotals(stored, now, "week") = Report(spans[1].start, Earlier(now, spans[n].end))
  <2> HIDE DEF spans, n, columns
  <2> QED
    BY <1>1, <1>2, <1>3, SpansReport DEF OfDay, spans, n, columns
<1>5. Earlier(now, spans[n].end) = now
  BY <1>3 DEF Earlier
<1>6. \A i \in 1..n : OfDay(i) \in [Listed -> Nat]
  <2>1. \A i \in 1..n : spans[i].start \in Int /\ Earlier(now, spans[i].end) \in Int
    BY <1>2, <1>3 DEF Earlier
  <2> QED
    BY <2>1, StoredFacts DEF OfDay
<1>7. first \in 1..n /\ \A i \in 1..(first - 1), p \in Listed : OfDay(i)[p] = 0
  <2> DEFINE full == {i \in DOMAIN columns : Total(columns[i]) > 0}
  <2>1. first = IF full # {} THEN Min(full) ELSE 1
    BY DEF firstNonEmptyIndex
  <2>2. full \subseteq 1..n /\ \A i \in 1..n : i \notin full => ~ (Total(OfDay(i)) > 0)
    BY <1>4
  <2> HIDE DEF full, first, columns, n
  <2>3. full \in SUBSET Nat
    BY <1>2, <2>2
  <2>4. first \in 1..n /\ \A i \in 1..(first - 1) : i \in 1..n /\ i \notin full
    <3>1. CASE full = {}
      BY <1>2, <2>1, <3>1
    <3>2. CASE full # {}
      <4>1. Min(full) \in full /\ \A i \in full : Min(full) <= i
        BY <2>3, <3>2, LeastIsMin
      <4>2. first \in full /\ first \in 1..n /\ \A i \in full : first <= i
        BY <2>1, <2>2, <3>2, <4>1
      <4>3. \A i \in 1..(first - 1) : i \in 1..n /\ ~ (first <= i)
        BY <1>2, <4>2
      <4> QED
        BY <4>2, <4>3
    <3> QED
      BY <3>1, <3>2
  <2> QED
    BY <1>6, <2>2, <2>4, EmptyReport
<1> HIDE DEF first, columns, week, spans, n
<1>8. /\ Len(week) = n - first + 1 /\ DOMAIN week = 1..(n - first + 1)
      /\ \A i \in 1..(n - first + 1) : week[i] = columns[first + i - 1]
  <2>1. \A i \in first..n : columns[i] \in [Listed -> Nat]
    BY <1>2, <1>4, <1>6, <1>7
  <2>2. first \in Int /\ n \in Int /\ first <= n
    BY <1>2, <1>7
  <2>3. /\ week \in Seq([Listed -> Nat]) /\ Len(week) = n - first + 1
        /\ \A i \in 1..(n - first + 1) : week[i] = columns[first + i - 1]
    BY <1>1, <1>4, <2>1, <2>2, SubSeqProperties
  <2> QED
    BY <2>3
<1> DEFINE d == first - 1
<1>9. /\ d \in 0..(n - 1) /\ n - first + 1 = n - d
      /\ \A i \in 1..(n - d) : first + i - 1 = d + i /\ d + i \in 1..n
  BY <1>2, <1>7
<1>10. \A i \in 1..(n - d) : week[i] = OfDay(d + i)
  BY <1>4, <1>8, <1>9
<1>11. \A i \in 1..d, p \in Listed : OfDay(i)[p] = 0
  BY <1>7
<1> HIDE DEF d
<1> QED
  BY <1>4, <1>5, <1>6, <1>8, <1>9, <1>10, <1>11 DEF spans, week, n

\* All pages that show the use of programs agree, whatever each one fetched and cut its windows
\* to (dashboardData, usageChart, programChart and CalculateUsage).
THEOREM PagesAgree == Spec => []ViewsAgree
<1>1. IInv => ViewsAgree
  <2> SUFFICES ASSUME IInv PROVE ViewsAgree
    OBVIOUS
  <2> DEFINE today == dashboard(stored, now)
             day == Chart(stored, now, "day")
             week == Chart(stored, now, "week")
             spans == dailySpans(now)
             ends == intradaySpans(now)
             first == DayCount - Len(week)
             bars == ProgramTotals(stored, now, "week")
             ofWeek(p) == SumFunction([i \in DOMAIN week |-> week[i][p]])
             n == DayCount
  <2>1. /\ now \in Nat /\ n \in Nat \ {0} /\ stored \in SUBSET Event /\ IsFiniteSet(stored)
        /\ \A e, f \in stored : e.sequence = f.sequence => e = f
        /\ DayStart(now) \in Nat /\ DayStart(now) <= now
        /\ \A start, until \in Int : Report(start, until) \in [Listed -> Nat]
    BY StoredFacts, ReportAssumption
  <2>2. today = Report(DayStart(now), now)
    BY DashboardReport
  <2>3. /\ Len(day) = Len(ends) /\ DOMAIN day = 1..Len(ends)
        /\ \A i \in 1..Len(ends) : day[i] = Report(DayStart(now), ends[i].end)
        /\ ProgramTotals(stored, now, "day") = Report(DayStart(now), now)
    BY DayChart
  <2>4. /\ Len(ends) \in Nat \ {0} /\ ends[Len(ends)].end = now
        /\ \A i \in 1..Len(ends) : ends[i].end \in Int
        /\ \A i, j \in 1..Len(ends) : i <= j => ends[i].end <= ends[j].end
    BY <2>1, DaySpans
  <2>5. /\ \A i \in 1..n : OfDay(i) \in [Listed -> Nat]
        /\ bars = Report(spans[1].start, now)
    BY WeekChart
  <2>6. PICK d \in 0..(n - 1) : /\ Len(week) = n - d /\ DOMAIN week = 1..(n - d)
                                /\ \A i \in 1..(n - d) : week[i] = OfDay(d + i)
                                /\ \A i \in 1..d, p \in Listed : OfDay(i)[p] = 0
    BY WeekChart
  <2>7. /\ \A i \in 1..n : /\ spans[i].start \in Int /\ spans[i].end \in Int
                            /\ spans[i].start <= spans[i].end
                            /\ spans[1].start <= spans[i].start /\ spans[i].start <= now
        /\ \A i \in 1..(n - 1) : spans[i + 1].start = spans[i].end /\ spans[i].end <= now
        /\ spans[n].start = DayStart(now) /\ now < spans[n].end
    BY <2>1, WeekSpans
  <2>8. \A i \in 1..n : OfDay(i) = Report(spans[i].start, Earlier(now, spans[i].end))
    BY DEF OfDay
  <2> HIDE DEF today, day, week, spans, ends, first, bars, n
  <2>9. day[Len(day)] = today
    BY <2>2, <2>3, <2>4
  <2>10. week[Len(week)] = today
    <3>1. Earlier(now, spans[n].end) = now
      BY <2>7 DEF Earlier
    <3>2. n \in 1..n /\ n - d \in 1..(n - d) /\ d + (n - d) = n
      BY <2>1
    <3> QED
      BY <2>2, <2>6, <2>7, <2>8, <3>1, <3>2
  <2>11. ProgramTotals(stored, now, "day") = today
    BY <2>2, <2>3
  <2>12. ASSUME NEW i \in DOMAIN week
         PROVE  week[i] = DayReport(spans[first + i])
    <3>1. first = d
      BY <2>1, <2>6 DEF first, n
    <3>2. d + i \in 1..n
      BY <2>1, <2>6
    <3> DEFINE span == spans[d + i]
    <3>3. span.start \in Int /\ span.end \in Int
      BY <2>7, <3>2
    <3>4. DayReport(span) = Report(span.start, Earlier(now, span.end))
      <4> HIDE DEF span
      <4>1. span.start <= span.start /\ span.end <= span.end
        BY <3>3
      <4> QED
        BY <2>1, <3>3, <4>1, PageReport DEF DayReport
    <3> QED
      BY <2>6, <2>8, <3>1, <3>2, <3>4
  <2>13. ASSUME NEW i \in DOMAIN day, NEW j \in DOMAIN day, NEW p \in Listed, i <= j
         PROVE  day[i][p] <= day[j][p]
    <3>1. ends[i].end \in Int /\ ends[j].end \in Int /\ ends[i].end <= ends[j].end
      BY <2>3, <2>4, <2>13
    <3>2. Report(DayStart(now), ends[i].end)[p] <= Report(DayStart(now), ends[j].end)[p]
      <4> DEFINE a == DayStart(now)
                 b == ends[i].end
                 c == ends[j].end
      <4>1. a \in Int /\ b \in Int /\ c \in Int /\ b <= c
        BY <2>1, <3>1
      <4> HIDE DEF a, b, c
      <4>2. UsageUntil(stored, a, b)[p] <= UsageUntil(stored, a, c)[p]
        BY <2>1, <4>1, ReportGrows
      <4> QED
        BY <4>2 DEF Report, a, b, c
    <3> QED
      BY <2>3, <3>2
  <2>14. ASSUME NEW p \in Listed
         PROVE  bars[p] - ofWeek(p) \in 0..(n - 1)
    <3> DEFINE whole == [i \in 1..n |-> Report(spans[1].start, Earlier(now, spans[i].end))[p]]
               column == [i \in 1..n |-> OfDay(i)[p]]
               part == [i \in DOMAIN week |-> week[i][p]]
    <3>1. ofWeek(p) = SumFunctionOnSet(part, 1..(n - d))
      BY <2>6 DEF SumFunction
    <3>2. \A i \in 1..n : /\ Earlier(now, spans[i].end) \in Int
                          /\ spans[i].start <= Earlier(now, spans[i].end)
      <4>1. \A a, b \in Int : a <= now /\ a <= b => Earlier(now, b) \in Int /\ a <= Earlier(now, b)
        BY <2>1 DEF Earlier
      <4> QED
        BY <2>7, <4>1
    <3>3. \A i \in 1..n : whole[i] \in Int /\ column[i] \in Nat
      <4>1. 1 \in 1..n
        BY <2>1
      <4>2. \A i \in 1..n : Report(spans[1].start, Earlier(now, spans[i].end)) \in [Listed -> Nat]
        BY <2>1, <2>7, <3>2, <4>1
      <4> QED
        BY <2>5, <4>2
    <3>4. \A i \in 1..d : column[i] = 0
      BY <2>6, <2>1
    <3>5. \A i \in 1..(n - d) : part[i] = column[d + i]
      <4>1. \A i \in 1..(n - d) : d + i \in 1..n
        BY <2>1
      <4> QED
        BY <2>6, <4>1
    <3>6. whole[1] = column[1]
      <4>1. 1 \in 1..n
        BY <2>1
      <4> QED
        BY <2>8, <4>1
    <3>7. ASSUME NEW i \in 1..(n - 1)
          PROVE  whole[i + 1] - whole[i] - column[i + 1] \in 0..1
      <4>1. i \in 1..n /\ i + 1 \in 1..n /\ 1 \in 1..n
        BY <2>1
      <4> DEFINE a == spans[1].start
                 b == spans[i].end
                 c == Earlier(now, spans[i + 1].end)
      <4>2. a \in Int /\ b \in Int /\ c \in Int /\ a <= b
        BY <2>7, <3>2, <4>1
      <4>3. Earlier(now, spans[i].end) = b
        <5>1. b <= now
          BY <2>7
        <5> HIDE DEF b
        <5>2. Earlier(now, b) = b
          BY <2>1, <4>2, <5>1 DEF Earlier
        <5> QED
          BY <5>2 DEF b
      <4>4. b <= c
        BY <2>7, <3>2, <4>1
      <4>5. UsageUntil(stored, a, c)[p] - UsageUntil(stored, a, b)[p] - UsageUntil(stored, b, c)[p]
            \in 0..1
        BY <2>1, <4>2, <4>4, CutLosesOneSecond
      <4>6. /\ whole[i + 1] = Report(a, c)[p]
            /\ whole[i] = Report(a, b)[p]
            /\ column[i + 1] = Report(b, c)[p]
        BY <2>7, <2>8, <4>1, <4>3
      <4> QED
        BY <4>5, <4>6 DEF Report
    <3>8. whole[n] = bars[p]
      <4>1. n \in 1..n /\ Earlier(now, spans[n].end) = now
        BY <2>1, <2>7 DEF Earlier
      <4> QED
        BY <2>5, <4>1
    <3> HIDE DEF whole, column, part
    <3>9. whole[n] - SumFunctionOnSet(part, 1..(n - d)) \in 0..(n - 1)
      BY <2>1, <3>3, <3>4, <3>5, <3>6, <3>7, CutsAddUp
    <3> QED
      BY <3>1, <3>8, <3>9
  <2> QED
    BY <2>9, <2>10, <2>11, <2>12, <2>13, <2>14
    DEF ViewsAgree, today, day, week, spans, first, bars, n
<1> QED
  BY <1>1, InvAlways, PTL

-----------------------------------------------------------------------------
(* What the reports tell.                                                 *)

\* The ticks a report counts for a program.
CountedFor(p, start, until) == UNION {Counted(stored, e, start, until) : e \in ActiveOf(stored, p)}

\* A report is the ticks it counts, but for a rest of less than a second for each event.
LEMMA ReportOfTicks ==
    ASSUME IInv, NEW start \in Int, NEW until \in Int, NEW p \in Listed
    PROVE  LET reported == Report(start, until)[p] * TicksPerSecond
               ticks == CountedFor(p, start, until)
           IN  /\ IsFiniteSet(ticks) /\ reported \in Nat
               /\ reported <= Cardinality(ticks)
               /\ Cardinality(ticks) <= reported + Cardinality(ActiveOf(stored, p)) * (TicksPerSecond - 1)
<1> DEFINE S == ActiveOf(stored, p)
           A == [e \in stored |-> Counted(stored, e, start, until)]
           size == [e \in stored |-> Cardinality(A[e])]
           seconds == [e \in stored |-> SegmentSeconds(stored, e, start, until)]
           d == TicksPerSecond
           ticks == CountedFor(p, start, until)
<1>1. /\ stored \in SUBSET Event /\ IsFiniteSet(stored)
      /\ \A e, f \in stored : e.sequence = f.sequence => e = f
  BY StoredFacts
<1>2. S \subseteq stored /\ IsFiniteSet(S)
  BY <1>1, FS_Subset DEF ActiveOf
<1>3. \A e \in stored : /\ IsFiniteSet(A[e]) /\ size[e] = Cardinality(A[e]) /\ size[e] \in Nat
                        /\ seconds[e] = size[e] \div d /\ seconds[e] \in Nat
  BY <1>1, SecondsOfTicks
<1>4. \A e, f \in stored : e # f => A[e] \cap A[f] = {}
  BY <1>1, NoTickTwice
<1>5. ticks = UNION {A[e] : e \in S}
  BY <1>2 DEF CountedFor
<1>6. Report(start, until)[p] = SumFunctionOnSet(seconds, S)
  BY DEF Report, UsageUntil
<1>7. d \in Nat \ {0}
  BY ReportAssumption
<1> HIDE DEF S, A, size, seconds, d, ticks
<1>8. IsFiniteSet(ticks) /\ Cardinality(ticks) = SumFunctionOnSet(size, S)
  <2>1. \A e \in S : IsFiniteSet(A[e]) /\ size[e] = Cardinality(A[e])
    BY <1>2, <1>3
  <2>2. \A e, f \in S : e # f => A[e] \cap A[f] = {}
    BY <1>2, <1>4
  <2>3. IsFiniteSet(S)
    BY <1>2
  <2>4. /\ IsFiniteSet(UNION {A[e] : e \in S})
        /\ Cardinality(UNION {A[e] : e \in S}) = SumFunctionOnSet(size, S)
    BY <2>1, <2>2, <2>3, SumOfSizes
  <2> QED
    BY <1>5, <2>4
<1>9. ASSUME NEW e \in S
      PROVE  /\ seconds[e] \in Nat /\ size[e] \in Nat
             /\ d * seconds[e] <= size[e] /\ size[e] <= d * seconds[e] + (d - 1)
  <2>1. size[e] \in Nat /\ seconds[e] = size[e] \div d /\ seconds[e] \in Nat
    BY <1>2, <1>3
  <2>2. size[e] % d \in 0..(d - 1) /\ size[e] = d * (size[e] \div d) + (size[e] % d)
    BY <1>7, <2>1, DivNat
  <2>3. d * seconds[e] \in Nat
    BY <1>7, <2>1, Distribute
  <2> DEFINE x == d * seconds[e]
             r == size[e] % d
  <2>4. size[e] = x + r /\ x \in Nat /\ r \in 0..(d - 1)
    BY <2>1, <2>2, <2>3
  <2> HIDE DEF x, r
  <2>5. x <= size[e] /\ size[e] <= x + (d - 1)
    BY <1>7, <2>4
  <2> QED
    BY <2>1, <2>5 DEF x
<1>10. LET F == SumFunctionOnSet(seconds, S)
           G == SumFunctionOnSet(size, S)
       IN  d * F <= G /\ G <= d * F + Cardinality(S) * (d - 1)
  <2>1. d \in Nat /\ d - 1 \in Nat
    BY <1>7
  <2> QED
    BY <1>2, <1>9, <2>1, SumScaled
<1>11. Report(start, until)[p] \in Nat
  BY StoredFacts
<1>12. Report(start, until)[p] * d = d * Report(start, until)[p]
       /\ Report(start, until)[p] * d \in Nat
  BY <1>7, <1>11, Distribute
<1> QED
  BY <1>6, <1>8, <1>10, <1>12 DEF S, d, ticks

\* Use that the server can know of is counted.
LEMMA KnownUseIsCounted ==
    ASSUME IInv, Story, NEW p \in Listed, NEW t \in 0..(now - 1), t < Known, t \in UsedBy(p, {t}),
           NEW start \in Int, NEW until \in Int, start <= t, t < until
    PROVE  t \in CountedFor(p, start, until)
<1>1. Observed(t) # None /\ Observed(t).state = "active" /\ Name(Observed(t)) = p
  BY DEF UsedBy
<1>2. TypeOK
  BY DEF IInv
<1>3. PICK e \in stored : Covers(e, t) /\ Says(e, Observed(t))
  BY <1>1, <1>2, KnownIsTold
<1>4. e \in ActiveOf(stored, p)
  BY <1>1, <1>3 DEF ActiveOf, Says, Name
<1>5. /\ stored \in SUBSET Event /\ Distinct(stored) /\ stored \subseteq Made /\ now \in Nat
      /\ \A f \in stored : f.time \in Nat
  BY <1>2, KnownIsStored, MadeTyped
<1>6. t \in Nat /\ e.time <= t /\ (MaxGap > 0 => t < e.time + MaxGap)
  BY <1>3, <1>5, UsageAssumption, ReportAssumption DEF Covers
<1>7. \A f \in Followers(stored, e) : t < f.time
  <2> SUFFICES ASSUME NEW f \in Followers(stored, e)
               PROVE  t < f.time
    OBVIOUS
  <2>1. f \in stored /\ e.time < f.time
    BY <1>5, OrderIsTime DEF Followers
  <2> QED
    BY <1>3, <1>5, <2>1 DEF Covers
<1>8. t \in Counted(stored, e, start, until)
  BY <1>5, <1>6, <1>7, SegmentIsUntilNext
<1> QED
  BY <1>4, <1>8 DEF CountedFor

\* The ticks at which an agent was seen to have stopped.
Stops == {t \in 1..(now - 1) : Observed(t) = None /\ Observed(t - 1) # None}

\* What is counted and was no use of the program comes after a stop, or after what the server knows,
\* and after the event it is counted for.
LEMMA WrongAfterInterruption ==
    ASSUME IInv, Story, NEW p \in Listed, NEW e \in ActiveOf(stored, p),
           NEW start \in Int, NEW until \in Int, until <= now,
           NEW t \in Counted(stored, e, start, until), t \notin UsedBy(p, {t})
    PROVE  \/ \E v \in Stops : e.time < v /\ v <= t
           \/ pending # <<>> /\ e.time < Known /\ Known <= t
<1>1. TypeOK
  BY DEF IInv
<1>2. /\ stored \in SUBSET Event /\ Distinct(stored) /\ stored \subseteq Made /\ now \in Nat
      /\ \A f \in Made : f.time \in Nat
      /\ Known \in Nat /\ \A f \in Made : f.time < Known => f \in stored
      /\ pending # <<>> => \A f \in stored : f.time < Known
  BY <1>1, KnownIsStored, MadeTyped
<1>3. e \in stored /\ e.state = "active" /\ Name(e) = p /\ e \in Made /\ e.time \in Nat
  BY <1>2 DEF ActiveOf
<1>4. t \in Nat
  BY <1>2, <1>3, CountedIsNat
<1>5. /\ start <= t /\ t < until /\ e.time <= t
      /\ \A f \in Followers(stored, e) : t < f.time
  BY <1>2, <1>3, <1>4, SegmentIsUntilNext
<1>6. t < now
  BY <1>2, <1>4, <1>5
<1>7. Says(e, Observed(e.time))
  BY <1>3 DEF Story, Truthful
<1>8. ~ (Observed(t) # None /\ Observed(t).state = "active" /\ Name(Observed(t)) = p)
  BY DEF UsedBy
<1>9. Observed(t) # Observed(e.time)
  BY <1>3, <1>7, <1>8 DEF Says, Name
<1> DEFINE Changed == {v \in e.time..t : Observed(v) # Observed(e.time)}
<1>10. PICK v \in Changed : \A u \in Changed : v <= u
  <2>1. Changed \in SUBSET Nat /\ t \in Changed
    BY <1>3, <1>4, <1>5, <1>9
  <2> HIDE DEF Changed
  <2> QED
    BY <2>1, LeastNat
<1>11. /\ v \in Nat /\ e.time < v /\ v <= t /\ v - 1 \in e.time..t /\ v - 1 < v
       /\ Observed(v) # Observed(e.time)
  <2>1. v \in e.time..t /\ Observed(v) # Observed(e.time) /\ v # e.time
    OBVIOUS
  <2> QED
    BY <1>3, <1>4, <2>1
<1>12. Observed(v - 1) = Observed(e.time)
  <2> SUFFICES ASSUME v - 1 \in Changed
               PROVE  FALSE
    BY <1>11
  <2>1. v <= v - 1
    BY <1>10
  <2> QED
    BY <1>11, <2>1
<1> HIDE DEF Changed
<1>13. CASE Observed(v) = None
  <2>1. v \in Stops
    BY <1>2, <1>3, <1>4, <1>6, <1>7, <1>11, <1>12, <1>13 DEF Stops, Says
  <2> QED
    BY <1>11, <2>1
<1>14. CASE Observed(v) # None
  <2>1. v \in 0..(now - 1)
    BY <1>2, <1>4, <1>6, <1>11
  <2>2. PICK f \in Made : Covers(f, v)
    BY <1>14, <2>1 DEF Story, Covered
  <2>3. f.time = v
    <3> SUFFICES ASSUME f.time # v
                 PROVE  FALSE
      OBVIOUS
    <3>1. f.time \in Nat /\ f.time <= v /\ \A u \in f.time..v : Observed(u) = Observed(v)
      BY <1>2, <2>2 DEF Covers
    <3>2. v - 1 \in f.time..v
      BY <1>11, <3>1
    <3> QED
      BY <1>11, <1>12, <3>1, <3>2
  <2>4. f \notin stored
    <3> SUFFICES ASSUME f \in stored
                 PROVE  FALSE
      OBVIOUS
    <3>1. f \in Followers(stored, e)
      BY <1>2, <1>3, <1>11, <2>3, OrderIsTime DEF Followers
    <3> QED
      BY <1>4, <1>5, <1>11, <2>3, <3>1
  <2>5. pending # <<>>
    BY <2>4 DEF Made
  <2>6. Known <= v
    BY <1>2, <1>11, <2>3, <2>4
  <2> QED
    BY <1>2, <1>3, <1>4, <1>11, <2>5, <2>6
<1> QED
  BY <1>13, <1>14

\* The ticks counted after an interruption, for an event before it, are of that event and before
\* its gap ends.
LEMMA FewAfterInterruption ==
    ASSUME IInv, MaxGap > 0, NEW p \in Listed, NEW start \in Int, NEW until \in Int, NEW v \in Nat
    PROVE  LET after == {t \in CountedFor(p, start, until) :
                            \E e \in ActiveOf(stored, p) :
                                t \in Counted(stored, e, start, until) /\ e.time < v /\ v <= t}
           IN  IsFiniteSet(after) /\ Cardinality(after) <= MaxGap - 1
<1> DEFINE after == {t \in CountedFor(p, start, until) :
                        \E e \in ActiveOf(stored, p) :
                            t \in Counted(stored, e, start, until) /\ e.time < v /\ v <= t}
<1>1. stored \in SUBSET Event /\ MaxGap \in Nat /\ \A f \in stored : f.time \in Nat /\ f.sequence \in Nat
  BY StoredFacts, ReportAssumption DEF Event
<1>2. ASSUME NEW e \in stored, NEW t \in Counted(stored, e, start, until)
      PROVE  /\ t \in Nat /\ e.time <= t /\ t < e.time + MaxGap
             /\ \A f \in stored : e.time < f.time => t < f.time
  <2>1. t \in Nat
    BY <1>1, CountedIsNat
  <2>2. \A f \in stored : e.time < f.time => f \in Followers(stored, e)
    BY <1>1 DEF Followers, Precedes
  <2> QED
    BY <1>1, <2>1, <2>2, SegmentIsUntilNext
<1>3. CASE after = {}
  BY <1>1, <1>3, FS_EmptySet
<1>4. CASE after # {}
  <2>1. PICK s \in after : TRUE
    BY <1>4
  <2>2. PICK e \in ActiveOf(stored, p) :
            s \in Counted(stored, e, start, until) /\ e.time < v /\ v <= s
    BY <2>1
  <2>3. e \in stored
    BY DEF ActiveOf
  <2> DEFINE room == (e.time + 1)..(e.time + (MaxGap - 1))
  <2>4. ASSUME NEW t \in after
        PROVE  t \in room
    <3>1. PICK f \in ActiveOf(stored, p) :
              t \in Counted(stored, f, start, until) /\ f.time < v /\ v <= t
      OBVIOUS
    <3>2. f \in stored
      BY DEF ActiveOf
    <3>3. s \in Nat /\ t \in Nat /\ t < f.time + MaxGap
      BY <1>2, <2>2, <2>3, <3>1, <3>2
    <3>4. ~ (e.time < f.time)
      <4> SUFFICES ASSUME e.time < f.time
                   PROVE  FALSE
        OBVIOUS
      <4>1. s < f.time
        BY <1>2, <2>2, <2>3, <3>2
      <4> QED
        BY <1>1, <2>2, <3>1, <3>2, <3>3, <4>1
    <3>5. ~ (f.time < e.time)
      <4> SUFFICES ASSUME f.time < e.time
                   PROVE  FALSE
        OBVIOUS
      <4>1. t < e.time
        BY <1>2, <2>3, <3>1, <3>2
      <4> QED
        BY <1>1, <2>2, <2>3, <3>1, <3>3, <4>1
    <3>6. f.time = e.time
      BY <1>1, <2>3, <3>2, <3>4, <3>5
    <3> HIDE DEF after
    <3> QED
      BY <1>1, <2>2, <2>3, <3>1, <3>3, <3>6
  <2>5. IsFiniteSet(room) /\ Cardinality(room) = MaxGap - 1
    <3>1. e.time + 1 \in Int /\ e.time + (MaxGap - 1) \in Int /\ e.time \in Nat
      BY <1>1, <2>3
    <3>2. IsFiniteSet(room)
      BY <3>1, FS_Interval
    <3>3. Cardinality(room)
          = IF e.time + 1 > e.time + (MaxGap - 1) THEN 0
            ELSE (e.time + (MaxGap - 1)) - (e.time + 1) + 1
      BY <3>1, FS_Interval
    <3> HIDE DEF room
    <3> QED
      BY <1>1, <3>1, <3>2, <3>3
  <2> HIDE DEF after, room
  <2>6. after \subseteq room
    BY <2>4
  <2>7. IsFiniteSet(after) /\ Cardinality(after) <= Cardinality(room)
    BY <2>5, <2>6, FS_Subset
  <2> QED
    BY <2>5, <2>7 DEF after
<1> QED
  BY <1>3, <1>4

\* The interruptions themselves, the last of them standing for what the server does not know.
Breaks == Stops \cup (IF pending = <<>> THEN {} ELSE {now})

LEMMA BreaksAreCounted == ASSUME IInv
                          PROVE  IsFiniteSet(Breaks) /\ Cardinality(Breaks) = Interruptions
<1>1. now \in Nat
  BY StoredFacts
<1>2. Stops \subseteq 1..(now - 1) /\ now \notin Stops
  BY <1>1 DEF Stops
<1>3. IsFiniteSet(1..(now - 1))
  BY <1>1, FS_Interval
<1>4. IsFiniteSet(Stops) /\ Cardinality(Stops) \in Nat
  BY <1>2, <1>3, FS_Subset, FS_CardinalityType
<1>5. Interruptions = Cardinality(Stops) + (IF pending = <<>> THEN 0 ELSE 1)
  BY DEF Interruptions, Stops
<1>6. CASE pending = <<>>
  <2>1. Breaks = Stops
    BY <1>6 DEF Breaks
  <2> QED
    BY <1>4, <1>5, <1>6, <2>1
<1>7. CASE pending # <<>>
  <2>1. Breaks = Stops \cup {now}
    BY <1>7 DEF Breaks
  <2>2. IsFiniteSet(Breaks) /\ Cardinality(Breaks) = Cardinality(Stops) + 1
    BY <1>2, <1>4, <2>1, FS_AddElement
  <2> QED
    BY <1>5, <1>7, <2>2
<1> QED
  BY <1>6, <1>7

\* The report of a day tells what the device was used for (CalculateUsage of what the agent sent
\* and the server has): it leaves out no more than the rests of the seconds, and counts
\* no more than a gap for each interruption.
THEOREM ReportTellsUse == Spec => []ReportIsUse
<1>1. IInv /\ Story => ReportIsUse
  <2> SUFFICES ASSUME IInv, Story, NEW span \in Days, NEW p \in Listed
               PROVE  LET reported == DayReport(span)[p] * TicksPerSecond
                          certain == {t \in Ticks(span) : t < Known}
                          parts == Cardinality(ActiveOf(stored, p))
                      IN  /\ Cardinality(UsedBy(p, certain)) <= reported + parts * (TicksPerSecond - 1)
                          /\ MaxGap > 0 =>
                                 reported <= Cardinality(UsedBy(p, Ticks(span)))
                                             + Interruptions * (MaxGap - 1)
    BY DEF ReportIsUse
  <2> DEFINE start == span.start
             until == Earlier(now, span.end)
             reported == DayReport(span)[p] * TicksPerSecond
             certain == {t \in Ticks(span) : t < Known}
             parts == Cardinality(ActiveOf(stored, p))
             ticks == CountedFor(p, start, until)
             used == UsedBy(p, Ticks(span))
             wrong == ticks \ used
  <2>1. /\ now \in Nat /\ start \in Nat /\ span.end \in Nat /\ stored \in SUBSET Event
        /\ IsFiniteSet(stored) /\ TypeOK
    BY StoredFacts, DayIsSpan DEF IInv
  <2>2. until \in Int /\ until <= now /\ until <= span.end
        /\ \A t \in Nat : t < until <=> t < now /\ t < span.end
    BY <2>1 DEF Earlier
  <2>3. DayReport(span) = Report(start, until)
    <3>1. span.start <= span.start /\ span.end <= span.end /\ span.start \in Int /\ span.end \in Int
      BY <2>1
    <3> QED
      BY <2>1, <3>1, PageReport DEF DayReport
  <2>4. /\ IsFiniteSet(ticks) /\ reported \in Nat /\ reported <= Cardinality(ticks)
        /\ Cardinality(ticks) <= reported + parts * (TicksPerSecond - 1)
    <3> HIDE DEF until
    <3> QED
      BY <2>1, <2>2, <2>3, ReportOfTicks
  <2>5. \A t : t \in Ticks(span) <=> t \in 0..(now - 1) /\ start <= t /\ t < until
    BY <2>1, <2>2 DEF Ticks
  <2> HIDE DEF until, ticks, used, wrong, start
  <2>6. Cardinality(UsedBy(p, certain)) <= reported + parts * (TicksPerSecond - 1)
    <3> DEFINE known == UsedBy(p, certain)
    <3>1. ASSUME NEW t \in known
          PROVE  t \in ticks
      <4>1. t \in UsedBy(p, {t}) /\ t \in Ticks(span) /\ t < Known
        BY DEF UsedBy
      <4>2. t \in 0..(now - 1) /\ start <= t /\ t < until
        BY <2>5, <4>1
      <4>3. start \in Int /\ until \in Int
        BY <2>1, <2>2
      <4> QED
        BY <4>1, <4>2, <4>3, KnownUseIsCounted DEF ticks
    <3> HIDE DEF known
    <3>2. Cardinality(known) <= Cardinality(ticks) /\ Cardinality(known) \in Nat
          /\ Cardinality(ticks) \in Nat
      BY <2>4, <3>1, FS_Subset, FS_CardinalityType
    <3>3. parts * (TicksPerSecond - 1) \in Nat
      <4>1. IsFiniteSet(ActiveOf(stored, p))
        BY <2>1, FS_Subset DEF ActiveOf
      <4>2. parts \in Nat /\ TicksPerSecond - 1 \in Nat
        BY <4>1, FS_CardinalityType, ReportAssumption
      <4> QED
        BY <4>2, Distribute
    <3> HIDE DEF reported, parts
    <3> QED
      BY <2>4, <3>2, <3>3 DEF known
  <2>7. ASSUME MaxGap > 0
        PROVE  reported <= Cardinality(used) + Interruptions * (MaxGap - 1)
    <3> DEFINE at(x) == IF x = now THEN Known ELSE x
               After(x) == {t \in ticks : \E e \in ActiveOf(stored, p) :
                                t \in Counted(stored, e, start, until) /\ e.time < at(x) /\ at(x) <= t}
               A == [x \in Breaks |-> After(x)]
    <3>1. IsFiniteSet(Breaks) /\ Cardinality(Breaks) = Interruptions
      BY BreaksAreCounted
    <3>2. Known \in Nat /\ \A x \in Breaks : at(x) \in Nat
      <4>1. Known \in Nat
        BY <2>1, KnownIsStored
      <4> QED
        BY <2>1, <4>1 DEF Breaks, Stops
    <3>3. ASSUME NEW x \in Breaks
          PROVE  IsFiniteSet(A[x]) /\ Cardinality(A[x]) <= MaxGap - 1
      <4>1. at(x) \in Nat /\ start \in Int /\ until \in Int
        BY <2>1, <2>2, <3>2
      <4> HIDE DEF at
      <4>2. IsFiniteSet(After(x)) /\ Cardinality(After(x)) <= MaxGap - 1
        BY <2>7, <4>1, FewAfterInterruption DEF ticks
      <4> QED
        BY <4>2
    <3>4. wrong \subseteq UNION {A[x] : x \in Breaks}
      <4> SUFFICES ASSUME NEW t \in wrong
                   PROVE  \E x \in Breaks : t \in A[x]
        OBVIOUS
      <4>1. t \in ticks /\ t \notin used
        BY DEF wrong
      <4>2. PICK e \in ActiveOf(stored, p) : t \in Counted(stored, e, start, until)
        BY <4>1 DEF ticks, CountedFor
      <4>3. e \in stored
        BY DEF ActiveOf
      <4>4. t \in Nat
        BY <2>1, <2>2, <4>2, <4>3, CountedIsNat
      <4>5. start <= t /\ t < until
        BY <2>1, <2>2, <4>2, <4>3, <4>4, SegmentIsUntilNext
      <4>6. t \in Ticks(span)
        BY <2>1, <2>2, <2>5, <4>4, <4>5
      <4>7. t \notin UsedBy(p, {t})
        BY <4>1, <4>6 DEF UsedBy, used
      <4>8. \/ \E v \in Stops : e.time < v /\ v <= t
            \/ pending # <<>> /\ e.time < Known /\ Known <= t
        BY <2>1, <2>2, <4>2, <4>7, WrongAfterInterruption
      <4>9. CASE \E v \in Stops : e.time < v /\ v <= t
        <5>1. PICK v \in Stops : e.time < v /\ v <= t
          BY <4>9
        <5>2. v \in Breaks /\ at(v) = v
          BY <2>1 DEF Breaks, Stops
        <5>3. t \in After(v)
          BY <4>1, <4>2, <5>1, <5>2
        <5> HIDE DEF After
        <5> QED
          BY <5>2, <5>3
      <4>10. CASE pending # <<>> /\ e.time < Known /\ Known <= t
        <5>1. now \in Breaks /\ at(now) = Known
          BY <4>10 DEF Breaks
        <5>2. t \in After(now)
          BY <4>1, <4>2, <4>10, <5>1
        <5> HIDE DEF After
        <5> QED
          BY <5>1, <5>2
      <4> QED
        BY <4>8, <4>9, <4>10
    <3> HIDE DEF A
    <3>5. /\ IsFiniteSet(UNION {A[x] : x \in Breaks})
          /\ Cardinality(UNION {A[x] : x \in Breaks}) <= Interruptions * (MaxGap - 1)
      <4>1. MaxGap - 1 \in Nat
        BY <2>7, ReportAssumption
      <4> QED
        BY <3>1, <3>3, <4>1, SizeOfUnion
    <3>6. /\ IsFiniteSet(wrong) /\ Cardinality(wrong) \in Nat
          /\ Cardinality(wrong) <= Cardinality(UNION {A[x] : x \in Breaks})
      BY <3>4, <3>5, FS_Subset, FS_CardinalityType
    <3>7. IsFiniteSet(used) /\ Cardinality(used) \in Nat
      <4>1. used \subseteq 0..(now - 1)
        BY <2>5 DEF used, UsedBy
      <4>2. IsFiniteSet(0..(now - 1))
        BY <2>1, FS_Interval
      <4> QED
        BY <4>1, <4>2, FS_Subset, FS_CardinalityType
    <3>8. Cardinality(ticks) <= Cardinality(used) + Cardinality(wrong)
      <4>1. ticks \subseteq used \cup wrong
        BY DEF wrong
      <4>2. /\ IsFiniteSet(used \cup wrong)
            /\ Cardinality(used \cup wrong)
               = Cardinality(used) + Cardinality(wrong) - Cardinality(used \cap wrong)
        BY <3>6, <3>7, FS_Union
      <4>3. Cardinality(used \cap wrong) \in Nat
        BY <3>6, FS_Subset, FS_CardinalityType
      <4>4. Cardinality(ticks) <= Cardinality(used \cup wrong)
        BY <4>1, <4>2, FS_Subset
      <4>5. Cardinality(ticks) \in Nat
        BY <2>4, FS_CardinalityType
      <4> QED
        BY <3>6, <3>7, <4>2, <4>3, <4>4, <4>5
    <3>9. Cardinality(ticks) \in Nat /\ Interruptions * (MaxGap - 1) \in Nat
          /\ Cardinality(UNION {A[x] : x \in Breaks}) \in Nat
      <4>1. Interruptions \in Nat /\ MaxGap - 1 \in Nat
        BY <2>7, <3>1, FS_CardinalityType, ReportAssumption
      <4> QED
        BY <2>4, <3>5, <4>1, Distribute, FS_CardinalityType
    <3> HIDE DEF reported
    <3> QED
      BY <2>4, <3>5, <3>6, <3>7, <3>8, <3>9
  <2> QED
    BY <2>6, <2>7 DEF used
<1> QED
  BY <1>1, InvAlways, StoryAlways, PTL

=============================================================================
