-------------------------- MODULE CollectorProofs --------------------------
(***************************************************************************)
(* Proofs about Collector.  A segment at the end of a tape adds to its     *)
(* app's time and to no other's (SegmentAdds), so what is laid out for new *)
(* totals, besides rows that tell the old ones, tells the new ones         *)
(* (LayoutTells), in whatever chunks and how often it is posted; and the   *)
(* server counts what the rows tell (CountedIsShown).  IInv says what the  *)
(* rows tell while uploads are under way or were broken off.               *)
(***************************************************************************)
EXTENDS Collector, Sums, SequenceTheorems

\* The function that begins with base and goes on step by step.
Walks(f, n, base, step) == f[0] = base /\ \A i \in 1..n : f[i] = step[i][f[i - 1]]

\* A function that is defined step by step exists.
LEMMA StepsExist ==
    ASSUME NEW S, NEW n \in Nat, NEW base \in S, NEW step \in [1..n -> [S -> S]]
    PROVE  \E f \in [0..n -> S] : Walks(f, n, base, step)
<1> DEFINE Upto(k, f) == f[0] = base /\ \A i \in 1..k : f[i] = step[i][f[i - 1]]
           P == {k \in Nat : k <= n => \E f \in [0..k -> S] : Upto(k, f)}
<1>1. 0 \in P
  <2>1. [i \in 0..0 |-> base] \in [0..0 -> S] /\ Upto(0, [i \in 0..0 |-> base])
    OBVIOUS
  <2> QED
    BY <2>1
<1>2. ASSUME NEW k \in Nat, k \in P
      PROVE  k + 1 \in P
  <2> SUFFICES ASSUME k + 1 <= n
               PROVE  \E f \in [0..(k + 1) -> S] : Upto(k + 1, f)
    OBVIOUS
  <2>1. PICK f \in [0..k -> S] : Upto(k, f)
    BY <1>2
  <2> DEFINE next == step[k + 1][f[k]]
             g == [i \in 0..(k + 1) |-> IF i = k + 1 THEN next ELSE f[i]]
  <2>2. next \in S
    <3>1. step[k + 1] \in [S -> S] /\ f[k] \in S
      OBVIOUS
    <3> QED
      BY <3>1
  <2>3. g \in [0..(k + 1) -> S]
    BY <2>2
  <2>4. \A i \in 0..k : g[i] = f[i]
    OBVIOUS
  <2>5. g[k + 1] = next
    OBVIOUS
  <2> HIDE DEF g, next
  <2>6. g[0] = base
    BY <2>1, <2>4
  <2>7. ASSUME NEW i \in 1..(k + 1)
        PROVE  g[i] = step[i][g[i - 1]]
    <3>1. CASE i \in 1..k
      <4>1. i \in 0..k /\ i - 1 \in 0..k
        BY <3>1
      <4> QED
        BY <2>1, <2>4, <3>1, <4>1
    <3>2. CASE i = k + 1
      <4>1. i - 1 = k /\ k \in 0..k
        BY <3>2
      <4> QED
        BY <2>4, <2>5, <3>2, <4>1 DEF next
    <3> QED
      BY <3>1, <3>2
  <2> QED
    BY <2>3, <2>6, <2>7
<1> HIDE DEF P
<1>3. n \in P
  BY <1>1, <1>2, NatSetInduction
<1> QED
  BY <1>3 DEF P, Walks

-----------------------------------------------------------------------------
(* Sequences and the sets of what is in them.                              *)

\* What a concatenation holds.
LEMMA ToSetConcat ==
    ASSUME NEW S, NEW s \in Seq(S), NEW t \in Seq(S)
    PROVE  s \o t \in Seq(S) /\ ToSet(s \o t) = ToSet(s) \cup ToSet(t)
<1>1. /\ s \o t \in Seq(S) /\ Len(s \o t) = Len(s) + Len(t) /\ Len(s) \in Nat /\ Len(t) \in Nat
      /\ \A i \in 1..Len(s) : (s \o t)[i] = s[i]
      /\ \A i \in 1..Len(t) : (s \o t)[Len(s) + i] = t[i]
  OBVIOUS
<1>2. DOMAIN s = 1..Len(s) /\ DOMAIN t = 1..Len(t) /\ DOMAIN (s \o t) = 1..Len(s \o t)
  BY <1>1
<1>3. \A i \in 1..Len(s \o t) : i \in 1..Len(s) \/ (i - Len(s) \in 1..Len(t) /\ i = Len(s) + (i - Len(s)))
  BY <1>1
<1>4. \A i \in 1..Len(s) : i \in 1..Len(s \o t)
  BY <1>1
<1>5. \A i \in 1..Len(t) : Len(s) + i \in 1..Len(s \o t)
  BY <1>1
<1>6. ToSet(s) \cup ToSet(t) \subseteq ToSet(s \o t)
  BY <1>1, <1>2, <1>4, <1>5 DEF ToSet
<1>7. ToSet(s \o t) \subseteq ToSet(s) \cup ToSet(t)
  BY <1>1, <1>2, <1>3 DEF ToSet
<1> QED
  BY <1>1, <1>6, <1>7

\* What short sequences hold.
LEMMA ToSetOne == ASSUME NEW x PROVE ToSet(<<x>>) = {x} /\ ToSet(<<>>) = {}
  BY DEF ToSet

\* What a run posts, and what it leaves for later.
LEMMA ToSetSplit ==
    ASSUME NEW S, NEW s \in Seq(S), NEW k \in 0..Len(s)
    PROVE  /\ SubSeq(s, 1, k) \in Seq(S) /\ Len(SubSeq(s, 1, k)) = k
           /\ SubSeq(s, k + 1, Len(s)) \in Seq(S)
           /\ ToSet(s) = ToSet(SubSeq(s, 1, k)) \cup ToSet(SubSeq(s, k + 1, Len(s)))
<1> DEFINE n == Len(s)
           a == SubSeq(s, 1, k)
           b == SubSeq(s, k + 1, n)
<1>1. n \in Nat /\ k \in 0..n /\ DOMAIN s = 1..n /\ \A i \in 1..n : s[i] \in S
  OBVIOUS
<1>2. /\ a \in Seq(S) /\ Len(a) = k /\ DOMAIN a = 1..k /\ \A i \in 1..k : a[i] = s[i]
  <2>1. \A i \in 1..k : s[i] \in S
    BY <1>1
  <2>2. /\ a \in Seq(S) /\ Len(a) = IF 1 <= k THEN k - 1 + 1 ELSE 0
        /\ \A i \in 1..(k - 1 + 1) : a[i] = s[1 + i - 1]
    BY <1>1, <2>1, SubSeqProperties
  <2> HIDE DEF a
  <2>3. Len(a) = k /\ k - 1 + 1 = k /\ \A i \in 1..k : 1 + i - 1 = i
    BY <1>1, <2>2
  <2> QED
    BY <2>2, <2>3
<1>3. /\ b \in Seq(S) /\ Len(b) = n - k /\ DOMAIN b = 1..(n - k)
      /\ \A i \in 1..(n - k) : b[i] = s[k + i]
  <2>1. \A i \in (k + 1)..n : s[i] \in S
    BY <1>1
  <2>2. /\ b \in Seq(S) /\ Len(b) = IF k + 1 <= n THEN n - (k + 1) + 1 ELSE 0
        /\ \A i \in 1..(n - (k + 1) + 1) : b[i] = s[k + 1 + i - 1]
    BY <1>1, <2>1, SubSeqProperties
  <2> HIDE DEF b, n
  <2>3. Len(b) = n - k /\ n - (k + 1) + 1 = n - k /\ \A i \in 1..(n - k) : k + 1 + i - 1 = k + i
    BY <1>1, <2>2
  <2> QED
    BY <2>2, <2>3
<1> HIDE DEF a, b, n
<1>4. \A i \in 1..n : i \in 1..k \/ (i - k \in 1..(n - k) /\ k + (i - k) = i)
  BY <1>1
<1>5. \A i \in 1..(n - k) : k + i \in 1..n
  BY <1>1
<1>6. ToSet(s) \subseteq ToSet(a) \cup ToSet(b)
  <2>1. ASSUME NEW i \in 1..n
        PROVE  s[i] \in ToSet(a) \cup ToSet(b)
    <3>1. CASE i \in 1..k
      BY <1>2, <3>1 DEF ToSet
    <3>2. CASE i - k \in 1..(n - k) /\ k + (i - k) = i
      <4>1. b[i - k] = s[i]
        BY <1>3, <3>2
      <4> QED
        BY <1>3, <3>2, <4>1 DEF ToSet
    <3> QED
      BY <1>4, <3>1, <3>2
  <2> QED
    BY <1>1, <2>1 DEF ToSet
<1>7. ToSet(a) \cup ToSet(b) \subseteq ToSet(s)
  <2>1. \A i \in 1..k : a[i] \in ToSet(s)
    <3>1. \A i \in 1..k : i \in 1..n
      BY <1>1
    <3> QED
      BY <1>1, <1>2, <3>1 DEF ToSet
  <2>2. \A i \in 1..(n - k) : b[i] \in ToSet(s)
    BY <1>1, <1>3, <1>5 DEF ToSet
  <2> QED
    BY <1>2, <1>3, <2>1, <2>2 DEF ToSet
<1> QED
  BY <1>2, <1>3, <1>6, <1>7 DEF a, b, n

-----------------------------------------------------------------------------
(* What the server has of what is posted.                                  *)

Injective(s) == \A i, j \in DOMAIN s : s[i] = s[j] => i = j

\* The loop of InsertEvents, event by event.
LEMMA InsertedSteps ==
    ASSUME NEW S, NEW old \in Seq(S), NEW chunk \in Seq(S)
    PROVE  LET after == Inserted(old, chunk)
           IN  /\ after[0] = old
               /\ \A i \in 1..Len(chunk) :
                     after[i] = IF Contains(after[i - 1], chunk[i]) THEN after[i - 1]
                                ELSE Append(after[i - 1], chunk[i])
<1> DEFINE n == Len(chunk)
           Body(g) == [i \in 0..n |-> IF i = 0 THEN old
                                      ELSE IF Contains(g[i - 1], chunk[i]) THEN g[i - 1]
                                      ELSE Append(g[i - 1], chunk[i])]
           step == [i \in 1..n |-> [s \in Seq(S) |->
                        IF Contains(s, chunk[i]) THEN s ELSE Append(s, chunk[i])]]
<1>1. n \in Nat /\ \A i \in 1..n : chunk[i] \in S
  OBVIOUS
<1>2. step \in [1..n -> [Seq(S) -> Seq(S)]]
  <2> HIDE DEF n
  <2>1. \A i \in 1..n, s \in Seq(S) : Append(s, chunk[i]) \in Seq(S)
    BY <1>1
  <2> QED
    BY <2>1
<1>3. PICK f \in [0..n -> Seq(S)] : f[0] = old /\ \A i \in 1..n : f[i] = step[i][f[i - 1]]
  <2> DEFINE T == Seq(S)
  <2>1. n \in Nat /\ old \in T /\ step \in [1..n -> [T -> T]]
    BY <1>1, <1>2
  <2> HIDE DEF step, n, T
  <2>2. \E f \in [0..n -> T] : Walks(f, n, old, step)
    BY <2>1, StepsExist
  <2> QED
    BY <2>2 DEF T, Walks
<1>4. f = Body(f)
  <2> HIDE DEF n
  <2>1. ASSUME NEW i \in 0..n
        PROVE  f[i] = Body(f)[i]
    <3>1. CASE i = 0
      BY <1>3, <3>1
    <3>2. CASE i # 0
      <4>1. i \in 1..n /\ i - 1 \in 0..n
        BY <1>1, <3>2
      <4>2. f[i - 1] \in Seq(S)
        BY <4>1
      <4> QED
        BY <1>3, <3>2, <4>1, <4>2
    <3> QED
      BY <3>1, <3>2
  <2> QED
    BY <2>1
<1>5. Inserted(old, chunk) = CHOOSE g : g = Body(g)
  BY DEF Inserted
<1> DEFINE after == Inserted(old, chunk)
<1>6. after = Body(after)
  <2> HIDE DEF Body
  <2> QED
    BY <1>4, <1>5
<1> HIDE DEF after, step
<1>7. after[0] = old
  BY <1>1, <1>6
<1>8. ASSUME NEW i \in 1..n
      PROVE  after[i] = IF Contains(after[i - 1], chunk[i]) THEN after[i - 1]
                        ELSE Append(after[i - 1], chunk[i])
  <2> HIDE DEF n
  <2>1. i \in 0..n /\ i # 0
    BY <1>1
  <2>2. after[i] = Body(after)[i]
    BY <1>6
  <2> QED
    BY <2>1, <2>2
<1> QED
  BY <1>7, <1>8 DEF after

\* Rows are never doubled, and the server has afterwards what it had and what was posted.
LEMMA InsertedFacts ==
    ASSUME NEW S, NEW old \in Seq(S), NEW chunk \in Seq(S), Injective(old)
    PROVE  LET new == Inserted(old, chunk)[Len(chunk)]
           IN  new \in Seq(S) /\ Injective(new) /\ ToSet(new) = ToSet(old) \cup ToSet(chunk)
<1> DEFINE after == Inserted(old, chunk)
           n == Len(chunk)
           Said(i) == {chunk[j] : j \in 1..i}
           P == {i \in Nat : i <= n => /\ after[i] \in Seq(S) /\ Injective(after[i])
                                       /\ ToSet(after[i]) = ToSet(old) \cup Said(i)}
<1>1. n \in Nat /\ DOMAIN chunk = 1..n /\ \A i \in 1..n : chunk[i] \in S
  OBVIOUS
<1>2. /\ after[0] = old
      /\ \A i \in 1..n : after[i] = IF Contains(after[i - 1], chunk[i]) THEN after[i - 1]
                                    ELSE Append(after[i - 1], chunk[i])
  BY InsertedSteps
<1> HIDE DEF after, n
<1>3. 0 \in P
  <2>1. Said(0) = {}
    OBVIOUS
  <2> QED
    BY <1>2, <2>1
<1>4. ASSUME NEW i \in Nat, i \in P
      PROVE  i + 1 \in P
  <2> SUFFICES ASSUME i + 1 <= n
               PROVE  /\ after[i + 1] \in Seq(S) /\ Injective(after[i + 1])
                      /\ ToSet(after[i + 1]) = ToSet(old) \cup Said(i + 1)
    OBVIOUS
  <2> DEFINE s == after[i]
             x == chunk[i + 1]
  <2>1. s \in Seq(S) /\ Injective(s) /\ ToSet(s) = ToSet(old) \cup Said(i)
    <3>1. i <= n
      BY <1>1
    <3> QED
      BY <1>4, <3>1
  <2>2. i + 1 \in 1..n /\ i + 1 - 1 = i /\ x \in S
    BY <1>1
  <2>3. after[i + 1] = IF Contains(s, x) THEN s ELSE Append(s, x)
    BY <1>2, <2>2
  <2>4. Said(i + 1) = Said(i) \cup {x}
    <3>1. \A j \in 1..(i + 1) : j \in 1..i \/ j = i + 1
      OBVIOUS
    <3>2. \A j \in 1..i : j \in 1..(i + 1)
      OBVIOUS
    <3> QED
      BY <2>2, <3>1, <3>2
  <2> HIDE DEF s, x, Said
  <2>5. Contains(s, x) <=> x \in ToSet(s)
    BY <2>1 DEF Contains, ToSet
  <2>6. CASE Contains(s, x)
    BY <2>1, <2>3, <2>4, <2>5, <2>6
  <2>7. CASE ~ Contains(s, x)
    <3> DEFINE t == Append(s, x)
    <3>1. /\ t \in Seq(S) /\ Len(t) = Len(s) + 1 /\ Len(s) \in Nat
          /\ DOMAIN s = 1..Len(s) /\ DOMAIN t = 1..(Len(s) + 1)
          /\ \A j \in 1..Len(s) : t[j] = s[j]
          /\ t[Len(s) + 1] = x
      BY <2>1, <2>2
    <3>2. after[i + 1] = t
      BY <2>3, <2>7
    <3> HIDE DEF t
    <3>3. \A j \in 1..(Len(s) + 1) : j \in 1..Len(s) \/ j = Len(s) + 1
      BY <3>1
    <3>4. \A j \in 1..Len(s) : s[j] # x
      BY <2>7 DEF Contains
    <3>5. Injective(t)
      BY <2>1, <3>1, <3>3, <3>4 DEF Injective
    <3>6. ToSet(t) = ToSet(s) \cup {x}
      <4>1. \A j \in 1..Len(s) : j \in 1..(Len(s) + 1)
        BY <3>1
      <4>2. Len(s) + 1 \in 1..(Len(s) + 1)
        BY <3>1
      <4>3. ToSet(s) \cup {x} \subseteq ToSet(t)
        BY <3>1, <4>1, <4>2 DEF ToSet
      <4>4. ToSet(t) \subseteq ToSet(s) \cup {x}
        BY <3>1, <3>3 DEF ToSet
      <4> QED
        BY <4>3, <4>4
    <3> QED
      BY <2>1, <2>4, <3>1, <3>2, <3>5, <3>6
  <2> QED
    BY <2>6, <2>7
<1> HIDE DEF P
<1>5. n \in P
  BY <1>1, <1>3, <1>4, NatSetInduction
<1>6. ToSet(chunk) = Said(n)
  BY <1>1 DEF ToSet
<1> QED
  BY <1>1, <1>5, <1>6 DEF P, after, n

-----------------------------------------------------------------------------
(* The tape.                                                               *)

\* The apps and the distances.
LEMMA AppFacts ==
    /\ IsFiniteSet(App) /\ App \subseteq Nat /\ Idle \notin App /\ Idle = 0
    /\ Heartbeat \in Nat \ {0} /\ MaxGap \in Nat /\ Heartbeat <= MaxGap
<1>1. Apps \in Nat /\ Heartbeat \in 1..MaxGap /\ MaxGap \in Nat
  BY CollectorAssumption
<1> QED
  BY <1>1, FS_Interval DEF App, Idle

\* A tape begins where all that was recorded before ends.
LEMMA TapeStartNat ==
    ASSUME NEW F \in [App -> Nat]
    PROVE  TapeStart(F) \in Nat /\ \A a \in App : F[a] <= TapeStart(F)
<1>1. IsFiniteSet(App) /\ \A a \in App : F[a] \in Nat
  BY AppFacts
<1>2. TapeStart(F) = SumFunctionOnSet(F, App)
  BY DEF TapeStart, SumFunction
<1>3. SumFunctionOnSet(F, App) \in Nat
  BY <1>1, SumNat
<1>4. \A a \in App : F[a] <= SumFunctionOnSet(F, App)
  BY <1>1, TermLeqSum
<1> QED
  BY <1>2, <1>3, <1>4

\* A segment moves the end of the tape by its length.
LEMMA TapeStartAdd ==
    ASSUME NEW F \in [App -> Nat], NEW a \in App, NEW d \in Nat
    PROVE  TapeStart([F EXCEPT ![a] = @ + d]) = TapeStart(F) + d
<1> DEFINE G == [F EXCEPT ![a] = @ + d]
           rest == App \ {a}
<1>1. G \in [App -> Nat] /\ G[a] = F[a] + d /\ \A b \in rest : G[b] = F[b]
  OBVIOUS
<1>2. TapeStart(F) = SumFunctionOnSet(F, App) /\ TapeStart(G) = SumFunctionOnSet(G, App)
  BY <1>1 DEF TapeStart, SumFunction
<1>3. /\ IsFiniteSet(App) /\ IsFiniteSet(rest)
      /\ \A b \in App : F[b] \in Int /\ G[b] \in Int
  BY <1>1, AppFacts, FS_RemoveElement
<1> HIDE DEF G
<1>4. SumFunctionOnSet(F, App) = F[a] + SumFunctionOnSet(F, rest)
  BY <1>3, SumTake
<1>5. SumFunctionOnSet(G, App) = G[a] + SumFunctionOnSet(G, rest)
  BY <1>3, SumTake
<1>6. SumFunctionOnSet(G, rest) = SumFunctionOnSet(F, rest)
  <2>1. \A b \in rest : F[b] \in Int /\ G[b] = F[b]
    BY <1>1, <1>3
  <2> HIDE DEF rest
  <2> QED
    BY <1>3, <2>1, SumSame
<1>7. SumFunctionOnSet(F, rest) \in Int
  BY <1>3, SumInt
<1>8. TapeStart(G) = TapeStart(F) + d
  BY <1>1, <1>2, <1>4, <1>5, <1>6, <1>7
<1> QED
  BY <1>8 DEF G

\* Multiples of a distance are at least that far apart.
LEMMA Multiples ==
    ASSUME NEW h \in Nat, NEW i \in Nat, NEW j \in Nat
    PROVE  /\ i * h \in Nat
           /\ i < j => i * h + h <= j * h
<1>1. i * h \in Nat
  OBVIOUS
<1>2. ASSUME i < j
      PROVE  i * h + h <= j * h
  <2> DEFINE e == j - (i + 1)
  <2>1. e \in Nat /\ j = i + 1 + e
    BY <1>2
  <2> HIDE DEF e
  <2>2. (i + 1 + e) * h = i * h + h + e * h
    BY <2>1
  <2>3. e * h \in Nat
    BY <2>1
  <2> QED
    BY <1>1, <2>1, <2>2, <2>3
<1> QED
  BY <1>1, <1>2

\* Every second of a segment is within a heartbeat of the last beat before it.
LEMMA BeatsFacts ==
    ASSUME NEW d \in Nat \ {0}
    PROVE  /\ \E n \in Nat : DOMAIN Beats(d) = 1..n
           /\ \A k \in DOMAIN Beats(d) : Beats(d)[k] \in 0..(d - 1)
           /\ \A t \in 0..(d - 1) : \E k \in DOMAIN Beats(d) :
                /\ Beats(d)[k] <= t /\ t < Beats(d)[k] + Heartbeat
                /\ \A j \in DOMAIN Beats(d) : Beats(d)[j] <= Beats(d)[k] \/ t < Beats(d)[j]
<1> DEFINE n == (d - 1) \div Heartbeat + 1
           H == Heartbeat
<1>1. H \in Nat \ {0}
  BY AppFacts
<1>2. /\ (d - 1) \div H \in Nat /\ (d - 1) % H \in 0..(H - 1)
      /\ d - 1 = H * ((d - 1) \div H) + ((d - 1) % H)
  <2>1. d - 1 \in Nat
    OBVIOUS
  <2> HIDE DEF H
  <2> QED
    BY <1>1, <2>1, DivNat
<1>3. n \in Nat \ {0}
  BY <1>2
<1>4. Beats(d) = [k \in 1..n |-> (k - 1) * H]
  BY DEF Beats
<1> HIDE DEF H
<1>5. ASSUME NEW k \in 1..n
      PROVE  Beats(d)[k] \in 0..(d - 1)
  <2> DEFINE q == (d - 1) \div H
  <2>1. q \in Nat /\ k - 1 \in Nat /\ k - 1 <= q /\ Beats(d)[k] = (k - 1) * H /\ H \in Nat
    BY <1>1, <1>2, <1>4 DEF H
  <2>2. q * H = H * q /\ q * H \in Nat /\ q * H <= d - 1
    BY <1>1, <1>2
  <2> HIDE DEF q, n
  <2>3. (k - 1) * H \in Nat /\ (k - 1 < q => (k - 1) * H + H <= q * H)
    BY <2>1, Multiples
  <2>4. (k - 1) * H <= q * H
    BY <2>1, <2>2, <2>3
  <2> QED
    BY <2>1, <2>2, <2>3, <2>4
<1>6. DOMAIN Beats(d) = 1..n
  BY <1>4
<1>7. ASSUME NEW t \in 0..(d - 1)
      PROVE  \E k \in DOMAIN Beats(d) :
                /\ Beats(d)[k] <= t /\ t < Beats(d)[k] + H
                /\ \A j \in DOMAIN Beats(d) : Beats(d)[j] <= Beats(d)[k] \/ t < Beats(d)[j]
  <2> DEFINE q == t \div H
             k == q + 1
  <2>1. q \in Nat /\ t = q * H + (t % H) /\ t % H \in 0..(H - 1) /\ q * H \in Nat
    <3>1. t \in Nat /\ H \in Nat \ {0}
      BY <1>1
    <3>2. q \in Nat /\ t % H \in 0..(H - 1) /\ t = H * q + (t % H)
      BY <3>1, DivNat
    <3> HIDE DEF q
    <3> QED
      BY <3>1, <3>2
  <2>2. q <= (d - 1) \div H
    BY <1>1, DivMono
  <2> HIDE DEF q
  <2>3. k \in 1..n /\ k - 1 = q
    BY <1>2, <2>1, <2>2 DEF H
  <2>4. Beats(d)[k] = q * H
    BY <1>4, <2>3
  <2>5. Beats(d)[k] <= t /\ t < Beats(d)[k] + H
    BY <1>1, <2>1, <2>4
  <2>6. ASSUME NEW j \in 1..n
        PROVE  Beats(d)[j] <= Beats(d)[k] \/ t < Beats(d)[j]
    <3>1. j - 1 \in Nat /\ Beats(d)[j] = (j - 1) * H /\ H \in Nat
      BY <1>1, <1>3, <1>4
    <3> HIDE DEF k, n
    <3>2. (j - 1) * H \in Nat /\ (j - 1 < q => (j - 1) * H + H <= q * H)
      BY <2>1, <3>1, Multiples
    <3>3. q < j - 1 => q * H + H <= (j - 1) * H
      BY <2>1, <3>1, Multiples
    <3>4. j - 1 < q \/ j - 1 = q \/ q < j - 1
      BY <2>1, <3>1
    <3> QED
      BY <2>1, <2>4, <2>5, <3>1, <3>2, <3>3, <3>4
  <2> HIDE DEF k, n
  <2> QED
    BY <1>6, <2>3, <2>5, <2>6
<1> HIDE DEF n
<1> QED
  BY <1>3, <1>5, <1>6, <1>7 DEF H

\* An app's heartbeats, and the idle after them.
LEMMA SegmentFacts ==
    ASSUME NEW a \in App, NEW off \in Nat, NEW d \in Nat \ {0}
    PROVE  /\ Segment(a, off, d) \in Seq(Event)
           /\ ToSet(Segment(a, off, d)) =
                {[app |-> a, at |-> off + Beats(d)[k]] : k \in DOMAIN Beats(d)}
                    \cup {[app |-> Idle, at |-> off + d]}
<1> DEFINE beats == Beats(d)
           s == [k \in DOMAIN beats |-> [app |-> a, at |-> off + beats[k]]]
           e == [app |-> Idle, at |-> off + d]
<1>1. PICK n \in Nat : DOMAIN beats = 1..n
  BY BeatsFacts
<1>2. e \in Event /\ <<e>> \in Seq(Event)
  BY DEF Event
<1>3. s \in Seq(Event)
  <2>0. \A k \in DOMAIN beats : beats[k] \in 0..(d - 1)
    BY BeatsFacts
  <2> HIDE DEF beats
  <2>1. \A k \in 1..n : [app |-> a, at |-> off + beats[k]] \in Event
    BY <1>1, <2>0 DEF Event
  <2>2. s \in [1..n -> Event]
    BY <1>1, <2>1
  <2> HIDE DEF s
  <2> QED
    BY <1>1, <2>2, SeqDef
<1>4. ToSet(s) = {[app |-> a, at |-> off + beats[k]] : k \in DOMAIN beats}
  <2> HIDE DEF beats
  <2> QED
    BY DEF ToSet
<1>5. ToSet(<<e>>) = {e}
  BY ToSetOne
<1>6. Segment(a, off, d) = s \o <<e>>
  BY DEF Segment
<1> HIDE DEF s, e, beats
<1>7. s \o <<e>> \in Seq(Event) /\ ToSet(s \o <<e>>) = ToSet(s) \cup ToSet(<<e>>)
  BY <1>2, <1>3, ToSetConcat
<1> QED
  BY <1>4, <1>5, <1>6, <1>7 DEF e, beats

\* The seconds that the server counts for an app, of rows R.
Shown(R, a) ==
    {t \in Nat : \E e \in R : /\ e.app = a /\ e.at <= t /\ t < e.at + MaxGap
                              /\ \A f \in R : f.at <= e.at \/ t < f.at}

\* Rows R tell the totals F, and a tape goes on where they end.
Exact(R, F) ==
    /\ R \subseteq Event
    /\ \A e \in R : e.at <= TapeStart(F) /\ (e.app # Idle => e.at < TapeStart(F))
    /\ TapeStart(F) > 0 => [app |-> Idle, at |-> TapeStart(F)] \in R
    /\ \A e, f \in R : e.app # Idle /\ f.app # Idle /\ e.at = f.at => e = f
    /\ \A a \in App : IsFiniteSet(Shown(R, a)) /\ Cardinality(Shown(R, a)) = F[a]

\* No rows tell that nothing was used.
LEMMA NothingExact ==
    ASSUME NEW F \in [App -> Nat], \A a \in App : F[a] = 0
    PROVE  Exact({}, F)
<1>1. TapeStart(F) = 0
  BY AppFacts, SumZero DEF TapeStart, SumFunction
<1>2. \A a \in App : Shown({}, a) = {}
  BY DEF Shown
<1> QED
  BY <1>1, <1>2, FS_EmptySet DEF Exact

\* A segment at the end of a tape tells its app's new total, and leaves the others alone.
LEMMA SegmentAdds ==
    ASSUME NEW F \in [App -> Nat], NEW R, Exact(R, F), NEW a \in App, NEW d \in Nat \ {0}
    PROVE  Exact(R \cup ToSet(Segment(a, TapeStart(F), d)), [F EXCEPT ![a] = @ + d])
<1> DEFINE n == TapeStart(F)
           G == [F EXCEPT ![a] = @ + d]
           beats == Beats(d)
           K == DOMAIN beats
           beat(k) == [app |-> a, at |-> n + beats[k]]
           last == [app |-> Idle, at |-> n + d]
           S == {beat(k) : k \in K} \cup {last}
           All == R \cup S
<1>1. /\ n \in Nat /\ d \in Nat /\ d > 0 /\ a # Idle /\ a \in Nat
      /\ TapeStart(G) = n + d
      /\ G \in [App -> Nat] /\ G[a] = F[a] + d /\ \A b \in App : b # a => G[b] = F[b]
  <2>1. a # Idle /\ a \in Nat
    BY AppFacts
  <2>2. n \in Nat
    BY TapeStartNat
  <2>3. TapeStart(G) = n + d
    BY TapeStartAdd
  <2> HIDE DEF n
  <2> QED
    BY <2>1, <2>2, <2>3
<1>2. ToSet(Segment(a, n, d)) = S
  BY <1>1, SegmentFacts
<1>3. /\ \A k \in K : beats[k] \in 0..(d - 1)
      /\ \A t \in 0..(d - 1) : \E k \in K :
            /\ beats[k] <= t /\ t < beats[k] + Heartbeat
            /\ \A j \in K : beats[j] <= beats[k] \/ t < beats[j]
  <2>1. d \in Nat \ {0}
    OBVIOUS
  <2> QED
    BY <2>1, BeatsFacts
<1>4. /\ R \subseteq Event
      /\ \A e \in R : e.at \in Nat /\ e.at <= n /\ (e.app # Idle => e.at < n)
      /\ n > 0 => [app |-> Idle, at |-> n] \in R
      /\ \A e, f \in R : e.app # Idle /\ f.app # Idle /\ e.at = f.at => e = f
      /\ \A b \in App : IsFiniteSet(Shown(R, b)) /\ Cardinality(Shown(R, b)) = F[b]
  BY DEF Exact, Event
<1>5. MaxGap \in Nat /\ Heartbeat \in Nat /\ Heartbeat <= MaxGap
  BY AppFacts
<1> HIDE DEF n, G, beats, K
<1>6. S \subseteq Event
  BY <1>1, <1>3 DEF Event
<1>7. \A e \in S : /\ e.at \in Nat /\ n <= e.at /\ e.at <= n + d
                   /\ e.app # Idle => e.app = a /\ e.at < n + d
  BY <1>1, <1>3
<1>8. \A e, f \in S : e.app # Idle /\ f.app # Idle /\ e.at = f.at => e = f
  BY <1>1, <1>3
<1>9. last \in S /\ last.at = n + d
  OBVIOUS
<1>10. \A k \in K : beat(k) \in S /\ beat(k).app = a /\ beat(k).at = n + beats[k]
  OBVIOUS
<1>11. \A f \in S : f.at = n + d \/ \E j \in K : f.at = n + beats[j]
  OBVIOUS
<1> HIDE DEF beat, last, S
<1>12. \A e \in All : e.at <= n + d /\ (e.app # Idle => e.at < n + d)
  BY <1>1, <1>4, <1>7
<1>13. \A e, f \in All : e.app # Idle /\ f.app # Idle /\ e.at = f.at => e = f
  BY <1>1, <1>4, <1>7, <1>8
\* What the old rows show is before the segment.
<1>14. ASSUME NEW b \in App, NEW t \in Nat
       PROVE  /\ t \in Shown(R, b) => t < n
              /\ t < n => (t \in Shown(All, b) <=> t \in Shown(R, b))
  <2>1. ASSUME NEW e \in R, e.app = b, \A f \in R : f.at <= e.at \/ t < f.at
        PROVE  t < n
    <3>1. e.at < n /\ e.at \in Nat
      BY <1>4, <2>1, AppFacts
    <3>2. n > 0
      BY <1>1, <3>1
    <3>3. [app |-> Idle, at |-> n].at = n
      OBVIOUS
    <3>4. n <= e.at \/ t < n
      BY <1>4, <2>1, <3>2, <3>3
    <3> QED
      BY <1>1, <3>1, <3>4
  <2>2. ASSUME t < n
        PROVE  t \in Shown(All, b) <=> t \in Shown(R, b)
    <3>1. \A e \in S : ~ (e.at <= t) /\ t < e.at
      BY <1>1, <1>7, <2>2
    <3> QED
      BY <3>1 DEF Shown
  <2> QED
    BY <2>1, <2>2 DEF Shown
\* What is shown after the old tape is the segment.
<1>15. ASSUME NEW b \in App, NEW t \in Nat, n <= t
       PROVE  t \in Shown(All, b) <=> b = a /\ t < n + d
  <2>1. ASSUME t \in Shown(All, b)
        PROVE  b = a /\ t < n + d
    <3>1. PICK e \in All : /\ e.app = b /\ e.at <= t
                           /\ \A f \in All : f.at <= e.at \/ t < f.at
      BY <2>1 DEF Shown
    <3>2. e \notin R
      <4> SUFFICES ASSUME e \in R
                   PROVE  t \in Shown(R, b)
        BY <1>1, <1>14, <1>15
      <4>1. t < e.at + MaxGap \/ ~ (t < e.at + MaxGap)
        OBVIOUS
      <4>2. e.at < n /\ e.at \in Nat
        BY <1>4, <3>1, AppFacts
      <4>3. n > 0 /\ [app |-> Idle, at |-> n].at = n
        BY <1>1, <4>2
      <4>4. n <= e.at \/ t < n
        BY <1>4, <3>1, <4>3
      <4> QED
        BY <1>1, <1>15, <4>2, <4>4
    <3>3. e \in S /\ e.app # Idle
      BY <3>1, <3>2, AppFacts
    <3>4. e.app = a /\ e.at < n + d /\ e.at \in Nat
      BY <1>7, <3>3
    <3>5. last.at <= e.at \/ t < last.at
      BY <1>9, <3>1
    <3> QED
      BY <1>1, <1>9, <3>1, <3>4, <3>5
  <2>2. ASSUME b = a, t < n + d
        PROVE  t \in Shown(All, b)
    <3>1. t - n \in 0..(d - 1)
      BY <1>1, <1>15, <2>2
    <3>2. PICK k \in K : /\ beats[k] <= t - n /\ t - n < beats[k] + Heartbeat
                         /\ \A j \in K : beats[j] <= beats[k] \/ t - n < beats[j]
      BY <1>3, <3>1
    <3>3. beat(k) \in All /\ beat(k).app = a /\ beat(k).at = n + beats[k]
      BY <1>10
    <3>4. beats[k] \in Nat
      BY <1>1, <1>3
    <3>5. n + beats[k] <= t /\ t < n + beats[k] + MaxGap
      BY <1>1, <1>5, <3>2, <3>4
    <3>6. ASSUME NEW f \in All
          PROVE  f.at <= n + beats[k] \/ t < f.at
      <4>1. CASE f \in R
        BY <1>1, <1>4, <3>4, <4>1
      <4>2. CASE f \in S
        <5>1. CASE f.at = n + d
          BY <2>2, <5>1
        <5>2. ASSUME NEW j \in K, f.at = n + beats[j]
              PROVE  f.at <= n + beats[k] \/ t < f.at
          <6>1. beats[j] \in Nat
            BY <1>1, <1>3
          <6> QED
            BY <1>1, <3>2, <3>4, <5>2, <6>1
        <5> QED
          BY <1>11, <4>2, <5>1, <5>2
      <4> QED
        BY <4>1, <4>2
    <3> QED
      BY <2>2, <3>3, <3>5, <3>6 DEF Shown
  <2> QED
    BY <2>1, <2>2
<1>16. \A b \in App : Shown(All, b) \subseteq Nat /\ Shown(R, b) \subseteq Nat
  BY DEF Shown
<1> HIDE DEF All
<1>17. ASSUME NEW b \in App, b # a
       PROVE  Shown(All, b) = Shown(R, b)
  <2>1. ASSUME NEW t \in Nat
        PROVE  t \in Shown(All, b) <=> t \in Shown(R, b)
    <3>1. t < n \/ n <= t
      BY <1>1
    <3> QED
      BY <1>1, <1>14, <1>15, <1>17, <3>1
  <2> QED
    BY <1>16, <2>1
<1>18. Shown(All, a) = Shown(R, a) \cup (n..(n + d - 1)) /\ Shown(R, a) \cap (n..(n + d - 1)) = {}
  <2>1. ASSUME NEW t \in Nat
        PROVE  /\ t \in Shown(All, a) <=> t \in Shown(R, a) \/ t \in n..(n + d - 1)
               /\ ~ (t \in Shown(R, a) /\ t \in n..(n + d - 1))
    <3>1. t < n \/ n <= t
      BY <1>1
    <3>2. t \in n..(n + d - 1) <=> n <= t /\ t < n + d
      BY <1>1
    <3>3. t \in Shown(R, a) => t < n
      BY <1>14
    <3>4. t < n => ~ (n <= t)
      BY <1>1
    <3> QED
      BY <1>14, <1>15, <3>1, <3>2, <3>3, <3>4
  <2>2. n..(n + d - 1) \subseteq Nat
    BY <1>1
  <2> QED
    BY <1>16, <2>1, <2>2
<1>19. IsFiniteSet(n..(n + d - 1)) /\ Cardinality(n..(n + d - 1)) = d
  <2>1. n \in Int /\ n + d - 1 \in Int /\ ~ (n > n + d - 1) /\ n + d - 1 - n + 1 = d
    BY <1>1
  <2> QED
    BY <2>1, FS_Interval
<1>20. ASSUME NEW b \in App
       PROVE  IsFiniteSet(Shown(All, b)) /\ Cardinality(Shown(All, b)) = G[b]
  <2>1. CASE b # a
    BY <1>1, <1>4, <1>17, <2>1
  <2>2. CASE b = a
    <3>1. /\ IsFiniteSet(Shown(R, a)) /\ Cardinality(Shown(R, a)) = F[a]
      BY <1>4
    <3> DEFINE before == Shown(R, a)
               added == n..(n + d - 1)
    <3>5. IsFiniteSet(before) /\ IsFiniteSet(added) /\ Shown(All, a) = before \cup added
      BY <1>18, <1>19, <3>1
    <3> HIDE DEF before, added
    <3>6. /\ IsFiniteSet(before \cup added)
          /\ Cardinality(before \cup added) = Cardinality(before) + Cardinality(added)
                                              - Cardinality(before \cap added)
      BY <3>5, FS_Union
    <3>2. /\ IsFiniteSet(Shown(All, a))
          /\ Cardinality(Shown(All, a)) = Cardinality(Shown(R, a)) + Cardinality(n..(n + d - 1))
                                          - Cardinality(Shown(R, a) \cap (n..(n + d - 1)))
      BY <3>5, <3>6 DEF before, added
    <3>3. Cardinality(Shown(R, a) \cap (n..(n + d - 1))) = 0
      BY <1>18, FS_EmptySet
    <3>4. F[a] \in Nat
      OBVIOUS
    <3> QED
      BY <1>1, <1>19, <2>2, <3>1, <3>2, <3>3, <3>4
  <2> QED
    BY <2>1, <2>2
<1>21. Exact(All, G)
  <2>1. [app |-> Idle, at |-> n + d] \in All
    BY <1>9 DEF last, All
  <2>2. All \subseteq Event
    BY <1>4, <1>6 DEF All
  <2> QED
    BY <1>1, <1>12, <1>13, <1>20, <2>1, <2>2 DEF Exact, All
<1> QED
  BY <1>2, <1>21 DEF All, G, n

\* Induction over the first numbers.
LEMMA UptoInduction ==
    ASSUME NEW n \in Nat, NEW P, 0 \in P, \A i \in 1..n : i - 1 \in P => i \in P
    PROVE  \A i \in 0..n : i \in P
<1> DEFINE Q == {i \in Nat : i <= n => i \in P}
<1>1. 0 \in Q
  OBVIOUS
<1>2. ASSUME NEW i \in Nat, i \in Q
      PROVE  i + 1 \in Q
  <2> SUFFICES ASSUME i + 1 <= n
               PROVE  i + 1 \in P
    OBVIOUS
  <2>1. i + 1 \in 1..n /\ i + 1 - 1 = i /\ i <= n
    OBVIOUS
  <2>2. i \in P
    BY <1>2, <2>1
  <2>3. \A j \in 1..n : j - 1 \in P => j \in P
    OBVIOUS
  <2> QED
    BY <2>1, <2>2, <2>3
<1> HIDE DEF Q
<1>3. Nat \subseteq Q
  BY <1>1, <1>2, NatSetInduction
<1>4. \A i \in 0..n : i \in Nat /\ i <= n
  OBVIOUS
<1> QED
  BY <1>3, <1>4 DEF Q

Laid == [off: Nat, events: Seq(Event)]

\* The tape of one app more.
Longer(F, T, a, laid) ==
    [off |-> laid.off + (T[a] - F[a]),
     events |-> laid.events \o Segment(a, laid.off, T[a] - F[a])]

\* An app's segment is appended to what is laid out.
LEMMA LongerLaid ==
    ASSUME NEW F \in [App -> Nat], NEW T \in [App -> Nat], NEW a \in Appends(F, T), NEW laid \in Laid
    PROVE  /\ T[a] - F[a] \in Nat \ {0}
           /\ Longer(F, T, a, laid) \in Laid
           /\ ToSet(Longer(F, T, a, laid).events) =
                ToSet(laid.events) \cup ToSet(Segment(a, laid.off, T[a] - F[a]))
<1>1. a \in App /\ T[a] \in Nat /\ F[a] \in Nat /\ T[a] > F[a]
  BY DEF Appends
<1> DEFINE d == T[a] - F[a]
<1>2. d \in Nat \ {0} /\ laid.off \in Nat /\ laid.events \in Seq(Event) /\ laid.off + d \in Nat
  BY <1>1 DEF Laid
<1> HIDE DEF d
<1>3. Segment(a, laid.off, d) \in Seq(Event)
  BY <1>1, <1>2, SegmentFacts
<1>4. /\ laid.events \o Segment(a, laid.off, d) \in Seq(Event)
      /\ ToSet(laid.events \o Segment(a, laid.off, d)) =
            ToSet(laid.events) \cup ToSet(Segment(a, laid.off, d))
  BY <1>2, <1>3, ToSetConcat
<1> QED
  BY <1>2, <1>4 DEF Longer, Laid, d

\* The loop of synthesize, app by app.
LEMMA LayoutSteps ==
    ASSUME NEW F \in [App -> Nat], NEW T \in [App -> Nat]
    PROVE  /\ Layout(F, T)[0] = [off |-> TapeStart(F), events |-> <<>>]
           /\ \A a \in App : Layout(F, T)[a] = IF a \in Appends(F, T)
                                               THEN Longer(F, T, a, Layout(F, T)[a - 1])
                                               ELSE Layout(F, T)[a - 1]
<1> DEFINE base == [off |-> TapeStart(F), events |-> <<>>]
           Body(g) == [a \in 0..Apps |->
                         IF a = 0 THEN base
                         ELSE IF a \notin Appends(F, T) THEN g[a - 1]
                         ELSE LET before == g[a - 1]
                                  delta == T[a] - F[a]
                              IN  [off |-> before.off + delta,
                                   events |-> before.events \o Segment(a, before.off, delta)]]
           step == [a \in 1..Apps |-> [l \in Laid |->
                        IF a \in Appends(F, T) THEN Longer(F, T, a, l) ELSE l]]
<1>1. Apps \in Nat /\ App = 1..Apps
  BY CollectorAssumption DEF App
<1>2. base \in Laid
  BY TapeStartNat DEF Laid
<1>3. step \in [1..Apps -> [Laid -> Laid]]
  BY <1>1, LongerLaid
<1> HIDE DEF step, base
<1>4. PICK f \in [0..Apps -> Laid] : Walks(f, Apps, base, step)
  BY <1>1, <1>2, <1>3, StepsExist
<1>5. f = Body(f)
  <2>1. ASSUME NEW a \in 0..Apps
        PROVE  f[a] = Body(f)[a]
    <3>1. CASE a = 0
      BY <1>4, <3>1 DEF Walks
    <3>2. CASE a # 0
      <4>1. a \in 1..Apps /\ a - 1 \in 0..Apps
        BY <1>1, <3>2
      <4>2. f[a - 1] \in Laid /\ f[a] = step[a][f[a - 1]]
        BY <1>4, <4>1 DEF Walks
      <4>3. f[a] = IF a \in Appends(F, T) THEN Longer(F, T, a, f[a - 1]) ELSE f[a - 1]
        BY <4>1, <4>2 DEF step
      <4> QED
        BY <3>2, <4>3 DEF Longer
    <3> QED
      BY <3>1, <3>2
  <2> QED
    BY <2>1
<1>6. Layout(F, T) = CHOOSE g : g = Body(g)
  BY DEF Layout, base
<1> DEFINE laid == Layout(F, T)
<1>7. laid = Body(laid)
  <2> HIDE DEF Body
  <2> QED
    BY <1>5, <1>6
<1> HIDE DEF laid
<1>8. laid[0] = base
  BY <1>1, <1>7
<1>9. ASSUME NEW a \in App
      PROVE  laid[a] = IF a \in Appends(F, T) THEN Longer(F, T, a, laid[a - 1]) ELSE laid[a - 1]
  <2>1. a \in 0..Apps /\ a # 0
    BY <1>1
  <2>2. laid[a] = Body(laid)[a]
    BY <1>7
  <2> QED
    BY <2>1, <2>2 DEF Longer
<1> QED
  BY <1>8, <1>9 DEF laid, base

\* The totals after the first k apps.
Upto(F, T, k) == [a \in App |-> IF a <= k THEN Recorded(F, T)[a] ELSE F[a]]

\* How the totals grow from app to app.
LEMMA UptoFacts ==
    ASSUME NEW F \in [App -> Nat], NEW T \in [App -> Nat]
    PROVE  /\ Recorded(F, T) \in [App -> Nat]
           /\ \A k \in Nat : Upto(F, T, k) \in [App -> Nat]
           /\ Upto(F, T, 0) = F /\ Upto(F, T, Apps) = Recorded(F, T)
           /\ \A a \in App : Upto(F, T, a) = IF a \in Appends(F, T)
                                THEN [Upto(F, T, a - 1) EXCEPT ![a] = @ + (T[a] - F[a])]
                                ELSE Upto(F, T, a - 1)
<1>1. App = 1..Apps /\ Apps \in Nat
  BY CollectorAssumption DEF App
<1>2. Recorded(F, T) \in [App -> Nat]
  BY DEF Recorded
<1>3. \A k \in Nat : Upto(F, T, k) \in [App -> Nat]
  BY <1>2 DEF Upto
<1>4. Upto(F, T, 0) = F
  BY <1>1 DEF Upto
<1>5. Upto(F, T, Apps) = Recorded(F, T)
  BY <1>1, <1>2 DEF Upto
<1>6. ASSUME NEW a \in App
      PROVE  Upto(F, T, a) = IF a \in Appends(F, T)
                                THEN [Upto(F, T, a - 1) EXCEPT ![a] = @ + (T[a] - F[a])]
                                ELSE Upto(F, T, a - 1)
  <2>1. a \in Nat /\ a - 1 \in Nat
    BY <1>1
  <2>2. \A b \in App : b # a => (b <= a <=> b <= a - 1)
    BY <1>1
  <2>3. Upto(F, T, a)[a] = Recorded(F, T)[a] /\ Upto(F, T, a - 1)[a] = F[a]
    BY <2>1 DEF Upto
  <2>4. \A b \in App : b # a => Upto(F, T, a)[b] = Upto(F, T, a - 1)[b]
    BY <2>2 DEF Upto
  <2>5. Recorded(F, T)[a] = IF a \in Appends(F, T) THEN F[a] + (T[a] - F[a]) ELSE F[a]
    BY DEF Recorded
  <2>6. Upto(F, T, a) \in [App -> Nat] /\ Upto(F, T, a - 1) \in [App -> Nat]
    BY <1>3, <2>1
  <2> QED
    BY <2>3, <2>4, <2>5, <2>6
<1> QED
  BY <1>2, <1>3, <1>4, <1>5, <1>6

\* What synthesize lays out for new totals, besides rows that tell the old ones, tells the
\* totals that run_member records.
THEOREM LayoutTells ==
    ASSUME NEW F \in [App -> Nat], NEW T \in [App -> Nat]
    PROVE  /\ synthesize(F, T) \in Seq(Event)
           /\ \A R : Exact(R, F) => Exact(R \cup ToSet(synthesize(F, T)), Recorded(F, T))
<1> DEFINE laid == Layout(F, T)
           Goes(k) == \A R : Exact(R, F) => Exact(R \cup ToSet(laid[k].events), Upto(F, T, k))
           P == {k \in Nat : /\ laid[k] \in Laid
                             /\ laid[k].off = TapeStart(Upto(F, T, k))
                             /\ Goes(k)}
<1>1. App = 1..Apps /\ Apps \in Nat
  BY CollectorAssumption DEF App
<1>2. /\ laid[0] = [off |-> TapeStart(F), events |-> <<>>]
      /\ \A a \in App : laid[a] = IF a \in Appends(F, T) THEN Longer(F, T, a, laid[a - 1])
                                  ELSE laid[a - 1]
  BY LayoutSteps
<1> HIDE DEF laid
<1>3. 0 \in P
  <2>1. laid[0] \in Laid /\ laid[0].off = TapeStart(F) /\ laid[0].events = <<>>
    BY <1>2, TapeStartNat DEF Laid
  <2>2. ToSet(laid[0].events) = {}
    BY <2>1, ToSetOne
  <2>3. Upto(F, T, 0) = F
    BY UptoFacts
  <2>4. \A R : R \cup {} = R
    OBVIOUS
  <2> QED
    BY <2>1, <2>2, <2>3, <2>4
<1>4. ASSUME NEW a \in 1..Apps, a - 1 \in P
      PROVE  a \in P
  <2>1. a \in App /\ a \in Nat /\ a - 1 \in Nat
    BY <1>1
  <2>2. CASE a \notin Appends(F, T)
    <3>1. laid[a] = laid[a - 1] /\ Upto(F, T, a) = Upto(F, T, a - 1)
      BY <1>2, <2>1, <2>2, UptoFacts
    <3> QED
      BY <1>4, <2>1, <3>1
  <2>3. CASE a \in Appends(F, T)
    <3> DEFINE before == laid[a - 1]
               d == T[a] - F[a]
               U == Upto(F, T, a - 1)
               V == [U EXCEPT ![a] = @ + d]
               events == ToSet(Segment(a, TapeStart(U), d))
    <3>1. /\ laid[a] = Longer(F, T, a, before)
          /\ Upto(F, T, a) = V /\ U \in [App -> Nat]
      BY <1>2, <2>1, <2>3, UptoFacts
    <3>2. before \in Laid /\ before.off = TapeStart(U) /\ Goes(a - 1)
      BY <1>4
    <3>3. /\ d \in Nat \ {0} /\ laid[a] \in Laid
          /\ ToSet(laid[a].events) = ToSet(before.events) \cup events
      <4> HIDE DEF before
      <4>1. /\ T[a] - F[a] \in Nat \ {0}
            /\ Longer(F, T, a, before) \in Laid
            /\ ToSet(Longer(F, T, a, before).events) =
                 ToSet(before.events) \cup ToSet(Segment(a, before.off, T[a] - F[a]))
        BY <2>3, <3>2, LongerLaid
      <4> QED
        BY <3>1, <3>2, <4>1
    <3>4. laid[a].off = TapeStart(U) + d
      BY <3>1, <3>2 DEF Longer
    <3> HIDE DEF d, U, before
    <3>5. TapeStart(V) = TapeStart(U) + d
      <4>1. d \in Nat
        BY <3>3
      <4> QED
        BY <2>1, <3>1, <4>1, TapeStartAdd
    <3>6. ASSUME NEW R, Exact(R, F)
          PROVE  Exact(R \cup ToSet(laid[a].events), V)
      <4> DEFINE old == R \cup ToSet(before.events)
      <4>1. Exact(old, U)
        BY <3>2, <3>6 DEF before, U
      <4>2. R \cup ToSet(laid[a].events) = old \cup events
        BY <3>3
      <4> HIDE DEF old
      <4>3. Exact(old \cup events, V)
        BY <2>1, <3>1, <3>3, <4>1, SegmentAdds
      <4> QED
        BY <4>2, <4>3
    <3> HIDE DEF V
    <3> QED
      BY <2>1, <3>1, <3>3, <3>4, <3>5, <3>6
  <2> QED
    BY <2>2, <2>3
<1> HIDE DEF P
<1>5. Apps \in P
  <2>1. \A k \in 0..Apps : k \in P
    BY <1>1, <1>3, <1>4, UptoInduction
  <2> QED
    BY <1>1, <2>1
<1>6. /\ laid[Apps] \in Laid
      /\ \A R : Exact(R, F) => Exact(R \cup ToSet(laid[Apps].events), Upto(F, T, Apps))
  BY <1>5 DEF P
<1>7. Upto(F, T, Apps) = Recorded(F, T) /\ laid[Apps].events = synthesize(F, T)
  BY UptoFacts DEF synthesize, laid
<1> QED
  BY <1>6, <1>7 DEF Laid

\* What the run records is what it lays out: the totals that shrank change neither.
LEMMA RecordedFacts ==
    ASSUME NEW F \in [App -> Nat], NEW T \in [App -> Nat]
    PROVE  /\ \A a \in App : F[a] <= Recorded(F, T)[a]
           /\ Appends(F, T) # {} => Recorded(F, T) # F
           /\ synthesize(F, Recorded(F, T)) = synthesize(F, T)
           /\ (\A a \in App : F[a] <= T[a]) => Recorded(F, T) = T
<1> DEFINE U == Recorded(F, T)
<1>1. U \in [App -> Nat] /\ \A a \in App : U[a] = IF T[a] > F[a] THEN T[a] ELSE F[a]
  BY DEF Recorded, Appends
<1>2. Appends(F, U) = Appends(F, T) /\ \A a \in Appends(F, T) : U[a] = T[a]
  BY <1>1 DEF Appends
<1>3. Appends(F, T) # {} => U # F
  BY <1>1 DEF Appends
<1>4. \A a \in App : F[a] <= U[a]
  BY <1>1
<1>5. (\A a \in App : F[a] <= T[a]) => U = T
  <2> SUFFICES ASSUME \A a \in App : F[a] <= T[a]
               PROVE  U = T
    OBVIOUS
  <2>1. \A a \in App : U[a] = T[a]
    BY <1>1
  <2> HIDE DEF U
  <2> QED
    BY <1>1, <2>1
<1>6. synthesize(F, U) = synthesize(F, T)
  <2> DEFINE laid == Layout(F, T)
             again == Layout(F, U)
             P == {k \in Nat : again[k] = laid[k]}
  <2>1. Apps \in Nat /\ App = 1..Apps
    BY CollectorAssumption DEF App
  <2>2. /\ laid[0] = again[0]
        /\ \A a \in App : laid[a] = IF a \in Appends(F, T) THEN Longer(F, T, a, laid[a - 1])
                                    ELSE laid[a - 1]
        /\ \A a \in App : again[a] = IF a \in Appends(F, U) THEN Longer(F, U, a, again[a - 1])
                                     ELSE again[a - 1]
    <3> HIDE DEF U
    <3> QED
      BY <1>1, LayoutSteps
  <2> HIDE DEF laid, again, U
  <2>3. 0 \in P
    BY <2>2
  <2>4. ASSUME NEW a \in 1..Apps, a - 1 \in P
        PROVE  a \in P
    <3>1. a \in App /\ a \in Nat /\ again[a - 1] = laid[a - 1]
      BY <2>1, <2>4
    <3>2. a \in Appends(F, T) => Longer(F, U, a, again[a - 1]) = Longer(F, T, a, laid[a - 1])
      BY <1>2, <3>1 DEF Longer
    <3>3. again[a] = laid[a]
      BY <1>2, <2>2, <3>1, <3>2
    <3> QED
      BY <3>1, <3>3
  <2> HIDE DEF P
  <2>5. Apps \in P
    <3>1. \A k \in 0..Apps : k \in P
      BY <2>1, <2>3, <2>4, UptoInduction
    <3> QED
      BY <2>1, <3>1
  <2> QED
    BY <2>5 DEF P, synthesize, laid, again
<1> QED
  BY <1>3, <1>4, <1>5, <1>6

\* CalculateUsage counts for every app the totals that the rows tell.
THEOREM CountedIsShown ==
    ASSUME NEW m, rows[m] \in Seq(Event), Injective(rows[m]),
           NEW F, Exact(ToSet(rows[m]), F), NEW a \in App
    PROVE  Counted(m, a) = F[a]
<1> DEFINE r == rows[m]
           D == DOMAIN r
           R == ToSet(r)
           mine == {i \in D : r[i].app = a}
           seconds == [i \in D |-> Seconds(m, i)]
           A == [i \in D |-> {t \in Nat : /\ r[i].at <= t /\ t < r[i].at + MaxGap
                                          /\ \A j \in D : r[j].at <= r[i].at \/ t < r[j].at}]
<1>1. /\ IsFiniteSet(D) /\ \A i \in D : r[i] \in Event /\ r[i].at \in Nat
  <2>1. Len(r) \in Nat /\ D = 1..Len(r) /\ \A i \in 1..Len(r) : r[i] \in Event
    BY LenProperties, ElementOfSeq
  <2>2. IsFiniteSet(1..Len(r))
    BY <2>1, FS_Interval
  <2> HIDE DEF D, r
  <2> QED
    BY <2>1, <2>2 DEF Event
<1>2. MaxGap \in Nat /\ MaxGap >= 1 /\ a # Idle
  BY AppFacts
<1>3. /\ \A i, j \in D : r[i].app # Idle /\ r[j].app # Idle /\ r[i].at = r[j].at => i = j
      /\ IsFiniteSet(Shown(R, a)) /\ Cardinality(Shown(R, a)) = F[a]
  BY DEF Exact, ToSet, Injective
<1>4. IsFiniteSet(mine) /\ mine \subseteq D
  BY <1>1, FS_Subset
\* The seconds of an event are the seconds up to the next one.
<1>5. ASSUME NEW i \in mine
      PROVE  IsFiniteSet(A[i]) /\ seconds[i] = Cardinality(A[i])
  <2> DEFINE at == r[i].at
             later == {j \in D : Precedes(m, i, j)}
             ends == {r[j].at : j \in later} \cup {at + MaxGap}
             x == Min(ends)
  <2>1. i \in D /\ at \in Nat /\ r[i].app # Idle
    BY <1>1, <1>2
  <2>2. ASSUME NEW j \in D
        PROVE  Precedes(m, i, j) <=> at < r[j].at
    <3>1. r[j].at \in Nat /\ (r[j].app # Idle /\ at = r[j].at => i = j)
      BY <1>1, <1>3, <2>1
    <3>2. at = r[j].at /\ i = j => ~ Precedes(m, i, j)
      <4>1. i \in Nat
        BY <2>1, LenProperties
      <4> QED
        BY <2>1, <4>1 DEF Precedes
    <3>3. Precedes(m, i, j) => at < r[j].at \/ (at = r[j].at /\ r[j].app # Idle)
      BY <2>1 DEF Precedes
    <3>4. at < r[j].at => Precedes(m, i, j)
      BY DEF Precedes
    <3>5. ASSUME at = r[j].at
          PROVE  ~ (at < r[j].at)
      BY <2>1, <3>1, <3>5
    <3> QED
      BY <3>1, <3>2, <3>3, <3>4, <3>5
  <2>3. ends \in SUBSET Nat /\ ends # {}
    BY <1>1, <1>2, <2>1
  <2>4. x \in ends /\ \A y \in ends : x <= y
    <3> HIDE DEF ends
    <3> QED
      BY <2>3, LeastIsMin
  <2>5. seconds[i] = x - at
    BY <2>1 DEF Seconds
  <2>6. x \in Nat /\ at < x
    BY <1>1, <1>2, <2>1, <2>2, <2>3, <2>4
  <2>7. \A t \in Nat : t \in A[i] <=> at <= t /\ t < x
    <3> SUFFICES ASSUME NEW t \in Nat
                 PROVE  t \in A[i] <=> at <= t /\ t < x
      OBVIOUS
    <3>1. t \in A[i] <=> /\ at <= t /\ t < at + MaxGap
                         /\ \A j \in D : r[j].at <= at \/ t < r[j].at
      BY <2>1
    <3>2. ASSUME t \in A[i]
          PROVE  t < x
      <4>1. CASE x = at + MaxGap
        BY <3>1, <3>2, <4>1
      <4>2. ASSUME NEW j \in later, x = r[j].at
            PROVE  t < x
        <5>1. j \in D /\ at < r[j].at /\ r[j].at \in Nat
          BY <1>1, <2>2
        <5> QED
          BY <2>1, <3>1, <3>2, <4>2, <5>1
      <4> QED
        BY <2>4, <4>1, <4>2
    <3>3. ASSUME at <= t, t < x
          PROVE  t \in A[i]
      <4>1. t < at + MaxGap
        <5>1. x <= at + MaxGap
          BY <2>4
        <5> HIDE DEF x
        <5> QED
          BY <1>2, <2>1, <2>6, <3>3, <5>1
      <4>2. ASSUME NEW j \in D
            PROVE  r[j].at <= at \/ t < r[j].at
        <5>1. CASE at < r[j].at
          <6>1. x <= r[j].at
            BY <2>2, <2>4, <5>1
          <6>2. r[j].at \in Nat
            BY <1>1
          <6> HIDE DEF x
          <6> QED
            BY <2>6, <3>3, <6>1, <6>2
        <5>2. CASE ~ (at < r[j].at)
          BY <1>1, <2>1, <5>2
        <5> QED
          BY <5>1, <5>2
      <4> QED
        BY <3>1, <3>3, <4>1, <4>2
    <3> QED
      BY <3>1, <3>2, <3>3
  <2>8. A[i] = at..(x - 1)
    <3>1. A[i] \subseteq Nat
      BY <2>1
    <3> HIDE DEF A, x, at
    <3>2. \A t \in at..(x - 1) : t \in Nat
      BY <2>1
    <3>3. \A t \in Nat : t \in at..(x - 1) <=> at <= t /\ t < x
      BY <2>1, <2>6
    <3> QED
      BY <2>7, <3>1, <3>2, <3>3
  <2>9. IsFiniteSet(at..(x - 1)) /\ Cardinality(at..(x - 1)) = x - at
    <3> HIDE DEF x, at
    <3>1. at \in Int /\ x - 1 \in Int /\ ~ (at > x - 1) /\ (x - 1) - at + 1 = x - at
      BY <2>1, <2>6
    <3> QED
      BY <3>1, FS_Interval
  <2> HIDE DEF A, x, at, seconds
  <2> QED
    BY <2>5, <2>8, <2>9
<1>6. ASSUME NEW i \in mine, NEW j \in mine, i # j
      PROVE  A[i] \cap A[j] = {}
  <2>1. /\ i \in D /\ j \in D /\ r[i].at \in Nat /\ r[j].at \in Nat /\ r[i].at # r[j].at
    BY <1>1, <1>2, <1>3, <1>6
  <2>2. ASSUME NEW t \in A[i], t \in A[j]
        PROVE  FALSE
    <3>1. /\ t \in Nat /\ r[i].at <= t /\ r[j].at <= t
          /\ r[j].at <= r[i].at \/ t < r[j].at
          /\ r[i].at <= r[j].at \/ t < r[i].at
      BY <2>1, <2>2
    <3> QED
      BY <2>1, <3>1
  <2> QED
    BY <2>2
<1>7. UNION {A[i] : i \in mine} = Shown(R, a)
  <2>1. ASSUME NEW i \in mine, NEW t \in A[i]
        PROVE  t \in Shown(R, a)
    <3>1. i \in D /\ r[i] \in R /\ r[i].app = a
      BY DEF ToSet
    <3>2. /\ t \in Nat /\ r[i].at <= t /\ t < r[i].at + MaxGap
          /\ \A j \in D : r[j].at <= r[i].at \/ t < r[j].at
      BY <3>1
    <3>3. \A f \in R : f.at <= r[i].at \/ t < f.at
      BY <3>2 DEF ToSet
    <3> QED
      BY <3>1, <3>2, <3>3 DEF Shown
  <2>2. ASSUME NEW t \in Shown(R, a)
        PROVE  \E i \in mine : t \in A[i]
    <3>1. PICK e \in R : /\ e.app = a /\ e.at <= t /\ t < e.at + MaxGap
                         /\ \A f \in R : f.at <= e.at \/ t < f.at
      BY <2>2 DEF Shown
    <3>2. PICK i \in D : r[i] = e
      BY <3>1 DEF ToSet
    <3>3. t \in Nat
      BY <2>2 DEF Shown
    <3>4. \A j \in D : r[j] \in R
      BY DEF ToSet
    <3> HIDE DEF R
    <3>5. i \in mine /\ t \in A[i]
      BY <3>1, <3>2, <3>3, <3>4
    <3> QED
      BY <3>5
  <2> HIDE DEF A, mine
  <2> QED
    BY <2>1, <2>2
<1> HIDE DEF A, mine, seconds
<1>8. Cardinality(UNION {A[i] : i \in mine}) = SumFunctionOnSet(seconds, mine)
  BY <1>4, <1>5, <1>6, SumOfSizes
<1>9. Counted(m, a) = SumFunctionOnSet(seconds, mine)
  BY DEF Counted, seconds, mine
<1> QED
  BY <1>3, <1>7, <1>8, <1>9

-----------------------------------------------------------------------------
(* Types.                                                                  *)

\* The members, the totals and what is recorded at first.
LEMMA ConstantFacts ==
    /\ MEMBERS \in Seq(Member) /\ Len(MEMBERS) \in Nat \ {0} /\ 1 \in 1..Len(MEMBERS)
    /\ \A i \in 1..Len(MEMBERS) : MEMBERS[i] \in Member
    /\ Totals \subseteq [App -> Nat] /\ None \notin Totals
    /\ Nothing \in [Member -> Totals]
<1>1. MEMBERS \in Seq(Member) /\ MEMBERS # <<>> /\ MaxUsage \in Nat /\ None \notin Totals
  BY CollectorAssumption
<1>2. Len(MEMBERS) \in Nat \ {0}
  BY <1>1, EmptySeq
<1>3. \A i \in 1..Len(MEMBERS) : MEMBERS[i] \in Member
  BY <1>1, ElementOfSeq
<1>4. Totals \subseteq [App -> Nat]
  BY DEF Totals
<1>5. Nothing \in [Member -> Totals]
  BY <1>1 DEF Nothing, Totals
<1> QED
  BY <1>1, <1>2, <1>3, <1>4, <1>5

\* What a run records and posts has its type.
LEMMA RecordedTotals ==
    ASSUME NEW F \in Totals, NEW T \in Totals
    PROVE  Recorded(F, T) \in Totals /\ synthesize(F, T) \in Seq(Event)
<1>1. Recorded(F, T) \in Totals
  BY DEF Recorded, Totals
<1>2. F \in [App -> Nat] /\ T \in [App -> Nat]
  BY ConstantFacts
<1> QED
  BY <1>1, <1>2, LayoutTells

\* The server has no row twice.
NoTwice == \A m \in Member : Injective(rows[m])

TypeInv == TypeOK /\ NoTwice

\* The member whose turn it is.
LEMMA TurnFacts ==
    ASSUME TypeOK
    PROVE  MEMBERS[turn] \in Member /\ turn \in 1..Len(MEMBERS)
BY ConstantFacts DEF TypeOK

\* What a run posts, and what remains.
LEMMA ChunkFacts ==
    ASSUME TypeOK
    PROVE  LET rest == SubSeq(outbox, Len(Chunk) + 1, Len(outbox))
           IN  /\ Chunk \in Seq(Event) /\ rest \in Seq(Event)
               /\ ToSet(outbox) = ToSet(Chunk) \cup ToSet(rest)
<1> DEFINE k == IF Len(outbox) < BatchLimit THEN Len(outbox) ELSE BatchLimit
<1>1. outbox \in Seq(Event) /\ Len(outbox) \in Nat /\ BatchLimit \in Nat
  BY CollectorAssumption, LenProperties DEF TypeOK
<1>2. k \in 0..Len(outbox)
  BY <1>1
<1>3. Chunk = SubSeq(outbox, 1, k)
  BY DEF Chunk
<1> HIDE DEF k
<1>4. /\ SubSeq(outbox, 1, k) \in Seq(Event) /\ Len(SubSeq(outbox, 1, k)) = k
      /\ SubSeq(outbox, k + 1, Len(outbox)) \in Seq(Event)
      /\ ToSet(outbox) = ToSet(SubSeq(outbox, 1, k)) \cup ToSet(SubSeq(outbox, k + 1, Len(outbox)))
  BY <1>1, <1>2, ToSetSplit
<1> QED
  BY <1>3, <1>4

\* The server has afterwards what it had and what was posted.
LEMMA StoreFacts ==
    ASSUME TypeInv, NEW m \in Member, m = MEMBERS[turn], Store(m)
    PROVE  /\ rows' \in [Member -> Seq(Event)]
           /\ \A k \in Member : Injective(rows'[k])
           /\ ToSet(rows'[m]) = ToSet(rows[m]) \cup ToSet(Chunk)
           /\ unsaved' \in [Member -> Totals \cup {None}] /\ unsaved'[m] = sent[m]
           /\ relaid' \subseteq Member
           /\ m \notin relaid' => m \notin relaid /\ unsaved[m] \in {None, sent[m]}
           /\ \A k \in Member \ {m} : /\ rows'[k] = rows[k] /\ unsaved'[k] = unsaved[k]
                                      /\ k \in relaid' <=> k \in relaid
<1> DEFINE new == Inserted(rows[m], Chunk)[Len(Chunk)]
<1>1. /\ rows \in [Member -> Seq(Event)] /\ sent[m] \in Totals /\ relaid \subseteq Member
      /\ unsaved \in [Member -> Totals \cup {None}]
      /\ \A k \in Member : Injective(rows[k])
  BY DEF TypeInv, TypeOK, NoTwice
<1>2. Chunk \in Seq(Event)
  BY ChunkFacts DEF TypeInv
<1>3. new \in Seq(Event) /\ Injective(new) /\ ToSet(new) = ToSet(rows[m]) \cup ToSet(Chunk)
  BY <1>1, <1>2, InsertedFacts
<1>4. /\ rows' = [rows EXCEPT ![m] = new]
      /\ unsaved' = [unsaved EXCEPT ![m] = sent[m]]
      /\ relaid' = IF unsaved[m] \in {None, sent[m]} THEN relaid ELSE relaid \cup {m}
  BY DEF Store
<1> HIDE DEF new
<1> QED
  BY <1>1, <1>3, <1>4

\* The run goes on with its copy of the state, or ends.
LEMMA NextMemberFacts ==
    ASSUME TypeOK, NextMember
    PROVE  /\ stage' \in {"off", "scrape"} /\ turn' \in 1..Len(MEMBERS)
           /\ outbox' = <<>> /\ sent' \in [Member -> Totals]
           /\ stage' # "off" => sent' = sent
<1>1. turn \in 1..Len(MEMBERS) /\ sent \in [Member -> Totals]
  BY DEF TypeOK
<1>2. CASE turn < Len(MEMBERS)
  <2>1. turn + 1 \in 1..Len(MEMBERS)
    BY <1>1, <1>2, ConstantFacts
  <2> QED
    BY <1>1, <1>2, <2>1 DEF NextMember
<1>3. CASE ~ (turn < Len(MEMBERS))
  BY <1>1, <1>3, ConstantFacts DEF NextMember, Exit
<1> QED
  BY <1>2, <1>3

\* Types at the start.
LEMMA TypeInit == Init => TypeInv
<1> SUFFICES ASSUME Init
             PROVE  TypeInv
  OBVIOUS
<1>1. <<>> \in Seq(Event)
  OBVIOUS
<1>2. TypeOK
  BY <1>1, ConstantFacts, CollectorAssumption DEF Init, TypeOK
<1>3. NoTwice
  BY DEF Init, NoTwice, Injective
<1> QED
  BY <1>2, <1>3 DEF TypeInv

\* Every action keeps the types, and no row is stored twice.
LEMMA TypeStep == TypeInv /\ [Next]_vars => TypeInv'
<1> SUFFICES ASSUME TypeInv, [Next]_vars
             PROVE  TypeInv'
  OBVIOUS
<1> DEFINE m == MEMBERS[turn]
<1>0. TypeOK /\ NoTwice /\ m \in Member /\ turn \in 1..Len(MEMBERS)
  BY TurnFacts DEF TypeInv
<1>e. <<>> \in Seq(Event)
  OBVIOUS
<1>1. CASE StartRun
  BY <1>0, <1>1, ConstantFacts DEF StartRun, TypeInv, TypeOK, NoTwice, history
<1>2. CASE RunMember(m)
  <2>1. CASE Appends(sent[m], usage[m]) = {}
    <3>1. NextMember
      BY <1>2, <2>1 DEF RunMember
    <3> QED
      BY <1>0, <1>2, <1>e, <3>1, NextMemberFacts DEF RunMember, TypeInv, TypeOK, NoTwice, history
  <2>2. CASE Appends(sent[m], usage[m]) # {}
    <3>1. sent[m] \in Totals /\ usage[m] \in Totals
      BY <1>0 DEF TypeOK
    <3> DEFINE new == Recorded(sent[m], usage[m])
               tape == synthesize(sent[m], usage[m])
    <3>2. new \in Totals /\ tape \in Seq(Event)
      BY <3>1, RecordedTotals
    <3>3. outbox' = tape /\ sent' = [sent EXCEPT ![m] = new] /\ stage' = "post" /\ UNCHANGED turn
      BY <1>2, <2>2 DEF RunMember
    <3> HIDE DEF new, tape
    <3> QED
      BY <1>0, <1>2, <3>2, <3>3 DEF RunMember, TypeInv, TypeOK, NoTwice, history
  <2> QED
    BY <2>1, <2>2
<1>3. CASE Post(m)
  <2>1. Store(m)
    BY <1>3 DEF Post
  <2>2. outbox' \in Seq(Event)
    BY <1>0, <1>3, ChunkFacts DEF Post
  <2>3. stage' \in {"post", "save"}
    BY <1>3 DEF Post
  <2> QED
    BY <1>0, <1>3, <2>1, <2>2, <2>3, StoreFacts DEF Post, TypeInv, TypeOK, NoTwice
<1>4. CASE Save(m)
  <2>1. NextMember
    BY <1>4 DEF Save
  <2> QED
    BY <1>0, <1>4, <1>e, <2>1, NextMemberFacts DEF Save, TypeInv, TypeOK, NoTwice
<1>f. ASSUME NEW kind, Fail(kind)
      PROVE  failures' \in 0..MaxFailures
  BY <1>0, <1>f, CollectorAssumption DEF Fail, TypeOK
<1>5. CASE ScrapeFails
  BY <1>0, <1>5, <1>e, <1>f, NextMemberFacts DEF ScrapeFails, TypeInv, TypeOK, NoTwice, history
<1>6. CASE RequestFails
  BY <1>0, <1>6, <1>e, <1>f, NextMemberFacts DEF RequestFails, TypeInv, TypeOK, NoTwice, history
<1>7. CASE AnswerLost(m)
  <2>1. Store(m) /\ NextMember
    BY <1>7 DEF AnswerLost
  <2> QED
    BY <1>0, <1>7, <1>e, <1>f, <2>1, StoreFacts, NextMemberFacts
       DEF AnswerLost, TypeInv, TypeOK, NoTwice
<1>8. CASE Crash
  BY <1>0, <1>8, <1>e, <1>f, ConstantFacts DEF Crash, Exit, TypeInv, TypeOK, NoTwice, history
<1>9. CASE LoseFile
  BY <1>0, <1>9, <1>f, ConstantFacts DEF LoseFile, runVars, TypeInv, TypeOK, NoTwice
<1>10. ASSUME NEW k \in Member, NEW a \in App, Use(k, a)
       PROVE  TypeInv'
  <2>1. PICK n \in 0..MaxUsage : usage' = [usage EXCEPT ![k][a] = n]
    BY <1>10 DEF Use
  <2>2. [usage[k] EXCEPT ![a] = n] \in Totals
    BY <1>0 DEF TypeOK, Totals
  <2>3. usage' \in [Member -> Totals]
    BY <1>0, <2>1, <2>2 DEF TypeOK
  <2> QED
    BY <1>0, <1>10, <2>3 DEF Use, runVars, history, TypeInv, TypeOK, NoTwice
<1>11. CASE UNCHANGED vars
  BY <1>0, <1>11 DEF vars, runVars, history, TypeInv, TypeOK, NoTwice
<1> QED
  BY <1>1, <1>2, <1>3, <1>4, <1>5, <1>6, <1>7, <1>8, <1>9, <1>10, <1>11 DEF Next, Run, RunFails

\* So they always hold.
LEMMA TypeAlways == Spec => []TypeInv
BY TypeInit, TypeStep, PTL DEF Spec

\* Every variable keeps its type; in particular what is posted is always a sequence of events.
THEOREM CollectorTypes == Spec => []TypeOK
<1>1. TypeInv => TypeOK
  BY DEF TypeInv
<1> QED
  BY <1>1, TypeAlways, PTL

-----------------------------------------------------------------------------
(* What the rows tell.                                                     *)

Batch(F, T) == ToSet(synthesize(F, T))

\* Rows R tell the totals F, besides what was stored since of the tape up to u.
Tells(R, F, u) ==
    \E old \in SUBSET R :
        /\ Exact(old, F)
        /\ u = None => R = old
        /\ u # None => R \subseteq old \cup Batch(F, u)

\* A member without rows tells the totals of an empty state file.
LEMMA NothingTells ==
    ASSUME NEW u, NEW m \in Member
    PROVE  Tells({}, Nothing[m], u)
<1>1. Nothing[m] \in [App -> Nat] /\ \A b \in App : Nothing[m][b] = 0
  BY DEF Nothing
<1> QED
  BY <1>1, NothingExact DEF Tells

\* Storing some of the tape.
LEMMA TellsStored ==
    ASSUME NEW R, NEW F, NEW T \in Totals, NEW u \in {None, T}, Tells(R, F, u),
           NEW C, C \subseteq Batch(F, T)
    PROVE  Tells(R \cup C, F, T)
<1>1. PICK old \in SUBSET R : /\ Exact(old, F)
                              /\ u = None => R = old
                              /\ u # None => R \subseteq old \cup Batch(F, u)
  BY DEF Tells
<1>2. T # None
  BY ConstantFacts
<1>3. R \cup C \subseteq old \cup Batch(F, T) /\ old \subseteq R \cup C
  BY <1>1
<1> QED
  BY <1>1, <1>2, <1>3 DEF Tells

\* Saving when all of the tape is stored.
LEMMA TellsSaved ==
    ASSUME NEW R, NEW F \in Totals, NEW T \in Totals, Tells(R, F, T),
           Batch(F, T) \subseteq R, \A a \in App : F[a] <= T[a]
    PROVE  Tells(R, T, None)
<1>1. T # None /\ F \in [App -> Nat] /\ T \in [App -> Nat]
  BY ConstantFacts
<1>2. PICK old \in SUBSET R : Exact(old, F) /\ R \subseteq old \cup Batch(F, T)
  BY <1>1 DEF Tells
<1>3. R = old \cup Batch(F, T)
  BY <1>2
<1>4. Exact(old \cup Batch(F, T), Recorded(F, T))
  BY <1>1, <1>2, LayoutTells DEF Batch
<1>5. Recorded(F, T) = T
  BY <1>1, RecordedFacts
<1> QED
  BY <1>3, <1>4, <1>5 DEF Tells

\* A member's rows tell the totals of the state file, or ...
Told(m) == Tells(ToSet(rows[m]), file[m], unsaved[m])

\* ... another member's save took the totals that they were laid out for to the state file.
Taken(m) == unsaved[m] # None /\ unsaved[m] = file[m]

TapeTold == \A m \in Member \ relaid : Told(m) \/ Taken(m)

\* During an upload the rows and the outbox make up the tape.
Sending ==
    stage \in {"post", "save"} =>
    LET m == MEMBERS[turn] IN
    /\ stage = "save" => unsaved[m] = sent[m] /\ outbox = <<>>
    /\ m \notin relaid /\ unsaved[m] \in {None, sent[m]} =>
          /\ Told(m)
          /\ \A a \in App : file[m][a] <= sent[m][a]
          /\ ToSet(outbox) \subseteq Batch(file[m], sent[m])
          /\ Batch(file[m], sent[m]) \subseteq ToSet(rows[m]) \cup ToSet(outbox)

\* What a run would save of a member is what is saved, or what was stored.
InRun ==
    stage # "off" =>
    \A k \in Member \ relaid :
        \/ sent[k] = file[k]
        \/ unsaved[k] # None /\ sent[k] = unsaved[k]
        \/ stage \in {"post", "save"} /\ k = MEMBERS[turn]

IInv == TypeInv /\ TapeTold /\ Sending /\ InRun

\* A refused request does not leave an upload behind in a run that goes on and saves it with
\* another member's (tape_lost shows what comes of that).
LoneUploads == "request" \in Failures => Len(MEMBERS) = 1

\* The invariant at the start.
LEMMA IInit == Init => IInv
<1> SUFFICES ASSUME Init
             PROVE  IInv
  OBVIOUS
<1>1. TypeInv
  BY TypeInit
<1>2. \A m \in Member : ToSet(rows[m]) = {} /\ file[m] = Nothing[m] /\ unsaved[m] = None
  BY ToSetOne DEF Init
<1>3. TapeTold
  BY <1>2, NothingTells DEF TapeTold, Told
<1>4. Sending /\ InRun
  BY DEF Init, Sending, InRun
<1> QED
  BY <1>1, <1>3, <1>4 DEF IInv

\* Steps that leave the rows and the state file alone.
LEMMA ToldUnchanged ==
    ASSUME TapeTold, UNCHANGED <<rows, file, history>>
    PROVE  TapeTold'
BY DEF TapeTold, Told, Taken, history

\* A run that goes on with the next member, or ends.
LEMMA NextMemberKeeps ==
    ASSUME IInv, NextMember, stage = "scrape", UNCHANGED <<rows, file, history>>
    PROVE  TapeTold' /\ Sending' /\ InRun'
<1>1. TapeTold'
  BY ToldUnchanged DEF IInv
<1>2. stage' \in {"off", "scrape"} /\ (stage' # "off" => sent' = sent)
  BY NextMemberFacts DEF IInv, TypeInv
<1>3. Sending'
  BY <1>2 DEF Sending
<1>4. InRun'
  BY <1>2 DEF InRun, IInv, history
<1> QED
  BY <1>1, <1>3, <1>4

\* A layout is for the totals in the file, or else the rows are laid out for others.
LEMMA RunMemberKeeps ==
    ASSUME IInv, RunMember(MEMBERS[turn])
    PROVE  TapeTold' /\ Sending' /\ InRun'
<1> DEFINE m == MEMBERS[turn]
           U == usage[m]
           old == sent[m]
           new == Recorded(old, U)
           tape == synthesize(old, U)
<1>0. TypeOK /\ m \in Member /\ TapeTold /\ InRun
  BY TurnFacts DEF IInv, TypeInv
<1>1. stage = "scrape" /\ UNCHANGED <<rows, file, history>>
  BY DEF RunMember, history
<1>2. CASE Appends(old, U) = {}
  <2>1. NextMember
    BY <1>2 DEF RunMember
  <2> QED
    BY <1>1, <2>1, NextMemberKeeps
<1>3. CASE Appends(old, U) # {}
  <2>1. /\ outbox' = tape /\ sent' = [sent EXCEPT ![m] = new]
        /\ stage' = "post" /\ UNCHANGED turn
    BY <1>3 DEF RunMember
  <2>2. old \in Totals /\ U \in Totals /\ sent \in [Member -> Totals] /\ file[m] \in Totals
    BY <1>0 DEF TypeOK
  <2>3. old \in [App -> Nat] /\ U \in [App -> Nat] /\ old # None /\ new # None
    BY <2>2, ConstantFacts, RecordedTotals
  <2>4. /\ \A a \in App : old[a] <= new[a]
        /\ new # old
        /\ synthesize(old, new) = tape
    BY <1>3, <2>3, RecordedFacts
  <2>5. sent'[m] = new /\ \A k \in Member : k # m => sent'[k] = sent[k]
    BY <1>0, <2>1, <2>2
  <2>6. UNCHANGED <<rows, file, unsaved, relaid>>
    BY <1>1 DEF history
  <2> HIDE DEF new, tape, old, U, m
  <2>7. TapeTold'
    BY <1>0, <1>1, ToldUnchanged
  <2>8. InRun'
    BY <1>0, <1>1, <2>1, <2>5, <2>6 DEF InRun, m
  <2>9. ASSUME m \notin relaid, unsaved[m] \in {None, new}
        PROVE  Told(m) /\ file[m] = old
    <3>1. old = file[m] \/ (unsaved[m] # None /\ old = unsaved[m])
      BY <1>0, <1>1, <2>9 DEF InRun, old
    <3>2. old = file[m]
      BY <2>4, <2>9, <3>1
    <3>3. ~ Taken(m)
      BY <2>4, <2>9, <3>2 DEF Taken
    <3> QED
      BY <1>0, <2>9, <3>2, <3>3 DEF TapeTold
  <2>10. ASSUME m \notin relaid', unsaved'[m] \in {None, sent'[m]}
         PROVE  /\ Told(m)'
                /\ \A a \in App : file'[m][a] <= sent'[m][a]
                /\ ToSet(outbox') \subseteq Batch(file'[m], sent'[m])
                /\ Batch(file'[m], sent'[m]) \subseteq ToSet(rows'[m]) \cup ToSet(outbox')
    <3>1. Told(m) /\ file[m] = old
      BY <2>5, <2>6, <2>9, <2>10
    <3>2. Told(m)'
      BY <2>1, <2>6, <3>1 DEF Told, m
    <3>3. \A a \in App : file'[m][a] <= sent'[m][a]
      BY <2>4, <2>5, <2>6, <3>1
    <3>4. Batch(file'[m], sent'[m]) = ToSet(outbox')
      BY <2>1, <2>4, <2>5, <2>6, <3>1 DEF Batch
    <3> QED
      BY <3>2, <3>3, <3>4
  <2>11. Sending'
    BY <2>1, <2>10 DEF Sending, m
  <2> QED
    BY <2>7, <2>8, <2>11
<1> QED
  BY <1>2, <1>3

\* What is stored of an upload is part of its tape.
LEMMA StoreKeeps ==
    ASSUME IInv, stage = "post", Store(MEMBERS[turn]), UNCHANGED file
    PROVE  LET m == MEMBERS[turn]
           IN  /\ TapeTold'
               /\ m \notin relaid' =>
                    /\ Tells(ToSet(rows'[m]), file[m], sent[m])
                    /\ m \notin relaid /\ unsaved[m] \in {None, sent[m]}
<1> DEFINE m == MEMBERS[turn]
<1>0. TypeOK /\ TypeInv /\ m \in Member /\ TapeTold /\ Sending
  BY TurnFacts DEF IInv, TypeInv
<1>1. /\ ToSet(rows'[m]) = ToSet(rows[m]) \cup ToSet(Chunk)
      /\ unsaved'[m] = sent[m]
      /\ relaid' \subseteq Member
      /\ m \notin relaid' => m \notin relaid /\ unsaved[m] \in {None, sent[m]}
      /\ \A k \in Member \ {m} : /\ rows'[k] = rows[k] /\ unsaved'[k] = unsaved[k]
                                 /\ k \in relaid' <=> k \in relaid
  BY <1>0, StoreFacts
<1>2. ToSet(Chunk) \subseteq ToSet(outbox) /\ sent[m] \in Totals
  BY <1>0, ChunkFacts DEF TypeOK
<1>3. ASSUME m \notin relaid'
      PROVE  Tells(ToSet(rows'[m]), file[m], sent[m])
  <2>1. unsaved[m] \in {None, sent[m]}
    BY <1>1, <1>3
  <2>2. Told(m) /\ ToSet(outbox) \subseteq Batch(file[m], sent[m])
    BY <1>0, <1>1, <1>3 DEF Sending
  <2>3. Tells(ToSet(rows[m]), file[m], unsaved[m])
    BY <2>2 DEF Told
  <2>4. ToSet(Chunk) \subseteq Batch(file[m], sent[m])
    BY <1>2, <2>2
  <2> HIDE DEF m
  <2>5. Tells(ToSet(rows[m]) \cup ToSet(Chunk), file[m], sent[m])
    BY <1>2, <2>1, <2>3, <2>4, TellsStored
  <2> QED
    BY <1>1, <2>5
<1> HIDE DEF m
<1>4. ASSUME NEW k \in Member \ relaid'
      PROVE  (Told(k) \/ Taken(k))'
  <2>1. CASE k = m
    BY <1>1, <1>3, <2>1 DEF Told
  <2>2. CASE k # m
    <3>1. k \in Member \ relaid /\ rows'[k] = rows[k] /\ unsaved'[k] = unsaved[k] /\ file' = file
      BY <1>1, <2>2
    <3>2. Told(k) \/ Taken(k)
      BY <1>0, <3>1 DEF TapeTold
    <3> QED
      BY <3>1, <3>2 DEF Told, Taken
  <2> QED
    BY <2>1, <2>2
<1>5. TapeTold'
  BY <1>4 DEF TapeTold
<1> QED
  BY <1>1, <1>3, <1>5 DEF m

\* A chunk moves from the outbox to the rows.
LEMMA PostKeeps ==
    ASSUME IInv, Post(MEMBERS[turn])
    PROVE  TapeTold' /\ Sending' /\ InRun'
<1> DEFINE m == MEMBERS[turn]
<1>0. TypeOK /\ TypeInv /\ m \in Member /\ Sending /\ InRun
  BY TurnFacts DEF IInv, TypeInv
<1>1. /\ stage = "post" /\ Store(m) /\ UNCHANGED <<file, turn, sent>>
      /\ outbox' = SubSeq(outbox, Len(Chunk) + 1, Len(outbox))
      /\ stage' = IF outbox' = <<>> THEN "save" ELSE "post"
  BY DEF Post
<1>2. /\ TapeTold'
      /\ m \notin relaid' => /\ Tells(ToSet(rows'[m]), file[m], sent[m])
                             /\ m \notin relaid /\ unsaved[m] \in {None, sent[m]}
  BY <1>1, StoreKeeps
<1>3. /\ ToSet(rows'[m]) = ToSet(rows[m]) \cup ToSet(Chunk) /\ unsaved'[m] = sent[m]
      /\ \A k \in Member \ {m} : unsaved'[k] = unsaved[k] /\ (k \in relaid' <=> k \in relaid)
  BY <1>0, <1>1, StoreFacts
<1>4. ToSet(outbox) = ToSet(Chunk) \cup ToSet(outbox')
  BY <1>0, <1>1, ChunkFacts
<1>5. MEMBERS[turn'] = m
  BY <1>1
<1> HIDE DEF m
<1>6. Sending'
  <2>1. ASSUME m \notin relaid'
        PROVE  /\ Told(m)'
               /\ \A a \in App : file'[m][a] <= sent'[m][a]
               /\ ToSet(outbox') \subseteq Batch(file'[m], sent'[m])
               /\ Batch(file'[m], sent'[m]) \subseteq ToSet(rows'[m]) \cup ToSet(outbox')
    <3>1. /\ \A a \in App : file[m][a] <= sent[m][a]
          /\ ToSet(outbox) \subseteq Batch(file[m], sent[m])
          /\ Batch(file[m], sent[m]) \subseteq ToSet(rows[m]) \cup ToSet(outbox)
      BY <1>0, <1>1, <1>2, <2>1 DEF Sending, m
    <3>2. Told(m)'
      BY <1>1, <1>2, <1>3, <2>1 DEF Told, m
    <3>3. file'[m] = file[m] /\ sent'[m] = sent[m]
      BY <1>1
    <3> QED
      BY <1>3, <1>4, <3>1, <3>2, <3>3
  <2>2. stage' = "save" => unsaved'[m] = sent'[m] /\ outbox' = <<>>
    BY <1>1, <1>3
  <2> QED
    BY <1>5, <2>1, <2>2 DEF Sending, m
<1>7. InRun'
  <2>1. ASSUME NEW k \in Member \ relaid', k # m
        PROVE  sent'[k] = file'[k] \/ (unsaved'[k] # None /\ sent'[k] = unsaved'[k])
    <3>1. k \in Member \ relaid /\ unsaved'[k] = unsaved[k] /\ file' = file /\ sent' = sent
      BY <1>1, <1>3, <2>1
    <3> QED
      BY <1>0, <1>1, <2>1, <3>1 DEF InRun, m
  <2>2. stage' \in {"post", "save"}
    BY <1>1
  <2> QED
    BY <1>5, <2>1, <2>2 DEF InRun
<1> QED
  BY <1>2, <1>6, <1>7

\* The rows of a lost answer wait for a repeated upload, or for another member's save.
LEMMA AnswerLostKeeps ==
    ASSUME IInv, AnswerLost(MEMBERS[turn])
    PROVE  TapeTold' /\ Sending' /\ InRun'
<1> DEFINE m == MEMBERS[turn]
<1>0. TypeOK /\ TypeInv /\ m \in Member /\ InRun
  BY TurnFacts DEF IInv, TypeInv
<1>1. stage = "post" /\ Store(m) /\ UNCHANGED file /\ NextMember
  BY DEF AnswerLost
<1>2. TapeTold'
  BY <1>1, StoreKeeps
<1>3. stage' \in {"off", "scrape"} /\ (stage' # "off" => sent' = sent)
  BY <1>0, <1>1, NextMemberFacts
<1>4. /\ unsaved'[m] = sent[m] /\ sent[m] \in Totals /\ sent[m] # None
      /\ \A k \in Member \ {m} : unsaved'[k] = unsaved[k] /\ (k \in relaid' <=> k \in relaid)
  BY <1>0, <1>1, StoreFacts, ConstantFacts DEF TypeOK
<1> HIDE DEF m
<1>5. ASSUME stage' # "off", NEW k \in Member \ relaid'
      PROVE  sent'[k] = file'[k] \/ (unsaved'[k] # None /\ sent'[k] = unsaved'[k])
  <2>1. CASE k = m
    BY <1>3, <1>4, <1>5, <2>1
  <2>2. CASE k # m
    <3>1. k \in Member \ relaid /\ unsaved'[k] = unsaved[k] /\ file' = file /\ sent' = sent
      BY <1>1, <1>3, <1>4, <1>5, <2>2
    <3> QED
      BY <1>0, <1>1, <2>2, <3>1 DEF InRun, m
  <2> QED
    BY <2>1, <2>2
<1>6. Sending' /\ InRun'
  BY <1>3, <1>5 DEF Sending, InRun
<1> QED
  BY <1>2, <1>6

\* The save makes the member's tape complete; it may take another's unsaved totals along.
LEMMA SaveKeeps ==
    ASSUME IInv, Save(MEMBERS[turn])
    PROVE  TapeTold' /\ Sending' /\ InRun'
<1> DEFINE m == MEMBERS[turn]
<1>0. TypeOK /\ TypeInv /\ m \in Member /\ TapeTold /\ Sending /\ InRun
  BY TurnFacts DEF IInv, TypeInv
<1>1. /\ stage = "save" /\ NextMember /\ file' = sent /\ unsaved' = [unsaved EXCEPT ![m] = None]
      /\ UNCHANGED <<rows, relaid>>
  BY DEF Save
<1>2. stage' \in {"off", "scrape"} /\ (stage' # "off" => sent' = sent)
  BY <1>0, <1>1, NextMemberFacts
<1>3. Sending' /\ InRun'
  BY <1>1, <1>2 DEF Sending, InRun
<1>4. unsaved'[m] = None /\ \A k \in Member : k # m => unsaved'[k] = unsaved[k]
  BY <1>0, <1>1 DEF TypeOK
<1>5. ASSUME m \notin relaid
      PROVE  Tells(ToSet(rows[m]), sent[m], None)
  <2>1. /\ unsaved[m] = sent[m] /\ outbox = <<>>
        /\ Told(m)
        /\ \A a \in App : file[m][a] <= sent[m][a]
        /\ Batch(file[m], sent[m]) \subseteq ToSet(rows[m]) \cup ToSet(outbox)
    BY <1>0, <1>1, <1>5 DEF Sending
  <2>2. ToSet(outbox) = {}
    BY <2>1, ToSetOne
  <2>3. /\ Tells(ToSet(rows[m]), file[m], sent[m])
        /\ Batch(file[m], sent[m]) \subseteq ToSet(rows[m])
        /\ file[m] \in Totals /\ sent[m] \in Totals
    BY <1>0, <2>1, <2>2 DEF Told, TypeOK
  <2> HIDE DEF m
  <2> QED
    BY <2>1, <2>3, TellsSaved
<1> HIDE DEF m
<1>6. ASSUME NEW k \in Member \ relaid'
      PROVE  (Told(k) \/ Taken(k))'
  <2>1. k \in Member \ relaid /\ rows' = rows
    BY <1>1
  <2>2. CASE k = m
    BY <1>1, <1>4, <1>5, <2>1, <2>2 DEF Told
  <2>3. CASE k # m
    <3>1. unsaved'[k] = unsaved[k] /\ file'[k] = sent[k]
      BY <1>1, <1>4, <2>1, <2>3
    <3>2. sent[k] = file[k] \/ (unsaved[k] # None /\ sent[k] = unsaved[k])
      BY <1>0, <1>1, <2>1, <2>3 DEF InRun, m
    <3>3. CASE sent[k] = file[k]
      BY <1>0, <2>1, <3>1, <3>3 DEF TapeTold, Told, Taken
    <3>4. CASE unsaved[k] # None /\ sent[k] = unsaved[k]
      BY <3>1, <3>4 DEF Taken
    <3> QED
      BY <3>2, <3>3, <3>4
  <2> QED
    BY <2>2, <2>3
<1> QED
  BY <1>3, <1>6 DEF TapeTold

\* After the loss of the file only members without rows are spoken of.
LEMMA LoseFileKeeps ==
    ASSUME IInv, LoseFile
    PROVE  TapeTold' /\ Sending' /\ InRun'
<1>1. /\ stage = "off" /\ file' = Nothing /\ relaid' = relaid \cup {m \in Member : rows[m] # <<>>}
      /\ UNCHANGED <<rows, runVars, unsaved>>
  BY DEF LoseFile
<1>2. ASSUME NEW m \in Member \ relaid'
      PROVE  Told(m)'
  <2>1. rows'[m] = <<>> /\ file'[m] = Nothing[m]
    BY <1>1
  <2>2. ToSet(rows'[m]) = {}
    BY <2>1, ToSetOne
  <2> QED
    BY <2>1, <2>2, NothingTells DEF Told
<1>3. TapeTold'
  BY <1>2 DEF TapeTold
<1>4. Sending' /\ InRun'
  BY <1>1 DEF Sending, InRun, runVars
<1> QED
  BY <1>3, <1>4

\* Every action keeps the invariant.
LEMMA IStep == ASSUME LoneUploads PROVE IInv /\ [Next]_vars => IInv'
<1> SUFFICES ASSUME IInv, [Next]_vars
             PROVE  TapeTold' /\ Sending' /\ InRun'
  BY TypeStep DEF IInv
<1> DEFINE m == MEMBERS[turn]
<1>0. TypeInv /\ TypeOK /\ TapeTold /\ Sending /\ InRun
  BY DEF IInv, TypeInv
<1>1. CASE StartRun
  <2>1. stage' = "scrape" /\ sent' = file /\ UNCHANGED <<rows, file, history>>
    BY <1>1 DEF StartRun
  <2>2. TapeTold'
    BY <1>0, <2>1, ToldUnchanged
  <2> QED
    BY <2>1, <2>2 DEF Sending, InRun
<1>2. CASE RunMember(m)
  BY <1>2, RunMemberKeeps
<1>3. CASE Post(m)
  BY <1>3, PostKeeps
<1>4. CASE Save(m)
  BY <1>4, SaveKeeps
<1>5. CASE ScrapeFails
  BY <1>5, NextMemberKeeps DEF ScrapeFails, history
\* Only a family of one: the run ends.
<1>6. CASE RequestFails
  <2>1. Len(MEMBERS) = 1 /\ turn \in 1..Len(MEMBERS)
    BY <1>0, <1>6 DEF RequestFails, Fail, LoneUploads, TypeOK
  <2>2. ~ (turn < Len(MEMBERS))
    BY <2>1
  <2>3. stage' = "off" /\ UNCHANGED <<rows, file, history>>
    BY <1>6, <2>2 DEF RequestFails, NextMember, Exit
  <2>4. TapeTold'
    BY <1>0, <2>3, ToldUnchanged
  <2> QED
    BY <2>3, <2>4 DEF Sending, InRun
<1>7. CASE AnswerLost(m)
  BY <1>7, AnswerLostKeeps
<1>8. CASE Crash
  <2>1. stage' = "off" /\ UNCHANGED <<rows, file, history>>
    BY <1>8 DEF Crash, Exit
  <2>2. TapeTold'
    BY <1>0, <2>1, ToldUnchanged
  <2> QED
    BY <2>1, <2>2 DEF Sending, InRun
<1>9. CASE LoseFile
  BY <1>9, LoseFileKeeps
<1>10. CASE (\E k \in Member, a \in App : Use(k, a)) \/ UNCHANGED vars
  <2>1. UNCHANGED <<rows, file, runVars, history>>
    BY <1>10 DEF Use, vars
  <2>2. UNCHANGED <<rows, file, unsaved, relaid, stage, turn, sent, outbox>>
    BY <2>1 DEF runVars, history
  <2>3. TapeTold'
    BY <1>0, <2>1, ToldUnchanged
  <2> QED
    BY <1>0, <2>2, <2>3 DEF Sending, InRun, Told
<1> QED
  BY <1>1, <1>2, <1>3, <1>4, <1>5, <1>6, <1>7, <1>8, <1>9, <1>10 DEF Next, Run, RunFails

\* Rows that tell the totals of the file are counted as such.
LEMMA IExact == IInv => TapeExact
<1> SUFFICES ASSUME IInv, NEW m \in Member \ relaid, unsaved[m] = None, NEW a \in App
             PROVE  Counted(m, a) = file[m][a]
  BY DEF TapeExact
<1>1. /\ rows[m] \in Seq(Event) /\ file[m] \in Totals /\ Injective(rows[m])
  BY DEF IInv, TypeInv, TypeOK, NoTwice
<1>2. Told(m)
  BY DEF IInv, TapeTold, Taken
<1>3. Exact(ToSet(rows[m]), file[m])
  BY <1>2 DEF Told, Tells
<1> QED
  BY <1>1, <1>3, CountedIsShown

\* CalculateUsage counts what the collector's state file says (of the members TapeExact speaks of),
\* for any number of apps and members and however often scrapes, answers, runs and files are lost;
\* if requests are refused, for a family of one.
THEOREM TapeAlwaysExact ==
    ASSUME LoneUploads
    PROVE  Spec => []TapeExact
BY IInit, IStep, IExact, PTL DEF Spec

=============================================================================
