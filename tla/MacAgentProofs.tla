--------------------------- MODULE MacAgentProofs ---------------------------
(***************************************************************************)
(* Proofs about the agent of a Mac, for any messages, any lengths of the   *)
(* warnings and any number of failures: its state is well-formed, and no   *)
(* lock that warns covers the screen before a whole warning was given.     *)
(***************************************************************************)
EXTENDS MacAgent, TLAPS

\* A countdown has as many seconds to go as are left of those promised since the device
\* was unlocked; none are left once it has warned; and before the first one none passed.
Paid ==
    /\ warned => promised > 0 /\ elapsed = promised
    /\ task # None => promised > 0 /\ elapsed + task.left = promised
    /\ ~warned /\ task = None => promised = 0 /\ elapsed = 0

IInv == TypeOK /\ Paid

LEMMA FallbackIsWant == Fallback \in Want
  BY MacAssumption DEF Fallback, Want

LEMMA Bounds == 0 \in 0..MaxFailures /\ \A n \in Warnings : n \in Nat /\ n > 0
  BY MacAssumption

LEMMA BlocksTyped ==
    /\ \A m \in Messages, d \in BOOLEAN : ShowLock(m, d) \in Block
    /\ HideLock \in Block /\ ShowWarning \in Block
    /\ StartWarningAudio \in Block /\ HideWarning \in Block
  BY DEF ShowLock, HideLock, ShowWarning, StartWarningAudio, HideWarning, Block, Cover

\* A queue stays one when blocks are put behind it.
LEMMA OnMainTyped == ASSUME queue \in Seq(Block), NEW blocks \in Seq(Block), OnMain(blocks)
                     PROVE  queue' \in Seq(Block) /\ Len(queue') <= MaxQueue
  BY DEF OnMain

LEMMA InitIInv == Init => IInv
<1> SUFFICES ASSUME Init PROVE IInv
  OBVIOUS
<1>1. queue \in Seq(Block) /\ Len(queue) <= MaxQueue
  BY MacAssumption DEF Init
<1>2. TypeOK
  BY <1>1, FallbackIsWant, Bounds DEF Init, TypeOK
<1>3. Paid
  BY DEF Init, Paid
<1> QED
  BY <1>2, <1>3 DEF IInv

\* A process that has just been started, or none.
LEMMA FreshIInv ==
    ASSUME IInv, Fresh, want' = want, reported' = reported,
           marker' \in BOOLEAN, pc' \in {"off", "fetch"}, failures' \in 0..MaxFailures
    PROVE  IInv'
<1>1. queue' \in Seq(Block) /\ Len(queue') <= MaxQueue
  BY MacAssumption DEF Fresh
<1>2. TypeOK'
  BY <1>1, FallbackIsWant, Bounds DEF IInv, Fresh, TypeOK
<1>3. Paid'
  BY DEF Fresh, Paid
<1> QED
  BY <1>2, <1>3 DEF IInv

LEMMA FailTyped == ASSUME IInv, Fail \/ UNCHANGED failures
                   PROVE  failures' \in 0..MaxFailures
  BY MacAssumption DEF IInv, TypeOK, Fail

LEMMA RunMainIInv == ASSUME IInv, RunMain
                     PROVE  IInv'
<1> USE DEF IInv
<1>1. Head(queue) \in Block /\ queue' \in Seq(Block) /\ Len(queue') <= MaxQueue
  BY MacAssumption DEF TypeOK, RunMain
<1>2. Head(queue).do = "cover" => Head(queue).look \in Cover
  BY <1>1 DEF Block
<1>3. cover' \in Cover \cup {None} /\ banner' \in BOOLEAN /\ sound' \in BOOLEAN /\ missed' \in BOOLEAN
  BY <1>2 DEF TypeOK, RunMain, isShowing
<1>4. UNCHANGED <<daemonVars, marker, pc, coreVars, failures>>
  BY DEF RunMain
<1>5. TypeOK'
  BY <1>1, <1>3, <1>4 DEF TypeOK, daemonVars, coreVars
<1>6. Paid'
  BY <1>4 DEF Paid, coreVars
<1> QED
  BY <1>5, <1>6

LEMMA ObeyIInv == ASSUME IInv, Obey
                  PROVE  IInv'
<1> USE DEF IInv
<1> DEFINE w == IF answer = None THEN state ELSE answer
<1>1. w \in Want
  BY DEF TypeOK
<1>2. /\ state' = w /\ signature' = SignatureOf(w) /\ answer' = None /\ pc' = "look"
      /\ UNCHANGED <<daemonVars, marker, seen, last, screenVars, failures>>
      /\ \/ UNCHANGED <<task, cancelled, warned, elapsed, promised, queue, missed>>
         \/ Release(w) \/ Engage(w) \/ Warn(w)
  BY DEF Obey
<1> HIDE DEF w
<1>3. w.locked \in BOOLEAN /\ w.seconds \in {0} \cup Warnings /\ w.message \in Messages /\ w.debug \in BOOLEAN
  BY <1>1 DEF Want
<1>4. SignatureOf(w) \in Signature
  BY <1>1 DEF SignatureOf, Signature, TypeOK
<1>5. ASSUME Release(w) \/ Engage(w)
      PROVE  queue' \in Seq(Block) /\ Len(queue') <= MaxQueue
  <2>1. <<HideWarning>> \in Seq(Block) /\ <<HideWarning, HideLock>> \in Seq(Block)
        /\ <<HideWarning, ShowLock(w.message, w.debug)>> \in Seq(Block)
    BY <1>3, BlocksTyped
  <2>2. queue \in Seq(Block)
    BY DEF TypeOK
  <2>3. \E blocks \in Seq(Block) : OnMain(blocks)
    BY <1>5, <2>1 DEF Release, Engage
  <2> QED
    BY <2>2, <2>3, OnMainTyped
<1>6. /\ queue' \in Seq(Block) /\ Len(queue') <= MaxQueue
      /\ task' \in Countdown \cup {None}
      /\ cancelled' \in {"none", "new", "begun"} /\ warned' \in BOOLEAN
      /\ elapsed' \in Nat /\ promised' \in {0} \cup Warnings /\ missed' \in BOOLEAN
  <2>1. CASE UNCHANGED <<task, cancelled, warned, elapsed, promised, queue, missed>>
    BY <2>1 DEF TypeOK
  <2>2. CASE Release(w)
    <3>1. task' = None /\ warned' = FALSE /\ elapsed' = 0 /\ promised' = 0
          /\ cancelled' \in {"none", "new", "begun"}
      BY <2>2 DEF Release, WarnedAfterUnlock, TypeOK
    <3>2. missed' \in BOOLEAN
      BY <2>2 DEF Release
    <3> QED
      BY <1>5, <2>2, <3>1, <3>2, Bounds
  <2>3. CASE Engage(w)
    BY <1>5, <2>3 DEF Engage, TypeOK
  <2>4. CASE Warn(w)
    <3>1. UNCHANGED <<cancelled, warned, elapsed, queue, missed>> /\ w.seconds \in Warnings
      BY <1>3, <2>4 DEF Warn
    <3>2. /\ task' \in {task, [left |-> w.seconds, message |-> w.message, begun |-> FALSE]}
          /\ promised' \in {promised, w.seconds}
      BY <2>4 DEF Warn
    <3>3. [left |-> w.seconds, message |-> w.message, begun |-> FALSE] \in Countdown
      BY <1>3, <3>1, Bounds DEF Countdown
    <3> HIDE DEF w
    <3> QED
      BY <3>1, <3>2, <3>3 DEF TypeOK, Countdown
  <2> QED
    BY <1>2, <2>1, <2>2, <2>3, <2>4
<1>7. TypeOK'
  BY <1>1, <1>2, <1>4, <1>6 DEF TypeOK, daemonVars, screenVars, Countdown
<1>8. Paid'
  <2>1. CASE UNCHANGED <<task, cancelled, warned, elapsed, promised, queue, missed>> \/ Engage(w)
    BY <2>1 DEF Paid, Engage
  <2>2. CASE Release(w)
    BY <2>2 DEF Paid, Release, WarnedAfterUnlock
  <2>3. CASE Warn(w)
    <3>1. warned' = FALSE /\ ~warned /\ elapsed' = elapsed
      BY <2>3 DEF Warn, TypeOK
    <3>2. CASE task # None
      <4>1. task' = task /\ promised' = promised
        BY <2>3, <3>2 DEF Warn, Paid
      <4> QED
        BY <3>1, <3>2, <4>1 DEF Paid
    <3>3. CASE task = None
      <4>1. elapsed = 0 /\ promised = 0
        BY <3>1, <3>3 DEF Paid
      <4>2. task' = [left |-> w.seconds, message |-> w.message, begun |-> FALSE]
            /\ promised' = w.seconds
        BY <2>3, <3>3, <4>1 DEF Warn
      <4>3. w.seconds \in Nat /\ w.seconds > 0 /\ task'.left = w.seconds
        BY <1>3, <2>3, <4>2, Bounds DEF Warn
      <4>4. task' \in Countdown
        BY <1>3, <4>2, <4>3 DEF Countdown
      <4>5. task' # None
        BY <4>4, MacAssumption
      <4> QED
        BY <3>1, <4>1, <4>2, <4>3, <4>5 DEF Paid
    <3> QED
      BY <3>2, <3>3
  <2> QED
    BY <1>2, <2>1, <2>2, <2>3
<1> QED
  BY <1>7, <1>8

\* The steps of the loop other than Obey.
LEMMA LoopIInv == ASSUME IInv, FetchState \/ Look \/ Emit \/ Skip \/ EmitFails \/ WakeUp
                  PROVE  IInv'
<1> USE DEF IInv
<1>1. failures' \in 0..MaxFailures
  BY FailTyped DEF FetchState, Look, Emit, Skip, EmitFails, WakeUp
<1>2. UNCHANGED <<want, marker, state, signature, warned, task, cancelled, elapsed,
                  promised, queue, screenVars, missed>>
  BY DEF FetchState, Look, Emit, Skip, EmitFails, WakeUp, AfterObserving, daemonVars, coreVars
<1>3. /\ answer' \in Want \cup {None} /\ pc' \in {"obey", "post", "sleep", "fetch"} /\ seen' \in BOOLEAN
      /\ reported' \in {"locked", "other", None} /\ last' \in {"locked", "other", None}
  BY DEF FetchState, Look, Emit, Skip, EmitFails, WakeUp, AfterObserving, daemonVars, coreVars, Observed,
         isShowing, TypeOK
<1>4. TypeOK'
  BY <1>1, <1>2, <1>3 DEF TypeOK, screenVars
<1>5. Paid'
  BY <1>2 DEF Paid
<1> QED
  BY <1>4, <1>5

LEMMA BeginCountdownIInv == ASSUME IInv, BeginCountdown
                            PROVE  IInv'
<1> USE DEF IInv
<1>1. task \in Countdown /\ task # None
  BY DEF TypeOK, BeginCountdown, Countdown
<1>2. task' = [task EXCEPT !.begun = TRUE]
  BY DEF BeginCountdown
<1>3. queue' \in Seq(Block) /\ Len(queue') <= MaxQueue
  <2>1. queue \in Seq(Block) /\ <<StartWarningAudio, ShowWarning>> \in Seq(Block)
    BY BlocksTyped DEF TypeOK
  <2> QED
    BY <2>1, OnMainTyped DEF BeginCountdown
<1>4. UNCHANGED <<daemonVars, marker, pc, answer, state, signature, warned, cancelled, seen,
                  last, elapsed, promised, screenVars, missed, failures>>
  BY DEF BeginCountdown
<1>5. task' \in Countdown /\ task'.left = task.left
  BY <1>1, <1>2 DEF Countdown
<1>6. TypeOK'
  BY <1>3, <1>4, <1>5 DEF TypeOK, daemonVars, screenVars, Countdown
<1>7. Paid'
  BY <1>1, <1>4, <1>5, MacAssumption DEF Paid
<1> QED
  BY <1>6, <1>7

LEMMA CountDownIInv == ASSUME IInv, CountDown
                       PROVE  /\ IInv'
                              /\ ~MoreToGo => promised' > 0 /\ elapsed' = promised'
                              /\ MoreToGo => queue' = queue \o <<ShowWarning>>
<1> USE DEF IInv
<1>1. task \in Countdown /\ task # None
  BY DEF TypeOK, CountDown, Countdown
<1>2. elapsed \in Nat /\ promised \in Nat /\ promised > 0 /\ task.left \in Nat \ {0}
      /\ elapsed + task.left = promised
  BY <1>1, Bounds DEF TypeOK, Paid, Countdown
<1>3. elapsed' = elapsed + 1 /\ promised' = promised
  BY DEF CountDown
<1>4. UNCHANGED <<daemonVars, marker, pc, answer, state, signature, cancelled, seen, last,
                  promised, screenVars, missed, failures>>
  BY DEF CountDown
<1>5. elapsed' \in Nat /\ (~MoreToGo => promised' > 0 /\ elapsed' = promised')
  BY <1>2, <1>3 DEF MoreToGo
<1>6. queue \in Seq(Block) /\ <<ShowWarning>> \in Seq(Block)
      /\ <<HideWarning, ShowLock(task.message, state.debug)>> \in Seq(Block)
  BY <1>1, BlocksTyped DEF TypeOK, Want, Countdown
<1>7. CASE MoreToGo
  <2>1. task' = [task EXCEPT !.left = @ - 1] /\ OnMain(<<ShowWarning>>) /\ warned' = warned
    BY <1>7 DEF CountDown
  <2>2. task' \in Countdown
        /\ task'.left = task.left - 1
    BY <1>1, <1>2, <1>7, <2>1 DEF MoreToGo, Countdown
  <2> queue' \in Seq(Block) /\ Len(queue') <= MaxQueue
    BY <1>6, <2>1, OnMainTyped
  <2>3. TypeOK'
    BY <1>4, <1>5, <2>1, <2>2 DEF TypeOK, daemonVars, screenVars, Countdown
  <2>4. Paid'
    <3>1. task' # None
      BY <2>2, MacAssumption
    <3>2. ~warned
      BY <1>1, <1>2 DEF Paid
    <3> QED
      BY <1>2, <1>3, <2>1, <2>2, <3>1, <3>2 DEF Paid, TypeOK
  <2> QED
    BY <1>7, <2>1, <2>3, <2>4 DEF OnMain
<1>8. CASE ~MoreToGo
  <2>1. /\ warned' = TRUE /\ task' = None
        /\ OnMain(<<HideWarning, ShowLock(task.message, state.debug)>>)
    BY <1>8 DEF CountDown
  <2> queue' \in Seq(Block) /\ Len(queue') <= MaxQueue
    BY <1>6, <2>1, OnMainTyped
  <2>2. TypeOK'
    BY <1>4, <1>5, <2>1 DEF TypeOK, daemonVars, screenVars, Countdown
  <2>3. Paid'
    BY <1>5, <1>8, <2>1 DEF Paid
  <2> QED
    BY <1>5, <1>8, <2>2, <2>3
<1> QED
  BY <1>7, <1>8

LEMMA CancelledEndsIInv == ASSUME IInv, CancelledEnds
                           PROVE  IInv'
<1> USE DEF IInv
<1>1. queue' \in Seq(Block) /\ Len(queue') <= MaxQueue
  <2>1. queue \in Seq(Block) /\ <<StartWarningAudio, HideWarning>> \in Seq(Block)
        /\ <<HideWarning>> \in Seq(Block)
    BY BlocksTyped DEF TypeOK
  <2>2. \E blocks \in Seq(Block) : OnMain(blocks)
    BY <2>1 DEF CancelledEnds
  <2> QED
    BY <2>1, <2>2, OnMainTyped
<1>2. cancelled' = "none"
      /\ UNCHANGED <<daemonVars, marker, pc, answer, state, signature, warned, task, seen, last,
                     elapsed, promised, screenVars, missed, failures>>
  BY DEF CancelledEnds
<1>3. TypeOK'
  BY <1>1, <1>2 DEF TypeOK, daemonVars, screenVars, Countdown
<1>4. Paid'
  BY <1>2 DEF Paid
<1> QED
  BY <1>3, <1>4

LEMMA NextIInv == IInv /\ [Next]_vars => IInv'
<1> SUFFICES ASSUME IInv, [Next]_vars PROVE IInv'
  OBVIOUS
<1>1. CASE UNCHANGED vars
  BY <1>1 DEF vars, daemonVars, coreVars, screenVars, IInv, TypeOK, Paid
<1>2. ASSUME NEW w \in Wants, ApplyConfig(w)
      PROVE  IInv'
  BY <1>2, MacAssumption DEF ApplyConfig, coreVars, screenVars, IInv, TypeOK, Paid
<1>3. CASE RestartDaemon
  <2>1. failures' \in 0..MaxFailures
    BY <1>3, FailTyped DEF RestartDaemon
  <2> QED
    BY <1>3, <2>1 DEF RestartDaemon, coreVars, screenVars, IInv, TypeOK, Paid
<1>4. CASE Launch
  BY <1>4, FreshIInv, FailTyped DEF Launch, daemonVars
<1>5. CASE AgentEnds
  <2>1. marker' \in BOOLEAN
    BY <1>5 DEF AgentEnds, IInv, TypeOK
  <2> QED
    BY <1>5, <2>1, FreshIInv, FailTyped DEF AgentEnds, daemonVars
<1>6. CASE DebugShutdown
  <2>1. marker' \in BOOLEAN
    BY <1>6 DEF DebugShutdown, IInv, TypeOK
  <2>2. failures' \in 0..MaxFailures
    BY <1>6, FailTyped DEF DebugShutdown
  <2> QED
    BY <1>6, <2>1, <2>2, FreshIInv DEF DebugShutdown, daemonVars
<1> QED
  BY <1>1, <1>2, <1>3, <1>4, <1>5, <1>6, RunMainIInv, ObeyIInv, LoopIInv, BeginCountdownIInv,
     CountDownIInv, CancelledEndsIInv
     DEF Next, Tick, Countdowns

THEOREM InvAlways == Spec => []IInv
  BY InitIInv, NextIInv, PTL DEF Spec

\* Decisions, countdowns, blocks and the screen are well-formed (Core and MacLockController).
THEOREM TypeCorrect == Spec => []TypeOK
<1>1. IInv => TypeOK
  BY DEF IInv
<1> QED
  BY <1>1, InvAlways, PTL

\* Both ways to put a cover up, Engage and completeWarning, wait for all the seconds of
\* the first lock that warned since the device was last unlocked; locks that ask for
\* other lengths meanwhile change nothing about that, nor do crashes and unlocks.
THEOREM GraceAlwaysHonoured == Spec => GraceHonoured
<1> DEFINE Honoured == CoverQueued /\ state'.seconds > 0 => promised' > 0 /\ elapsed' = promised'
<1>1. IInv /\ [Next]_vars => [Honoured]_vars
  <2> SUFFICES ASSUME IInv, Next, CoverQueued, state'.seconds > 0
               PROVE  promised' > 0 /\ elapsed' = promised'
    OBVIOUS
  <2>1. queue \in Seq(Block)
    BY DEF IInv, TypeOK
  <2>2. \A i : i \in DOMAIN queue' \ DOMAIN queue => queue' # queue /\ queue' # <<>>
    BY <2>1
  <2>3. queue' # queue /\ queue' # <<>>
    BY <2>2 DEF CoverQueued
  <2>4. ~RunMain
    <3> SUFFICES ASSUME RunMain PROVE FALSE
      OBVIOUS
    <3>1. queue # <<>> /\ queue' = Tail(queue)
      BY DEF RunMain
    <3>2. DOMAIN queue' \subseteq DOMAIN queue
      BY <2>1, <3>1
    <3> QED
      BY <3>2 DEF CoverQueued
  <2>5. ~(FetchState \/ Look \/ Emit \/ Skip \/ EmitFails \/ WakeUp)
    BY <2>3 DEF FetchState, Look, Emit, Skip, EmitFails, WakeUp, AfterObserving
  <2>6. ~(Launch \/ AgentEnds \/ DebugShutdown \/ RestartDaemon \/ \E w \in Wants : ApplyConfig(w))
    BY <2>3 DEF Launch, AgentEnds, DebugShutdown, RestartDaemon, ApplyConfig, Fresh
  <2>7. CASE Obey
    <3> DEFINE w == IF answer = None THEN state ELSE answer
    <3>1. state' = w /\ (UNCHANGED queue \/ Release(w) \/ Engage(w) \/ Warn(w))
      BY <2>7 DEF Obey
    <3> HIDE DEF w
    <3>2. ~Release(w)
      <4> SUFFICES ASSUME Release(w) PROVE FALSE
        OBVIOUS
      <4>1. \/ queue' = queue \o <<HideWarning>>
            \/ queue' = queue \o <<HideWarning, HideLock>>
        BY DEF Release, OnMain
      <4>2. \A i \in DOMAIN queue' \ DOMAIN queue : queue'[i] \in {HideWarning, HideLock}
        BY <2>1, <4>1, BlocksTyped
      <4> QED
        BY <4>2 DEF CoverQueued, HideWarning, HideLock
    <3>3. Engage(w)
      BY <2>3, <3>1, <3>2 DEF Warn
    <3>4. warned /\ elapsed' = elapsed /\ promised' = promised
      BY <3>1, <3>3 DEF Engage
    <3> QED
      BY <3>4 DEF IInv, Paid
  <2>8. CASE BeginCountdown
    <3>1. queue' = queue \o <<StartWarningAudio, ShowWarning>>
      BY <2>8 DEF BeginCountdown, OnMain
    <3>2. \A i \in DOMAIN queue' \ DOMAIN queue : queue'[i] \in {StartWarningAudio, ShowWarning}
      BY <2>1, <3>1, BlocksTyped
    <3> QED
      BY <3>2 DEF CoverQueued, StartWarningAudio, ShowWarning
  <2>9. CASE CountDown
    <3>1. CASE MoreToGo
      <4>1. queue' = queue \o <<ShowWarning>>
        BY <2>9, <3>1, CountDownIInv
      <4>2. \A i \in DOMAIN queue' \ DOMAIN queue : queue'[i] = ShowWarning
        BY <2>1, <4>1, BlocksTyped
      <4> QED
        BY <4>2 DEF CoverQueued, ShowWarning
    <3>2. CASE ~MoreToGo
      BY <2>9, <3>2, CountDownIInv
    <3> QED
      BY <3>1, <3>2
  <2>10. CASE CancelledEnds
    <3>1. \/ queue' = queue \o <<StartWarningAudio, HideWarning>>
          \/ queue' = queue \o <<HideWarning>>
      BY <2>10 DEF CancelledEnds, OnMain
    <3>2. \A i \in DOMAIN queue' \ DOMAIN queue : queue'[i] \in {StartWarningAudio, HideWarning}
      BY <2>1, <3>1, BlocksTyped
    <3> QED
      BY <3>2 DEF CoverQueued, StartWarningAudio, HideWarning
  <2> QED
    BY <2>4, <2>5, <2>6, <2>7, <2>8, <2>9, <2>10 DEF Next, Tick, Countdowns
<1> QED
  BY <1>1, InvAlways, PTL DEF Spec, GraceHonoured

=============================================================================
