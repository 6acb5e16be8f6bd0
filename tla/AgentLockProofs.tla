--------------------------- MODULE AgentLockProofs ---------------------------
(***************************************************************************)
(* Proofs about AgentLock: an agent gives the grace a lock asks for, and a *)
(* debug shutdown lasts no longer than its lock, for any number of agents, *)
(* messages and failures.                                                  *)
(***************************************************************************)
EXTENDS AgentLock, TLAPS

\* warned is set only when a countdown ended, and the countdown is not forgotten
\* before the next unlock.
WarnedIsOver == \A a \in warned : countdown[a] = "over"

IInv == TypeOK /\ WarnedIsOver /\ PauseEndsWithLock

\* What GraceHonoured says of one step.
GraceStep ==
    \A a \in Agent :
       overlay'[a] # None /\ overlay'[a] # overlay[a] /\ overlay'[a].process = "up"
          /\ state[a].lock.warns
       => countdown[a] = "over"

LEMMA IdleType == Idle \in Want
BY DEF Idle, Want

LEMMA InitInv == Init => IInv
<1> SUFFICES ASSUME Init PROVE IInv
  OBVIOUS
<1>1. TypeOK
  <2>1. 0 \in 0..MaxFailures
    BY LockAssumption
  <2>2. state \in [Agent -> Want] /\ want \in Want
    BY IdleType DEF Init
  <2>3. /\ pc \in [Agent -> {"off", "fetch", "obey", "signal", "observe", "sleep"}]
        /\ countdown \in [Agent -> {"none", "running", "over"}]
        /\ overlay \in [Agent -> Overlay \cup {None}]
        /\ last \in [Agent -> {"locked", "other", None}]
    BY DEF Init
  <2> QED
    BY <2>1, <2>2, <2>3 DEF Init, TypeOK
<1>2. WarnedIsOver /\ PauseEndsWithLock
  BY DEF Init, WarnedIsOver, PauseEndsWithLock
<1> QED
  BY <1>1, <1>2 DEF IInv

-----------------------------------------------------------------------------
(* The service, and agents that come and go.                               *)

LEMMA FailBounded == ASSUME TypeOK, Fail PROVE failures' \in 0..MaxFailures
BY LockAssumption DEF TypeOK, Fail

LEMMA ApplyConfigInv ==
    ASSUME IInv, NEW w \in Wants, ApplyConfig(w) PROVE IInv' /\ GraceStep
<1> USE DEF ApplyConfig, agentVars, loopVars
<1>1. TypeOK'
  BY LockAssumption DEF IInv, TypeOK, StillPausing, LockedInDebug, Locked, Want
<1>2. WarnedIsOver'
  BY DEF IInv, WarnedIsOver
<1>3. PauseEndsWithLock'
  BY DEF StillPausing, PauseEndsWithLock, LockedInDebug, Locked
<1>4. GraceStep
  BY DEF GraceStep
<1> QED
  BY <1>1, <1>2, <1>3, <1>4 DEF IInv

\* What remains of an agent that is gone.
AgentType ==
    /\ pc \in [Agent -> {"off", "fetch", "obey", "signal", "observe", "sleep"}]
    /\ state \in [Agent -> Want]
    /\ warning \subseteq Agent /\ warned \subseteq Agent
    /\ countdown \in [Agent -> {"none", "running", "over"}]
    /\ overlay \in [Agent -> Overlay \cup {None}]
    /\ signal \subseteq Agent /\ covered \subseteq Agent
    /\ last \in [Agent -> {"locked", "other", None}]

ServiceType ==
    /\ want \in Want
    /\ pausing \in BOOLEAN
    /\ reported \in {"locked", "other", None}
    /\ child \in Agent \cup {None}
    /\ orphaned \in BOOLEAN
    /\ failures \in 0..MaxFailures

LEMMA TypeParts == TypeOK <=> AgentType /\ ServiceType
BY DEF TypeOK, AgentType, ServiceType

LEMMA GoneInv ==
    ASSUME AgentType, WarnedIsOver, NEW a \in Agent, Gone(a)
    PROVE  AgentType' /\ WarnedIsOver' /\ GraceStep
<1> USE DEF Gone
<1>1. AgentType'
  BY IdleType DEF AgentType
<1>2. WarnedIsOver'
  BY DEF AgentType, WarnedIsOver
<1>3. GraceStep
  BY DEF AgentType, GraceStep
<1> QED
  BY <1>1, <1>2, <1>3

LEMMA SameAgents ==
    ASSUME AgentType, WarnedIsOver, UNCHANGED agentVars
    PROVE  AgentType' /\ WarnedIsOver' /\ GraceStep
BY DEF agentVars, loopVars, AgentType, WarnedIsOver, GraceStep

LEMMA AgentDiesInv ==
    ASSUME IInv, NEW a \in Agent, AgentDies(a) PROVE IInv' /\ GraceStep
<1>1. AgentType' /\ WarnedIsOver' /\ GraceStep
  BY TypeParts, GoneInv DEF IInv, AgentDies
<1>2. ServiceType'
  BY FailBounded DEF IInv, TypeOK, ServiceType, AgentDies, serviceVars
<1>3. PauseEndsWithLock'
  BY DEF IInv, PauseEndsWithLock, LockedInDebug, Locked, AgentDies, serviceVars
<1> QED
  BY <1>1, <1>2, <1>3, TypeParts DEF IInv, TypeOK, AgentType, ServiceType

LEMMA RestartServiceInv == ASSUME IInv, RestartService PROVE IInv' /\ GraceStep
<1>0. AgentType /\ ServiceType /\ WarnedIsOver
  BY TypeParts DEF IInv
<1>1. AgentType' /\ WarnedIsOver' /\ GraceStep /\ orphaned' \in BOOLEAN
  <2>1. CASE child # None /\ pc[child] # "off"
    <3>1. child \in Agent
      BY <1>0, <2>1 DEF ServiceType
    <3> QED
      BY <1>0, <2>1, <3>1, GoneInv DEF ServiceType, RestartService
  <2>2. CASE ~(child # None /\ pc[child] # "off")
    BY <1>0, <2>2, SameAgents DEF ServiceType, RestartService
  <2> QED
    BY <2>1, <2>2
<1>2. ServiceType'
  BY <1>0, <1>1, FailBounded DEF IInv, ServiceType, RestartService
<1>3. PauseEndsWithLock'
  BY DEF PauseEndsWithLock, RestartService
<1> QED
  BY <1>1, <1>2, <1>3 DEF IInv, TypeOK, AgentType, ServiceType

LEMMA ServiceCrashesInv == ASSUME IInv, ServiceCrashes PROVE IInv' /\ GraceStep
<1>1. AgentType' /\ WarnedIsOver' /\ GraceStep
  BY TypeParts, SameAgents DEF IInv, ServiceCrashes
<1>2. ServiceType'
  BY FailBounded DEF IInv, TypeOK, ServiceType, ServiceCrashes
<1>3. PauseEndsWithLock'
  BY DEF PauseEndsWithLock, ServiceCrashes
<1> QED
  BY <1>1, <1>2, <1>3 DEF IInv, TypeOK, AgentType, ServiceType

\* A step that leaves the lock, the request for a pause and the loop's variables
\* alone needs only its types checked.
LEMMA SameLoop ==
    ASSUME IInv, UNCHANGED <<want, loopVars>>, TypeOK',
           pausing' = pausing \/ (pausing' /\ LockedInDebug(want))
    PROVE  IInv' /\ GraceStep
<1>1. WarnedIsOver' /\ GraceStep
  BY DEF IInv, loopVars, WarnedIsOver, GraceStep
<1>2. PauseEndsWithLock'
  BY DEF IInv, PauseEndsWithLock, LockedInDebug, Locked
<1> QED
  BY <1>1, <1>2 DEF IInv

LEMMA StartInv ==
    ASSUME IInv, NEW a \in Agent, Logon(a) \/ Watchdog(a) PROVE IInv' /\ GraceStep
<1>0. TypeOK /\ Start(a)
  BY DEF IInv, Logon, Watchdog
<1>1. TypeOK'
  <2>1. pc' \in [Agent -> {"off", "fetch", "obey", "signal", "observe", "sleep"}]
    BY <1>0 DEF TypeOK, Start, GoTo
  <2>2. state' \in [Agent -> Want]
    BY <1>0 DEF TypeOK, Start
  <2>3. child' \in Agent \cup {None} /\ UNCHANGED <<want, pausing, reported>>
    BY <1>0 DEF TypeOK, Logon, Watchdog, serviceVars
  <2> QED
    BY <1>0, <2>1, <2>2, <2>3 DEF TypeOK, Start, loopVars
<1>2. UNCHANGED <<want, pausing, loopVars>>
  BY DEF Logon, Watchdog, Start, serviceVars
<1> QED
  BY <1>1, <1>2, SameLoop

-----------------------------------------------------------------------------
(* The agent's loop.                                                       *)

LEMMA FetchStateInv ==
    ASSUME IInv, NEW a \in Agent, FetchState(a) PROVE IInv' /\ GraceStep
<1>1. TypeOK'
  BY FailBounded DEF IInv, TypeOK, FetchState, GoTo, serviceVars, loopVars
<1>2. UNCHANGED <<want, pausing, loopVars>>
  BY DEF FetchState, serviceVars
<1> QED
  BY <1>1, <1>2, SameLoop

LEMMA LookType == ASSUME TypeOK, NEW a \in Agent, Locked(state[a]) PROVE Look(a) \in Overlay
<1>1. state[a] \in Want
  BY DEF TypeOK
<1>2. state[a].lock \in Locks /\ state[a].debug \in BOOLEAN
  BY <1>1 DEF Want, Locked
<1> QED
  BY <1>2 DEF Look, Overlay, Locks

\* SetLocked(true) replaces the overlay of its own agent only.
LEMMA EngageFrame ==
    ASSUME TypeOK, NEW a \in Agent, Locked(state[a]), Engage(a)
    PROVE  /\ overlay' \in [Agent -> Overlay \cup {None}]
           /\ covered' \subseteq Agent
           /\ failures' \in 0..MaxFailures
           /\ \A b \in Agent \ {a} : overlay'[b] = overlay[b]
<1>1. covered' \subseteq Agent
  BY DEF TypeOK, Engage
<1>2. CASE UNCHANGED <<overlay, failures>>
  BY <1>1, <1>2 DEF TypeOK
<1>3. CASE overlay' = [overlay EXCEPT ![a] = Look(a)] /\ UNCHANGED failures
  BY <1>1, <1>3, LookType DEF TypeOK
<1>4. CASE overlay' = [overlay EXCEPT ![a] = None] /\ Fail
  BY <1>1, <1>4, FailBounded DEF TypeOK
<1> QED
  BY <1>2, <1>3, <1>4 DEF Engage

LEMMA ObeyInv ==
    ASSUME IInv, NEW a \in Agent, Obey(a) PROVE IInv' /\ GraceStep
<1>0. TypeOK /\ WarnedIsOver
  BY DEF IInv
<1>1. UNCHANGED <<want, pausing, reported, child, state, signal, last, orphaned>>
  BY DEF Obey, serviceVars
<1>2. pc' \in [Agent -> {"off", "fetch", "obey", "signal", "observe", "sleep"}]
  BY <1>0 DEF Obey, GoTo, TypeOK
<1>3. ASSUME warning' \subseteq Agent, warned' \subseteq Agent,
             countdown' \in [Agent -> {"none", "running", "over"}],
             overlay' \in [Agent -> Overlay \cup {None}],
             covered' \subseteq Agent, failures' \in 0..MaxFailures
      PROVE  TypeOK'
  BY <1>0, <1>1, <1>2, <1>3 DEF TypeOK
<1>4. CASE EngageAtOnce(a)
  <2>1. TypeOK'
    BY <1>0, <1>3, <1>4, EngageFrame DEF EngageAtOnce, TypeOK
  <2>2. WarnedIsOver'
    BY <1>0, <1>4 DEF EngageAtOnce, WarnedIsOver
  <2>3. GraceStep
    BY <1>0, <1>4, EngageFrame DEF EngageAtOnce, WarnedIsOver, GraceStep
  <2> QED
    BY <1>1, <2>1, <2>2, <2>3 DEF IInv, PauseEndsWithLock, LockedInDebug, Locked
<1>5. CASE EngageAfterCountdown(a)
  <2>1. TypeOK'
    BY <1>0, <1>3, <1>5, EngageFrame DEF EngageAfterCountdown, TypeOK
  <2>2. WarnedIsOver'
    BY <1>0, <1>5 DEF EngageAfterCountdown, WarnedIsOver
  <2>3. GraceStep
    BY <1>0, <1>5, EngageFrame DEF EngageAfterCountdown, GraceStep
  <2> QED
    BY <1>1, <2>1, <2>2, <2>3 DEF IInv, PauseEndsWithLock, LockedInDebug, Locked
<1>6. CASE AwaitCountdown(a)
  <2>1. TypeOK'
    BY <1>0, <1>3, <1>6 DEF AwaitCountdown, loopVars, TypeOK
  <2> QED
    BY <1>1, <1>6, <2>1, SameLoop DEF AwaitCountdown
<1>7. CASE StartCountdown(a)
  <2>1. TypeOK'
    BY <1>0, <1>3, <1>7 DEF StartCountdown, TypeOK
  <2>2. WarnedIsOver'
    BY <1>0, <1>7 DEF StartCountdown, WarnedIsOver, TypeOK
  <2>3. GraceStep
    BY <1>7 DEF StartCountdown, GraceStep
  <2> QED
    BY <1>1, <2>1, <2>2, <2>3 DEF IInv, PauseEndsWithLock, LockedInDebug, Locked
<1>8. CASE Release(a)
  <2>1. TypeOK'
    BY <1>0, <1>3, <1>8 DEF Release, Unwarned, TypeOK
  <2>2. WarnedIsOver'
    BY <1>0, <1>8 DEF Release, Unwarned, WarnedIsOver, TypeOK
  <2>3. GraceStep
    BY <1>0, <1>8 DEF Release, GraceStep, TypeOK
  <2> QED
    BY <1>1, <2>1, <2>2, <2>3 DEF IInv, PauseEndsWithLock, LockedInDebug, Locked
<1> QED
  BY <1>4, <1>5, <1>6, <1>7, <1>8 DEF Obey

LEMMA NoSignalInv ==
    ASSUME IInv, NEW a \in Agent, NoSignal(a) PROVE IInv' /\ GraceStep
<1>1. TypeOK'
  BY DEF IInv, TypeOK, NoSignal, GoTo, serviceVars, loopVars
<1> QED
  BY <1>1, SameLoop DEF NoSignal, serviceVars

\* The agent carries on after its request.
LEMMA ProceedInv ==
    ASSUME IInv, NEW a \in Agent, Proceed(a), UNCHANGED <<want, reported, child>>,
           pausing' \in BOOLEAN, pausing' = pausing \/ (pausing' /\ LockedInDebug(want)),
           failures' \in 0..MaxFailures
    PROVE  IInv' /\ GraceStep
<1>1. TypeOK'
  BY DEF IInv, TypeOK, Proceed, GoTo, NextStep, loopVars
<1> QED
  BY <1>1, SameLoop DEF Proceed

LEMMA DebugShutdownInv ==
    ASSUME IInv, NEW a \in Agent, DebugShutdown(a) PROVE IInv' /\ GraceStep
<1>0. TypeOK /\ AgentType /\ ServiceType /\ WarnedIsOver
  BY TypeParts DEF IInv
<1>1. UNCHANGED <<want, reported, child>>
  BY DEF DebugShutdown
<1>2. CASE /\ AcceptsShutdown /\ pausing' = TRUE
           /\ Gone(a) /\ UNCHANGED <<orphaned, failures>>
  <2>1. AgentType' /\ WarnedIsOver' /\ GraceStep
    BY <1>0, <1>2, GoneInv
  <2>2. ServiceType'
    BY <1>0, <1>1, <1>2 DEF ServiceType
  <2>3. PauseEndsWithLock'
    BY <1>1, <1>2 DEF AcceptsShutdown, PauseEndsWithLock, LockedInDebug, Locked
  <2> QED
    BY <2>1, <2>2, <2>3 DEF IInv, TypeOK, AgentType, ServiceType
<1>3. CASE AcceptsShutdown /\ pausing' = TRUE /\ Fail /\ Proceed(a)
  BY <1>0, <1>1, <1>3, FailBounded, ProceedInv DEF AcceptsShutdown
<1>4. CASE Proceed(a) /\ UNCHANGED <<pausing, failures>>
  BY <1>0, <1>1, <1>4, ProceedInv DEF ServiceType
<1>5. CASE Fail /\ Proceed(a) /\ UNCHANGED pausing
  BY <1>0, <1>1, <1>5, FailBounded, ProceedInv DEF ServiceType
<1> QED
  BY <1>2, <1>3, <1>4, <1>5 DEF DebugShutdown

LEMMA ObserveInv ==
    ASSUME IInv, NEW a \in Agent, Emit(a) \/ Skip(a) \/ EmitFails(a)
    PROVE  IInv' /\ GraceStep
<1>0. TypeOK
  BY DEF IInv
<1>1. AfterObserving(a)
  BY DEF Emit, Skip, EmitFails
<1>2. failures' \in 0..MaxFailures
  BY <1>0, FailBounded DEF Emit, Skip, EmitFails, TypeOK
<1>3. reported' \in {"locked", "other", None}
  BY <1>0 DEF Emit, Skip, EmitFails, Observed, TypeOK
<1>4. last' \in [Agent -> {"locked", "other", None}]
  BY <1>0 DEF Emit, Skip, EmitFails, Observed, TypeOK
<1>5. TypeOK'
  BY <1>0, <1>1, <1>2, <1>3, <1>4 DEF TypeOK, AfterObserving, GoTo, loopVars
<1> QED
  BY <1>1, <1>5, SameLoop DEF AfterObserving

LEMMA WakeUpInv ==
    ASSUME IInv, NEW a \in Agent, WakeUp(a) PROVE IInv' /\ GraceStep
<1>1. TypeOK'
  BY DEF IInv, TypeOK, WakeUp, GoTo, serviceVars, loopVars
<1> QED
  BY <1>1, SameLoop DEF WakeUp, serviceVars

LEMMA TickInv == ASSUME IInv, NEW a \in Agent, Tick(a) PROVE IInv' /\ GraceStep
BY FetchStateInv, ObeyInv, NoSignalInv, DebugShutdownInv, ObserveInv, WakeUpInv DEF Tick

-----------------------------------------------------------------------------
(* The other goroutines, and the user.                                     *)

LEMMA CountdownEndsInv ==
    ASSUME IInv, NEW a \in Agent, CountdownEnds(a) PROVE IInv' /\ GraceStep
<1> USE DEF CountdownEnds, serviceVars
<1>1. TypeOK'
  BY DEF IInv, TypeOK
<1>2. WarnedIsOver'
  BY DEF IInv, TypeOK, WarnedIsOver
<1> QED
  BY <1>1, <1>2 DEF IInv, GraceStep, PauseEndsWithLock, LockedInDebug, Locked

LEMMA OverlayProcess ==
    ASSUME TypeOK, NEW a \in Agent, overlay[a] # None,
           NEW p \in {"ended", "clicked", "noticed"},
           overlay' = [overlay EXCEPT ![a].process = p]
    PROVE  /\ overlay' \in [Agent -> Overlay \cup {None}]
           /\ overlay'[a].process # "up"
           /\ \A b \in Agent \ {a} : overlay'[b] = overlay[b]
<1>1. overlay \in [Agent -> Overlay \cup {None}] /\ overlay[a] \in Overlay
  BY DEF TypeOK
<1>2. [overlay[a] EXCEPT !.process = p] \in Overlay
  BY <1>1 DEF Overlay
<1>3. [overlay[a] EXCEPT !.process = p].process # "up"
  BY <1>1 DEF Overlay
<1>4. overlay' = [overlay EXCEPT ![a] = [overlay[a] EXCEPT !.process = p]]
  OBVIOUS
<1> HIDE DEF Overlay
<1> QED
  BY <1>1, <1>2, <1>3, <1>4

LEMMA OverlayInv ==
    ASSUME IInv, NEW a \in Agent, OverlayEnds(a) \/ Notice(a) PROVE IInv' /\ GraceStep
<1>0. TypeOK
  BY DEF IInv
<1>1. PICK p \in {"ended", "clicked", "noticed"} :
         overlay' = [overlay EXCEPT ![a].process = p]
  BY DEF OverlayEnds, Notice
<1>2. /\ overlay' \in [Agent -> Overlay \cup {None}]
      /\ overlay'[a].process # "up"
      /\ \A b \in Agent \ {a} : overlay'[b] = overlay[b]
  <2>1. overlay[a] # None
    BY DEF OverlayEnds, Notice, Showing
  <2> QED
    BY <1>0, <1>1, <2>1, OverlayProcess
<1>3. signal' \subseteq Agent
  BY <1>0 DEF OverlayEnds, Notice, TypeOK
<1>4. UNCHANGED <<serviceVars, pc, state, warning, warned, countdown, covered, last,
                  orphaned, failures>>
  BY DEF OverlayEnds, Notice
<1>5. TypeOK'
  BY <1>0, <1>2, <1>3, <1>4 DEF TypeOK, serviceVars
<1>6. WarnedIsOver'
  BY <1>4 DEF IInv, WarnedIsOver
<1>7. GraceStep
  BY <1>2 DEF GraceStep
<1> QED
  BY <1>4, <1>5, <1>6, <1>7 DEF IInv, serviceVars, PauseEndsWithLock, LockedInDebug, Locked

-----------------------------------------------------------------------------

LEMMA StutterInv == ASSUME IInv, UNCHANGED vars PROVE IInv' /\ GraceStep
<1> USE DEF vars, serviceVars, agentVars, loopVars
<1>1. TypeOK'
  BY DEF IInv, TypeOK
<1> QED
  BY <1>1, SameLoop

LEMMA NextInv == IInv /\ [Next]_vars => IInv' /\ GraceStep
<1> SUFFICES ASSUME IInv, [Next]_vars PROVE IInv' /\ GraceStep
  OBVIOUS
<1>1. CASE Next
  BY <1>1, ApplyConfigInv, RestartServiceInv, ServiceCrashesInv, AgentDiesInv, StartInv,
     TickInv, CountdownEndsInv, OverlayInv DEF Next
<1>2. CASE UNCHANGED vars
  BY <1>2, StutterInv
<1> QED
  BY <1>1, <1>2

LEMMA Invariance == Spec => []IInv
<1> QED
  BY InitInv, NextInv, PTL DEF Spec

\* Every reachable state has its type, for any agents, messages and failures.
THEOREM TypeCorrect == Spec => []TypeOK
<1>1. IInv => TypeOK
  BY DEF IInv
<1> QED
  BY <1>1, Invariance, PTL

\* stateStore never holds the watchdog back on account of a lock that has ended: a
\* debug shutdown is forgotten with the lock, however agents, the service and the
\* server's requests interleave.
THEOREM PauseAlwaysEndsWithLock == Spec => []PauseEndsWithLock
<1>1. IInv => PauseEndsWithLock
  BY DEF IInv
<1> QED
  BY <1>1, Invariance, PTL

\* The loop of agentapp.go never covers the screen for a lock that asks for a
\* warning before that agent's own countdown is over.
THEOREM GraceAlwaysHonoured == Spec => GraceHonoured
<1>1. IInv /\ [Next]_vars =>
      [\A a \in Agent :
          overlay'[a] # None /\ overlay'[a] # overlay[a] /\ overlay'[a].process = "up"
             /\ state[a].lock.warns
          => countdown[a] = "over"]_vars
  BY NextInv DEF GraceStep
<1> QED
  BY <1>1, Invariance, PTL DEF Spec, GraceHonoured

=============================================================================
