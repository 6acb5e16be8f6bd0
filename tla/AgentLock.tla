------------------------------ MODULE AgentLock ------------------------------
(***************************************************************************)
(* How a Windows device obeys a lock.  The service holds the lock that was *)
(* last polled; each agent process asks for it once per tick and shows an  *)
(* overlay, after a warning countdown when the lock asks for one.  The     *)
(* overlay is a process of its own, which the user may end; a goroutine    *)
(* tells the controller, and the next tick starts another.                 *)
(*                                                                         *)
(* There may be several agents: one started at logon, one by the service's *)
(* watchdog, and one left behind by a service that crashed.  An overlay     *)
(* outlives an agent that is killed.                                       *)
(*                                                                         *)
(* In debug mode the overlay has a button that shuts its agent down for as *)
(* long as the lock lasts; it tells the agent by its exit code.            *)
(***************************************************************************)
EXTENDS Naturals

CONSTANTS
    Agent,       \* agent processes there may be at once
    Messages,    \* lock messages
    Wants,       \* what the server may ask for
    MaxFailures, \* bound on lost calls, failed starts, crashes and restarts
    None

Locks == [message: Messages, warns: BOOLEAN]
Want == [lock: Locks \cup {None}, debug: BOOLEAN]

ASSUME LockAssumption ==
    /\ None \notin Agent \cup Locks
    /\ None \notin [message: Messages, debug: BOOLEAN, process: STRING]
    /\ Wants \subseteq Want
    /\ MaxFailures \in Nat

VARIABLES
    want,       \* the service's configuration: the lock and debug mode
    pausing,    \* the service's debugShutdownRequested
    reported,   \* the state some agent reported last, or None
    child,      \* the agent the service's runner waits for, or None
    pc,         \* pc[a]: where agent a's loop is, "off" when it does not run
    state,      \* state[a]: what a last fetched from the service
    warning,    \* agents that wait for a countdown
    warned,     \* agents whose countdown is over
    countdown,  \* countdown[a]: the goroutine that warnDone belongs to
    overlay,    \* overlay[a]: the controller's overlay process, or None
    signal,     \* agents with a pending debug shutdown signal
    covered,    \* agents whose screenLocked is set in this tick
    last,       \* last[a]: the state a posted last, or None
    orphaned,   \* an overlay of a killed agent is on the screen
    failures    \* failures so far

serviceVars == <<want, pausing, reported, child>>
loopVars == <<warning, warned, countdown, overlay>>
agentVars == <<pc, state, loopVars, signal, covered, last>>
vars == <<serviceVars, agentVars, orphaned, failures>>

\* An overlay is on the screen, was ended by its user or by its button, and its
\* end was noticed (Controller.exited).
Overlay == [message: Messages, debug: BOOLEAN,
            process: {"up", "ended", "clicked", "noticed"}]

TypeOK ==
    /\ want \in Want
    /\ pausing \in BOOLEAN
    /\ reported \in {"locked", "other", None}
    /\ child \in Agent \cup {None}
    /\ pc \in [Agent -> {"off", "fetch", "obey", "signal", "observe", "sleep"}]
    /\ state \in [Agent -> Want]
    /\ warning \subseteq Agent /\ warned \subseteq Agent
    /\ countdown \in [Agent -> {"none", "running", "over"}]
    /\ overlay \in [Agent -> Overlay \cup {None}]
    /\ signal \subseteq Agent /\ covered \subseteq Agent
    /\ last \in [Agent -> {"locked", "other", None}]
    /\ orphaned \in BOOLEAN
    /\ failures \in 0..MaxFailures

Idle == [lock |-> None, debug |-> FALSE]

Init ==
    /\ want = Idle
    /\ pausing = FALSE /\ reported = None /\ child = None
    /\ pc = [a \in Agent |-> "off"]
    /\ state = [a \in Agent |-> Idle]
    /\ warning = {} /\ warned = {} /\ signal = {} /\ covered = {}
    /\ countdown = [a \in Agent |-> "none"]
    /\ overlay = [a \in Agent |-> None]
    /\ last = [a \in Agent |-> None]
    /\ orphaned = FALSE
    /\ failures = 0

Fail == failures < MaxFailures /\ failures' = failures + 1

GoTo(a, step) == pc' = [pc EXCEPT ![a] = step]

Locked(w) == w.lock # None
LockedInDebug(w) == Locked(w) /\ w.debug

-----------------------------------------------------------------------------
(* The service.                                                            *)

\* Mutant: the request for a shutdown outlives the lock.
KeepPausing(w) == pausing

\* update() forgets the request once the device is unlocked or debug mode ends.
StillPausing(w) == pausing /\ LockedInDebug(w)

\* The poll loop applies a configuration.
ApplyConfig(w) ==
    /\ want' = w
    /\ pausing' = StillPausing(w)
    /\ UNCHANGED <<reported, child, agentVars, orphaned, failures>>

\* What runs in an agent that is gone is gone.
Gone(a) ==
    /\ pc' = [pc EXCEPT ![a] = "off"]
    /\ state' = [state EXCEPT ![a] = Idle]
    /\ warning' = warning \ {a} /\ warned' = warned \ {a}
    /\ countdown' = [countdown EXCEPT ![a] = "none"]
    /\ overlay' = [overlay EXCEPT ![a] = None]
    /\ signal' = signal \ {a} /\ covered' = covered \ {a}
    /\ last' = [last EXCEPT ![a] = None]

Showing(a) == overlay[a] # None /\ overlay[a].process = "up"

\* The agent is killed: its deferred Close does not run.
AgentDies(a) ==
    /\ pc[a] # "off"
    /\ Fail
    /\ orphaned' = (orphaned \/ Showing(a))
    /\ Gone(a)
    /\ UNCHANGED serviceVars

\* The service stops (an update, a reboot of the service) and starts again: the
\* context of exec.CommandContext kills its agent.
RestartService ==
    /\ Fail
    /\ pausing' = FALSE /\ reported' = None /\ child' = None
    /\ IF child # None /\ pc[child] # "off"
       THEN Gone(child) /\ orphaned' = (orphaned \/ Showing(child))
       ELSE UNCHANGED <<agentVars, orphaned>>
    /\ UNCHANGED want

\* The service crashes and is started again: its agent runs on unattended.
ServiceCrashes ==
    /\ Fail
    /\ pausing' = FALSE /\ reported' = None /\ child' = None
    /\ UNCHANGED <<want, agentVars, orphaned>>

\* An agent starts from the same client.json the service has saved.
Start(a) ==
    /\ pc[a] = "off"
    /\ GoTo(a, "fetch")
    /\ state' = [state EXCEPT ![a] = want]
    /\ UNCHANGED <<loopVars, signal, covered, last, orphaned, failures>>

Logon(a) == Start(a) /\ a # child /\ UNCHANGED serviceVars

\* watchdogLoop: Ensure starts an agent when the last one it started has ended.
Watchdog(a) ==
    /\ ~StillPausing(want)
    /\ child # None => pc[child] = "off"
    /\ Start(a)
    /\ child' = a
    /\ UNCHANGED <<want, pausing, reported>>

-----------------------------------------------------------------------------
(* The agent's loop.                                                       *)

\* Mutant: screenLocked is declared before the loop.
FetchStateOnly(a) ==
    /\ pc[a] = "fetch"
    /\ \/ state' = [state EXCEPT ![a] = want] /\ UNCHANGED failures
       \/ Fail /\ UNCHANGED state
    /\ GoTo(a, "obey")
    /\ UNCHANGED <<serviceVars, loopVars, signal, covered, last, orphaned>>

\* Each tick asks anew; when the call fails the agent goes by what it knew.
FetchState(a) ==
    /\ pc[a] = "fetch"
    /\ \/ state' = [state EXCEPT ![a] = want] /\ UNCHANGED failures
       \/ Fail /\ UNCHANGED state
    /\ covered' = covered \ {a}
    /\ GoTo(a, "obey")
    /\ UNCHANGED <<serviceVars, loopVars, signal, last, orphaned>>

Look(a) ==
    [message |-> state[a].lock.message, debug |-> state[a].debug, process |-> "up"]

\* Mutant: an overlay that has ended is not replaced.
UpToDateForever(a) ==
    overlay[a] # None /\ overlay[a] \in
        {[Look(a) EXCEPT !.process = p] : p \in {"up", "ended", "clicked", "noticed"}}

\* The overlay was not seen to end and looks as it should.
UpToDate(a) ==
    overlay[a] # None /\ overlay[a] \in
        {[Look(a) EXCEPT !.process = p] : p \in {"up", "ended", "clicked"}}

\* Controller.SetLocked(true): replace the overlay.  When the new one cannot be
\* started the old one has been killed already, and nobody looks at the error.
Engage(a) ==
    /\ \/ UpToDate(a) /\ UNCHANGED <<overlay, failures>>
       \/ /\ ~UpToDate(a)
          /\ \/ overlay' = [overlay EXCEPT ![a] = Look(a)] /\ UNCHANGED failures
             \/ overlay' = [overlay EXCEPT ![a] = None] /\ Fail
    /\ covered' = covered \cup {a}

\* Mutant: a countdown that ran once counts for the next lock too.
StayWarned(a) == warned

Unwarned(a) == warned \ {a}

EngageAtOnce(a) ==
    /\ Locked(state[a])
    /\ a \in warned \/ ~state[a].lock.warns
    /\ Engage(a)
    /\ UNCHANGED <<warning, warned, countdown>>

EngageAfterCountdown(a) ==
    /\ Locked(state[a]) /\ state[a].lock.warns
    /\ a \notin warned /\ a \in warning /\ countdown[a] = "over"
    /\ warning' = warning \ {a} /\ warned' = warned \cup {a}
    /\ Engage(a)
    /\ UNCHANGED countdown

AwaitCountdown(a) ==
    /\ Locked(state[a]) /\ state[a].lock.warns
    /\ a \notin warned /\ a \in warning /\ countdown[a] # "over"
    /\ UNCHANGED <<loopVars, covered, failures>>

StartCountdown(a) ==
    /\ Locked(state[a]) /\ state[a].lock.warns
    /\ a \notin warned /\ a \notin warning
    /\ warning' = warning \cup {a}
    /\ countdown' = [countdown EXCEPT ![a] = "running"]
    /\ UNCHANGED <<warned, overlay, covered, failures>>

\* Mutant: the countdown is not cancelled.
ReleaseOverlay(a) ==
    /\ ~Locked(state[a])
    /\ warning' = warning \ {a} /\ warned' = Unwarned(a)
    /\ overlay' = [overlay EXCEPT ![a] = None]
    /\ UNCHANGED <<countdown, covered, failures>>

\* An unlock cancels the countdown, whose goroutine removes banner and sound.
Release(a) ==
    /\ ~Locked(state[a])
    /\ countdown' = [countdown EXCEPT ![a] = "none"]
    /\ warning' = warning \ {a} /\ warned' = Unwarned(a)
    /\ overlay' = [overlay EXCEPT ![a] = None]
    /\ UNCHANGED <<covered, failures>>

Obey(a) ==
    /\ pc[a] = "obey"
    /\ \/ EngageAtOnce(a) \/ EngageAfterCountdown(a) \/ AwaitCountdown(a)
       \/ StartCountdown(a) \/ Release(a)
    /\ GoTo(a, "signal")
    /\ UNCHANGED <<serviceVars, state, signal, last, orphaned>>

\* What the loop does once it has dealt with the signal, or with none.
NextStep(a) == IF pc[a] = "signal" THEN "observe" ELSE "fetch"

NoSignal(a) ==
    /\ pc[a] = "signal" /\ a \notin signal
    /\ GoTo(a, "observe")
    /\ UNCHANGED <<serviceVars, state, loopVars, signal, covered, last, orphaned, failures>>

Proceed(a) ==
    /\ GoTo(a, NextStep(a))
    /\ signal' = signal \ {a}
    /\ UNCHANGED <<state, loopVars, covered, last, orphaned>>

\* Mutant: the service does not look whether it is still locked in debug mode.
AcceptsShutdownAlways == TRUE

AcceptsShutdown == LockedInDebug(want)

\* The agent asks the service for a debug shutdown, and exits when it accepts.
\* Close ends its overlay.
DebugShutdown(a) ==
    /\ pc[a] \in {"signal", "sleep"} /\ a \in signal
    /\ \/ /\ LockedInDebug(state[a]) /\ AcceptsShutdown
          /\ pausing' = TRUE
          /\ \/ Gone(a) /\ UNCHANGED <<orphaned, failures>>
             \/ Fail /\ Proceed(a)      \* the answer is lost
       \/ /\ ~(LockedInDebug(state[a]) /\ AcceptsShutdown)
          /\ Proceed(a)
          /\ UNCHANGED <<pausing, failures>>
       \/ Fail /\ Proceed(a) /\ UNCHANGED pausing
    /\ UNCHANGED <<want, reported, child>>

\* Mutant: a countdown is reported as a state of its own, which nobody knows.
ObservedWarning(a) ==
    IF a \in covered THEN "locked" ELSE IF a \in warning THEN "warning" ELSE "other"

Observed(a) == IF a \in covered THEN "locked" ELSE "other"

AfterObserving(a) ==
    /\ pc[a] = "observe"
    /\ GoTo(a, "sleep")
    /\ UNCHANGED <<want, pausing, child, state, loopVars, signal, covered, orphaned>>

\* The service queues the event and remembers its state.
Emit(a) ==
    /\ AfterObserving(a)
    /\ reported' = Observed(a) /\ last' = [last EXCEPT ![a] = Observed(a)]
    /\ UNCHANGED failures

\* shouldEmit: nothing is sent while the state and the program, which is not part
\* of the model, are what was sent last, and the heartbeat is not due.
NothingNew(a) == last[a] = Observed(a)

Skip(a) ==
    /\ AfterObserving(a)
    /\ NothingNew(a)
    /\ UNCHANGED <<reported, last, failures>>

\* The probe or the call fails; an event whose answer is lost was queued.
EmitFails(a) ==
    /\ AfterObserving(a)
    /\ Fail
    /\ reported' \in {reported, Observed(a)}
    /\ UNCHANGED last

WakeUp(a) ==
    /\ pc[a] = "sleep"
    /\ GoTo(a, "fetch")
    /\ UNCHANGED <<serviceVars, state, loopVars, signal, covered, last, orphaned, failures>>

Tick(a) ==
    \/ FetchState(a) \/ Obey(a) \/ NoSignal(a) \/ DebugShutdown(a) \/ Emit(a)
    \/ Skip(a) \/ EmitFails(a) \/ WakeUp(a)

-----------------------------------------------------------------------------
(* The other goroutines, and the user.                                     *)

\* Warn returns: its time is up, or its banner could not be shown.
CountdownEnds(a) ==
    /\ countdown[a] = "running"
    /\ countdown' = [countdown EXCEPT ![a] = "over"]
    /\ UNCHANGED <<serviceVars, pc, state, warning, warned, overlay, signal, covered,
                   last, orphaned, failures>>

\* The user ends the overlay process, or clicks the button it has in debug mode.
OverlayEnds(a) ==
    /\ Showing(a)
    /\ \/ overlay' = [overlay EXCEPT ![a].process = "ended"]
       \/ overlay[a].debug /\ overlay' = [overlay EXCEPT ![a].process = "clicked"]
    /\ UNCHANGED <<serviceVars, pc, state, warning, warned, countdown, signal, covered,
                   last, orphaned, failures>>

\* The goroutine that waits for the overlay process.
Notice(a) ==
    /\ overlay[a] # None /\ overlay[a].process \in {"ended", "clicked"}
    /\ signal' = IF overlay[a].process = "clicked" THEN signal \cup {a} ELSE signal
    /\ overlay' = [overlay EXCEPT ![a].process = "noticed"]
    /\ UNCHANGED <<serviceVars, pc, state, warning, warned, countdown, covered, last,
                   orphaned, failures>>

-----------------------------------------------------------------------------

Next ==
    \/ \E w \in Wants : ApplyConfig(w)
    \/ RestartService
    \/ ServiceCrashes
    \/ \E a \in Agent :
          \/ AgentDies(a) \/ Logon(a) \/ Watchdog(a) \/ Tick(a)
          \/ CountdownEnds(a) \/ OverlayEnds(a) \/ Notice(a)

Spec == Init /\ [][Next]_vars

\* The watchdog and the agents' loops run on, a countdown ends, and a process that
\* has ended is noticed.  The heartbeat comes due again and again, so an agent that
\* observes again and again also emits.  Nothing is assumed of the server, of the
\* user or of the failures.
Fairness ==
    /\ WF_vars(\E a \in Agent : Watchdog(a))
    /\ \A a \in Agent :
          /\ WF_vars(Tick(a)) /\ SF_vars(Emit(a))
          /\ WF_vars(CountdownEnds(a)) /\ WF_vars(Notice(a))

FairSpec == Spec /\ Fairness

-----------------------------------------------------------------------------
(* Safety.                                                                 *)

\* A lock that asks for a warning covers the screen only after the countdown,
\* whatever happened since: changed messages, relocks, crashed or second agents.
\* Every overlay an agent puts up for such a lock finds its own countdown over.
GraceHonoured ==
    [][\A a \in Agent :
          overlay'[a] # None /\ overlay'[a] # overlay[a] /\ overlay'[a].process = "up"
             /\ state[a].lock.warns
          => countdown[a] = "over"]_vars

\* A debug shutdown lasts only as long as the lock it was asked for: the watchdog
\* never holds an agent back on account of an earlier lock.
PauseEndsWithLock == pausing => LockedInDebug(want)

\* controller_windows.go: "an unlock removes the overlay".  An agent that has
\* carried out an unlock leaves no overlay on the screen.
UnlockRemovesOverlay ==
    \A a \in Agent : pc[a] = "signal" /\ ~Locked(state[a]) => ~orphaned

(* Liveness.                                                               *)

\* A lock that stands covers the screen again and again, with its message,
\* although the user keeps ending the overlay and agents come and go.
LockEngages ==
    \A w \in {x \in Wants : Locked(x) /\ ~x.debug} :
        <>[](want = w) =>
        []<>(\E a \in Agent : Showing(a) /\ overlay[a].message = w.lock.message)

\* An unlock that stands ends every agent's overlay and countdown.
UnlockReleases ==
    <>[]~Locked(want) =>
    <>[](\A a \in Agent : overlay[a] = None /\ countdown[a] = "none")

\* What the service goes on reporting to the server is what the agents show.
StatusFollows ==
    /\ <>[](Locked(want) /\ ~want.debug) => <>[](reported = "locked")
    /\ <>[]~Locked(want) => <>[](reported # "locked")

\* An agent that was shut down in debug mode comes back when the lock ends.
AgentReturns == <>[]~Locked(want) => []<>(\E a \in Agent : pc[a] # "off")

=============================================================================
