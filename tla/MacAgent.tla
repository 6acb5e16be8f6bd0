------------------------------ MODULE MacAgent ------------------------------
(***************************************************************************)
(* How a Mac obeys a lock.  The agent has two threads that matter: the     *)
(* Core actor, which asks the daemon once per tick and decides, and the    *)
(* main thread, which owns the screen.  Core only queues blocks for the    *)
(* main thread, and looks at a flag the blocks leave behind.  The actor is *)
(* free while it awaits an answer or sleeps, and then runs its countdown.  *)
(*                                                                         *)
(* In debug mode the cover has a button that ends the agent; launchd       *)
(* starts it again and again, and a marker file makes it end at once until *)
(* the daemon reports something else than a lock in debug mode.            *)
(***************************************************************************)
EXTENDS Naturals, Sequences

CONSTANTS
    Messages,    \* lock messages
    Warnings,    \* lockWarningSeconds of the locks that warn
    Wants,       \* what the server may ask for
    MaxQueue,    \* bound on the blocks the main thread is behind
    MaxFailures, \* bound on lost calls and ends of the agent and the daemon
    None

Want == [locked : BOOLEAN, seconds : {0} \cup Warnings, message : Messages, debug : BOOLEAN]
Countdown == [left : Nat \ {0}, message : Messages, begun : BOOLEAN]

ASSUME MacAssumption ==
    /\ Messages # {} /\ Warnings \subseteq Nat \ {0}
    /\ Wants \subseteq Want
    /\ MaxQueue \in Nat \ {0, 1} /\ MaxFailures \in Nat
    /\ None \notin Want \cup Messages /\ None \notin Countdown

VARIABLES
    want,       \* the daemon's configuration
    reported,   \* the state it heard of last, or None
    marker,     \* the debug shutdown marker exists
    pc,         \* where Core's loop is, "off" when there is no agent
    answer,     \* what the daemon answered, or None when it did not
    state,      \* what Core goes by
    signature,  \* the intent it has acted on, or None
    warned,     \* its countdown is over
    task,       \* the countdown that runs, or None
    cancelled,  \* a cancelled countdown that has not noticed: "none", "new", "begun"
    seen,       \* whether the screen was covered when Core looked in this tick
    last,       \* what Core sent last, or None
    queue,      \* the main thread's blocks
    cover,      \* the lock windows, or None
    banner,
    sound,
    elapsed,    \* history: seconds of warning since the device was unlocked
    promised,   \* history: those of the first lock since then that warns, or 0
    missed,     \* history: a cover was queued and not there yet when it was to be removed
    failures

daemonVars == <<want, reported>>
coreVars == <<answer, state, signature, warned, task, cancelled, seen, last, elapsed,
              promised>>
screenVars == <<cover, banner, sound>>
vars == <<daemonVars, marker, pc, coreVars, queue, screenVars, missed, failures>>

Cover == [message : Messages, debug : BOOLEAN]
Block == [do : {"cover"}, look : Cover]
         \cup [do : {"uncover", "banner", "sound", "silence"}]
Signature == [want : Want, warned : BOOLEAN]

TypeOK ==
    /\ want \in Want /\ reported \in {"locked", "other", None}
    /\ marker \in BOOLEAN
    /\ pc \in {"off", "fetch", "obey", "look", "post", "sleep"}
    /\ answer \in Want \cup {None} /\ state \in Want
    /\ signature \in Signature \cup {None}
    /\ warned \in BOOLEAN
    /\ task \in Countdown \cup {None}
    /\ cancelled \in {"none", "new", "begun"}
    /\ seen \in BOOLEAN /\ last \in {"locked", "other", None}
    /\ queue \in Seq(Block) /\ Len(queue) <= MaxQueue
    /\ cover \in Cover \cup {None} /\ banner \in BOOLEAN /\ sound \in BOOLEAN
    /\ elapsed \in Nat /\ promised \in {0} \cup Warnings /\ missed \in BOOLEAN
    /\ failures \in 0..MaxFailures

\* AgentState.fallback; an unlocked device has no message either.
Unlocked(w) == ~w.locked
Fallback == [locked |-> FALSE, seconds |-> 0, message |-> CHOOSE m \in Messages : TRUE,
             debug |-> FALSE]

\* A new process, which has asked nobody yet, and its screen.
Fresh ==
    /\ answer' = None /\ state' = Fallback /\ signature' = None /\ warned' = FALSE
    /\ task' = None /\ cancelled' = "none" /\ seen' = FALSE /\ last' = None
    /\ elapsed' = 0 /\ promised' = 0
    /\ queue' = <<>> /\ cover' = None /\ banner' = FALSE /\ sound' = FALSE
    /\ missed' = FALSE

Init ==
    /\ want = Fallback /\ reported = None /\ marker = FALSE /\ pc = "off"
    /\ answer = None /\ state = Fallback /\ signature = None /\ warned = FALSE
    /\ task = None /\ cancelled = "none" /\ seen = FALSE /\ last = None
    /\ elapsed = 0 /\ promised = 0
    /\ queue = <<>> /\ cover = None /\ banner = FALSE /\ sound = FALSE
    /\ missed = FALSE /\ failures = 0

Fail == failures < MaxFailures /\ failures' = failures + 1

-----------------------------------------------------------------------------
(* The daemon and launchd.                                                 *)

ApplyConfig(w) ==
    /\ want' = w
    /\ UNCHANGED <<reported, marker, pc, coreVars, queue, screenVars, missed, failures>>

\* The daemon is restarted with the configuration it has saved.
RestartDaemon ==
    /\ Fail
    /\ reported' = None
    /\ UNCHANGED <<want, marker, pc, coreVars, queue, screenVars, missed>>

\* Mutant: what the daemon reports does not matter.
StaysStopped(w) == marker

\* shouldStayStopped; a daemon that does not answer keeps a marked agent off, which
\* changes nothing until the next try.
LockedInDebug(w) == marker /\ w.locked /\ w.debug

\* KeepAlive, or the watchdog's bootstrap: every start that is not to end at once.
Launch ==
    /\ pc = "off" /\ ~LockedInDebug(want)
    /\ marker' = FALSE
    /\ pc' = "fetch"
    /\ Fresh
    /\ UNCHANGED <<daemonVars, failures>>

\* It crashes, is killed, logs off, or is ended for a new version.
AgentEnds ==
    /\ pc # "off" /\ Fail
    /\ pc' = "off"
    /\ Fresh
    /\ UNCHANGED <<daemonVars, marker>>

\* debugShutdownClicked: the marker, which may fail to be written, then terminate.
DebugShutdown ==
    /\ cover # None /\ cover.debug
    /\ \/ marker' = TRUE /\ UNCHANGED failures
       \/ Fail /\ UNCHANGED marker
    /\ pc' = "off"
    /\ Fresh
    /\ UNCHANGED daemonVars

-----------------------------------------------------------------------------
(* MacLockController: the blocks, queued here and run by the main thread.  *)

ShowLock(message, debug) ==
    [do |-> "cover", look |-> [message |-> message, debug |-> debug]]
HideLock == [do |-> "uncover"]
ShowWarning == [do |-> "banner"]
StartWarningAudio == [do |-> "sound"]
HideWarning == [do |-> "silence"]

isShowing == cover # None

OnMain(blocks) == queue' = queue \o blocks /\ Len(queue') <= MaxQueue

RunMain ==
    /\ queue # <<>>
    /\ queue' = Tail(queue)
    /\ LET block == Head(queue) IN
       \/ /\ block.do = "cover"
          /\ cover' = block.look
          /\ banner' = (banner /\ isShowing)
          /\ UNCHANGED <<sound, missed>>
       \/ /\ block.do = "uncover"
          /\ cover' = None /\ banner' = FALSE /\ sound' = FALSE
          /\ missed' = FALSE
       \/ /\ block.do = "banner"
          /\ banner' = (banner \/ ~isShowing)
          /\ UNCHANGED <<cover, sound, missed>>
       \/ /\ block.do = "sound"     \* unless there is none, or it cannot be played
          /\ sound' \in {sound, TRUE}
          /\ UNCHANGED <<cover, banner, missed>>
       \/ /\ block.do = "silence"
          /\ banner' = FALSE /\ sound' = FALSE
          /\ UNCHANGED <<cover, missed>>
    /\ UNCHANGED <<daemonVars, marker, pc, coreVars, failures>>

-----------------------------------------------------------------------------
(* Core.                                                                   *)

\* The daemon answers, or does not; the countdown may go on before Core gets to it.
FetchState ==
    /\ pc = "fetch"
    /\ \/ answer' = want /\ UNCHANGED failures
       \/ answer' = None /\ Fail
    /\ pc' = "obey"
    /\ UNCHANGED <<daemonVars, marker, state, signature, warned, task, cancelled, seen, last,
                   elapsed, promised, queue, screenVars, missed>>

SignatureOf(w) == [want |-> w, warned |-> warned]

\* Mutant: the countdown of the last lock counts for the next one.
WarnedAlready == warned

WarnedAfterUnlock == FALSE

Release(w) ==
    /\ Unlocked(w)
    /\ task' = None
    /\ cancelled' = IF task = None THEN cancelled
                    ELSE IF task.begun THEN "begun" ELSE "new"
    /\ warned' = WarnedAfterUnlock
    /\ elapsed' = 0 /\ promised' = 0
    /\ OnMain(IF isShowing THEN <<HideWarning, HideLock>> ELSE <<HideWarning>>)
    /\ missed' = (missed \/ (~isShowing /\ \E i \in DOMAIN queue : queue[i].do = "cover"))

Engage(w) ==
    /\ w.locked /\ (w.seconds = 0 \/ warned)
    /\ OnMain(<<HideWarning, ShowLock(w.message, w.debug)>>)
    /\ UNCHANGED <<task, cancelled, warned, elapsed, promised, missed>>

\* A countdown that runs keeps its seconds and its message.
Warn(w) ==
    /\ w.locked /\ w.seconds > 0 /\ ~warned
    /\ task' = IF task # None THEN task
               ELSE [left |-> w.seconds, message |-> w.message, begun |-> FALSE]
    /\ promised' = IF promised = 0 THEN w.seconds ELSE promised
    /\ UNCHANGED <<cancelled, warned, elapsed, queue, missed>>

\* applyLockState, for what the daemon answered now or last.
Obey ==
    /\ pc = "obey"
    /\ LET w == IF answer = None THEN state ELSE answer IN
       /\ state' = w
       /\ signature' = SignatureOf(w)
       /\ IF SignatureOf(w) = signature
          THEN UNCHANGED <<task, cancelled, warned, elapsed, promised, queue, missed>>
          ELSE Release(w) \/ Engage(w) \/ Warn(w)
    /\ answer' = None
    /\ pc' = "look"
    /\ UNCHANGED <<daemonVars, marker, seen, last, screenVars, failures>>

\* The look at the screen.  The main thread may have run a block in between; Core's
\* countdown may not.
Look ==
    /\ pc = "look"
    /\ seen' = isShowing
    /\ pc' = "post"
    /\ UNCHANGED <<daemonVars, marker, answer, state, signature, warned, task, cancelled, last,
                   elapsed, promised, queue, screenVars, missed, failures>>

Observed == IF seen THEN "locked" ELSE "other"

AfterObserving ==
    /\ pc = "post"
    /\ pc' = "sleep"
    /\ seen' = FALSE
    /\ UNCHANGED <<want, marker, answer, state, signature, warned, task, cancelled,
                   elapsed, promised, queue, screenVars, missed>>

Emit ==
    /\ AfterObserving
    /\ reported' = Observed /\ last' = Observed
    /\ UNCHANGED failures

\* shouldEmit: neither the state nor the program, which is not modelled, has changed,
\* and the heartbeat is not due.
Skip ==
    /\ AfterObserving
    /\ last = Observed
    /\ UNCHANGED <<reported, last, failures>>

\* An event whose answer is lost was queued.
EmitFails ==
    /\ AfterObserving
    /\ Fail
    /\ reported' \in {reported, Observed}
    /\ UNCHANGED last

WakeUp ==
    /\ pc = "sleep"
    /\ pc' = "fetch"
    /\ UNCHANGED <<daemonVars, marker, coreVars, queue, screenVars, missed, failures>>

CoreFree == pc # "look"

Tick == FetchState \/ Obey \/ Look \/ Emit \/ Skip \/ EmitFails \/ WakeUp

\* runWarningCountdown up to its first sleep.
BeginCountdown ==
    /\ CoreFree
    /\ task # None /\ ~task.begun
    /\ task' = [task EXCEPT !.begun = TRUE]
    /\ OnMain(<<StartWarningAudio, ShowWarning>>)
    /\ UNCHANGED <<daemonVars, marker, pc, answer, state, signature, warned, cancelled, seen,
                   last, elapsed, promised, screenVars, missed, failures>>

\* Mutant: one second more.
TimeLeft == task.left >= 1

MoreToGo == task.left > 1

\* A second has passed: another one, or completeWarning.
CountDown ==
    /\ CoreFree
    /\ task # None /\ task.begun
    /\ elapsed' = elapsed + 1
    /\ \/ /\ MoreToGo
          /\ task' = [task EXCEPT !.left = @ - 1]
          /\ OnMain(<<ShowWarning>>)
          /\ UNCHANGED warned
       \/ /\ ~MoreToGo
          /\ warned' = TRUE /\ task' = None
          /\ OnMain(<<HideWarning, ShowLock(task.message, state.debug)>>)
    /\ UNCHANGED <<daemonVars, marker, pc, answer, state, signature, cancelled, seen, last,
                   promised, screenVars, missed, failures>>

\* A cancelled countdown wakes up, or starts only to find itself cancelled.  Two that
\* have not noticed yet do the same, and count as one.
CancelledEnds ==
    /\ CoreFree
    /\ cancelled # "none"
    /\ cancelled' = "none"
    /\ OnMain(IF cancelled = "new" THEN <<StartWarningAudio, HideWarning>> ELSE <<HideWarning>>)
    /\ UNCHANGED <<daemonVars, marker, pc, answer, state, signature, warned, task, seen, last,
                   elapsed, promised, screenVars, missed, failures>>

-----------------------------------------------------------------------------

Countdowns == BeginCountdown \/ CountDown \/ CancelledEnds

Next ==
    \/ \E w \in Wants : ApplyConfig(w)
    \/ RestartDaemon \/ Launch \/ AgentEnds \/ DebugShutdown
    \/ RunMain
    \/ Tick \/ Countdowns

Spec == Init /\ [][Next]_vars

\* launchd keeps starting the agent, its loop and its main thread go on, an actor that is
\* free again and again runs what waits for it, and the heartbeat comes due again and again.
Fairness ==
    /\ WF_vars(Launch) /\ WF_vars(Tick) /\ SF_vars(Emit)
    /\ WF_vars(RunMain)
    /\ SF_vars(Countdowns)

FairSpec == Spec /\ Fairness

-----------------------------------------------------------------------------

CoverQueued == \E i \in DOMAIN queue' \ DOMAIN queue : queue'[i].do = "cover"

\* A lock that warns is only put on the screen after all the seconds that the first such
\* lock since the device was last unlocked asked for: whatever else changed meanwhile,
\* however often it was locked and unlocked, and after every restart.  They need not be
\* the lock's own: one that replaces another takes over its countdown.
GraceHonoured ==
    [][CoverQueued /\ state'.seconds > 0 => promised' > 0 /\ elapsed' = promised']_vars

\* What stays decided is what the screen ends up showing and the daemon reporting: a
\* lock with its message; or nothing, with no banner and no sound left either.  Except
\* that a cover the main thread had not put up yet when Core looked for it is left.
ScreenFollows ==
    \A w \in Wants : <>[](want = w) =>
        /\ w.locked /\ ~w.debug =>
              <>[](cover # None /\ cover.message = w.message /\ reported = "locked")
        /\ Unlocked(w) =>
              <>[](/\ pc # "off" /\ ~banner /\ ~sound
                   /\ missed \/ (cover = None /\ reported # "locked"))

=============================================================================
