----------------------------- MODULE ConfigPoll -----------------------------
(***************************************************************************)
(* How a configuration change, a lock above all, reaches a device.  The    *)
(* admin pages and the board write the store and then wake the broadcast   *)
(* notifier; each device's service keeps one long-poll request open, whose *)
(* handler reads the configuration in several statements, and blocks while *)
(* its version is the one the client already knows.                        *)
(*                                                                         *)
(* A handler is a goroutine serving /api/v1/client/config.  Its client may *)
(* be gone (connection lost, service restarted): the handler then runs on  *)
(* until its request context, cancelled at some later moment, stops it.    *)
(***************************************************************************)
EXTENDS ConfigStore

CONSTANTS
    Handler,        \* config requests the server may be serving at once
    MaxAnnouncing,  \* bound on admin requests between their write and notify()
    MaxTries,       \* attempts of one FetchConfig call (4 in the code)
    MaxFailures     \* bound on lost connections, failed statements, restarts

ASSUME PollAssumption ==
    /\ None \notin Handler \cup ConfigParts
    /\ MaxAnnouncing \in Nat \ {0}
    /\ MaxTries \in Nat \ {0}
    /\ MaxFailures \in Nat

VARIABLES
    announcing, \* admin requests that wrote the store and have yet to notify
    woken,      \* handlers whose captured notifier channel has been closed
    missed,     \* handlers that subscribed before a change nobody announces
    pc,         \* pc[h]: where handler h is; "free" when it serves nobody
    held,       \* handlers inside waitForConfigChange
    dev,        \* dev[h]: the client_id of the request
    req,        \* req[h]: the query parameters of the request
    row,        \* handlers whose captured device id still has its row
    got,        \* got[h]: what handler h has read so far
    phase,      \* phase[d]: the poll loop of device d's service
    conn,       \* conn[d]: the handler whose response d waits for, or None
    tries,      \* tries[d]: attempts FetchConfig has made
    sent,       \* sent[d]: the parameters FetchConfig was called with
    version,    \* version[d]: config_version of the last response, in memory
    applied,    \* applied[d]: the configuration d runs
    saved,      \* saved[d]: d's client.json, None when it is not readable
    reported,   \* reported[d]: the last state d's agent reported, in memory
    build,      \* build[d]: the version of the binary d runs
    failures    \* failures so far

notifierVars == <<announcing, woken, missed>>
handlerVars == <<pc, held, dev, req, row, got>>
clientVars == <<phase, conn, tries, sent, version, applied, saved, reported, build>>
vars == <<storeVars, notifierVars, handlerVars, clientVars, failures>>

-----------------------------------------------------------------------------
(* Types.                                                                  *)

\* Mutant: the fingerprint does not cover the lock.
VersionWithoutLock(config) == [config EXCEPT !.lock = Unlocked]

\* The fingerprint covers every field of the configuration; a collision of the
\* 64-bit hash is the only thing this abstracts.
configVersion(config) == config

Config == [tuning: Tunings, lock: LockValue, gap: Tunings, debug: BOOLEAN,
           categories: CategorySets, release: Releases \cup {None},
           sound: Sounds \cup {None}]

Request == [known: Config \cup {None}, status: Statuses \cup {None},
            build: Builds \cup {None}]
NoRequest == [known |-> None, status |-> None, build |-> None]

Got == [device: DeviceParts \cup {None}, config: ConfigParts \cup {None},
        settings: Settings \cup {None}, categories: CategorySets \cup {None},
        release: Releases \cup {None}, sound: Sounds \cup {None}]
Nothing == [device |-> None, config |-> None, settings |-> None,
            categories |-> None, release |-> None, sound |-> None]

\* The fields ApplyServerConfig copies into client.json.
Applied == [tuning: Tunings, gap: Tunings, debug: BOOLEAN, lock: LockValue]

Reads == {"device", "config", "settings", "categories", "release", "sound"}

\* The answers that carry no configuration: an empty 200, a 400 and a 500.
NoConfig == {"replyEmpty", "replyError", "replyFailed"}
Steps == Reads \cup NoConfig \cup {"reply"} \cup {"free", "record", "subscribe", "select"}

TypeOK ==
    /\ StoreTypeOK
    /\ announcing \in 0..MaxAnnouncing
    /\ woken \subseteq Handler
    /\ missed \subseteq Handler
    /\ pc \in [Handler -> Steps]
    /\ held \subseteq Handler
    /\ dev \in [Handler -> Device \cup {None}]
    /\ req \in [Handler -> Request]
    /\ row \subseteq Handler
    /\ got \in [Handler -> Got]
    /\ phase \in [Device -> {"rest", "await", "retry", "down"}]
    /\ conn \in [Device -> Handler \cup {None}]
    /\ tries \in [Device -> 0..MaxTries]
    /\ sent \in [Device -> Request]
    /\ version \in [Device -> Config \cup {None}]
    /\ applied \in [Device -> Applied]
    /\ saved \in [Device -> Applied \cup {None}]
    /\ reported \in [Device -> Statuses \cup {None}]
    /\ build \in [Device -> Builds]
    /\ failures \in 0..MaxFailures

Init ==
    /\ StoreInit
    /\ announcing = 0 /\ woken = {} /\ missed = {}
    /\ pc = [h \in Handler |-> "free"]
    /\ held = {}
    /\ dev = [h \in Handler |-> None]
    /\ req = [h \in Handler |-> NoRequest]
    /\ row = {}
    /\ got = [h \in Handler |-> Nothing]
    /\ phase = [d \in Device |-> "rest"]
    /\ conn = [d \in Device |-> None]
    /\ tries = [d \in Device |-> 0]
    /\ sent = [d \in Device |-> NoRequest]
    /\ version = [d \in Device |-> None]
    /\ applied = [d \in Device |-> [tuning |-> InitTuning, gap |-> InitTuning,
                                    debug |-> FALSE, lock |-> Unlocked]]
    /\ saved = applied
    /\ reported = [d \in Device |-> None]
    /\ build \in [Device -> Builds]
    /\ failures = 0

-----------------------------------------------------------------------------
(* The notifier.                                                           *)

\* Mutant: the channel is captured after the read instead of before it.
SubscribedLate == {h \in held : pc[h] = "select"}

\* The channel of handler h is the current one until the next notify().
Subscribed == {h \in held : pc[h] # "subscribe"}

\* The handler has written and will call notify().
Announce ==
    /\ announcing < MaxAnnouncing
    /\ announcing' = announcing + 1
    /\ UNCHANGED <<woken, missed>>

\* The write for the devices in D stands and nobody will call notify().
KeepSilent(D) ==
    /\ missed' = missed \cup {h \in Subscribed : dev[h] \in D}
    /\ UNCHANGED <<announcing, woken>>

\* SetDeviceLock, LockAllLocks and UnlockAllLocks write an audit row in a second
\* statement.  When that fails (the admin's connection went away, which cancels
\* the context) the handler answers 500 before it reaches notify().
Audited(D) == Announce \/ KeepSilent(D)

Notify ==
    /\ announcing > 0
    /\ announcing' = announcing - 1
    /\ woken' = woken \cup Subscribed
    /\ UNCHANGED <<missed, storeVars, handlerVars, clientVars, failures>>

-----------------------------------------------------------------------------
(* Admin pages and board: write, then announce.                            *)

\* Mutant: a handler forgets to notify.
SilentDeleteVersion(v) == DeleteVersion(v) /\ UNCHANGED notifierVars

AdminLock(d, l) == SetDeviceLock(d, l) /\ Audited({d})
BoardButton == LockAllLocks /\ Audited({d \in Device : Assigned(d)})
BoardUnlock == UnlockAllLocks /\ Audited({d \in Device : Assigned(d)})
AdminAssign(d, assigned) == UpdateDevice(d, assigned) /\ Announce
AdminSettings(form) == UpdateSettings(form) /\ Announce
AdminCreateVersion(v, r) == CreateVersion(v, r) /\ UNCHANGED notifierVars
AdminEditVersion(v, r) == UpdateVersion(v, r) /\ Announce
AdminDeleteVersion(v) == DeleteVersion(v) /\ Announce
AdminDeviceVersion(d, id) == SetDeviceVersion(d, id) /\ Announce
AdminCategories(cats) == SetCategories(cats) /\ Announce
AdminWarningSound(snd) == SaveSound(snd) /\ Announce

\* The device id a handler captured is gone for good: ids are never reused.
AdminDeleteDevice(d) ==
    /\ DeleteDevice(d)
    /\ KeepSilent({d})
    /\ row' = {h \in row : dev[h] # d}
    /\ UNCHANGED <<pc, held, dev, req, got>>

Admin ==
    /\ \/ /\ \/ \E d \in Device :
                  \/ \E l \in LockValue : AdminLock(d, l)
                  \/ \E a \in BOOLEAN : AdminAssign(d, a)
                  \/ \E id \in Selection : AdminDeviceVersion(d, id)
             \/ BoardButton
             \/ BoardUnlock
             \/ \E form \in SettingsForms : AdminSettings(form)
             \/ \E v \in VersionId, r \in Releases :
                  AdminCreateVersion(v, r) \/ AdminEditVersion(v, r)
             \/ \E v \in VersionId : AdminDeleteVersion(v)
             \/ \E cats \in CategorySets : AdminCategories(cats)
             \/ \E snd \in Sounds : AdminWarningSound(snd)
          /\ UNCHANGED handlerVars
       \/ \E d \in Device : AdminDeleteDevice(d)
    /\ UNCHANGED <<clientVars, failures>>

-----------------------------------------------------------------------------
(* The config handler.                                                     *)

Fail == failures < MaxFailures /\ failures' = failures + 1

GoTo(h, step) == pc' = [pc EXCEPT ![h] = step]

\* A handler that has answered or given up leaves nothing behind.
Free(h) ==
    /\ pc' = [pc EXCEPT ![h] = "free"]
    /\ held' = held \ {h}
    /\ dev' = [dev EXCEPT ![h] = None]
    /\ req' = [req EXCEPT ![h] = NoRequest]
    /\ row' = row \ {h}
    /\ got' = [got EXCEPT ![h] = Nothing]
    /\ woken' = woken \ {h}
    /\ missed' = missed \ {h}
    /\ UNCHANGED announcing

\* ClientConfig starts with EnsureDevice, which also returns the devices row.
ReadDevice(h) ==
    /\ pc[h] = "device"
    /\ EnsureDevice(dev[h])
    /\ got' = [got EXCEPT ![h].device = DevicePart(dev[h])]
    /\ row' = row \cup {h}
    /\ GoTo(h, "config")
    /\ UNCHANGED <<held, dev, req, notifierVars, clientVars, failures>>

\* The row of the captured id is read in a statement of its own.  It is missing
\* when the device was deleted in between: a first read answers 400, a read
\* inside waitForConfigChange returns no configuration at all.
ReadConfig(h) ==
    /\ pc[h] = "config"
    /\ \/ /\ h \in row
          /\ got' = [got EXCEPT ![h].config = ConfigPart(dev[h])]
          /\ GoTo(h, "settings")
       \/ /\ h \notin row
          /\ GoTo(h, IF h \in held THEN "replyEmpty" ELSE "replyError")
          /\ UNCHANGED got
    /\ UNCHANGED <<held, dev, req, row, storeVars, notifierVars, clientVars, failures>>

ReadSettings(h) ==
    /\ pc[h] = "settings"
    /\ got' = [got EXCEPT ![h].settings = settings]
    /\ GoTo(h, "categories")
    /\ UNCHANGED <<held, dev, req, row, storeVars, notifierVars, clientVars, failures>>

ReadCategories(h) ==
    /\ pc[h] = "categories"
    /\ got' = [got EXCEPT ![h].categories = categories]
    /\ GoTo(h, "release")
    /\ UNCHANGED <<held, dev, req, row, storeVars, notifierVars, clientVars, failures>>

ReadRelease(h) ==
    /\ pc[h] = "release"
    /\ got' = [got EXCEPT
           ![h].release = Resolve(SelectedId(got[h].device, got[h].settings))]
    /\ GoTo(h, "sound")
    /\ UNCHANGED <<held, dev, req, row, storeVars, notifierVars, clientVars, failures>>

ReadConfigOf(g) ==
    ConfigOf(g.device, g.config, g.settings, g.categories, g.release, g.sound)

\* What was read is what the client says it knows; an empty parameter is nothing.
Known(h, g) ==
    req[h].known # None /\ configVersion(ReadConfigOf(g)) = req[h].known

\* effectiveConfig stamps the sound version last.  Inside waitForConfigChange the
\* handler answers when the version differs from the known one, else it blocks.
ReadSound(h) ==
    /\ pc[h] = "sound"
    /\ got' = [got EXCEPT ![h].sound = sound]
    /\ GoTo(h, CASE h \notin held -> "record"
                 [] h \in held /\ Known(h, got'[h]) -> "select"
                 [] OTHER -> "reply")
    /\ UNCHANGED <<held, dev, req, row, storeVars, notifierVars, clientVars, failures>>

\* The handler records what the client reports about itself (an update of a row
\* that is gone changes nothing), then holds the request only when the client
\* knows a version and it is still current.
Record(h) ==
    /\ pc[h] = "record"
    /\ \/ h \in row /\ RecordReport(dev[h], req[h].status, req[h].build)
       \/ h \notin row /\ UNCHANGED storeVars
    /\ \/ /\ Known(h, got[h])
          /\ held' = held \cup {h}
          /\ GoTo(h, "subscribe")
       \/ /\ ~Known(h, got[h])
          /\ GoTo(h, "reply")
          /\ UNCHANGED held
    /\ UNCHANGED <<dev, req, row, got, notifierVars, clientVars, failures>>

\* A statement of the store fails.  Recording the status may have succeeded when
\* recording the version fails.
StatementFails(h) ==
    /\ pc[h] \in (Reads \ {"sound"}) \cup {"record"}
    /\ Fail
    /\ \/ UNCHANGED storeVars
       \/ pc[h] = "record" /\ h \in row /\ RecordReport(dev[h], req[h].status, None)
    /\ GoTo(h, IF pc[h] = "record" THEN "replyFailed"
               ELSE IF h \in held THEN "replyEmpty" ELSE "replyError")
    /\ UNCHANGED <<held, dev, req, row, got, notifierVars, clientVars>>

\* waitForConfigChange captures the channel before it reads again.
Subscribe(h) ==
    /\ pc[h] = "subscribe"
    /\ woken' = woken \ {h}
    /\ missed' = missed \ {h}
    /\ got' = [got EXCEPT ![h] = Nothing]
    /\ row' = row \ {h}
    /\ GoTo(h, "device")
    /\ UNCHANGED <<announcing, held, dev, req, storeVars, clientVars, failures>>

\* The three branches of the select.  The timer's answers with the last read.
Changed(h) ==
    /\ pc[h] = "select" /\ h \in woken
    /\ GoTo(h, "subscribe")
    /\ UNCHANGED <<held, dev, req, row, got, storeVars, notifierVars, clientVars, failures>>

\* Mutant: no timer.
WaitForever(h) == FALSE

WaitElapsed(h) ==
    /\ pc[h] = "select"
    /\ GoTo(h, "reply")
    /\ UNCHANGED <<held, dev, req, row, got, storeVars, notifierVars, clientVars, failures>>

Waits(h) == dev[h] # None /\ conn[dev[h]] = h

\* The client is gone: its request context is cancelled, or the answer is written
\* to nobody.
Abandon(h) ==
    /\ pc[h] # "free"
    /\ ~Waits(h)
    /\ Free(h)
    /\ UNCHANGED <<storeVars, clientVars, failures>>

ServerStep(h) ==
    \/ ReadDevice(h) \/ ReadConfig(h) \/ ReadSettings(h) \/ ReadCategories(h)
    \/ ReadRelease(h) \/ ReadSound(h) \/ Record(h) \/ Subscribe(h) \/ Changed(h)

-----------------------------------------------------------------------------
(* The client's service.                                                   *)

Connect(d, h, request) ==
    /\ pc[h] = "free"
    /\ GoTo(h, "device")
    /\ dev' = [dev EXCEPT ![h] = d]
    /\ req' = [req EXCEPT ![h] = request]
    /\ conn' = [conn EXCEPT ![d] = h]
    /\ phase' = [phase EXCEPT ![d] = "await"]
    /\ UNCHANGED <<held, row, got>>

\* pollOnce: a new FetchConfig call.
Poll(d) ==
    LET request == [known |-> version[d], status |-> reported[d], build |-> build[d]]
    IN  /\ phase[d] = "rest"
        /\ \E h \in Handler : Connect(d, h, request)
        /\ sent' = [sent EXCEPT ![d] = request]
        /\ tries' = [tries EXCEPT ![d] = 1]
        /\ UNCHANGED <<version, applied, saved, reported, build, storeVars, notifierVars, failures>>

\* do() sends the same request again after a transport error.
Retry(d) ==
    /\ phase[d] = "retry"
    /\ \E h \in Handler : Connect(d, h, sent[d])
    /\ tries' = [tries EXCEPT ![d] = @ + 1]
    /\ UNCHANGED <<sent, version, applied, saved, reported, build, storeVars, notifierVars, failures>>

\* Mutant: one attempt too many.
OneTryMore(d) == tries[d] <= MaxTries

TriesLeft(d) == tries[d] < MaxTries

\* The answer or the request of a device in D is lost, or the transport timeout
\* fires: do() tries again until its attempts are used up.
AfterFailure(D) ==
    LET again == {d \in D : conn[d] # None /\ TriesLeft(d)}
        over  == {d \in D : conn[d] # None /\ ~TriesLeft(d)}
    IN  /\ phase' = [d \in Device |-> CASE d \in again -> "retry"
                                       [] d \in over  -> "rest"
                                       [] OTHER       -> phase[d]]
        /\ tries' = [d \in Device |-> IF d \in over THEN 0 ELSE tries[d]]
        /\ sent' = [d \in Device |-> IF d \in over THEN NoRequest ELSE sent[d]]

LoseConnection(d) ==
    /\ conn[d] # None
    /\ Fail
    /\ conn' = [conn EXCEPT ![d] = None]
    /\ AfterFailure({d})
    /\ UNCHANGED <<version, applied, saved, reported, build, storeVars, notifierVars,
                   handlerVars>>

\* FetchConfig returns, and with it go its attempts and its parameters.
EndFetch(d, then) ==
    /\ phase' = [phase EXCEPT ![d] = then]
    /\ conn' = [conn EXCEPT ![d] = None]
    /\ tries' = [tries EXCEPT ![d] = 0]
    /\ sent' = [sent EXCEPT ![d] = NoRequest]

ApplyServerConfig(config) ==
    [tuning |-> config.tuning, gap |-> config.gap, debug |-> config.debug,
     lock |-> config.lock]

\* Only a configuration that changes something is saved, and once more when the warning
\* sound has changed.
SavesSomething(d, config) ==
    ApplyServerConfig(config) # applied[d] \/ config.sound # None

\* pollOnce remembers the version and applies the configuration, whatever becomes of
\* saving it: Save truncates client.json before it writes.
Receive(d) ==
    LET config == ReadConfigOf(got[conn[d]])
        new    == ApplyServerConfig(config)
    IN  /\ conn[d] # None
        /\ pc[conn[d]] = "reply"
        /\ version' = [version EXCEPT ![d] = configVersion(config)]
        /\ applied' = [applied EXCEPT ![d] = new]
        /\ \/ saved' = [saved EXCEPT ![d] = new] /\ UNCHANGED failures
           \/ new = applied[d] /\ UNCHANGED <<saved, failures>>
           \/ /\ SavesSomething(d, config) /\ Fail
              /\ saved' \in {saved, [saved EXCEPT ![d] = None]}
        /\ EndFetch(d, "rest")
        /\ Free(conn[d])
        /\ UNCHANGED <<reported, build, storeVars>>

\* The service dies inside Save: LoadOrCreate rejects what is left, at every restart.
DieSaving(d) ==
    LET config == ReadConfigOf(got[conn[d]])
    IN  /\ conn[d] # None
        /\ pc[conn[d]] = "reply"
        /\ SavesSomething(d, config)
        /\ Fail
        /\ saved' = [saved EXCEPT ![d] = None]
        /\ version' = [version EXCEPT ![d] = None]
        /\ reported' = [reported EXCEPT ![d] = None]
        /\ EndFetch(d, "down")
        /\ Free(conn[d])
        /\ UNCHANGED <<applied, build, storeVars>>

\* A 400 is not retried, and a body that is not JSON fails FetchConfig.
ReceiveError(d) ==
    /\ conn[d] # None
    /\ pc[conn[d]] \in {"replyEmpty", "replyError"}
    /\ EndFetch(d, "rest")
    /\ Free(conn[d])
    /\ UNCHANGED <<version, applied, saved, reported, build, storeVars, failures>>

\* A 500 is retried like a lost connection.
ReceiveFailed(d) ==
    /\ conn[d] # None
    /\ pc[conn[d]] = "replyFailed"
    /\ conn' = [conn EXCEPT ![d] = None]
    /\ AfterFailure({d})
    /\ Free(conn[d])
    /\ UNCHANGED <<version, applied, saved, reported, build, storeVars, failures>>

\* The agent posts an observation, or an older one late.
AgentReports(d, status) ==
    /\ phase[d] # "down"
    /\ reported' = [reported EXCEPT ![d] = status]
    /\ UNCHANGED <<phase, conn, tries, sent, version, applied, saved, build, storeVars,
                   notifierVars, handlerVars, failures>>

\* The upload loop's batch registers the device as well, even one whose service
\* is gone by then.
UploadBatch(d) ==
    /\ EnsureDevice(d)
    /\ UNCHANGED <<notifierVars, handlerVars, clientVars, failures>>

\* The service restarts, possibly as another build: what it holds in memory is
\* gone, and it runs what client.json says.
RestartWith(d, b, known, config) ==
    /\ phase[d] # "down" /\ saved[d] # None
    /\ Fail
    /\ EndFetch(d, "rest")
    /\ version' = [version EXCEPT ![d] = known]
    /\ applied' = [applied EXCEPT ![d] = config]
    /\ reported' = [reported EXCEPT ![d] = None]
    /\ build' = [build EXCEPT ![d] = b]
    /\ UNCHANGED <<saved, storeVars, notifierVars, handlerVars>>

\* Mutants: the version is kept on disk too; the lock is not.
RestartKeepingVersion(d, b) == RestartWith(d, b, version[d], saved[d])
RestartUnlocked(d, b) == RestartWith(d, b, None, [saved[d] EXCEPT !.lock = Unlocked])

RestartService(d, b) == RestartWith(d, b, None, saved[d])

\* The service ends after a save that failed half-way, and is rejected at every restart.
CannotRestart(d) ==
    /\ phase[d] # "down" /\ saved[d] = None
    /\ Fail
    /\ EndFetch(d, "down")
    /\ version' = [version EXCEPT ![d] = None]
    /\ reported' = [reported EXCEPT ![d] = None]
    /\ UNCHANGED <<applied, saved, build, storeVars, notifierVars, handlerVars>>

\* The server process restarts: the database stays, requests in progress do not.
RestartServer ==
    /\ Fail
    /\ announcing' = 0 /\ woken' = {} /\ missed' = {}
    /\ pc' = [h \in Handler |-> "free"]
    /\ held' = {}
    /\ dev' = [h \in Handler |-> None]
    /\ req' = [h \in Handler |-> NoRequest]
    /\ row' = {}
    /\ got' = [h \in Handler |-> Nothing]
    /\ conn' = [d \in Device |-> None]
    /\ AfterFailure(Device)
    /\ UNCHANGED <<version, applied, saved, reported, build, storeVars>>

Client(d) ==
    \/ Poll(d) \/ Retry(d) \/ Receive(d) \/ ReceiveError(d) \/ ReceiveFailed(d)
    \/ DieSaving(d) \/ LoseConnection(d) \/ UploadBatch(d)
    \/ \E status \in Statuses : AgentReports(d, status)
    \/ CannotRestart(d)
    \/ \E b \in Builds : RestartService(d, b)

-----------------------------------------------------------------------------

Next ==
    \/ Admin
    \/ Notify
    \/ \E h \in Handler : ServerStep(h) \/ StatementFails(h) \/ WaitElapsed(h) \/ Abandon(h)
    \/ \E d \in Device : Client(d)
    \/ RestartServer

Spec == Init /\ [][Next]_vars

\* Goroutines run on, and the poll loop polls again.  A timer that has fired
\* stays ready, and select chooses among the ready branches at random, so a
\* handler that is woken again and again still times out.  Nothing is assumed of
\* the admin, of the agent or of the failures, which MaxFailures bounds.
Fairness ==
    /\ WF_vars(Notify)
    /\ \A h \in Handler :
          WF_vars(ServerStep(h)) /\ SF_vars(WaitElapsed(h)) /\ WF_vars(Abandon(h))
    /\ \A d \in Device :
          /\ WF_vars(Poll(d)) /\ WF_vars(Retry(d))
          /\ WF_vars(Receive(d)) /\ WF_vars(ReceiveError(d)) /\ WF_vars(ReceiveFailed(d))

FairSpec == Spec /\ Fairness

-----------------------------------------------------------------------------
(* Safety.                                                                 *)

\* A handler blocked in select to which nothing has been or will be announced.
Quiet(h) ==
    /\ pc[h] = "select"
    /\ h \notin woken /\ h \notin missed
    /\ announcing = 0

\* No missed wake-up (waitForConfigChange subscribes, then reads): a request is
\* held quietly only while the version its client knows is the version of the
\* configuration now in the store, although the handler read that configuration
\* in six steps, between any of which the admin may have written.
NoMissedWakeup ==
    \A h \in Handler : Quiet(h) => req[h].known = configVersion(Effective(dev[h]))

\* End to end: while a device's request is held quietly, the device runs exactly
\* the configuration and the lock the admin pages show, whatever was lost,
\* retried or restarted before.
HeldMeansApplied ==
    \A d \in Device : conn[d] # None =>
        (Quiet(conn[d]) => applied[d] = ApplyServerConfig(Effective(d)))

\* A device never goes on polling with the version of a configuration it does not
\* run: then the server would hold back the very change it misses.
KnownIsApplied ==
    \A d \in Device : version[d] # None => applied[d] = ApplyServerConfig(version[d])

(* Liveness.                                                               *)

\* Every lock decision that stands reaches the device, even one whose audit row
\* failed and that was therefore never announced, even one the service could not
\* save, and even when other settings keep changing, as long as the admin stops
\* deleting the device.  Only a device that ended with its client.json truncated is lost.
LockArrives ==
    \A d \in Device, l \in LockValue :
        <>[](Registered(d) /\ devices[d].lock = l) => <>[](applied[d].lock = l \/ phase[d] = "down")

\* What the agent goes on reporting is what the pages show in the end, although
\* it travels only as a parameter of the next request and the handler of an
\* earlier one, which carries an earlier report, may still be running.
StatusArrives ==
    \A d \in Device, s \in Statuses :
        <>[](Registered(d) /\ reported[d] = s) => <>[](Registered(d) /\ devices[d].status = s)

-----------------------------------------------------------------------------
(* The inductive invariant behind NoMissedWakeup, HeldMeansApplied and     *)
(* DeliversInOrder.                                                        *)

\* The steps at which a handler has read each part.
HasDevice == {"config", "settings", "categories", "release", "sound", "record",
              "subscribe", "select", "reply"}
HasConfig == HasDevice \ {"config"}
HasSettings == HasConfig \ {"settings"}
HasCategories == HasSettings \ {"categories"}
HasRelease == HasCategories \ {"release"}
HasSound == HasRelease \ {"sound"}

ReadSoFar(h) ==
    /\ pc[h] # "free" => dev[h] \in Device
    /\ pc[h] \in {"free", "device", "config"} => got[h].config = None
    /\ pc[h] \in HasDevice => got[h].device \in DeviceParts
    /\ pc[h] \in HasConfig => got[h].config \in ConfigParts
    /\ pc[h] \in HasSettings => got[h].settings \in Settings
    /\ pc[h] \in HasCategories => got[h].categories \in CategorySets

\* The handler's channel is open, and nobody is about to close it.
Undisturbed(h) ==
    h \in Subscribed /\ h \notin woken /\ h \notin missed /\ announcing = 0

\* What an undisturbed handler has read is still in the store.
StillCurrent(h) ==
    Undisturbed(h) =>
      /\ pc[h] \in HasDevice => got[h].device = DevicePart(dev[h])
      /\ pc[h] \in HasConfig => got[h].config = ConfigPart(dev[h])
      /\ pc[h] \in HasSettings => got[h].settings = settings
      /\ pc[h] \in HasCategories => got[h].categories = categories
      /\ pc[h] \in HasRelease =>
            got[h].release = Resolve(SelectedId(DevicePart(dev[h]), settings))
      /\ pc[h] \in HasSound => got[h].sound = sound

\* A blocked handler is inside waitForConfigChange and read what its client knows.
BlockedOnKnown(h) ==
    pc[h] = "select" => h \in held /\ Known(h, got[h])

\* A client and the handler it waits for agree on the request.
Agree(d) ==
    /\ conn[d] # None =>
          /\ pc[conn[d]] # "free"
          /\ dev[conn[d]] = d
          /\ req[conn[d]].known = version[d]
    /\ phase[d] = "retry" => sent[d].known = version[d] /\ tries[d] < MaxTries
    /\ phase[d] = "await" => conn[d] # None /\ sent[d].known = version[d]
    /\ conn[d] # None => phase[d] = "await"

IInv ==
    /\ TypeOK
    /\ SelectionsHandedOut
    /\ KnownIsApplied
    /\ \A h \in Handler : ReadSoFar(h) /\ StillCurrent(h) /\ BlockedOnKnown(h)
    /\ \A d \in Device : Agree(d)

(* Refinement.                                                             *)

\* The lock the pending answer will carry, once the handler has read it.
Sample(d) ==
    IF conn[d] # None /\ got[conn[d]].config # None
       /\ pc[conn[d]] \notin NoConfig
    THEN got[conn[d]].config.lock ELSE applied[d].lock

\* The lock a restart of the service returns to; none can return from a truncated file.
Stable(d) == IF saved[d] = None THEN applied[d].lock ELSE saved[d].lock

Delivery == INSTANCE LockDelivery WITH
    desired <- [d \in Device |-> RowOf(d).lock],
    sampled <- [d \in Device |-> Sample(d)],
    engaged <- [d \in Device |-> applied[d].lock],
    stable <- [d \in Device |-> Stable(d)]

\* The service obeys the lock decisions in the order they were made: it returns
\* from a newer decision to an older one only when it restarts without having
\* been able to save the newer one.
DeliversInOrder == Delivery!Spec

=============================================================================
