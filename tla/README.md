# A verification of rootaika

rootaika measures the computer time of a household and lets an administrator
lock devices remotely. A Go server keeps everything in SQLite and serves admin
pages, small wall boards and a lock button. Each managed device runs a client
(Windows in Go, macOS in Swift): a *service* that talks to the server and an
*agent* in the user's session that observes activity and shows the lock
overlay. This directory holds TLA+ models of that program, the TLC
configurations that check them, and proofs that TLAPS checks.

Paths below are relative to the repository; `server/` stands for
`server/internal/rootaika/` and `windows/` for `client-windows/internal/`.

## 1. The system

| Component | State | Operations | Talks to |
|---|---|---|---|
| Configuration store (`server/store.go`, `warning_sound.go`) | `devices`, `device_config`, `settings`, `client_versions`, `program_categories`, the sound file | one SQL statement or transaction each: register, record a report, lock, assign, delete, select a version, edit settings, versions and categories, replace the sound | handlers |
| Config API and notifier (`handlers.go`, `notifier.go`, `board_api.go`) | the notifier's channel; what each request has read so far | the long poll, the admin and board handlers, `notify` | store; services; browsers and boards |
| Config poll of the service (`windows/serviceapp`, `api`, `config`) | `client.json`; in memory the config version and the agent's last report | poll, retry, apply, save, restart | config API; agent |
| Event buffer and upload (`windows/buffer`, `serviceapp`) | the buffer's SQLite file; the batch being sent | enqueue, upload, retry, mark sent, purge | ingestion |
| Ingestion (`handlers.go`, `store.go`) | `devices`, `events` | register the device, insert the batch, delete a device with its events | upload |
| Agent and lock controller (`windows/agentapp`, `lock`, `agentrunner`) | what the service wants, the warning countdown, the overlay process, the last emitted event | poll the service, warn, lock, unlock, restart after a crash, debug shutdown | service |
| Updater (`windows/updater`, `serviceapp`) | the installed binary, the one set aside, the staged one; the cooldown | download, verify, launch the helper, which stops, swaps, restarts | service; service control manager |
| Warning sound (`server/warning_sound.go`, `serviceapp/warning_sound.go`) | the uploaded file; the cached copy and the version it stands for | upload; compare, download, record | config API; agent |
| Usage reports (`server/reports.go`, dashboard, chart, history and board views) | none: functions of `events` | seconds per program and window, lock transitions | pages, boards |
| Boards and button (`client-wt32-sc01`, `client-waveshare`, `client-rp2040-button`) | press detection, what the LED shows | lock all, unlock all, read the lock | board API |
| Screen Time collector (`client-macos-screentime-collector`) | `state.json`: what was sent | scrape, synthesise, post, save | ingestion |
| macOS agent (`client-macos`, `Core`, `LockOverlay`, `DebugShutdown`) | the Core actor's lock state and countdown; the main thread's windows, banner and sound; the debug marker | tick, warn, cover, uncover, debug shutdown | daemon; launchd |
| macOS daemon (`client-macos`, `Daemon`, `Updater`, `WarningSound`, ...) | as the Windows service | as the Windows service | as the Windows service |

What is hard in it:

* **Interleaving.** A configuration is read by seven separate statements while
  admins write it and while the device may be deleted; each admin handler
  writes and *then* wakes the waiting requests.
* **Delivery.** The service retries lost requests, whose handlers may still be
  running; the server's inserts are detached from the connection, so an
  abandoned attempt acts late.
* **Crashes.** The service may die between applying and saving, inside saving,
  between the server's 200 and marking events sent; the server may restart with
  requests in progress.
* **Two copies.** The intervals are stored twice; a selection refers to a
  version record that may be deleted; a report of the agent outlives the lock
  it is about; a device's version of the configuration must describe what the
  device runs.
* **Time.** A held request is rescued by a timer when nothing announces its
  change; a lock may be announced by a countdown that is withdrawn meanwhile.
* **Replacing itself.** The service exchanges the file it runs from while the
  service control manager may restart it, and downloads under a mutex its agent
  needs.
* **Late data.** Events are reported on before all of them have arrived, and each
  page fetches another part of them.

## 2. Modules

| Module | Models | Proofs |
|---|---|---|
| `ConfigStore` | the store: every statement that writes what a configuration is computed from | `ConfigPollProofs` |
| `ConfigPoll` | the notifier, the long poll, the admin handlers, the service's poll loop; EXTENDS `ConfigStore` | `ConfigPollProofs` |
| `LockDelivery` | abstract: what lock delivery promises, with no requests or versions | implemented by `ConfigPoll` |
| `EventUpload` | buffer, upload loop, ingestion | `EventUploadProofs` |
| `AgentLock` | the agents of a device: loop, overlay, countdown, debug shutdown, watchdog | `AgentLockProofs` |
| `Collector` | the Screen Time collector, its state file, and what the server counts | `CollectorProofs` |
| `Updater` | how the service's binary is downloaded, verified and swapped | with `Upkeep` |
| `WarningSound` | the sound on the server, the copy and its record on the device | with `Upkeep` |
| `Upkeep` | EXTENDS both: the poll loop that runs them one after the other, its mutex, the service's life | `UpkeepProofs` |
| `UsageReport` | what the pages compute from events; definitions only | with `Usage` |
| `Usage` | EXTENDS it: a device tick by tick, its agent, the events' arrival | `UsageProofs` |
| `MacAgent` | the macOS agent: Core, the main thread, launchd | `MacAgentProofs` |
| `Sums` | sums over finite sets, induction over numbers and finite sets; lemmas only | itself |
| `MC...` | values for the constants, restricted specifications | |

### ConfigStore

A device's rows in `devices` and `device_config` are created and deleted in the
same transaction (`ensureDeviceConfigTx`, `ON DELETE CASCADE`), so `devices[d]`
is one record or `None`. Lock message and warning seconds are one value of
`Locks`. `registry[v]` remembers that an `AUTOINCREMENT` id was deleted and is
never handed out again; `DeleteVersion` takes any id, as the code does.
`SetDeviceVersion` and `UpdateSettings` accept any id a page may have offered when
it was rendered (`Offered`), including one that has been deleted since: the code
does not check. `RecordReport` stands for
`RecordDeviceStatus` and `RecordDeviceVersion`, whose two UPDATEs touch columns
nobody reads together; that the second may fail after the first is an outcome of
`StatementFails`.

### ConfigPoll

`pc[h]` follows the handler goroutine of one `/api/v1/client/config` request
through `effectiveConfig`: `device` (EnsureDevice) `config settings categories
release sound`, then `record`, and, when the client's version is current, into
`waitForConfigChange`: `subscribe`, the same reads again, `select`. `got[h]` is
what was read so far, so torn reads arise as they do in the code. `row` holds
the handlers whose captured device id still exists. `woken` are the handlers
whose captured channel was closed; `announcing` counts admin requests between
their write and `notify()`, so any number of reads may fall between the two.
`missed` marks handlers that subscribed before a change nobody will announce: a
lock whose audit row failed (`Audited`, `SetDeviceLock` returns before
`notify`), or a deletion (`adminDeleteDevice` does not notify).

A configuration's fingerprint is the configuration (`configVersion`): FNV-64
collisions are what this abstracts.

The client: `phase[d]` is the poll loop between calls (`rest`), waiting for an
answer (`await`), backing off (`retry`), or `down` when the service cannot start
again. `version` and `reported` are only in memory, `applied` is the configuration
in memory and `saved` is `client.json`, or `None` when nobody can read it:
`update` changes memory before it saves, and `Save` truncates the file before it
writes. A save that fails before that leaves an older file, to which a restart
returns; one that fails later, or in which the service dies (`DieSaving`), leaves
a file `LoadOrCreate` rejects at every restart (`CannotRestart`), unless the
service goes on and a later save mends it. The agent may report any state
(`AgentReports`): the handler believes it.
`Receive` stores the version, applies and saves in one step: nothing else reads
the three in between except the agent's API, which sees only `applied`.

### LockDelivery

Decide, take a sample, engage the sample, drop it, restart. `ConfigPoll`
implements it (`DeliversInOrder`): an answer on its way is the sample. It rules
out that a device returns to an older decision by a late or retried answer; the
only way back is a restart that finds the newer lock unsaved. From a truncated
file there is no way back: such a device stays with the lock it obeyed.

### EventUpload

An event is its sequence number, which is also its place in the buffer.
`StartUpload`/`Retry` open a connection to a handler; the handler runs
`EnsureDevice` and `InsertEvents` as two transactions, neither of which a lost
connection stops (`withTx` detaches the context). `Accepts` is the foreign key,
`Fresh` the `INSERT OR IGNORE` on `event_uuid`. `MarkSent` also purges what was
sent long ago, which the model allows for any prefix. `erased` is history: what
`DeleteDevice` removed.

### AgentLock

`want` and `pausing` are the service's `stateStore`; `child` is the process the
runner waits for. `pc[a]` follows one tick of agent `a` through `Run`: `fetch`,
`obey` (the switch over `state.Locked`), `signal` (`consumeDebugShutdown`),
`observe`, `sleep`. `warning`, `warned` are the loop's flags, `countdown[a]` the
goroutine of `warnDone`, `overlay[a]` the controller's `cmd` together with how its
process fares: `ended` or `clicked` before the waiting goroutine noticed (`exited`
is still false), `noticed` after. `covered` is `screenLocked`. `Engage` is all of
`SetLocked(true)`, with the start that fails after the old overlay was killed. The
warning's sound is left out and how long a countdown takes is left open:
`CountdownEnds` may come at any time, also because the banner could not be shown.
So `GraceHonoured` says here that a countdown comes first, not how long it is; as
on the Mac (section 4), a countdown that runs keeps its seconds when a lock with
others replaces its own. The program that is reported beside the lock state is
left out, so `Emit` may always happen, as a heartbeat or a changed program makes
it.

An agent ends in three ways, and they leave different things behind: a debug
shutdown runs `Close` (the overlay goes), while a kill, by an update
(`killImage`), by the end of the service whose child it is
(`exec.CommandContext`) or a crash, runs nothing. `orphaned` says that such an
overlay is still on the screen. A service that crashes leaves its agent running, and
its successor's watchdog starts another.

### Collector

One run is `StartRun`, then for each member `RunMember` (scrape and layout), a
`Post` per chunk, `Save`. `sent` is the `state` dictionary all members of a run
share, `file` the one on disk. `Layout` is the loop of `synthesize`: app after
app, `Segment` appends the app's heartbeats and its closing idle from where the
tape has come to. An event's id is its app and its place, and `Inserted` is the
server's `INSERT OR IGNORE`, event by event. `Counted` is `CalculateUsage` for a
past day: per row up to the next one in the order of time, sequence number and id,
and `MaxGap` at most. `unsaved` and `relaid` are history: the totals an upload was
stored for without being saved, and the members whose rows were later laid out for
others, of whom `TapeExact` says nothing (section 4).

### Updater, WarningSound, Upkeep

The three files of a swap are `target` (`rootaika.exe`), `old` and `staged`; each
holds a version, is `"partial"`, or is missing. `mapped` says which of them the
running service was started from: Windows lets a file in use be renamed but
neither written nor deleted, which decides what `DownloadFails`, `SetAside` and
`Restore` can do. `loop` follows `pollOnce`: `sync download record` for the
sound, then `update fetch stream launch`. `helper` follows `ApplyUpdate`, which
looks at no error but that of the copy. A service that did not stop within 30
seconds is killed (`killImage` ends every `rootaika.exe`, or fails); for the service
control manager that is a crash, and `Recover` may start whichever binary is in
place at any later step of the swap. When the rename to `old` fails, `SetAside`
goes on, and `StartCopy` truncates the only whole binary there may be. When the
copy fails, the rename back (`Restore`) is a step of its own that may fail too,
and `StartOld` starts the service from whatever is there. `StartService` may fail
unnoticed: the service stays down (`unstarted`).

`plan` and `answered` are locals of `pollOnce`: what the admin selects or uploads
meanwhile is not in them, so the file that `StoreSound` writes may be newer than
the version that `RecordSound` records. `MutexHeld` is `stateStore.update` around
the download. `decision` follows one lock decision from the admin through the
poll to the agent's `GET /agent/state`. A `Save` that fails when the sound's
version is recorded ends `pollOnce` (`AfterSave`); one that fails before that is
`ConfigPoll`'s, and so is what a failed save leaves of `client.json`.

`unapplied` and `cut` are history: a swap failed a short time ago; the power
failed while there was no whole binary in place. So are `setbacks`, which counts
the renames and copies that failed since the installed binary was last whole at
the end of a swap, and `unstarted`, that the last `sc start` of a service that was
down failed.

What this leaves out: the agent processes that a swap ends (`AgentDies` of
`AgentLock`); the attempts of a download, which are one; releases whose asset
reports another version than the registry says, which would be installed again
and again. `RemoveSound` is done by hand: the server has no operation for it, the
client handles it. Each upload of a sound has a second of its own.

### UsageReport, Usage

An event is its moment, its number, a state and a program. `SegmentEnd` is the
chain of comparisons in `CalculateUsage`; `SegmentSeconds` cuts to whole seconds,
of which each tick is a part. `ReportEvents` is the last event before a window
and those in it. `dailySpans`, `intradaySpans`, `SpanReports`, `Chart` and
`ProgramTotals` are the charts: one fetch, counted once per span.
`IsTransition` is the `LAG` of `LockTransitions`.

`Usage` gives these functions events an agent really makes: `doing` is what the
device did in each tick, `Observe` a tick of the agent (`shouldEmit` with its
heartbeat), `Unobserved` a tick without an agent, `Arrive` an upload, in order
(`NoGaps` of `EventUpload`) and as late as may be. The reference the reports are
compared with, `UsedBy`, counts ticks of `doing`.

Left out: rounding to minutes, labels, ranges of 30 days (as those of 7), days of
23 and 25 hours, a post to the service that fails (`AgentLock`). `month` differs
from `week` in a constant only.

### MacAgent

Two threads share the lock: `Core`, an actor that decides, and the main thread,
which runs `queue` (`RunMain`), the blocks `runOnMain` dispatches. `pc` follows
`tickOnce`, which lets the countdown run while it awaits the daemon (`fetch`,
`post`) or sleeps, but not between `Obey` and `Look` (`CoreFree`); the main thread
may run a block there. Every lock has seconds of its own, zero or one of
`Warnings`. `signature` is `lastLockSignature`. `task` is the countdown
with the seconds it has left; `cancelled` is one that was cancelled and has not
woken up, or not even begun, and will still queue its blocks. `Launch` stands for
all starts up to the first that does not end at once (`DebugShutdownGate`).
`elapsed` and `promised` are history: the seconds of warning since the last unlock
that Core obeyed, and those of the first lock since then that warns. `missed` is
history: Core found no cover to remove while one was queued
(section 4).

## 3. Runs

Every run bounds the model with constants that occur as guards:
`MaxAnnouncing` (admin requests between write and notify), `MaxTries` (attempts
of one call, 4 in the code), `MaxFailures` (lost connections, failed
statements, restarts, power cuts), `MaxEvents`, `MaxId`, `MaxSecond` (uploads of
a sound), `MaxTime`, `MaxQueue` (blocks the main thread is behind).

Several agents at once, and several handlers beside an admin, are not in the
runs: `NoWakeupIsMissed`, `HeldAlwaysMeansApplied` and `GraceAlwaysHonoured` are
proved for any number of them.

| Run | Shows | Bounds and why they suffice |
|---|---|---|
| `poll` | `TypeOK`, `NoMissedWakeup`, `HeldMeansApplied`, `KnownIsApplied`, `DeliversInOrder`, `LockArrives` | one lock and unlocked, decided again and again; two tries per call; two failures: a lost answer and a failed save, or a skipped announcement and a restart |
| `poll_parts` | `NoMissedWakeup` while every other part of a configuration changes; `IntervalsAgree` | two settings that differ in all fields but one, one id that is registered, selected and deleted, one sound: a torn read differs from what is there; `PartsSpec` |
| `poll_status` | `StatusArrives` | two handlers, two reports; `CalmSpec` |
| `upload` | `TypeOK`, `NoLoss`, `NoDuplicate`, `NoGaps`, `RowsHaveDevice`, `EventsArrive` | three events in batches of two, a whole batch and a rest; two handlers; a second device id; three failures |
| `agent` | `TypeOK`, `PauseEndsWithLock`, `GraceHonoured`, `LockEngages`, `UnlockReleases`, `StatusFollows`, `AgentReturns` | every combination of message, warning and debug mode, two messages to re-render the overlay; one failure: a crash, a failed start or a lost call |
| `agent_overlay` | finding 1 | the smallest instance |
| `tape` | `TypeOK`, `TapeExact`, `UsageArrives` under every kind of failure | two apps, totals up to 2 with a heartbeat at each: tapes of several uploads, segments of several heartbeats, uploads of several chunks; two failures |
| `tape_lost` | finding 2 | the smallest instance |
| `upkeep` | `TypeOK`, `InstalledIsVerified`, `NeverLeftDown`, `SoundNotOlder`, `UpdateArrives`, `SoundArrives`, `LockTold` | three releases: the installed one, a good one, and one whose asset is neither intact nor runs; two uploads of one size, the worst case for the size check; two failures, the fewest that can leave no whole binary |
| `upkeep_spin` | finding 3 | no sounds, one failure |
| `usage` | `TypeOK`, `ReportIsUse`, `ViewsAgree`, `HistoryShowsLocks`, `PastIsFinal` | one program and the unnamed one; six ticks: a day of four and half of the next; seconds of two ticks and gaps of three, so that segments are cut by a window, by the gap and by a fraction of a second, and a segment of the day before still counts; a history of two rows |
| `mac` | `TypeOK`, `GraceHonoured`, `ScreenFollows` | four requests: unlocked, locked at once in debug mode, locked after one second, locked after two with another message, each of which may replace any other; two blocks in the queue, so that Core runs ahead of the main thread; one failure |

`PartsSpec` drops the steps that delete, unassign or lock a device, which `poll`
has. `QuietSpec` lets the admin withdraw the selected release with the last upload
of a sound: what the release caused goes on, nothing more is fetched for it. Beside
a sound only good releases are selected; and the second failure comes only before
the first upload and while no lock is on its way (the theorem covers any number of
failures of a swap). `CalmSpec` has no
admin steps, which `StatusArrives` is not about. The categories keep one value in
the runs (the proof of `NoMissedWakeup` covers their changes). `upload` allows
deadlock: when every event is uploaded and the bounds are used up nothing is left
to do, and so does `usage` when time is up. `tape_lost` allows only failed
requests, to show the case it is about.

### Fairness

Weak fairness of the server's steps, of `notify` and of the client's loops:
goroutines run on, and the poll and upload loops of `serviceapp` are infinite
loops whose sleeps end. Strong fairness of `WaitElapsed`: the handler may leave
and re-enter `select`, but its timer is created once, so once it has fired it
stays ready, and Go's `select` chooses among ready branches at random. The agent's
loop, the watchdog's ticker, a countdown and the goroutines that wait for
processes run on (weak fairness); `Emit` is strongly fair, because the heartbeat
comes due again and again however often a tick has nothing new to say. launchd
starts the collector every half hour (weak fairness of `Run`). In `Upkeep` the
poll loop never waits for ever, because requests and downloads have timeouts
(weak fairness of `PollOnce`); the helper is a sequence of commands that end; the
service control manager restarts what crashed; half hours pass. `AgentAsks` is
strongly fair: the mutex is released again and again, and Go's `RWMutex` lets a
waiting reader in. In `MacAgent` launchd keeps starting the agent
(`KeepAlive`), actor and main thread run on, and `Emit` is strongly
fair as above; so are the `Countdowns`, which wait for the actor: it is free at
every `await`, and runs what waits for it. Nothing is assumed of admins, users or
failures. Failures are bounded: liveness says that what must happen happens once
failures stop.

## 4. Findings

1. `agent_overlay`: the overlay script says "an unlock removes the overlay"
   (`windows/lock/controller_windows.go:25-26`). An overlay whose agent was
   killed is known to nobody and stays over the unlocked screen.
2. `tape_lost`: the collector's state is saved "only after every batch
   succeeded" (`collector.py:319`). It is one dictionary for all members, updated
   before the post: the next member's success saves the failed member's totals,
   which are never sent.
3. `upkeep_spin`: "A failed version is not retried for 30 minutes, so a bad
   release cannot spin" (`README.md:112`; `serviceapp/app.go:260-262` says "failed
   to download or apply"). Only failures of the service itself are recorded, in
   its memory. The helper's are not: it restores the old binary and starts the
   service, which fetches the same release at its first poll.

Smaller disagreements met on the way, on which no run is spent:

* `waitForConfigChange` returns false not "only when the request context is
  cancelled" (`server/handlers.go:204-206`) but also when a read fails, as when
  the device was just deleted; the waiting client gets a 200 without a body.
* `DeleteVersion` leaves "no selection dangling" (`server/store.go:524-526`), but
  a form rendered earlier may select the id afterwards (`Offered`); a
  configuration treats it as no selection.
* "screenLocked is the actual overlay state" (`windows/agentapp/agentapp.go:80-82`):
  when a lock with a warning follows one without before the agent saw an unlock
  between them, the countdown runs under the overlay that is still up
  (`StartCountdown` leaves `overlay` alone), and the covered screen is reported
  as played.
* "When the server requests a lock with a `warning_seconds` countdown, the agent
  first shows" a banner "while the screen stays usable"
  (`client-macos/README.md:146-149`), and the cover comes "only once it elapses"
  (`Core.swift:173`). A countdown that already runs is not started again for a
  lock with other seconds (`Core.swift:175`), and once `warned` is set such a lock
  covers the screen at once (`Core.swift:161`): 300 seconds that replace 60 are
  60. What holds, and is proved, is `GraceHonoured` of `MacAgent`: the warning of
  the first lock since the last unlock is given in full.
* The warning's sound is a process that only its agent ends
  (`controller_windows.go:286-287`): it outlives an agent that dies in a
  countdown. The sound is not modelled.
* `lockState` shows a device as locked only once it "reports state=locked back"
  (`server/views.go:109-113`). The report outlives the lock it was about: lock,
  report, unlock, lock again, and the page says locked at once.
* The collector's re-sends after a crash "never corrupt attribution"
  (`collector.py:13-14`). They do not when the totals are the same
  (`TapeExact`); when they grew in between, the new layout overlaps the stored
  one (`relaid`). A lost state file does the same.
* "A bad release cannot wedge the device" (`serviceapp/app.go:250-253`): a release
  that is intact but whose service does not start is not rolled back, and a power
  failure between the rename and the end of the copy leaves no binary in place.
  So do two failed steps of one swap, such as the rename to `.old` and the copy,
  which then has truncated the only binary (`apply_windows.go:30-36`), or the copy
  and the rename back (line 38); and a failed `sc start` (line 58) leaves the
  service stopped, with a whole binary. `NeverLeftDown` names these exceptions
  and says that there are no others.
* `maybeUpdate` "asks the process to stop" (`serviceapp/app.go:272-276`); it does
  not, the helper stops the service. Until then the loop goes on polling, and a
  second download finds the staged file in use and starts the cooldown.
* Two sounds of one size uploaded within one second have one fingerprint, which
  "changes whenever a new file is uploaded" (`server/warning_sound.go:42-43`).
* On the Mac the flags of the lock controller are "guarded so calls are safe from
  the Core actor" (`LockOverlay.swift:21-22`), but `isShowing` is set by a block on
  the main thread: an unlock that Core obeys before the main thread has run
  `showLock` skips `hideLock` (`Core.swift:156`), and the cover stays until the
  next lock and unlock. `ScreenFollows` excludes it by `missed`. The window is
  the delay of the main thread.
* "The sound plays only during this countdown, never at the lock moment"
  (`client-macos/README.md:150`): when a lock without a warning is replaced by
  one with a warning, the countdown and its sound run under the cover.
* On both systems an agent that restarts during a lock with a warning gives the
  grace again: whether a countdown is over is in memory only.
* The history's rows of one moment are in no defined order
  (`server/store.go:897`).

## 5. Proofs

The proof modules hold for all values of the constants, under the assumptions
named in the modules (`StoreAssumption`, `PollAssumption`, `UploadAssumption`,
`LockAssumption`, `UpdaterAssumption`, `SoundAssumption`, `ReportAssumption`,
`UsageAssumption`, `MacAssumption`, `CollectorAssumption`), which say that
the constants are of their kinds and that `None` and the marker strings are
not among the values. `CollectorAssumption` also has heartbeats no further apart
than what the server counts for one event: `HEARTBEAT_SECONDS` "must stay under"
it (`collector.py:34`), 240 against a default of 300. An administrator who sets
the cap lower (`handlers.go:548`) gets segments with holes.

* **ConfigPollProofs.** The store: `StoreTypeOK` and `IntervalsAgree` are
  inductive together, as is `SelectionsHandedOut` (no selection names an id that
  was not handed out), which the rest needs. The delivery: `NoMissedWakeup` is not
  inductive: it speaks of a blocked handler only, and a handler becomes blocked
  after six reads. `IInv` strengthens it with, for each handler, `StillCurrent`:
  as long as its channel is open, nobody is about to close it and nothing was
  changed silently, every part it has read is still what the store says;
  `ReadSoFar`, which parts it has read at which step; and `BlockedOnKnown`, that a
  blocked handler read what its client knows. Every admin action either raises
  `announcing` or marks the handlers it concerns as `missed`, so it makes
  `Undisturbed` false where it makes a part stale. `HeldMeansApplied` adds
  `KnownIsApplied` and `Agree`: the request a device waits for carries the version
  the device has now. `StoreIsUsedAsSpecified` shows that the protocol implements
  `StoreSpec`, by which the store's theorems hold under polling.
  `LocksAreDeliveredInOrder` is the refinement of `LockDelivery`, one case per
  action.
* **EventUploadProofs.** The inductive invariant says what the safety properties
  do not: sequence numbers given out are 1..next, what is marked was buffered
  and has reached the server, the batch in memory is a prefix of what is
  unsent, every handler's batch has no gap below it, and rows have the id the
  device has now.

* **AgentLockProofs.** `GraceHonoured` rests on `WarnedIsOver`: an agent counts
  as warned only while the countdown that warned it is over and not yet
  replaced. Together with `TypeOK` and `PauseEndsWithLock` it is inductive, one
  lemma per action; `GraceStep` is proved beside it for every step.

* **UpkeepProofs.** `NeverLeftDown` speaks of a helper that has finished. The
  inductive invariant says what it leaves behind at each step (`SwapInv`): the
  staged file is intact from the launch on, because the loop cannot truncate it
  while the helper uses it; a process runs from a whole file (`ImageInv`), which
  is why a file that cannot be replaced need not be; and how many steps have
  failed when neither the installed binary nor the one aside is whole
  (`WholeInv`). `SoundNotOlder`
  needs the same of the record in `client.json` and of an answer whose file has
  been stored but not recorded (`SoundInv`).
* **UsageProofs.** The reports are functions of sets of events, so these proofs
  are about `Followers`: the next event in a longer list is the same as long as
  it lies before the end (`FetchIsEnough`), and segments of one device end where
  the next begins (`NoTickTwice`). `PastStaysFinal` needs that an event that
  arrives is not older than what is `Known`, which `Numbered` and `OfThePast`
  say of the pending ones. `Story` is what the agent's decisions leave behind:
  every observed tick shows what the last event before it says, which is less than
  a heartbeat old. `ReportTellsUse` compares a report
  with these ticks, second by second: the sum of the segments' whole seconds is
  less than a second per segment away from the number of ticks they cover.
  `PagesAgree` adds that a page fetches enough for what it shows
  (`FetchedReport`) and that a cut at midnight loses one second at most
  (`CutLosesOneSecond`). `LocksAreShown` needs that the last transition before
  an event tells the event's state (`LastTransitionTells`).
* **MacAgentProofs.** `Paid`: a countdown has as many seconds to go as are missing
  of those promised since the last unlock, none are missing when `warned` is set,
  and before the first countdown none have passed. One lemma per action; the
  countdown's own steps are the interesting ones.
* **CollectorProofs.** `Exact(R, F)` says that rows R show each app's seconds of
  the totals F and end in an idle where the tape goes on. A segment there adds
  to its app's time and to no other's (`SegmentAdds`); over the apps this gives
  `LayoutTells`; `CountedIsShown` is the server's side. `TapeExact` speaks of
  members whose last upload was saved, so the invariant says what the others
  have: rows that told the file's totals, and some of the tape that was laid out
  for the unsaved ones (`Told`), which a repeated upload with the same totals
  completes. The file is saved for all members at once, so a save may also take
  a member's unsaved totals along (`Taken`, `InRun`); `Sending` says that rows
  and outbox make up the tape meanwhile. `TapeAlwaysExact` has a hypothesis,
  `LoneUploads`: that requests are not refused, or that there is one member.
  Without it the theorem is false, which is finding 2: after a refused request
  the run saves the refused totals together with the next member's. A lost answer
  can have that effect too; there `unsaved` remembers what was stored, and
  `TapeExact` sets the member aside until its upload is repeated and saved.
* **Sums.** What the others need of `SumFunctionOnSet`, `Min` and whole numbers.
  The library's induction theorems take an operator and cannot be used; here
  induction is over a set (`NatSetInduction`, `FiniteSetInduction`), proved from
  the existence of a least element and of a minimal subset. Functions that are
  defined by recursion, as the sums of the community modules and the loops of
  `Collector` are, are then shown to exist and to satisfy their equations.

Every invariant that a passing run checks is proved. Only model-checked are the
liveness properties (`LockArrives`, `StatusArrives`, `EventsArrive`,
`LockEngages`, `UnlockReleases`, `StatusFollows`, `AgentReturns`,
`UsageArrives`, `UpdateArrives`, `SoundArrives`, `LockTold`, `ScreenFollows`),
which are beyond the prover.

## 6. Plan

1. `ConfigStore`, `ConfigPoll`, `LockDelivery`: done, proved.
2. `EventUpload`: done, proved.
3. `AgentLock`: done, proved.
4. `Collector`: done, safety proved.
5. `Updater`, `WarningSound`, `Upkeep`: done, proved except liveness.
6. `UsageReport`, `Usage`: done, proved.
7. `MacAgent`: done, safety proved.

## 7. Not modelled

* **macOS daemon.** Its poll, upload, sound and update loops are the Windows
  service's protocols in Swift. Where they differ: the binary is replaced by one
  `rename` in the daemon itself and a failed apply is recorded for the cooldown
  (so finding 3 is Windows' alone); the sound is downloaded outside the lock of
  the configuration.
* **Boards and button.** Firmware; their requests are `BoardButton` and
  `BoardUnlock` of `ConfigPoll`, in any order and number. When the button takes a
  press for a long one depends on the durations of blocking network calls.
* **Authentication, HTML, migration and seeding.** HTTP basic authentication
  keeps no state; the settings pages and templates render committed state; the
  schema is created before the server listens.
* **The operating system's side.** Activity probes, the service host, console
  windows: thin wrappers.
