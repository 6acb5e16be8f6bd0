------------------------------- MODULE Upkeep -------------------------------
(***************************************************************************)
(* The poll loop of the Windows service as a whole: one answer after the   *)
(* other it applies the configuration, brings the warning sound up to date *)
(* and replaces the binary, each step waiting for the one before.  While   *)
(* the sound is downloaded the loop holds the mutex of the stateStore,     *)
(* which every request of the agent needs.  The requests themselves are    *)
(* ConfigPoll's, and so are failures to save the configuration.            *)
(***************************************************************************)
EXTENDS Updater, WarningSound

VARIABLES
    answered,   \* the sound's version in the answer being worked on
    decision    \* the admin's last lock decision: how far it got

upkeepVars == <<updaterVars, soundVars, answered, decision>>

TypeOK ==
    /\ UpdaterTypeOK
    /\ SoundTypeOK
    /\ loop \in {"rest", "sync", "download", "record"} \cup UpdateSteps
    /\ answered \in Sound \cup {NoSound}
    /\ decision \in {"told", "decided", "applied"}

Init ==
    /\ UpdaterInit
    /\ SoundInit
    /\ answered = NoSound
    /\ decision = "told"

-----------------------------------------------------------------------------
(* The admin, and the user's disk.                                         *)

SelectVersion ==
    /\ \E v \in Version \cup {None} : Select(v)
    /\ UNCHANGED <<soundVars, answered, decision>>

ChangeSound ==
    /\ RemoveSound \/ \E size \in Sizes : UploadSound(size)
    /\ UNCHANGED <<updaterVars, answered, decision>>

CopyLost ==
    /\ LoseCopy
    /\ Fail
    /\ UNCHANGED <<desired, serviceVars, binaryVars, helper, historyVars, answered, decision>>

Decide ==
    /\ decision = "told" /\ decision' = "decided"
    /\ UNCHANGED <<updaterVars, soundVars, answered>>

-----------------------------------------------------------------------------
(* pollOnce.                                                               *)

Advance(from, to) ==
    /\ service = "up" /\ loop = from
    /\ loop' = to
    /\ UNCHANGED <<desired, service, image, mapped, failedUpdate, binaryVars, helper,
                   historyVars>>

\* FetchConfig is answered, and the configuration applied.
PollAnswered ==
    /\ Advance("rest", "sync")
    /\ plan' = desired
    /\ answered' = sound
    /\ decision' = IF decision = "decided" THEN "applied" ELSE decision
    /\ UNCHANGED <<failures, soundVars>>

\* The locals of pollOnce end with their use.
SyncSound(from, to) ==
    /\ Advance(from, to)
    /\ plan' = IF to = "rest" THEN None ELSE plan
    /\ answered' = IF to \in {"update", "rest"} THEN NoSound ELSE answered
    /\ UNCHANGED decision

SoundIsCurrent ==
    /\ SyncSound("sync", "update")
    /\ Current(answered)
    /\ UNCHANGED <<failures, soundVars>>

\* Without a saved configuration pollOnce ends here.
Saving(saved) == IF saved THEN UNCHANGED failures ELSE Fail
AfterSave(saved) == IF saved THEN "update" ELSE "rest"

SoundIsCleared == \E saved \in BOOLEAN :
    /\ SyncSound("sync", AfterSave(saved))
    /\ ~Current(answered) /\ answered = NoSound
    /\ ClearSound(saved)
    /\ Saving(saved)

StartSound ==
    /\ SyncSound("sync", "download")
    /\ ~Current(answered) /\ answered # NoSound
    /\ UNCHANGED <<failures, soundVars>>

SoundArrived ==
    /\ SyncSound("download", "record")
    /\ StoreSound
    /\ UNCHANGED failures

SoundRecorded == \E saved \in BOOLEAN :
    /\ SyncSound("record", AfterSave(saved))
    /\ RecordSound(answered, saved)
    /\ Saving(saved)

\* Mutant: the download is tried until it succeeds, under the mutex.
Insist == "download"

\* The error is logged, and the loop goes on with the old copy.
GiveUp == "update"

SoundFails ==
    /\ SyncSound("download", GiveUp)
    /\ IF sound = NoSound THEN UNCHANGED failures ELSE Fail
    /\ UNCHANGED soundVars

\* What is left of the answer: the OTA update.
Update ==
    /\ MaybeUpdate \/ StartDownload \/ FinishDownload \/ DownloadFails \/ LaunchDetached
    /\ UNCHANGED <<soundVars, answered, decision>>

-----------------------------------------------------------------------------
(* The agent.                                                              *)

MutexHeld == service = "up" /\ loop \in {"download", "record"}

\* GET /agent/state.
AgentAsks ==
    /\ service = "up" /\ ~MutexHeld
    /\ decision = "applied" /\ decision' = "told"
    /\ UNCHANGED <<updaterVars, soundVars, answered>>

-----------------------------------------------------------------------------
(* The service's life, and the helper's.                                   *)

\* The service that runs next starts from client.json.
Reload == ReloadSound /\ answered' = NoSound

ServiceDies ==
    /\ Crash \/ PowerFails
    /\ Reload
    /\ UNCHANGED decision

ServiceRecovers == Recover /\ Reload /\ UNCHANGED decision

Helping ==
    /\ ApplyUpdate
    /\ IF service' = service THEN UNCHANGED <<soundVars, answered>> ELSE Reload
    /\ UNCHANGED decision

Cooling == CooldownEnds /\ UNCHANGED <<soundVars, answered, decision>>

PollOnce ==
    \/ PollAnswered
    \/ SoundIsCurrent \/ SoundIsCleared \/ StartSound \/ SoundArrived \/ SoundRecorded
    \/ SoundFails
    \/ Update

Next ==
    \/ SelectVersion \/ ChangeSound \/ CopyLost \/ Decide
    \/ PollOnce
    \/ AgentAsks
    \/ ServiceDies \/ ServiceRecovers \/ Helping \/ Cooling

Spec == Init /\ [][Next]_upkeepVars

\* The loop never waits for ever: requests and downloads have timeouts, commands end,
\* and the helper runs through.  The service control manager restarts what crashed,
\* and half hours pass.  A goroutine that waits for a sync.RWMutex gets it.
Fairness ==
    /\ WF_upkeepVars(PollOnce)
    /\ WF_upkeepVars(Helping)
    /\ WF_upkeepVars(ServiceRecovers)
    /\ WF_upkeepVars(Cooling)
    /\ SF_upkeepVars(AgentAsks)

FairSpec == Spec /\ Fairness

-----------------------------------------------------------------------------
(* Liveness.                                                               *)

\* Nothing brings the service back: the new binary does not run, sc start failed, or a
\* swap was cut short by a power failure or went wrong twice.
Wedged == service = "stopped" /\ helper = "none"

Good(v) == v \in Intact \cap Startable

\* A selected release that downloads and runs is what the device ends up with, through
\* failed downloads, failed swaps, crashes of the service at any point of the swap
\* and power failures, unless the device is wedged.
UpdateArrives ==
    <>[][desired' = desired]_upkeepVars
        => <>[](Good(desired) => service = "up" /\ image = desired) \/ <>Wedged

\* What the agent plays ends up as what the server has, or as silence when it has
\* nothing: although the version and the file travel apart and the file and its
\* record are written apart.
SoundArrives ==
    <>[][sound' = sound]_upkeepVars => <>[](Played = sound) \/ <>Wedged

\* A lock reaches the agent although one loop polls, downloads sounds under the mutex
\* the agent needs, and downloads binaries; and although the service is stopped and
\* exchanged meanwhile.
LockTold == decision = "decided" ~> (decision = "told" \/ Wedged)

=============================================================================
