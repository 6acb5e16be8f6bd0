---------------------------- MODULE UpkeepProofs ----------------------------
(***************************************************************************)
(* Proofs about Upkeep for every set of releases, every number of uploads  *)
(* and every number of failures: its type invariant, what the swap of the  *)
(* binary keeps, and what the copy of the warning sound keeps.             *)
(***************************************************************************)
EXTENDS Upkeep, TLAPS

\* A process runs from a whole file.
ImageInv ==
    /\ service # "up" => mapped = "target"
    /\ InUse("target") => Whole(target)
    /\ InUse("old") => Whole(old)

\* What there is of a whole binary at each step of the helper, given what has failed.
WholeInv ==
    /\ helper \in {"none", "stop", "kill", "rename", "restart"} => Whole(target) \/ setbacks >= 2
    /\ helper = "copy" => Whole(old) \/ (Whole(target) /\ setbacks >= 1) \/ setbacks >= 2
    /\ helper = "copying" => Whole(old) \/ setbacks >= 1
    /\ helper = "back" => setbacks >= 1 /\ (Whole(old) \/ setbacks >= 2)

SwapInv ==
    /\ loop = "stream" => helper = "none"
    /\ loop = "launch" => helper = "none" /\ staged = plan /\ plan \in Intact
    /\ helper # "none" => staged \in Intact
    /\ InstalledIsVerified
    /\ ImageInv
    /\ ~cut => WholeInv
    /\ helper = "start" => Whole(target)
    /\ helper = "none" /\ service = "stopped" => target \notin Startable \/ unstarted

NotNewer(version) ==
    version # NoSound /\ cached # NoSound => version.second <= cached.second

Uploaded(version) == version # NoSound => version.second <= second

\* Nothing is newer than the newest upload, and no record or answer that is about to
\* become one is newer than the copy.
SoundInv ==
    /\ sound # NoSound => sound.second = second
    /\ Uploaded(cached) /\ Uploaded(recorded) /\ Uploaded(onDisk) /\ Uploaded(answered)
    /\ NotNewer(recorded) /\ NotNewer(onDisk)
    /\ loop = "record" => NotNewer(answered)

Loop == {"rest", "sync", "download", "record"} \cup UpdateSteps

\* The two halves of the inductive invariant.
Swap == UpdaterTypeOK /\ loop \in Loop /\ SwapInv
Sync == SoundTypeOK /\ answered \in Sound \cup {NoSound} /\ SoundInv

IInv == Swap /\ Sync /\ decision \in {"told", "decided", "applied"}

LEMMA InitInv == Init => IInv
<1> SUFFICES ASSUME Init PROVE IInv
  OBVIOUS
<1> USE DEF Init, UpdaterInit, SoundInit
<1>1. UpdaterTypeOK /\ loop \in Loop
  <2>1. 0 \in 0..MaxFailures
    BY UpdaterAssumption
  <2>2. InitVersion \in Version
    BY UpdaterAssumption
  <2> QED
    BY <2>1, <2>2 DEF UpdaterTypeOK, HelperSteps, File, Loop
<1>2. SwapInv
  BY UpdaterAssumption DEF SwapInv, InstalledIsVerified, Whole, ImageInv, WholeInv, InUse
<1>3. Sync
  BY SoundAssumption DEF Sync, SoundTypeOK, SoundInv, NotNewer, Uploaded
<1> QED
  BY <1>1, <1>2, <1>3 DEF IInv, Swap

-----------------------------------------------------------------------------
(* The swap.                                                               *)

LEMMA FailBounded == ASSUME UpdaterTypeOK, Fail PROVE failures' \in 0..MaxFailures
BY UpdaterAssumption DEF UpdaterTypeOK, Fail

\* The steps of the loop that have nothing to do with the update.
LEMMA AdvanceSwap ==
    ASSUME Swap, NEW from, NEW to \in {"rest", "sync", "download", "record", "update"},
           Advance(from, to), plan' \in Version \cup {None}, failures' \in 0..MaxFailures
    PROVE  Swap'
<1> USE DEF Advance, binaryVars, historyVars
<1>1. UpdaterTypeOK' /\ loop' \in Loop
  BY DEF Swap, UpdaterTypeOK, HelperSteps, File, Loop, UpdateSteps
<1>2. SwapInv'
  BY DEF Swap, SwapInv, InstalledIsVerified, Whole, ImageInv, WholeInv, InUse
<1> QED
  BY <1>1, <1>2 DEF Swap

\* The update's own.
LEMMA UpdateSwap == ASSUME Swap, Update PROVE Swap'
<1> USE UpdaterAssumption DEF binaryVars, historyVars, GoOn
<1>1. CASE MaybeUpdate
  <2>1. UpdaterTypeOK' /\ loop' \in Loop
    BY <1>1 DEF MaybeUpdate, Swap, UpdaterTypeOK, HelperSteps, File, Loop, UpdateSteps
  <2>2. SwapInv'
    BY <1>1 DEF MaybeUpdate, Swap, SwapInv, InstalledIsVerified, Whole, ImageInv, WholeInv, InUse
  <2> QED
    BY <2>1, <2>2 DEF Swap
<1>2. CASE StartDownload
  <2>1. UpdaterTypeOK' /\ loop' \in Loop
    BY <1>2 DEF StartDownload, Swap, UpdaterTypeOK, HelperSteps, File, Loop, UpdateSteps
  <2>2. SwapInv'
    BY <1>2
    DEF StartDownload, Swap, SwapInv, InstalledIsVerified, Whole, ImageInv, WholeInv, InUse
  <2> QED
    BY <2>1, <2>2 DEF Swap
<1>3. CASE FinishDownload
  <2>1. UpdaterTypeOK' /\ loop' \in Loop
    BY <1>3
    DEF FinishDownload, Verified, Swap, UpdaterTypeOK, HelperSteps, File, Loop, UpdateSteps
  <2>2. SwapInv'
    BY <1>3
    DEF FinishDownload, Verified, Swap, SwapInv, InstalledIsVerified, Whole, ImageInv,
        WholeInv, InUse
  <2> QED
    BY <2>1, <2>2 DEF Swap
<1>4. CASE DownloadFails
  <2>1. failures' \in 0..MaxFailures
    BY <1>4, FailBounded DEF DownloadFails, Swap, UpdaterTypeOK
  <2>2. UpdaterTypeOK' /\ loop' \in Loop
    BY <1>4, <2>1 DEF DownloadFails, Swap, UpdaterTypeOK, HelperSteps, File, Loop, UpdateSteps
  <2>3. SwapInv'
    BY <1>4
    DEF DownloadFails, Swap, SwapInv, InstalledIsVerified, Whole, ImageInv, WholeInv, InUse
  <2> QED
    BY <2>2, <2>3 DEF Swap
<1>5. CASE LaunchDetached
  <2>1. failures' \in 0..MaxFailures
    BY <1>5, FailBounded DEF LaunchDetached, Swap, UpdaterTypeOK
  <2>2. UpdaterTypeOK' /\ loop' \in Loop
    BY <1>5, <2>1 DEF LaunchDetached, Swap, UpdaterTypeOK, HelperSteps, File, Loop, UpdateSteps
  <2>3. SwapInv'
    BY <1>5
    DEF LaunchDetached, Swap, SwapInv, InstalledIsVerified, Whole, ImageInv, WholeInv, InUse
  <2> QED
    BY <2>2, <2>3 DEF Swap
<1> QED
  BY <1>1, <1>2, <1>3, <1>4, <1>5 DEF Update

\* Whoever starts the service leaves it up, or stopped for want of a binary that runs.
LEMMA StartType ==
    ASSUME UpdaterTypeOK, Start
    PROVE  /\ service' \in {"up", "stopped"} /\ image' \in Version \cup {None}
           /\ mapped' = "target" /\ loop' = "rest" /\ plan' = None /\ failedUpdate' = None
           /\ service' = "stopped" => target \notin Startable
           /\ unstarted' = FALSE /\ (service' = "up" => Whole(target))
BY UpdaterAssumption DEF Start, Whole

LEMMA StartServiceType ==
    ASSUME UpdaterTypeOK, loop \in Loop, StartService
    PROVE  /\ service' \in {"up", "crashed", "stopped"} /\ image' \in Version \cup {None}
           /\ loop' \in {loop, "rest"} /\ (loop' = loop /\ loop # "rest" => plan' = plan)
           /\ plan' \in Version \cup {None} /\ failedUpdate' \in Version \cup {None}
           /\ failures' \in 0..MaxFailures /\ unstarted' \in BOOLEAN
           /\ service' = "stopped" => target \notin Startable \/ unstarted'
           /\ service' = service \/ (service # "up" /\ (service' = "up" => Whole(target)))
<1>1. failures' = failures \/ Fail
  BY DEF StartService
<1>2. failures' \in 0..MaxFailures
  BY <1>1, FailBounded DEF UpdaterTypeOK
<1> QED
  BY <1>2, UpdaterAssumption DEF StartService, UpdaterTypeOK, Loop, Whole

\* Restarts and the end of half an hour.
LEMMA ServiceSwap ==
    ASSUME Swap, Crash \/ PowerFails \/ Recover \/ CooldownEnds PROVE Swap'
<1> USE UpdaterAssumption DEF binaryVars, historyVars
<1>1. CASE Crash
  <2>1. failures' \in 0..MaxFailures
    BY <1>1, FailBounded DEF Crash, Swap
  <2>2. UpdaterTypeOK' /\ loop' \in Loop
    BY <1>1, <2>1 DEF Crash, End, Swap, UpdaterTypeOK, HelperSteps, File, Loop
  <2>3. SwapInv'
    BY <1>1 DEF Crash, End, Swap, SwapInv, InstalledIsVerified, Whole, ImageInv, WholeInv, InUse
  <2> QED
    BY <2>2, <2>3 DEF Swap
<1>2. CASE PowerFails
  <2>1. /\ service' \in {"up", "stopped"} /\ image' \in Version \cup {None}
        /\ mapped' = "target" /\ loop' = "rest" /\ plan' = None /\ failedUpdate' = None
        /\ service' = "stopped" => target \notin Startable
        /\ unstarted' = FALSE /\ (service' = "up" => Whole(target))
    BY <1>2, StartType DEF PowerFails, Swap
  <2>2. failures' \in 0..MaxFailures
    BY <1>2, FailBounded DEF PowerFails, Swap
  <2>3. UpdaterTypeOK' /\ loop' \in Loop
    BY <1>2, <2>1, <2>2 DEF PowerFails, SwapOver, Swap, UpdaterTypeOK, HelperSteps, File, Loop
  <2>4. SwapInv'
    BY <1>2, <2>1
    DEF PowerFails, SwapOver, Swap, SwapInv, InstalledIsVerified, Whole, ImageInv, WholeInv, InUse
  <2> QED
    BY <2>3, <2>4 DEF Swap
<1>3. CASE Recover
  <2>1. /\ service' \in {"up", "stopped"} /\ image' \in Version \cup {None}
        /\ mapped' = "target" /\ loop' = "rest" /\ plan' = None /\ failedUpdate' = None
        /\ service' = "stopped" => target \notin Startable
        /\ unstarted' = FALSE /\ (service' = "up" => Whole(target))
    BY <1>3, StartType DEF Recover, Swap
  <2>2. UNCHANGED <<desired, target, old, staged, helper, failures, unapplied, cut, setbacks>>
    BY <1>3 DEF Recover
  <2>3. UpdaterTypeOK' /\ loop' \in Loop
    <3>1. loop' \in Loop
      BY <2>1 DEF Loop
    <3>2. UpdaterTypeOK'
      BY <2>1, <2>2 DEF Swap, UpdaterTypeOK, File
    <3> QED
      BY <3>1, <3>2
  <2>4. SwapInv'
    BY <1>3, <2>1
    DEF Recover, Swap, SwapInv, InstalledIsVerified, Whole, ImageInv, WholeInv, InUse
  <2> QED
    BY <2>3, <2>4 DEF Swap
<1>4. CASE CooldownEnds
  <2>1. UpdaterTypeOK' /\ loop' \in Loop
    BY <1>4 DEF CooldownEnds, Swap, UpdaterTypeOK, HelperSteps, File
  <2>2. SwapInv'
    BY <1>4 DEF CooldownEnds, Swap, SwapInv, InstalledIsVerified, Whole, ImageInv, WholeInv, InUse
  <2> QED
    BY <2>1, <2>2 DEF Swap
<1> QED
  BY <1>1, <1>2, <1>3, <1>4

\* The helper.
LEMMA HelpingSwap == ASSUME Swap, ApplyUpdate PROVE Swap'
<1> USE UpdaterAssumption DEF binaryVars, historyVars, serviceVars, Helper
<1>1. CASE StopService
  <2>1. failures' \in 0..MaxFailures
    BY <1>1, FailBounded DEF StopService, Swap, UpdaterTypeOK
  <2>2. UpdaterTypeOK' /\ loop' \in Loop
    BY <1>1, <2>1 DEF StopService, End, Swap, UpdaterTypeOK, HelperSteps, File, Loop
  <2>3. SwapInv'
    BY <1>1
    DEF StopService, End, Swap, SwapInv, InstalledIsVerified, Whole, ImageInv, WholeInv,
        InUse
  <2> QED
    BY <2>2, <2>3 DEF Swap
<1>2. CASE killImage
  <2>1. failures' \in 0..MaxFailures
    BY <1>2, FailBounded DEF killImage, Swap, UpdaterTypeOK
  <2>2. UpdaterTypeOK' /\ loop' \in Loop
    BY <1>2, <2>1 DEF killImage, End, Swap, UpdaterTypeOK, HelperSteps, File, Loop
  <2>3. SwapInv'
    BY <1>2
    DEF killImage, End, Swap, UpdaterTypeOK, SwapInv, InstalledIsVerified, Whole, ImageInv,
        WholeInv, InUse
  <2> QED
    BY <2>2, <2>3 DEF Swap
<1>3. CASE SetAside
  <2>1. failures' \in 0..MaxFailures
    BY <1>3, FailBounded DEF SetAside, Swap, UpdaterTypeOK
  <2>2. UpdaterTypeOK' /\ loop' \in Loop
    BY <1>3, <2>1 DEF SetAside, Setback, InUse, Swap, UpdaterTypeOK, HelperSteps, File, Loop
  <2>3. SwapInv'
    BY <1>3
    DEF SetAside, Setback, InUse, Swap, UpdaterTypeOK, SwapInv, InstalledIsVerified, Whole,
        ImageInv, WholeInv, InUse
  <2> QED
    BY <2>2, <2>3 DEF Swap
<1>4. CASE StartCopy
  <2>1. UpdaterTypeOK' /\ loop' \in Loop
    BY <1>4 DEF StartCopy, Swap, UpdaterTypeOK, HelperSteps, File, SwapInv
  <2>2. SwapInv'
    BY <1>4
    DEF StartCopy, Swap, UpdaterTypeOK, SwapInv, InstalledIsVerified, Whole, ImageInv,
        WholeInv, InUse
  <2> QED
    BY <2>1, <2>2 DEF Swap
<1>5. CASE FinishCopy
  <2>1. UpdaterTypeOK' /\ loop' \in Loop
    BY <1>5 DEF FinishCopy, Swap, UpdaterTypeOK, HelperSteps, File, SwapInv
  <2>2. SwapInv'
    BY <1>5
    DEF FinishCopy, Swap, UpdaterTypeOK, SwapInv, InstalledIsVerified, Whole, ImageInv,
        WholeInv, InUse
  <2> QED
    BY <2>1, <2>2 DEF Swap
<1>6. CASE CopyFails
  <2>1. failures' \in 0..MaxFailures
    BY <1>6, FailBounded DEF CopyFails, Swap, UpdaterTypeOK
  <2>2. staged \in Version
    BY <1>6 DEF CopyFails, Swap, SwapInv
  <2>3. UpdaterTypeOK' /\ loop' \in Loop
    BY <1>6, <2>1, <2>2 DEF CopyFails, Setback, Swap, UpdaterTypeOK, HelperSteps, File, Loop
  <2>4. SwapInv'
    BY <1>6
    DEF CopyFails, Setback, Swap, UpdaterTypeOK, SwapInv, InstalledIsVerified, Whole,
        ImageInv, WholeInv, InUse
  <2> QED
    BY <2>3, <2>4 DEF Swap
<1>7. CASE Restore
  <2>1. failures' \in 0..MaxFailures
    BY <1>7, FailBounded DEF Restore, Swap, UpdaterTypeOK
  <2>2. UpdaterTypeOK' /\ loop' \in Loop
    BY <1>7, <2>1 DEF Restore, CanMoveBack, Setback, Swap, UpdaterTypeOK, HelperSteps, File, Loop
  <2>3. SwapInv'
    BY <1>7
    DEF Restore, CanMoveBack, Setback, Swap, UpdaterTypeOK, SwapInv, InstalledIsVerified,
        Whole, ImageInv, WholeInv, InUse
  <2> QED
    BY <2>2, <2>3 DEF Swap
<1>8. CASE StartOld
  <2>1. StartService
    BY <1>8 DEF StartOld
  <2>2. UpdaterTypeOK' /\ loop' \in Loop
    BY <1>8, <2>1, StartServiceType
    DEF StartOld, SwapOver, Swap, UpdaterTypeOK, HelperSteps, File, Loop, HelperSteps
  <2>3. ImageInv'
    BY <1>8, <2>1, StartServiceType
    DEF StartOld, Swap, SwapInv, ImageInv, InUse, Whole
  <2>4. SwapInv'
    BY <1>8, <2>1, <2>3, StartServiceType
    DEF StartOld, SwapOver, Swap, UpdaterTypeOK, SwapInv, InstalledIsVerified, Whole, WholeInv
  <2> QED
    BY <2>2, <2>4 DEF Swap
<1>9. CASE StartNew
  <2>1. StartService
    BY <1>9 DEF StartNew
  <2>2. UpdaterTypeOK' /\ loop' \in Loop
    BY <1>9, <2>1, StartServiceType
    DEF StartNew, SwapOver, Swap, UpdaterTypeOK, HelperSteps, File, Loop, HelperSteps
  <2>3. ImageInv'
    BY <1>9, <2>1, StartServiceType
    DEF StartNew, Swap, SwapInv, ImageInv, InUse, Whole
  <2>4. SwapInv'
    BY <1>9, <2>1, <2>3, StartServiceType
    DEF StartNew, SwapOver, Swap, UpdaterTypeOK, SwapInv, InstalledIsVerified, Whole, WholeInv
  <2> QED
    BY <2>2, <2>4 DEF Swap
<1> QED
  BY <1>1, <1>2, <1>3, <1>4, <1>5, <1>6, <1>7, <1>8, <1>9 DEF ApplyUpdate

-----------------------------------------------------------------------------
(* The sound.                                                              *)

LEMMA SoundType ==
    ASSUME NEW s \in Sound PROVE s.second \in Nat /\ s.second <= MaxSecond /\ s # NoSound
BY SoundAssumption DEF Sound

\* Where the loop stands matters to the sound only between its download and its record.
LEMMA SameSound ==
    ASSUME Sync, UNCHANGED <<soundVars, answered>>, loop' # "record" \/ loop = "record"
    PROVE  Sync'
BY DEF Sync, SoundTypeOK, SoundInv, NotNewer, Uploaded, soundVars

LEMMA ReloadSync == ASSUME Sync, Reload, loop' # "record" PROVE Sync'
BY DEF Sync, SoundTypeOK, SoundInv, NotNewer, Uploaded, Reload, ReloadSound

LEMMA ChangeSync == ASSUME Sync, ChangeSound PROVE Sync'
<1>0. loop' = loop /\ answered' = answered
  BY DEF ChangeSound, updaterVars, serviceVars
<1>1. CASE RemoveSound
  BY <1>0, <1>1 DEF RemoveSound, Sync, SoundTypeOK, SoundInv, NotNewer, Uploaded
<1>2. ASSUME NEW size \in Sizes, UploadSound(size) PROVE Sync'
  <2>1. second \in Nat /\ second' = second + 1 /\ second' \in 1..MaxSecond
    BY <1>2, SoundAssumption DEF UploadSound, Sync, SoundTypeOK
  <2>2. sound' \in Sound /\ sound'.second = second'
    BY <1>2, <2>1 DEF UploadSound, Sound
  <2>3. \A s \in Sound \cup {NoSound} :
           Uploaded(s) /\ s # NoSound => s.second <= second'
    BY <2>1, SoundType DEF Uploaded
  <2>4. SoundTypeOK' /\ answered' \in Sound \cup {NoSound}
    BY <1>0, <1>2, <2>1, <2>2 DEF UploadSound, Sync, SoundTypeOK
  <2>5. SoundInv'
    BY <1>0, <1>2, <2>2, <2>3
    DEF UploadSound, Sync, SoundTypeOK, SoundInv, NotNewer, Uploaded
  <2> QED
    BY <2>4, <2>5 DEF Sync
<1> QED
  BY <1>1, <1>2 DEF ChangeSound

\* The steps of syncWarningSound, and the loss of its copy.
LEMMA SoundSync ==
    ASSUME Sync,
           \/ PollAnswered \/ SoundIsCurrent \/ SoundIsCleared \/ StartSound
           \/ SoundArrived \/ SoundRecorded \/ SoundFails \/ CopyLost
    PROVE  Sync'
<1> USE DEF SyncSound, Advance
<1>1. CASE PollAnswered
  BY <1>1, SoundType
  DEF PollAnswered, Sync, SoundTypeOK, SoundInv, NotNewer, Uploaded, soundVars
<1>2. CASE SoundIsCurrent
  BY <1>2 DEF SoundIsCurrent, Sync, SoundTypeOK, SoundInv, NotNewer, Uploaded, soundVars
<1>3. CASE SoundIsCleared
  <2>1. loop' # "record" /\ answered' = NoSound
    BY <1>3 DEF SoundIsCleared, AfterSave
  <2>2. PICK saved \in BOOLEAN : ClearSound(saved)
    BY <1>3 DEF SoundIsCleared
  <2> QED
    BY <2>1, <2>2
    DEF ClearSound, SaveVersion, Sync, SoundTypeOK, SoundInv, NotNewer, Uploaded
<1>4. CASE StartSound
  BY <1>4 DEF StartSound, Sync, SoundTypeOK, SoundInv, NotNewer, Uploaded, soundVars
<1>5. CASE SoundArrived
  BY <1>5, SoundType
  DEF SoundArrived, StoreSound, Sync, SoundTypeOK, SoundInv, NotNewer, Uploaded
<1>6. CASE SoundRecorded
  <2>1. loop = "record" /\ loop' # "record" /\ answered' = NoSound
    BY <1>6 DEF SoundRecorded, AfterSave
  <2>2. PICK saved \in BOOLEAN : RecordSound(answered, saved)
    BY <1>6 DEF SoundRecorded
  <2> QED
    BY <2>1, <2>2
    DEF RecordSound, SaveVersion, Sync, SoundTypeOK, SoundInv, NotNewer, Uploaded
<1>7. CASE SoundFails
  BY <1>7 DEF SoundFails, GiveUp, Sync, SoundTypeOK, SoundInv, NotNewer, Uploaded, soundVars
<1>8. CASE CopyLost
  BY <1>8
  DEF CopyLost, LoseCopy, serviceVars, Sync, SoundTypeOK, SoundInv, NotNewer, Uploaded
<1> QED
  BY <1>1, <1>2, <1>3, <1>4, <1>5, <1>6, <1>7, <1>8

-----------------------------------------------------------------------------
(* Every step.                                                             *)

LEMMA SameSwap == ASSUME Swap, UNCHANGED updaterVars PROVE Swap'
BY DEF Swap, UpdaterTypeOK, SwapInv, InstalledIsVerified, Whole, ImageInv, WholeInv, InUse,
       updaterVars, serviceVars, binaryVars, historyVars

\* The poll and the sound, to the updater.
LEMMA SoundSwap ==
    ASSUME IInv,
           \/ PollAnswered \/ SoundIsCurrent \/ SoundIsCleared \/ StartSound
           \/ SoundArrived \/ SoundRecorded \/ SoundFails
    PROVE  Swap'
<1> DEFINE To == {"rest", "sync", "download", "record", "update"}
<1>1. UpdaterTypeOK
  BY DEF IInv, Swap
<1>2. \E from \in Loop, to \in To : Advance(from, to)
  BY DEF PollAnswered, SoundIsCurrent, SoundIsCleared, StartSound, SoundArrived,
         SoundRecorded, SoundFails, SyncSound, GiveUp, AfterSave, Loop
<1>3. plan' \in Version \cup {None}
  BY <1>1 DEF PollAnswered, SoundIsCurrent, SoundIsCleared, StartSound, SoundArrived,
              SoundRecorded, SoundFails, SyncSound, Advance, UpdaterTypeOK
<1>4. failures' = failures \/ Fail
  BY DEF PollAnswered, SoundIsCurrent, SoundIsCleared, StartSound, SoundArrived,
         SoundRecorded, SoundFails, Saving
<1>5. failures' \in 0..MaxFailures
  BY <1>1, <1>4, FailBounded DEF UpdaterTypeOK
<1> QED
  BY <1>2, <1>3, <1>5, AdvanceSwap DEF IInv

LEMMA NextInv == IInv /\ [Next]_upkeepVars => IInv'
<1> SUFFICES ASSUME IInv, [Next]_upkeepVars PROVE IInv'
  OBVIOUS
<1> USE DEF IInv
<1>1. CASE SelectVersion
  <2>1. Swap'
    BY <1>1 DEF SelectVersion, Select, Swap, UpdaterTypeOK, SwapInv, InstalledIsVerified,
                Whole, ImageInv, WholeInv, InUse, serviceVars, binaryVars, historyVars
  <2>2. Sync'
    BY <1>1, SameSound DEF SelectVersion, Select, serviceVars
  <2> QED
    BY <1>1, <2>1, <2>2 DEF SelectVersion
<1>2. CASE ChangeSound
  BY <1>2, ChangeSync, SameSwap DEF ChangeSound
<1>3. CASE CopyLost
  <2>1. failures' \in 0..MaxFailures
    BY <1>3, FailBounded DEF CopyLost, Swap
  <2>2. Swap'
    BY <1>3, <2>1
    DEF CopyLost, Swap, UpdaterTypeOK, SwapInv, InstalledIsVerified, Whole, ImageInv,
        WholeInv, InUse,
                      serviceVars, binaryVars, historyVars
  <2> QED
    BY <1>3, <2>2, SoundSync DEF CopyLost
<1>4. CASE Decide \/ AgentAsks
  <2>1. UNCHANGED <<updaterVars, soundVars, answered>>
    BY <1>4 DEF Decide, AgentAsks
  <2>2. Sync'
    BY <2>1, SameSound DEF updaterVars, serviceVars
  <2> QED
    BY <1>4, <2>1, <2>2, SameSwap DEF Decide, AgentAsks
<1>5. CASE \/ PollAnswered \/ SoundIsCurrent \/ SoundIsCleared \/ StartSound
           \/ SoundArrived \/ SoundRecorded \/ SoundFails
  <2>1. decision' \in {"told", "decided", "applied"}
    BY <1>5 DEF PollAnswered, SoundIsCurrent, SoundIsCleared, StartSound, SoundArrived,
                SoundRecorded, SoundFails, SyncSound
  <2> QED
    BY <1>5, <2>1, SoundSync, SoundSwap
<1>6. CASE Update
  <2>1. loop' # "record"
    BY <1>6 DEF Update, MaybeUpdate, StartDownload, FinishDownload, DownloadFails,
                LaunchDetached, GoOn
  <2> QED
    BY <1>6, <2>1, UpdateSwap, SameSound DEF Update
<1>7. CASE ServiceDies \/ ServiceRecovers
  <2>1. loop' # "record"
    BY <1>7 DEF ServiceDies, ServiceRecovers, Crash, End, PowerFails, Recover, Start
  <2> QED
    BY <1>7, <2>1, ServiceSwap, ReloadSync DEF ServiceDies, ServiceRecovers
<1>8. CASE Helping
  <2>1. loop' # "record" \/ (loop = "record" /\ service' = service)
    BY <1>8 DEF Helping, ApplyUpdate, StopService, killImage, SetAside, StartCopy,
                FinishCopy, CopyFails, Restore, StartOld, StartNew, StartService, End, serviceVars
  <2>2. Sync'
    BY <1>8, <2>1, SameSound, ReloadSync DEF Helping
  <2> QED
    BY <1>8, <2>2, HelpingSwap DEF Helping
<1>9. CASE Cooling
  <2>1. loop' = loop
    BY <1>9 DEF Cooling, CooldownEnds
  <2> QED
    BY <1>9, <2>1, ServiceSwap, SameSound DEF Cooling
<1>10. CASE UNCHANGED upkeepVars
  <2>1. UNCHANGED <<updaterVars, soundVars, answered, decision>>
    BY <1>10 DEF upkeepVars
  <2>2. Sync'
    BY <2>1, SameSound DEF updaterVars, serviceVars
  <2> QED
    BY <2>1, <2>2, SameSwap
<1> QED
  BY <1>1, <1>2, <1>3, <1>4, <1>5, <1>6, <1>7, <1>8, <1>9, <1>10 DEF Next, PollOnce

THEOREM InvAlways == Spec => []IInv
<1> QED
  BY InitInv, NextInv, PTL DEF Spec

\* Every variable keeps its type.
THEOREM TypeCorrect == Spec => []TypeOK
<1>1. IInv => TypeOK
  BY DEF IInv, Swap, Sync, TypeOK, Loop
<1> QED
  BY <1>1, InvAlways, PTL

\* Only verified binaries are installed or kept to return to.
THEOREM OnlyVerifiedIsInstalled == Spec => []InstalledIsVerified
<1>1. IInv => InstalledIsVerified
  BY DEF IInv, Swap, SwapInv
<1> QED
  BY <1>1, InvAlways, PTL

\* However many failures there are and whoever restarts the service meanwhile, a helper
\* that is gone leaves a whole binary unless two of its renames and its copy failed, and
\* a service that is stopped only if the binary does not run or sc start failed; unless
\* the power was cut during a swap.
THEOREM NeverLeftWithoutService == Spec => []NeverLeftDown
<1>1. IInv => NeverLeftDown
  BY DEF IInv, Swap, SwapInv, WholeInv, NeverLeftDown, Whole
<1> QED
  BY <1>1, InvAlways, PTL

\* The record of the sound never runs ahead of its copy.
THEOREM RecordNeverAhead == Spec => []SoundNotOlder
<1>1. IInv => SoundNotOlder
  <2> SUFFICES ASSUME IInv, recorded # NoSound, cached # NoSound
               PROVE  cached.second >= recorded.second
    BY DEF SoundNotOlder
  <2>1. recorded \in Sound /\ cached \in Sound
    BY DEF IInv, Sync, SoundTypeOK
  <2>2. recorded.second <= cached.second
    BY DEF IInv, Sync, SoundInv, NotNewer
  <2> QED
    BY <2>1, <2>2, SoundType
<1> QED
  BY <1>1, InvAlways, PTL

=============================================================================
