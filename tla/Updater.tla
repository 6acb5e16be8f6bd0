------------------------------ MODULE Updater ------------------------------
(***************************************************************************)
(* How the Windows service replaces its own binary.  The poll loop         *)
(* downloads the release the server asks for to a staged file, verifies it *)
(* and starts it as a helper; the helper stops the service, moves the      *)
(* installed binary aside, copies the staged one into its place and starts *)
(* the service again.  Meanwhile the service may crash and be restarted by *)
(* the service control manager, and the power may fail.                    *)
(*                                                                         *)
(* Windows lets nobody write or delete a file that a process runs from,    *)
(* but it may be renamed: the staged file is protected while the helper    *)
(* runs, the installed one and the old one while the service does.         *)
(* ApplyUpdate looks at no error but copyFile's, and goes on.              *)
(*                                                                         *)
(* The actions constrain the variables of this module only; Upkeep puts    *)
(* them together with the rest of the poll loop.                           *)
(***************************************************************************)
EXTENDS Naturals

CONSTANTS
    Version,     \* releases an admin may select
    Intact,      \* those whose asset has the checksum the admin registered
    Startable,   \* those whose service runs
    InitVersion, \* the one that is installed first
    MaxFailures, \* bound on failures of every kind
    None

ASSUME UpdaterAssumption ==
    /\ Intact \subseteq Version
    /\ Startable \subseteq Version
    /\ InitVersion \in Intact \cap Startable
    /\ None \notin Version
    /\ "partial" \notin Version
    /\ MaxFailures \in Nat

VARIABLES
    desired,      \* the version the server asks for, or None
    service,      \* "up", "crashed": about to be restarted, or "stopped"
    image,        \* the binary the service process runs, or None
    mapped,       \* the file it runs from: "target" or "old"
    target,       \* rootaika.exe: a version, "partial" or None
    old,          \* rootaika.exe.old
    staged,       \* rootaika.update.exe
    loop,         \* where the poll loop is
    plan,         \* the version the answer being worked on asks for
    failedUpdate, \* the version that is on its cooldown, or None
    helper,       \* where the apply-update helper is
    failures,     \* failures so far
    unapplied,    \* history: the version whose swap failed a short time ago
    cut,          \* history: the power failed during a swap
    setbacks,     \* history: failed renames and copies of swaps that left no whole binary
    unstarted     \* history: the last sc start of a service that was down failed

binaryVars == <<target, old, staged>>
serviceVars == <<service, image, mapped, loop, plan, failedUpdate>>
historyVars == <<unapplied, cut, setbacks, unstarted>>
updaterVars == <<desired, serviceVars, binaryVars, helper, failures, historyVars>>

File == Version \cup {"partial", None}

UpdateSteps == {"update", "fetch", "stream", "launch"}

HelperSteps == {"none", "stop", "kill", "rename", "copy", "copying", "back", "restart", "start"}

UpdaterTypeOK ==
    /\ desired \in Version \cup {None}
    /\ service \in {"up", "crashed", "stopped"}
    /\ image \in Version \cup {None}
    /\ mapped \in {"target", "old"}
    /\ target \in File /\ old \in File /\ staged \in File
    /\ plan \in Version \cup {None}
    /\ failedUpdate \in Version \cup {None}
    /\ helper \in HelperSteps
    /\ failures \in 0..MaxFailures
    /\ unapplied \in Version \cup {None}
    /\ cut \in BOOLEAN /\ setbacks \in Nat /\ unstarted \in BOOLEAN

UpdaterInit ==
    /\ desired = None
    /\ service = "up" /\ image = InitVersion /\ mapped = "target"
    /\ target = InitVersion /\ old = None /\ staged = None
    /\ loop = "rest" /\ plan = None /\ failedUpdate = None
    /\ helper = "none"
    /\ failures = 0
    /\ unapplied = None /\ cut = FALSE /\ setbacks = 0 /\ unstarted = FALSE

Fail == failures < MaxFailures /\ failures' = failures + 1

InUse(file) == service = "up" /\ mapped = file
Whole(file) == file \in Version

\* The admin selects a version, or none.
Select(v) ==
    /\ desired' = v
    /\ UNCHANGED <<serviceVars, binaryVars, helper, failures, historyVars>>

-----------------------------------------------------------------------------
(* maybeUpdate, in the poll loop.                                          *)

\* The plan is pollOnce's own: it goes when the round is over.
GoOn(step) ==
    /\ loop' = step
    /\ plan' = IF step = "rest" THEN None ELSE plan
    /\ UNCHANGED <<desired, service, image, mapped>>

NeedsUpdate == plan # None /\ plan # image
OnCooldown == failedUpdate = plan

MaybeUpdate ==
    /\ service = "up" /\ loop = "update"
    /\ GoOn(IF NeedsUpdate /\ ~OnCooldown THEN "fetch" ELSE "rest")
    /\ UNCHANGED <<failedUpdate, binaryVars, helper, failures, historyVars>>

\* fetch has an answer and streamToFile truncates the staged file.
StartDownload ==
    /\ service = "up" /\ loop = "fetch"
    /\ helper = "none"
    /\ GoOn("stream")
    /\ staged' = "partial"
    /\ UNCHANGED <<failedUpdate, target, old, helper, failures, historyVars>>

\* Mutant: whatever arrives is used.
Accepted(v) == TRUE

\* The checksum matches.
Verified(v) == v \in Intact

FinishDownload ==
    /\ service = "up" /\ loop = "stream"
    /\ Verified(plan)
    /\ GoOn("launch")
    /\ staged' = plan
    /\ UNCHANGED <<failedUpdate, target, old, helper, failures, historyVars>>

\* Every attempt failed, the transfer broke off, the checksum is wrong, or the
\* staged file is in use by a helper that still runs.  os.Remove fails on that one.
DownloadFails ==
    /\ service = "up" /\ loop \in {"fetch", "stream"}
    /\ \/ Fail
       \/ /\ \/ loop = "stream" /\ ~Verified(plan)
             \/ loop = "fetch" /\ helper # "none"
          /\ UNCHANGED failures
    /\ GoOn("rest")
    /\ failedUpdate' = plan
    /\ staged' = IF loop = "stream" THEN None ELSE staged
    /\ UNCHANGED <<target, old, helper, historyVars>>

\* The poll loop goes on: nothing waits for the helper.
LaunchDetached ==
    /\ service = "up" /\ loop = "launch"
    /\ GoOn("rest")
    /\ \/ helper' = "stop" /\ UNCHANGED <<failedUpdate, failures>>
       \/ Fail /\ failedUpdate' = plan /\ UNCHANGED helper
    /\ UNCHANGED <<binaryVars, historyVars>>

\* Mutant: a version that failed is never tried again.
CooldownStays ==
    /\ unapplied # None
    /\ unapplied' = None
    /\ UNCHANGED <<desired, serviceVars, binaryVars, helper, failures, cut, setbacks, unstarted>>

\* The cooldown of half an hour is over.
CooldownEnds ==
    /\ failedUpdate # None \/ unapplied # None
    /\ failedUpdate' = None /\ unapplied' = None
    /\ UNCHANGED <<desired, service, image, mapped, loop, plan, binaryVars, helper,
                   failures, cut, setbacks, unstarted>>

-----------------------------------------------------------------------------
(* The service process.                                                    *)

\* Mutant: the installed binary is started whatever there is of it.
StartAnyhow ==
    /\ service' = "up" /\ image' = target
    /\ mapped' = "target"
    /\ loop' = "rest" /\ plan' = None /\ failedUpdate' = None /\ unstarted' = FALSE

\* It starts from the installed binary, or does not when that is not whole.
Start ==
    /\ IF target \in Startable
       THEN service' = "up" /\ image' = target
       ELSE service' = "stopped" /\ image' = None
    /\ mapped' = "target"
    /\ loop' = "rest" /\ plan' = None /\ failedUpdate' = None /\ unstarted' = FALSE

\* It ends, and with it what it had in memory.
End(state) ==
    /\ service' = state
    /\ image' = None /\ mapped' = "target"
    /\ loop' = "rest" /\ plan' = None /\ failedUpdate' = None

Crash ==
    /\ service = "up"
    /\ Fail
    /\ End("crashed")
    /\ UNCHANGED <<desired, binaryVars, helper, historyVars>>

\* The recovery action install.ps1 registers, five seconds after a crash.
Recover ==
    /\ service = "crashed"
    /\ Start
    /\ UNCHANGED <<desired, binaryVars, helper, failures, unapplied, cut, setbacks>>

\* Nothing that failed is held against a swap once the binary is whole.
SwapOver == setbacks' = IF Whole(target) THEN 0 ELSE setbacks

PowerFails ==
    /\ Fail
    /\ Start
    /\ helper' = "none"
    /\ cut' = (cut \/ ~Whole(target))
    /\ SwapOver
    /\ UNCHANGED <<desired, binaryVars, unapplied>>

-----------------------------------------------------------------------------
(* ApplyUpdate, in the helper.                                             *)

Helper(from, to) == helper = from /\ helper' = to

\* sc stop, and the wait for the service to report that it has stopped.
StopService ==
    /\ Helper("stop", "kill")
    /\ \/ service = "up" /\ End("stopped") /\ UNCHANGED failures
       \/ service # "up" /\ UNCHANGED <<serviceVars, failures>>
       \/ Fail /\ UNCHANGED serviceVars       \* it did not stop within 30 seconds
    /\ UNCHANGED <<desired, binaryVars, historyVars>>

\* taskkill ends every rootaika.exe: the agents, and a service that runs still or
\* again, for which that is a crash.
killImage ==
    /\ Helper("kill", "rename")
    /\ \/ service = "up" /\ End("crashed") /\ UNCHANGED failures
       \/ service # "up" /\ UNCHANGED <<serviceVars, failures>>
       \/ Fail /\ UNCHANGED serviceVars
    /\ UNCHANGED <<desired, binaryVars, historyVars>>

\* A rename or the copy fails.
Setback == setbacks' = setbacks + 1

\* os.Remove of an old binary and os.Rename of the installed one to its place; a
\* service that was restarted in the meantime may run from either.  When the rename
\* fails the copy goes to the installed binary itself.
SetAside ==
    /\ Helper("rename", "copy")
    /\ \/ /\ target # None /\ ~InUse("old")
          /\ old' = target /\ target' = None
          /\ mapped' = IF InUse("target") THEN "old" ELSE mapped
          /\ UNCHANGED <<failures, setbacks>>
       \/ /\ target = None \/ InUse("old")
          /\ old' = IF InUse("old") THEN old ELSE None
          /\ UNCHANGED <<mapped, target, failures, setbacks>>
       \/ /\ Fail /\ Setback
          /\ old' \in IF InUse("old") THEN {old} ELSE {old, None}
          /\ UNCHANGED <<mapped, target>>
    /\ UNCHANGED <<desired, service, image, loop, plan, failedUpdate, staged, unapplied, cut,
                   unstarted>>

\* copyFile truncates what is there.
StartCopy ==
    /\ Helper("copy", "copying")
    /\ ~InUse("target")
    /\ target' = "partial"
    /\ UNCHANGED <<desired, serviceVars, old, staged, failures, historyVars>>

FinishCopy ==
    /\ Helper("copying", "start")
    /\ target' = staged
    /\ UNCHANGED <<desired, serviceVars, old, staged, failures, historyVars>>

\* It cannot open, read or write a file.  Nobody records that the update failed.
CopyFails ==
    /\ \/ Helper("copy", "back") /\ InUse("target") /\ UNCHANGED failures
       \/ Helper("copy", "back") /\ Fail
       \/ Helper("copying", "back") /\ Fail
    /\ Setback
    /\ unapplied' = staged
    /\ UNCHANGED <<desired, serviceVars, binaryVars, cut, unstarted>>

\* Mutant: the old binary is not moved back.
NothingBack == FALSE

CanMoveBack == old # None /\ ~InUse("target")

\* os.Rename of the old binary over what the copy has left.
Restore ==
    /\ Helper("back", "restart")
    /\ \/ /\ CanMoveBack
          /\ target' = old /\ old' = None
          /\ mapped' = "target"
          /\ UNCHANGED <<failures, setbacks>>
       \/ /\ ~CanMoveBack
          /\ UNCHANGED <<mapped, target, old, failures, setbacks>>
       \/ /\ CanMoveBack /\ Fail /\ Setback
          /\ UNCHANGED <<mapped, target, old>>
    /\ UNCHANGED <<desired, service, image, loop, plan, failedUpdate, staged, unapplied, cut,
                   unstarted>>

\* sc start does nothing when the service is up, and it may fail.
StartService ==
    \/ /\ service = "up"
       /\ UNCHANGED <<service, image, loop, plan, failedUpdate, failures, unstarted>>
    \/ /\ service # "up"
       /\ IF target \in Startable
          THEN service' = "up" /\ image' = target
          ELSE service' = "stopped" /\ image' = None
       /\ loop' = "rest" /\ plan' = None /\ failedUpdate' = None
       /\ unstarted' = FALSE
       /\ UNCHANGED failures
    \/ /\ service # "up" /\ Fail
       /\ unstarted' = TRUE
       /\ UNCHANGED <<service, image, loop, plan, failedUpdate>>

StartOld ==
    /\ Helper("restart", "none")
    /\ StartService
    /\ SwapOver
    /\ UNCHANGED <<desired, mapped, binaryVars, unapplied, cut>>

\* The cleanup cannot remove the staged file, from which the helper itself runs, nor
\* an old one that is in use, or locked for some other reason.
StartNew ==
    /\ Helper("start", "none")
    /\ StartService
    /\ SwapOver
    /\ old' \in IF InUse("old") THEN {old} ELSE {old, None}
    /\ UNCHANGED <<desired, mapped, target, staged, unapplied, cut>>

ApplyUpdate ==
    \/ StopService \/ killImage \/ SetAside \/ StartCopy \/ FinishCopy \/ CopyFails
    \/ Restore \/ StartOld \/ StartNew

-----------------------------------------------------------------------------
(* Safety.                                                                 *)

\* Every whole binary that is installed, or kept to return to, was verified: a download
\* that was exchanged or broke off is never what the helper copies, although polls go on
\* while it reads the staged file.  What a copy leaves half-way is NeverLeftDown's.
InstalledIsVerified == \A file \in {target, old} : Whole(file) => file \in Intact

\* ApplyUpdate, which ignores most errors: it takes two to leave the device without a
\* whole binary.  When the helper is gone the installed one is whole unless two of the
\* swap's renames and its copy failed, or the power was cut in the middle; and the
\* service is stopped only if the binary does not run or sc start itself failed,
\* whenever the service control manager tried to restart the service in between.
NeverLeftDown ==
    helper = "none" /\ ~cut =>
        /\ Whole(target) \/ setbacks >= 2
        /\ service = "stopped" => target \notin Startable \/ unstarted

\* README.md: "A failed version is not retried for 30 minutes", and the comment on
\* stateStore: "the last OTA version that failed to download/apply".
FailedNotRetried ==
    [][loop = "update" /\ loop' = "fetch" => plan \notin {failedUpdate, unapplied}]_updaterVars

=============================================================================
