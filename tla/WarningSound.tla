---------------------------- MODULE WarningSound ----------------------------
(***************************************************************************)
(* The sound that warns of a lock: one file the admin uploads to the       *)
(* server, and a copy of it on the device.  Files are told apart by a      *)
(* version, which the server derives from the size of its file and the     *)
(* second it was written in, and which the device keeps in client.json     *)
(* beside its copy.                                                        *)
(*                                                                         *)
(* The actions constrain the variables of this module only; Upkeep gives   *)
(* them their places in the poll loop.                                     *)
(***************************************************************************)
EXTENDS Naturals

CONSTANTS
    Sizes,      \* sizes an uploaded file may have
    MaxSecond,  \* bound on the uploads, each in a second of its own
    NoSound     \* no file; the empty version

Sound == [size : Sizes, second : 1..MaxSecond]

ASSUME SoundAssumption ==
    /\ Sizes \subseteq Nat
    /\ MaxSecond \in Nat
    /\ NoSound \notin Sound

VARIABLES
    second,     \* the second of the newest upload
    sound,      \* warning.mp3 on the server: its size and its second
    cached,     \* the copy on the device
    recorded,   \* WarningSoundVersion, in memory
    onDisk      \* WarningSoundVersion, in client.json

soundVars == <<second, sound, cached, recorded, onDisk>>

SoundTypeOK ==
    /\ second \in 0..MaxSecond
    /\ {sound, cached, recorded, onDisk} \subseteq Sound \cup {NoSound}

SoundInit ==
    /\ second = 0
    /\ sound = NoSound /\ cached = NoSound
    /\ recorded = NoSound /\ onDisk = NoSound

\* save, for adminWarningSound.  Two files of one size uploaded within one second could
\* not be told apart: here no two uploads fall into one second.
UploadSound(size) ==
    /\ second < MaxSecond
    /\ second' = second + 1
    /\ sound' = [size |-> size, second |-> second']
    /\ UNCHANGED <<cached, recorded, onDisk>>

\* Nothing in the server removes the file; the client expects that somebody may.
RemoveSound ==
    /\ sound # NoSound /\ sound' = NoSound
    /\ UNCHANGED <<second, cached, recorded, onDisk>>

-----------------------------------------------------------------------------
(* syncWarningSound, for the version the poll was answered.                *)

\* Mutant: the copy itself is not looked at.
CacheAssumed(version) == TRUE

\* warningSoundCacheCurrent: the copy is there and has the right size.
CacheCurrent(version) ==
    version # NoSound => cached # NoSound /\ cached.size = version.size

Current(version) == recorded = version /\ CacheCurrent(version)

\* config.Save, after the version in memory has changed.
SaveVersion(saved) ==
    onDisk' = IF saved THEN recorded' ELSE onDisk

\* The copy is removed, unless it is being played.
ClearSound(saved) ==
    /\ cached' \in {cached, NoSound}
    /\ recorded' = NoSound
    /\ SaveVersion(saved)
    /\ UNCHANGED <<second, sound>>

\* writeFileAtomic of what the server has now, which may be newer than what it had
\* when it answered the poll.
StoreSound ==
    /\ sound # NoSound
    /\ cached' = sound
    /\ UNCHANGED <<second, sound, recorded, onDisk>>

\* Mutant: the version is asked for once more, after the download.
RecordNewest(version, saved) ==
    /\ recorded' = sound
    /\ SaveVersion(saved)
    /\ UNCHANGED <<second, sound, cached>>

RecordSound(version, saved) ==
    /\ recorded' = version
    /\ SaveVersion(saved)
    /\ UNCHANGED <<second, sound, cached>>

\* The service starts again with what client.json has.
ReloadSound ==
    /\ recorded' = onDisk
    /\ UNCHANGED <<second, sound, cached, onDisk>>

\* Somebody removes the copy.
LoseCopy ==
    /\ cached # NoSound /\ cached' = NoSound
    /\ UNCHANGED <<second, sound, recorded, onDisk>>

\* cachedWarningSoundPath: what the agent plays.
Played == IF recorded = NoSound THEN NoSound ELSE cached

-----------------------------------------------------------------------------
(* Safety.                                                                 *)

\* The version on record is never newer than the copy it stands for, whatever is
\* uploaded between a poll's answer and the download it causes and wherever the
\* service dies: a copy that lagged behind its record would never be replaced.
SoundNotOlder ==
    recorded # NoSound /\ cached # NoSound => cached.second >= recorded.second

=============================================================================
