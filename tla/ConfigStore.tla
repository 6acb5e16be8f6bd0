---------------------------- MODULE ConfigStore ----------------------------
(***************************************************************************)
(* The part of the server's SQLite store that a device's configuration is  *)
(* computed from: the tables devices and device_config, settings,          *)
(* client_versions and program_categories, and the warning sound file      *)
(* beside them.  Every action is one statement or one transaction, which   *)
(* SQLite makes atomic.  The two rows a device owns (devices and           *)
(* device_config) are created and deleted in the same transaction, so they *)
(* are one record here.                                                    *)
(***************************************************************************)
EXTENDS Naturals

CONSTANTS
    Device,         \* client installations, named by their client_uuid
    Locks,          \* lock requests: a message and a warning countdown
    Unlocked,       \* the lock columns of an unlocked device
    BoardLock,      \* the lock request of the board button
    Tunings,        \* values of the interval settings
    InitTuning,     \* the intervals seed() installs
    SettingsForms,  \* what the settings page may submit
    VersionId,      \* ids client_versions may hand out
    Releases,       \* (version, artifact, sha256) triples
    Sounds,         \* fingerprints of warning sound files
    CategorySets,   \* contents of program_categories
    InitCategories, \* the categories of a new database
    Statuses,       \* activity states a client may report
    Builds,         \* client versions that may be running
    None            \* SQL NULL, the empty string, an absent row

LockValue == Locks \cup {Unlocked}
Selection == VersionId \cup {None}

\* devices.registration_status = 'assigned', devices.selected_version_id, the
\* interval columns and lock columns of device_config, devices.last_status and
\* devices.last_client_version.
Row == [assigned: BOOLEAN, override: Selection, tuning: Tunings,
        lock: LockValue, status: Statuses \cup {None}, build: Builds \cup {None}]

Settings == [tuning: Tunings, debug: BOOLEAN, debugUnassigned: BOOLEAN,
             selected: Selection]

\* An id of client_versions was not handed out yet, is registered as a release,
\* or was deleted; AUTOINCREMENT never hands it out again.
Registration == Releases \cup {"unused", "deleted"}

ASSUME StoreAssumption ==
    /\ Unlocked \notin Locks
    /\ BoardLock \in Locks
    /\ InitTuning \in Tunings
    /\ InitCategories \in CategorySets
    /\ SettingsForms \subseteq Settings
    /\ None \notin Device \cup VersionId \cup Releases \cup Sounds \cup Row
    /\ {"unused", "deleted"} \cap Releases = {}

VARIABLES
    devices,    \* devices[d]: the rows of d, or None before its first contact
    settings,
    registry,   \* registry[v]: what version id v stands for
    categories,
    sound       \* fingerprint of the stored warning sound, or None

storeVars == <<devices, settings, registry, categories, sound>>

StoreTypeOK ==
    /\ devices \in [Device -> Row \cup {None}]
    /\ settings \in Settings
    /\ registry \in [VersionId -> Registration]
    /\ categories \in CategorySets
    /\ sound \in Sounds \cup {None}

StoreInit ==
    /\ devices = [d \in Device |-> None]
    /\ settings = [tuning |-> InitTuning, debug |-> FALSE,
                   debugUnassigned |-> FALSE, selected |-> None]
    /\ registry = [v \in VersionId |-> "unused"]
    /\ categories = InitCategories
    /\ sound = None

-----------------------------------------------------------------------------
(* What a configuration read returns.                                      *)

Registered(d) == devices[d] # None
Assigned(d) == Registered(d) /\ devices[d].assigned

\* The rows EnsureDevice inserts for a client it has never seen.
FreshRow == [assigned |-> FALSE, override |-> None, tuning |-> settings.tuning,
             lock |-> Unlocked, status |-> None, build |-> None]

RowOf(d) == IF Registered(d) THEN devices[d] ELSE FreshRow

\* The columns of devices and of device_config that ClientConfig reads, in two
\* separate statements.
DeviceParts == [assigned: BOOLEAN, override: Selection]
ConfigParts == [tuning: Tunings, lock: LockValue]
DevicePart(d) == [assigned |-> RowOf(d).assigned, override |-> RowOf(d).override]
ConfigPart(d) == [tuning |-> RowOf(d).tuning, lock |-> RowOf(d).lock]

\* The device's override, else the global selection.
SelectedId(dev, set) == IF dev.override # None THEN dev.override ELSE set.selected

\* A selection of nothing, or of a deleted record, offers no update.
Resolve(id) ==
    IF id \in VersionId /\ registry[id] \in Releases THEN registry[id] ELSE None

\* A ClientConfig, assembled from the parts that were read.
ConfigOf(dev, cfg, set, cats, rel, snd) ==
    [tuning |-> cfg.tuning, lock |-> cfg.lock, gap |-> set.tuning,
     debug |-> set.debug \/ (set.debugUnassigned /\ ~dev.assigned),
     categories |-> cats, release |-> rel, sound |-> snd]

\* What a read with nobody else around would return for d now.
Effective(d) ==
    ConfigOf(DevicePart(d), ConfigPart(d), settings, categories,
             Resolve(SelectedId(DevicePart(d), settings)), sound)

-----------------------------------------------------------------------------
(* Statements run for the client.                                          *)

\* EnsureDevice: one transaction inserts the rows of a new client.
EnsureDevice(d) ==
    /\ devices' = [devices EXCEPT ![d] = RowOf(d)]
    /\ UNCHANGED <<settings, registry, categories, sound>>

\* Mutant: COALESCE the wrong way round, a first report stays.
RecordFirst(d, status, build) ==
    /\ Registered(d)
    /\ devices' = [devices EXCEPT
           ![d].status = IF @ = None THEN status ELSE @,
           ![d].build = IF @ = None THEN build ELSE @]
    /\ UNCHANGED <<settings, registry, categories, sound>>

\* RecordDeviceStatus and RecordDeviceVersion: an empty report leaves the column.
RecordReport(d, status, build) ==
    /\ Registered(d)
    /\ devices' = [devices EXCEPT
           ![d].status = IF status # None THEN status ELSE @,
           ![d].build = IF build # None THEN build ELSE @]
    /\ UNCHANGED <<settings, registry, categories, sound>>

-----------------------------------------------------------------------------
(* Statements run for the admin pages and the board.                       *)

SetDeviceLock(d, l) ==
    /\ Registered(d)
    /\ devices' = [devices EXCEPT ![d].lock = l]
    /\ UNCHANGED <<settings, registry, categories, sound>>

SetAllLocks(l) ==
    /\ devices' = [d \in Device |->
           IF Assigned(d) THEN [devices[d] EXCEPT !.lock = l] ELSE devices[d]]
    /\ UNCHANGED <<settings, registry, categories, sound>>

LockAllLocks == SetAllLocks(BoardLock)
UnlockAllLocks == SetAllLocks(Unlocked)

UpdateDevice(d, assigned) ==
    /\ Registered(d)
    /\ devices' = [devices EXCEPT ![d].assigned = assigned]
    /\ UNCHANGED <<settings, registry, categories, sound>>

DeleteDevice(d) ==
    /\ Registered(d)
    /\ devices' = [devices EXCEPT ![d] = None]
    /\ UNCHANGED <<settings, registry, categories, sound>>

\* A form offers the ids that were registered when its page was rendered; by the
\* time it is posted one of them may have been deleted.
Offered(id) == id # None => registry[id] # "unused"

\* Mutant: the copies in device_config are forgotten.
UpdateSettingsOnly(form) ==
    /\ Offered(form.selected)
    /\ settings' = form
    /\ UNCHANGED <<devices, registry, categories, sound>>

\* UpdateSettings: the settings table and every device_config row.
UpdateSettings(form) ==
    /\ Offered(form.selected)
    /\ settings' = form
    /\ devices' = [d \in Device |->
           IF Registered(d) THEN [devices[d] EXCEPT !.tuning = form.tuning]
                            ELSE None]
    /\ UNCHANGED <<registry, categories, sound>>

CreateVersion(v, r) ==
    /\ registry[v] = "unused"
    /\ registry' = [registry EXCEPT ![v] = r]
    /\ UNCHANGED <<devices, settings, categories, sound>>

UpdateVersion(v, r) ==
    /\ registry[v] \in Releases
    /\ registry' = [registry EXCEPT ![v] = r]
    /\ UNCHANGED <<devices, settings, categories, sound>>

\* DeleteVersion, of any id: one transaction also resets the selections that point at v.
DeleteVersion(v) ==
    /\ registry' = [registry EXCEPT ![v] = IF @ \in Releases THEN "deleted" ELSE @]
    /\ devices' = [d \in Device |->
           IF Registered(d) /\ devices[d].override = v
           THEN [devices[d] EXCEPT !.override = None] ELSE devices[d]]
    /\ settings' = IF settings.selected = v
                   THEN [settings EXCEPT !.selected = None] ELSE settings
    /\ UNCHANGED <<categories, sound>>

SetDeviceVersion(d, id) ==
    /\ Registered(d)
    /\ Offered(id)
    /\ devices' = [devices EXCEPT ![d].override = id]
    /\ UNCHANGED <<settings, registry, categories, sound>>

\* CreateCategory and DeleteCategory.
SetCategories(cats) ==
    /\ categories' = cats
    /\ UNCHANGED <<devices, settings, registry, sound>>

\* warningSoundStore.save: the rename that publishes the uploaded file.
SaveSound(snd) ==
    /\ sound' = snd
    /\ UNCHANGED <<devices, settings, registry, categories>>

StoreNext ==
    \/ \E d \in Device :
          \/ EnsureDevice(d)
          \/ \E s \in Statuses \cup {None}, b \in Builds \cup {None} : RecordReport(d, s, b)
          \/ \E l \in LockValue : SetDeviceLock(d, l)
          \/ \E a \in BOOLEAN : UpdateDevice(d, a)
          \/ DeleteDevice(d)
          \/ \E id \in Selection : SetDeviceVersion(d, id)
    \/ LockAllLocks
    \/ UnlockAllLocks
    \/ \E form \in SettingsForms : UpdateSettings(form)
    \/ \E v \in VersionId, r \in Releases : CreateVersion(v, r) \/ UpdateVersion(v, r)
    \/ \E v \in VersionId : DeleteVersion(v)
    \/ \E cats \in CategorySets : SetCategories(cats)
    \/ \E snd \in Sounds : SaveSound(snd)

StoreSpec == StoreInit /\ [][StoreNext]_storeVars

-----------------------------------------------------------------------------
(* Properties.                                                             *)

\* The intervals live twice, in settings and in each device's row.  However
\* registrations (EnsureDevice), deletions and settings edits interleave, the
\* copies agree: a device that registers while the settings change never keeps
\* the old intervals (EnsureDevice reads settings inside its own transaction).
IntervalsAgree ==
    \A d \in Device : Registered(d) => devices[d].tuning = settings.tuning

(* What the proofs about the configuration poll need besides.              *)

\* No selection names an id before it is handed out, so registering a version
\* (which is not announced) changes nobody's configuration.
SelectionsHandedOut ==
    /\ Offered(settings.selected)
    /\ \A d \in Device : Registered(d) => Offered(devices[d].override)

=============================================================================
