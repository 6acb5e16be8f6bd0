-------------------------- MODULE ConfigPollProofs --------------------------
(***************************************************************************)
(* Proofs about ConfigStore and ConfigPoll.  First the store: its types,   *)
(* the two copies of the intervals, and the facts about single rows that   *)
(* the rest uses.  Then the delivery of configurations: IInv is inductive, *)
(* what a handler that nobody has woken, or is about to wake, has read so  *)
(* far is still in the store.  The safety properties follow from it.       *)
(***************************************************************************)
EXTENDS ConfigPoll, TLAPS

-----------------------------------------------------------------------------
(* What reads return.                                                      *)

LEMMA FreshRowType == ASSUME StoreTypeOK PROVE FreshRow \in Row
BY StoreAssumption DEF StoreTypeOK, FreshRow, Row, Settings, LockValue, Selection

LEMMA RowType ==
    ASSUME StoreTypeOK, NEW d \in Device
    PROVE  RowOf(d) \in Row /\ RowOf(d) # None
BY FreshRowType, StoreAssumption DEF StoreTypeOK, RowOf, Registered

LEMMA PartTypes ==
    ASSUME StoreTypeOK, NEW d \in Device
    PROVE  DevicePart(d) \in DeviceParts /\ ConfigPart(d) \in ConfigParts
BY RowType DEF DevicePart, ConfigPart, DeviceParts, ConfigParts, Row

LEMMA ResolveType == \A id : Resolve(id) \in Releases \cup {None}
BY DEF Resolve

-----------------------------------------------------------------------------
(* Types.                                                                  *)

LEMMA StoreInitType == StoreInit => StoreTypeOK
BY StoreAssumption DEF StoreInit, StoreTypeOK, Settings, Selection, Registration

LEMMA EnsureDeviceType ==
    ASSUME StoreTypeOK, NEW d \in Device, EnsureDevice(d) PROVE StoreTypeOK'
BY RowType DEF EnsureDevice, StoreTypeOK

LEMMA RecordReportType ==
    ASSUME StoreTypeOK, NEW d \in Device, NEW s \in Statuses \cup {None},
           NEW b \in Builds \cup {None}, RecordReport(d, s, b)
    PROVE  StoreTypeOK'
<1>1. devices[d] \in Row
  BY DEF StoreTypeOK, RecordReport, Registered
<1>2. devices'[d] \in Row
  BY <1>1 DEF RecordReport, Row, StoreTypeOK
<1> QED
  BY <1>2 DEF RecordReport, StoreTypeOK

LEMMA SetDeviceLockType ==
    ASSUME StoreTypeOK, NEW d \in Device, NEW l \in LockValue, SetDeviceLock(d, l)
    PROVE  StoreTypeOK'
<1>1. devices[d] \in Row
  BY DEF StoreTypeOK, SetDeviceLock, Registered
<1>2. devices'[d] \in Row
  BY <1>1 DEF SetDeviceLock, Row, StoreTypeOK
<1> QED
  BY <1>2 DEF SetDeviceLock, StoreTypeOK

LEMMA SetAllLocksType ==
    ASSUME StoreTypeOK, NEW l \in LockValue, SetAllLocks(l) PROVE StoreTypeOK'
<1>1. ASSUME NEW d \in Device PROVE devices'[d] \in Row \cup {None}
  BY <1>1 DEF SetAllLocks, StoreTypeOK, Assigned, Registered, Row
<1> QED
  BY <1>1 DEF SetAllLocks, StoreTypeOK

LEMMA UpdateDeviceType ==
    ASSUME StoreTypeOK, NEW d \in Device, NEW a \in BOOLEAN, UpdateDevice(d, a)
    PROVE  StoreTypeOK'
<1>1. devices[d] \in Row
  BY DEF StoreTypeOK, UpdateDevice, Registered
<1>2. devices'[d] \in Row
  BY <1>1 DEF UpdateDevice, Row, StoreTypeOK
<1> QED
  BY <1>2 DEF UpdateDevice, StoreTypeOK

LEMMA UpdateSettingsType ==
    ASSUME StoreTypeOK, NEW form \in SettingsForms, UpdateSettings(form)
    PROVE  StoreTypeOK'
<1>1. form \in Settings
  BY StoreAssumption
<1>2. ASSUME NEW d \in Device PROVE devices'[d] \in Row \cup {None}
  BY <1>1, <1>2 DEF UpdateSettings, StoreTypeOK, Registered, Row, Settings
<1> QED
  BY <1>1, <1>2 DEF UpdateSettings, StoreTypeOK

LEMMA DeleteVersionType ==
    ASSUME StoreTypeOK, NEW v \in VersionId, DeleteVersion(v) PROVE StoreTypeOK'
<1>1. ASSUME NEW d \in Device PROVE devices'[d] \in Row \cup {None}
  BY <1>1 DEF DeleteVersion, StoreTypeOK, Registered, Row, Selection
<1>2. settings' \in Settings
  BY DEF DeleteVersion, StoreTypeOK, Settings, Selection
<1>3. registry' \in [VersionId -> Registration]
  BY DEF DeleteVersion, StoreTypeOK, Registration
<1> QED
  BY <1>1, <1>2, <1>3 DEF DeleteVersion, StoreTypeOK

LEMMA SetDeviceVersionType ==
    ASSUME StoreTypeOK, NEW d \in Device, NEW id \in Selection, SetDeviceVersion(d, id)
    PROVE  StoreTypeOK'
<1>1. devices[d] \in Row
  BY DEF StoreTypeOK, SetDeviceVersion, Registered
<1>2. devices'[d] \in Row
  BY <1>1 DEF SetDeviceVersion, Row, StoreTypeOK
<1> QED
  BY <1>2 DEF SetDeviceVersion, StoreTypeOK

LEMMA StoreNextType == ASSUME StoreTypeOK, StoreNext PROVE StoreTypeOK'
<1>1. ASSUME NEW d \in Device, DeleteDevice(d) PROVE StoreTypeOK'
  BY <1>1 DEF DeleteDevice, StoreTypeOK
<1>2. ASSUME NEW v \in VersionId, NEW r \in Releases,
             CreateVersion(v, r) \/ UpdateVersion(v, r)
      PROVE  StoreTypeOK'
  BY <1>2 DEF CreateVersion, UpdateVersion, StoreTypeOK, Registration
<1>3. ASSUME NEW cats \in CategorySets, SetCategories(cats) PROVE StoreTypeOK'
  BY <1>3 DEF SetCategories, StoreTypeOK
<1>4. ASSUME NEW snd \in Sounds, SaveSound(snd) PROVE StoreTypeOK'
  BY <1>4 DEF SaveSound, StoreTypeOK
<1>5. LockAllLocks \/ UnlockAllLocks => StoreTypeOK'
  BY SetAllLocksType, StoreAssumption DEF LockAllLocks, UnlockAllLocks, LockValue
<1> QED
  BY <1>1, <1>2, <1>3, <1>4, <1>5, EnsureDeviceType, RecordReportType,
     SetDeviceLockType, UpdateDeviceType, UpdateSettingsType, DeleteVersionType,
     SetDeviceVersionType DEF StoreNext

\* The types of the store's tables, for every set of devices, locks, versions
\* and settings.
THEOREM StoreTypeCorrect == StoreSpec => []StoreTypeOK
<1>1. StoreTypeOK /\ UNCHANGED storeVars => StoreTypeOK'
  BY DEF StoreTypeOK, storeVars
<1> QED
  BY <1>1, StoreInitType, StoreNextType, PTL DEF StoreSpec

-----------------------------------------------------------------------------
(* The intervals.                                                          *)

LEMMA StoreNextIntervals ==
    ASSUME StoreTypeOK, IntervalsAgree, [StoreNext]_storeVars
    PROVE  IntervalsAgree'
<1> SUFFICES ASSUME NEW e \in Device, Registered(e)'
             PROVE  devices'[e].tuning = settings'.tuning
  BY DEF IntervalsAgree
<1>1. ASSUME NEW d \in Device, EnsureDevice(d)
      PROVE  devices'[e].tuning = settings'.tuning
  <2>1. devices'[e] = IF e = d THEN RowOf(d) ELSE devices[e]
    BY <1>1 DEF EnsureDevice, StoreTypeOK
  <2> QED
    BY <1>1, <2>1 DEF EnsureDevice, IntervalsAgree, Registered, RowOf, FreshRow
<1>2. ASSUME settings' = settings, Registered(e), devices'[e].tuning = devices[e].tuning
      PROVE  devices'[e].tuning = settings'.tuning
  BY <1>2 DEF IntervalsAgree
<1>3. ASSUME NEW d \in Device, NEW s, NEW b, RecordReport(d, s, b)
      PROVE  devices'[e].tuning = settings'.tuning
  <2>1. devices[d] \in Row
    BY <1>3 DEF StoreTypeOK, RecordReport, Registered
  <2>2. e # d => devices'[e] = devices[e]
    BY <1>3 DEF RecordReport, StoreTypeOK
  <2>3. devices'[d].tuning = devices[d].tuning
    BY <1>3, <2>1 DEF RecordReport, StoreTypeOK, Row
  <2> QED
    BY <1>2, <1>3, <2>2, <2>3 DEF RecordReport, Registered
<1>4. ASSUME NEW d \in Device, NEW l, SetDeviceLock(d, l)
      PROVE  devices'[e].tuning = settings'.tuning
  <2>1. devices[d] \in Row
    BY <1>4 DEF StoreTypeOK, SetDeviceLock, Registered
  <2>2. e # d => devices'[e] = devices[e]
    BY <1>4 DEF SetDeviceLock, StoreTypeOK
  <2>3. devices'[d].tuning = devices[d].tuning
    BY <1>4, <2>1 DEF SetDeviceLock, StoreTypeOK, Row
  <2> QED
    BY <1>2, <1>4, <2>2, <2>3 DEF SetDeviceLock, Registered
<1>5. ASSUME NEW l, SetAllLocks(l) PROVE devices'[e].tuning = settings'.tuning
  <2>1. Registered(e)
    BY <1>5 DEF SetAllLocks, Assigned, Registered
  <2>2. devices[e] \in Row
    BY <2>1 DEF StoreTypeOK, Registered
  <2> QED
    BY <1>2, <1>5, <2>1, <2>2 DEF SetAllLocks, Row
<1>6. ASSUME NEW d \in Device, NEW a, UpdateDevice(d, a)
      PROVE  devices'[e].tuning = settings'.tuning
  <2>1. devices[d] \in Row
    BY <1>6 DEF StoreTypeOK, UpdateDevice, Registered
  <2>2. e # d => devices'[e] = devices[e]
    BY <1>6 DEF UpdateDevice, StoreTypeOK
  <2>3. devices'[d].tuning = devices[d].tuning
    BY <1>6, <2>1 DEF UpdateDevice, StoreTypeOK, Row
  <2> QED
    BY <1>2, <1>6, <2>2, <2>3 DEF UpdateDevice, Registered
<1>7. ASSUME NEW d \in Device, DeleteDevice(d)
      PROVE  devices'[e].tuning = settings'.tuning
  BY <1>2, <1>7 DEF DeleteDevice, StoreTypeOK, Registered
<1>8. ASSUME NEW form \in SettingsForms, UpdateSettings(form)
      PROVE  devices'[e].tuning = settings'.tuning
  <2>1. Registered(e)
    BY <1>8 DEF UpdateSettings, Registered
  <2>2. devices[e] \in Row
    BY <2>1 DEF StoreTypeOK, Registered
  <2> QED
    BY <1>8, <2>1, <2>2 DEF UpdateSettings, Row
<1>9. ASSUME NEW v \in VersionId, DeleteVersion(v)
      PROVE  devices'[e].tuning = settings'.tuning
  <2>1. Registered(e)
    BY <1>9 DEF DeleteVersion, Registered
  <2>2. devices[e] \in Row
    BY <2>1 DEF StoreTypeOK, Registered
  <2>3. devices'[e].tuning = devices[e].tuning
    BY <1>9, <2>2 DEF DeleteVersion, Row
  <2>4. settings'.tuning = settings.tuning
    BY <1>9 DEF DeleteVersion, StoreTypeOK, Settings
  <2> QED
    BY <2>1, <2>3, <2>4 DEF IntervalsAgree
<1>10. ASSUME NEW d \in Device, NEW id, SetDeviceVersion(d, id)
       PROVE  devices'[e].tuning = settings'.tuning
  <2>1. devices[d] \in Row
    BY <1>10 DEF StoreTypeOK, SetDeviceVersion, Registered
  <2>2. e # d => devices'[e] = devices[e]
    BY <1>10 DEF SetDeviceVersion, StoreTypeOK
  <2>3. devices'[d].tuning = devices[d].tuning
    BY <1>10, <2>1 DEF SetDeviceVersion, StoreTypeOK, Row
  <2> QED
    BY <1>2, <1>10, <2>2, <2>3 DEF SetDeviceVersion, Registered
<1>11. ASSUME UNCHANGED <<devices, settings>>
       PROVE  devices'[e].tuning = settings'.tuning
  BY <1>2, <1>11 DEF Registered
<1> QED
  BY <1>1, <1>3, <1>4, <1>5, <1>6, <1>7, <1>8, <1>9, <1>10, <1>11
  DEF StoreNext, storeVars, LockAllLocks, UnlockAllLocks, CreateVersion,
      UpdateVersion, SetCategories, SaveSound

\* However registrations, deletions and settings edits interleave, the device
\* rows carry the same intervals as the settings.
THEOREM IntervalsAlwaysAgree == StoreSpec => []IntervalsAgree
<1>1. StoreInit => IntervalsAgree
  BY DEF StoreInit, IntervalsAgree, Registered
<1> QED
  BY <1>1, StoreNextIntervals, StoreTypeCorrect, PTL DEF StoreSpec

-----------------------------------------------------------------------------
(* What a device's rows say when somebody else's statement has run.        *)

LEMMA SameRow ==
    ASSUME NEW e \in Device, devices'[e] = devices[e], settings' = settings
    PROVE  RowOf(e)' = RowOf(e)
BY DEF RowOf, Registered, FreshRow

\* Registering a client changes nothing a read would return.
LEMMA EnsureDeviceKeeps ==
    ASSUME StoreTypeOK, NEW d \in Device, EnsureDevice(d), NEW e \in Device
    PROVE  RowOf(e)' = RowOf(e)
<1>1. CASE e = d
  <2>1. devices'[d] = RowOf(d) /\ RowOf(d) # None
    BY RowType DEF EnsureDevice, StoreTypeOK
  <2> QED
    BY <1>1, <2>1 DEF RowOf, Registered
<1>2. CASE e # d
  BY <1>2, SameRow DEF EnsureDevice, StoreTypeOK
<1> QED
  BY <1>1, <1>2

LEMMA RecordReportKeeps ==
    ASSUME StoreTypeOK, NEW d \in Device, NEW s \in Statuses \cup {None},
           NEW b \in Builds \cup {None}, RecordReport(d, s, b), NEW e \in Device
    PROVE  DevicePart(e)' = DevicePart(e) /\ ConfigPart(e)' = ConfigPart(e)
<1>1. CASE e = d
  <2>1. devices[d] \in Row /\ devices[d] # None
    BY DEF RecordReport, StoreTypeOK, Registered
  <2>2. devices'[d] =
          [devices[d] EXCEPT !.status = IF s # None THEN s ELSE devices[d].status,
                             !.build = IF b # None THEN b ELSE devices[d].build]
    BY <2>1 DEF RecordReport, StoreTypeOK, Row
  <2>3. /\ devices'[d].assigned = devices[d].assigned
        /\ devices'[d].override = devices[d].override
        /\ devices'[d].tuning = devices[d].tuning
        /\ devices'[d].lock = devices[d].lock
    BY <2>1, <2>2 DEF Row
  <2>4. devices'[d] \in Row
    BY <2>1, <2>2 DEF Row
  <2>5. devices'[d] # None
    BY <2>4, StoreAssumption
  <2> QED
    BY <1>1, <2>1, <2>3, <2>5 DEF DevicePart, ConfigPart, RowOf, Registered
<1>2. CASE e # d
  <2>1. RowOf(e)' = RowOf(e)
    BY <1>2, SameRow DEF RecordReport, StoreTypeOK
  <2> QED
    BY <2>1 DEF DevicePart, ConfigPart
<1> QED
  BY <1>1, <1>2

\* The effective release of a device does not change when a version that nobody
\* can have selected is registered.
LEMMA CreateVersionKeeps ==
    ASSUME StoreTypeOK, SelectionsHandedOut, NEW v \in VersionId, NEW r,
           CreateVersion(v, r), NEW e \in Device
    PROVE  Resolve(SelectedId(DevicePart(e), settings))'
              = Resolve(SelectedId(DevicePart(e), settings))
<1> DEFINE id == SelectedId(DevicePart(e), settings)
<1>1. DevicePart(e)' = DevicePart(e) /\ id' = id
  BY DEF CreateVersion, DevicePart, RowOf, Registered, FreshRow, SelectedId
<1>2. id \in VersionId => registry[id] # "unused"
  BY StoreAssumption
  DEF SelectionsHandedOut, Offered, DevicePart, SelectedId, RowOf, FreshRow, Registered
<1>3. id \in VersionId => registry'[id] = registry[id]
  BY <1>2 DEF CreateVersion, StoreTypeOK
<1> QED
  BY <1>1, <1>3 DEF Resolve

-----------------------------------------------------------------------------
(* Selections.                                                             *)

LEMMA StoreNextSelections ==
    ASSUME StoreTypeOK, SelectionsHandedOut, [StoreNext]_storeVars
    PROVE  SelectionsHandedOut'
<1>1. Offered(None)'
  BY DEF Offered
<1>2. ASSUME \A v \in VersionId : registry[v] # "unused" => registry'[v] # "unused",
             NEW id \in Selection, Offered(id)
      PROVE  Offered(id)'
  BY <1>2 DEF Offered, Selection
<1>3. \A v \in VersionId : registry[v] # "unused" => registry'[v] # "unused"
  <2>1. ASSUME NEW v \in VersionId, NEW r \in Releases, CreateVersion(v, r) \/ UpdateVersion(v, r)
        PROVE  \A w \in VersionId : registry[w] # "unused" => registry'[w] # "unused"
    BY <2>1, StoreAssumption DEF CreateVersion, UpdateVersion, StoreTypeOK
  <2>2. ASSUME NEW v \in VersionId, DeleteVersion(v)
        PROVE  \A w \in VersionId : registry[w] # "unused" => registry'[w] # "unused"
    BY <2>2 DEF DeleteVersion, StoreTypeOK
  <2>3. CASE UNCHANGED registry
    BY <2>3
  <2> QED
    BY <2>1, <2>2, <2>3 DEF StoreNext, EnsureDevice, RecordReport, SetDeviceLock,
       SetAllLocks, LockAllLocks, UnlockAllLocks, UpdateDevice, DeleteDevice,
       UpdateSettings, SetDeviceVersion, SetCategories, SaveSound, storeVars
<1>4. StoreTypeOK'
  BY StoreNextType DEF StoreTypeOK, storeVars
<1>5. settings'.selected \in Selection /\ settings.selected \in Selection
  BY <1>4 DEF StoreTypeOK, Settings
<1>6. Offered(settings.selected)'
  <2>1. CASE settings'.selected \in {settings.selected, None}
    BY <2>1, <1>1, <1>2, <1>3, <1>5 DEF SelectionsHandedOut, Offered
  <2>2. CASE \E form \in SettingsForms : UpdateSettings(form)
    BY <2>2, <1>2, <1>3, <1>5 DEF UpdateSettings, Offered
  <2>3. ASSUME NEW v \in VersionId, DeleteVersion(v)
        PROVE  settings'.selected \in {settings.selected, None}
    BY <2>3 DEF DeleteVersion, StoreTypeOK, Settings
  <2>4. settings' = settings => settings'.selected \in {settings.selected, None}
    OBVIOUS
  <2> QED
    BY <2>1, <2>2, <2>3, <2>4 DEF StoreNext, EnsureDevice, RecordReport,
       SetDeviceLock, SetAllLocks, LockAllLocks, UnlockAllLocks, UpdateDevice,
       DeleteDevice, SetDeviceVersion, CreateVersion, UpdateVersion,
       SetCategories, SaveSound, storeVars
<1>7. ASSUME NEW e \in Device, Registered(e)' PROVE Offered(devices[e].override)'
  <2>1. devices'[e] \in Row
    BY <1>4, <1>7 DEF StoreTypeOK, Registered
  <2>2. devices'[e].override \in Selection
    BY <2>1 DEF Row
  <2>3. CASE Registered(e) /\ devices'[e].override = devices[e].override
    BY <2>2, <2>3, <1>2, <1>3 DEF SelectionsHandedOut, Offered
  <2>4. CASE devices'[e].override = None
    BY <2>4 DEF Offered
  <2>5. ASSUME NEW d \in Device, NEW id \in Selection, SetDeviceVersion(d, id)
        PROVE  Offered(devices[e].override)'
    <3>1. CASE e = d
      <4>1. devices[d] \in Row
        BY <2>5 DEF StoreTypeOK, SetDeviceVersion, Registered
      <4>2. devices'[d].override = id
        BY <2>5, <4>1 DEF SetDeviceVersion, StoreTypeOK, Row
      <4> QED
        BY <2>5, <3>1, <4>2 DEF SetDeviceVersion, Offered
    <3>2. CASE e # d
      BY <2>3, <2>5, <3>2, <1>7 DEF SetDeviceVersion, StoreTypeOK, Registered
    <3> QED
      BY <3>1, <3>2
  <2>6. ASSUME devices'[e] = devices[e]
        PROVE  Offered(devices[e].override)'
    BY <1>7, <2>3, <2>6 DEF Registered
  <2>7. ASSUME NEW d \in Device, EnsureDevice(d)
        PROVE  Offered(devices[e].override)'
    <3>1. devices'[e] = IF e = d THEN RowOf(e) ELSE devices[e]
      BY <2>7 DEF EnsureDevice, StoreTypeOK
    <3> QED
      BY <2>4, <2>6, <3>1 DEF RowOf, FreshRow
  <2>8. ASSUME NEW d \in Device, Registered(d), e # d => devices'[e] = devices[e],
               devices'[d].override = devices[d].override
        PROVE  Offered(devices[e].override)'
    BY <1>7, <2>3, <2>6, <2>8 DEF Registered
  <2>9. ASSUME NEW l, SetAllLocks(l) PROVE Offered(devices[e].override)'
    <3>1. Registered(e)
      BY <1>7, <2>9 DEF SetAllLocks, Assigned, Registered
    <3>2. devices[e] \in Row
      BY <3>1 DEF StoreTypeOK, Registered
    <3> QED
      BY <2>3, <2>9, <3>1, <3>2 DEF SetAllLocks, Row
  <2>10. ASSUME NEW form, UpdateSettings(form) PROVE Offered(devices[e].override)'
    <3>1. Registered(e)
      BY <1>7, <2>10 DEF UpdateSettings, Registered
    <3>2. devices[e] \in Row
      BY <3>1 DEF StoreTypeOK, Registered
    <3> QED
      BY <2>3, <2>10, <3>1, <3>2 DEF UpdateSettings, Row
  <2>11. ASSUME NEW v, DeleteVersion(v) PROVE Offered(devices[e].override)'
    <3>1. Registered(e)
      BY <1>7, <2>11 DEF DeleteVersion, Registered
    <3>2. devices[e] \in Row
      BY <3>1 DEF StoreTypeOK, Registered
    <3> QED
      BY <2>3, <2>4, <2>11, <3>1, <3>2 DEF DeleteVersion, Row
  <2>12. ASSUME NEW d \in Device, DeleteDevice(d)
         PROVE  Offered(devices[e].override)'
    BY <2>6, <2>12, <1>7 DEF DeleteDevice, StoreTypeOK, Registered
  <2>13. ASSUME NEW d \in Device, Registered(d) PROVE devices[d] \in Row
    BY <2>13 DEF StoreTypeOK, Registered
  <2>14. ASSUME NEW d \in Device, NEW s, NEW b, RecordReport(d, s, b)
         PROVE  Offered(devices[e].override)'
    <3>1. Registered(d) /\ devices[d] \in Row
      BY <2>13, <2>14 DEF RecordReport
    <3>2. e # d => devices'[e] = devices[e]
      BY <2>14 DEF RecordReport, StoreTypeOK
    <3>3. devices'[d].override = devices[d].override
      BY <2>14, <3>1 DEF RecordReport, StoreTypeOK, Row
    <3> QED
      BY <2>8, <3>1, <3>2, <3>3
  <2>15. ASSUME NEW d \in Device, NEW l, SetDeviceLock(d, l)
         PROVE  Offered(devices[e].override)'
    <3>1. Registered(d) /\ devices[d] \in Row
      BY <2>13, <2>15 DEF SetDeviceLock
    <3>2. e # d => devices'[e] = devices[e]
      BY <2>15 DEF SetDeviceLock, StoreTypeOK
    <3>3. devices'[d].override = devices[d].override
      BY <2>15, <3>1 DEF SetDeviceLock, StoreTypeOK, Row
    <3> QED
      BY <2>8, <3>1, <3>2, <3>3
  <2>16. ASSUME NEW d \in Device, NEW a, UpdateDevice(d, a)
         PROVE  Offered(devices[e].override)'
    <3>1. Registered(d) /\ devices[d] \in Row
      BY <2>13, <2>16 DEF UpdateDevice
    <3>2. e # d => devices'[e] = devices[e]
      BY <2>16 DEF UpdateDevice, StoreTypeOK
    <3>3. devices'[d].override = devices[d].override
      BY <2>16, <3>1 DEF UpdateDevice, StoreTypeOK, Row
    <3> QED
      BY <2>8, <3>1, <3>2, <3>3
  <2>17. devices' = devices => Offered(devices[e].override)'
    BY <2>6
  <2> QED
    BY <2>5, <2>7, <2>9, <2>10, <2>11, <2>12, <2>14, <2>15, <2>16, <2>17
    DEF StoreNext, LockAllLocks, UnlockAllLocks, CreateVersion, UpdateVersion,
        SetCategories, SaveSound, storeVars
<1> QED
  BY <1>6, <1>7 DEF SelectionsHandedOut

\* No form ever makes the store select a version id that was not handed out.
THEOREM SelectionsAlwaysHandedOut == StoreSpec => []SelectionsHandedOut
<1>1. StoreInit => SelectionsHandedOut
  BY DEF StoreInit, SelectionsHandedOut, Registered, Offered
<1> QED
  BY <1>1, StoreNextSelections, StoreTypeCorrect, PTL DEF StoreSpec

-----------------------------------------------------------------------------
(* The delivery of configurations.                                         *)

\* The handler's part of the invariant.
HInv(h) == ReadSoFar(h) /\ StillCurrent(h) /\ BlockedOnKnown(h)

\* What a read returns for device d is the same before and after the step.
SameReads(d) ==
    /\ DevicePart(d)' = DevicePart(d)
    /\ ConfigPart(d)' = ConfigPart(d)
    /\ UNCHANGED <<settings, categories, sound>>
    /\ Resolve(SelectedId(DevicePart(d), settings))'
          = Resolve(SelectedId(DevicePart(d), settings))

-----------------------------------------------------------------------------
(* The store's part of a step.                                             *)

\* Every step of the poll protocol is a step of the store, or leaves it alone.
LEMMA NextIsStoreStep == TypeOK /\ [Next]_vars => [StoreNext]_storeVars
<1> SUFFICES ASSUME TypeOK, [Next]_vars PROVE [StoreNext]_storeVars
  OBVIOUS
<1>1. CASE UNCHANGED vars
  BY <1>1 DEF vars, storeVars
<1>2. CASE Admin
  BY <1>2, StoreAssumption DEF Admin, AdminLock, AdminAssign, AdminDeviceVersion,
     BoardButton, BoardUnlock, AdminSettings, AdminCreateVersion, AdminEditVersion,
     AdminDeleteVersion, AdminCategories, AdminWarningSound, AdminDeleteDevice, StoreNext
<1>3. CASE Notify
  BY <1>3 DEF Notify
<1>4. ASSUME NEW h \in Handler,
             ServerStep(h) \/ StatementFails(h) \/ WaitElapsed(h) \/ Abandon(h)
      PROVE  [StoreNext]_storeVars
  <2>1. CASE ReadDevice(h)
    <3>1. dev[h] \in Device \cup {None}
      BY DEF TypeOK
    <3>2. CASE dev[h] \in Device
      BY <2>1, <3>2 DEF ReadDevice, StoreNext
    <3>3. CASE dev[h] \notin Device
      <4>1. devices' = devices
        BY <2>1, <3>3 DEF ReadDevice, EnsureDevice, TypeOK, StoreTypeOK
      <4> QED
        BY <2>1, <4>1 DEF ReadDevice, EnsureDevice, storeVars
    <3> QED
      BY <3>2, <3>3
  <2>2. CASE Record(h)
    <3>1. /\ dev[h] \in Device \cup {None}
          /\ req[h].status \in Statuses \cup {None}
          /\ req[h].build \in Builds \cup {None}
      BY DEF TypeOK, Request
    <3>2. CASE dev[h] \in Device
      BY <2>2, <3>1, <3>2 DEF Record, StoreNext
    <3>3. CASE dev[h] \notin Device
      <4>1. RecordReport(dev[h], req[h].status, req[h].build) => devices' = devices
        BY <3>3 DEF RecordReport, TypeOK, StoreTypeOK
      <4> QED
        BY <2>2, <4>1 DEF Record, RecordReport, storeVars
    <3> QED
      BY <3>2, <3>3
  <2>3. CASE StatementFails(h)
    <3>1. /\ dev[h] \in Device \cup {None} /\ None \in Builds \cup {None}
          /\ req[h].status \in Statuses \cup {None}
      BY DEF TypeOK, Request
    <3>2. CASE dev[h] \in Device
      BY <2>3, <3>1, <3>2 DEF StatementFails, StoreNext
    <3>3. CASE dev[h] \notin Device
      <4>1. RecordReport(dev[h], req[h].status, None) => devices' = devices
        BY <3>3 DEF RecordReport, TypeOK, StoreTypeOK
      <4> QED
        BY <2>3, <4>1 DEF StatementFails, RecordReport, storeVars
    <3> QED
      BY <3>2, <3>3
  <2> QED
    BY <1>4, <2>1, <2>2, <2>3 DEF ServerStep, ReadConfig, ReadSettings, ReadCategories,
       ReadRelease, ReadSound, Subscribe, Changed, WaitElapsed, Abandon
<1>5. ASSUME NEW d \in Device, Client(d) PROVE [StoreNext]_storeVars
  BY <1>5 DEF Client, Poll, Retry, Receive, ReceiveError, ReceiveFailed, DieSaving, LoseConnection,
     UploadBatch, AgentReports, RestartService, RestartWith, CannotRestart,
     StoreNext
<1>6. CASE RestartServer
  BY <1>6 DEF RestartServer
<1> QED
  BY <1>1, <1>2, <1>3, <1>4, <1>5, <1>6 DEF Next

LEMMA NextStoreInvariants ==
    ASSUME TypeOK, SelectionsHandedOut, [Next]_vars
    PROVE  StoreTypeOK' /\ SelectionsHandedOut'
<1>1. StoreTypeOK /\ [StoreNext]_storeVars
  BY NextIsStoreStep DEF TypeOK
<1>2. StoreTypeOK'
  <2>1. CASE StoreNext
    BY <1>1, <2>1, StoreNextType
  <2>2. CASE UNCHANGED storeVars
    BY <1>1, <2>2 DEF StoreTypeOK, storeVars
  <2> QED
    BY <1>1, <2>1, <2>2
<1>3. SelectionsHandedOut'
  BY <1>1, StoreNextSelections
<1> QED
  BY <1>2, <1>3

\* A statement that only touches the rows of the devices in D leaves what is
\* read for the others.
LEMMA OtherRows ==
    ASSUME NEW D, NEW e \in Device, e \notin D,
           \A d \in Device \ D : devices'[d] = devices[d],
           UNCHANGED <<settings, registry, categories, sound>>
    PROVE  SameReads(e)
<1>1. RowOf(e)' = RowOf(e)
  BY SameRow
<1> QED
  BY <1>1 DEF SameReads, DevicePart, ConfigPart, SelectedId, Resolve

LEMMA EnsureDeviceReads ==
    ASSUME StoreTypeOK, NEW d \in Device, EnsureDevice(d), NEW e \in Device
    PROVE  SameReads(e)
<1>1. RowOf(e)' = RowOf(e)
  BY EnsureDeviceKeeps
<1> QED
  BY <1>1 DEF SameReads, DevicePart, ConfigPart, SelectedId, Resolve, EnsureDevice

LEMMA RecordReportReads ==
    ASSUME StoreTypeOK, NEW d \in Device, NEW s \in Statuses \cup {None},
           NEW b \in Builds \cup {None}, RecordReport(d, s, b), NEW e \in Device
    PROVE  SameReads(e)
<1>1. DevicePart(e)' = DevicePart(e) /\ ConfigPart(e)' = ConfigPart(e)
  BY RecordReportKeeps
<1> QED
  BY <1>1 DEF SameReads, SelectedId, Resolve, RecordReport

LEMMA UnchangedReads == ASSUME UNCHANGED storeVars, NEW e PROVE SameReads(e)
BY DEF SameReads, DevicePart, ConfigPart, RowOf, Registered, FreshRow, SelectedId,
   Resolve, storeVars

-----------------------------------------------------------------------------
(* Frames: what a step that does not concern a handler or a client keeps.  *)

LEMMA HandlerFrame ==
    ASSUME NEW h \in Handler, HInv(h), NEW d, dev[h] = d,
           pc'[h] = pc[h], dev'[h] = dev[h], req'[h] = req[h], got'[h] = got[h],
           (h \in held') <=> (h \in held),
           Undisturbed(h)' => Undisturbed(h),
           Undisturbed(h)' /\ pc[h] # "free" => SameReads(d)
    PROVE  HInv(h)'
<1>1. ReadSoFar(h)'
  BY DEF HInv, ReadSoFar
<1>2. BlockedOnKnown(h)'
  BY DEF HInv, BlockedOnKnown, Known
<1>3. StillCurrent(h)'
  <2> SUFFICES ASSUME Undisturbed(h)', pc[h] # "free" PROVE StillCurrent(h)'
    BY DEF StillCurrent, HasDevice, HasConfig, HasSettings, HasCategories,
       HasRelease, HasSound
  <2>1. StillCurrent(h) /\ Undisturbed(h) /\ SameReads(d)
    BY DEF HInv
  <2> QED
    BY <2>1 DEF StillCurrent, SameReads
<1> QED
  BY <1>1, <1>2, <1>3 DEF HInv

LEMMA AgreeFrame ==
    ASSUME TypeOK, NEW d \in Device, Agree(d), UNCHANGED clientVars,
           \A h \in Handler : pc[h] # "free" =>
              pc'[h] # "free" /\ dev'[h] = dev[h] /\ req'[h] = req[h]
    PROVE  Agree(d)'
<1>1. conn[d] # None => conn[d] \in Handler
  BY DEF TypeOK
<1> QED
  BY <1>1 DEF Agree, clientVars

\* A step of handler h keeps the invariant when it keeps h's part of it.
LEMMA StepOf ==
    ASSUME IInv, NEW h \in Handler, HInv(h)', StoreTypeOK', SelectionsHandedOut',
           pc' \in [Handler -> Steps], pc'[h] # "free", got' \in [Handler -> Got],
           \A k \in Handler \ {h} :
              /\ pc'[k] = pc[k] /\ got'[k] = got[k]
              /\ (k \in held') <=> (k \in held)
              /\ (k \in woken') <=> (k \in woken)
              /\ (k \in missed') <=> (k \in missed),
           held' \subseteq Handler, woken' \subseteq Handler,
           missed' \subseteq Handler, row' \subseteq Handler,
           UNCHANGED <<announcing, dev, req, clientVars>>,
           failures' \in 0..MaxFailures,
           \A e \in Device : SameReads(e)
    PROVE  IInv'
<1> USE DEF IInv
<1>1. TypeOK'
  BY DEF TypeOK, clientVars
<1>2. KnownIsApplied'
  BY DEF KnownIsApplied, clientVars
<1>3. ASSUME NEW k \in Handler PROVE HInv(k)'
  <2>1. CASE k = h
    BY <2>1
  <2>2. CASE k # h
    <3>1. PICK d : dev[k] = d
      OBVIOUS
    <3>2. HInv(k)
      BY DEF HInv
    <3>3. pc[k] # "free" => d \in Device
      BY <3>1 DEF ReadSoFar
    <3>4. Undisturbed(k)' => Undisturbed(k)
      BY <2>2 DEF Undisturbed, Subscribed
    <3> QED
      BY <2>2, <3>1, <3>2, <3>3, <3>4, HandlerFrame
  <2> QED
    BY <2>1, <2>2
<1>4. ASSUME NEW d \in Device PROVE Agree(d)'
  <2>1. \A k \in Handler : pc[k] # "free" =>
           pc'[k] # "free" /\ dev'[k] = dev[k] /\ req'[k] = req[k]
    OBVIOUS
  <2> QED
    BY <2>1, AgreeFrame
<1> QED
  BY <1>1, <1>2, <1>3, <1>4 DEF HInv

-----------------------------------------------------------------------------
(* The handler's steps.                                                    *)

LEMMA ReadDeviceInv ==
    ASSUME IInv, NEW h \in Handler, ReadDevice(h), StoreTypeOK', SelectionsHandedOut'
    PROVE  IInv'
<1> USE DEF IInv
<1>1. PICK d \in Device : dev[h] = d
  BY DEF ReadDevice, ReadSoFar
<1>2. EnsureDevice(d)
  BY <1>1 DEF ReadDevice
<1>3. \A e \in Device : SameReads(e)
  BY <1>2, EnsureDeviceReads DEF TypeOK
<1>4. DevicePart(d) \in DeviceParts
  BY PartTypes DEF TypeOK
<1>5. /\ pc' = [pc EXCEPT ![h] = "config"]
      /\ got' = [got EXCEPT ![h].device = DevicePart(d)]
      /\ UNCHANGED <<announcing, woken, missed, held, dev, req, clientVars, failures>>
      /\ pc[h] = "device"
  BY <1>1 DEF ReadDevice, GoTo, notifierVars
<1>6. pc' \in [Handler -> Steps] /\ got' \in [Handler -> Got]
  <2>1. pc' \in [Handler -> Steps]
    BY <1>5 DEF TypeOK, Steps, Reads
  <2>2. got \in [Handler -> Got] /\ DevicePart(d) \in DeviceParts
    BY <1>4 DEF TypeOK
  <2>3. [got[h] EXCEPT !.device = DevicePart(d)] \in Got
    BY <2>2 DEF Got
  <2>4. got' = [got EXCEPT ![h] = [got[h] EXCEPT !.device = DevicePart(d)]]
    BY <1>5
  <2> HIDE DEF IInv
  <2> QED
    BY <2>1, <2>2, <2>3, <2>4
<1>7. pc'[h] = "config" /\ got'[h].device = DevicePart(d) /\ got'[h].config = None
  BY <1>5 DEF TypeOK, Got, ReadSoFar
<1>8. DevicePart(d)' = DevicePart(d)
  BY <1>3 DEF SameReads
<1>9. HInv(h)'
  <2>1. ReadSoFar(h)'
    BY <1>1, <1>4, <1>5, <1>7
    DEF ReadSoFar, HasDevice, HasConfig, HasSettings, HasCategories
  <2>2. StillCurrent(h)'
    BY <1>1, <1>5, <1>7, <1>8 DEF StillCurrent, HasDevice, HasConfig, HasSettings,
       HasCategories, HasRelease, HasSound
  <2>3. BlockedOnKnown(h)'
    BY <1>7 DEF BlockedOnKnown
  <2> QED
    BY <2>1, <2>2, <2>3 DEF HInv
<1>10. row' \subseteq Handler
  BY DEF ReadDevice, TypeOK
<1> QED
  BY <1>3, <1>5, <1>6, <1>7, <1>9, <1>10, StepOf DEF TypeOK

LEMMA ReadConfigInv ==
    ASSUME IInv, NEW h \in Handler, ReadConfig(h), StoreTypeOK', SelectionsHandedOut'
    PROVE  IInv'
<1> USE DEF IInv
<1>1. PICK d \in Device : dev[h] = d
  BY DEF ReadConfig, ReadSoFar
<1>2. UNCHANGED <<storeVars, announcing, woken, missed, held, dev, req, row,
                  clientVars, failures>> /\ pc[h] = "config"
  BY DEF ReadConfig, notifierVars
<1>3. \A e \in Device : SameReads(e)
  BY <1>2, UnchangedReads
<1>4. CASE got' = [got EXCEPT ![h].config = ConfigPart(d)]
           /\ pc' = [pc EXCEPT ![h] = "settings"]
  <2>1. ConfigPart(d) \in ConfigParts /\ ConfigPart(d)' = ConfigPart(d)
    BY <1>3, PartTypes DEF TypeOK, SameReads
  <2>2. pc' \in [Handler -> Steps] /\ got' \in [Handler -> Got]
    <3>1. pc' \in [Handler -> Steps]
      BY <1>4 DEF TypeOK, Steps, Reads
    <3>2. got \in [Handler -> Got] /\ ConfigPart(d) \in ConfigParts
      BY <2>1 DEF TypeOK
    <3>3. [got[h] EXCEPT !.config = ConfigPart(d)] \in Got
      BY <3>2 DEF Got
    <3>4. got' = [got EXCEPT ![h] = [got[h] EXCEPT !.config = ConfigPart(d)]]
      BY <1>4
    <3> HIDE DEF IInv
    <3> QED
      BY <3>1, <3>2, <3>3, <3>4
  <2>3. pc'[h] = "settings" /\ got'[h].device = got[h].device
        /\ got'[h].config = ConfigPart(d)
    BY <1>4 DEF TypeOK, Got
  <2>4. HInv(h)'
    <3>1. ReadSoFar(h)'
      BY <1>1, <1>2, <2>1, <2>3
      DEF ReadSoFar, HasDevice, HasConfig, HasSettings, HasCategories
    <3>2. StillCurrent(h)'
      <4>1. Undisturbed(h)' => Undisturbed(h)
        BY <1>2, <2>3 DEF Undisturbed, Subscribed
      <4>2. DevicePart(d)' = DevicePart(d)
        BY <1>3 DEF SameReads
      <4> QED
        BY <1>1, <1>2, <2>1, <2>3, <4>1, <4>2 DEF StillCurrent, HasDevice,
           HasConfig, HasSettings, HasCategories, HasRelease, HasSound
    <3>3. BlockedOnKnown(h)'
      BY <2>3 DEF BlockedOnKnown
    <3> QED
      BY <3>1, <3>2, <3>3 DEF HInv
  <2> QED
    BY <1>2, <1>3, <1>4, <2>2, <2>3, <2>4, StepOf DEF TypeOK
<1>5. CASE got' = got /\ \E s \in {"replyEmpty", "replyError"} :
                            pc' = [pc EXCEPT ![h] = s]
  <2>1. PICK s \in {"replyEmpty", "replyError"} : pc' = [pc EXCEPT ![h] = s]
    BY <1>5
  <2>2. pc' \in [Handler -> Steps] /\ pc'[h] = s
    BY <2>1 DEF TypeOK, Steps, NoConfig
  <2>3. HInv(h)'
    BY <1>1, <1>2, <1>5, <2>2 DEF HInv, ReadSoFar, StillCurrent, BlockedOnKnown,
       HasDevice, HasConfig, HasSettings, HasCategories, HasRelease, HasSound
  <2> QED
    BY <1>2, <1>3, <1>5, <2>1, <2>2, <2>3, StepOf DEF TypeOK
<1> QED
  BY <1>1, <1>4, <1>5 DEF ReadConfig, GoTo

\* The steps that read one more part, without writing, and go on to the next.
LEMMA ReadOnInv ==
    ASSUME IInv, NEW h \in Handler, StoreTypeOK', SelectionsHandedOut',
           ReadSettings(h) \/ ReadCategories(h) \/ ReadRelease(h) \/ ReadSound(h)
    PROVE  IInv'
<1> USE DEF IInv
<1>1. PICK d \in Device : dev[h] = d
  BY DEF ReadSettings, ReadCategories, ReadRelease, ReadSound, ReadSoFar
<1>2. UNCHANGED <<storeVars, announcing, woken, missed, held, dev, req, row,
                  clientVars, failures>>
  BY DEF ReadSettings, ReadCategories, ReadRelease, ReadSound, notifierVars
<1>3. \A e \in Device : SameReads(e)
  BY <1>2, UnchangedReads
<1>4. SameReads(d)
  BY <1>3
<1>5. /\ got[h] \in Got
      /\ UNCHANGED <<settings, categories, sound>>
  BY <1>2 DEF TypeOK, storeVars
<1>6. CASE ReadSettings(h)
  <2>1. pc' = [pc EXCEPT ![h] = "categories"] /\ pc[h] = "settings"
        /\ got' = [got EXCEPT ![h].settings = settings]
    BY <1>6 DEF ReadSettings, GoTo
  <2>2. pc' \in [Handler -> Steps] /\ got' \in [Handler -> Got]
    <3>1. pc' \in [Handler -> Steps]
      BY <2>1 DEF TypeOK, Steps, Reads
    <3>2. got \in [Handler -> Got] /\ settings \in Settings
      BY DEF TypeOK, StoreTypeOK
    <3>3. [got[h] EXCEPT !.settings = settings] \in Got
      BY <3>2 DEF Got
    <3>4. got' = [got EXCEPT ![h] = [got[h] EXCEPT !.settings = settings]]
      BY <2>1
    <3> HIDE DEF IInv
    <3> QED
      BY <3>1, <3>2, <3>3, <3>4
  <2>3. /\ pc'[h] = "categories" /\ got'[h].device = got[h].device
        /\ got'[h].config = got[h].config /\ got'[h].settings = settings
    BY <2>1 DEF TypeOK, Got
  <2>4. Undisturbed(h)' => Undisturbed(h)
    BY <1>2, <2>1 DEF Undisturbed, Subscribed
  <2>5. HInv(h)'
    BY <1>1, <1>2, <1>4, <1>5, <2>1, <2>3, <2>4 DEF HInv, ReadSoFar, StillCurrent,
       BlockedOnKnown, SameReads, TypeOK, StoreTypeOK, HasDevice, HasConfig,
       HasSettings, HasCategories, HasRelease, HasSound
  <2> QED
    BY <1>2, <1>3, <2>1, <2>2, <2>3, <2>5, StepOf DEF TypeOK
<1>7. CASE ReadCategories(h)
  <2>1. pc' = [pc EXCEPT ![h] = "release"] /\ pc[h] = "categories"
        /\ got' = [got EXCEPT ![h].categories = categories]
    BY <1>7 DEF ReadCategories, GoTo
  <2>2. pc' \in [Handler -> Steps] /\ got' \in [Handler -> Got]
    <3>1. pc' \in [Handler -> Steps]
      BY <2>1 DEF TypeOK, Steps, Reads
    <3>2. got \in [Handler -> Got] /\ categories \in CategorySets
      BY DEF TypeOK, StoreTypeOK
    <3>3. [got[h] EXCEPT !.categories = categories] \in Got
      BY <3>2 DEF Got
    <3>4. got' = [got EXCEPT ![h] = [got[h] EXCEPT !.categories = categories]]
      BY <2>1
    <3> HIDE DEF IInv
    <3> QED
      BY <3>1, <3>2, <3>3, <3>4
  <2>3. /\ pc'[h] = "release" /\ got'[h].device = got[h].device
        /\ got'[h].config = got[h].config /\ got'[h].settings = got[h].settings
        /\ got'[h].categories = categories
    BY <2>1 DEF TypeOK, Got
  <2>4. Undisturbed(h)' => Undisturbed(h)
    BY <1>2, <2>1 DEF Undisturbed, Subscribed
  <2>5. HInv(h)'
    BY <1>1, <1>2, <1>4, <1>5, <2>1, <2>3, <2>4 DEF HInv, ReadSoFar, StillCurrent,
       BlockedOnKnown, SameReads, TypeOK, StoreTypeOK, HasDevice, HasConfig,
       HasSettings, HasCategories, HasRelease, HasSound
  <2> QED
    BY <1>2, <1>3, <2>1, <2>2, <2>3, <2>5, StepOf DEF TypeOK
<1>8. CASE ReadRelease(h)
  <2> DEFINE r == Resolve(SelectedId(got[h].device, got[h].settings))
  <2>1. pc' = [pc EXCEPT ![h] = "sound"] /\ pc[h] = "release"
        /\ got' = [got EXCEPT ![h].release = r]
    BY <1>8 DEF ReadRelease, GoTo
  <2>2. pc' \in [Handler -> Steps] /\ got' \in [Handler -> Got]
    <3>1. pc' \in [Handler -> Steps]
      BY <2>1 DEF TypeOK, Steps, Reads
    <3>2. got \in [Handler -> Got] /\ r \in Releases \cup {None}
      BY ResolveType DEF TypeOK
    <3>3. [got[h] EXCEPT !.release = r] \in Got
      BY <3>2 DEF Got
    <3>4. got' = [got EXCEPT ![h] = [got[h] EXCEPT !.release = r]]
      BY <2>1
    <3> HIDE DEF IInv
    <3> QED
      BY <3>1, <3>2, <3>3, <3>4
  <2>3. /\ pc'[h] = "sound" /\ got'[h].device = got[h].device
        /\ got'[h].config = got[h].config /\ got'[h].settings = got[h].settings
        /\ got'[h].categories = got[h].categories /\ got'[h].release = r
    BY <2>1 DEF TypeOK, Got
  <2>4. Undisturbed(h)' => Undisturbed(h)
    BY <1>2, <2>1 DEF Undisturbed, Subscribed
  <2>5. Undisturbed(h) => r = Resolve(SelectedId(DevicePart(d), settings))
    BY <1>1, <2>1 DEF StillCurrent, HasDevice, HasConfig, HasSettings
  <2> HIDE DEF r
  <2>6. ReadSoFar(h)' /\ BlockedOnKnown(h)'
    BY <1>1, <1>2, <2>1, <2>3 DEF ReadSoFar, BlockedOnKnown, HasDevice, HasConfig,
       HasSettings, HasCategories
  <2>7. StillCurrent(h)'
    BY <1>1, <1>2, <1>4, <1>5, <2>1, <2>3, <2>4, <2>5 DEF StillCurrent, SameReads,
       HasDevice, HasConfig, HasSettings, HasCategories, HasRelease, HasSound
  <2> QED
    BY <1>2, <1>3, <2>1, <2>2, <2>3, <2>6, <2>7, StepOf DEF TypeOK, HInv
<1>9. CASE ReadSound(h)
  <2>1. PICK s \in {"record", "select", "reply"} : pc' = [pc EXCEPT ![h] = s]
                /\ (s = "select" => h \in held /\ Known(h, got'[h]))
    BY <1>9 DEF ReadSound, GoTo
  <2>2. pc[h] = "sound" /\ got' = [got EXCEPT ![h].sound = sound]
    BY <1>9 DEF ReadSound
  <2>3. pc' \in [Handler -> Steps] /\ got' \in [Handler -> Got]
    <3>1. pc' \in [Handler -> Steps]
      BY <2>1 DEF TypeOK, Steps
    <3>2. got \in [Handler -> Got] /\ sound \in Sounds \cup {None}
      BY DEF TypeOK, StoreTypeOK
    <3>3. [got[h] EXCEPT !.sound = sound] \in Got
      BY <3>2 DEF Got
    <3>4. got' = [got EXCEPT ![h] = [got[h] EXCEPT !.sound = sound]]
      BY <2>2
    <3> HIDE DEF IInv
    <3> QED
      BY <3>1, <3>2, <3>3, <3>4
  <2>4. /\ pc'[h] = s /\ got'[h].device = got[h].device
        /\ got'[h].config = got[h].config /\ got'[h].settings = got[h].settings
        /\ got'[h].categories = got[h].categories
        /\ got'[h].release = got[h].release /\ got'[h].sound = sound
    BY <2>1, <2>2 DEF TypeOK, Got
  <2>5. Undisturbed(h)' => Undisturbed(h)
    BY <1>2, <2>2 DEF Undisturbed, Subscribed
  <2>6. ReadSoFar(h)'
    BY <1>1, <1>2, <2>1, <2>2, <2>4 DEF ReadSoFar, HasDevice, HasConfig,
       HasSettings, HasCategories
  <2>7. BlockedOnKnown(h)'
    BY <1>2, <2>1, <2>4 DEF BlockedOnKnown, Known
  <2>8. StillCurrent(h)'
    BY <1>1, <1>2, <1>4, <1>5, <2>1, <2>2, <2>4, <2>5 DEF StillCurrent, SameReads,
       HasDevice, HasConfig, HasSettings, HasCategories, HasRelease, HasSound
  <2> QED
    BY <1>2, <1>3, <2>1, <2>2, <2>3, <2>4, <2>6, <2>7, <2>8, StepOf DEF TypeOK, HInv
<1> QED
  BY <1>6, <1>7, <1>8, <1>9

LEMMA RecordInv ==
    ASSUME IInv, NEW h \in Handler, Record(h), StoreTypeOK', SelectionsHandedOut'
    PROVE  IInv'
<1> USE DEF IInv
<1>1. PICK d \in Device : dev[h] = d
  BY DEF Record, ReadSoFar
<1>2. UNCHANGED <<announcing, woken, missed, dev, req, row, got, clientVars, failures>>
      /\ pc[h] = "record"
  BY DEF Record, notifierVars
<1>3. ASSUME NEW e \in Device PROVE SameReads(e)
  <2>1. CASE RecordReport(d, req[h].status, req[h].build)
    <3>1. req[h].status \in Statuses \cup {None} /\ req[h].build \in Builds \cup {None}
      BY DEF TypeOK, Request
    <3> QED
      BY <2>1, <3>1, RecordReportReads DEF TypeOK
  <2>2. CASE UNCHANGED storeVars
    BY <2>2, UnchangedReads
  <2> QED
    BY <1>1, <2>1, <2>2 DEF Record
<1>4. SameReads(d)
  BY <1>3
<1>5. PICK s \in {"subscribe", "reply"} :
         /\ pc' = [pc EXCEPT ![h] = s]
         /\ held' = IF s = "subscribe" THEN held \cup {h} ELSE held
         /\ s = "reply" => ~Known(h, got[h])
  BY DEF Record, GoTo
<1>6. pc' \in [Handler -> Steps] /\ pc'[h] = s
  BY <1>5 DEF TypeOK, Steps, NoConfig
<1>7. Undisturbed(h)' => Undisturbed(h) /\ pc'[h] = "reply"
  BY <1>2, <1>5, <1>6 DEF Undisturbed, Subscribed
<1>8. ReadSoFar(h)' /\ BlockedOnKnown(h)'
  BY <1>1, <1>2, <1>6 DEF ReadSoFar, BlockedOnKnown, HasDevice, HasConfig,
     HasSettings, HasCategories
<1>9. StillCurrent(h)'
  BY <1>1, <1>2, <1>4, <1>6, <1>7 DEF StillCurrent, SameReads,
     HasDevice, HasConfig, HasSettings, HasCategories, HasRelease, HasSound
<1> QED
  BY <1>2, <1>3, <1>5, <1>6, <1>8, <1>9, StepOf DEF TypeOK, HInv

LEMMA StatementFailsInv ==
    ASSUME IInv, NEW h \in Handler, StatementFails(h), StoreTypeOK', SelectionsHandedOut'
    PROVE  IInv'
<1> USE DEF IInv
<1>1. PICK d \in Device : dev[h] = d
  BY DEF StatementFails, ReadSoFar, Reads
<1>2. /\ UNCHANGED <<announcing, woken, missed, held, dev, req, row, got, clientVars>>
      /\ pc[h] # "free"
  BY DEF StatementFails, notifierVars, Reads
<1>3. ASSUME NEW e \in Device PROVE SameReads(e)
  <2>1. CASE RecordReport(d, req[h].status, None)
    <3>1. req[h].status \in Statuses \cup {None} /\ None \in Builds \cup {None}
      BY DEF TypeOK, Request
    <3> QED
      BY <2>1, <3>1, RecordReportReads DEF TypeOK
  <2>2. CASE UNCHANGED storeVars
    BY <2>2, UnchangedReads
  <2> QED
    BY <1>1, <2>1, <2>2 DEF StatementFails
<1>4. PICK s \in NoConfig : pc' = [pc EXCEPT ![h] = s]
  BY DEF StatementFails, GoTo, NoConfig
<1>5. pc' \in [Handler -> Steps] /\ pc'[h] = s
  BY <1>4 DEF TypeOK, Steps, NoConfig
<1>6. HInv(h)'
  BY <1>1, <1>2, <1>5 DEF HInv, ReadSoFar, StillCurrent, BlockedOnKnown, NoConfig,
     HasDevice, HasConfig, HasSettings, HasCategories, HasRelease, HasSound
<1>7. failures' \in 0..MaxFailures
  BY PollAssumption DEF StatementFails, Fail, TypeOK
<1>8. pc'[h] # "free"
  BY <1>5 DEF NoConfig
<1> QED
  BY <1>2, <1>3, <1>4, <1>5, <1>6, <1>7, <1>8, StepOf DEF TypeOK

\* Capturing the current channel: nothing has been read under it yet.
LEMMA SubscribeInv ==
    ASSUME IInv, NEW h \in Handler, Subscribe(h), StoreTypeOK', SelectionsHandedOut'
    PROVE  IInv'
<1> USE DEF IInv
<1>1. /\ UNCHANGED <<storeVars, announcing, held, dev, req, clientVars, failures>>
      /\ pc[h] = "subscribe" /\ pc' = [pc EXCEPT ![h] = "device"]
      /\ got' = [got EXCEPT ![h] = Nothing]
      /\ woken' = woken \ {h} /\ missed' = missed \ {h} /\ row' = row \ {h}
  BY DEF Subscribe, GoTo
<1>2. pc' \in [Handler -> Steps] /\ got' \in [Handler -> Got]
  BY <1>1 DEF TypeOK, Got, Nothing, Steps, Reads
<1>3. pc'[h] = "device" /\ got'[h].config = None
  BY <1>1 DEF TypeOK, Nothing
<1>4. HInv(h)'
  BY <1>1, <1>3 DEF HInv, ReadSoFar, StillCurrent, BlockedOnKnown, HasDevice,
     HasConfig, HasSettings, HasCategories, HasRelease, HasSound
<1>5. \A e \in Device : SameReads(e)
  BY <1>1, UnchangedReads
<1> QED
  BY <1>1, <1>2, <1>3, <1>4, <1>5, StepOf DEF TypeOK

LEMMA WakeInv ==
    ASSUME IInv, NEW h \in Handler, Changed(h) \/ WaitElapsed(h), StoreTypeOK',
           SelectionsHandedOut'
    PROVE  IInv'
<1> USE DEF IInv
<1>1. /\ UNCHANGED <<storeVars, announcing, woken, missed, held, dev, req, row, got,
                     clientVars, failures>>
      /\ pc[h] = "select"
  BY DEF Changed, WaitElapsed, notifierVars
<1>2. PICK s \in {"subscribe", "reply"} : pc' = [pc EXCEPT ![h] = s]
  BY DEF Changed, WaitElapsed, GoTo
<1>3. pc' \in [Handler -> Steps] /\ pc'[h] = s
  BY <1>2 DEF TypeOK, Steps, NoConfig
<1>4. \A e \in Device : SameReads(e)
  BY <1>1, UnchangedReads
<1>5. PICK d \in Device : dev[h] = d
  BY <1>1 DEF ReadSoFar
<1>6. Undisturbed(h)' => Undisturbed(h)
  BY <1>1 DEF Undisturbed, Subscribed, BlockedOnKnown
<1>7. SameReads(d)
  BY <1>4
<1>8. ReadSoFar(h)' /\ BlockedOnKnown(h)'
  BY <1>1, <1>3 DEF ReadSoFar, BlockedOnKnown, HasDevice, HasConfig,
     HasSettings, HasCategories
<1>9. StillCurrent(h)'
  BY <1>1, <1>3, <1>5, <1>6, <1>7 DEF StillCurrent, SameReads,
     HasDevice, HasConfig, HasSettings, HasCategories, HasRelease, HasSound
<1> QED
  BY <1>1, <1>2, <1>3, <1>4, <1>8, <1>9, StepOf DEF TypeOK, HInv

\* What Free(h) leaves of the other handlers, and of h.
LEMMA FreeFrame ==
    ASSUME IInv, NEW h \in Handler, Free(h), UNCHANGED storeVars, NEW k \in Handler
    PROVE  HInv(k)' /\ (k # h => pc'[k] = pc[k] /\ dev'[k] = dev[k] /\ req'[k] = req[k])
<1> USE DEF IInv
<1>1. CASE k = h
  <2>1. pc'[h] = "free" /\ got'[h].config = None
    BY DEF Free, TypeOK, Nothing
  <2> QED
    BY <1>1, <2>1 DEF HInv, ReadSoFar, StillCurrent, BlockedOnKnown, HasDevice,
       HasConfig, HasSettings, HasCategories, HasRelease, HasSound
<1>2. CASE k # h
  <2>1. /\ pc'[k] = pc[k] /\ dev'[k] = dev[k] /\ req'[k] = req[k] /\ got'[k] = got[k]
        /\ (k \in held') <=> (k \in held)
    BY <1>2 DEF Free, TypeOK
  <2>2. Undisturbed(k)' => Undisturbed(k)
    BY <1>2, <2>1 DEF Free, Undisturbed, Subscribed
  <2>3. PICK d : dev[k] = d
    OBVIOUS
  <2>4. SameReads(d)
    BY UnchangedReads
  <2>5. HInv(k)
    BY DEF HInv
  <2>6. HInv(k)'
    BY <2>1, <2>2, <2>3, <2>4, <2>5, HandlerFrame
  <2> QED
    BY <2>1, <2>6
<1> QED
  BY <1>1, <1>2

LEMMA FreeType ==
    ASSUME TypeOK, NEW h \in Handler, Free(h)
    PROVE  /\ pc' \in [Handler -> Steps] /\ held' \subseteq Handler
           /\ dev' \in [Handler -> Device \cup {None}] /\ req' \in [Handler -> Request]
           /\ row' \subseteq Handler /\ got' \in [Handler -> Got]
           /\ woken' \subseteq Handler /\ missed' \subseteq Handler
           /\ UNCHANGED announcing
BY DEF TypeOK, Free, Steps, Request, NoRequest, Got, Nothing

LEMMA AbandonInv ==
    ASSUME IInv, NEW h \in Handler, Abandon(h), StoreTypeOK', SelectionsHandedOut'
    PROVE  IInv'
<1> USE DEF IInv
<1>1. Free(h) /\ UNCHANGED <<storeVars, clientVars, failures>>
  BY DEF Abandon
<1>2. TypeOK'
  BY <1>1, FreeType DEF TypeOK, clientVars
<1>3. KnownIsApplied'
  BY <1>1 DEF KnownIsApplied, clientVars
<1>4. ASSUME NEW d \in Device PROVE Agree(d)'
  <2>1. conn[d] # h
    BY StoreAssumption, PollAssumption DEF Abandon, Waits, Agree
  <2>2. conn[d] # None => conn[d] \in Handler
    BY DEF TypeOK
  <2>3. conn[d] # None => /\ pc'[conn[d]] = pc[conn[d]] /\ dev'[conn[d]] = dev[conn[d]]
                          /\ req'[conn[d]] = req[conn[d]]
    BY <1>1, <2>1, <2>2, FreeFrame
  <2> QED
    BY <1>1, <2>3 DEF Agree, clientVars
<1> QED
  BY <1>1, <1>2, <1>3, <1>4, FreeFrame DEF HInv

-----------------------------------------------------------------------------
(* Writes and announcements.                                               *)

\* A write that will be announced disturbs every handler until it is.
LEMMA AnnounceDisturbs ==
    ASSUME TypeOK, Announce \/ Notify, UNCHANGED <<pc, held>>, NEW h \in Handler
    PROVE  ~Undisturbed(h)'
<1>1. announcing \in Nat
  BY PollAssumption DEF TypeOK
<1>2. CASE Announce
  BY <1>1, <1>2 DEF Announce, Undisturbed
<1>3. CASE Notify
  BY <1>3 DEF Notify, Undisturbed, Subscribed
<1> QED
  BY <1>2, <1>3

\* A write that nobody announces is accounted for in missed.
LEMMA SilentReads ==
    ASSUME TypeOK, NEW D, KeepSilent(D), UNCHANGED <<handlerVars, settings, registry,
           categories, sound>>, \A d \in Device \ D : devices'[d] = devices[d],
           NEW h \in Handler, NEW d \in Device, dev[h] = d, Undisturbed(h)'
    PROVE  Undisturbed(h) /\ SameReads(d)
<1>1. UNCHANGED <<pc, held, dev>>
  BY DEF handlerVars
<1>2. h \in Subscribed /\ Undisturbed(h) /\ d \notin D
  BY <1>1 DEF Undisturbed, Subscribed, KeepSilent
<1>3. SameReads(d)
  BY <1>2, OtherRows
<1> QED
  BY <1>2, <1>3

\* What an admin request does to a handler that stays undisturbed.
LEMMA AdminReads ==
    ASSUME IInv, Admin, NEW h \in Handler, NEW d \in Device, dev[h] = d, Undisturbed(h)'
    PROVE  Undisturbed(h) /\ SameReads(d)
<1> USE DEF IInv
<1>1. UNCHANGED <<pc, held, dev, got, req>>
  BY DEF Admin, handlerVars, AdminDeleteDevice
<1>2. ~Announce
  BY <1>1, AnnounceDisturbs
<1>3. ASSUME NEW e \in Device, NEW l \in LockValue, AdminLock(e, l), UNCHANGED handlerVars
      PROVE  Undisturbed(h) /\ SameReads(d)
  <2>1. KeepSilent({e}) /\ SetDeviceLock(e, l)
    BY <1>2, <1>3 DEF AdminLock, Audited
  <2>2. \A f \in Device \ {e} : devices'[f] = devices[f]
    BY <2>1 DEF SetDeviceLock, TypeOK, StoreTypeOK
  <2> QED
    BY <1>3, <2>1, <2>2, SilentReads DEF SetDeviceLock
<1>4. ASSUME BoardButton \/ BoardUnlock, UNCHANGED handlerVars
      PROVE  Undisturbed(h) /\ SameReads(d)
  <2> DEFINE D == {e \in Device : Assigned(e)}
  <2>1. PICK l : KeepSilent(D) /\ SetAllLocks(l)
    BY <1>2, <1>4 DEF BoardButton, BoardUnlock, Audited, LockAllLocks, UnlockAllLocks
  <2>2. \A f \in Device \ D : devices'[f] = devices[f]
    BY <2>1 DEF SetAllLocks
  <2> QED
    BY <1>4, <2>1, <2>2, SilentReads DEF SetAllLocks
<1>5. ASSUME NEW v \in VersionId, NEW r \in Releases, AdminCreateVersion(v, r)
      PROVE  Undisturbed(h) /\ SameReads(d)
  <2>1. Undisturbed(h)
    BY <1>1, <1>5 DEF AdminCreateVersion, notifierVars, Undisturbed, Subscribed
  <2>2. DevicePart(d)' = DevicePart(d) /\ ConfigPart(d)' = ConfigPart(d)
        /\ UNCHANGED <<settings, categories, sound>>
    BY <1>5 DEF AdminCreateVersion, CreateVersion, DevicePart, ConfigPart, RowOf,
       Registered, FreshRow
  <2>3. Resolve(SelectedId(DevicePart(d), settings))'
          = Resolve(SelectedId(DevicePart(d), settings))
    BY <1>5, CreateVersionKeeps DEF AdminCreateVersion, TypeOK
  <2> QED
    BY <2>1, <2>2, <2>3 DEF SameReads
<1>6. ASSUME NEW e \in Device, AdminDeleteDevice(e)
      PROVE  Undisturbed(h) /\ SameReads(d)
  <2>1. KeepSilent({e}) /\ DeleteDevice(e)
    BY <1>6 DEF AdminDeleteDevice
  <2>2. \A f \in Device \ {e} : devices'[f] = devices[f]
    BY <2>1 DEF DeleteDevice, TypeOK, StoreTypeOK
  <2>3. Undisturbed(h) /\ d \notin {e}
    BY <1>1, <2>1 DEF Undisturbed, Subscribed, KeepSilent
  <2>4. SameReads(d)
    BY <2>1, <2>2, <2>3, OtherRows DEF DeleteDevice
  <2> QED
    BY <2>3, <2>4
<1> QED
  BY <1>2, <1>3, <1>4, <1>5, <1>6 DEF Admin, AdminAssign, AdminDeviceVersion,
     AdminSettings, AdminEditVersion, AdminDeleteVersion, AdminCategories,
     AdminWarningSound

LEMMA AdminInv ==
    ASSUME IInv, Admin, StoreTypeOK', SelectionsHandedOut'
    PROVE  IInv'
<1> USE DEF IInv
<1>1. UNCHANGED <<pc, held, dev, got, req, clientVars, failures>>
  BY DEF Admin, handlerVars, AdminDeleteDevice
<1>2. row' \subseteq Handler
  BY DEF Admin, handlerVars, AdminDeleteDevice, TypeOK
<1>3. announcing' \in 0..MaxAnnouncing /\ woken' \subseteq Handler /\ missed' \subseteq Handler
  <2>1. Announce \/ (\E D : KeepSilent(D)) \/ UNCHANGED notifierVars
    BY DEF Admin, AdminLock, AdminAssign, AdminDeviceVersion, BoardButton, BoardUnlock,
       AdminSettings, AdminCreateVersion, AdminEditVersion, AdminDeleteVersion,
       AdminCategories, AdminWarningSound, AdminDeleteDevice, Audited
  <2>2. Announce => announcing' \in 0..MaxAnnouncing
    BY PollAssumption DEF Announce, TypeOK
  <2>3. Subscribed \subseteq Handler
    BY DEF Subscribed, TypeOK
  <2> QED
    BY <2>1, <2>2, <2>3 DEF Announce, KeepSilent, notifierVars, TypeOK
<1>4. TypeOK'
  BY <1>1, <1>2, <1>3 DEF TypeOK, clientVars
<1>5. KnownIsApplied'
  BY <1>1 DEF KnownIsApplied, clientVars
<1>6. ASSUME NEW h \in Handler PROVE HInv(h)'
  <2>1. PICK d : dev[h] = d
    OBVIOUS
  <2>2. HInv(h) /\ (pc[h] # "free" => d \in Device)
    BY <2>1 DEF HInv, ReadSoFar
  <2>3. CASE pc[h] = "free"
    BY <1>1, <2>3 DEF HInv, ReadSoFar, StillCurrent, BlockedOnKnown, HasDevice,
       HasConfig, HasSettings, HasCategories, HasRelease, HasSound
  <2>4. CASE pc[h] # "free"
    <3>1. Undisturbed(h)' => Undisturbed(h) /\ SameReads(d)
      BY <2>1, <2>2, <2>4, AdminReads
    <3> QED
      BY <1>1, <2>1, <2>2, <3>1, HandlerFrame
  <2> QED
    BY <2>3, <2>4
<1>7. ASSUME NEW d \in Device PROVE Agree(d)'
  BY <1>1, AgreeFrame
<1> QED
  BY <1>4, <1>5, <1>6, <1>7 DEF HInv

LEMMA NotifyInv ==
    ASSUME IInv, Notify, StoreTypeOK', SelectionsHandedOut'
    PROVE  IInv'
<1> USE DEF IInv
<1>1. UNCHANGED <<missed, storeVars, pc, held, dev, got, req, row, clientVars, failures>>
  BY DEF Notify, handlerVars
<1>2. announcing' \in 0..MaxAnnouncing
  BY PollAssumption DEF Notify, TypeOK
<1>3. woken' \subseteq Handler
  BY DEF Notify, TypeOK, Subscribed
<1>4. TypeOK'
  BY <1>1, <1>2, <1>3 DEF TypeOK, clientVars
<1>5. KnownIsApplied'
  BY <1>1 DEF KnownIsApplied, clientVars
<1>6. ASSUME NEW h \in Handler PROVE HInv(h)'
  <2>1. PICK d : dev[h] = d
    OBVIOUS
  <2>2. ~Undisturbed(h)'
    BY <1>1, AnnounceDisturbs
  <2>3. HInv(h)
    BY DEF HInv
  <2> QED
    BY <1>1, <2>1, <2>2, <2>3, HandlerFrame
<1>7. ASSUME NEW d \in Device PROVE Agree(d)'
  BY <1>1, AgreeFrame
<1> QED
  BY <1>4, <1>5, <1>6, <1>7 DEF HInv

-----------------------------------------------------------------------------
(* The client's steps.                                                     *)

\* A step that leaves the server's handlers alone.
LEMMA HandlersKept ==
    ASSUME IInv, UNCHANGED <<handlerVars, notifierVars>>,
           \A e \in Device : SameReads(e), NEW h \in Handler
    PROVE  HInv(h)'
<1> USE DEF IInv
<1>1. PICK d : dev[h] = d
  OBVIOUS
<1>2. HInv(h) /\ (pc[h] # "free" => d \in Device)
  BY <1>1 DEF HInv, ReadSoFar
<1>3. Undisturbed(h)' => Undisturbed(h)
  BY DEF Undisturbed, Subscribed, handlerVars, notifierVars
<1> QED
  BY <1>1, <1>2, <1>3, HandlerFrame DEF handlerVars

LEMMA ConnectInv ==
    ASSUME IInv, NEW d \in Device, NEW h \in Handler, NEW request \in Request,
           Connect(d, h, request), sent'[d] = request, request.known = version[d],
           \A e \in Device \ {d} : sent'[e] = sent[e] /\ tries'[e] = tries[e],
           sent' \in [Device -> Request], tries' \in [Device -> 0..MaxTries],
           UNCHANGED <<version, applied, saved, reported, build, storeVars, notifierVars, failures>>,
           phase[d] # "down"
    PROVE  IInv'
<1> USE DEF IInv
<1>1. TypeOK'
  BY DEF TypeOK, Connect, GoTo, Steps, Reads, StoreTypeOK, storeVars, notifierVars
<1>2. SelectionsHandedOut' /\ KnownIsApplied'
  BY DEF SelectionsHandedOut, Offered, Registered, KnownIsApplied, storeVars
<1>3. /\ pc[h] = "free" /\ pc'[h] = "device" /\ dev'[h] = d /\ req'[h] = request
      /\ got'[h] = got[h] /\ conn'[d] = h /\ phase'[d] = "await"
      /\ UNCHANGED <<held, row, got>>
  BY DEF Connect, GoTo, TypeOK
<1>5. ASSUME NEW k \in Handler PROVE HInv(k)'
  <2>1. CASE k = h
    BY <1>3, <2>1 DEF HInv, ReadSoFar, StillCurrent, BlockedOnKnown, HasDevice,
       HasConfig, HasSettings, HasCategories, HasRelease, HasSound
  <2>2. CASE k # h
    <3>1. pc'[k] = pc[k] /\ dev'[k] = dev[k] /\ req'[k] = req[k] /\ got'[k] = got[k]
      BY <2>2 DEF Connect, GoTo, TypeOK
    <3>2. Undisturbed(k)' => Undisturbed(k)
      BY <1>3, <3>1 DEF Undisturbed, Subscribed, notifierVars
    <3>3. PICK e : dev[k] = e
      OBVIOUS
    <3>4. SameReads(e) /\ HInv(k)
      BY UnchangedReads DEF HInv
    <3> QED
      BY <1>3, <3>1, <3>2, <3>3, <3>4, HandlerFrame
  <2> QED
    BY <2>1, <2>2
<1>6. ASSUME NEW e \in Device PROVE Agree(e)'
  <2>1. CASE e = d
    BY <1>3, <2>1, PollAssumption DEF Agree
  <2>2. CASE e # d
    <3>1. conn'[e] = conn[e] /\ phase'[e] = phase[e] /\ sent'[e] = sent[e]
          /\ tries'[e] = tries[e]
      BY <2>2 DEF Connect, TypeOK
    <3>2. conn[e] # None => conn[e] \in Handler /\ conn[e] # h
      BY <1>3 DEF TypeOK, Agree
    <3>3. conn[e] # None => /\ pc'[conn[e]] = pc[conn[e]] /\ dev'[conn[e]] = dev[conn[e]]
                            /\ req'[conn[e]] = req[conn[e]]
      BY <3>2 DEF Connect, GoTo, TypeOK
    <3> QED
      BY <3>1, <3>2, <3>3 DEF Agree
  <2> QED
    BY <2>1, <2>2
<1> QED
  BY <1>1, <1>2, <1>5, <1>6 DEF HInv

LEMMA PollInv ==
    ASSUME IInv, NEW d \in Device, Poll(d) PROVE IInv'
<1> USE DEF IInv
<1> DEFINE request == [known |-> version[d], status |-> reported[d], build |-> build[d]]
<1>1. request \in Request /\ request.known = version[d]
  BY DEF TypeOK, Request
<1>2. PICK h \in Handler : Connect(d, h, request)
  BY DEF Poll
<1>3. /\ sent' = [sent EXCEPT ![d] = request] /\ tries' = [tries EXCEPT ![d] = 1]
      /\ UNCHANGED <<version, applied, saved, reported, build, storeVars, notifierVars, failures>>
  BY DEF Poll
<1> HIDE DEF request
<1>4. 1 \in 0..MaxTries /\ phase[d] # "down"
  BY PollAssumption DEF Poll
<1> QED
  BY <1>1, <1>2, <1>3, <1>4, ConnectInv DEF TypeOK

LEMMA RetryInv ==
    ASSUME IInv, NEW d \in Device, Retry(d) PROVE IInv'
<1> USE DEF IInv
<1>1. sent[d] \in Request /\ sent[d].known = version[d]
  BY DEF Retry, Agree, TypeOK
<1>2. PICK h \in Handler : Connect(d, h, sent[d])
  BY DEF Retry
<1>3. /\ tries' = [tries EXCEPT ![d] = tries[d] + 1]
      /\ UNCHANGED <<sent, version, applied, saved, reported, build, storeVars, notifierVars, failures>>
  BY DEF Retry, TypeOK
<1>4. tries[d] + 1 \in 0..MaxTries /\ phase[d] # "down"
  BY PollAssumption DEF TypeOK, Retry, Agree
<1> QED
  BY <1>1, <1>2, <1>3, <1>4, ConnectInv DEF TypeOK

LEMMA ReceiveAny ==
    ASSUME IInv, NEW d \in Device, NEW then \in {"rest", "down"},
           conn[d] # None, EndFetch(d, then), Free(conn[d]), UNCHANGED <<storeVars, build>>,
           version' \in [Device -> Config \cup {None}], applied' \in [Device -> Applied],
           saved' \in [Device -> Applied \cup {None}], failures' \in 0..MaxFailures,
           reported' \in [Device -> Statuses \cup {None}],
           \A e \in Device \ {d} : version'[e] = version[e] /\ saved'[e] = saved[e],
           KnownIsApplied'
    PROVE  IInv'
<1> USE DEF IInv
<1> DEFINE h == conn[d]
<1>1. h \in Handler /\ dev[h] = d
  BY DEF TypeOK, Agree
<1>2. TypeOK'
  <2>1. NoRequest \in Request /\ 0 \in 0..MaxTries
    BY PollAssumption DEF NoRequest, Request
  <2>2. /\ phase' \in [Device -> {"rest", "await", "retry", "down"}]
        /\ conn' \in [Device -> Handler \cup {None}]
        /\ tries' \in [Device -> 0..MaxTries] /\ sent' \in [Device -> Request]
    BY <2>1 DEF TypeOK, EndFetch
  <2>3. StoreTypeOK'
    BY DEF TypeOK, StoreTypeOK, storeVars
  <2> QED
    BY <1>1, <2>2, <2>3, FreeType DEF TypeOK
<1>3. SelectionsHandedOut'
  BY DEF SelectionsHandedOut, Offered, Registered, storeVars
<1>4. ASSUME NEW e \in Device PROVE Agree(e)'
  <2>1. CASE e = d
    BY <2>1 DEF Agree, EndFetch, TypeOK
  <2>2. CASE e # d
    <3>1. /\ conn'[e] = conn[e] /\ phase'[e] = phase[e] /\ sent'[e] = sent[e]
          /\ tries'[e] = tries[e] /\ version'[e] = version[e] /\ saved'[e] = saved[e]
      BY <2>2 DEF EndFetch, TypeOK
    <3>2. conn[e] # None => conn[e] \in Handler /\ conn[e] # h
      BY <1>1, <2>2 DEF TypeOK, Agree
    <3>3. conn[e] # None => /\ pc'[conn[e]] = pc[conn[e]] /\ dev'[conn[e]] = dev[conn[e]]
                            /\ req'[conn[e]] = req[conn[e]]
      BY <1>1, <3>2, FreeFrame
    <3> QED
      BY <3>1, <3>3 DEF Agree
  <2> QED
    BY <2>1, <2>2
<1> QED
  BY <1>1, <1>2, <1>3, <1>4, FreeFrame DEF HInv

\* The configuration in an answer is complete.
LEMMA ReplyType ==
    ASSUME IInv, NEW h \in Handler, pc[h] = "reply"
    PROVE  ReadConfigOf(got[h]) \in Config
BY DEF IInv, TypeOK, ReadSoFar, ReadConfigOf, ConfigOf, Config, Got, Settings,
   DeviceParts, ConfigParts, HasDevice, HasConfig, HasSettings, HasCategories

LEMMA ReceiveInv ==
    ASSUME IInv, NEW d \in Device, Receive(d) PROVE IInv'
<1> USE DEF IInv
<1> DEFINE c == ReadConfigOf(got[conn[d]])
<1>1. conn[d] \in Handler
  BY DEF TypeOK, Receive
<1>2. c \in Config
  BY <1>1, ReplyType DEF Receive
<1>3. /\ version' = [version EXCEPT ![d] = c]
      /\ applied' = [applied EXCEPT ![d] = ApplyServerConfig(c)]
      /\ conn[d] # None /\ EndFetch(d, "rest") /\ Free(conn[d])
      /\ UNCHANGED <<storeVars, reported, build>>
      /\ \/ saved' = [saved EXCEPT ![d] = ApplyServerConfig(c)] /\ UNCHANGED failures
         \/ saved' \in {saved, [saved EXCEPT ![d] = None]} /\ (Fail \/ UNCHANGED failures)
  BY DEF Receive, configVersion
<1> HIDE DEF c
<1>4. ApplyServerConfig(c) \in Applied
  BY <1>2 DEF ApplyServerConfig, Applied, Config
<1>5. /\ version' \in [Device -> Config \cup {None}] /\ applied' \in [Device -> Applied]
      /\ \A e \in Device \ {d} : version'[e] = version[e]
  BY <1>2, <1>3, <1>4 DEF TypeOK
<1>6. KnownIsApplied'
  BY <1>3 DEF KnownIsApplied, TypeOK, ApplyServerConfig
<1>7. failures' \in 0..MaxFailures
  BY <1>3, PollAssumption DEF Fail, TypeOK
<1>9. /\ saved' \in [Device -> Applied \cup {None}]
      /\ \A e \in Device \ {d} : saved'[e] = saved[e]
  BY <1>3, <1>4 DEF TypeOK
<1>10. reported' \in [Device -> Statuses \cup {None}]
  BY <1>3 DEF TypeOK
<1> QED
  BY <1>3, <1>5, <1>6, <1>7, <1>9, <1>10, ReceiveAny

LEMMA DieSavingInv ==
    ASSUME IInv, NEW d \in Device, DieSaving(d) PROVE IInv'
<1> USE DEF IInv
<1>1. /\ version' = [version EXCEPT ![d] = None] /\ saved' = [saved EXCEPT ![d] = None]
      /\ reported' = [reported EXCEPT ![d] = None]
      /\ conn[d] # None /\ EndFetch(d, "down") /\ Free(conn[d])
      /\ UNCHANGED <<applied, storeVars, build>>
  BY DEF DieSaving
<1>2. failures' \in 0..MaxFailures
  BY PollAssumption DEF DieSaving, Fail, TypeOK
<1>3. /\ version' \in [Device -> Config \cup {None}] /\ applied' \in [Device -> Applied]
      /\ saved' \in [Device -> Applied \cup {None}]
      /\ reported' \in [Device -> Statuses \cup {None}]
      /\ \A e \in Device \ {d} : version'[e] = version[e] /\ saved'[e] = saved[e]
  BY <1>1 DEF TypeOK
<1>4. KnownIsApplied'
  BY <1>1 DEF KnownIsApplied, TypeOK
<1> QED
  BY <1>1, <1>2, <1>3, <1>4, ReceiveAny

LEMMA ReceiveErrorInv ==
    ASSUME IInv, NEW d \in Device, ReceiveError(d) PROVE IInv'
<1> USE DEF IInv
<1>1. KnownIsApplied'
  BY DEF ReceiveError, KnownIsApplied
<1> QED
  BY <1>1, ReceiveAny DEF ReceiveError, TypeOK

\* do() after a failure: the request goes on, or FetchConfig returns.
LEMMA AfterFailureFrame ==
    ASSUME IInv, NEW D \in SUBSET Device, AfterFailure(D),
           conn' = [d \in Device |-> IF d \in D THEN None ELSE conn[d]],
           UNCHANGED <<version, saved>>, NEW d \in Device
    PROVE  /\ phase' \in [Device -> {"rest", "await", "retry", "down"}]
           /\ conn' \in [Device -> Handler \cup {None}]
           /\ tries' \in [Device -> 0..MaxTries]
           /\ sent' \in [Device -> Request]
           /\ phase'[d] = "retry" => sent'[d].known = version'[d] /\ tries'[d] < MaxTries
           /\ phase'[d] = "await" => conn'[d] # None /\ sent'[d].known = version'[d]
           /\ conn'[d] # None => phase'[d] = "await" /\ conn'[d] = conn[d]
<1> USE DEF IInv
<1>1. 0 \in 0..MaxTries /\ NoRequest \in Request
  BY PollAssumption DEF NoRequest, Request
<1>2. /\ phase' \in [Device -> {"rest", "await", "retry", "down"}]
      /\ conn' \in [Device -> Handler \cup {None}]
      /\ tries' \in [Device -> 0..MaxTries] /\ sent' \in [Device -> Request]
  BY <1>1 DEF AfterFailure, TriesLeft, TypeOK
<1>3. CASE d \in D /\ conn[d] # None /\ tries[d] < MaxTries
  <2>1. /\ phase'[d] = "retry" /\ conn'[d] = None /\ sent'[d] = sent[d]
        /\ tries'[d] = tries[d]
    BY <1>3, PollAssumption DEF AfterFailure, TriesLeft, TypeOK
  <2> QED
    BY <1>2, <1>3, <2>1 DEF Agree
<1>4. CASE d \in D /\ conn[d] # None /\ ~(tries[d] < MaxTries)
  <2>1. phase'[d] = "rest" /\ conn'[d] = None
    BY <1>4, PollAssumption DEF AfterFailure, TriesLeft, TypeOK
  <2> QED
    BY <1>2, <1>4, <2>1 DEF Agree
<1>5. CASE d \notin D \/ conn[d] = None
  <2>1. /\ phase'[d] = phase[d] /\ conn'[d] = conn[d] /\ sent'[d] = sent[d]
        /\ tries'[d] = tries[d]
    BY <1>5 DEF AfterFailure, TriesLeft, TypeOK
  <2> QED
    BY <1>2, <2>1 DEF Agree
<1> QED
  BY <1>3, <1>4, <1>5

LEMMA LoseConnectionInv ==
    ASSUME IInv, NEW d \in Device, LoseConnection(d) PROVE IInv'
<1> USE DEF IInv
<1>1. /\ conn' = [e \in Device |-> IF e \in {d} THEN None ELSE conn[e]]
      /\ AfterFailure({d})
      /\ UNCHANGED <<version, applied, saved, reported, build, storeVars, notifierVars, handlerVars>>
  BY DEF LoseConnection, TypeOK
<1>2. failures' \in 0..MaxFailures
  BY PollAssumption DEF LoseConnection, Fail, TypeOK
<1>3. TypeOK'
  BY <1>1, <1>2, AfterFailureFrame
  DEF TypeOK, StoreTypeOK, storeVars, notifierVars, handlerVars
<1>4. SelectionsHandedOut' /\ KnownIsApplied'
  BY <1>1 DEF SelectionsHandedOut, Offered, Registered, KnownIsApplied, storeVars
<1>5. ASSUME NEW h \in Handler PROVE HInv(h)'
  BY <1>1, HandlersKept, UnchangedReads
<1>6. ASSUME NEW e \in Device PROVE Agree(e)'
  BY <1>1, AfterFailureFrame DEF Agree, handlerVars
<1> QED
  BY <1>3, <1>4, <1>5, <1>6 DEF HInv

LEMMA ReceiveFailedInv ==
    ASSUME IInv, NEW d \in Device, ReceiveFailed(d) PROVE IInv'
<1> USE DEF IInv
<1>1. /\ conn' = [e \in Device |-> IF e \in {d} THEN None ELSE conn[e]]
      /\ AfterFailure({d}) /\ Free(conn[d])
      /\ UNCHANGED <<version, applied, saved, reported, build, storeVars, failures>>
  BY DEF ReceiveFailed, TypeOK
<1>2. conn[d] \in Handler /\ dev[conn[d]] = d
  BY DEF ReceiveFailed, TypeOK, Agree
<1>3. TypeOK'
  <2>1. /\ phase' \in [Device -> {"rest", "await", "retry", "down"}]
        /\ conn' \in [Device -> Handler \cup {None}]
        /\ tries' \in [Device -> 0..MaxTries] /\ sent' \in [Device -> Request]
    BY <1>1, AfterFailureFrame
  <2>2. StoreTypeOK'
    BY <1>1 DEF TypeOK, StoreTypeOK, storeVars
  <2> QED
    BY <1>1, <1>2, <2>1, <2>2, FreeType DEF TypeOK
<1>4. SelectionsHandedOut' /\ KnownIsApplied'
  BY <1>1 DEF SelectionsHandedOut, Offered, Registered, KnownIsApplied, storeVars
<1>5. ASSUME NEW h \in Handler PROVE HInv(h)'
  BY <1>1, <1>2, FreeFrame
<1>6. ASSUME NEW e \in Device PROVE Agree(e)'
  <2>1. conn'[e] # None =>
           /\ conn'[e] = conn[e] /\ conn[e] \in Handler /\ conn[e] # conn[d]
    BY <1>1, <1>2 DEF TypeOK, Agree
  <2>2. conn'[e] # None =>
           /\ pc'[conn[e]] = pc[conn[e]] /\ dev'[conn[e]] = dev[conn[e]]
           /\ req'[conn[e]] = req[conn[e]]
    BY <1>1, <1>2, <2>1, FreeFrame
  <2> QED
    BY <1>1, <2>1, <2>2, AfterFailureFrame DEF Agree
<1> QED
  BY <1>3, <1>4, <1>5, <1>6 DEF HInv

LEMMA RestartServerInv ==
    ASSUME IInv, RestartServer PROVE IInv'
<1> USE DEF IInv
<1>1. /\ conn' = [e \in Device |-> IF e \in Device THEN None ELSE conn[e]]
      /\ AfterFailure(Device)
      /\ UNCHANGED <<version, applied, saved, reported, build, storeVars>>
  BY DEF RestartServer
<1>2. failures' \in 0..MaxFailures /\ announcing' \in 0..MaxAnnouncing
  BY PollAssumption DEF RestartServer, Fail, TypeOK
<1>3. TypeOK'
  <2>1. NoRequest \in Request /\ Nothing \in Got /\ "free" \in Steps
    BY DEF NoRequest, Request, Nothing, Got, Steps
  <2>2. /\ pc' \in [Handler -> Steps] /\ dev' \in [Handler -> Device \cup {None}]
        /\ req' \in [Handler -> Request] /\ got' \in [Handler -> Got]
        /\ woken' = {} /\ missed' = {} /\ held' = {} /\ row' = {}
    BY <2>1 DEF RestartServer
  <2>3. StoreTypeOK'
    BY <1>1 DEF TypeOK, StoreTypeOK, storeVars
  <2>4. ASSUME NEW d \in Device
        PROVE  /\ phase' \in [Device -> {"rest", "await", "retry", "down"}]
               /\ conn' \in [Device -> Handler \cup {None}]
               /\ tries' \in [Device -> 0..MaxTries]
               /\ sent' \in [Device -> Request]
    BY <1>1, AfterFailureFrame
  <2>5. /\ phase' \in [Device -> {"rest", "await", "retry", "down"}]
        /\ conn' \in [Device -> Handler \cup {None}]
        /\ tries' \in [Device -> 0..MaxTries]
        /\ sent' \in [Device -> Request]
    BY <1>1, <2>4 DEF AfterFailure
  <2> QED
    BY <1>1, <1>2, <2>2, <2>3, <2>5 DEF TypeOK
<1>4. SelectionsHandedOut' /\ KnownIsApplied'
  BY <1>1 DEF SelectionsHandedOut, Offered, Registered, KnownIsApplied, storeVars
<1>5. ASSUME NEW h \in Handler PROVE HInv(h)'
  BY DEF RestartServer, HInv, ReadSoFar, StillCurrent, BlockedOnKnown, HasDevice,
     HasConfig, HasSettings, HasCategories, HasRelease, HasSound, Nothing
<1>6. ASSUME NEW e \in Device PROVE Agree(e)'
  <2>1. conn'[e] = None
    BY <1>1
  <2> QED
    BY <1>1, <2>1, AfterFailureFrame DEF Agree
<1> QED
  BY <1>3, <1>4, <1>5, <1>6 DEF HInv

\* The service comes back with what it has saved, or not at all.
LEMMA RestartServiceInv ==
    ASSUME IInv, NEW d \in Device,
           CannotRestart(d) \/ \E b \in Builds : RestartService(d, b)
    PROVE  IInv'
<1> USE DEF IInv
<1>1. /\ EndFetch(d, "rest") \/ EndFetch(d, "down")
      /\ version' = [version EXCEPT ![d] = None]
      /\ (saved[d] # None /\ applied' = [applied EXCEPT ![d] = saved[d]]) \/ UNCHANGED applied
      /\ reported' = [reported EXCEPT ![d] = None]
      /\ (\E b \in Builds : build' = [build EXCEPT ![d] = b]) \/ UNCHANGED build
      /\ UNCHANGED <<saved, storeVars, notifierVars, handlerVars>>
  BY DEF RestartService, RestartWith, CannotRestart
<1>2. /\ failures' \in 0..MaxFailures /\ 0 \in 0..MaxTries
      /\ applied' \in [Device -> Applied] /\ build' \in [Device -> Builds]
  BY <1>1, PollAssumption DEF RestartService, RestartWith, CannotRestart, Fail, TypeOK
<1>3. TypeOK'
  <2>1. /\ phase' \in [Device -> {"rest", "await", "retry", "down"}]
        /\ conn' \in [Device -> Handler \cup {None}]
        /\ tries' \in [Device -> 0..MaxTries] /\ sent' \in [Device -> Request]
    <3>1. PICK then \in {"rest", "down"} : EndFetch(d, then)
      BY <1>1
    <3>2. NoRequest \in Request
      BY DEF NoRequest, Request
    <3> QED
      BY <1>2, <3>1, <3>2 DEF TypeOK, EndFetch
  <2>2. /\ version' \in [Device -> Config \cup {None}]
        /\ reported' \in [Device -> Statuses \cup {None}]
    BY <1>1 DEF TypeOK
  <2> QED
    BY <1>1, <1>2, <2>1, <2>2 DEF TypeOK, StoreTypeOK, storeVars, notifierVars, handlerVars
<1>4. SelectionsHandedOut' /\ KnownIsApplied'
  BY <1>1 DEF SelectionsHandedOut, Offered, Registered, KnownIsApplied, storeVars, TypeOK
<1>5. ASSUME NEW h \in Handler PROVE HInv(h)'
  BY <1>1, HandlersKept, UnchangedReads
<1>6. ASSUME NEW e \in Device PROVE Agree(e)'
  <2>1. CASE e = d
    BY <1>1, <1>2, <2>1 DEF Agree, EndFetch, TypeOK
  <2>2. CASE e # d
    BY <1>1, <2>2 DEF Agree, EndFetch, TypeOK, handlerVars
  <2> QED
    BY <2>1, <2>2
<1> QED
  BY <1>3, <1>4, <1>5, <1>6 DEF HInv

\* The agent's observation, and the upload loop's registration of the device.
LEMMA ReportInv ==
    ASSUME IInv, NEW d \in Device, StoreTypeOK', SelectionsHandedOut',
           UploadBatch(d) \/ (\E status \in Statuses : AgentReports(d, status))
    PROVE  IInv'
<1> USE DEF IInv
<1>1. /\ UNCHANGED <<notifierVars, handlerVars, phase, conn, tries, sent, version,
                     applied, saved, build, failures>>
      /\ reported' \in [Device -> Statuses \cup {None}]
  BY DEF UploadBatch, AgentReports, clientVars, TypeOK
<1>2. TypeOK'
  BY <1>1 DEF TypeOK, notifierVars, handlerVars
<1>3. KnownIsApplied'
  BY <1>1 DEF KnownIsApplied
<1>4. \A e \in Device : SameReads(e)
  BY EnsureDeviceReads, UnchangedReads DEF UploadBatch, AgentReports, TypeOK
<1>5. ASSUME NEW h \in Handler PROVE HInv(h)'
  BY <1>1, <1>4, HandlersKept
<1>6. ASSUME NEW e \in Device PROVE Agree(e)'
  BY <1>1 DEF Agree, handlerVars
<1> QED
  BY <1>2, <1>3, <1>5, <1>6 DEF HInv

-----------------------------------------------------------------------------
(* The invariant.                                                          *)

LEMMA InitInv == Init => IInv
<1> SUFFICES ASSUME Init PROVE IInv
  OBVIOUS
<1> USE DEF Init
<1>1. StoreTypeOK
  BY StoreInitType
<1>2. TypeOK
  <2>1. NoRequest \in Request /\ Nothing \in Got /\ "free" \in Steps
    BY DEF NoRequest, Request, Nothing, Got, Steps
  <2>2. 0 \in 0..MaxAnnouncing /\ 0 \in 0..MaxTries /\ 0 \in 0..MaxFailures
    BY PollAssumption
  <2>3. [tuning |-> InitTuning, gap |-> InitTuning, debug |-> FALSE, lock |-> Unlocked]
           \in Applied
    BY StoreAssumption DEF Applied, LockValue
  <2> QED
    BY <1>1, <2>1, <2>2, <2>3 DEF TypeOK
<1>3. SelectionsHandedOut
  BY DEF StoreInit, SelectionsHandedOut, Registered, Offered
<1>4. KnownIsApplied
  BY DEF KnownIsApplied
<1>5. ASSUME NEW h \in Handler PROVE ReadSoFar(h) /\ StillCurrent(h) /\ BlockedOnKnown(h)
  BY DEF ReadSoFar, StillCurrent, BlockedOnKnown, HasDevice,
     HasConfig, HasSettings, HasCategories, HasRelease, HasSound, Nothing
<1>6. ASSUME NEW d \in Device PROVE Agree(d)
  BY <1>2 DEF Agree, TypeOK
<1> QED
  BY <1>2, <1>3, <1>4, <1>5, <1>6 DEF IInv

LEMMA StutterInv == ASSUME IInv, UNCHANGED vars PROVE IInv'
<1> USE DEF IInv
<1>1. UNCHANGED <<storeVars, handlerVars, notifierVars, clientVars, failures>>
  BY DEF vars
<1>2. TypeOK' /\ SelectionsHandedOut'
  BY <1>1 DEF TypeOK, StoreTypeOK, storeVars, handlerVars, notifierVars, clientVars,
     SelectionsHandedOut, Registered, Offered
<1>3. KnownIsApplied'
  BY <1>1 DEF KnownIsApplied, clientVars
<1>4. ASSUME NEW h \in Handler PROVE HInv(h)'
  BY <1>1, HandlersKept, UnchangedReads
<1>5. ASSUME NEW d \in Device PROVE Agree(d)'
  BY <1>1, AgreeFrame DEF handlerVars
<1> QED
  BY <1>2, <1>3, <1>4, <1>5 DEF HInv

LEMMA NextInv == ASSUME IInv, [Next]_vars PROVE IInv'
<1>1. StoreTypeOK' /\ SelectionsHandedOut'
  BY NextStoreInvariants DEF IInv
<1>2. CASE Admin
  BY <1>1, <1>2, AdminInv
<1>3. CASE Notify
  BY <1>1, <1>3, NotifyInv
<1>4. ASSUME NEW h \in Handler,
             ServerStep(h) \/ StatementFails(h) \/ WaitElapsed(h) \/ Abandon(h)
      PROVE  IInv'
  BY <1>1, <1>4, ReadDeviceInv, ReadConfigInv, ReadOnInv, RecordInv, SubscribeInv,
     StatementFailsInv, WakeInv, AbandonInv DEF ServerStep
<1>5. ASSUME NEW d \in Device, Client(d) PROVE IInv'
  BY <1>1, <1>5, PollInv, RetryInv, ReceiveInv, ReceiveErrorInv, ReceiveFailedInv, DieSavingInv,
     LoseConnectionInv,
     ReportInv, RestartServiceInv DEF Client
<1>6. CASE RestartServer
  BY <1>6, RestartServerInv
<1>7. CASE UNCHANGED vars
  BY <1>7, StutterInv
<1> QED
  BY <1>2, <1>3, <1>4, <1>5, <1>6, <1>7 DEF Next

\* The inductive invariant holds for any number of devices, handlers, versions
\* and failures, and for any settings the pages may submit.
THEOREM InvariantHolds == Spec => []IInv
<1> QED
  BY InitInv, NextInv, PTL DEF Spec

-----------------------------------------------------------------------------
(* Safety.                                                                 *)

\* Every variable of the poll protocol keeps its type.
THEOREM TypeCorrect == Spec => []TypeOK
<1>1. IInv => TypeOK
  BY DEF IInv
<1> QED
  BY <1>1, InvariantHolds, PTL

LEMMA QuietIsCurrent ==
    ASSUME IInv, NEW h \in Handler, Quiet(h)
    PROVE  req[h].known = Effective(dev[h]) /\ req[h].known # None
<1> USE DEF IInv
<1>1. Undisturbed(h) /\ Known(h, got[h]) /\ pc[h] = "select"
  BY DEF Quiet, Undisturbed, Subscribed, BlockedOnKnown
<1>2. /\ got[h].device = DevicePart(dev[h]) /\ got[h].config = ConfigPart(dev[h])
      /\ got[h].settings = settings /\ got[h].categories = categories
      /\ got[h].release = Resolve(SelectedId(DevicePart(dev[h]), settings))
      /\ got[h].sound = sound
  BY <1>1 DEF StillCurrent, HasDevice, HasConfig, HasSettings, HasCategories,
     HasRelease, HasSound
<1>3. ReadConfigOf(got[h]) = Effective(dev[h])
  BY <1>2 DEF ReadConfigOf, Effective
<1> QED
  BY <1>1, <1>3 DEF Known, configVersion

\* No wake-up is missed: while a request is held and no announcement is on its
\* way, the client knows the configuration the store holds.
THEOREM NoWakeupIsMissed == Spec => []NoMissedWakeup
<1>1. IInv => NoMissedWakeup
  BY QuietIsCurrent DEF NoMissedWakeup, configVersion
<1> QED
  BY <1>1, InvariantHolds, PTL

\* The client never asks with the version of a configuration it does not run.
THEOREM KnownIsAlwaysApplied == Spec => []KnownIsApplied
<1>1. IInv => KnownIsApplied
  BY DEF IInv
<1> QED
  BY <1>1, InvariantHolds, PTL

\* End to end: a device whose request is held quietly runs the configuration,
\* and obeys the lock, that the server's pages show for it.
THEOREM HeldAlwaysMeansApplied == Spec => []HeldMeansApplied
<1>1. ASSUME IInv PROVE HeldMeansApplied
  <2> USE <1>1 DEF IInv
  <2> SUFFICES ASSUME NEW d \in Device, conn[d] # None, Quiet(conn[d])
               PROVE  applied[d] = ApplyServerConfig(Effective(d))
    BY DEF HeldMeansApplied
  <2>1. conn[d] \in Handler
    BY DEF TypeOK
  <2>2. dev[conn[d]] = d /\ req[conn[d]].known = version[d]
    BY DEF Agree
  <2>3. version[d] = Effective(d) /\ version[d] # None
    BY <2>1, <2>2, QuietIsCurrent
  <2> QED
    BY <2>3 DEF KnownIsApplied
<1> QED
  BY <1>1, InvariantHolds, PTL

\* Everything the poll protocol does to the store is a statement of the store,
\* so what is proved of StoreSpec holds of Spec.
THEOREM StoreIsUsedAsSpecified == Spec => StoreSpec
<1>1. Init => StoreInit
  BY DEF Init
<1>2. TypeOK /\ [Next]_vars => [StoreNext]_storeVars
  BY NextIsStoreStep
<1> QED
  BY <1>1, <1>2, TypeCorrect, PTL DEF Spec, StoreSpec

\* However the requests of the devices interleave with the settings page, the
\* intervals in the settings are those of every device's row.
THEOREM IntervalsAgreeUnderPolling == Spec => []IntervalsAgree
<1> QED
  BY StoreIsUsedAsSpecified, IntervalsAlwaysAgree, PTL

-----------------------------------------------------------------------------
(* Refinement of LockDelivery.                                             *)

\* A step that changes neither what a client waits for nor what its handler has
\* read keeps the sample.
LEMMA SampleFrame ==
    ASSUME NEW d \in Device, conn'[d] = conn[d], applied'[d] = applied[d],
           conn[d] # None => pc'[conn[d]] = pc[conn[d]] /\ got'[conn[d]] = got[conn[d]]
    PROVE  Sample(d)' = Sample(d)
BY DEF Sample

\* A step that neither saves nor stops the service keeps what it restarts with.
LEMMA StableFrame ==
    ASSUME NEW d \in Device, applied'[d] = applied[d], saved'[d] = saved[d]
    PROVE  Stable(d)' = Stable(d)
BY DEF Stable

\* One device's sample changes: it is taken, dropped, or kept.
LEMMA DeliveryStep ==
    ASSUME NEW d \in Device,
           \A e \in Device : /\ RowOf(e).lock' = RowOf(e).lock
                             /\ applied'[e] = applied[e] /\ Stable(e)' = Stable(e),
           \A e \in Device \ {d} : Sample(e)' = Sample(e),
           Sample(d)' \in {Sample(d), RowOf(d).lock, applied[d].lock}
    PROVE  [Delivery!Next]_Delivery!vars
<1>1. CASE Sample(d)' = Sample(d)
  <2>1. \A e \in Device : Sample(e)' = Sample(e)
    BY <1>1
  <2> QED
    BY <2>1 DEF Delivery!vars
<1>2. CASE Sample(d)' = RowOf(d).lock
  BY <1>2 DEF Delivery!Next, Delivery!Take
<1>3. CASE Sample(d)' = applied[d].lock
  <2>1. Delivery!Drop({d})
    BY <1>3 DEF Delivery!Drop
  <2> QED
    BY <2>1 DEF Delivery!Next
<1> QED
  BY <1>1, <1>2, <1>3

LEMMA LocksKept ==
    ASSUME UNCHANGED storeVars, NEW e \in Device
    PROVE  RowOf(e).lock' = RowOf(e).lock
BY SameRow DEF storeVars

\* A handler's step: the one that reads the lock takes it, the one that starts to
\* read again drops it, the others stutter.
LEMMA ServerRefines ==
    ASSUME IInv, NEW h \in Handler, ServerStep(h) \/ WaitElapsed(h)
    PROVE  [Delivery!Next]_Delivery!vars
<1> USE DEF IInv
<1>1. PICK d \in Device : dev[h] = d
  BY DEF ServerStep, WaitElapsed, ReadDevice, ReadConfig, ReadSettings, ReadCategories,
     ReadRelease, ReadSound, Record, Subscribe, Changed, ReadSoFar
<1>2. UNCHANGED <<conn, applied, saved, phase>>
  BY DEF ServerStep, WaitElapsed, ReadDevice, ReadConfig, ReadSettings, ReadCategories,
     ReadRelease, ReadSound, Record, Subscribe, Changed, clientVars
<1>3. ASSUME NEW e \in Device PROVE RowOf(e).lock' = RowOf(e).lock
  <2>1. CASE ReadDevice(h)
    BY <1>1, <2>1, EnsureDeviceKeeps DEF ReadDevice, TypeOK
  <2>2. CASE Record(h)
    <3>1. req[h].status \in Statuses \cup {None} /\ req[h].build \in Builds \cup {None}
      BY DEF TypeOK, Request
    <3>2. CASE RecordReport(d, req[h].status, req[h].build)
      BY <3>1, <3>2, RecordReportReads DEF SameReads, ConfigPart, TypeOK
    <3> QED
      BY <1>1, <2>2, <3>2, LocksKept DEF Record
  <2> QED
    BY <2>1, <2>2, LocksKept DEF ServerStep, WaitElapsed, ReadConfig, ReadSettings,
       ReadCategories, ReadRelease, ReadSound, Subscribe, Changed
<1>4. \A k \in Handler \ {h} : pc'[k] = pc[k] /\ got'[k] = got[k]
  BY DEF ServerStep, WaitElapsed, ReadDevice, ReadConfig, ReadSettings, ReadCategories,
     ReadRelease, ReadSound, Record, Subscribe, Changed, GoTo, TypeOK
<1>5. ASSUME NEW e \in Device, conn[e] # h PROVE Sample(e)' = Sample(e)
  <2>1. conn[e] # None => conn[e] \in Handler \ {h}
    BY <1>5 DEF TypeOK
  <2> QED
    BY <1>2, <1>4, <2>1, SampleFrame
<1>6. \A e \in Device : conn[e] = h => e = d
  BY <1>1, PollAssumption DEF Agree
<1>7. got[h] \in Got /\ h # None
  BY PollAssumption DEF TypeOK
<1>8. Sample(d)' \in {Sample(d), RowOf(d).lock, applied[d].lock}
  <2>1. CASE conn[d] # h
    BY <1>5, <2>1
  <2>2. CASE conn[d] = h /\ got'[h].config = None
    BY <1>2, <2>2 DEF Sample
  <2>3. CASE conn[d] = h /\ ReadConfig(h) /\ h \in row
    <3>1. ConfigPart(d) \in ConfigParts
      BY PartTypes DEF TypeOK
    <3>2. got'[h].config = ConfigPart(d) /\ pc'[h] = "settings"
      BY <1>1, <2>3 DEF ReadConfig, GoTo, TypeOK, Got
    <3> QED
      BY <1>2, <1>7, <2>3, <3>1, <3>2, PollAssumption DEF Sample, ConfigPart
  <2>4. CASE conn[d] = h /\ got'[h].config = got[h].config
             /\ {pc[h], pc'[h]} \cap NoConfig = {}
    BY <1>2, <2>4 DEF Sample
  <2>5. ReadConfig(h) /\ h \notin row => got'[h].config = None
    BY DEF ReadConfig, ReadSoFar
  <2>6. Subscribe(h) => got'[h].config = None
    BY DEF Subscribe, TypeOK, Nothing
  <2>7. ReadDevice(h) => got'[h].config = None
    BY <1>7 DEF ReadDevice, TypeOK, Got, ReadSoFar
  <2>8. ASSUME ReadSettings(h) \/ ReadCategories(h) \/ ReadRelease(h) \/ ReadSound(h)
               \/ Record(h) \/ Changed(h) \/ WaitElapsed(h)
        PROVE  got'[h].config = got[h].config
               /\ {pc[h], pc'[h]} \cap NoConfig = {}
    BY <1>7, <2>8 DEF ReadSettings, ReadCategories, ReadRelease, ReadSound, Record,
       Changed, WaitElapsed, GoTo, TypeOK, Got, NoConfig
  <2> QED
    BY <2>1, <2>2, <2>3, <2>4, <2>5, <2>6, <2>7, <2>8 DEF ServerStep
<1> QED
  BY <1>2, <1>3, <1>5, <1>6, <1>8, DeliveryStep, StableFrame

\* A failed statement drops the sample, if it was already taken.
LEMMA StatementFailsRefines ==
    ASSUME IInv, NEW h \in Handler, StatementFails(h) PROVE [Delivery!Next]_Delivery!vars
<1> USE DEF IInv
<1>1. PICK d \in Device : dev[h] = d
  BY DEF StatementFails, ReadSoFar, Reads
<1>2. UNCHANGED <<conn, applied, saved, phase, got>>
  BY DEF StatementFails, clientVars
<1>3. ASSUME NEW e \in Device PROVE RowOf(e).lock' = RowOf(e).lock
  <2>1. CASE RecordReport(d, req[h].status, None)
    <3>1. req[h].status \in Statuses \cup {None} /\ None \in Builds \cup {None}
      BY DEF TypeOK, Request
    <3> QED
      BY <2>1, <3>1, RecordReportReads DEF SameReads, ConfigPart, TypeOK
  <2> QED
    BY <1>1, <2>1, LocksKept DEF StatementFails
<1>4. pc'[h] \in NoConfig /\ \A k \in Handler \ {h} : pc'[k] = pc[k]
  BY DEF StatementFails, GoTo, NoConfig, TypeOK
<1>5. ASSUME NEW e \in Device, conn[e] # h PROVE Sample(e)' = Sample(e)
  <2>1. conn[e] # None => conn[e] \in Handler \ {h}
    BY <1>5 DEF TypeOK
  <2> QED
    BY <1>2, <1>4, <2>1, SampleFrame
<1>6. \A e \in Device : conn[e] = h => e = d
  BY <1>1, PollAssumption DEF Agree
<1>7. conn[d] = h => Sample(d)' = applied[d].lock
  BY <1>2, <1>4 DEF Sample
<1> QED
  BY <1>2, <1>3, <1>5, <1>6, <1>7, DeliveryStep, StableFrame

\* When handler h is freed, the samples of the devices that do not wait for it stay.
LEMMA FreeSample ==
    ASSUME IInv, NEW h \in Handler, Free(h), NEW e \in Device, conn[e] # h,
           conn'[e] = conn[e], applied'[e] = applied[e]
    PROVE  Sample(e)' = Sample(e)
<1>1. conn[e] # None => conn[e] \in Handler \ {h}
  BY DEF IInv, TypeOK
<1> QED
  BY <1>1, SampleFrame DEF Free, IInv, TypeOK

LEMMA AbandonRefines ==
    ASSUME IInv, NEW h \in Handler, Abandon(h) PROVE UNCHANGED Delivery!vars
<1>1. ASSUME NEW e \in Device PROVE conn[e] # h
  BY StoreAssumption, PollAssumption DEF IInv, Abandon, Waits, Agree
<1>2. \A e \in Device : Sample(e)' = Sample(e)
  BY <1>1, FreeSample DEF Abandon, clientVars
<1>3. \A e \in Device : Stable(e)' = Stable(e)
  BY StableFrame DEF Abandon, clientVars
<1> QED
  BY <1>2, <1>3, LocksKept DEF Delivery!vars, Abandon, clientVars

\* A new request has read nothing, and the client that makes it waits for none.
LEMMA ConnectRefines ==
    ASSUME IInv, NEW d \in Device, Poll(d) \/ Retry(d) PROVE UNCHANGED Delivery!vars
<1> USE DEF IInv
<1>1. PICK h \in Handler : \E request : Connect(d, h, request)
  BY DEF Poll, Retry
<1>2. UNCHANGED <<applied, saved, storeVars>>
  BY DEF Poll, Retry
<1>3. conn[d] = None
  BY DEF Poll, Retry, Agree
<1>4. conn'[d] = h /\ got'[h].config = None
  BY <1>1 DEF Connect, TypeOK, ReadSoFar
<1>5. Sample(d)' = Sample(d)
  BY <1>2, <1>3, <1>4 DEF Sample
<1>6. ASSUME NEW e \in Device \ {d} PROVE Sample(e)' = Sample(e)
  <2>1. conn[e] # None => conn[e] \in Handler \ {h}
    BY <1>1 DEF TypeOK, Agree, Connect
  <2> QED
    BY <1>1, <1>2, <2>1, SampleFrame DEF Connect, GoTo, TypeOK
<1>8. \A e \in Device : Stable(e)' = Stable(e)
  BY <1>2, StableFrame
<1> QED
  BY <1>2, <1>5, <1>6, <1>8, LocksKept DEF Delivery!vars

\* Whatever loses a request drops its sample.
LEMMA FailureRefines ==
    ASSUME IInv, RestartServer \/ \E d \in Device : LoseConnection(d)
    PROVE  [Delivery!Next]_Delivery!vars
<1> USE DEF IInv
<1>1. UNCHANGED <<version, applied, saved, storeVars>>
  BY DEF RestartServer, LoseConnection
<1>2. ASSUME NEW e \in Device PROVE Stable(e)' = Stable(e)
  BY <1>1, StableFrame
<1>3. CASE RestartServer
  <2>1. \A e \in Device : Sample(e)' = applied[e].lock
    BY <1>1, <1>3 DEF RestartServer, Sample
  <2>2. \A e \in Device : Stable(e)' = Stable(e)
    BY <1>2, <1>3 DEF RestartServer
  <2>3. Delivery!Drop(Device)
    BY <1>1, <2>1, <2>2, LocksKept DEF Delivery!Drop
  <2> QED
    BY <2>3 DEF Delivery!Next
<1>4. ASSUME NEW d \in Device, LoseConnection(d) PROVE [Delivery!Next]_Delivery!vars
  <2>1. conn' = [e \in Device |-> IF e \in {d} THEN None ELSE conn[e]]
        /\ UNCHANGED <<pc, got>> /\ AfterFailure({d})
    BY <1>4 DEF LoseConnection, handlerVars, TypeOK
  <2>2. Sample(d)' = applied[d].lock
    BY <1>1, <2>1 DEF Sample, TypeOK
  <2>3. \A e \in Device \ {d} : Sample(e)' = Sample(e)
    BY <1>1, <2>1, SampleFrame DEF TypeOK
  <2>4. \A e \in Device : Stable(e)' = Stable(e)
    BY <1>2, <2>1
  <2> QED
    BY <1>1, <2>2, <2>3, <2>4, LocksKept, DeliveryStep
<1> QED
  BY <1>3, <1>4

\* A restarted service obeys what it had saved, and waits for no answer.
LEMMA RestartRefines ==
    ASSUME IInv, NEW d \in Device, NEW b \in Builds, RestartService(d, b)
    PROVE  [Delivery!Next]_Delivery!vars
<1> USE DEF IInv
<1>1. /\ conn' = [conn EXCEPT ![d] = None] /\ phase' = [phase EXCEPT ![d] = "rest"]
      /\ applied' = [applied EXCEPT ![d] = saved[d]] /\ saved[d] # None
      /\ UNCHANGED <<saved, storeVars, pc, got>>
  BY DEF RestartService, RestartWith, EndFetch, handlerVars
<1>2. /\ applied'[d] = saved[d] /\ Stable(d) = saved[d].lock
      /\ Stable(d)' = saved[d].lock /\ Sample(d)' = saved[d].lock
  BY <1>1 DEF Stable, Sample, TypeOK
<1>3. ASSUME NEW e \in Device \ {d}
      PROVE  applied'[e] = applied[e] /\ Sample(e)' = Sample(e) /\ Stable(e)' = Stable(e)
  <2>1. /\ applied'[e] = applied[e] /\ conn'[e] = conn[e] /\ saved'[e] = saved[e]
        /\ phase'[e] = phase[e]
    BY <1>1 DEF TypeOK
  <2> QED
    BY <1>1, <2>1, SampleFrame, StableFrame
<1>4. \A e \in Device : RowOf(e).lock' = RowOf(e).lock
  BY <1>1, LocksKept
<1>5. /\ [e \in Device |-> applied'[e].lock]
             = [[e \in Device |-> applied[e].lock] EXCEPT ![d] = Stable(d)]
      /\ [e \in Device |-> Stable(e)'] = [e \in Device |-> Stable(e)]
      /\ [e \in Device |-> Sample(e)']
             = [[e \in Device |-> Sample(e)] EXCEPT ![d] = applied'[d].lock]
  BY <1>2, <1>3
<1>6. Delivery!Restart(d)
  BY <1>4, <1>5 DEF Delivery!Restart
<1> QED
  BY <1>6 DEF Delivery!Next

\* One that cannot restart stays with the lock it obeyed.
LEMMA CannotRestartRefines ==
    ASSUME IInv, NEW d \in Device, CannotRestart(d)
    PROVE  [Delivery!Next]_Delivery!vars
<1> USE DEF IInv
<1>1. conn' = [conn EXCEPT ![d] = None] /\ UNCHANGED <<applied, saved, storeVars, pc, got>>
  BY DEF CannotRestart, EndFetch, handlerVars
<1>2. Sample(d)' = applied[d].lock
  BY <1>1 DEF Sample, TypeOK
<1>3. ASSUME NEW e \in Device \ {d} PROVE Sample(e)' = Sample(e)
  <2>1. conn'[e] = conn[e]
    BY <1>1 DEF TypeOK
  <2> QED
    BY <1>1, <2>1, SampleFrame
<1>4. \A e \in Device : Stable(e)' = Stable(e)
  BY <1>1, StableFrame
<1> QED
  BY <1>1, <1>2, <1>3, <1>4, LocksKept, DeliveryStep

\* An answer engages the sample it carries.
LEMMA ReceiveRefines ==
    ASSUME IInv, NEW d \in Device, Receive(d) PROVE [Delivery!Next]_Delivery!vars
<1> USE DEF IInv
<1>1. conn[d] \in Handler /\ pc[conn[d]] = "reply" /\ conn[d] # None
  BY DEF Receive, TypeOK
<1>2. got[conn[d]].config \in ConfigParts /\ got[conn[d]].config # None
  BY <1>1, PollAssumption DEF ReadSoFar, HasConfig, HasDevice
<1>3. Sample(d) = got[conn[d]].config.lock
  BY <1>1, <1>2 DEF Sample, NoConfig
<1>4. applied'[d].lock = Sample(d)
  BY <1>3 DEF Receive, TypeOK, ApplyServerConfig, ReadConfigOf, ConfigOf
<1>5. conn' = [conn EXCEPT ![d] = None]
      /\ \A e \in Device \ {d} : applied'[e] = applied[e]
  BY DEF Receive, EndFetch, TypeOK
<1>6. Sample(d)' = Sample(d)
  BY <1>4, <1>5 DEF Sample, TypeOK
<1>7. ASSUME NEW e \in Device \ {d} PROVE Sample(e)' = Sample(e)
  <2>1. conn[e] # conn[d]
    BY <1>1 DEF Agree
  <2> QED
    BY <1>1, <1>5, <2>1, FreeSample DEF Receive, TypeOK
<1>8. Delivery!Engage(d)
  <2>1. \A e \in Device : RowOf(e).lock' = RowOf(e).lock
    BY LocksKept DEF Receive
  <2>2. \A e \in Device : Sample(e)' = Sample(e)
    BY <1>6, <1>7
  <2>3. \A e \in Device : applied'[e].lock = IF e = d THEN Sample(d) ELSE applied[e].lock
    BY <1>4, <1>5
  <2>4. \/ \A e \in Device : Stable(e)' = Stable(e)
        \/ \A e \in Device : Stable(e)' = IF e = d THEN Sample(d) ELSE Stable(e)
    <3>2. saved' \in {saved, [saved EXCEPT ![d] = applied'[d]], [saved EXCEPT ![d] = None]}
      BY DEF Receive, TypeOK
    <3>3. CASE saved' = saved
      BY <1>4, <1>5, <3>3 DEF Stable, TypeOK
    <3>4. CASE saved' = [saved EXCEPT ![d] = applied'[d]]
      BY <1>4, <1>5, <3>4 DEF Stable, TypeOK
    <3>5. CASE saved' = [saved EXCEPT ![d] = None]
      BY <1>4, <1>5, <3>5 DEF Stable, TypeOK
    <3> QED
      BY <3>2, <3>3, <3>4, <3>5
  <2> QED
    BY <2>1, <2>2, <2>3, <2>4 DEF Delivery!Engage
<1> QED
  BY <1>8 DEF Delivery!Next

\* A service that dies while it saves stays with the lock it obeyed.
LEMMA DieSavingRefines ==
    ASSUME IInv, NEW d \in Device, DieSaving(d) PROVE [Delivery!Next]_Delivery!vars
<1> USE DEF IInv
<1>1. conn[d] \in Handler
  BY DEF DieSaving, TypeOK
<1>2. /\ conn' = [conn EXCEPT ![d] = None] /\ phase' = [phase EXCEPT ![d] = "down"]
      /\ saved' = [saved EXCEPT ![d] = None] /\ UNCHANGED <<applied, storeVars>>
      /\ Free(conn[d]) /\ conn[d] # None
  BY DEF DieSaving, EndFetch
<1>3. Sample(d)' = applied[d].lock /\ Stable(d)' = applied[d].lock
  BY <1>2 DEF Sample, Stable, TypeOK
<1>4. ASSUME NEW e \in Device \ {d}
      PROVE  Sample(e)' = Sample(e) /\ Stable(e)' = Stable(e)
  <2>1. conn[e] # conn[d]
    BY <1>2 DEF Agree
  <2>2. conn'[e] = conn[e] /\ saved'[e] = saved[e] /\ phase'[e] = phase[e]
    BY <1>2 DEF TypeOK
  <2> QED
    BY <1>1, <1>2, <2>1, <2>2, FreeSample, StableFrame
<1>5. \A e \in Device : RowOf(e).lock' = RowOf(e).lock
  BY <1>2, LocksKept
<1>6. /\ [e \in Device |-> Stable(e)']
             = [[e \in Device |-> Stable(e)] EXCEPT ![d] = applied[d].lock]
      /\ [e \in Device |-> Sample(e)']
             = [[e \in Device |-> Sample(e)] EXCEPT ![d] = applied'[d].lock]
  BY <1>2, <1>3, <1>4
<1>7. Delivery!Restart(d)
  BY <1>2, <1>5, <1>6 DEF Delivery!Restart
<1> QED
  BY <1>7 DEF Delivery!Next

LEMMA ReceiveErrorRefines ==
    ASSUME IInv, NEW d \in Device, ReceiveError(d) \/ ReceiveFailed(d)
    PROVE  UNCHANGED Delivery!vars
<1> USE DEF IInv
<1>1. conn[d] \in Handler /\ conn[d] # None
  BY DEF ReceiveError, ReceiveFailed, TypeOK
<1>2. conn' = [conn EXCEPT ![d] = None] /\ UNCHANGED <<version, applied, saved, storeVars>>
  BY DEF ReceiveError, ReceiveFailed, EndFetch
<1>3. Sample(d)' = Sample(d)
  BY <1>2 DEF Sample, ReceiveError, ReceiveFailed, NoConfig, TypeOK
<1>4. ASSUME NEW e \in Device \ {d} PROVE Sample(e)' = Sample(e)
  <2>1. conn[e] # conn[d]
    BY <1>1 DEF Agree
  <2> QED
    BY <1>1, <1>2, <2>1, FreeSample DEF ReceiveError, ReceiveFailed, TypeOK
<1>6. \A e \in Device : Stable(e)' = Stable(e)
  BY <1>2, StableFrame
<1> QED
  BY <1>2, <1>3, <1>4, <1>6, LocksKept DEF Delivery!vars

\* A decision changes what is desired, and nothing that is on its way.
LEMMA AdminRefines ==
    ASSUME IInv, IInv', Admin PROVE [Delivery!Next]_Delivery!vars
<1>1. UNCHANGED <<pc, got, conn, applied, saved, phase>>
  BY DEF Admin, handlerVars, AdminDeleteDevice, clientVars
<1>2. \A e \in Device : Sample(e)' = Sample(e) /\ Stable(e)' = Stable(e)
  BY <1>1, SampleFrame, StableFrame
<1>3. ASSUME NEW e \in Device PROVE RowOf(e).lock' \in LockValue
  <2>1. StoreTypeOK'
    BY DEF IInv, TypeOK
  <2>2. FreshRow' \in Row
    BY <2>1, StoreAssumption DEF StoreTypeOK, FreshRow, Row, Settings, LockValue, Selection
  <2>3. RowOf(e)' \in Row
    BY <2>1, <2>2 DEF StoreTypeOK, RowOf, Registered
  <2> QED
    BY <2>3 DEF Row
<1>4. Delivery!Decide
  BY <1>1, <1>2, <1>3 DEF Delivery!Decide
<1> QED
  BY <1>4 DEF Delivery!Next

LEMMA ReportRefines ==
    ASSUME IInv, NEW d \in Device,
           UploadBatch(d) \/ (\E status \in Statuses : AgentReports(d, status))
    PROVE  UNCHANGED Delivery!vars
<1>1. UNCHANGED <<pc, got, conn, applied, saved, phase>>
  BY DEF UploadBatch, AgentReports, handlerVars, clientVars
<1>2. \A e \in Device : Sample(e)' = Sample(e) /\ Stable(e)' = Stable(e)
  BY <1>1, SampleFrame, StableFrame
<1>3. \A e \in Device : RowOf(e).lock' = RowOf(e).lock
  BY EnsureDeviceKeeps, LocksKept DEF UploadBatch, AgentReports, IInv, TypeOK
<1> QED
  BY <1>1, <1>2, <1>3 DEF Delivery!vars

LEMMA QuietStepRefines ==
    ASSUME Notify \/ UNCHANGED vars PROVE UNCHANGED Delivery!vars
<1>1. UNCHANGED <<storeVars, pc, got, conn, applied, saved, phase>>
  BY DEF Notify, vars, handlerVars, clientVars
<1>2. \A e \in Device : Sample(e)' = Sample(e) /\ Stable(e)' = Stable(e)
  BY <1>1, SampleFrame, StableFrame
<1> QED
  BY <1>1, <1>2, LocksKept DEF Delivery!vars

\* The long-poll protocol, with its six-statement reads, version comparisons,
\* wake-ups, retries and restarts, delivers locks as LockDelivery says: only
\* decided ones, and never an older one after a newer one, unless the service
\* restarts without having been able to save the newer one.
THEOREM LocksAreDeliveredInOrder == Spec => DeliversInOrder
<1>1. Init => Delivery!Init
  BY DEF Init, StoreInit, Delivery!Init, RowOf, Registered, FreshRow, Sample,
     Stable
<1>2. IInv /\ IInv' /\ [Next]_vars => [Delivery!Next]_Delivery!vars
  <2> SUFFICES ASSUME IInv, IInv', [Next]_vars PROVE [Delivery!Next]_Delivery!vars
    OBVIOUS
  <2>1. CASE Admin
    BY <2>1, AdminRefines
  <2>2. CASE Notify \/ UNCHANGED vars
    BY <2>2, QuietStepRefines
  <2>3. ASSUME NEW h \in Handler,
             ServerStep(h) \/ StatementFails(h) \/ WaitElapsed(h) \/ Abandon(h)
        PROVE  [Delivery!Next]_Delivery!vars
    BY <2>3, ServerRefines, StatementFailsRefines, AbandonRefines
  <2>4. ASSUME NEW d \in Device, Client(d) PROVE [Delivery!Next]_Delivery!vars
    <3>1. CASE Poll(d) \/ Retry(d)
      BY <3>1, ConnectRefines
    <3>2. CASE Receive(d)
      BY <3>2, ReceiveRefines
    <3>3. CASE ReceiveError(d) \/ ReceiveFailed(d)
      BY <3>3, ReceiveErrorRefines
    <3>4. CASE LoseConnection(d)
      BY <3>4, FailureRefines
    <3>5. CASE UploadBatch(d) \/ \E status \in Statuses : AgentReports(d, status)
      BY <3>5, ReportRefines
    <3>6. CASE DieSaving(d)
      BY <3>6, DieSavingRefines
    <3>7. CASE \E b \in Builds : RestartService(d, b)
      BY <3>7, RestartRefines
    <3>8. CASE CannotRestart(d)
      BY <3>8, CannotRestartRefines
    <3> QED
      BY <2>4, <3>1, <3>2, <3>3, <3>4, <3>5, <3>6, <3>7, <3>8 DEF Client
  <2>5. CASE RestartServer
    BY <2>5, FailureRefines
  <2> QED
    BY <2>1, <2>2, <2>3, <2>4, <2>5 DEF Next
<1> QED
  BY <1>1, <1>2, InvariantHolds, PTL DEF Spec, DeliversInOrder, Delivery!Spec

=============================================================================
