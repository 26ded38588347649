----------------------- MODULE ConfigurationSerial_proofs -----------------------
(***************************************************************************)
(* Proofs about ConfigurationStore when clients wait for an upload of a    *)
(* device to end before they send the next one (OneAtATime), for any       *)
(* number of devices, uploads, confirmations, scans and crashes.           *)
(*                                                                         *)
(* Then a device has one configuration, its versions are numbered from 1   *)
(* to their count, each content once (Serial), and the store implements    *)
(* the append-only history of ConfigurationHistory.                        *)
(***************************************************************************)
EXTENDS ConfigurationStore_proofs, FiniteSetTheorems, SequenceTheorems

Bound     == {"number", "pattern", "increment", "new", "insert", "latest", "device"}
Numbering == {"pattern", "increment", "new", "insert"}
Unstored  == {"configure", "create", "number"} \union Numbering

\* At most one upload of a device is under way.
OneBusy ==
  \A u, w \in Uploads :
    DeviceOf[u] = DeviceOf[w] /\ pc[u] \notin Over /\ pc[w] \notin Over => u = w

\* A device has at most one configuration, and all its versions are of it.
OneConfiguration ==
  /\ \A d \in Devices : \A c, e \in ConfigurationsOf(d) : c = e
  /\ \A u \in Uploads :
       /\ pc[u] = "create" => ConfigurationsOf(DeviceOf[u]) = {}
       /\ pc[u] \in Bound => mine[u] \in ConfigurationsOf(DeviceOf[u])
       /\ Stored(u) => versions[u].configuration \in ConfigurationsOf(DeviceOf[u])

\* A device has a content once, and an upload that goes on brings a new one.
ContentOnce ==
  /\ \A u, w \in Uploads :
       Stored(u) /\ Stored(w) /\ DeviceOf[u] = DeviceOf[w] /\ ContentOf[u] = ContentOf[w] => u = w
  /\ \A u \in Uploads : pc[u] \in Unstored => ~Duplicate(u)

\* The numbers of a device's versions count them, and an upload has the next one.
NumbersCount ==
  /\ \A d \in Devices :
       /\ IsFiniteSet(OfDevice(d))
       /\ \A u \in OfDevice(d) : versions[u].number \in 1 .. Cardinality(OfDevice(d))
       /\ \A n \in 1 .. Cardinality(OfDevice(d)) : \E u \in OfDevice(d) : versions[u].number = n
       /\ \A u, w \in OfDevice(d) : versions[u].number = versions[w].number => u = w
  /\ \A u \in Uploads :
       pc[u] \in Numbering => number[u] = Cardinality(OfDevice(DeviceOf[u])) + 1

\* latest_version is the highest number, or its update is the next step of an upload.
LatestFollows ==
  /\ \A u \in Uploads : pc[u] = "latest" => \A i \in Numbers(mine[u]) : i <= number[u]
  /\ crashes = 0 =>
       \A c \in Uploads : configurations[c] # Absent =>
         \/ \A i \in Numbers(c) : i <= configurations[c]
         \/ \E u \in Uploads : pc[u] = "latest" /\ mine[u] = c

\* A version is the parse of its own file, and a confirmation is about a stored one.
OwnParses ==
  /\ \A u \in Uploads : Stored(u) =>
       /\ versions[u].ir.content \in {ContentOf[u], NoContent}
       /\ versions[u].status = "COMPLETED" =>
            versions[u].ir = [vendor |-> versions[u].vendor, content |-> ContentOf[u]]
       /\ versions[u].confidence = "low" /\ Hint[u] = NoHint =>
            versions[u].status = "NEEDS_VENDOR_CONFIRMATION" /\ versions[u].ir = NoIR
  /\ \A k \in Confirms : confirm[k].at = "write" => Stored(confirm[k].read)

\* What a scan has pinned stays parsed.
PinnedParsed ==
  \A s \in Scans :
    /\ scan[s].at = "load" =>
         /\ scan[s].pinned \in Uploads /\ Stored(scan[s].pinned)
         /\ versions[scan[s].pinned].ir # NoIR
    /\ scan[s].at # "failed"
    /\ scan[s].at = "analysed" => scan[s].ir.content = ContentOf[scan[s].pinned]

Serial == /\ OneBusy /\ OneConfiguration /\ ContentOnce /\ NumbersCount /\ LatestFollows
          /\ OwnParses /\ PinnedParsed

-----------------------------------------------------------------------------
(* What the steps leave alone                                              *)

\* The same versions are stored, under the same configurations and numbers.
SameDocuments ==
  \A u \in Uploads :
    /\ Stored(u)' <=> Stored(u)
    /\ Stored(u) => /\ versions'[u].configuration = versions[u].configuration
                    /\ versions'[u].number = versions[u].number

\* The same uploads have inserted configurations.
SameConfigurations == \A c \in Uploads : configurations'[c] = Absent <=> configurations[c] = Absent

LEMMA SameSets ==
  ASSUME SameDocuments
  PROVE  /\ \A d \in Devices : OfDevice(d)' = OfDevice(d)
         /\ \A c \in Uploads : Numbers(c)' = Numbers(c)
         /\ \A u \in Uploads : Duplicate(u)' <=> Duplicate(u)
  BY DEF SameDocuments, OfDevice, Numbers, VersionsOf, Duplicate, Stored

LEMMA SameConfigurationsOf ==
  ASSUME SameConfigurations
  PROVE  \A d : ConfigurationsOf(d)' = ConfigurationsOf(d)
  BY DEF SameConfigurations, ConfigurationsOf

\* A confirmation writes the version it read, when numbers name one version.
LEMMA SameVersion ==
  ASSUME IInv, OneConfiguration, NumbersCount, NEW u \in Uploads, Stored(u),
         NEW w \in Numbered(versions[u].configuration, versions[u].number)
  PROVE  w = u
<1> USE StoreAssumption
<1>1. w \in Uploads /\ Stored(w) /\ versions[w].configuration = versions[u].configuration
      /\ versions[w].number = versions[u].number
  BY DEF Numbered, VersionsOf
<1>2. DeviceOf[w] = DeviceOf[u] /\ DeviceOf[u] \in Devices
  BY <1>1 DEF OneConfiguration, ConfigurationsOf
<1>3. u \in OfDevice(DeviceOf[u]) /\ w \in OfDevice(DeviceOf[u])
  BY <1>1, <1>2 DEF OfDevice
<1>4. QED
  BY <1>1, <1>2, <1>3 DEF NumbersCount

LEMMA WriteKeeps ==
  ASSUME IInv, NEW k \in Confirms, WriteVersion(k)
  PROVE  SameDocuments
<1>1. PICK w \in Uploads : Stored(w) /\ versions' = [versions EXCEPT ![w] = Confirmed(k, @)]
  BY DEF WriteVersion, Numbered, VersionsOf
<1>2. /\ versions[w] \in Versions
      /\ Confirmed(k, versions[w]) \in Versions
      /\ Confirmed(k, versions[w]).configuration = versions[w].configuration
      /\ Confirmed(k, versions[w]).number = versions[w].number
  BY <1>1, StoredIsVersion, ConfirmedType DEF WriteVersion, ReadStored, IInv
<1>3. QED
  BY <1>1, <1>2, NoVersionIsNone DEF IInv, TypeOK, Stored, SameDocuments

\* A step that no upload takes, and that is not a crash, changes no upload.
Elsewhere ==
  UNCHANGED <<configurations, pc, mine, number, crashes>> /\ SameDocuments

LEMMA ElsewhereStep ==
  ASSUME IInv
  PROVE  /\ \A k \in Confirms : ConfirmStep(k) => Elsewhere
         /\ \A s \in Scans : ScanStep(s) => Elsewhere
         /\ UNCHANGED vars => Elsewhere
<1>1. versions' = versions => SameDocuments
  BY DEF SameDocuments, Stored
<1>2. ASSUME NEW k \in Confirms, ConfirmStep(k) PROVE Elsewhere
  <2>1. CASE WriteVersion(k)
    BY <2>1, WriteKeeps DEF WriteVersion, Elsewhere
  <2>2. CASE ~WriteVersion(k)
    BY <1>1, <1>2, <2>2 DEF ConfirmStep, ReadVersion, ConfirmDevice, Elsewhere
  <2>3. QED
    BY <2>1, <2>2
<1>3. ASSUME NEW s \in Scans, ScanStep(s) PROVE Elsewhere
  BY <1>1, <1>3 DEF ScanStep, CreateScan, LoadVersion, Elsewhere
<1>4. UNCHANGED vars => Elsewhere
  BY <1>1 DEF vars, Elsewhere
<1>5. QED
  BY <1>2, <1>3, <1>4

\* The steps about patterns, and the last one, only move the upload on.
MovesOn(u) ==
  /\ UNCHANGED <<configurations, versions, mine, number, crashes>>
  /\ \E at \in Phases :
       /\ pc' = [pc EXCEPT ![u] = at]
       /\ \/ pc[u] \in Numbering \ {"insert"} /\ at \in Numbering
          \/ pc[u] = "device" /\ at = "done"

LEMMA PatternSteps ==
  ASSUME NEW u \in Uploads,
         FindPattern(u) \/ IncrementPattern(u) \/ InsertPattern(u) \/ UpdateDevice(u)
  PROVE  MovesOn(u)
<1>1. CASE FindPattern(u)
  <2>1. PICK at \in {"new", "increment"} : pc' = [pc EXCEPT ![u] = at]
    BY <1>1 DEF FindPattern
  <2>2. QED
    BY <1>1, <2>1 DEF FindPattern, MovesOn, Numbering, Phases
<1>2. CASE IncrementPattern(u)
  BY <1>2 DEF IncrementPattern, MovesOn, Numbering, Phases
<1>3. CASE InsertPattern(u)
  BY <1>3 DEF InsertPattern, MovesOn, Numbering, Phases
<1>4. CASE UpdateDevice(u)
  BY <1>4 DEF UpdateDevice, MovesOn, Phases
<1>5. QED
  BY <1>1, <1>2, <1>3, <1>4

LEMMA CrashStep ==
  ASSUME IInv, Crash
  PROVE  /\ \A u \in Uploads : pc'[u] \in Over /\ (pc'[u] = pc[u] \/ pc'[u] = "lost")
         /\ UNCHANGED <<configurations, versions, patterns, vendor, mine, number>>
         /\ crashes' # 0
  BY DEF Crash, Over, IInv, TypeOK

\* The insert of a version adds it to its device, and touches no other.
LEMMA InsertStep ==
  ASSUME IInv, NEW u \in Uploads, InsertVersion(u)
  PROVE  /\ pc[u] = "insert" /\ pc' = [pc EXCEPT ![u] = "latest"]
         /\ UNCHANGED <<configurations, mine, number, confirm, scan, crashes>>
         /\ versions'[u] = VersionDocument(u) /\ mine[u] \in Uploads
         /\ ~Stored(u) /\ Stored(u)'
         /\ \A w \in Uploads \ {u} : versions'[w] = versions[w] /\ (Stored(w)' <=> Stored(w))
         /\ \A d \in Devices :
              OfDevice(d)' = IF d = DeviceOf[u] THEN OfDevice(d) \union {u} ELSE OfDevice(d)
<1>1. ~Stored(u) /\ VersionDocument(u) \in Versions /\ mine[u] \in Uploads
  BY DocumentType DEF IInv, Progress, InsertVersion, Phases
<1>2. versions' = [versions EXCEPT ![u] = VersionDocument(u)]
  BY DEF InsertVersion
<1>3. versions'[u] = VersionDocument(u) /\ Stored(u)'
  BY <1>1, <1>2, NoVersionIsNone DEF IInv, TypeOK, Stored
<1>4. \A w \in Uploads \ {u} : versions'[w] = versions[w] /\ (Stored(w)' <=> Stored(w))
  BY <1>2 DEF IInv, TypeOK, Stored
<1>5. \A d \in Devices :
        OfDevice(d)' = IF d = DeviceOf[u] THEN OfDevice(d) \union {u} ELSE OfDevice(d)
  BY <1>1, <1>3, <1>4 DEF OfDevice
<1>6. QED
  BY <1>1, <1>3, <1>4, <1>5 DEF InsertVersion

\* The versions of a device's configuration are those of the device.
LEMMA VersionsOfDevice ==
  ASSUME OneConfiguration, NEW c \in Uploads, NEW d \in Devices, c \in ConfigurationsOf(d)
  PROVE  VersionsOf(c) = OfDevice(d)
<1> USE StoreAssumption
<1>1. ASSUME NEW u \in Uploads, Stored(u)
      PROVE  versions[u].configuration = c <=> DeviceOf[u] = d
  BY <1>1 DEF OneConfiguration, ConfigurationsOf
<1>2. QED
  BY <1>1 DEF VersionsOf, OfDevice

-----------------------------------------------------------------------------
(* One upload of a device at a time                                        *)

LEMMA OneBusyStep ==
  ASSUME IInv, OneAtATime, OneBusy, [Next]_vars
  PROVE  OneBusy'
<1> USE StoreAssumption
<1> SUFFICES ASSUME NEW v \in Uploads, NEW w \in Uploads, DeviceOf[v] = DeviceOf[w],
                    pc'[v] \notin Over, pc'[w] \notin Over
             PROVE  v = w
  BY DEF OneBusy
<1>1. ASSUME NEW u \in Uploads, CheckDuplicate(u) PROVE v = w
  <2>1. /\ \A x \in Uploads \ {u} : pc'[x] = pc[x]
        /\ ~Busy(DeviceOf[u])
    BY <1>1 DEF CheckDuplicate, IInv, TypeOK
  <2>2. QED
    BY <2>1 DEF OneBusy, Busy
<1>2. ASSUME NEW u \in Uploads, UploadStep(u), ~CheckDuplicate(u) PROVE v = w
  <2>1. /\ \A x \in Uploads \ {u} : pc'[x] = pc[x]
        /\ pc[u] \notin Over
    BY <1>2, PatternSteps DEF UploadStep, FindConfiguration, CreateConfiguration, NumberVersion,
      InsertVersion, UpdateLatest, MovesOn, Numbering, Over, IInv, TypeOK
  <2>2. QED
    BY <2>1 DEF OneBusy
<1>3. Elsewhere => v = w
  BY DEF Elsewhere, OneBusy
<1>4. Crash => v = w
  BY CrashStep
<1>5. QED
  BY <1>1, <1>2, <1>3, <1>4, ElsewhereStep DEF Next

-----------------------------------------------------------------------------
(* One configuration of a device                                           *)

LEMMA OneConfigurationStep ==
  ASSUME IInv, OneBusy, OneConfiguration, [Next]_vars
  PROVE  OneConfiguration'
<1> USE StoreAssumption DEF IInv
<1>1. ASSUME Elsewhere PROVE OneConfiguration'
  BY <1>1 DEF Elsewhere, SameDocuments, OneConfiguration, ConfigurationsOf
<1>2. ASSUME Crash PROVE OneConfiguration'
  BY <1>2, CrashStep DEF OneConfiguration, ConfigurationsOf, Stored, Bound, Over, Numbering
<1>3. ASSUME NEW u \in Uploads, MovesOn(u) PROVE OneConfiguration'
  BY <1>3 DEF MovesOn, OneConfiguration, ConfigurationsOf, Stored, Bound, Numbering, TypeOK
<1>4. ASSUME NEW u \in Uploads, CheckDuplicate(u) PROVE OneConfiguration'
  BY <1>4 DEF CheckDuplicate, OneConfiguration, ConfigurationsOf, Stored, Bound, TypeOK
<1>5. ASSUME NEW u \in Uploads, FindConfiguration(u) PROVE OneConfiguration'
  BY <1>5 DEF FindConfiguration, OneConfiguration, ConfigurationsOf, Stored, Bound, TypeOK
<1>6. ASSUME NEW u \in Uploads, CreateConfiguration(u) PROVE OneConfiguration'
  <2>1. /\ pc[u] = "create" /\ ConfigurationsOf(DeviceOf[u]) = {}
        /\ pc' = [pc EXCEPT ![u] = "number"] /\ mine' = [mine EXCEPT ![u] = u]
        /\ versions' = versions
    BY <1>6 DEF CreateConfiguration, OneConfiguration
  <2>2. \A d \in Devices :
          ConfigurationsOf(d)' = ConfigurationsOf(d) \union (IF d = DeviceOf[u] THEN {u} ELSE {})
    BY <1>6 DEF CreateConfiguration, ConfigurationsOf, Absent, TypeOK
  <2>3. \A w \in Uploads : pc[w] = "create" /\ w # u => DeviceOf[w] # DeviceOf[u]
    BY <2>1 DEF OneBusy, Over
  <2>4. (\A d \in Devices : \A c, e \in ConfigurationsOf(d) : c = e)'
    BY <2>1, <2>2 DEF OneConfiguration
  <2>5. ASSUME NEW w \in Uploads
        PROVE  (/\ pc[w] = "create" => ConfigurationsOf(DeviceOf[w]) = {}
                /\ pc[w] \in Bound => mine[w] \in ConfigurationsOf(DeviceOf[w])
                /\ Stored(w) => versions[w].configuration \in ConfigurationsOf(DeviceOf[w]))'
    BY <2>1, <2>2, <2>3 DEF OneConfiguration, Stored, Bound, TypeOK
  <2>6. QED
    BY <2>4, <2>5 DEF OneConfiguration
<1>7. ASSUME NEW u \in Uploads, NumberVersion(u) PROVE OneConfiguration'
  BY <1>7 DEF NumberVersion, AfterNumbering, OneConfiguration, ConfigurationsOf, Stored, Bound, TypeOK
<1>8. ASSUME NEW u \in Uploads, InsertVersion(u) PROVE OneConfiguration'
  <2>1. \A d : ConfigurationsOf(d)' = ConfigurationsOf(d)
    BY <1>8, InsertStep DEF ConfigurationsOf
  <2>2. mine[u] \in ConfigurationsOf(DeviceOf[u]) /\ versions'[u].configuration = mine[u]
    <3>1. VersionDocument(u).configuration = mine[u]
      BY DEF VersionDocument
    <3>2. QED
      BY <1>8, <3>1, InsertStep DEF OneConfiguration, Bound
  <2>3. QED
    BY <1>8, <2>1, <2>2, InsertStep DEF OneConfiguration, Bound, TypeOK
<1>9. ASSUME NEW u \in Uploads, UpdateLatest(u) PROVE OneConfiguration'
  <2>1. mine[u] \in ConfigurationsOf(DeviceOf[u]) /\ number[u] \in Nat
    BY <1>9 DEF UpdateLatest, OneConfiguration, Bound, TypeOK
  <2>2. SameConfigurations
    BY <1>9, <2>1 DEF UpdateLatest, ConfigurationsOf, SameConfigurations, Absent, TypeOK
  <2>3. \A d : ConfigurationsOf(d)' = ConfigurationsOf(d)
    BY <2>2, SameConfigurationsOf
  <2>4. QED
    BY <1>9, <2>3 DEF UpdateLatest, AfterLatest, OneConfiguration, Stored, Bound, TypeOK
<1>10. QED
  BY <1>1, <1>2, <1>3, <1>4, <1>5, <1>6, <1>7, <1>8, <1>9, ElsewhereStep, PatternSteps
  DEF Next, UploadStep

-----------------------------------------------------------------------------
(* Each content once                                                       *)

LEMMA ContentOnceStep ==
  ASSUME IInv, OneBusy, ContentOnce, [Next]_vars
  PROVE  ContentOnce'
<1> USE StoreAssumption DEF IInv
<1>1. ASSUME Elsewhere PROVE ContentOnce'
  BY <1>1, SameSets DEF Elsewhere, SameDocuments, ContentOnce
<1>2. ASSUME Crash PROVE ContentOnce'
  <2>1. \A u \in Uploads : (Stored(u)' <=> Stored(u)) /\ pc'[u] \notin Unstored
    BY <1>2, CrashStep DEF Stored, Over, Unstored, Numbering
  <2>2. QED
    BY <2>1 DEF ContentOnce
<1>3. ASSUME NEW u \in Uploads, UploadStep(u), ~InsertVersion(u) PROVE ContentOnce'
  <2>1. versions' = versions
    BY <1>3, PatternSteps DEF UploadStep, CheckDuplicate, FindConfiguration, CreateConfiguration,
      NumberVersion, UpdateLatest, MovesOn
  <2>2. \A w \in Uploads : (Stored(w)' <=> Stored(w)) /\ (Duplicate(w)' <=> Duplicate(w))
    BY <2>1 DEF Stored, Duplicate
  <2>3. \A w \in Uploads \ {u} : pc'[w] = pc[w]
    BY <1>3, PatternSteps DEF UploadStep, CheckDuplicate, FindConfiguration, CreateConfiguration,
      NumberVersion, UpdateLatest, MovesOn, TypeOK
  <2>4. pc'[u] \in Unstored => pc[u] \in Unstored \/ ~Duplicate(u)
    BY <1>3, PatternSteps DEF UploadStep, CheckDuplicate, FindConfiguration, CreateConfiguration,
      NumberVersion, UpdateLatest, AfterLatest, MovesOn, Unstored, Numbering, TypeOK
  <2>5. QED
    BY <2>2, <2>3, <2>4 DEF ContentOnce
<1>4. ASSUME NEW u \in Uploads, InsertVersion(u) PROVE ContentOnce'
  <2>1. ~Duplicate(u)
    BY <1>4, InsertStep DEF ContentOnce, Unstored, Numbering
  <2>2. (\A v, w \in Uploads :
           Stored(v) /\ Stored(w) /\ DeviceOf[v] = DeviceOf[w] /\ ContentOf[v] = ContentOf[w]
             => v = w)'
    <3> SUFFICES ASSUME NEW v \in Uploads, NEW w \in Uploads, Stored(v)', Stored(w)',
                        DeviceOf[v] = DeviceOf[w], ContentOf[v] = ContentOf[w]
                 PROVE  v = w
      OBVIOUS
    <3>1. (v = u \/ Stored(v)) /\ (w = u \/ Stored(w))
      BY <1>4, InsertStep
    <3>2. QED
      BY <2>1, <3>1 DEF ContentOnce, Duplicate
  <2>3. ASSUME NEW w \in Uploads, pc'[w] \in Unstored PROVE ~Duplicate(w)'
    <3>1. w # u /\ pc[w] \in Unstored
      BY <1>4, <2>3, InsertStep DEF Unstored, Numbering, TypeOK
    <3>2. DeviceOf[w] # DeviceOf[u]
      BY <1>4, <3>1, InsertStep DEF OneBusy, Over, Unstored, Numbering
    <3>3. ~Duplicate(w)
      BY <3>1 DEF ContentOnce
    <3>4. QED
      BY <1>4, <3>2, <3>3, InsertStep DEF Duplicate
  <2>4. QED
    BY <2>2, <2>3 DEF ContentOnce
<1>5. QED
  BY <1>1, <1>2, <1>3, <1>4, ElsewhereStep DEF Next

-----------------------------------------------------------------------------
(* Numbers count the versions                                              *)

\* An upload takes the number after the count of its device's versions.
LEMMA NextNumber ==
  ASSUME IInv, OneConfiguration, NumbersCount, NEW u \in Uploads, NumberVersion(u)
  PROVE  number' = [number EXCEPT ![u] = Cardinality(OfDevice(DeviceOf[u])) + 1]
<1> USE StoreAssumption
<1> DEFINE d == DeviceOf[u]
           count == Cardinality(OfDevice(d))
<1>1. mine[u] \in Uploads /\ d \in Devices /\ mine[u] \in ConfigurationsOf(d)
  BY DEF NumberVersion, OneConfiguration, Bound, ConfigurationsOf
<1>2. VersionsOf(mine[u]) = OfDevice(d)
  BY <1>1, VersionsOfDevice
<1>3. count \in Nat
  BY <1>1, FS_CardinalityType DEF NumbersCount
<1>4. \A i : i \in Numbers(mine[u]) <=> i \in 1 .. count
  BY <1>1, <1>2, <1>3 DEF NumbersCount, Numbers
<1>5. PICK n \in Numbers(mine[u]) \union {0} :
        (\A i \in Numbers(mine[u]) : i <= n) /\ number' = [number EXCEPT ![u] = n + 1]
  BY DEF NumberVersion
<1>6. n = count
  <2> HIDE DEF count
  <2>1. CASE count = 0
    BY <1>4, <1>5, <2>1
  <2>2. CASE count # 0
    <3>1. count \in 1 .. count
      BY <1>3, <2>2
    <3>2. count \in Numbers(mine[u])
      BY <1>4, <3>1
    <3>3. count <= n /\ (n = 0 \/ n \in 1 .. count)
      BY <1>4, <1>5, <3>2
    <3>4. QED
      BY <1>3, <2>2, <3>3
  <2>3. QED
    BY <2>1, <2>2
<1>7. QED
  BY <1>5, <1>6

\* One more version, with the next number.
LEMMA CountOneMore ==
  ASSUME IInv, NumbersCount, NEW u \in Uploads, InsertVersion(u)
  PROVE  LET d == DeviceOf[u] IN
         /\ IsFiniteSet(OfDevice(d))'
         /\ Cardinality(OfDevice(d)) \in Nat
         /\ Cardinality(OfDevice(d))' = Cardinality(OfDevice(d)) + 1
         /\ versions'[u].number = Cardinality(OfDevice(d)) + 1
<1> USE StoreAssumption
<1> DEFINE d == DeviceOf[u]
<1>1. d \in Devices /\ IsFiniteSet(OfDevice(d)) /\ u \notin OfDevice(d)
  BY InsertStep DEF NumbersCount, OfDevice
<1>2. OfDevice(d)' = OfDevice(d) \union {u}
  BY <1>1, InsertStep
<1>3. Cardinality(OfDevice(d)) \in Nat
  BY <1>1, FS_CardinalityType
<1>4. IsFiniteSet(OfDevice(d))' /\ Cardinality(OfDevice(d))' = Cardinality(OfDevice(d)) + 1
  BY <1>1, <1>2, FS_AddElement
<1>5. VersionDocument(u).number = number[u]
  BY DEF VersionDocument
<1>6. versions'[u].number = Cardinality(OfDevice(d)) + 1
  BY <1>5, InsertStep DEF NumbersCount, Numbering
<1>7. QED
  BY <1>1, <1>3, <1>4, <1>6

\* The numbers in docs count the uploads in of.
Enumerates(of, docs) ==
  /\ IsFiniteSet(of)
  /\ \A u \in of : docs[u].number \in 1 .. Cardinality(of)
  /\ \A n \in 1 .. Cardinality(of) : \E u \in of : docs[u].number = n
  /\ \A u, w \in of : docs[u].number = docs[w].number => u = w

\* The part of NumbersCount that is about one device.
Counted(d) == Enumerates(OfDevice(d), versions)

LEMMA CountedStays ==
  ASSUME SameDocuments, NEW d \in Devices, Counted(d)
  PROVE  Counted(d)'
<1>1. OfDevice(d)' = OfDevice(d)
  BY SameSets
<1>2. \A u \in OfDevice(d) : versions'[u].number = versions[u].number
  BY DEF SameDocuments, OfDevice
<1>3. QED
  BY <1>1, <1>2 DEF Counted, Enumerates

LEMMA CountedInsert ==
  ASSUME IInv, NumbersCount, NEW u \in Uploads, InsertVersion(u), NEW d \in Devices
  PROVE  Counted(d)'
<1> USE StoreAssumption
<1>1. Counted(d)
  BY DEF NumbersCount, Counted, Enumerates
<1>2. CASE d # DeviceOf[u]
  <2>1. OfDevice(d)' = OfDevice(d) /\ u \notin OfDevice(d)
    BY <1>2, InsertStep DEF OfDevice
  <2>2. \A w \in OfDevice(d) : versions'[w] = versions[w]
    BY <2>1, InsertStep DEF OfDevice
  <2>3. QED
    BY <1>1, <2>1, <2>2 DEF Counted, Enumerates
<1>3. CASE d = DeviceOf[u]
  <2> DEFINE n == Cardinality(OfDevice(d))
  <2>1. /\ IsFiniteSet(OfDevice(d))' /\ n \in Nat /\ n' = n + 1 /\ versions'[u].number = n + 1
    BY <1>3, CountOneMore
  <2>2. OfDevice(d)' = OfDevice(d) \union {u}
    BY <1>3, InsertStep
  <2>3. \A w \in OfDevice(d) : w # u /\ versions'[w] = versions[w]
    BY InsertStep DEF OfDevice
  <2>4. \A w \in OfDevice(d)' : versions'[w].number \in 1 .. n + 1
    BY <1>1, <2>1, <2>2, <2>3 DEF Counted, Enumerates
  <2>5. ASSUME NEW i \in 1 .. n + 1 PROVE \E w \in OfDevice(d)' : versions'[w].number = i
    <3>1. CASE i = n + 1
      BY <2>1, <2>2, <3>1
    <3>2. CASE i # n + 1
      <4>1. i \in 1 .. n
        BY <2>1, <3>2
      <4>2. PICK w \in OfDevice(d) : versions[w].number = i
        BY <1>1, <4>1 DEF Counted, Enumerates
      <4>3. QED
        BY <2>2, <2>3, <4>2
    <3>3. QED
      BY <3>1, <3>2
  <2>6. ASSUME NEW v \in OfDevice(d)', NEW w \in OfDevice(d)', versions'[v].number = versions'[w].number
        PROVE  v = w
    <3>1. \A x \in OfDevice(d) : versions'[x].number # n + 1
      BY <1>1, <2>1, <2>3 DEF Counted, Enumerates
    <3>2. QED
      BY <1>1, <2>1, <2>2, <2>3, <2>6, <3>1 DEF Counted, Enumerates
  <2>7. QED
    BY <2>1, <2>4, <2>5, <2>6 DEF Counted, Enumerates
<1>4. QED
  BY <1>2, <1>3

LEMMA NumbersCountStep ==
  ASSUME IInv, OneBusy, OneConfiguration, NumbersCount, [Next]_vars
  PROVE  NumbersCount'
<1> USE StoreAssumption DEF IInv
<1> DEFINE Taken(w) == pc[w] \in Numbering => number[w] = Cardinality(OfDevice(DeviceOf[w])) + 1
<1>0. /\ \A d \in Devices : Counted(d)
      /\ \A w \in Uploads : Taken(w)
  BY DEF NumbersCount, Counted, Enumerates
<1>1. ASSUME Elsewhere PROVE NumbersCount'
  <2>1. (\A d \in Devices : Counted(d))'
    BY <1>0, <1>1, CountedStays DEF Elsewhere
  <2>2. (\A w \in Uploads : Taken(w))'
    BY <1>0, <1>1, SameSets DEF Elsewhere
  <2>3. QED
    BY <2>1, <2>2 DEF NumbersCount, Counted, Enumerates
<1>2. ASSUME versions' = versions,
             \A w \in Uploads : pc'[w] \in Numbering =>
               \/ pc[w] \in Numbering /\ number'[w] = number[w]
               \/ number'[w] = Cardinality(OfDevice(DeviceOf[w])) + 1
      PROVE NumbersCount'
  <2>1. SameDocuments
    BY <1>2 DEF SameDocuments, Stored
  <2>2. (\A d \in Devices : Counted(d))'
    BY <1>0, <2>1, CountedStays
  <2>3. (\A w \in Uploads : Taken(w))'
    BY <1>0, <1>2, <2>1, SameSets
  <2>4. QED
    BY <2>2, <2>3 DEF NumbersCount, Counted, Enumerates
<1>3. ASSUME Crash PROVE NumbersCount'
  BY <1>2, <1>3, CrashStep DEF Over, Numbering
<1>4. ASSUME NEW u \in Uploads, UploadStep(u), ~InsertVersion(u), ~NumberVersion(u)
      PROVE  NumbersCount'
  <2>1. versions' = versions /\ number' = number
    BY <1>4, PatternSteps DEF UploadStep, CheckDuplicate, FindConfiguration, CreateConfiguration,
      UpdateLatest, MovesOn
  <2>2. \A w \in Uploads : pc'[w] \in Numbering => pc[w] \in Numbering
    BY <1>4, PatternSteps DEF UploadStep, CheckDuplicate, FindConfiguration, CreateConfiguration,
      UpdateLatest, AfterLatest, MovesOn, Numbering, TypeOK
  <2>3. QED
    BY <1>2, <2>1, <2>2
<1>5. ASSUME NEW u \in Uploads, NumberVersion(u) PROVE NumbersCount'
  <2>1. versions' = versions /\ \A w \in Uploads \ {u} : pc'[w] = pc[w] /\ number'[w] = number[w]
    BY <1>5 DEF NumberVersion, TypeOK
  <2>2. number'[u] = Cardinality(OfDevice(DeviceOf[u])) + 1
    BY <1>5, NextNumber DEF TypeOK
  <2>3. QED
    BY <1>2, <2>1, <2>2
<1>6. ASSUME NEW u \in Uploads, InsertVersion(u) PROVE NumbersCount'
  <2>1. (\A d \in Devices : Counted(d))'
    BY <1>6, CountedInsert
  <2>2. ASSUME NEW w \in Uploads, pc'[w] \in Numbering
        PROVE  number'[w] = Cardinality(OfDevice(DeviceOf[w]))' + 1
    <3>1. w # u /\ pc[w] \in Numbering /\ number' = number
      BY <1>6, <2>2, InsertStep DEF Numbering, TypeOK
    <3>2. DeviceOf[w] # DeviceOf[u]
      BY <1>6, <3>1, InsertStep DEF OneBusy, Over, Numbering
    <3>3. \A d \in Devices :
            OfDevice(d)' = IF d = DeviceOf[u] THEN OfDevice(d) \union {u} ELSE OfDevice(d)
      BY <1>6, InsertStep
    <3>4. OfDevice(DeviceOf[w])' = OfDevice(DeviceOf[w])
      <4>1. DeviceOf[w] \in Devices
        OBVIOUS
      <4>2. QED
        BY <3>2, <3>3, <4>1
    <3>5. QED
      BY <1>0, <3>1, <3>4
  <2>3. QED
    BY <2>1, <2>2 DEF NumbersCount, Counted, Enumerates
<1>7. QED
  BY <1>1, <1>3, <1>4, <1>5, <1>6, ElsewhereStep DEF Next

-----------------------------------------------------------------------------
(* The newest number is the configuration's, or about to be                *)

\* The versions, the configurations and the updates that are due stay as they are.
SameLatest ==
  /\ SameDocuments /\ UNCHANGED <<configurations, crashes>>
  /\ \A u \in Uploads :
       /\ pc'[u] = "latest" <=> pc[u] = "latest"
       /\ pc[u] = "latest" => mine'[u] = mine[u] /\ number'[u] = number[u]

LEMMA LatestStays ==
  ASSUME IInv, LatestFollows, SameLatest
  PROVE  LatestFollows'
<1>1. \A c \in Uploads : Numbers(c)' = Numbers(c)
  BY SameSets DEF SameLatest
<1>2. \A u \in Uploads : pc[u] = "latest" => mine[u] \in Uploads
  BY DEF IInv, Progress
<1>3. (\A u \in Uploads : pc[u] = "latest" => \A i \in Numbers(mine[u]) : i <= number[u])'
  BY <1>1, <1>2 DEF SameLatest, LatestFollows
<1>4. ASSUME crashes' = 0, NEW c \in Uploads, configurations'[c] # Absent
      PROVE  \/ \A i \in Numbers(c)' : i <= configurations'[c]
             \/ \E u \in Uploads : pc'[u] = "latest" /\ mine'[u] = c
  BY <1>1, <1>4 DEF SameLatest, LatestFollows
<1>5. QED
  BY <1>3, <1>4 DEF LatestFollows

LEMMA LatestStep ==
  ASSUME IInv, OneBusy, OneConfiguration, NumbersCount, LatestFollows, [Next]_vars
  PROVE  LatestFollows'
<1> USE StoreAssumption DEF IInv
<1>1. ASSUME Elsewhere PROVE LatestFollows'
  BY <1>1, LatestStays DEF Elsewhere, SameLatest
<1>2. ASSUME Crash PROVE LatestFollows'
  BY <1>2, CrashStep DEF LatestFollows, Over
<1>3. ASSUME NEW u \in Uploads, UploadStep(u),
             ~CreateConfiguration(u), ~InsertVersion(u), ~UpdateLatest(u)
      PROVE  LatestFollows'
  <2>1. versions' = versions => SameDocuments
    BY DEF SameDocuments, Stored
  <2>2. SameLatest
    BY <1>3, <2>1, PatternSteps DEF UploadStep, CheckDuplicate, FindConfiguration, NumberVersion,
      AfterNumbering, MovesOn, Numbering, SameLatest, TypeOK
  <2>3. QED
    BY <2>2, LatestStays
<1>4. ASSUME NEW u \in Uploads, CreateConfiguration(u) PROVE LatestFollows'
  <2>1. ConfigurationsOf(DeviceOf[u]) = {}
    BY <1>4 DEF CreateConfiguration, OneConfiguration
  <2>2. Numbers(u) = {}
    BY <2>1 DEF OneConfiguration, ConfigurationsOf, Numbers, VersionsOf
  <2>3. \A c \in Uploads : Numbers(c)' = Numbers(c)
    BY <1>4 DEF CreateConfiguration, Numbers, VersionsOf, Stored
  <2>4. /\ \A w \in Uploads \ {u} : pc'[w] = pc[w] /\ mine'[w] = mine[w]
                                     /\ configurations'[w] = configurations[w]
        /\ number' = number /\ crashes' = crashes
        /\ pc[u] = "create" /\ pc'[u] = "number"
    BY <1>4 DEF CreateConfiguration, TypeOK
  <2>5. (\A w \in Uploads : pc[w] = "latest" => \A i \in Numbers(mine[w]) : i <= number[w])'
    BY <2>3, <2>4 DEF LatestFollows, Progress
  <2>6. ASSUME crashes' = 0, NEW c \in Uploads, configurations'[c] # Absent
        PROVE  \/ \A i \in Numbers(c)' : i <= configurations'[c]
               \/ \E w \in Uploads : pc'[w] = "latest" /\ mine'[w] = c
    <3>1. CASE c = u
      BY <2>2, <2>3, <3>1
    <3>2. CASE c # u
      BY <2>3, <2>4, <2>6, <3>2 DEF LatestFollows
    <3>3. QED
      BY <3>1, <3>2
  <2>7. QED
    BY <2>5, <2>6 DEF LatestFollows
<1>5. ASSUME NEW u \in Uploads, InsertVersion(u) PROVE LatestFollows'
  <2> DEFINE d == DeviceOf[u]
  <2>1. /\ \A c \in Uploads : Numbers(c)' = Numbers(c) \union (IF c = mine[u] THEN {number[u]} ELSE {})
        /\ pc[u] = "insert" /\ pc' = [pc EXCEPT ![u] = "latest"]
        /\ UNCHANGED <<configurations, mine, number, crashes>>
    BY <1>5, NumbersInsert, InsertStep
  <2>2. d \in Devices /\ mine[u] \in Uploads /\ mine[u] \in ConfigurationsOf(d)
    BY <2>1 DEF OneConfiguration, Bound, ConfigurationsOf
  <2>3. Cardinality(OfDevice(d)) \in Nat /\ number[u] = Cardinality(OfDevice(d)) + 1
    BY <1>5, <2>1, CountOneMore DEF NumbersCount, Numbering
  <2>4. \A i \in Numbers(mine[u]) : i <= number[u]
    <3>1. VersionsOf(mine[u]) = OfDevice(d)
      BY <2>2, VersionsOfDevice
    <3>2. \A i \in Numbers(mine[u]) : i \in 1 .. Cardinality(OfDevice(d))
      BY <2>2, <3>1 DEF Numbers, NumbersCount
    <3>3. QED
      BY <2>3, <3>2
  <2>5. ASSUME NEW w \in Uploads, pc'[w] = "latest" PROVE \A i \in Numbers(mine[w])' : i <= number[w]
    <3>1. CASE w = u
      BY <2>1, <2>2, <2>3, <2>4, <3>1
    <3>2. CASE w # u
      <4>1. pc[w] = "latest"
        BY <2>1, <2>5, <3>2 DEF TypeOK
      <4>2. DeviceOf[w] # d
        BY <2>1, <3>2, <4>1 DEF OneBusy, Over
      <4>3. mine[w] \in Uploads /\ mine[w] # mine[u]
        BY <2>2, <4>1, <4>2 DEF OneConfiguration, Bound, ConfigurationsOf
      <4>4. QED
        BY <2>1, <4>1, <4>3 DEF LatestFollows
    <3>3. QED
      BY <3>1, <3>2
  <2>6. ASSUME crashes = 0, NEW c \in Uploads, configurations[c] # Absent
        PROVE  \/ \A i \in Numbers(c)' : i <= configurations[c]
               \/ \E w \in Uploads : pc'[w] = "latest" /\ mine[w] = c
    <3>1. CASE c = mine[u]
      BY <2>1, <3>1 DEF TypeOK
    <3>2. CASE c # mine[u]
      BY <2>1, <2>6, <3>2 DEF LatestFollows, TypeOK
    <3>3. QED
      BY <3>1, <3>2
  <2>7. QED
    BY <2>1, <2>5, <2>6 DEF LatestFollows
<1>6. ASSUME NEW u \in Uploads, UpdateLatest(u) PROVE LatestFollows'
  <2>1. /\ pc[u] = "latest" /\ pc'[u] \in {"device", "done"} /\ mine[u] \in Uploads
        /\ \A w \in Uploads \ {u} : pc'[w] = pc[w]
        /\ configurations'[mine[u]] = number[u]
        /\ \A c \in Uploads \ {mine[u]} : configurations'[c] = configurations[c]
        /\ UNCHANGED <<versions, mine, number, crashes>>
    BY <1>6 DEF UpdateLatest, AfterLatest, Progress, TypeOK
  <2>2. \A c \in Uploads : Numbers(c)' = Numbers(c)
    BY <2>1 DEF Numbers, VersionsOf, Stored
  <2>3. (\A w \in Uploads : pc[w] = "latest" => \A i \in Numbers(mine[w]) : i <= number[w])'
    BY <2>1, <2>2 DEF LatestFollows, Progress
  <2>4. ASSUME crashes' = 0, NEW c \in Uploads, configurations'[c] # Absent
        PROVE  \/ \A i \in Numbers(c)' : i <= configurations'[c]
               \/ \E w \in Uploads : pc'[w] = "latest" /\ mine'[w] = c
    <3>1. CASE c = mine[u]
      BY <2>1, <2>2, <3>1 DEF LatestFollows
    <3>2. CASE c # mine[u]
      BY <2>1, <2>2, <2>4, <3>2 DEF LatestFollows
    <3>3. QED
      BY <3>1, <3>2
  <2>5. QED
    BY <2>3, <2>4 DEF LatestFollows
<1>7. QED
  BY <1>1, <1>2, <1>3, <1>4, <1>5, <1>6, ElsewhereStep DEF Next

-----------------------------------------------------------------------------
(* Parses                                                                  *)

\* What OwnParses says of one version, the file of an upload's parsed or not.
OwnParse(u, doc) ==
  /\ doc.ir.content \in {ContentOf[u], NoContent}
  /\ doc.status = "COMPLETED" => doc.ir = [vendor |-> doc.vendor, content |-> ContentOf[u]]
  /\ doc.confidence = "low" /\ Hint[u] = NoHint =>
       doc.status = "NEEDS_VENDOR_CONFIRMATION" /\ doc.ir = NoIR

LEMMA DocumentIsItsParse ==
  ASSUME NEW u \in Uploads
  PROVE  OwnParse(u, VersionDocument(u))
<1> USE StoreAssumption
<1>1. NoIR.content = NoContent
  BY DEF NoIR
<1>2. CASE NeedsConfirmation(u)
  <2>1. VersionDocument(u).status = "NEEDS_VENDOR_CONFIRMATION" /\ VersionDocument(u).ir = NoIR
    BY <1>2 DEF VersionDocument, Completes
  <2>2. QED
    BY <1>1, <2>1 DEF OwnParse
<1>3. CASE ~NeedsConfirmation(u)
  <2>1. /\ VersionDocument(u).vendor = DetectedVendor(u)
        /\ VersionDocument(u).confidence = Confidence(u)
        /\ VersionDocument(u).status = IF CanParse(u) THEN "COMPLETED" ELSE "FAILED"
        /\ VersionDocument(u).ir =
             IF CanParse(u) THEN [vendor |-> DetectedVendor(u), content |-> ContentOf[u]] ELSE NoIR
    BY <1>3 DEF VersionDocument, Completes
  <2>2. Hint[u] = NoHint => Confidence(u) # "low"
    BY <1>3 DEF NeedsConfirmation, Confidence
  <2>3. QED
    BY <1>1, <2>1, <2>2 DEF OwnParse
<1>4. QED
  BY <1>2, <1>3

LEMMA ConfirmedIsItsParse ==
  ASSUME NEW k \in Confirms, NEW doc \in Versions, OwnParse(confirm[k].read, doc)
  PROVE  /\ OwnParse(confirm[k].read, Confirmed(k, doc))
         /\ doc.ir # NoIR /\ confirm[k].read \in Uploads => Confirmed(k, doc).ir # NoIR
<1> USE StoreAssumption
<1>1. CASE Reparses(k)
  <2>1. /\ Confirmed(k, doc).vendor = ConfirmedVendor[k]
        /\ Confirmed(k, doc).confidence = "high" /\ Confirmed(k, doc).status = "COMPLETED"
        /\ Confirmed(k, doc).ir =
             [vendor |-> ConfirmedVendor[k], content |-> ContentOf[confirm[k].read]]
    BY <1>1 DEF Confirmed, Versions
  <2>2. QED
    BY <2>1 DEF OwnParse, NoIR
<1>2. CASE ~Reparses(k)
  <2>1. /\ Confirmed(k, doc).confidence = "high" /\ Confirmed(k, doc).status = "FAILED"
        /\ Confirmed(k, doc).ir = doc.ir
    BY <1>2 DEF Confirmed, Versions
  <2>2. QED
    BY <2>1 DEF OwnParse
<1>3. QED
  BY <1>1, <1>2

\* A confirmation changes the document it read, and no other.
LEMMA WriteStep ==
  ASSUME IInv, OneConfiguration, NumbersCount, OwnParses, NEW k \in Confirms, WriteVersion(k)
  PROVE  LET r == confirm[k].read IN
         /\ r \in Uploads /\ Stored(r) /\ versions[r] \in Versions
         /\ versions' = [versions EXCEPT ![r] = Confirmed(k, versions[r])]
<1>1. confirm[k].read \in Uploads /\ Stored(confirm[k].read)
  BY DEF WriteVersion, IInv, ReadStored, OwnParses
<1>2. PICK w \in Numbered(versions[confirm[k].read].configuration, versions[confirm[k].read].number) :
        versions' = [versions EXCEPT ![w] = Confirmed(k, @)]
  BY DEF WriteVersion
<1>3. w = confirm[k].read
  BY <1>1, <1>2, SameVersion
<1>4. QED
  BY <1>1, <1>2, <1>3, StoredIsVersion DEF IInv

LEMMA OwnParsesStep ==
  ASSUME IInv, OneConfiguration, NumbersCount, OwnParses, [Next]_vars
  PROVE  /\ OwnParses'
         /\ \A u \in Uploads : Stored(u) /\ versions[u].ir # NoIR => versions'[u].ir # NoIR
<1> USE StoreAssumption DEF IInv
<1> DEFINE Keeps == \A u \in Uploads : Stored(u) /\ versions[u].ir # NoIR => versions'[u].ir # NoIR
<1>0. \A u \in Uploads : Stored(u) => OwnParse(u, versions[u])
  BY DEF OwnParses, OwnParse
<1>1. ASSUME \A u \in Uploads : Stored(u)' => OwnParse(u, versions'[u]),
             (\A k \in Confirms : confirm[k].at = "write" => Stored(confirm[k].read))'
      PROVE  OwnParses'
  BY <1>1 DEF OwnParses, OwnParse
<1>2. ASSUME versions' = versions,
             \A k \in Confirms : confirm'[k].at = "write" =>
               Stored(confirm'[k].read) \/ (confirm[k].at = "write" /\ confirm'[k].read = confirm[k].read)
      PROVE  OwnParses' /\ Keeps
  BY <1>0, <1>1, <1>2 DEF OwnParses, Stored
<1>3. ASSUME NEW u \in Uploads, UploadStep(u), ~InsertVersion(u) PROVE OwnParses' /\ Keeps
  <2>1. versions' = versions /\ confirm' = confirm
    BY <1>3 DEF UploadStep, CheckDuplicate, FindConfiguration, CreateConfiguration, NumberVersion,
      FindPattern, IncrementPattern, InsertPattern, UpdateLatest, UpdateDevice
  <2>2. QED
    BY <1>2, <2>1
<1>4. ASSUME NEW u \in Uploads, InsertVersion(u) PROVE OwnParses' /\ Keeps
  <2>1. \A w \in Uploads : Stored(w)' => OwnParse(w, versions'[w])
    BY <1>0, <1>4, InsertStep, DocumentIsItsParse
  <2>2. \A w \in Uploads : Stored(w) => w # u /\ Stored(w)' /\ versions'[w] = versions[w]
    BY <1>4, InsertStep
  <2>3. (\A k \in Confirms : confirm[k].at = "write" => Stored(confirm[k].read))'
    BY <1>4, <2>2, InsertStep DEF OwnParses, ReadStored
  <2>4. QED
    BY <1>1, <2>1, <2>2, <2>3
<1>5. ASSUME NEW k \in Confirms, ConfirmStep(k) PROVE OwnParses' /\ Keeps
  <2>1. CASE WriteVersion(k)
    <3> DEFINE r == confirm[k].read
    <3>1. /\ r \in Uploads /\ Stored(r) /\ versions[r] \in Versions
          /\ versions' = [versions EXCEPT ![r] = Confirmed(k, versions[r])]
      BY <2>1, WriteStep
    <3>2. /\ OwnParse(r, Confirmed(k, versions[r]))
          /\ versions[r].ir # NoIR => Confirmed(k, versions[r]).ir # NoIR
      BY <1>0, <3>1, ConfirmedIsItsParse
    <3>3. versions'[r] = Confirmed(k, versions[r]) /\ \A w \in Uploads \ {r} : versions'[w] = versions[w]
      BY <3>1 DEF TypeOK
    <3>4. \A w \in Uploads : Stored(w)' <=> Stored(w)
      BY <2>1, WriteKeeps DEF SameDocuments
    <3>5. \A w \in Uploads : Stored(w)' => OwnParse(w, versions'[w])
      BY <1>0, <3>2, <3>3, <3>4
    <3>6. \A j \in Confirms : confirm'[j].at = "write" => confirm'[j] = confirm[j]
      <4>1. confirm' = [confirm EXCEPT ![k].at = IF Reparses(k) THEN "device" ELSE "done"]
        BY <2>1 DEF WriteVersion
      <4>2. QED
        BY <4>1 DEF TypeOK
    <3>7. (\A j \in Confirms : confirm[j].at = "write" => Stored(confirm[j].read))'
      BY <3>4, <3>6 DEF OwnParses, ReadStored
    <3>8. QED
      BY <1>1, <3>2, <3>3, <3>5, <3>7
  <2>2. CASE ~WriteVersion(k)
    <3>1. versions' = versions
      BY <1>5, <2>2 DEF ConfirmStep, ReadVersion, ConfirmDevice
    <3>2. \A j \in Confirms : confirm'[j].at = "write" =>
            Stored(confirm'[j].read) \/ (confirm[j].at = "write" /\ confirm'[j].read = confirm[j].read)
      BY <1>5, <2>2 DEF ConfirmStep, ReadVersion, ConfirmDevice, TypeOK
    <3>3. QED
      BY <1>2, <3>1, <3>2
  <2>3. QED
    BY <2>1, <2>2
<1>6. ASSUME NEW s \in Scans, ScanStep(s) PROVE OwnParses' /\ Keeps
  BY <1>2, <1>6 DEF ScanStep, CreateScan, LoadVersion
<1>7. ASSUME Crash PROVE OwnParses' /\ Keeps
  BY <1>2, <1>7 DEF Crash, TypeOK
<1>8. ASSUME UNCHANGED vars PROVE OwnParses' /\ Keeps
  BY <1>2, <1>8 DEF vars
<1>9. QED
  BY <1>3, <1>4, <1>5, <1>6, <1>7, <1>8 DEF Next

-----------------------------------------------------------------------------
(* Scans                                                                   *)

LEMMA PinnedParsedStep ==
  ASSUME IInv, OneConfiguration, NumbersCount, OwnParses, PinnedParsed, [Next]_vars
  PROVE  PinnedParsed'
<1> USE StoreAssumption DEF IInv
<1>1. \A u \in Uploads : Stored(u) => Stored(u)'
  <2>1. ASSUME NEW u \in Uploads, InsertVersion(u), NEW w \in Uploads, Stored(w) PROVE Stored(w)'
    BY <2>1, InsertStep
  <2>2. ASSUME NEW w \in Uploads, Stored(w), \A u \in Uploads : ~InsertVersion(u) PROVE Stored(w)'
    BY <2>2, NumbersStay DEF SameNumbers
  <2>3. QED
    BY <2>1, <2>2
<1>2. \A u \in Uploads : Stored(u) /\ versions[u].ir # NoIR => versions'[u].ir # NoIR
  BY OwnParsesStep
<1> DEFINE Pinned(s) ==
             /\ scan[s].at = "load" =>
                  /\ scan[s].pinned \in Uploads /\ Stored(scan[s].pinned)
                  /\ versions[scan[s].pinned].ir # NoIR
             /\ scan[s].at # "failed"
             /\ scan[s].at = "analysed" => scan[s].ir.content = ContentOf[scan[s].pinned]
<1>3. ASSUME NEW s \in Scans, scan'[s] = scan[s] PROVE Pinned(s)'
  BY <1>1, <1>2, <1>3 DEF PinnedParsed
<1>4. ASSUME scan' = scan PROVE PinnedParsed'
  BY <1>3, <1>4 DEF PinnedParsed
<1>5. ASSUME NEW s \in Scans, NEW d \in Devices, CreateScan(s, d) PROVE PinnedParsed'
  <2>1. PICK u \in Uploads : /\ Stored(u) /\ versions[u].status = "COMPLETED"
                             /\ scan' = [scan EXCEPT ![s] = [at |-> "load", pinned |-> u, ir |-> NoIR]]
    BY <1>5 DEF CreateScan, Completed, VersionsOf
  <2>2. versions[u].ir = [vendor |-> versions[u].vendor, content |-> ContentOf[u]]
    BY <2>1 DEF OwnParses
  <2>3. versions[u].ir # NoIR
    BY <2>2 DEF NoIR
  <2>4. /\ scan'[s] = [at |-> "load", pinned |-> u, ir |-> NoIR]
        /\ \A t \in Scans \ {s} : scan'[t] = scan[t]
        /\ versions' = versions
    BY <1>5, <2>1 DEF CreateScan, TypeOK
  <2>5. QED
    BY <1>1, <1>3, <2>1, <2>3, <2>4 DEF PinnedParsed
<1>6. ASSUME NEW s \in Scans, LoadVersion(s) PROVE PinnedParsed'
  <2> DEFINE p == scan[s].pinned
  <2>1. /\ scan[s].at = "load" /\ p \in Uploads /\ Stored(p) /\ versions[p].ir # NoIR
    BY <1>6 DEF LoadVersion, PinnedParsed
  <2>2. PICK u \in Numbered(versions[p].configuration, versions[p].number) :
          scan' = [scan EXCEPT ![s].at = IF versions[u].ir = NoIR THEN "failed" ELSE "analysed",
                               ![s].ir = versions[u].ir]
    BY <1>6 DEF LoadVersion
  <2>3. u = p
    BY <2>1, <2>2, SameVersion
  <2>4. scan' = [scan EXCEPT ![s].at = "analysed", ![s].ir = versions[p].ir]
    BY <2>1, <2>2, <2>3
  <2>5. /\ scan'[s].at = "analysed" /\ scan'[s].pinned = p /\ scan'[s].ir = versions[p].ir
        /\ \A t \in Scans \ {s} : scan'[t] = scan[t]
    BY <2>4 DEF TypeOK
  <2>6. versions[p].ir.content = ContentOf[p]
    <3>1. versions[p].ir \in [vendor : Vendors, content : Contents]
      BY <2>1, StoredIsVersion DEF Versions, IRs
    <3>2. versions[p].ir.content # NoContent
      BY <3>1
    <3>3. QED
      BY <2>1, <3>2 DEF OwnParses
  <2>7. QED
    BY <1>3, <2>5, <2>6 DEF PinnedParsed
<1>7. ASSUME Crash PROVE PinnedParsed'
  <2>1. \A s \in Scans : scan'[s] = scan[s] \/ scan'[s].at = "lost"
    BY <1>7 DEF Crash, TypeOK
  <2>2. QED
    BY <1>3, <2>1 DEF PinnedParsed
<1>8. ASSUME NEW u \in Uploads, UploadStep(u) PROVE PinnedParsed'
  BY <1>4, <1>8 DEF UploadStep, CheckDuplicate, FindConfiguration, CreateConfiguration,
    NumberVersion, FindPattern, IncrementPattern, InsertPattern, InsertVersion, UpdateLatest,
    UpdateDevice
<1>9. ASSUME NEW k \in Confirms, ConfirmStep(k) PROVE PinnedParsed'
  BY <1>4, <1>9 DEF ConfirmStep, ReadVersion, WriteVersion, ConfirmDevice
<1>10. ASSUME UNCHANGED vars PROVE PinnedParsed'
  BY <1>4, <1>10 DEF vars
<1>11. QED
  BY <1>5, <1>6, <1>7, <1>8, <1>9, <1>10 DEF Next, ScanStep

-----------------------------------------------------------------------------
(* The inductive invariant and its theorems                                *)

LEMMA InitSerial == Init => Serial
<1> USE StoreAssumption
<1> SUFFICES ASSUME Init PROVE Serial
  OBVIOUS
<1>1. \A d : OfDevice(d) = {} /\ ConfigurationsOf(d) = {}
  BY DEF Init, OfDevice, ConfigurationsOf, Stored
<1>2. OneBusy /\ OneConfiguration /\ ContentOnce
  BY <1>1 DEF Init, OneBusy, OneConfiguration, ContentOnce, Over, Bound, Unstored, Numbering, Stored
<1>3. NumbersCount
  <2>1. \A d : IsFiniteSet(OfDevice(d))
    BY <1>1, FS_EmptySet
  <2>2. \A u \in Uploads : pc[u] \notin Numbering
    BY DEF Init, Numbering
  <2>3. Cardinality({}) = 0
    BY FS_EmptySet
  <2>4. \A d : Cardinality(OfDevice(d)) = 0
    BY <1>1, <2>3
  <2>5. \A d : 1 .. Cardinality(OfDevice(d)) = {}
    BY <2>4
  <2>6. QED
    BY <1>1, <2>1, <2>2, <2>5 DEF NumbersCount
<1>4. LatestFollows
  BY DEF Init, LatestFollows
<1>5. OwnParses /\ PinnedParsed
  BY DEF Init, OwnParses, PinnedParsed, Stored
<1>6. QED
  BY <1>2, <1>3, <1>4, <1>5 DEF Serial

\* When uploads of a device come one at a time, its versions stay one history: the
\* invariant that the theorems about such clients rest on is inductive.
THEOREM SerialInvariance ==
  ASSUME OneAtATime
  PROVE  Spec => [](IInv /\ Serial)
<1>1. Init => IInv /\ Serial
  BY InitIInv, InitSerial
<1>2. IInv /\ Serial /\ [Next]_vars => (IInv /\ Serial)'
  BY InvStep, OneBusyStep, OneConfigurationStep, ContentOnceStep, NumbersCountStep, LatestStep,
    OwnParsesStep, PinnedParsedStep DEF Serial
<1>3. QED
  BY <1>1, <1>2, PTL DEF Spec

\* A device has one configuration, whose versions have distinct numbers and contents and
\* whose latest_version is the newest of them once its uploads have ended, if none died
\* (find_duplicate_version, upload_configuration, _next_version and process_upload).
THEOREM OneHistory ==
  ASSUME OneAtATime
  PROVE  Spec => []DeviceHasOneHistory
<1> USE StoreAssumption
<1>1. ASSUME IInv, Serial PROVE DeviceHasOneHistory
  <2> USE <1>1 DEF Serial
  <2>1. ASSUME NEW d \in Devices PROVE Cardinality(ConfigurationsOf(d)) <= 1
    <3>1. CASE ConfigurationsOf(d) = {}
      BY <3>1, FS_EmptySet
    <3>2. CASE ConfigurationsOf(d) # {}
      <4>1. PICK c \in ConfigurationsOf(d) : TRUE
        BY <3>2
      <4>2. \A e \in ConfigurationsOf(d) : e = c
        BY DEF OneConfiguration
      <4>3. ConfigurationsOf(d) = {c}
        BY <4>2
      <4>4. Cardinality({c}) = 1
        BY FS_Singleton
      <4>5. QED
        BY <4>3, <4>4
    <3>3. QED
      BY <3>1, <3>2
  <2>2. VersionsNumberedOnce
    <3> SUFFICES ASSUME NEW c \in Uploads, NEW u \in VersionsOf(c), NEW w \in VersionsOf(c),
                        versions[u].number = versions[w].number
                 PROVE  u = w
      BY DEF VersionsNumberedOnce
    <3>1. u \in Uploads /\ Stored(u) /\ w \in Numbered(versions[u].configuration, versions[u].number)
      BY DEF VersionsOf, Numbered
    <3>2. QED
      BY <3>1, SameVersion
  <2>3. ASSUME NEW c \in Uploads, configurations[c] # Absent, ~Busy(DeviceOf[c]), crashes = 0
        PROVE  \A i \in Numbers(c) : i <= configurations[c]
    <3>1. ASSUME NEW u \in Uploads, pc[u] = "latest", mine[u] = c PROVE FALSE
      BY <2>3, <3>1 DEF OneConfiguration, Bound, ConfigurationsOf, Busy, Over
    <3>2. QED
      BY <2>3, <3>1 DEF LatestFollows
  <2>4. QED
    BY <2>1, <2>2, <2>3 DEF DeviceHasOneHistory, ContentOnce
<1>2. QED
  BY <1>1, SerialInvariance, PTL

\* A version is the parse of its own file or waits for one, whatever humans confirm and
\* whichever confirmations overlap (process_upload and confirm_vendor), whether an upload
\* has a registered hint, an unknown one or none.
THEOREM VersionsParsed ==
  ASSUME OneAtATime
  PROVE  Spec => []VersionIsItsParse
<1>1. Serial => VersionIsItsParse
  BY DEF Serial, OwnParses, VersionIsItsParse
<1>2. QED
  BY <1>1, SerialInvariance, PTL

\* A scan ends on the file whose hash it recorded, and never for want of an IR, whatever
\* is uploaded or confirmed in between (create_scan and run_scan_pipeline).
THEOREM ScansTheirConfiguration ==
  ASSUME OneAtATime
  PROVE  Spec => []ScanAnalysesItsConfiguration
<1>1. Serial => ScanAnalysesItsConfiguration
  BY DEF Serial, PinnedParsed, ScanAnalysesItsConfiguration
<1>2. QED
  BY <1>1, SerialInvariance, PTL

-----------------------------------------------------------------------------
(* The store implements ConfigurationHistory                               *)

\* The contents of the uploads in of, in the order of their numbers in docs.
Ordered(of, docs) ==
  [n \in 1 .. Cardinality(of) |->
     IF \E u \in of : docs[u].number = n
       THEN ContentOf[CHOOSE u \in of : docs[u].number = n] ELSE NoContent]

\* The documents a set enumerates are the sequence Ordered.
LEMMA OrderedSequence ==
  ASSUME NEW of \in SUBSET Uploads, NEW docs, Enumerates(of, docs)
  PROVE  /\ Ordered(of, docs) \in Seq(Contents)
         /\ Len(Ordered(of, docs)) = Cardinality(of)
         /\ \A u \in of : Ordered(of, docs)[docs[u].number] = ContentOf[u]
<1> USE StoreAssumption
<1>1. Cardinality(of) \in Nat
  BY FS_CardinalityType DEF Enumerates
<1>2. ASSUME NEW u \in of PROVE Ordered(of, docs)[docs[u].number] = ContentOf[u]
  <2> DEFINE n == docs[u].number
             v == CHOOSE w \in of : docs[w].number = n
  <2>1. n \in 1 .. Cardinality(of)
    BY DEF Enumerates
  <2>2. v \in of /\ docs[v].number = n
    OBVIOUS
  <2>3. v = u
    BY <2>2 DEF Enumerates
  <2>4. Ordered(of, docs)[n] = ContentOf[v]
    BY <2>1, <2>2 DEF Ordered
  <2>5. QED
    BY <2>3, <2>4
<1>3. ASSUME NEW n \in 1 .. Cardinality(of) PROVE Ordered(of, docs)[n] \in Contents
  <2>1. PICK u \in of : docs[u].number = n
    BY DEF Enumerates
  <2>2. QED
    BY <1>2, <2>1
<1>4. Ordered(of, docs) \in [1 .. Cardinality(of) -> Contents]
  BY <1>3 DEF Ordered
<1>5. QED
  BY <1>1, <1>2, <1>4

\* It is the sequence of any other enumeration that gives the uploads their numbers.
LEMMA OrderedSame ==
  ASSUME NEW of \in SUBSET Uploads, NEW docs, NEW other, Enumerates(of, docs),
         \A u \in of : other[u].number = docs[u].number
  PROVE  Ordered(of, other) = Ordered(of, docs)
<1>1. Enumerates(of, other)
  BY DEF Enumerates
<1>2. /\ Ordered(of, docs) \in Seq(Contents) /\ Ordered(of, other) \in Seq(Contents)
      /\ Len(Ordered(of, docs)) = Cardinality(of) /\ Len(Ordered(of, other)) = Cardinality(of)
  BY <1>1, OrderedSequence
<1>3. ASSUME NEW n \in 1 .. Cardinality(of) PROVE Ordered(of, other)[n] = Ordered(of, docs)[n]
  <2>1. PICK u \in of : docs[u].number = n
    BY DEF Enumerates
  <2>2. Ordered(of, docs)[n] = ContentOf[u] /\ Ordered(of, other)[n] = ContentOf[u]
    BY <1>1, <2>1, OrderedSequence
  <2>3. QED
    BY <2>2
<1>4. QED
  BY <1>2, <1>3, SeqEqual

\* One more upload, with the number after the others', is one more entry.
LEMMA OrderedAppend ==
  ASSUME NEW of \in SUBSET Uploads, NEW docs, NEW more, NEW u \in Uploads \ of,
         NEW all \in SUBSET Uploads, of \subseteq all, u \in all, Enumerates(of, docs), Enumerates(all, more),
         \A w \in of : more[w].number = docs[w].number,
         Cardinality(all) = Cardinality(of) + 1,
         more[u].number = Cardinality(of) + 1
  PROVE  Ordered(all, more) = Append(Ordered(of, docs), ContentOf[u])
<1> USE StoreAssumption
<1> DEFINE n == Cardinality(of)
           s == Ordered(of, docs)
           t == Ordered(all, more)
<1>0. n \in Nat
  BY FS_CardinalityType DEF Enumerates
<1>1. s \in Seq(Contents) /\ Len(s) = n /\ \A w \in of : s[docs[w].number] = ContentOf[w]
  BY OrderedSequence
<1>2. t \in Seq(Contents) /\ Len(t) = n + 1 /\ \A w \in all : t[more[w].number] = ContentOf[w]
  BY OrderedSequence
<1>3. /\ Append(s, ContentOf[u]) \in Seq(Contents) /\ Len(Append(s, ContentOf[u])) = n + 1
      /\ \A i \in 1 .. n : Append(s, ContentOf[u])[i] = s[i]
      /\ Append(s, ContentOf[u])[n + 1] = ContentOf[u]
  BY <1>1, AppendProperties
<1>4. ASSUME NEW i \in 1 .. n + 1 PROVE t[i] = Append(s, ContentOf[u])[i]
  <2>1. CASE i = n + 1
    BY <1>2, <1>3, <2>1
  <2>2. CASE i # n + 1
    <3>1. i \in 1 .. n
      BY <1>0, <2>2
    <3>2. PICK w \in of : docs[w].number = i
      BY <3>1 DEF Enumerates
    <3>3. s[i] = ContentOf[w] /\ t[i] = ContentOf[w]
      BY <1>1, <1>2, <3>2
    <3>4. QED
      BY <1>3, <3>1, <3>3
  <2>3. QED
    BY <2>1, <2>2
<1> HIDE DEF s, t, n
<1>5. t = Append(s, ContentOf[u])
  BY <1>2, <1>3, <1>4, SeqEqual
<1>6. QED
  BY <1>5 DEF s, t

LEMMA HistoryIsOrdered ==
  ASSUME NEW d \in Devices
  PROVE  HistoryOf(d) = Ordered(OfDevice(d), versions)
  BY DEF HistoryOf, Ordered

\* The insert of a version adds its content to its device's history.
LEMMA InsertIsStore ==
  ASSUME IInv, Serial, NEW u \in Uploads, InsertVersion(u)
  PROVE  History!Store(DeviceOf[u], ContentOf[u])
<1> USE StoreAssumption
<1> DEFINE d == DeviceOf[u]
           s == Ordered(OfDevice(d), versions)
<1>1. \A e \in Devices : Counted(e) /\ Counted(e)'
  BY CountedInsert DEF Serial, NumbersCount, Counted, Enumerates
<1>2. /\ \A e \in Devices :
           OfDevice(e)' = IF e = d THEN OfDevice(e) \union {u} ELSE OfDevice(e)
      /\ \A w \in Uploads \ {u} : versions'[w] = versions[w]
      /\ ~Stored(u)
  BY InsertStep
<1>3. \A e \in Devices : Enumerates(OfDevice(e), versions) /\ Enumerates(OfDevice(e), versions)'
  BY <1>1 DEF Counted
<1>4. \A e \in Devices : OfDevice(e) \in SUBSET Uploads /\ u \notin OfDevice(e)
  BY <1>2 DEF OfDevice
<1>5. \A e \in Devices : \A w \in OfDevice(e) : versions'[w].number = versions[w].number
  BY <1>2, <1>4
<1>6. HistoryOf(d)' = Append(HistoryOf(d), ContentOf[u])
  <2>1. OfDevice(d)' = OfDevice(d) \union {u}
    BY <1>2
  <2>2. /\ Cardinality(OfDevice(d)') = Cardinality(OfDevice(d)) + 1
        /\ versions'[u].number = Cardinality(OfDevice(d)) + 1
    BY CountOneMore DEF Serial
  <2>3. /\ Enumerates(OfDevice(d), versions) /\ Enumerates(OfDevice(d)', versions')
        /\ \A w \in OfDevice(d) : versions'[w].number = versions[w].number
        /\ OfDevice(d) \in SUBSET Uploads /\ u \in Uploads \ OfDevice(d)
        /\ OfDevice(d)' \in SUBSET Uploads /\ OfDevice(d) \subseteq OfDevice(d)' /\ u \in OfDevice(d)'
    BY <1>3, <1>4, <1>5, <2>1
  <2>4. Ordered(OfDevice(d)', versions') = Append(Ordered(OfDevice(d), versions), ContentOf[u])
    BY <2>2, <2>3, OrderedAppend
  <2>5. QED
    BY <2>4 DEF HistoryOf, Ordered
<1>7. ASSUME NEW e \in Devices \ {d} PROVE HistoryOf(e)' = HistoryOf(e)
  <2>1. OfDevice(e)' = OfDevice(e)
    BY <1>2
  <2>2. Ordered(OfDevice(e), versions') = Ordered(OfDevice(e), versions)
    BY <1>3, <1>4, <1>5, OrderedSame
  <2>3. QED
    BY <2>1, <2>2 DEF HistoryOf, Ordered
<1>8. Histories' = [Histories EXCEPT ![d] = Append(@, ContentOf[u])]
  BY <1>6, <1>7 DEF Histories
<1>9. ContentOf[u] \notin History!ToSet(Histories[d])
  <2>1. s \in Seq(Contents) /\ Len(s) = Cardinality(OfDevice(d))
    BY <1>3, <1>4, OrderedSequence
  <2>2. ASSUME NEW i \in 1 .. Cardinality(OfDevice(d)) PROVE s[i] # ContentOf[u]
    <3>1. PICK w \in OfDevice(d) : versions[w].number = i
      BY <1>3 DEF Enumerates
    <3>2. s[i] = ContentOf[w]
      BY <1>3, <1>4, <3>1, OrderedSequence
    <3>3. ~Duplicate(u)
      BY InsertStep DEF Serial, ContentOnce, Unstored, Numbering
    <3>4. QED
      BY <3>2, <3>3 DEF Duplicate, OfDevice
  <2>3. Histories[d] = s
    BY HistoryIsOrdered DEF Histories
  <2>4. DOMAIN s = 1 .. Cardinality(OfDevice(d))
    BY <2>1
  <2>5. QED
    BY <2>2, <2>3, <2>4 DEF History!ToSet
<1>10. QED
  BY <1>8, <1>9 DEF History!Store

\* Every other step leaves the histories as they are.
LEMMA OthersStutter ==
  ASSUME IInv, Serial, [Next]_vars, \A u \in Uploads : ~InsertVersion(u)
  PROVE  UNCHANGED Histories
<1> USE StoreAssumption
<1>1. SameDocuments
  <2>1. versions' = versions => SameDocuments
    BY DEF SameDocuments, Stored
  <2>2. ASSUME NEW u \in Uploads, UploadStep(u) PROVE versions' = versions
    BY <2>2, PatternSteps DEF UploadStep, CheckDuplicate, FindConfiguration, CreateConfiguration,
      NumberVersion, UpdateLatest, MovesOn
  <2>3. Elsewhere => SameDocuments
    BY DEF Elsewhere
  <2>4. Crash => versions' = versions
    BY DEF Crash
  <2>5. QED
    BY <2>1, <2>2, <2>3, <2>4, ElsewhereStep DEF Next
<1>2. ASSUME NEW d \in Devices PROVE HistoryOf(d)' = HistoryOf(d)
  <2>1. OfDevice(d)' = OfDevice(d) /\ OfDevice(d) \in SUBSET Uploads
    BY <1>1, SameSets DEF OfDevice
  <2>2. Enumerates(OfDevice(d), versions)
    BY DEF Serial, NumbersCount, Enumerates
  <2>3. \A u \in OfDevice(d) : versions'[u].number = versions[u].number
    BY <1>1 DEF SameDocuments, OfDevice
  <2>4. Ordered(OfDevice(d), versions') = Ordered(OfDevice(d), versions)
    BY <2>1, <2>2, <2>3, OrderedSame
  <2>5. QED
    BY <2>1, <2>4 DEF HistoryOf, Ordered
<1>3. QED
  BY <1>2 DEF Histories

\* Every uploaded configuration is versioned, never overwritten (README.md): the store
\* implements the append-only history of each device.
THEOREM HistoryKept ==
  ASSUME OneAtATime
  PROVE  Spec => Versioned
<1> USE StoreAssumption
<1>1. Init => History!Init
  <2> SUFFICES ASSUME Init PROVE History!Init
    OBVIOUS
  <2>1. \A d : OfDevice(d) = {}
    BY DEF Init, OfDevice, Stored
  <2>2. Cardinality({}) = 0
    BY FS_EmptySet
  <2>3. \A d \in Devices : HistoryOf(d) = <<>>
    <3>1. Enumerates({}, versions) /\ {} \in SUBSET Uploads
      BY <2>2, FS_EmptySet DEF Enumerates
    <3>2. Ordered({}, versions) \in Seq(Contents) /\ Len(Ordered({}, versions)) = 0
      BY <2>2, <3>1, OrderedSequence
    <3>3. Ordered({}, versions) = <<>>
      BY <3>2, EmptySeq
    <3>4. QED
      BY <2>1, <3>3, HistoryIsOrdered
  <2>4. QED
    BY <2>3 DEF Histories, History!Init
<1>2. IInv /\ Serial /\ [Next]_vars => [History!Next]_Histories
  <2> SUFFICES ASSUME IInv, Serial, [Next]_vars PROVE [History!Next]_Histories
    OBVIOUS
  <2>1. ASSUME NEW u \in Uploads, InsertVersion(u) PROVE History!Next
    <3>1. DeviceOf[u] \in Devices /\ ContentOf[u] \in Contents
      OBVIOUS
    <3>2. QED
      BY <2>1, <3>1, InsertIsStore DEF History!Next
  <2>2. QED
    BY <2>1, OthersStutter
<1>3. QED
  BY <1>1, <1>2, SerialInvariance, PTL DEF Spec, Versioned, History!Spec
=============================================================================
