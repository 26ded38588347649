----------------------- MODULE ConfigurationStore_proofs -----------------------
(***************************************************************************)
(* Proofs about ConfigurationStore, for any uploads, devices, contents and *)
(* vendors, and whether or not clients let uploads of a device overlap.    *)
(*                                                                         *)
(* Versions are never deleted and never change their number, so            *)
(* what an upload saw when it took its number is still there when it       *)
(* inserts its version (Supported), whatever happened in between.          *)
(***************************************************************************)
EXTENDS ConfigurationStore, FiniteSetTheorems, FoldTheorems, TLAPS

\* An upload that has not inserted its version has none; one that is past the
\* configuration step has one that exists.
Progress ==
  \A u \in Uploads :
    /\ pc[u] \in Phases \ {"latest", "device", "done", "lost"} => ~Stored(u)
    /\ pc[u] \in {"number", "pattern", "increment", "new", "insert", "latest", "device"} =>
         mine[u] \in Uploads

\* The numbers below the one an upload has taken are in use.
Supported ==
  \A u \in Uploads :
    pc[u] \in {"pattern", "increment", "new", "insert"} =>
      /\ number[u] >= 1
      /\ \A i \in 1 .. number[u] - 1 : i \in Numbers(mine[u])

\* The number an upload is about to publish is that of its stored version.
Published ==
  \A u \in Uploads : pc[u] = "latest" => number[u] \in Numbers(mine[u])

\* A confirmation works on a version that is stored.
ReadStored ==
  \A k \in Confirms : confirm[k].at = "write" => confirm[k].read \in Uploads

IInv == TypeOK /\ Progress /\ Supported /\ Published /\ ReadStored
          /\ NumbersHaveNoGaps /\ LatestIsStored

\* The same versions are stored, under the same numbers.
SameNumbers ==
  /\ \A u \in Uploads : Stored(u)' <=> Stored(u)
  /\ \A c \in Uploads : Numbers(c)' = Numbers(c)

-----------------------------------------------------------------------------
LEMMA NoVersionIsNone == NoVersion \notin Versions
  BY DEF NoVersion, Versions

LEMMA InitIInv == Init => IInv
<1> USE StoreAssumption
<1> SUFFICES ASSUME Init PROVE IInv
  OBVIOUS
<1>1. TypeOK
  BY DEF Init, TypeOK, Phases, IRs, Absent
<1>2. Progress /\ Supported /\ Published /\ ReadStored
  BY DEF Init, Progress, Supported, Published, ReadStored, Stored
<1>3. \A c \in Uploads : Numbers(c) = {}
  BY DEF Init, Numbers, VersionsOf, Stored
<1>4. NumbersHaveNoGaps /\ LatestIsStored
  BY <1>3 DEF Init, NumbersHaveNoGaps, LatestIsStored, Absent
<1>5. QED
  BY <1>1, <1>2, <1>4 DEF IInv

-----------------------------------------------------------------------------
(* Types                                                                   *)

LEMMA StoredIsVersion ==
  ASSUME TypeOK, NEW u \in Uploads, Stored(u)
  PROVE  versions[u] \in Versions
  BY DEF TypeOK, Stored

\* What process_upload inserts is a version.
LEMMA DocumentType ==
  ASSUME IInv, NEW u \in Uploads, pc[u] = "insert"
  PROVE  VersionDocument(u) \in Versions
<1> USE StoreAssumption
<1>1. mine[u] \in Uploads /\ number[u] \in Nat
  BY DEF IInv, TypeOK, Progress
<1>2. DetectedVendor(u) \in Vendors /\ Confidence(u) \in {"low", "high"} /\ ContentOf[u] \in Contents
  BY DEF DetectedVendor, Confidence
<1>3. [vendor |-> DetectedVendor(u), content |-> ContentOf[u]] \in IRs /\ NoIR \in IRs
  BY <1>2 DEF IRs
<1>4. QED
  BY <1>1, <1>2, <1>3 DEF VersionDocument, Versions

\* What confirm_vendor leaves is a version with its configuration and number.
LEMMA ConfirmedType ==
  ASSUME NEW k \in Confirms, NEW doc \in Versions, confirm[k].read \in Uploads
  PROVE  /\ Confirmed(k, doc) \in Versions
         /\ Confirmed(k, doc).configuration = doc.configuration
         /\ Confirmed(k, doc).number = doc.number
<1> USE StoreAssumption
<1>1. ConfirmedVendor[k] \in Vendors /\ ContentOf[confirm[k].read] \in Contents
  OBVIOUS
<1>2. [vendor |-> ConfirmedVendor[k], content |-> ContentOf[confirm[k].read]] \in IRs
  BY <1>1 DEF IRs
<1>3. CASE Reparses(k)
  BY <1>1, <1>2, <1>3 DEF Confirmed, Versions
<1>4. CASE ~Reparses(k)
  BY <1>1, <1>4 DEF Confirmed, Versions
<1>5. QED
  BY <1>3, <1>4

LEMMA TypeStep ==
  ASSUME IInv, [Next]_vars
  PROVE  TypeOK'
<1> USE StoreAssumption DEF IInv
<1>1. ASSUME NEW u \in Uploads, UploadStep(u) PROVE TypeOK'
  <2>1. CASE CheckDuplicate(u)
    BY <2>1 DEF CheckDuplicate, TypeOK, Phases
  <2>2. CASE FindConfiguration(u)
    BY <2>2 DEF FindConfiguration, ConfigurationsOf, TypeOK, Phases
  <2>3. CASE CreateConfiguration(u)
    BY <2>3 DEF CreateConfiguration, TypeOK, Phases
  <2>4. CASE NumberVersion(u)
    <3>1. PICK n \in Numbers(mine[u]) \union {0} : number' = [number EXCEPT ![u] = n + 1]
      BY <2>4 DEF NumberVersion
    <3>2. n \in Nat
      BY StoredIsVersion DEF Numbers, VersionsOf, Versions
    <3>3. QED
      BY <2>4, <3>1, <3>2 DEF NumberVersion, AfterNumbering, TypeOK, Phases
  <2>5. CASE FindPattern(u)
    BY <2>5 DEF FindPattern, TypeOK, Phases
  <2>6. CASE IncrementPattern(u)
    BY <2>6 DEF IncrementPattern, PatternsOf, TypeOK, Phases
  <2>7. CASE InsertPattern(u)
    BY <2>7 DEF InsertPattern, TypeOK, Phases
  <2>8. CASE InsertVersion(u)
    BY <2>8, DocumentType DEF InsertVersion, TypeOK, Phases
  <2>9. CASE UpdateLatest(u)
    BY <2>9 DEF UpdateLatest, AfterLatest, TypeOK, Phases
  <2>10. CASE UpdateDevice(u)
    <3>1. DetectedVendor(u) \in Vendors
      BY DEF DetectedVendor
    <3>2. QED
      BY <2>10, <3>1 DEF UpdateDevice, TypeOK, Phases
  <2>11. QED
    BY <1>1, <2>1, <2>2, <2>3, <2>4, <2>5, <2>6, <2>7, <2>8, <2>9, <2>10 DEF UploadStep
<1>2. ASSUME NEW k \in Confirms, ConfirmStep(k) PROVE TypeOK'
  <2>1. ASSUME NEW u \in Uploads, ReadVersion(k, u) PROVE TypeOK'
    BY <2>1 DEF ReadVersion, TypeOK
  <2>2. CASE WriteVersion(k)
    <3>1. PICK w \in Uploads : Stored(w) /\ versions' = [versions EXCEPT ![w] = Confirmed(k, @)]
      BY <2>2 DEF WriteVersion, Numbered, VersionsOf
    <3>2. Confirmed(k, versions[w]) \in Versions
      BY <2>2, <3>1, StoredIsVersion, ConfirmedType DEF WriteVersion, ReadStored
    <3>3. versions' \in [Uploads -> Versions \union {NoVersion}]
      BY <3>1, <3>2 DEF TypeOK
    <3>4. confirm' \in [Confirms -> [at : {"idle", "write", "device", "done"},
                                   read : Uploads \union {NoUpload}]]
      <4>1. confirm[k] \in [at : {"idle", "write", "device", "done"},
                           read : Uploads \union {NoUpload}]
        BY DEF TypeOK
      <4>2. confirm' = [confirm EXCEPT ![k].at = IF Reparses(k) THEN "device" ELSE "done"]
        BY <2>2 DEF WriteVersion
      <4>3. CASE Reparses(k)
        BY <4>1, <4>2, <4>3 DEF TypeOK
      <4>4. CASE ~Reparses(k)
        BY <4>1, <4>2, <4>4 DEF TypeOK
      <4>5. QED
        BY <4>3, <4>4
    <3>5. UNCHANGED <<configurations, patterns, vendor, pc, mine, number, scan, crashes>>
      BY <2>2 DEF WriteVersion
    <3>6. QED
      BY <3>3, <3>4, <3>5 DEF TypeOK
  <2>3. CASE ConfirmDevice(k)
    <3>1. vendor' \in [Devices -> Vendors \union {NoVendor}]
      <4>1. ConfirmedVendor[k] \in Vendors
        OBVIOUS
      <4>2. QED
        BY <2>3, <4>1 DEF ConfirmDevice, TypeOK
    <3>2. confirm' \in [Confirms -> [at : {"idle", "write", "device", "done"},
                                   read : Uploads \union {NoUpload}]]
      BY <2>3 DEF ConfirmDevice, TypeOK
    <3>3. UNCHANGED <<configurations, versions, patterns, pc, mine, number, scan, crashes>>
      BY <2>3 DEF ConfirmDevice
    <3>4. QED
      BY <3>1, <3>2, <3>3 DEF TypeOK
  <2>4. QED
    BY <1>2, <2>1, <2>2, <2>3 DEF ConfirmStep
<1>3. ASSUME NEW s \in Scans, ScanStep(s) PROVE TypeOK'
  <2>1. ASSUME NEW d \in Devices, CreateScan(s, d) PROVE TypeOK'
    BY <2>1 DEF CreateScan, Completed, VersionsOf, TypeOK, IRs
  <2>2. CASE LoadVersion(s)
    <3>1. PICK u \in Uploads : Stored(u) /\
            scan' = [scan EXCEPT ![s].at = IF versions[u].ir = NoIR THEN "failed" ELSE "analysed",
                                 ![s].ir = versions[u].ir]
      BY <2>2 DEF LoadVersion, Numbered, VersionsOf
    <3>2. versions[u].ir \in IRs
      BY <3>1, StoredIsVersion DEF Versions
    <3>3. scan[s] \in [at : {"idle", "load", "analysed", "failed", "lost"},
                      pinned : Uploads \union {NoUpload}, ir : IRs]
      BY DEF TypeOK
    <3>4. CASE versions[u].ir = NoIR
      BY <2>2, <3>1, <3>2, <3>3, <3>4 DEF LoadVersion, TypeOK
    <3>5. CASE versions[u].ir # NoIR
      BY <2>2, <3>1, <3>2, <3>3, <3>5 DEF LoadVersion, TypeOK
    <3>6. QED
      BY <3>4, <3>5
  <2>3. QED
    BY <1>3, <2>1, <2>2 DEF ScanStep
<1>4. CASE Crash
  <2>1. pc' \in [Uploads -> Phases]
    BY <1>4 DEF Crash, TypeOK, Phases
  <2>2. confirm' \in [Confirms -> [at : {"idle", "write", "device", "done"},
                                 read : Uploads \union {NoUpload}]]
    BY <1>4 DEF Crash, TypeOK
  <2>3. scan' \in [Scans -> [at : {"idle", "load", "analysed", "failed", "lost"},
                           pinned : Uploads \union {NoUpload}, ir : IRs]]
    <3> DEFINE Kept == [at : {"idle", "load", "analysed", "failed", "lost"},
                        pinned : Uploads \union {NoUpload}, ir : IRs]
    <3>1. ASSUME NEW s \in Scans PROVE scan[s] \in Kept /\ [scan[s] EXCEPT !.at = "lost"] \in Kept
      <4>1. scan[s] \in Kept
        BY DEF TypeOK
      <4>2. QED
        BY <4>1
    <3> HIDE DEF Kept
    <3>2. scan' \in [Scans -> Kept]
      BY <1>4, <3>1 DEF Crash
    <3>3. QED
      BY <3>2 DEF Kept
  <2>4. crashes' \in 0 .. MaxCrashes
    BY <1>4 DEF Crash, TypeOK
  <2>5. UNCHANGED <<configurations, versions, patterns, vendor, mine, number>>
    BY <1>4 DEF Crash
  <2>6. QED
    BY <2>1, <2>2, <2>3, <2>4, <2>5 DEF TypeOK
<1>5. CASE UNCHANGED vars
  BY <1>5 DEF vars, TypeOK
<1>6. QED
  BY <1>1, <1>2, <1>3, <1>4, <1>5 DEF Next

-----------------------------------------------------------------------------
(* Numbers in use                                                          *)

\* No step but the insert of a version changes which numbers are in use.
LEMMA NumbersStay ==
  ASSUME IInv, [Next]_vars, \A u \in Uploads : ~InsertVersion(u)
  PROVE  SameNumbers
<1>1. CASE versions' = versions
  BY <1>1 DEF SameNumbers, Numbers, VersionsOf, Stored
<1>2. ASSUME NEW k \in Confirms, WriteVersion(k) PROVE SameNumbers
  <2>1. PICK w \in Uploads : Stored(w) /\ versions' = [versions EXCEPT ![w] = Confirmed(k, @)]
    BY <1>2 DEF WriteVersion, Numbered, VersionsOf
  <2>2. /\ versions[w] \in Versions
        /\ Confirmed(k, versions[w]) \in Versions
        /\ Confirmed(k, versions[w]).configuration = versions[w].configuration
        /\ Confirmed(k, versions[w]).number = versions[w].number
    BY <1>2, <2>1, StoredIsVersion, ConfirmedType DEF WriteVersion, ReadStored, IInv
  <2>3. \A u \in Uploads : /\ Stored(u)' <=> Stored(u)
                           /\ Stored(u) => /\ versions'[u].configuration = versions[u].configuration
                                           /\ versions'[u].number = versions[u].number
    BY <2>1, <2>2, NoVersionIsNone DEF IInv, TypeOK, Stored
  <2>4. QED
    BY <2>3 DEF SameNumbers, Numbers, VersionsOf
<1>3. CASE UNCHANGED vars
  BY <1>1, <1>3 DEF vars
<1>4. ASSUME NEW u \in Uploads, UploadStep(u) PROVE versions' = versions
  BY <1>4 DEF UploadStep, CheckDuplicate, FindConfiguration, CreateConfiguration, NumberVersion,
    FindPattern, IncrementPattern, InsertPattern, UpdateLatest, UpdateDevice
<1>5. ASSUME NEW k \in Confirms, ConfirmStep(k), ~WriteVersion(k) PROVE versions' = versions
  BY <1>5 DEF ConfirmStep, ReadVersion, ConfirmDevice
<1>6. ASSUME NEW s \in Scans, ScanStep(s) PROVE versions' = versions
  BY <1>6 DEF ScanStep, CreateScan, LoadVersion
<1>7. Crash => versions' = versions
  BY DEF Crash
<1>8. QED
  BY <1>1, <1>2, <1>3, <1>4, <1>5, <1>6, <1>7 DEF Next

\* The insert of a version adds its number to its configuration.
LEMMA NumbersInsert ==
  ASSUME IInv, NEW u \in Uploads, InsertVersion(u), NEW c \in Uploads
  PROVE  Numbers(c)' = Numbers(c) \union (IF c = mine[u] THEN {number[u]} ELSE {})
<1>1. ~Stored(u) /\ VersionDocument(u) \in Versions
  BY DocumentType DEF IInv, Progress, InsertVersion, Phases
<1>2. /\ VersionDocument(u).configuration = mine[u]
      /\ VersionDocument(u).number = number[u]
  BY DEF VersionDocument
<1>3. versions' = [versions EXCEPT ![u] = VersionDocument(u)]
  BY DEF InsertVersion
<1>4. Stored(u)' /\ versions'[u].configuration = mine[u] /\ versions'[u].number = number[u]
  BY <1>1, <1>2, <1>3, NoVersionIsNone DEF IInv, TypeOK, Stored
<1>5. \A w \in Uploads \ {u} : versions'[w] = versions[w] /\ (Stored(w)' <=> Stored(w))
  BY <1>3 DEF IInv, TypeOK, Stored
<1>6. CASE c = mine[u]
  <2>1. VersionsOf(c)' = VersionsOf(c) \union {u}
    BY <1>1, <1>4, <1>5, <1>6 DEF VersionsOf
  <2>2. QED
    BY <1>1, <1>4, <1>5, <1>6, <2>1 DEF Numbers, VersionsOf
<1>7. CASE c # mine[u]
  <2>1. VersionsOf(c)' = VersionsOf(c)
    BY <1>1, <1>4, <1>5, <1>7 DEF VersionsOf
  <2>2. QED
    BY <1>1, <1>4, <1>5, <1>7, <2>1 DEF Numbers, VersionsOf
<1>8. QED
  BY <1>6, <1>7

LEMMA InvStep ==
  ASSUME IInv, [Next]_vars
  PROVE  IInv'
<1> USE StoreAssumption
<1> USE DEF IInv
<1>0. TypeOK'
  BY TypeStep
<1>1. ASSUME NEW u \in Uploads, InsertVersion(u) PROVE IInv'
  <2>1. \A c \in Uploads : Numbers(c)' = Numbers(c) \union (IF c = mine[u] THEN {number[u]} ELSE {})
    BY <1>1, NumbersInsert
  <2>2. mine' = mine /\ number' = number /\ configurations' = configurations /\ confirm' = confirm
    BY <1>1 DEF InsertVersion
  <2>3. pc[u] = "insert" /\ pc' = [pc EXCEPT ![u] = "latest"]
    BY <1>1 DEF InsertVersion
  <2>4. \A w \in Uploads \ {u} : Stored(w)' <=> Stored(w)
    BY <1>1 DEF InsertVersion, TypeOK, Stored
  <2>5. Progress'
    BY <2>2, <2>3, <2>4 DEF Progress, TypeOK
  <2>6. Supported'
    BY <2>1, <2>2, <2>3 DEF Supported, Progress, TypeOK
  <2>7. Published'
    BY <2>1, <2>2, <2>3 DEF Published, Progress, TypeOK
  <2>8. NumbersHaveNoGaps'
    <3>1. number[u] >= 1 /\ number[u] \in Nat /\ \A i \in 1 .. number[u] - 1 : i \in Numbers(mine[u])
      BY <2>3 DEF Supported, TypeOK
    <3>2. \A i \in 1 .. number[u] : i \in Numbers(mine[u]) \union {number[u]}
      BY <3>1
    <3>3. ASSUME NEW c \in Uploads, NEW n \in Numbers(c)' PROVE \A i \in 1 .. n : i \in Numbers(c)'
      <4>1. CASE n \in Numbers(c)
        BY <2>1, <4>1 DEF NumbersHaveNoGaps
      <4>2. CASE n \notin Numbers(c)
        <5>1. c = mine[u] /\ n = number[u] /\ Numbers(c)' = Numbers(mine[u]) \union {number[u]}
          BY <2>1, <3>3, <4>2
        <5>2. QED
          BY <3>2, <5>1
      <4>3. QED
        BY <4>1, <4>2
    <3>4. QED
      BY <3>3 DEF NumbersHaveNoGaps
  <2>9. LatestIsStored'
    BY <2>1, <2>2 DEF LatestIsStored
  <2>10. QED
    BY <1>0, <2>2, <2>5, <2>6, <2>7, <2>8, <2>9 DEF ReadStored
<1>2. CASE \A u \in Uploads : ~InsertVersion(u)
  <2>1. /\ \A u \in Uploads : Stored(u)' <=> Stored(u)
        /\ \A c \in Uploads : Numbers(c)' = Numbers(c)
    BY <1>2, NumbersStay DEF SameNumbers
  <2>2. NumbersHaveNoGaps'
    BY <2>1 DEF NumbersHaveNoGaps
  <2> DEFINE Rest == Progress /\ Supported /\ Published /\ ReadStored /\ LatestIsStored
  <2>3. ASSUME NEW u \in Uploads, UploadStep(u) PROVE Rest'
    <3>1. CASE CheckDuplicate(u)
      BY <2>1, <3>1 DEF CheckDuplicate, Progress, Supported, Published, ReadStored, LatestIsStored, TypeOK, Phases
    <3>2. CASE FindConfiguration(u)
      BY <2>1, <3>2 DEF FindConfiguration, ConfigurationsOf, Progress, Supported, Published, ReadStored, LatestIsStored, TypeOK, Phases
    <3>3. CASE CreateConfiguration(u)
      BY <2>1, <3>3 DEF CreateConfiguration, Progress, Supported, Published, ReadStored, LatestIsStored, TypeOK, Phases
    <3>4. CASE NumberVersion(u)
      <4>1. PICK n \in Numbers(mine[u]) \union {0} : number' = [number EXCEPT ![u] = n + 1]
        BY <3>4 DEF NumberVersion
      <4>2. mine[u] \in Uploads /\ n \in Nat /\ \A i \in 1 .. n : i \in Numbers(mine[u])
        BY <3>4, <4>1, StoredIsVersion
        DEF NumberVersion, Progress, NumbersHaveNoGaps, Numbers, VersionsOf, Versions
      <4>3. /\ pc[u] = "number" /\ pc' = [pc EXCEPT ![u] = AfterNumbering(u)]
            /\ UNCHANGED <<configurations, mine, confirm>>
        BY <3>4 DEF NumberVersion
      <4>4. AfterNumbering(u) \in {"pattern", "insert"}
        BY DEF AfterNumbering
      <4>5. Progress' /\ Published' /\ ReadStored' /\ LatestIsStored'
        BY <2>1, <4>1, <4>3, <4>4 DEF Progress, Published, ReadStored, LatestIsStored, TypeOK, Phases
      <4>6. Supported'
        BY <2>1, <4>1, <4>2, <4>3, <4>4 DEF Progress, Supported, TypeOK
      <4>7. QED
        BY <4>5, <4>6
    <3>5. CASE FindPattern(u)
      BY <2>1, <3>5 DEF FindPattern, Progress, Supported, Published, ReadStored, LatestIsStored, TypeOK, Phases
    <3>6. CASE IncrementPattern(u)
      BY <2>1, <3>6 DEF IncrementPattern, Progress, Supported, Published, ReadStored, LatestIsStored, TypeOK, Phases
    <3>7. CASE InsertPattern(u)
      BY <2>1, <3>7 DEF InsertPattern, Progress, Supported, Published, ReadStored, LatestIsStored, TypeOK, Phases
    <3>8. CASE UpdateLatest(u)
      <4>1. AfterLatest(u) \in {"device", "done"}
        BY DEF AfterLatest
      <4>2. QED
        BY <2>1, <3>8, <4>1 DEF UpdateLatest, Progress, Supported, Published, ReadStored, LatestIsStored, TypeOK, Phases
    <3>9. CASE UpdateDevice(u)
      BY <2>1, <3>9 DEF UpdateDevice, Progress, Supported, Published, ReadStored, LatestIsStored, TypeOK, Phases
    <3>10. QED
      BY <1>2, <2>3, <3>1, <3>2, <3>3, <3>4, <3>5, <3>6, <3>7, <3>8, <3>9 DEF UploadStep
  <2>4. ASSUME NEW k \in Confirms, ConfirmStep(k) PROVE Rest'
    <3>1. ASSUME NEW u \in Uploads, ReadVersion(k, u) PROVE Rest'
      BY <2>1, <3>1 DEF ReadVersion, Progress, Supported, Published, ReadStored, LatestIsStored, TypeOK
    <3>2. CASE WriteVersion(k)
      <4>1. UNCHANGED <<configurations, pc, mine, number>>
        BY <3>2 DEF WriteVersion
      <4>2. \A j \in Confirms : confirm'[j].at = "write" =>
              confirm[j].at = "write" /\ confirm'[j].read = confirm[j].read
        BY <3>2 DEF WriteVersion, TypeOK
      <4>3. QED
        BY <2>1, <4>1, <4>2 DEF Progress, Supported, Published, ReadStored, LatestIsStored, TypeOK
    <3>3. CASE ConfirmDevice(k)
      <4>1. UNCHANGED <<configurations, pc, mine, number>>
        BY <3>3 DEF ConfirmDevice
      <4>2. \A j \in Confirms : confirm'[j].at = "write" =>
              confirm[j].at = "write" /\ confirm'[j].read = confirm[j].read
        BY <3>3 DEF ConfirmDevice, TypeOK
      <4>3. QED
        BY <2>1, <4>1, <4>2 DEF Progress, Supported, Published, ReadStored, LatestIsStored, TypeOK
    <3>4. QED
      BY <2>4, <3>1, <3>2, <3>3 DEF ConfirmStep
  <2>5. ASSUME NEW s \in Scans, ScanStep(s) PROVE Rest'
    <3>1. UNCHANGED <<configurations, pc, mine, number, confirm>>
      BY <2>5 DEF ScanStep, CreateScan, LoadVersion
    <3>2. QED
      BY <2>1, <3>1 DEF Progress, Supported, Published, ReadStored, LatestIsStored
  <2>6. ASSUME Crash PROVE Rest'
    <3>1. /\ UNCHANGED <<configurations, mine, number>>
          /\ \A u \in Uploads : pc'[u] = pc[u] \/ pc'[u] = "lost"
          /\ \A k \in Confirms : confirm'[k].at = "write" => FALSE
      BY <2>6 DEF Crash, TypeOK
    <3>2. Progress' /\ Published'
      BY <2>1, <3>1 DEF Progress, Published
    <3>3. Supported'
      BY <2>1, <3>1 DEF Progress, Supported
    <3>4. ReadStored' /\ LatestIsStored'
      BY <2>1, <3>1 DEF ReadStored, LatestIsStored
    <3>5. QED
      BY <3>2, <3>3, <3>4
  <2>7. ASSUME UNCHANGED vars PROVE Rest'
    <3>1. UNCHANGED <<configurations, pc, mine, number, confirm>>
      BY <2>7 DEF vars
    <3>2. QED
      BY <2>1, <3>1 DEF Progress, Supported, Published, ReadStored, LatestIsStored
  <2>8. QED
    BY <1>0, <2>2, <2>3, <2>4, <2>5, <2>6, <2>7 DEF Next
<1>3. QED
  BY <1>1, <1>2

-----------------------------------------------------------------------------
(* Occurrences of unknown commands                                         *)

Recording == {"pattern", "increment", "new"}
Recorded  == {"insert", "latest", "device", "done"}

\* The uploads with an unmapped command under a key, those of them that have counted
\* it, and those that may have: a crash forgets how far an upload was.
WithLine(key) == {u \in Uploads : Key(u) = key /\ LineOf[ContentOf[u]] # NoLine /\ Completes(u)}
HaveCounted(key) == {u \in WithLine(key) : pc[u] \in Recorded \/ Stored(u)}
MayHaveCounted(key) == {u \in WithLine(key) : number[u] > 0 /\ pc[u] \notin Recording}

\* Only uploads with an unmapped command record one, after they have taken a number and
\* before they insert the version, and an upload that has inserted a pattern is past that.
RecordingOK ==
  /\ IsFiniteSet({u \in Uploads : number[u] > 0})
  /\ \A u \in Uploads :
       /\ pc[u] \in Recording => u \in WithLine(Key(u))
       /\ pc[u] \in Recording \union Recorded \/ Stored(u) => number[u] > 0
       /\ number[u] > 0 => pc[u] \in Recording \union Recorded \union {"lost"}
       /\ patterns[u] > 0 => number[u] > 0 /\ pc[u] \notin Recording

\* The occurrences of a command are at least the uploads that have counted it, and
\* at most those that may have.
CountsOK ==
  \A key \in {Key(u) : u \in Uploads} :
    /\ Cardinality(HaveCounted(key)) <= SumFunctionOnSet(patterns, PatternsOf(key))
    /\ SumFunctionOnSet(patterns, PatternsOf(key)) <= Cardinality(MayHaveCounted(key))

\* Any other step moves an upload as follows, and leaves the counts alone.
Moves(u) ==
  /\ number[u] > 0 => number'[u] > 0
  /\ number'[u] > 0 => number[u] > 0 \/ (pc[u] = "number" /\ pc'[u] \in Recording \union Recorded)
  /\ Stored(u)' => Stored(u) \/ pc[u] = "insert"
  /\ pc'[u] \in Recording => pc[u] \in Recording \/ (pc[u] = "number" /\ number'[u] > 0 /\ u \in WithLine(Key(u)))
  /\ pc'[u] \in Recorded =>
       pc[u] \in Recorded \/ (pc[u] = "number" /\ number'[u] > 0 /\ u \notin WithLine(Key(u)))
  /\ pc[u] \in Recording => pc'[u] \in Recording \union {"lost"}
  /\ pc[u] \in Recorded \union {"lost"} => pc'[u] \in Recorded \union {"lost"}

OthersMove ==
  /\ patterns' = patterns
  /\ \E u \in Uploads : {w \in Uploads : number'[w] > 0} \subseteq {w \in Uploads : number[w] > 0} \union {u}
  /\ \A u \in Uploads : Moves(u)

\* An upload that has found a pattern adds to it, or inserts the one it did not find.
RecordsOne(u) ==
  /\ pc[u] \in Recording /\ pc' = [pc EXCEPT ![u] = "insert"]
  /\ \E w \in Uploads :
       /\ Key(w) = Key(u) /\ patterns' = [patterns EXCEPT ![w] = @ + 1]
       /\ patterns[w] > 0 \/ (w = u /\ patterns[u] = 0)
  /\ UNCHANGED <<versions, number>>

LEMMA KeysConstant ==
  /\ \A u \in Uploads : Key(u)' = Key(u)
  /\ \A key : WithLine(key)' = WithLine(key)
  BY DEF WithLine, Key, DetectedVendor, Completes, NeedsConfirmation, CanParse, Confidence

\* An upload records if and only if it is one with an unmapped command.
LEMMA WhoRecords ==
  ASSUME NEW u \in Uploads
  PROVE  AfterNumbering(u) = IF u \in WithLine(Key(u)) THEN "pattern" ELSE "insert"
  BY DEF AfterNumbering, WithLine

LEMMA RecordStep ==
  ASSUME IInv, RecordingOK, NEW u \in Uploads, IncrementPattern(u) \/ InsertPattern(u)
  PROVE  RecordsOne(u)
<1>1. CASE IncrementPattern(u)
  BY <1>1 DEF IncrementPattern, RecordsOne, PatternsOf, Recording
<1>2. CASE InsertPattern(u)
  <2>1. patterns[u] = 0
    BY <1>2 DEF InsertPattern, RecordingOK, Recording, IInv, TypeOK
  <2>2. patterns' = [patterns EXCEPT ![u] = @ + 1]
    BY <1>2, <2>1 DEF InsertPattern, IInv, TypeOK
  <2>3. QED
    BY <1>2, <2>1, <2>2 DEF InsertPattern, RecordsOne, Recording
<1>3. QED
  BY <1>1, <1>2

LEMMA OtherSteps ==
  ASSUME IInv, RecordingOK, [Next]_vars, NEW x \in Uploads,
         \A u \in Uploads : ~IncrementPattern(u) /\ ~InsertPattern(u)
  PROVE  OthersMove
<1> USE DEF IInv, TypeOK
<1>1. CASE number' = number
  <2> USE <1>1
  <2>1. ASSUME NEW u \in Uploads, UploadStep(u) PROVE patterns' = patterns /\ \A w \in Uploads : Moves(w)
    <3>1. CASE CheckDuplicate(u)
      BY <3>1 DEF CheckDuplicate, Moves, Stored, Recording, Recorded
    <3>2. CASE FindConfiguration(u)
      BY <3>2 DEF FindConfiguration, Moves, Stored, Recording, Recorded
    <3>3. CASE CreateConfiguration(u)
      BY <3>3 DEF CreateConfiguration, Moves, Stored, Recording, Recorded
    <3>4. CASE NumberVersion(u)
      <4>1. PICK n \in Numbers(mine[u]) \union {0} : number' = [number EXCEPT ![u] = n + 1]
        BY <3>4 DEF NumberVersion
      <4>2. n \in Nat
        BY StoredIsVersion DEF Numbers, VersionsOf, Versions
      <4>3. number'[u] > 0
        BY <4>1, <4>2
      <4>4. pc[u] = "number" /\ pc' = [pc EXCEPT ![u] = AfterNumbering(u)]
            /\ patterns' = patterns /\ versions' = versions
        BY <3>4 DEF NumberVersion
      <4>5. QED
        BY <4>3, <4>4, WhoRecords DEF Moves, Stored, Recording, Recorded
    <3>5. CASE FindPattern(u)
      BY <3>5 DEF FindPattern, Moves, Stored, Recording, Recorded
    <3>6. CASE InsertVersion(u)
      BY <3>6 DEF InsertVersion, Moves, Stored, Recording, Recorded
    <3>7. CASE UpdateLatest(u)
      BY <3>7 DEF UpdateLatest, AfterLatest, Moves, Stored, Recording, Recorded
    <3>8. CASE UpdateDevice(u)
      BY <3>8 DEF UpdateDevice, Moves, Stored, Recording, Recorded
    <3>9. QED
      BY <2>1, <3>1, <3>2, <3>3, <3>4, <3>5, <3>6, <3>7, <3>8 DEF UploadStep
  <2>2. ASSUME NEW k \in Confirms, ConfirmStep(k) PROVE patterns' = patterns /\ \A w \in Uploads : Moves(w)
    <3>1. patterns' = patterns /\ pc' = pc
      BY <2>2 DEF ConfirmStep, ReadVersion, WriteVersion, ConfirmDevice
    <3>2. \A w \in Uploads : Stored(w)' => Stored(w)
      <4>1. \A u \in Uploads : ~InsertVersion(u)
        BY <3>1 DEF InsertVersion
      <4>2. [Next]_vars
        OBVIOUS
      <4>3. QED
        BY <4>1, NumbersStay DEF SameNumbers
    <3>3. QED
      BY <3>1, <3>2 DEF Moves
  <2>3. ASSUME NEW s \in Scans, ScanStep(s) PROVE patterns' = patterns /\ \A w \in Uploads : Moves(w)
    BY <2>3 DEF ScanStep, CreateScan, LoadVersion, Moves, Stored
  <2>4. ASSUME Crash PROVE patterns' = patterns /\ \A w \in Uploads : Moves(w)
    BY <2>4 DEF Crash, Over, Moves, Stored, Recording, Recorded
  <2>5. ASSUME UNCHANGED vars PROVE patterns' = patterns /\ \A w \in Uploads : Moves(w)
    BY <2>5 DEF vars, Moves, Stored
  <2>6. patterns' = patterns /\ \A w \in Uploads : Moves(w)
    BY <2>1, <2>2, <2>3, <2>4, <2>5 DEF Next
  <2>7. QED
    BY <2>6 DEF OthersMove
<1>2. ASSUME NEW u \in Uploads, NumberVersion(u) PROVE OthersMove
  <2>1. PICK n \in Numbers(mine[u]) \union {0} : number' = [number EXCEPT ![u] = n + 1]
    BY <1>2 DEF NumberVersion
  <2>2. n \in Nat
    BY StoredIsVersion DEF Numbers, VersionsOf, Versions
  <2>3. number'[u] > 0 /\ \A w \in Uploads \ {u} : number'[w] = number[w]
    BY <2>1, <2>2
  <2>4. pc[u] = "number" /\ pc' = [pc EXCEPT ![u] = AfterNumbering(u)]
        /\ patterns' = patterns /\ versions' = versions
    BY <1>2 DEF NumberVersion
  <2>5. \A w \in Uploads : Moves(w)
    BY <2>3, <2>4, WhoRecords DEF Moves, Stored, Recording, Recorded
  <2>6. {w \in Uploads : number'[w] > 0} \subseteq {w \in Uploads : number[w] > 0} \union {u}
    BY <2>3
  <2>7. QED
    BY <2>4, <2>5, <2>6 DEF OthersMove
<1>3. CASE \A u \in Uploads : ~NumberVersion(u)
  <2>1. number' = number
    BY <1>3 DEF vars, Next, UploadStep, CheckDuplicate, FindConfiguration, CreateConfiguration, FindPattern,
      IncrementPattern, InsertPattern, InsertVersion, UpdateLatest, UpdateDevice, ConfirmStep, ReadVersion,
      WriteVersion, ConfirmDevice, ScanStep, CreateScan, LoadVersion, Crash
  <2>2. QED
    BY <1>1, <2>1
<1>4. QED
  BY <1>2, <1>3

\* The numbers taken, and what may have been counted, are finitely many.
LEMMA FiniteCounts ==
  ASSUME IInv, RecordingOK, NEW key
  PROVE  /\ IsFiniteSet(PatternsOf(key)) /\ IsFiniteSet(HaveCounted(key)) /\ IsFiniteSet(MayHaveCounted(key))
         /\ \A u \in PatternsOf(key) : patterns[u] \in Nat
<1>1. /\ PatternsOf(key) \subseteq {u \in Uploads : number[u] > 0}
      /\ HaveCounted(key) \subseteq {u \in Uploads : number[u] > 0}
      /\ MayHaveCounted(key) \subseteq {u \in Uploads : number[u] > 0}
  BY DEF RecordingOK, PatternsOf, HaveCounted, MayHaveCounted, WithLine
<1>2. IsFiniteSet({u \in Uploads : number[u] > 0})
  BY DEF RecordingOK
<1>3. QED
  BY <1>1, <1>2, FS_Subset DEF IInv, TypeOK, PatternsOf

LEMMA RecordingStep ==
  ASSUME IInv, RecordingOK, OthersMove \/ \E u \in Uploads : RecordsOne(u)
  PROVE  RecordingOK'
<1> USE DEF IInv, TypeOK
<1>1. CASE OthersMove
  <2>1. PICK u \in Uploads : {w \in Uploads : number'[w] > 0} \subseteq {w \in Uploads : number[w] > 0} \union {u}
    BY <1>1 DEF OthersMove
  <2>2. IsFiniteSet({w \in Uploads : number[w] > 0} \union {u})
    BY FS_AddElement DEF RecordingOK
  <2>3. IsFiniteSet({w \in Uploads : number'[w] > 0})
    BY <2>1, <2>2, FS_Subset
  <2>4. ASSUME NEW w \in Uploads
        PROVE  /\ pc'[w] \in Recording => w \in WithLine(Key(w))
               /\ pc'[w] \in Recording \union Recorded \/ Stored(w)' => number'[w] > 0
               /\ number'[w] > 0 => pc'[w] \in Recording \union Recorded \union {"lost"}
               /\ patterns'[w] > 0 => number'[w] > 0 /\ pc'[w] \notin Recording
    <3>1. Moves(w) /\ patterns' = patterns
      BY <1>1 DEF OthersMove
    <3>2. QED
      BY <3>1 DEF Moves, RecordingOK, Recording, Recorded
  <2>5. QED
    BY <2>3, <2>4, KeysConstant DEF RecordingOK
<1>2. ASSUME NEW u \in Uploads, RecordsOne(u) PROVE RecordingOK'
  <2>1. PICK w \in Uploads : /\ patterns' = [patterns EXCEPT ![w] = @ + 1]
                             /\ patterns[w] > 0 \/ (w = u /\ patterns[u] = 0)
    BY <1>2 DEF RecordsOne
  <2>2. pc[u] \in Recording /\ pc' = [pc EXCEPT ![u] = "insert"] /\ versions' = versions /\ number' = number
    BY <1>2 DEF RecordsOne
  <2>3. \A x \in Uploads : Stored(x)' <=> Stored(x)
    BY <2>2 DEF Stored
  <2>4. QED
    BY <2>1, <2>2, <2>3, KeysConstant DEF RecordingOK, Recording, Recorded
<1>3. QED
  BY <1>1, <1>2

LEMMA CountsStep ==
  ASSUME IInv, RecordingOK, CountsOK, IInv', RecordingOK', OthersMove \/ \E u \in Uploads : RecordsOne(u)
  PROVE  CountsOK'
<1> USE DEF IInv, TypeOK
<1> SUFFICES ASSUME NEW key \in {Key(u) : u \in Uploads}
             PROVE  /\ Cardinality(HaveCounted(key)') <= SumFunctionOnSet(patterns', PatternsOf(key)')
                    /\ SumFunctionOnSet(patterns', PatternsOf(key)') <= Cardinality(MayHaveCounted(key)')
  BY KeysConstant DEF CountsOK
<1>1. /\ Cardinality(HaveCounted(key)) <= SumFunctionOnSet(patterns, PatternsOf(key))
      /\ SumFunctionOnSet(patterns, PatternsOf(key)) <= Cardinality(MayHaveCounted(key))
  BY DEF CountsOK
<1>2. /\ IsFiniteSet(PatternsOf(key)) /\ IsFiniteSet(HaveCounted(key)) /\ IsFiniteSet(MayHaveCounted(key))
      /\ \A u \in PatternsOf(key) : patterns[u] \in Nat
  BY FiniteCounts
<1>3. IsFiniteSet(PatternsOf(key)') /\ IsFiniteSet(HaveCounted(key)') /\ IsFiniteSet(MayHaveCounted(key)')
  <2>1. IsFiniteSet({u \in Uploads : number'[u] > 0})
    BY DEF RecordingOK
  <2>2. /\ PatternsOf(key)' \subseteq {u \in Uploads : number'[u] > 0}
        /\ HaveCounted(key)' \subseteq {u \in Uploads : number'[u] > 0}
        /\ MayHaveCounted(key)' \subseteq {u \in Uploads : number'[u] > 0}
    BY DEF RecordingOK, PatternsOf, HaveCounted, MayHaveCounted, WithLine
  <2>3. QED
    BY <2>1, <2>2, FS_Subset
<1>4. CASE OthersMove
  <2>1. PatternsOf(key)' = PatternsOf(key) /\ patterns' = patterns
    BY <1>4, KeysConstant DEF OthersMove, PatternsOf
  <2>2. HaveCounted(key)' \subseteq HaveCounted(key)
    BY <1>4, KeysConstant DEF OthersMove, Moves, HaveCounted, WithLine, Recorded
  <2>3. MayHaveCounted(key) \subseteq MayHaveCounted(key)'
    <3>1. ASSUME NEW u \in WithLine(key), number[u] > 0, pc[u] \notin Recording
          PROVE  number'[u] > 0 /\ pc'[u] \notin Recording
      <4>1. u \in Uploads
        BY DEF WithLine
      <4>2. pc[u] \in Recorded \union {"lost"}
        BY <3>1, <4>1 DEF RecordingOK
      <4>3. number'[u] > 0 /\ pc'[u] \in Recorded \union {"lost"}
        BY <1>4, <3>1, <4>1, <4>2 DEF OthersMove, Moves
      <4>4. QED
        BY <4>3 DEF Recorded, Recording
    <3>2. QED
      BY <3>1, KeysConstant DEF MayHaveCounted
  <2>4. /\ Cardinality(HaveCounted(key)') <= Cardinality(HaveCounted(key))
        /\ Cardinality(MayHaveCounted(key)) <= Cardinality(MayHaveCounted(key)')
    BY <1>2, <1>3, <2>2, <2>3, FS_Subset
  <2>5. SumFunctionOnSet(patterns, PatternsOf(key)) \in Nat
    BY <1>2, SumNat
  <2>6. QED
    BY <1>1, <1>2, <1>3, <2>1, <2>4, <2>5, FS_CardinalityType
<1>5. ASSUME NEW u \in Uploads, RecordsOne(u)
      PROVE  /\ Cardinality(HaveCounted(key)') <= SumFunctionOnSet(patterns', PatternsOf(key)')
             /\ SumFunctionOnSet(patterns', PatternsOf(key)') <= Cardinality(MayHaveCounted(key)')
  <2>1. PICK w \in Uploads : /\ Key(w) = Key(u) /\ patterns' = [patterns EXCEPT ![w] = @ + 1]
                             /\ patterns[w] > 0 \/ (w = u /\ patterns[u] = 0)
    BY <1>5 DEF RecordsOne
  <2>2. pc[u] \in Recording /\ pc' = [pc EXCEPT ![u] = "insert"] /\ versions' = versions /\ number' = number
    BY <1>5 DEF RecordsOne
  <2>3. \A x \in Uploads : Stored(x)' <=> Stored(x)
    BY <2>2 DEF Stored
  <2>4. u \in WithLine(Key(u)) /\ number[u] > 0 /\ ~Stored(u)
    BY <2>2 DEF RecordingOK, Progress, Recording, Phases
  <2>5. CASE key # Key(u)
    <3>1. PatternsOf(key)' = PatternsOf(key) /\ \A x \in PatternsOf(key) : patterns'[x] = patterns[x]
      BY <2>1, <2>5, KeysConstant DEF PatternsOf
    <3>2. u \notin WithLine(key)
      BY <2>5 DEF WithLine
    <3>3. HaveCounted(key)' = HaveCounted(key) /\ MayHaveCounted(key)' = MayHaveCounted(key)
      BY <2>2, <2>3, <3>2, KeysConstant DEF HaveCounted, MayHaveCounted, WithLine
    <3>4. SumFunctionOnSet(patterns', PatternsOf(key)) = SumFunctionOnSet(patterns, PatternsOf(key))
      BY <1>2, <3>1, SumSame
    <3>5. QED
      BY <1>1, <3>1, <3>3, <3>4
  <2>6. CASE key = Key(u)
    <3>1. HaveCounted(key)' = HaveCounted(key) \union {u} /\ u \notin HaveCounted(key)
      BY <2>2, <2>3, <2>4, <2>6, KeysConstant DEF HaveCounted, WithLine, Recorded, Recording
    <3>2. MayHaveCounted(key)' = MayHaveCounted(key) \union {u} /\ u \notin MayHaveCounted(key)
      BY <2>2, <2>4, <2>6, KeysConstant DEF MayHaveCounted, WithLine, Recorded, Recording
    <3>3. SumFunctionOnSet(patterns', PatternsOf(key)') = SumFunctionOnSet(patterns, PatternsOf(key)) + 1
      <4>1. CASE patterns[w] > 0
        <5>1. PatternsOf(key)' = PatternsOf(key) /\ w \in PatternsOf(key)
          BY <2>1, <2>6, <4>1, KeysConstant DEF PatternsOf
        <5>2. \A x \in PatternsOf(key) : patterns'[x] = IF x = w THEN patterns[x] + 1 ELSE patterns[x]
          BY <2>1 DEF PatternsOf
        <5>3. QED
          BY <1>2, <5>1, <5>2, SumIncrement
      <4>2. CASE w = u /\ patterns[u] = 0
        <5>1. PatternsOf(key)' = PatternsOf(key) \union {u} /\ u \notin PatternsOf(key)
          BY <2>1, <2>6, <4>2, KeysConstant DEF PatternsOf
        <5>2. patterns'[u] = 1 /\ \A x \in PatternsOf(key) : patterns'[x] = patterns[x]
          BY <2>1, <4>2 DEF PatternsOf
        <5>3. SumFunctionOnSet(patterns', PatternsOf(key)) = SumFunctionOnSet(patterns, PatternsOf(key))
          BY <1>2, <5>2, SumSame
        <5>4. SumFunctionOnSet(patterns', PatternsOf(key) \union {u}) = SumFunctionOnSet(patterns', PatternsOf(key)) + patterns'[u]
          BY <1>2, <5>1, <5>2, SumAdd
        <5>5. QED
          BY <5>1, <5>2, <5>3, <5>4
      <4>3. QED
        BY <2>1, <4>1, <4>2
    <3>4. Cardinality(HaveCounted(key)') = Cardinality(HaveCounted(key)) + 1
      <4>1. Cardinality(HaveCounted(key) \union {u}) = Cardinality(HaveCounted(key)) + 1
        BY <1>2, <3>1, FS_AddElement
      <4>2. QED
        BY <3>1, <4>1
    <3>5. Cardinality(MayHaveCounted(key)') = Cardinality(MayHaveCounted(key)) + 1
      <4>1. Cardinality(MayHaveCounted(key) \union {u}) = Cardinality(MayHaveCounted(key)) + 1
        BY <1>2, <3>2, FS_AddElement
      <4>2. QED
        BY <3>2, <4>1
    <3>6. /\ SumFunctionOnSet(patterns, PatternsOf(key)) \in Nat
          /\ Cardinality(HaveCounted(key)) \in Nat /\ Cardinality(MayHaveCounted(key)) \in Nat
      BY <1>2, SumNat, FS_CardinalityType
    <3>7. QED
      BY <1>1, <3>3, <3>4, <3>5, <3>6
  <2>7. QED
    BY <2>5, <2>6
<1>6. QED
  BY <1>4, <1>5

LEMMA InitCounts == Init => RecordingOK /\ CountsOK
<1> SUFFICES ASSUME Init PROVE RecordingOK /\ CountsOK
  OBVIOUS
<1>1. {u \in Uploads : number[u] > 0} = {}
  BY DEF Init
<1>2. RecordingOK
  BY <1>1, FS_EmptySet DEF Init, RecordingOK, Recording, Recorded, Stored
<1>3. \A key : PatternsOf(key) = {} /\ HaveCounted(key) = {} /\ MayHaveCounted(key) = {}
  BY DEF Init, PatternsOf, HaveCounted, MayHaveCounted, WithLine, Recorded, Stored
<1>4. CountsOK
  BY <1>3, SumEmpty, FS_EmptySet DEF CountsOK
<1>5. QED
  BY <1>2, <1>4

LEMMA CountsInvStep ==
  ASSUME IInv, RecordingOK, CountsOK, [Next]_vars
  PROVE  (IInv /\ RecordingOK /\ CountsOK)'
<1>1. IInv'
  BY InvStep
<1>2. CASE \E u \in Uploads : IncrementPattern(u) \/ InsertPattern(u)
  BY <1>1, <1>2, RecordStep, RecordingStep, CountsStep
<1>3. CASE /\ Uploads # {}
           /\ \A u \in Uploads : ~IncrementPattern(u) /\ ~InsertPattern(u)
  BY <1>1, <1>3, OtherSteps, RecordingStep, CountsStep
<1>4. CASE Uploads = {}
  <2>1. RecordingOK'
    BY <1>4, FS_EmptySet DEF RecordingOK
  <2>2. CountsOK'
    BY <1>4 DEF CountsOK
  <2>3. QED
    BY <1>1, <2>1, <2>2
<1>5. QED
  BY <1>2, <1>3, <1>4

-----------------------------------------------------------------------------
(* Theorems                                                                *)

\* The invariant the theorems rest on is inductive.
THEOREM Invariance == Spec => []IInv
<1>1. IInv /\ [Next]_vars => IInv'
  BY InvStep
<1>2. QED
  BY <1>1, InitIInv, PTL DEF Spec

\* Documents, handlers and counters of the configuration store have their
\* types, for any uploads and any interleaving of them.
THEOREM TypeCorrect == Spec => []TypeOK
<1>1. IInv => TypeOK
  BY DEF IInv
<1>2. QED
  BY <1>1, Invariance, PTL

\* The version numbers of a configuration have no gap, and readers who look the latest
\* version up by latest_version find one, whether or not uploads overlap, and wherever
\* handlers die (_next_version, the insert, list_configurations and get_configuration).
THEOREM NumbersKept == Spec => []NumbersLeadToVersions
<1>1. IInv => NumbersLeadToVersions
  BY DEF IInv, NumbersLeadToVersions
<1>2. QED
  BY <1>1, Invariance, PTL

\* The unmapped command of a version an upload completes is counted once, whichever document
\* overlapping uploads count it in and wherever handlers die (_record_unmapped_commands and the insert
\* of the version): the sum of the counts of a command is never below the number of stored
\* versions with it, nor above the number of uploads that got as far.
THEOREM OccurrencesKept == Spec => []OccurrencesCounted
<1>1. Init => IInv /\ RecordingOK /\ CountsOK
  BY InitIInv, InitCounts
<1>2. IInv /\ RecordingOK /\ CountsOK /\ [Next]_vars => (IInv /\ RecordingOK /\ CountsOK)'
  BY CountsInvStep
<1>3. ASSUME IInv, RecordingOK, CountsOK PROVE OccurrencesCounted
  <2> DEFINE With(key, S) == {u \in S : Key(u) = key /\ LineOf[ContentOf[u]] # NoLine /\ Completes(u)}
  <2>1. ASSUME NEW key \in {Key(u) : u \in Uploads}
        PROVE  /\ Cardinality(With(key, {u \in Uploads : Stored(u)})) <= SumFunctionOnSet(patterns, PatternsOf(key))
               /\ SumFunctionOnSet(patterns, PatternsOf(key)) <= Cardinality(With(key, {u \in Uploads : number[u] > 0}))
    <3>1. /\ Cardinality(HaveCounted(key)) <= SumFunctionOnSet(patterns, PatternsOf(key))
          /\ SumFunctionOnSet(patterns, PatternsOf(key)) <= Cardinality(MayHaveCounted(key))
      BY <1>3 DEF CountsOK
    <3>2. /\ IsFiniteSet(PatternsOf(key)) /\ IsFiniteSet(HaveCounted(key)) /\ IsFiniteSet(MayHaveCounted(key))
          /\ \A u \in PatternsOf(key) : patterns[u] \in Nat
      BY <1>3, FiniteCounts
    <3>3. SumFunctionOnSet(patterns, PatternsOf(key)) \in Nat
      BY <3>2, SumNat
    <3>4. With(key, {u \in Uploads : Stored(u)}) \subseteq HaveCounted(key)
      BY DEF HaveCounted, WithLine
    <3>5. MayHaveCounted(key) \subseteq With(key, {u \in Uploads : number[u] > 0})
      BY DEF MayHaveCounted, WithLine
    <3>6. IsFiniteSet(With(key, {u \in Uploads : number[u] > 0}))
      <4>1. IsFiniteSet({u \in Uploads : number[u] > 0})
        BY <1>3 DEF RecordingOK
      <4>2. With(key, {u \in Uploads : number[u] > 0}) \subseteq {u \in Uploads : number[u] > 0}
        OBVIOUS
      <4>3. QED
        BY <4>1, <4>2, FS_Subset
    <3> HIDE DEF With
    <3>7. /\ Cardinality(With(key, {u \in Uploads : Stored(u)})) <= Cardinality(HaveCounted(key))
          /\ Cardinality(MayHaveCounted(key)) <= Cardinality(With(key, {u \in Uploads : number[u] > 0}))
          /\ IsFiniteSet(With(key, {u \in Uploads : Stored(u)}))
      BY <3>2, <3>4, <3>5, <3>6, FS_Subset
    <3>8. QED
      BY <3>1, <3>2, <3>3, <3>6, <3>7, FS_CardinalityType
  <2>2. QED
    BY <2>1 DEF OccurrencesCounted
<1>4. QED
  BY <1>1, <1>2, <1>3, PTL DEF Spec
=============================================================================
