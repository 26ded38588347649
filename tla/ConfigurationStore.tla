-------------------------- MODULE ConfigurationStore --------------------------
(***************************************************************************)
(* Uploads of device configurations (app/services/configuration_service.py *)
(* and the endpoints of app/api/configurations.py), the human confirmation *)
(* of a guessed vendor, and the scans that pin a version                   *)
(* (app/services/scan_service.py).                                         *)
(*                                                                         *)
(* Handlers interleave at every await on MongoDB, no collection has a      *)
(* unique index, and a document is named here by the upload that inserts   *)
(* it: an upload inserts at most one configuration, one version and one    *)
(* unknown pattern.  An upload is one that validate_upload accepts, of a   *)
(* device that exists; the others change none of this state.               *)
(***************************************************************************)
EXTENDS Integers, FiniteSets, Functions

CONSTANTS
  Uploads, Devices, Contents, Vendors, Lines,
  DeviceOf, ContentOf,  \* of an upload
  Hint,                 \* the vendor_hint of an upload: a vendor, NoHint or another word
  NoHint, NoVendor, NoContent, NoLine, NoUpload,
  Guess,       \* the vendor that scores highest on a content
  Sure,        \* the contents whose score reaches the threshold
  Parses,      \* <<vendor, content>> pairs that the vendor's parser accepts
  LineOf,      \* the command a content has that no parser maps, or NoLine
  Confirms, ConfirmedVendor,  \* calls of confirm_vendor, and what the human says
  Scans,
  OneAtATime,  \* clients do not upload for a device before the last upload ended
  MaxCrashes   \* bound: crashes of the process

ASSUME StoreAssumption ==
  /\ DeviceOf \in [Uploads -> Devices] /\ ContentOf \in [Uploads -> Contents]
  /\ Guess \in [Contents -> Vendors] /\ Sure \subseteq Contents
  /\ Parses \subseteq Vendors \X Contents
  /\ LineOf \in [Contents -> Lines \union {NoLine}]
  /\ ConfirmedVendor \in [Confirms -> Vendors]
  /\ NoHint \notin Vendors /\ NoVendor \notin Vendors /\ NoContent \notin Contents
  /\ NoLine \notin Lines /\ NoUpload \notin Uploads
  /\ OneAtATime \in BOOLEAN /\ MaxCrashes \in Nat

VARIABLES
  configurations,  \* latest_version of the configuration an upload inserted
  versions,        \* configuration_versions, by upload
  patterns,        \* occurrence_count of the unknown pattern an upload inserted
  vendor,          \* devices.vendor
  pc, mine, number,\* an upload's next await, its configuration and its version
  confirm,         \* how far each confirmation is, and the document it read
  scan,            \* what each scan pinned, and what it analyses
  crashes

vars == <<configurations, versions, patterns, vendor, pc, mine, number, confirm, scan, crashes>>

Absent == -1
Phases == {"idle", "configure", "create", "number", "pattern", "increment", "new",
           "insert", "latest", "device", "done", "refused", "lost"}
Over   == {"idle", "done", "refused", "lost"}

NoIR == [vendor |-> NoVendor, content |-> NoContent]
IRs  == [vendor : Vendors, content : Contents] \union {NoIR}

Versions == [status : {"NEEDS_VENDOR_CONFIRMATION", "FAILED", "COMPLETED"},
             configuration : Uploads, number : Nat, vendor : Vendors,
             confidence : {"low", "high"}, ir : IRs]
NoVersion == [status |-> "NONE"]

Stored(u) == versions[u] # NoVersion
VersionsOf(c) == {u \in Uploads : Stored(u) /\ versions[u].configuration = c}
Numbers(c) == {versions[u].number : u \in VersionsOf(c)}
Numbered(c, n) == {u \in VersionsOf(c) : versions[u].number = n}
ConfigurationsOf(d) == {c \in Uploads : configurations[c] # Absent /\ DeviceOf[c] = d}
Busy(d) == \E u \in Uploads : DeviceOf[u] = d /\ pc[u] \notin Over

Init ==
  /\ configurations = [u \in Uploads |-> Absent]
  /\ versions = [u \in Uploads |-> NoVersion]
  /\ patterns = [u \in Uploads |-> 0]
  /\ vendor = [d \in Devices |-> NoVendor]
  /\ pc = [u \in Uploads |-> "idle"]
  /\ mine = [u \in Uploads |-> NoUpload]
  /\ number = [u \in Uploads |-> 0]
  /\ confirm = [k \in Confirms |-> [at |-> "idle", read |-> NoUpload]]
  /\ scan = [s \in Scans |-> [at |-> "idle", pinned |-> NoUpload, ir |-> NoIR]]
  /\ crashes = 0

-----------------------------------------------------------------------------
(* Detection                                                               *)

\* A known hint wins outright; any other hint is not looked at.
DetectedVendor(u) == IF Hint[u] \in Vendors THEN Hint[u] ELSE Guess[ContentOf[u]]
Confidence(u) == IF Hint[u] \in Vendors \/ ContentOf[u] \in Sure THEN "high" ELSE "low"

NeedsConfirmation(u) == Confidence(u) = "low" /\ Hint[u] = NoHint

CanParse(u) == <<DetectedVendor(u), ContentOf[u]>> \in Parses

Completes(u) == ~NeedsConfirmation(u) /\ CanParse(u)

\* Mutant: a parser failure does not set the status.
UnsetDocument(u) ==
  [status |-> IF NeedsConfirmation(u) THEN "NEEDS_VENDOR_CONFIRMATION"
              ELSE IF CanParse(u) THEN "COMPLETED" ELSE "DETECTING_VENDOR",
   configuration |-> mine[u], number |-> number[u],
   vendor |-> DetectedVendor(u), confidence |-> Confidence(u),
   ir |-> IF Completes(u) THEN [vendor |-> DetectedVendor(u), content |-> ContentOf[u]] ELSE NoIR]

\* The document inserted: a parser failure or a missing parser makes it FAILED.
VersionDocument(u) ==
  [status |-> IF NeedsConfirmation(u) THEN "NEEDS_VENDOR_CONFIRMATION"
              ELSE IF CanParse(u) THEN "COMPLETED" ELSE "FAILED",
   configuration |-> mine[u], number |-> number[u],
   vendor |-> DetectedVendor(u), confidence |-> Confidence(u),
   ir |-> IF Completes(u) THEN [vendor |-> DetectedVendor(u), content |-> ContentOf[u]] ELSE NoIR]

-----------------------------------------------------------------------------
(* upload_configuration and process_upload                                 *)

Duplicate(u) ==
  \E w \in Uploads : /\ Stored(w)
                     /\ DeviceOf[w] = DeviceOf[u] /\ ContentOf[w] = ContentOf[u]

\* find_duplicate_version: a content the device already has is refused.
CheckDuplicate(u) ==
  /\ pc[u] = "idle"
  /\ OneAtATime => ~Busy(DeviceOf[u])
  /\ pc' = [pc EXCEPT ![u] = IF Duplicate(u) THEN "refused" ELSE "configure"]
  /\ UNCHANGED <<configurations, versions, patterns, vendor, mine, number, confirm, scan, crashes>>

FindConfiguration(u) ==
  /\ pc[u] = "configure"
  /\ \/ /\ ConfigurationsOf(DeviceOf[u]) = {}
        /\ pc' = [pc EXCEPT ![u] = "create"]
        /\ UNCHANGED mine
     \/ \E c \in ConfigurationsOf(DeviceOf[u]) :
        /\ mine' = [mine EXCEPT ![u] = c]
        /\ pc' = [pc EXCEPT ![u] = "number"]
  /\ UNCHANGED <<configurations, versions, patterns, vendor, number, confirm, scan, crashes>>

\* Mutant: the configuration is created with the version to come.
CreateAtOne(u) ==
  /\ pc[u] = "create"
  /\ configurations' = [configurations EXCEPT ![u] = 1]
  /\ mine' = [mine EXCEPT ![u] = u]
  /\ pc' = [pc EXCEPT ![u] = "number"]
  /\ UNCHANGED <<versions, patterns, vendor, number, confirm, scan, crashes>>

CreateConfiguration(u) ==
  /\ pc[u] = "create"
  /\ configurations' = [configurations EXCEPT ![u] = 0]
  /\ mine' = [mine EXCEPT ![u] = u]
  /\ pc' = [pc EXCEPT ![u] = "number"]
  /\ UNCHANGED <<versions, patterns, vendor, number, confirm, scan, crashes>>

AfterNumbering(u) ==
  IF Completes(u) /\ LineOf[ContentOf[u]] # NoLine THEN "pattern" ELSE "insert"

\* Mutants: the configuration's latest_version counts; the number itself is
\* taken for the next one.
NumberFromLatest(u) ==
  /\ pc[u] = "number"
  /\ number' = [number EXCEPT ![u] = configurations[mine[u]] + 1]
  /\ pc' = [pc EXCEPT ![u] = AfterNumbering(u)]
  /\ UNCHANGED <<configurations, versions, patterns, vendor, mine, confirm, scan, crashes>>
NumberTwoAhead(u) ==
  /\ pc[u] = "number"
  /\ \E n \in Numbers(mine[u]) \union {0} :
       /\ \A i \in Numbers(mine[u]) : i <= n
       /\ number' = [number EXCEPT ![u] = IF n = 0 THEN 1 ELSE n + 2]
  /\ pc' = [pc EXCEPT ![u] = AfterNumbering(u)]
  /\ UNCHANGED <<configurations, versions, patterns, vendor, mine, confirm, scan, crashes>>

\* _next_version: one more than the highest version stored so far.
NumberVersion(u) ==
  /\ pc[u] = "number"
  /\ \E n \in Numbers(mine[u]) \union {0} :
       /\ \A i \in Numbers(mine[u]) : i <= n
       /\ number' = [number EXCEPT ![u] = n + 1]
  /\ pc' = [pc EXCEPT ![u] = AfterNumbering(u)]
  /\ UNCHANGED <<configurations, versions, patterns, vendor, mine, confirm, scan, crashes>>

-----------------------------------------------------------------------------
(* _record_unmapped_commands, for the one unmapped command of a content    *)

Key(u) == <<DetectedVendor(u), LineOf[ContentOf[u]]>>
PatternsOf(key) == {w \in Uploads : patterns[w] > 0 /\ Key(w) = key}

FindPattern(u) ==
  /\ pc[u] = "pattern"
  /\ \/ /\ PatternsOf(Key(u)) = {}
        /\ pc' = [pc EXCEPT ![u] = "new"]
     \/ /\ PatternsOf(Key(u)) # {}
        /\ pc' = [pc EXCEPT ![u] = "increment"]
  /\ UNCHANGED <<configurations, versions, patterns, vendor, mine, number, confirm, scan, crashes>>

\* Mutant: a pattern that exists is left as it is.
SkipPattern(u) ==
  /\ pc[u] = "increment"
  /\ pc' = [pc EXCEPT ![u] = "insert"]
  /\ UNCHANGED <<configurations, versions, patterns, vendor, mine, number, confirm, scan, crashes>>

\* $inc on the document found, which no other handler deletes.
IncrementPattern(u) ==
  /\ pc[u] = "increment"
  /\ \E w \in PatternsOf(Key(u)) : patterns' = [patterns EXCEPT ![w] = @ + 1]
  /\ pc' = [pc EXCEPT ![u] = "insert"]
  /\ UNCHANGED <<configurations, versions, vendor, mine, number, confirm, scan, crashes>>

InsertPattern(u) ==
  /\ pc[u] = "new"
  /\ patterns' = [patterns EXCEPT ![u] = 1]
  /\ pc' = [pc EXCEPT ![u] = "insert"]
  /\ UNCHANGED <<configurations, versions, vendor, mine, number, confirm, scan, crashes>>

-----------------------------------------------------------------------------
(* The version, the counter and the device                                 *)

InsertVersion(u) ==
  /\ pc[u] = "insert"
  /\ versions' = [versions EXCEPT ![u] = VersionDocument(u)]
  /\ pc' = [pc EXCEPT ![u] = "latest"]
  /\ UNCHANGED <<configurations, patterns, vendor, mine, number, confirm, scan, crashes>>

AfterLatest(u) == IF Completes(u) THEN "device" ELSE "done"

\* latest_version is set to this upload's number, whatever it is by now.
UpdateLatest(u) ==
  /\ pc[u] = "latest"
  /\ configurations' = [configurations EXCEPT ![mine[u]] = number[u]]
  /\ pc' = [pc EXCEPT ![u] = AfterLatest(u)]
  /\ UNCHANGED <<versions, patterns, vendor, mine, number, confirm, scan, crashes>>

UpdateDevice(u) ==
  /\ pc[u] = "device"
  /\ vendor' = [vendor EXCEPT ![DeviceOf[u]] = DetectedVendor(u)]
  /\ pc' = [pc EXCEPT ![u] = "done"]
  /\ UNCHANGED <<configurations, versions, patterns, mine, number, confirm, scan, crashes>>

-----------------------------------------------------------------------------
(* confirm_vendor                                                          *)

\* The version asked for, of any status; find_one returns one of its documents.
ReadVersion(k, u) ==
  /\ confirm[k].at = "idle"
  /\ Stored(u)
  /\ confirm' = [confirm EXCEPT ![k] = [at |-> "write", read |-> u]]
  /\ UNCHANGED <<configurations, versions, patterns, vendor, pc, mine, number, scan, crashes>>

Reparses(k) == <<ConfirmedVendor[k], ContentOf[confirm[k].read]>> \in Parses

\* Mutant: the vendor is set and the IR of the guess kept.
VendorOnly(k, doc) ==
  [doc EXCEPT !.vendor = ConfirmedVendor[k], !.confidence = "high", !.status = "COMPLETED"]

\* A parser failure leaves the IR an earlier parse stored.
Confirmed(k, doc) ==
  IF Reparses(k)
    THEN [doc EXCEPT !.vendor = ConfirmedVendor[k], !.confidence = "high", !.status = "COMPLETED",
            !.ir = [vendor |-> ConfirmedVendor[k], content |-> ContentOf[confirm[k].read]]]
    ELSE [doc EXCEPT !.vendor = ConfirmedVendor[k], !.confidence = "high", !.status = "FAILED"]

\* update_one by configuration and number.
WriteVersion(k) ==
  /\ confirm[k].at = "write"
  /\ LET read == versions[confirm[k].read] IN
     \E w \in Numbered(read.configuration, read.number) :
       versions' = [versions EXCEPT ![w] = Confirmed(k, @)]
  /\ confirm' = [confirm EXCEPT ![k].at = IF Reparses(k) THEN "device" ELSE "done"]
  /\ UNCHANGED <<configurations, patterns, vendor, pc, mine, number, scan, crashes>>

ConfirmDevice(k) ==
  /\ confirm[k].at = "device"
  /\ vendor' = [vendor EXCEPT ![DeviceOf[confirm[k].read]] = ConfirmedVendor[k]]
  /\ confirm' = [confirm EXCEPT ![k].at = "done"]
  /\ UNCHANGED <<configurations, versions, patterns, pc, mine, number, scan, crashes>>

-----------------------------------------------------------------------------
(* Scans                                                                   *)

Completed(c) == {u \in VersionsOf(c) : versions[u].status = "COMPLETED"}

\* create_scan: the highest COMPLETED version of the device's configuration;
\* the scan keeps its number and its configuration_hash.
CreateScan(s, d) ==
  /\ scan[s].at = "idle"
  /\ \E c \in ConfigurationsOf(d) : \E u \in Completed(c) :
       /\ \A w \in Completed(c) : versions[w].number <= versions[u].number
       /\ scan' = [scan EXCEPT ![s] = [at |-> "load", pinned |-> u, ir |-> NoIR]]
  /\ UNCHANGED <<configurations, versions, patterns, vendor, pc, mine, number, confirm, crashes>>

\* Mutant: the pipeline takes the newest version by now.
LoadNewest(s) ==
  /\ scan[s].at = "load"
  /\ LET c == versions[scan[s].pinned].configuration IN
     \E u \in VersionsOf(c) :
       /\ \A i \in Numbers(c) : i <= versions[u].number
       /\ scan' = [scan EXCEPT ![s].at = IF versions[u].ir = NoIR THEN "failed" ELSE "analysed",
                               ![s].ir = versions[u].ir]
  /\ UNCHANGED <<configurations, versions, patterns, vendor, pc, mine, number, confirm, crashes>>

\* run_scan_pipeline finds the version by configuration and number; without an
\* IR SecurityIR(**None) raises and the scan fails.
LoadVersion(s) ==
  /\ scan[s].at = "load"
  /\ LET pinned == versions[scan[s].pinned] IN
     \E u \in Numbered(pinned.configuration, pinned.number) :
       scan' = [scan EXCEPT ![s].at = IF versions[u].ir = NoIR THEN "failed" ELSE "analysed",
                            ![s].ir = versions[u].ir]
  /\ UNCHANGED <<configurations, versions, patterns, vendor, pc, mine, number, confirm, crashes>>

-----------------------------------------------------------------------------
\* The process dies with every handler and background task in it.
Crash ==
  /\ crashes < MaxCrashes
  /\ crashes' = crashes + 1
  /\ pc' = [u \in Uploads |-> IF pc[u] \in Over THEN pc[u] ELSE "lost"]
  /\ confirm' = [k \in Confirms |->
       IF confirm[k].at = "idle" THEN confirm[k] ELSE [confirm[k] EXCEPT !.at = "done"]]
  /\ scan' = [s \in Scans |->
       IF scan[s].at = "load" THEN [scan[s] EXCEPT !.at = "lost"] ELSE scan[s]]
  /\ UNCHANGED <<configurations, versions, patterns, vendor, mine, number>>

UploadStep(u) ==
  \/ CheckDuplicate(u) \/ FindConfiguration(u) \/ CreateConfiguration(u) \/ NumberVersion(u)
  \/ FindPattern(u) \/ IncrementPattern(u) \/ InsertPattern(u)
  \/ InsertVersion(u) \/ UpdateLatest(u) \/ UpdateDevice(u)

ConfirmStep(k) == (\E u \in Uploads : ReadVersion(k, u)) \/ WriteVersion(k) \/ ConfirmDevice(k)

ScanStep(s) == (\E d \in Devices : CreateScan(s, d)) \/ LoadVersion(s)

Next ==
  \/ \E u \in Uploads : UploadStep(u)
  \/ \E k \in Confirms : ConfirmStep(k)
  \/ \E s \in Scans : ScanStep(s)
  \/ Crash

Spec == Init /\ [][Next]_vars

-----------------------------------------------------------------------------
(* Properties                                                              *)

\* Documents, handlers and counters have their types.
TypeOK ==
  /\ configurations \in [Uploads -> Nat \union {Absent}]
  /\ versions \in [Uploads -> Versions \union {NoVersion}]
  /\ patterns \in [Uploads -> Nat]
  /\ vendor \in [Devices -> Vendors \union {NoVendor}]
  /\ pc \in [Uploads -> Phases]
  /\ mine \in [Uploads -> Uploads \union {NoUpload}]
  /\ number \in [Uploads -> Nat]
  /\ confirm \in [Confirms -> [at : {"idle", "write", "device", "done"},
                               read : Uploads \union {NoUpload}]]
  /\ scan \in [Scans -> [at : {"idle", "load", "analysed", "failed", "lost"},
                         pinned : Uploads \union {NoUpload}, ir : IRs]]
  /\ crashes \in 0 .. MaxCrashes

\* A configuration and a number name one version, the only way to ask for one.
VersionsNumberedOnce ==
  \A c \in Uploads : \A u, w \in VersionsOf(c) :
    versions[u].number = versions[w].number => u = w

\* A device has one history: one configuration with each of its contents once (duplicates
\* are refused) under a number of its own, the newest of them in latest_version once its
\* uploads have ended, unless the process died between the two writes.
DeviceHasOneHistory ==
  /\ \A d \in Devices : Cardinality(ConfigurationsOf(d)) <= 1
  /\ VersionsNumberedOnce
  /\ \A u, w \in Uploads :
       Stored(u) /\ Stored(w) /\ DeviceOf[u] = DeviceOf[w] /\ ContentOf[u] = ContentOf[w] => u = w
  /\ \A c \in Uploads :
       configurations[c] # Absent /\ ~Busy(DeviceOf[c]) /\ crashes = 0 =>
         \A i \in Numbers(c) : i <= configurations[c]

\* The numbers of a configuration's versions have no gap, however uploads of it
\* overlap and wherever one of them dies.
NumbersHaveNoGaps ==
  \A c \in Uploads : \A n \in Numbers(c) : \A i \in 1 .. n : i \in Numbers(c)

\* The latest_version of a configuration is that of a stored version: readers
\* look the latest version up by it.
LatestIsStored ==
  \A c \in Uploads : configurations[c] > 0 => configurations[c] \in Numbers(c)

\* Every number up to the highest, and the one latest_version has, leads to a version,
\* even when uploads for a device overlap and a crash cuts one of them off.
NumbersLeadToVersions == NumbersHaveNoGaps /\ LatestIsStored

\* A version is the parse of its own file or not parsed at all: COMPLETED it has the IR
\* the vendor it names made of that file, whatever was confirmed since and how often, and
\* of an upload without a hint a guess below the threshold waits for the confirmation with
\* nothing parsed.  (process_upload takes any hint for an answer, detect_vendor only a
\* registered one, so with another word as hint such a guess is parsed at once.)
VersionIsItsParse ==
  \A u \in Uploads : Stored(u) =>
    /\ versions[u].ir.content \in {ContentOf[u], NoContent}
    /\ versions[u].status = "COMPLETED" =>
         versions[u].ir = [vendor |-> versions[u].vendor, content |-> ContentOf[u]]
    /\ versions[u].confidence = "low" /\ Hint[u] = NoHint =>
         versions[u].status = "NEEDS_VENDOR_CONFIRMATION" /\ versions[u].ir = NoIR

\* A scan analyses the file whose hash it recorded when it was created.
ScanAnalysesItsConfiguration ==
  \A s \in Scans :
    /\ scan[s].at # "failed"
    /\ scan[s].at = "analysed" => scan[s].ir.content = ContentOf[scan[s].pinned]

\* The unmapped command of every version an upload completes is counted, whichever
\* document overlapping uploads count it in, and none is counted twice: not by a
\* confirmation of the version either.  (A version that only a confirmation completes is
\* never counted: confirm_vendor does not call _record_unmapped_commands.)
OccurrencesCounted ==
  \A key \in {Key(u) : u \in Uploads} :
    LET With(S) == {u \in S : Key(u) = key /\ LineOf[ContentOf[u]] # NoLine /\ Completes(u)}
        counted == SumFunctionOnSet(patterns, PatternsOf(key))
    IN /\ Cardinality(With({u \in Uploads : Stored(u)})) <= counted
       /\ counted <= Cardinality(With({u \in Uploads : number[u] > 0}))

\* The versions of a device, by number, as the history they are.
OfDevice(d) == {u \in Uploads : Stored(u) /\ DeviceOf[u] = d}
HistoryOf(d) ==
  [n \in 1 .. Cardinality(OfDevice(d)) |->
     IF \E u \in OfDevice(d) : versions[u].number = n
       THEN ContentOf[CHOOSE u \in OfDevice(d) : versions[u].number = n] ELSE NoContent]
Histories == [d \in Devices |-> HistoryOf(d)]
History == INSTANCE ConfigurationHistory WITH history <- Histories

\* Every uploaded configuration is versioned and never overwritten: the store
\* implements an append-only history of each device.
Versioned == History!Spec
=============================================================================
