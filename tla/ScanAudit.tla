------------------------------ MODULE ScanAudit ------------------------------
(***************************************************************************)
(* A scan from its creation to the verification of its evidence: the       *)
(* pipeline (app/services/scan_service.py), the report endpoint            *)
(* (app/api/reports.py) and the verifier (app/blockchain/verifier.py),     *)
(* composed with the recorder, the retry worker and the ledger of          *)
(* Provenance.                                                             *)
(*                                                                         *)
(* The pipeline and the report each make one call of record_event and wait *)
(* for it; the other calls are those of clients, who may record any event  *)
(* of any audit with any hashes (POST /api/blockchain/record,              *)
(* app/api/blockchain.py), at any time.  Everything else of Provenance     *)
(* runs alongside.                                                         *)
(*                                                                         *)
(* An evidence document is CLEAN as the pipeline wrote it or EDITED by     *)
(* someone with access to MongoDB, which is what the verifier is there to  *)
(* detect (tests/test_blockchain_tamper.py does the same).  A hash is      *)
(* named after the document it is of, or is OTHER, BLANK (an empty string) *)
(* or NONE (left out of the record).                                       *)
(***************************************************************************)
EXTENDS Integers, Sequences, FiniteSetsExt

CONSTANTS
  Calls, Events, EventOf, Poison, Worker, NoCall, BatchSize, MaxFaults, MaxCrashes,
  Scans,          \* scans, whose id is also the audit id of their calls
  AuditCall,      \* the call the pipeline makes with the evidence's hashes
  ReportCall,     \* the call the report endpoint makes with the report's hash
  AuditOf,        \* the audit_id of each call
  HashesOf,       \* the hashes of the evidence in the args of each call
  WithFindings,   \* scans whose compliance result yields findings
  Reported,       \* scans somebody generates a report of
  Verifications,  \* invocations of verify_audit
  Verifies,       \* the scan each verifies
  MaxErrors,      \* bound: exceptions in the pipeline
  MaxEdits        \* bound: edits of evidence in MongoDB

Kinds    == {"compliance", "findings", "risk", "graph", "optimizer"}
Fields   == {"configuration", "compliance", "risk"}  \* what the verifier compares
Evidence == Kinds \union Fields
Contents == {"NONE", "CLEAN", "EDITED"}
Hashes   == Contents \union {"OTHER", "BLANK"}

ASSUME ScanAssumption ==
  /\ AuditCall \in [Scans -> Calls]
  /\ ReportCall \in [Scans -> Calls]
  /\ \A s, r \in Scans : AuditCall[s] # ReportCall[r] /\ (AuditCall[s] = AuditCall[r] => s = r)
  /\ HashesOf \in [Calls -> [Fields -> Hashes]]
  /\ \A s \in Scans :
       /\ AuditOf[AuditCall[s]] = s /\ HashesOf[AuditCall[s]] = [f \in Fields |-> "CLEAN"]
       /\ AuditOf[ReportCall[s]] = s /\ HashesOf[ReportCall[s]] = [f \in Fields |-> "NONE"]
  /\ WithFindings \subseteq Scans
  /\ Reported \subseteq Scans
  /\ Verifies \in [Verifications -> Scans]
  /\ MaxErrors \in Nat /\ MaxEdits \in Nat

VARIABLES
  tx, queue, ledger, stray, pc, txid, batch, faults, crashes,
  status,    \* scans.status, "NONE" before the insert
  shown,     \* scans.blockchain_status, and the status printed in the report
  at,        \* the next step of the scan's pipeline
  docs,      \* the evidence documents of each scan
  report,    \* how far the report of each scan is
  verdict,   \* what each verification returned, or how far it is
  read,      \* the evidence each verification has read
  height,    \* the length of the ledger each verification compared it with
  errors, edits

provenanceVars == <<tx, queue, ledger, stray, pc, txid, batch, faults, crashes>>
scanVars == <<status, shown, at, docs, report, verdict, read, height, errors, edits>>
vars == <<provenanceVars, scanVars>>

P == INSTANCE Provenance

ASSUME RecorderAssumption == P!ProvenanceAssumption

Statuses ==
  {"NONE", "PENDING", "COMPLIANCE_ANALYSIS", "RISK_ANALYSIS", "BUILDING_ATTACK_GRAPH",
   "OPTIMIZING", "RECORDING_BLOCKCHAIN", "COMPLETED", "FAILED"}

Verdicts ==
  {"asked", "evidence read", "NOT_FOUND", "INSUFFICIENT_EVIDENCE", "BLOCKCHAIN_UNAVAILABLE",
   "NOT_FOUND_ON_CHAIN", "INTEGRITY_VIOLATION", "VERIFIED"}

\* Mutant: no graph document.
ShortPipeline ==
  <<"COMPLIANCE_ANALYSIS", "compliance", "findings", "RISK_ANALYSIS", "risk",
    "BUILDING_ATTACK_GRAPH", "OPTIMIZING", "optimizer", "RECORDING_BLOCKCHAIN">>

\* What run_scan_pipeline writes, await by await: statuses and documents.
Pipeline ==
  <<"COMPLIANCE_ANALYSIS", "compliance", "findings", "RISK_ANALYSIS", "risk",
    "BUILDING_ATTACK_GRAPH", "graph", "OPTIMIZING", "optimizer", "RECORDING_BLOCKCHAIN">>

\* Step 0 reads the scan, outside the pipeline's try; the steps after those of
\* Pipeline record the audit and complete the scan.
RecordStep   == Len(Pipeline) + 1
CompleteStep == Len(Pipeline) + 2
FailStep     == Len(Pipeline) + 3  \* the except branch
OverStep     == Len(Pipeline) + 4  \* returned, raised or lost
NoStep       == Len(Pipeline) + 5  \* not created yet

Running(s) == at[s] < OverStep

\* A commit of event e is on the ledger.
OnLedger(e) == \E i \in 1 .. Len(ledger) : EventOf[ledger[i]] = e

\* Findings and an optimizer run are written only when there are findings.
Writes(s, k) == k \in {"findings", "optimizer"} => s \in WithFindings

Init ==
  /\ P!Init
  /\ status = [s \in Scans |-> "NONE"]
  /\ shown = [s \in Scans |-> [scan |-> "NONE", report |-> "NONE"]]
  /\ at = [s \in Scans |-> NoStep]
  /\ docs = [s \in Scans |-> [k \in Evidence |-> "NONE"]]
  /\ report = [s \in Scans |-> "none"]
  /\ verdict = [v \in Verifications |-> "asked"]
  /\ read = [v \in Verifications |-> [f \in Fields |-> "NONE"]]
  /\ height = [v \in Verifications |-> 0]
  /\ errors = 0
  /\ edits = 0

-----------------------------------------------------------------------------
(* The pipeline                                                            *)

\* create_scan for a device with a COMPLETED version, whose hash it copies, and
\* the background task.
CreateScan(s) ==
  /\ at[s] = NoStep
  /\ docs' = [docs EXCEPT ![s]["configuration"] = "CLEAN"]
  /\ status' = [status EXCEPT ![s] = "PENDING"]
  /\ at' = [at EXCEPT ![s] = 0]
  /\ UNCHANGED <<provenanceVars, shown, report, verdict, read, height, errors, edits>>

ReadScan(s) ==
  /\ at[s] = 0
  /\ at' = [at EXCEPT ![s] = 1]
  /\ UNCHANGED <<provenanceVars, status, shown, docs, report, verdict, read, height, errors, edits>>

SetStatus(s) ==
  /\ at[s] \in 1 .. Len(Pipeline)
  /\ Pipeline[at[s]] \notin Kinds
  /\ status' = [status EXCEPT ![s] = Pipeline[at[s]]]
  /\ at' = [at EXCEPT ![s] = @ + 1]
  /\ UNCHANGED <<provenanceVars, shown, docs, report, verdict, read, height, errors, edits>>

InsertDocument(s) ==
  /\ at[s] \in 1 .. Len(Pipeline)
  /\ Pipeline[at[s]] \in Kinds
  /\ docs' = IF Writes(s, Pipeline[at[s]])
               THEN [docs EXCEPT ![s][Pipeline[at[s]]] = "CLEAN"] ELSE docs
  /\ at' = [at EXCEPT ![s] = @ + 1]
  /\ UNCHANGED <<provenanceVars, status, shown, report, verdict, read, height, errors, edits>>

CompleteScan(s) ==
  /\ at[s] = CompleteStep
  /\ status' = [status EXCEPT ![s] = "COMPLETED"]
  /\ at' = [at EXCEPT ![s] = OverStep]
  /\ UNCHANGED <<provenanceVars, shown, docs, report, verdict, read, height, errors, edits>>

\* An exception: MongoDB or an engine.  The except branch marks the scan; an
\* exception in it, or before the try, leaves the pipeline altogether.
Raise(s) ==
  /\ at[s] \in 0 .. FailStep /\ at[s] # RecordStep
  /\ errors < MaxErrors
  /\ errors' = errors + 1
  /\ at' = [at EXCEPT ![s] = IF @ \in {0, FailStep} THEN OverStep ELSE FailStep]
  /\ UNCHANGED <<provenanceVars, status, shown, docs, report, verdict, read, height, edits>>

\* Mutant: the exception is logged and the status left as it is.
LogFailure(s) ==
  /\ at[s] = FailStep
  /\ at' = [at EXCEPT ![s] = OverStep]
  /\ UNCHANGED <<provenanceVars, status, shown, docs, report, verdict, read, height, errors, edits>>

MarkFailed(s) ==
  /\ at[s] = FailStep
  /\ status' = [status EXCEPT ![s] = "FAILED"]
  /\ at' = [at EXCEPT ![s] = OverStep]
  /\ UNCHANGED <<provenanceVars, shown, docs, report, verdict, read, height, errors, edits>>

-----------------------------------------------------------------------------
(* The report                                                              *)

\* generate_report of a completed scan with compliance and risk evidence: it
\* prints the status of the audit's transaction, PENDING if there is none, and
\* then records the report's hash and ignores how that ends.
GenerateReport(s) ==
  /\ s \in Reported
  /\ report[s] = "none"
  /\ status[s] = "COMPLETED"
  /\ docs[s]["compliance"] # "NONE" /\ docs[s]["risk"] # "NONE"
  /\ report' = [report EXCEPT ![s] = "stored"]
  /\ shown' = [shown EXCEPT ![s].report =
       IF tx[EventOf[AuditCall[s]]].status = "CONFIRMED" THEN "CONFIRMED" ELSE "PENDING"]
  /\ UNCHANGED <<provenanceVars, status, at, docs, verdict, read, height, errors, edits>>

-----------------------------------------------------------------------------
(* The verifier                                                            *)

\* The hashes computed of the evidence of scan s as it is now.
Compared(s) == [f \in Fields |-> docs[s][f]]

\* Mutant: missing evidence is hashed like any other.
ReadAnyEvidence(v) ==
  /\ verdict[v] = "asked"
  /\ verdict' = [verdict EXCEPT ![v] =
       IF status[Verifies[v]] = "NONE" THEN "NOT_FOUND" ELSE "evidence read"]
  /\ read' = [read EXCEPT ![v] = Compared(Verifies[v])]
  /\ UNCHANGED <<provenanceVars, status, shown, at, docs, report, height, errors, edits>>

\* The scan, with its configuration's hash, and its compliance and risk
\* documents.
ReadEvidence(v) ==
  /\ verdict[v] = "asked"
  /\ verdict' = [verdict EXCEPT ![v] =
       IF status[Verifies[v]] = "NONE" THEN "NOT_FOUND"
       ELSE IF \E k \in {"compliance", "risk"} : docs[Verifies[v]][k] = "NONE"
         THEN "INSUFFICIENT_EVIDENCE"
       ELSE "evidence read"]
  /\ read' = [read EXCEPT ![v] = Compared(Verifies[v])]
  /\ UNCHANGED <<provenanceVars, status, shown, at, docs, report, height, errors, edits>>

LedgerUnavailable(v) ==
  /\ verdict[v] = "evidence read"
  /\ verdict' = [verdict EXCEPT ![v] = "BLOCKCHAIN_UNAVAILABLE"]
  /\ UNCHANGED <<provenanceVars, status, shown, at, docs, report, read, height, errors, edits>>

\* GetAuditRecord: what the first n commits merged into the record of audit s,
\* whoever made them.  Of each field the last hash stays that a commit has.
CommitsOf(s, n) == {i \in 1 .. n : AuditOf[ledger[i]] = s}
HashAt(i, f) == HashesOf[ledger[i]][f]
WithHash(s, f, n) == {i \in CommitsOf(s, n) : HashAt(i, f) # "NONE"}
HasRecord(s) == CommitsOf(s, Len(ledger)) # {}

\* Mutant: a commit without a hash takes the hash away.
Overwritten(s, f, n) ==
  IF CommitsOf(s, n) = {} THEN "NONE" ELSE HashAt(Max(CommitsOf(s, n)), f)

Recorded(s, f, n) ==
  IF WithHash(s, f, n) = {} THEN "NONE" ELSE HashAt(Max(WithHash(s, f, n)), f)

\* A hash is compared only when the record has it and it is not empty.
Mismatch(v) ==
  \E f \in Fields :
    Recorded(Verifies[v], f, Len(ledger)) \notin {"NONE", "BLANK", read[v][f]}

CompareWithLedger(v) ==
  /\ verdict[v] = "evidence read"
  /\ verdict' = [verdict EXCEPT ![v] =
       IF ~HasRecord(Verifies[v]) THEN "NOT_FOUND_ON_CHAIN"
       ELSE IF Mismatch(v) THEN "INTEGRITY_VIOLATION"
       ELSE "VERIFIED"]
  /\ height' = [height EXCEPT ![v] = Len(ledger)]
  /\ UNCHANGED <<provenanceVars, status, shown, at, docs, report, read, errors, edits>>

\* Somebody edits the evidence in MongoDB.  An edit of the scan before its
\* pipeline has read it would be what the pipeline works with.
EditEvidence(s, f) ==
  /\ docs[s][f] = "CLEAN"
  /\ f = "configuration" => at[s] # 0
  /\ edits < MaxEdits
  /\ edits' = edits + 1
  /\ docs' = [docs EXCEPT ![s][f] = "EDITED"]
  /\ UNCHANGED <<provenanceVars, status, shown, at, report, verdict, read, height, errors>>

-----------------------------------------------------------------------------
(* Provenance alongside                                                    *)

\* A call the pipeline or the report makes now.
Called(c) ==
  \/ \E s \in Scans : c = AuditCall[s] /\ at[s] = RecordStep
  \/ \E s \in Scans : c = ReportCall[s] /\ report[s] = "stored"

\* A call of a client, who makes it at any time.
ByClient(c) == \A s \in Scans : c \notin {AuditCall[s], ReportCall[s]}

\* Mutants: whatever the recording returned, or raised, is a success; the
\* sidecar's word for it is stored.
AlwaysConfirmed(s) == "CONFIRMED"
GatewayWord(s) == IF pc'[AuditCall[s]] = "done" THEN "SUCCESS" ELSE "PENDING"

\* What the pipeline takes from record_audit_completed: a call that ends with
\* its queue item returns PENDING, and PENDING stands for an exception too.
ReturnValue(s) ==
  IF pc'[AuditCall[s]] = "done" /\ pc[AuditCall[s]] # "enqueue" THEN "CONFIRMED" ELSE "PENDING"

\* Mutant: the pipeline waits until the recording is confirmed.
ReturningConfirmed ==
  {s \in Scans : /\ at[s] = RecordStep
                 /\ pc'[AuditCall[s]] = "done"
                 /\ ReturnValue(s) = "CONFIRMED"}

\* The pipeline goes on in the very step that ends its call.
Returning == {s \in Scans : at[s] = RecordStep /\ pc'[AuditCall[s]] \in {"done", "lost"}}

PipelinesResume ==
  /\ at' = [s \in Scans |-> IF s \in Returning THEN CompleteStep ELSE at[s]]
  /\ shown' = [s \in Scans |->
       IF s \in Returning THEN [shown[s] EXCEPT !.scan = ReturnValue(s)] ELSE shown[s]]
  /\ UNCHANGED <<status, docs, report, verdict, read, height, errors, edits>>

CallStep(c) ==
  /\ pc[c] = "idle" => Called(c) \/ ByClient(c)
  /\ P!CallStep(c)
  /\ PipelinesResume

GatewayStep(p) == P!GatewayStep(p) /\ UNCHANGED scanVars

RecorderStep ==
  \/ /\ \/ \E c \in Calls : P!StrayCommit(c) \/ P!StrayVanish(c)
        \/ P!WorkerStep
     /\ UNCHANGED scanVars
  \/ \E p \in Calls \union {Worker} : GatewayStep(p) \/ (P!Abort(p) /\ PipelinesResume)

\* The recorder has nothing under way, and loses nothing in a crash.
CrashOfIdleRecorder ==
  /\ ~(\E p \in Calls \union {Worker} : P!Busy(p))
  /\ \E s \in Scans : Running(s)
  /\ crashes < MaxCrashes
  /\ crashes' = crashes + 1
  /\ UNCHANGED <<tx, queue, ledger, stray, pc, txid, batch, faults>>

\* The process dies: pipelines, calls and the report request are lost, and
\* startup resumes only the worker.
Crash ==
  /\ P!Crash \/ CrashOfIdleRecorder
  /\ at' = [s \in Scans |-> IF Running(s) THEN OverStep ELSE at[s]]
  /\ report' = [s \in Scans |-> IF report[s] = "stored" THEN "over" ELSE report[s]]
  /\ UNCHANGED <<status, shown, docs, verdict, read, height, errors, edits>>

PipelineStep(s) ==
  \/ ReadScan(s) \/ SetStatus(s) \/ InsertDocument(s)
  \/ CompleteScan(s) \/ MarkFailed(s)

VerifierStep(v) == ReadEvidence(v) \/ LedgerUnavailable(v) \/ CompareWithLedger(v)

Next ==
  \/ \E s \in Scans : CreateScan(s) \/ PipelineStep(s) \/ Raise(s) \/ GenerateReport(s)
  \/ \E s \in Scans, f \in Fields : EditEvidence(s, f)
  \/ \E v \in Verifications : VerifierStep(v)
  \/ \E c \in Calls : CallStep(c)
  \/ RecorderStep
  \/ Crash

Spec == Init /\ [][Next]_vars

\* The event loop runs the pipeline and the calls whenever they can go on, and
\* a gateway call always returns; clients need not make their calls.
FairSpec ==
  /\ Spec
  /\ \A s \in Scans : WF_vars(PipelineStep(s))
  /\ \A c \in Calls : /\ WF_vars(CallStep(c) /\ (pc[c] = "idle" => Called(c)))
                         /\ WF_vars(GatewayStep(c))

-----------------------------------------------------------------------------
(* Properties                                                              *)

\* Statuses, pipelines, documents and verdicts have their types.
TypeOK ==
  /\ status \in [Scans -> Statuses]
  /\ shown \in [Scans -> [scan : {"NONE", "PENDING", "CONFIRMED"},
                          report : {"NONE", "PENDING", "CONFIRMED"}]]
  /\ at \in [Scans -> 0 .. NoStep]
  /\ docs \in [Scans -> [Evidence -> Contents]]
  /\ report \in [Scans -> {"none", "stored", "over"}]
  /\ verdict \in [Verifications -> Verdicts]
  /\ read \in [Verifications -> [Fields -> Contents]]
  /\ height \in [Verifications -> Nat]
  /\ errors \in 0 .. MaxErrors /\ edits \in 0 .. MaxEdits

\* A COMPLETED scan has every document its readers look up by scan_id.
CompletedHasEvidence ==
  \A s \in Scans : status[s] = "COMPLETED" =>
    \A k \in Kinds : docs[s][k] # "NONE" <=> Writes(s, k)

\* Neither a scan nor a report shows CONFIRMED unless the ledger has a commit of
\* the scan's AUDIT_COMPLETED event, whatever timed out, failed, was retried or
\* was recorded by a client (record_event is idempotent per event, so the
\* commit may be a client's).
ShownConfirmedIsOnLedger ==
  \A s \in Scans :
    "CONFIRMED" \in {shown[s].scan, shown[s].report} => OnLedger(EventOf[AuditCall[s]])

\* verify_audit reports a violation only of evidence that was edited, or of which
\* somebody other than the scan's pipeline recorded a hash that is not its own.
NoFalseAlarm ==
  \A v \in Verifications : verdict[v] = "INTEGRITY_VIOLATION" =>
    \E f \in Fields :
      \/ read[v][f] = "EDITED"
      \/ \E i \in WithHash(Verifies[v], f, height[v]) :
           ledger[i] # AuditCall[Verifies[v]] /\ HashAt(i, f) # "CLEAN"

\* verify_audit answers verified only if no commit of the audit had the last word
\* on a field against the evidence read: one with a hash of the field is
\* followed by one with the hash of that evidence, or with an empty one, unless
\* it is such a commit itself.  So an edit the pipeline's commit could reveal
\* passes only after somebody else has recorded the edited evidence (or
\* blanked its hash), however commits were delayed, retried or reordered, and
\* whatever records without hashes came after it.
VerifiedAsRecorded ==
  \A v \in Verifications : verdict[v] = "VERIFIED" =>
    \A f \in Fields : \A i \in WithHash(Verifies[v], f, height[v]) :
      \E j \in WithHash(Verifies[v], f, height[v]) :
        j >= i /\ HashAt(j, f) \in {read[v][f], "BLANK"}

\* What the user is told of a verified audit: its evidence matches the ledger.
VerifiedMatchesLedger ==
  \A v \in Verifications : verdict[v] = "VERIFIED" =>
    \A f \in Fields : Recorded(Verifies[v], f, height[v]) = read[v][f]

\* The process died with the pipeline of a scan.
Died(s) == at[s] = OverStep /\ crashes > 0

\* A scan always completes in MongoDB regardless of the ledger's availability:
\* only an exception in its own steps or the death of the process prevents it.
CompletesRegardless ==
  \A s \in Scans : at[s] = 0 ~> status[s] = "COMPLETED" \/ errors > 0 \/ Died(s)

\* A scan whose pipeline has entered its try ends, COMPLETED or FAILED, also
\* when one exception strikes in it.
ScanEnds ==
  \A s \in Scans : at[s] = 1 ~> status[s] \in {"COMPLETED", "FAILED"} \/ Died(s)
=============================================================================
