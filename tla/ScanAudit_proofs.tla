--------------------------- MODULE ScanAudit_proofs ---------------------------
(***************************************************************************)
(* The safety of ScanAudit for any scans, calls and verifications, whatever *)
(* clients record, and any number of faults, crashes, exceptions and edits. *)
(*                                                                         *)
(* The recorder inside is the Provenance of Provenance_proofs: every step  *)
(* is a step of it, a stutter, or a crash that it does not notice, so its  *)
(* invariant (R!IInv) comes with it.  On top are one part for the          *)
(* pipelines, one for what they and the reports show, and one for the      *)
(* verifications.                                                          *)
(***************************************************************************)
EXTENDS ScanAudit, FoldTheorems, TLAPS

R == INSTANCE Provenance_proofs

-----------------------------------------------------------------------------
(* The recorder                                                            *)

\* Both instances of Provenance are of the same constants and variables.
LEMMA SameAssumption == R!ProvenanceAssumption
BY RecorderAssumption DEF P!ProvenanceAssumption, R!ProvenanceAssumption

LEMMA SameCallStep == ASSUME NEW c PROVE P!CallStep(c) => R!CallStep(c)
BY DEF P!CallStep, P!ReturnIdempotent, P!StartSubmit, P!WriteConfirmed, P!WritePending, P!Enqueue,
       P!Confirmed, P!ItemsOf, P!Queued,
       R!CallStep, R!ReturnIdempotent, R!StartSubmit, R!WriteConfirmed, R!WritePending, R!Enqueue,
       R!Confirmed, R!ItemsOf, R!Queued

LEMMA SameWorkerStep == P!WorkerStep => R!WorkerStep
<1>1. P!DeleteItem => R!DeleteItem
  BY DEF P!DeleteItem, P!ItemEvent, P!Queued, P!ItemsOf, P!NextItem, P!RemoveAt,
         R!DeleteItem, R!ItemEvent, R!Queued, R!ItemsOf, R!NextItem, R!RemoveAt
<1>2. P!FetchBatch \/ P!ConfirmItem \/ P!BumpItem => R!FetchBatch \/ R!ConfirmItem \/ R!BumpItem
  BY DEF P!FetchBatch, P!ConfirmItem, P!BumpItem, P!ItemEvent, P!NextItem,
         R!FetchBatch, R!ConfirmItem, R!BumpItem, R!ItemEvent, R!NextItem
<1>3. QED
  BY <1>1, <1>2 DEF P!WorkerStep, R!WorkerStep

LEMMA SameGatewayStep == ASSUME NEW p PROVE P!GatewayStep(p) => R!GatewayStep(p)
<1>1. P!GiveUp(p) => R!GiveUp(p)
  BY DEF P!GiveUp, P!Args, P!MayStillCommit, P!Unavailable,
         R!GiveUp, R!Args, R!MayStillCommit, R!Unavailable
<1>2. P!Refuse(p) => R!Refuse(p)
  BY DEF P!Refuse, P!Args, P!Unavailable, R!Refuse, R!Args, R!Unavailable
<1>3. P!CommitSubmission(p) \/ P!Acknowledge(p) => R!CommitSubmission(p) \/ R!Acknowledge(p)
  BY DEF P!CommitSubmission, P!Acknowledge, P!Args, P!CommitSucceeded,
         R!CommitSubmission, R!Acknowledge, R!Args, R!CommitSucceeded
<1>4. QED
  BY <1>1, <1>2, <1>3 DEF P!GatewayStep, R!GatewayStep

LEMMA SameFailures ==
  ASSUME NEW p
  PROVE  /\ P!StrayCommit(p) => R!StrayCommit(p)
         /\ P!StrayVanish(p) => R!StrayVanish(p)
         /\ P!Abort(p) => R!Abort(p)
         /\ P!Crash => R!Crash
<1>1. P!Crash => R!Crash
  BY DEF P!Crash, P!MayStillCommit, P!Args, P!Busy, P!Actors,
         R!Crash, R!MayStillCommit, R!Args, R!Busy, R!Actors
<1>2. QED
  BY <1>1 DEF P!StrayCommit, P!StrayVanish, P!Abort, R!StrayCommit, R!StrayVanish, R!Abort

\* What a step is to the recorder.
LEMMA RecorderSteps ==
  ASSUME [Next]_vars
  PROVE  [R!Next]_(R!vars) \/ CrashOfIdleRecorder
<1>1. ASSUME UNCHANGED provenanceVars PROVE UNCHANGED R!vars
  BY <1>1 DEF provenanceVars, R!vars
<1>2. ASSUME NEW c \in Calls, CallStep(c) PROVE R!Next
  BY <1>2, SameCallStep DEF CallStep, R!Next
<1>3. ASSUME RecorderStep PROVE R!Next
  BY <1>3, SameWorkerStep, SameGatewayStep, SameFailures
  DEF RecorderStep, GatewayStep, R!Next, R!Actors
<1>4. ASSUME Crash PROVE R!Next \/ CrashOfIdleRecorder
  BY <1>4, SameFailures DEF Crash, R!Next
<1>5. ASSUME NEW s \in Scans, CreateScan(s) \/ PipelineStep(s) \/ Raise(s) \/ GenerateReport(s)
      PROVE  UNCHANGED provenanceVars
  BY <1>5 DEF CreateScan, PipelineStep, ReadScan, SetStatus, InsertDocument, CompleteScan,
              MarkFailed, Raise, GenerateReport
<1>6. ASSUME NEW s \in Scans, NEW k, EditEvidence(s, k) PROVE UNCHANGED provenanceVars
  BY <1>6 DEF EditEvidence
<1>7. ASSUME NEW v \in Verifications, VerifierStep(v) PROVE UNCHANGED provenanceVars
  BY <1>7 DEF VerifierStep, ReadEvidence, LedgerUnavailable, CompareWithLedger
<1>8. CASE UNCHANGED vars
  BY <1>1, <1>8 DEF vars
<1>9. QED
  BY <1>1, <1>2, <1>3, <1>4, <1>5, <1>6, <1>7, <1>8 DEF Next

\* The recorder's invariant holds throughout, and its ledger only grows.
LEMMA RecorderInit == Init => R!IInv
<1>1. P!Init => R!Init
  BY DEF P!Init, R!Init, P!NoTx, R!NoTx, P!Actors, R!Actors
<1>2. QED
  BY <1>1, R!Inductive, SameAssumption DEF Init

LEMMA RecorderKept == ASSUME R!IInv, [Next]_vars PROVE R!IInv'
<1>1. CASE [R!Next]_(R!vars)
  BY <1>1, R!Inductive, SameAssumption
<1>2. CASE CrashOfIdleRecorder
  <2>1. crashes \in 0 .. MaxCrashes /\ MaxCrashes \in Nat
    BY RecorderAssumption DEF R!IInv, R!TypeOK, P!ProvenanceAssumption
  <2>2. crashes' \in 0 .. MaxCrashes
    BY <1>2, <2>1 DEF CrashOfIdleRecorder
  <2>3. QED
    BY <1>2, <2>2 DEF CrashOfIdleRecorder, R!IInv, R!TypeOK, R!PhasesOK, R!HoldsOwnCommit, R!Args,
                      R!ConfirmedIsOnLedger, R!Confirmed
<1>3. QED
  BY <1>1, <1>2, RecorderSteps

LEMMA LedgerGrows ==
  ASSUME R!IInv, [Next]_vars
  PROVE  R!LedgerKept
<1>1. CASE [R!Next]_(R!vars)
  BY <1>1, R!LedgerGrows, SameAssumption DEF R!IInv, R!TypeInv
<1>2. CASE CrashOfIdleRecorder
  <2>1. ledger \in Seq(Calls)
    BY DEF R!IInv, R!TypeOK
  <2>2. Len(ledger) \in Nat
    BY <2>1
  <2>3. ledger' = ledger
    BY <1>2 DEF CrashOfIdleRecorder
  <2>4. QED
    BY <2>2, <2>3 DEF R!LedgerKept
<1>3. QED
  BY <1>1, <1>2, RecorderSteps

LEMMA EventsStay ==
  ASSUME R!IInv, [Next]_vars, NEW e, OnLedger(e)
  PROVE  OnLedger(e)'
<1>1. R!LedgerKept
  BY LedgerGrows
<1>2. ledger \in Seq(Calls)
  BY DEF R!IInv, R!TypeOK
<1>3. QED
  BY <1>1, <1>2 DEF R!LedgerKept, OnLedger

-----------------------------------------------------------------------------
(* The pipelines                                                           *)

\* The document of a step is there, if the scan has one of its kind.
Written(s, i) == Pipeline[i] \in Kinds /\ Writes(s, Pipeline[i]) => docs[s][Pipeline[i]] # "NONE"

\* The documents of the steps a pipeline has behind it are there, and a scan is completed
\* by a pipeline that has all its steps behind it.
DocumentsOK ==
  \A s \in Scans :
    /\ at[s] \in 1 .. CompleteStep => \A i \in 1 .. Len(Pipeline) : i < at[s] => Written(s, i)
    /\ status[s] = "COMPLETED" => at[s] = OverStep /\ \A i \in 1 .. Len(Pipeline) : Written(s, i)
    /\ \A k \in Kinds : docs[s][k] # "NONE" => Writes(s, k)

\* A scan that exists has the hash of its configuration.
CreatedOK ==
  \A s \in Scans :
    /\ at[s] = NoStep => status[s] = "NONE"
    /\ at[s] # NoStep => docs[s]["configuration"] # "NONE"

\* A pipeline makes its call at its step, and is there until the call is over.
CallsOK ==
  \A s \in Scans :
    /\ at[s] \in 0 .. Len(Pipeline) \union {NoStep} => pc[AuditCall[s]] = "idle"
    /\ at[s] = RecordStep => pc[AuditCall[s]] \notin {"done", "lost"}

LEMMA PipelineSteps ==
  /\ Len(Pipeline) = 10 /\ DOMAIN Pipeline = 1 .. 10
  /\ \A k \in Kinds : \E i \in 1 .. 10 : Pipeline[i] = k
  /\ \A i \in 1 .. 10 : Pipeline[i] # "COMPLETED"
BY DEF Pipeline, Kinds

LEMMA Positions ==
  /\ RecordStep = 11 /\ CompleteStep = 12 /\ FailStep = 13 /\ OverStep = 14 /\ NoStep = 15
BY PipelineSteps DEF RecordStep, CompleteStep, FailStep, OverStep, NoStep

LEMMA StatusNames == \A i \in 1 .. 10 : Pipeline[i] \notin Kinds => Pipeline[i] \in Statuses
BY DEF Pipeline, Kinds, Statuses

\* Where a call has come to, when its pipeline goes on.
LEMMA ResumeTypes ==
  ASSUME TypeOK, PipelinesResume
  PROVE  TypeOK'
<1>1. at' \in [Scans -> 0 .. NoStep]
  BY Positions DEF TypeOK, PipelinesResume
<1>2. ASSUME NEW s \in Scans
      PROVE  [shown[s] EXCEPT !.scan = ReturnValue(s)] \in [scan : {"NONE", "PENDING", "CONFIRMED"},
                                                         report : {"NONE", "PENDING", "CONFIRMED"}]
  BY <1>2 DEF TypeOK, ReturnValue
<1>3. shown' \in [Scans -> [scan : {"NONE", "PENDING", "CONFIRMED"},
                             report : {"NONE", "PENDING", "CONFIRMED"}]]
  <2>1. shown \in [Scans -> [scan : {"NONE", "PENDING", "CONFIRMED"},
                            report : {"NONE", "PENDING", "CONFIRMED"}]]
    BY DEF TypeOK
  <2>2. shown' = [s \in Scans |->
          IF s \in Returning THEN [shown[s] EXCEPT !.scan = ReturnValue(s)] ELSE shown[s]]
    BY DEF PipelinesResume
  <2>3. QED
    BY <1>2, <2>1, <2>2
<1>4. QED
  BY <1>1, <1>3 DEF TypeOK, PipelinesResume

\* A document written or edited.
LEMMA DocumentType ==
  ASSUME TypeOK, NEW s \in Scans, NEW k \in Evidence, NEW x \in Contents
  PROVE  [docs EXCEPT ![s][k] = x] \in [Scans -> [Evidence -> Contents]]
<1>1. [docs[s] EXCEPT ![k] = x] \in [Evidence -> Contents]
  BY DEF TypeOK
<1>2. QED
  BY <1>1 DEF TypeOK

LEMMA TypeStep ==
  ASSUME TypeOK, R!IInv, [Next]_vars
  PROVE  TypeOK'
<1>1. ASSUME NEW s \in Scans, CreateScan(s) PROVE TypeOK'
  <2>1. docs' \in [Scans -> [Evidence -> Contents]]
    BY <1>1, DocumentType DEF CreateScan, Evidence, Fields, Contents
  <2>2. QED
    BY <1>1, <2>1, Positions DEF CreateScan, TypeOK, Statuses
<1>2. ASSUME NEW s \in Scans, ReadScan(s) PROVE TypeOK'
  BY <1>2, Positions DEF ReadScan, TypeOK
<1>3. ASSUME NEW s \in Scans, SetStatus(s) PROVE TypeOK'
  BY <1>3, Positions, StatusNames, PipelineSteps DEF SetStatus, TypeOK
<1>4. ASSUME NEW s \in Scans, InsertDocument(s) PROVE TypeOK'
  <2> DEFINE k == Pipeline[at[s]]
  <2>1. k \in Evidence /\ at[s] \in 1 .. 10 /\ at' = [at EXCEPT ![s] = at[s] + 1]
    BY <1>4, PipelineSteps DEF InsertDocument, Evidence
  <2>2. docs' = IF Writes(s, k) THEN [docs EXCEPT ![s][k] = "CLEAN"] ELSE docs
    BY <1>4 DEF InsertDocument
  <2>3. UNCHANGED <<status, shown, report, verdict, read, height, errors, edits>>
    BY <1>4 DEF InsertDocument
  <2> HIDE DEF k
  <2>4. docs' \in [Scans -> [Evidence -> Contents]]
    BY <2>1, <2>2, DocumentType DEF Contents, TypeOK
  <2>5. at' \in [Scans -> 0 .. NoStep]
    BY <2>1, Positions DEF TypeOK
  <2>6. QED
    BY <2>3, <2>4, <2>5 DEF TypeOK
<1>5. ASSUME NEW s \in Scans, CompleteScan(s) \/ MarkFailed(s) PROVE TypeOK'
  <2>1. status' \in [Scans -> Statuses]
    BY <1>5 DEF CompleteScan, MarkFailed, TypeOK, Statuses
  <2>2. at' \in [Scans -> 0 .. NoStep]
    BY <1>5, Positions DEF CompleteScan, MarkFailed, TypeOK
  <2>3. QED
    BY <1>5, <2>1, <2>2 DEF CompleteScan, MarkFailed, TypeOK
<1>6. ASSUME NEW s \in Scans, Raise(s) PROVE TypeOK'
  BY <1>6, Positions, ScanAssumption DEF Raise, TypeOK
<1>7. ASSUME NEW s \in Scans, GenerateReport(s) PROVE TypeOK'
  <2> DEFINE word == IF tx[EventOf[AuditCall[s]]].status = "CONFIRMED" THEN "CONFIRMED" ELSE "PENDING"
  <2>1. word \in {"PENDING", "CONFIRMED"}
    OBVIOUS
  <2>2. shown' = [shown EXCEPT ![s] = [shown[s] EXCEPT !.report = word]]
    BY <1>7 DEF GenerateReport
  <2> HIDE DEF word
  <2>3. [shown[s] EXCEPT !.report = word] \in [scan : {"NONE", "PENDING", "CONFIRMED"},
                                              report : {"NONE", "PENDING", "CONFIRMED"}]
    BY <2>1 DEF TypeOK
  <2>4. shown' \in [Scans -> [scan : {"NONE", "PENDING", "CONFIRMED"}, report : {"NONE", "PENDING", "CONFIRMED"}]]
    BY <2>2, <2>3 DEF TypeOK
  <2>5. report' \in [Scans -> {"none", "stored", "over"}]
    BY <1>7 DEF GenerateReport, TypeOK
  <2>6. QED
    BY <1>7, <2>4, <2>5 DEF GenerateReport, TypeOK
<1>8. ASSUME NEW s \in Scans, NEW f \in Fields, EditEvidence(s, f) PROVE TypeOK'
  <2>1. docs' \in [Scans -> [Evidence -> Contents]]
    BY <1>8, DocumentType DEF EditEvidence, Evidence, Contents
  <2>2. QED
    BY <1>8, <2>1, ScanAssumption DEF EditEvidence, TypeOK
<1>9. ASSUME NEW v \in Verifications, VerifierStep(v) PROVE TypeOK'
  <2>1. Verifies[v] \in Scans
    BY ScanAssumption
  <2>2. Compared(Verifies[v]) \in [Fields -> Contents]
    BY <2>1 DEF Compared, TypeOK, Evidence
  <2>3. Len(ledger) \in Nat
    <3>1. ledger \in Seq(Calls)
      BY DEF R!IInv, R!TypeOK
    <3>2. QED
      BY <3>1
  <2>4. verdict' \in [Verifications -> Verdicts]
    <3>1. \E w \in Verdicts : verdict' = [verdict EXCEPT ![v] = w]
      <4>1. CASE ReadEvidence(v)
        BY <4>1 DEF ReadEvidence, Verdicts
      <4>2. CASE LedgerUnavailable(v)
        BY <4>2 DEF LedgerUnavailable, Verdicts
      <4>3. CASE CompareWithLedger(v)
        BY <4>3 DEF CompareWithLedger, Verdicts
      <4>4. QED
        BY <1>9, <4>1, <4>2, <4>3 DEF VerifierStep
    <3>2. QED
      BY <3>1 DEF TypeOK
  <2>5. read' \in [Verifications -> [Fields -> Contents]]
    <3>1. read' = read \/ read' = [read EXCEPT ![v] = Compared(Verifies[v])]
      BY <1>9 DEF VerifierStep, ReadEvidence, LedgerUnavailable, CompareWithLedger
    <3>2. QED
      BY <2>2, <3>1 DEF TypeOK
  <2>6. height' \in [Verifications -> Nat]
    BY <1>9, <2>3 DEF VerifierStep, ReadEvidence, LedgerUnavailable, CompareWithLedger, TypeOK
  <2>7. QED
    BY <1>9, <2>4, <2>5, <2>6 DEF VerifierStep, ReadEvidence, LedgerUnavailable, CompareWithLedger, TypeOK
<1>10. ASSUME NEW c \in Calls, CallStep(c) PROVE TypeOK'
  BY <1>10, ResumeTypes DEF CallStep
<1>11. ASSUME RecorderStep PROVE TypeOK'
  <2>1. CASE UNCHANGED scanVars
    BY <2>1 DEF scanVars, TypeOK
  <2>2. QED
    BY <1>11, <2>1, ResumeTypes DEF RecorderStep, GatewayStep
<1>12. ASSUME Crash PROVE TypeOK'
  BY <1>12, Positions DEF Crash, TypeOK
<1>13. CASE UNCHANGED vars
  BY <1>13 DEF vars, scanVars, TypeOK
<1>14. QED
  BY <1>1, <1>2, <1>3, <1>4, <1>5, <1>6, <1>7, <1>8, <1>9, <1>10, <1>11, <1>12, <1>13 DEF Next, PipelineStep

LEMMA TypeInit == Init => TypeOK
BY Positions, ScanAssumption DEF Init, TypeOK, Contents, Statuses, Verdicts, Evidence

\* A step that leaves the documents alone, and takes a pipeline no further than to the
\* completion of a scan that is not completed yet.
Onwards(s) ==
  \/ at'[s] = at[s] /\ status'[s] = status[s]
  \/ at[s] = RecordStep /\ at'[s] = CompleteStep /\ status'[s] = status[s]
  \/ at'[s] \in {FailStep, OverStep} /\ at[s] # OverStep /\ status'[s] \in {status[s], "FAILED"}

LEMMA DocumentsFrame ==
  ASSUME TypeOK, DocumentsOK, UNCHANGED docs,
         \A s \in Scans : Onwards(s)
  PROVE  DocumentsOK'
<1> SUFFICES ASSUME NEW s \in Scans
             PROVE  /\ at'[s] \in 1 .. CompleteStep => \A i \in 1 .. Len(Pipeline) : i < at'[s] => Written(s, i)
                    /\ status'[s] = "COMPLETED" => at'[s] = OverStep /\ \A i \in 1 .. Len(Pipeline) : Written(s, i)
                    /\ \A k \in Kinds : docs[s][k] # "NONE" => Writes(s, k)
  BY DEF DocumentsOK, Written
<1>1. CASE at'[s] = at[s] /\ status'[s] = status[s]
  BY <1>1 DEF DocumentsOK
<1>2. CASE at[s] = RecordStep /\ at'[s] = CompleteStep /\ status'[s] = status[s]
  BY <1>2, Positions, PipelineSteps DEF DocumentsOK
<1>3. CASE at'[s] \in {FailStep, OverStep} /\ at[s] # OverStep /\ status'[s] \in {status[s], "FAILED"}
  <2>1. at'[s] \notin 1 .. CompleteStep
    BY <1>3, Positions
  <2>2. status[s] # "COMPLETED"
    BY <1>3 DEF DocumentsOK
  <2>3. status'[s] # "COMPLETED"
    BY <1>3, <2>2
  <2>4. \A k \in Kinds : docs[s][k] # "NONE" => Writes(s, k)
    BY DEF DocumentsOK
  <2>5. QED
    BY <2>1, <2>3, <2>4
<1>4. Onwards(s)
  OBVIOUS
<1>5. QED
  BY <1>1, <1>2, <1>3, <1>4 DEF Onwards

LEMMA ResumeDocuments ==
  ASSUME TypeOK, DocumentsOK, PipelinesResume
  PROVE  DocumentsOK'
<1>1. \A s \in Scans : Onwards(s)
  BY DEF PipelinesResume, Returning, Onwards
<1>2. QED
  BY <1>1, DocumentsFrame DEF PipelinesResume

LEMMA InsertStep ==
  ASSUME TypeOK, DocumentsOK, NEW s \in Scans, InsertDocument(s)
  PROVE  DocumentsOK'
<1> DEFINE k == Pipeline[at[s]]
<1>1. /\ at[s] \in 1 .. 10 /\ k \in Kinds /\ at' = [at EXCEPT ![s] = at[s] + 1] /\ status' = status
      /\ docs' = IF Writes(s, k) THEN [docs EXCEPT ![s][k] = "CLEAN"] ELSE docs
  BY PipelineSteps DEF InsertDocument
<1> HIDE DEF k
<1>2. ASSUME NEW r \in Scans, NEW j \in Kinds
      PROVE  /\ docs[r][j] # "NONE" => docs'[r][j] # "NONE"
             /\ docs'[r][j] # docs[r][j] => r = s /\ j = k /\ Writes(s, k)
  BY <1>1 DEF TypeOK, Evidence
<1>3. Writes(s, k) => docs'[s][k] # "NONE"
  BY <1>1 DEF TypeOK, Evidence
<1>4. \A r \in Scans, i \in 1 .. 10 : Written(r, i) => Written(r, i)'
  BY <1>2 DEF Written, Writes
<1>5. ASSUME NEW i \in 1 .. 10, i = at[s] PROVE Written(s, i)'
  <2>1. Pipeline[i] = k
    BY <1>5 DEF k
  <2>2. QED
    BY <1>3, <2>1 DEF Written, Writes
<1>6. ASSUME NEW r \in Scans, at'[r] \in 1 .. CompleteStep, NEW i \in 1 .. 10, i < at'[r]
      PROVE  Written(r, i)'
  <2>1. CASE r = s /\ i = at[s]
    BY <1>5, <2>1
  <2>2. CASE r = s /\ i # at[s]
    <3>1. i < at[s] /\ at[s] \in 1 .. CompleteStep
      BY <1>1, <1>6, <2>2, Positions DEF TypeOK
    <3>2. QED
      BY <1>4, <2>2, <3>1, PipelineSteps DEF DocumentsOK
  <2>3. CASE r # s
    <3>1. at'[r] = at[r]
      BY <1>1, <2>3 DEF TypeOK
    <3>2. QED
      BY <1>4, <1>6, <3>1, PipelineSteps DEF DocumentsOK
  <2>4. QED
    BY <2>1, <2>2, <2>3
<1>7. ASSUME NEW r \in Scans, status'[r] = "COMPLETED"
      PROVE  at'[r] = OverStep /\ \A i \in 1 .. 10 : Written(r, i)'
  <2>1. at[r] = OverStep /\ \A i \in 1 .. 10 : Written(r, i)
    BY <1>1, <1>7, PipelineSteps DEF DocumentsOK
  <2>2. r # s
    BY <1>1, <2>1, Positions
  <2>3. QED
    BY <1>1, <1>4, <2>1, <2>2 DEF TypeOK
<1>8. \A r \in Scans, j \in Kinds : docs'[r][j] # "NONE" => Writes(r, j)
  BY <1>2 DEF DocumentsOK
<1>9. QED
  BY <1>6, <1>7, <1>8, PipelineSteps DEF DocumentsOK, Writes

\* The documents are written in the order of the pipeline, and stay.
LEMMA DocumentsStep ==
  ASSUME TypeOK, DocumentsOK, [Next]_vars
  PROVE  DocumentsOK'
<1>1. ASSUME NEW s \in Scans, CreateScan(s) \/ ReadScan(s) \/ SetStatus(s) \/ CompleteScan(s)
      PROVE  DocumentsOK'
  <2>1. \A r \in Scans : r # s => at'[r] = at[r] /\ status'[r] = status[r]
    BY <1>1 DEF CreateScan, ReadScan, SetStatus, CompleteScan, TypeOK
  <2>2. \A r \in Scans, k \in Kinds : docs'[r][k] = docs[r][k]
    BY <1>1 DEF CreateScan, ReadScan, SetStatus, CompleteScan, TypeOK, Evidence, Kinds
  <2>3. /\ at'[s] \in 1 .. CompleteStep => \A i \in 1 .. 10 : i < at'[s] => Written(s, i)
        /\ status'[s] = "COMPLETED" => at'[s] = OverStep /\ \A i \in 1 .. 10 : Written(s, i)
    <3>1. CASE CreateScan(s)
      BY <3>1, Positions DEF CreateScan, TypeOK
    <3>2. CASE ReadScan(s)
      BY <3>2, Positions DEF ReadScan, TypeOK, DocumentsOK
    <3>3. CASE SetStatus(s)
      <4>1. /\ at[s] \in 1 .. 10 /\ Pipeline[at[s]] \notin Kinds
            /\ at'[s] = at[s] + 1 /\ status'[s] = Pipeline[at[s]]
        BY <3>3, PipelineSteps DEF SetStatus, TypeOK
      <4>2. ASSUME NEW i \in 1 .. 10, i < at'[s] PROVE Written(s, i)
        <5>1. CASE i = at[s]
          BY <4>1, <5>1 DEF Written
        <5>2. CASE i < at[s]
          BY <4>1, <5>2, Positions, PipelineSteps DEF DocumentsOK
        <5>3. QED
          BY <4>1, <4>2, <5>1, <5>2
      <4>3. QED
        BY <4>1, <4>2, PipelineSteps
    <3>4. CASE CompleteScan(s)
      <4>1. at[s] = CompleteStep /\ at'[s] = OverStep
        BY <3>4 DEF CompleteScan, TypeOK
      <4>2. \A i \in 1 .. 10 : Written(s, i)
        BY <4>1, Positions, PipelineSteps DEF DocumentsOK
      <4>3. QED
        BY <4>1, <4>2, Positions
    <3>5. QED
      BY <1>1, <3>1, <3>2, <3>3, <3>4
  <2>4. QED
    BY <2>1, <2>2, <2>3, PipelineSteps DEF DocumentsOK, Written, Writes
<1>2. ASSUME NEW s \in Scans, InsertDocument(s) PROVE DocumentsOK'
  BY <1>2, InsertStep
<1>3. ASSUME NEW s \in Scans, MarkFailed(s) \/ Raise(s) PROVE DocumentsOK'
  <2>1. \A r \in Scans : r # s => at'[r] = at[r] /\ status'[r] = status[r]
    BY <1>3 DEF MarkFailed, Raise, TypeOK
  <2>2. at[s] # OverStep /\ at'[s] \in {FailStep, OverStep} /\ status'[s] \in {status[s], "FAILED"}
    BY <1>3, Positions DEF MarkFailed, Raise, TypeOK
  <2>3. UNCHANGED docs
    BY <1>3 DEF MarkFailed, Raise
  <2>4. \A r \in Scans : Onwards(r)
    BY <2>1, <2>2 DEF Onwards
  <2>5. QED
    BY <2>3, <2>4, DocumentsFrame
<1>4. ASSUME NEW s \in Scans, NEW f \in Fields, EditEvidence(s, f) PROVE DocumentsOK'
  <2>1. /\ UNCHANGED <<at, status>>
        /\ \A r \in Scans, j \in Kinds : docs'[r][j] # "NONE" <=> docs[r][j] # "NONE"
    BY <1>4 DEF EditEvidence, TypeOK, Evidence
  <2>2. QED
    BY <2>1 DEF DocumentsOK, Written, Writes
<1>5. ASSUME UNCHANGED <<at, status, docs>> PROVE DocumentsOK'
  <2>1. \A s \in Scans : Onwards(s)
    BY <1>5 DEF Onwards
  <2>2. QED
    BY <1>5, <2>1, DocumentsFrame
<1>6. ASSUME NEW s \in Scans, GenerateReport(s) PROVE DocumentsOK'
  BY <1>5, <1>6 DEF GenerateReport
<1>7. ASSUME NEW v \in Verifications, VerifierStep(v) PROVE DocumentsOK'
  BY <1>5, <1>7 DEF VerifierStep, ReadEvidence, LedgerUnavailable, CompareWithLedger
<1>8. ASSUME NEW c \in Calls, CallStep(c) PROVE DocumentsOK'
  BY <1>8, ResumeDocuments DEF CallStep
<1>9. ASSUME RecorderStep PROVE DocumentsOK'
  BY <1>5, <1>9, ResumeDocuments DEF RecorderStep, GatewayStep, scanVars
<1>10. ASSUME Crash PROVE DocumentsOK'
  <2>1. \A s \in Scans : Onwards(s)
    BY <1>10, Positions DEF Crash, Running, TypeOK, Onwards
  <2>2. QED
    BY <1>10, <2>1, DocumentsFrame DEF Crash
<1>11. CASE UNCHANGED vars
  BY <1>5, <1>11 DEF vars, scanVars
<1>12. QED
  BY <1>1, <1>2, <1>3, <1>4, <1>6, <1>7, <1>8, <1>9, <1>10, <1>11 DEF Next, PipelineStep

\* A scan is created with the hash of its configuration, and none loses it.
LEMMA CreatedStep ==
  ASSUME TypeOK, CreatedOK, [Next]_vars
  PROVE  CreatedOK'
<1>1. ASSUME \A s \in Scans :
               /\ at'[s] = NoStep <=> at[s] = NoStep
               /\ at[s] = NoStep => status'[s] = status[s]
               /\ docs[s]["configuration"] # "NONE" => docs'[s]["configuration"] # "NONE"
      PROVE  CreatedOK'
  BY <1>1 DEF CreatedOK
<1>2. ASSUME NEW s \in Scans, CreateScan(s) PROVE CreatedOK'
  <2>1. at'[s] = 0 /\ docs'[s]["configuration"] = "CLEAN"
    BY <1>2 DEF CreateScan, TypeOK, Evidence, Fields
  <2>2. \A r \in Scans : r # s => at'[r] = at[r] /\ status'[r] = status[r] /\ docs'[r] = docs[r]
    BY <1>2 DEF CreateScan, TypeOK
  <2>3. QED
    BY <2>1, <2>2, Positions DEF CreatedOK
<1>3. ASSUME NEW s \in Scans, ReadScan(s) \/ SetStatus(s) \/ CompleteScan(s) \/ MarkFailed(s) \/ Raise(s)
      PROVE  CreatedOK'
  <2>1. /\ UNCHANGED docs /\ at[s] # NoStep /\ at'[s] # NoStep
        /\ \A r \in Scans : r # s => at'[r] = at[r] /\ status'[r] = status[r]
    BY <1>3, Positions, PipelineSteps
    DEF ReadScan, SetStatus, CompleteScan, MarkFailed, Raise, TypeOK
  <2>2. QED
    BY <1>1, <2>1
<1>4. ASSUME NEW s \in Scans, InsertDocument(s) PROVE CreatedOK'
  <2>1. /\ UNCHANGED status /\ at[s] # NoStep /\ at'[s] # NoStep
        /\ \A r \in Scans : r # s => at'[r] = at[r]
    BY <1>4, Positions, PipelineSteps DEF InsertDocument, TypeOK
  <2>2. \A r \in Scans : docs'[r]["configuration"] = docs[r]["configuration"]
    BY <1>4 DEF InsertDocument, TypeOK, Kinds
  <2>3. QED
    BY <1>1, <2>1, <2>2
<1>5. ASSUME NEW s \in Scans, NEW f \in Fields, EditEvidence(s, f) PROVE CreatedOK'
  <2>1. /\ UNCHANGED <<at, status>>
        /\ \A r \in Scans : docs'[r]["configuration"] \in {docs[r]["configuration"], "EDITED"}
    BY <1>5 DEF EditEvidence, TypeOK
  <2>2. QED
    BY <1>1, <2>1
<1>6. ASSUME PipelinesResume PROVE CreatedOK'
  <2>1. \A s \in Scans : at'[s] = NoStep <=> at[s] = NoStep
    BY <1>6, Positions DEF PipelinesResume, Returning
  <2>2. QED
    BY <1>1, <1>6, <2>1 DEF PipelinesResume
<1>7. ASSUME Crash PROVE CreatedOK'
  <2>1. \A s \in Scans : at'[s] = NoStep <=> at[s] = NoStep
    BY <1>7, Positions DEF Crash, Running, TypeOK
  <2>2. QED
    BY <1>1, <1>7, <2>1 DEF Crash
<1>8. CASE UNCHANGED <<at, status, docs>>
  BY <1>8 DEF CreatedOK
<1>9. QED
  BY <1>2, <1>3, <1>4, <1>5, <1>6, <1>7, <1>8
  DEF Next, PipelineStep, GenerateReport, VerifierStep, ReadEvidence, LedgerUnavailable,
      CompareWithLedger, CallStep, RecorderStep, GatewayStep, vars, scanVars

-----------------------------------------------------------------------------
(* The calls of the pipelines                                              *)

\* A call moves by itself from the start and into its end, unless a failure ends it.
LEMMA CallMoves ==
  ASSUME R!IInv, NEW c \in Calls
  PROVE  /\ P!WorkerStep => pc'[c] = pc[c]
         /\ \A d : P!StrayCommit(d) \/ P!StrayVanish(d) => pc'[c] = pc[c]
         /\ \A d \in Calls : P!CallStep(d) /\ d # c => pc'[c] = pc[c]
         /\ \A p : P!GatewayStep(p) => pc'[c] = pc[c] \/ (pc[c] = "submit" /\ pc'[c] \in {"confirm", "pend"})
         /\ \A p : P!Abort(p) => pc'[c] = pc[c] \/ (pc[c] # "idle" /\ pc'[c] = "lost")
         /\ P!Crash => (pc[c] = "idle" => pc'[c] = "idle")
<1>1. pc \in [P!Actors -> R!CallPhases \union R!WorkerPhases] /\ c \in P!Actors /\ c # Worker
  BY RecorderAssumption DEF R!IInv, R!TypeOK, P!Actors, R!Actors, P!ProvenanceAssumption
<1>2. P!WorkerStep => pc'[c] = pc[c]
  BY <1>1 DEF P!WorkerStep, P!FetchBatch, P!ConfirmItem, P!DeleteItem, P!BumpItem, P!NextItem
<1>3. \A d : P!StrayCommit(d) \/ P!StrayVanish(d) => pc'[c] = pc[c]
  BY DEF P!StrayCommit, P!StrayVanish
<1>4. \A d \in Calls : P!CallStep(d) /\ d # c => pc'[c] = pc[c]
  BY <1>1 DEF P!CallStep, P!ReturnIdempotent, P!StartSubmit, P!WriteConfirmed, P!WritePending, P!Enqueue
<1>5. \A p : P!GatewayStep(p) => pc'[c] = pc[c] \/ (pc[c] = "submit" /\ pc'[c] \in {"confirm", "pend"})
  BY <1>1 DEF P!GatewayStep, P!CommitSubmission, P!Acknowledge, P!Refuse, P!GiveUp, P!Unavailable
<1>6. \A p : P!Abort(p) => pc'[c] = pc[c] \/ (pc[c] # "idle" /\ pc'[c] = "lost")
  BY <1>1 DEF P!Abort
<1>7. P!Crash => (pc[c] = "idle" => pc'[c] = "idle")
  BY <1>1 DEF P!Crash, P!Busy
<1>8. QED
  BY <1>2, <1>3, <1>4, <1>5, <1>6, <1>7

\* An audit is recorded by its own scan's pipeline, at its step.
LEMMA OnlyItsPipeline ==
  ASSUME NEW s \in Scans, CallStep(AuditCall[s]), pc[AuditCall[s]] = "idle"
  PROVE  at[s] = RecordStep
BY ScanAssumption DEF CallStep, Called, ByClient

LEMMA CallsStep ==
  ASSUME R!IInv, TypeOK, CallsOK, [Next]_vars
  PROVE  CallsOK'
<1> SUFFICES ASSUME NEW s \in Scans
             PROVE  /\ at'[s] \in 0 .. Len(Pipeline) \union {NoStep} => pc'[AuditCall[s]] = "idle"
                    /\ at'[s] = RecordStep => pc'[AuditCall[s]] \notin {"done", "lost"}
  BY DEF CallsOK
<1> DEFINE c == AuditCall[s]
<1>1. c \in Calls
  BY ScanAssumption
<1>2. /\ at[s] \in 0 .. 10 \union {NoStep} => pc[c] = "idle"
      /\ at[s] = RecordStep => pc[c] \notin {"done", "lost"}
  BY PipelineSteps DEF CallsOK
<1>3. ASSUME NEW r \in Scans, CreateScan(r) \/ PipelineStep(r) \/ Raise(r) \/ GenerateReport(r)
      PROVE  /\ at'[s] \in 0 .. 10 \union {NoStep} => pc'[c] = "idle"
             /\ at'[s] = RecordStep => pc'[c] \notin {"done", "lost"}
  <2>1. UNCHANGED pc
    BY <1>3 DEF CreateScan, PipelineStep, ReadScan, SetStatus, InsertDocument, CompleteScan,
                MarkFailed, Raise, GenerateReport, provenanceVars
  <2>2. \/ at'[s] = at[s]
        \/ at[s] \in 0 .. 10 \union {NoStep}
        \/ at'[s] \in {CompleteStep, FailStep, OverStep}
    BY <1>3, Positions, PipelineSteps
    DEF CreateScan, PipelineStep, ReadScan, SetStatus, InsertDocument, CompleteScan,
        MarkFailed, Raise, GenerateReport, TypeOK
  <2>3. QED
    BY <1>2, <2>1, <2>2, Positions
<1>4. ASSUME UNCHANGED <<at, pc>>
      PROVE  /\ at'[s] \in 0 .. 10 \union {NoStep} => pc'[c] = "idle"
             /\ at'[s] = RecordStep => pc'[c] \notin {"done", "lost"}
  BY <1>2, <1>4
<1>5. ASSUME PipelinesResume, pc[c] = "idle" => pc'[c] = "idle" \/ at[s] = RecordStep
      PROVE  /\ at'[s] \in 0 .. 10 \union {NoStep} => pc'[c] = "idle"
             /\ at'[s] = RecordStep => pc'[c] \notin {"done", "lost"}
  <2>1. CASE s \in Returning
    BY <1>5, <2>1, Positions DEF PipelinesResume
  <2>2. CASE s \notin Returning
    <3>1. at'[s] = at[s]
      BY <1>5, <2>2 DEF PipelinesResume
    <3>2. QED
      BY <1>2, <1>5, <2>2, <3>1, Positions DEF Returning
  <2>3. QED
    BY <2>1, <2>2
<1>6. ASSUME NEW d \in Calls, CallStep(d)
      PROVE  /\ at'[s] \in 0 .. 10 \union {NoStep} => pc'[c] = "idle"
             /\ at'[s] = RecordStep => pc'[c] \notin {"done", "lost"}
  <2>1. pc[c] = "idle" => pc'[c] = "idle" \/ at[s] = RecordStep
    BY <1>1, <1>6, CallMoves, OnlyItsPipeline DEF CallStep
  <2>2. QED
    BY <1>5, <1>6, <2>1 DEF CallStep
<1>7. ASSUME RecorderStep
      PROVE  /\ at'[s] \in 0 .. 10 \union {NoStep} => pc'[c] = "idle"
             /\ at'[s] = RecordStep => pc'[c] \notin {"done", "lost"}
  <2>1. CASE \E p \in Calls \union {Worker} : P!Abort(p) /\ PipelinesResume
    <3>1. pc[c] = "idle" => pc'[c] = "idle"
      BY <1>1, <2>1, CallMoves
    <3>2. QED
      BY <1>5, <2>1, <3>1
  <2>2. CASE ~(\E p \in Calls \union {Worker} : P!Abort(p) /\ PipelinesResume)
    <3>1. pc'[c] = pc[c] \/ (pc[c] = "submit" /\ pc'[c] \in {"confirm", "pend"})
      BY <1>1, <1>7, <2>2, CallMoves DEF RecorderStep, GatewayStep
    <3>2. at' = at
      BY <1>7, <2>2 DEF RecorderStep, GatewayStep, scanVars
    <3>3. QED
      BY <1>2, <3>1, <3>2
  <2>3. QED
    BY <2>1, <2>2
<1>8. ASSUME Crash
      PROVE  /\ at'[s] \in 0 .. 10 \union {NoStep} => pc'[c] = "idle"
             /\ at'[s] = RecordStep => pc'[c] \notin {"done", "lost"}
  <2>1. pc[c] = "idle" => pc'[c] = "idle"
    BY <1>1, <1>8, CallMoves DEF Crash, CrashOfIdleRecorder
  <2>2. at'[s] \in {at[s], OverStep} /\ at'[s] # RecordStep
    BY <1>8, Positions DEF Crash, Running
  <2>3. QED
    BY <1>2, <2>1, <2>2, Positions
<1>9. QED
  BY <1>3, <1>4, <1>6, <1>7, <1>8, PipelineSteps
  DEF Next, EditEvidence, VerifierStep, ReadEvidence, LedgerUnavailable, CompareWithLedger,
      vars, scanVars, provenanceVars

-----------------------------------------------------------------------------
(* What scans and reports show                                             *)

\* A transaction is shown as CONFIRMED for a commit of its event, whoever made it.
LEMMA ConfirmedIsRecorded ==
  ASSUME R!IInv, NEW s \in Scans, tx[EventOf[AuditCall[s]]].status = "CONFIRMED"
  PROVE  OnLedger(EventOf[AuditCall[s]])
<1> DEFINE e == EventOf[AuditCall[s]]
<1>1. e \in Events /\ ledger \in Seq(Calls)
  BY ScanAssumption, RecorderAssumption DEF P!ProvenanceAssumption, R!IInv, R!TypeOK
<1>2. tx[e].id \in 1 .. Len(ledger) /\ EventOf[ledger[tx[e].id]] = e
  BY <1>1 DEF R!IInv, R!ConfirmedIsOnLedger, R!Confirmed
<1>3. QED
  BY <1>2 DEF OnLedger

\* A call that ends confirmed has found its commit or made it.
LEMMA ConfirmingEnd ==
  ASSUME R!IInv, NEW s \in Scans, P!CallStep(AuditCall[s]),
         pc'[AuditCall[s]] = "done", pc[AuditCall[s]] # "enqueue"
  PROVE  OnLedger(EventOf[AuditCall[s]])
<1> DEFINE c == AuditCall[s]
<1>1. c \in Calls /\ c \in R!Actors /\ c # Worker
  BY ScanAssumption, RecorderAssumption DEF R!Actors, P!ProvenanceAssumption
<1>2. pc \in [R!Actors -> R!CallPhases \union R!WorkerPhases]
  BY DEF R!IInv, R!TypeOK
<1>3. CASE P!ReturnIdempotent(c)
  BY <1>3, ConfirmedIsRecorded DEF P!ReturnIdempotent, P!Confirmed
<1>4. CASE P!WriteConfirmed(c)
  <2>1. txid[c] \in 1 .. Len(ledger) /\ ledger[txid[c]] = c
    BY <1>1, <1>4 DEF P!WriteConfirmed, R!IInv, R!HoldsOwnCommit, R!Args
  <2>2. QED
    BY <2>1 DEF OnLedger
<1>5. CASE P!StartSubmit(c) \/ P!WritePending(c)
  BY <1>1, <1>2, <1>5 DEF P!StartSubmit, P!WritePending
<1>6. CASE P!Enqueue(c)
  BY <1>6 DEF P!Enqueue
<1>7. QED
  BY <1>3, <1>4, <1>5, <1>6 DEF P!CallStep

\* Only what a pipeline shows when it goes on, and what a report shows, is new.
LEMMA ShownResumes ==
  ASSUME TypeOK, PipelinesResume, ShownConfirmedIsOnLedger, R!IInv, [Next]_vars,
         \A s \in Returning : ReturnValue(s) = "CONFIRMED" => OnLedger(EventOf[AuditCall[s]])
  PROVE  ShownConfirmedIsOnLedger'
<1> SUFFICES ASSUME NEW s \in Scans, "CONFIRMED" \in {shown'[s].scan, shown'[s].report}
             PROVE  OnLedger(EventOf[AuditCall[s]])'
  BY DEF ShownConfirmedIsOnLedger
<1>1. OnLedger(EventOf[AuditCall[s]])
  <2>1. CASE s \in Returning
    <3>1. shown'[s] = [shown[s] EXCEPT !.scan = ReturnValue(s)]
      BY <2>1 DEF PipelinesResume
    <3>2. shown'[s].scan = ReturnValue(s) /\ shown'[s].report = shown[s].report
      BY <3>1 DEF TypeOK
    <3>3. QED
      BY <2>1, <3>2 DEF ShownConfirmedIsOnLedger
  <2>2. CASE s \notin Returning
    <3>1. shown'[s] = shown[s]
      BY <2>2 DEF PipelinesResume
    <3>2. QED
      BY <3>1 DEF ShownConfirmedIsOnLedger
  <2>3. QED
    BY <2>1, <2>2
<1>2. QED
  BY <1>1, EventsStay

LEMMA ShownStep ==
  ASSUME R!IInv, TypeOK, CallsOK, ShownConfirmedIsOnLedger, [Next]_vars
  PROVE  ShownConfirmedIsOnLedger'
<1>1. ASSUME shown' = shown PROVE ShownConfirmedIsOnLedger'
  BY <1>1, EventsStay DEF ShownConfirmedIsOnLedger
<1>2. ASSUME NEW d \in Calls, CallStep(d) PROVE ShownConfirmedIsOnLedger'
  <2>1. ASSUME NEW s \in Returning, ReturnValue(s) = "CONFIRMED" PROVE OnLedger(EventOf[AuditCall[s]])
    <3>1. /\ s \in Scans /\ AuditCall[s] \in Calls
          /\ pc[AuditCall[s]] # "done" /\ pc[AuditCall[s]] # "enqueue" /\ pc'[AuditCall[s]] = "done"
      BY <2>1, ScanAssumption DEF Returning, ReturnValue, CallsOK
    <3>2. AuditCall[s] = d
      BY <1>2, <3>1, CallMoves DEF CallStep
    <3>3. QED
      BY <1>2, <3>1, <3>2, ConfirmingEnd DEF CallStep
  <2>2. QED
    BY <1>2, <2>1, ShownResumes DEF CallStep
<1>3. ASSUME NEW p \in Calls \union {Worker}, P!Abort(p), PipelinesResume PROVE ShownConfirmedIsOnLedger'
  <2>1. ASSUME NEW s \in Returning PROVE ReturnValue(s) # "CONFIRMED"
    <3>1. s \in Scans /\ AuditCall[s] \in Calls /\ pc[AuditCall[s]] # "done"
      BY <2>1, ScanAssumption DEF Returning, CallsOK
    <3>2. pc'[AuditCall[s]] # "done"
      BY <1>3, <3>1, CallMoves
    <3>3. QED
      BY <3>2 DEF ReturnValue
  <2>2. QED
    BY <1>3, <2>1, ShownResumes
<1>4. ASSUME NEW s \in Scans, GenerateReport(s) PROVE ShownConfirmedIsOnLedger'
  <2> DEFINE word == IF tx[EventOf[AuditCall[s]]].status = "CONFIRMED" THEN "CONFIRMED" ELSE "PENDING"
  <2>1. shown' = [shown EXCEPT ![s] = [shown[s] EXCEPT !.report = word]]
    BY <1>4 DEF GenerateReport
  <2>2. word = "CONFIRMED" => OnLedger(EventOf[AuditCall[s]])
    BY ConfirmedIsRecorded
  <2> HIDE DEF word
  <2>3. \A r \in Scans : r # s => shown'[r] = shown[r]
    BY <2>1 DEF TypeOK
  <2>4. shown'[s].scan = shown[s].scan /\ shown'[s].report = word
    BY <2>1 DEF TypeOK
  <2>5. \A r \in Scans : "CONFIRMED" \in {shown'[r].scan, shown'[r].report} => OnLedger(EventOf[AuditCall[r]])
    BY <2>2, <2>3, <2>4 DEF ShownConfirmedIsOnLedger
  <2>6. QED
    BY <2>5, EventsStay DEF ShownConfirmedIsOnLedger
<1>5. QED
  BY <1>1, <1>2, <1>3, <1>4
  DEF Next, CreateScan, PipelineStep, ReadScan, SetStatus, InsertDocument, CompleteScan, MarkFailed, Raise,
      EditEvidence, VerifierStep, ReadEvidence, LedgerUnavailable, CompareWithLedger,
      RecorderStep, GatewayStep, Crash, vars, scanVars

-----------------------------------------------------------------------------
(* The verdicts                                                            *)

\* Whoever compares has evidence to compare, and what it was compared with is on the ledger.
ReadingsOK ==
  \A v \in Verifications :
    /\ verdict[v] = "evidence read" => \A f \in Fields : read[v][f] # "NONE"
    /\ height[v] \in 0 .. Len(ledger)

\* The merge of the audit's commits: the last hash of a field, if there is one.
LEMMA RecordedIs ==
  ASSUME NEW s, NEW f, NEW n \in Nat
  PROVE  \/ Recorded(s, f, n) = "NONE" /\ WithHash(s, f, n) = {}
         \/ \E m \in WithHash(s, f, n) :
              /\ Recorded(s, f, n) = HashAt(m, f) /\ HashAt(m, f) # "NONE"
              /\ \A i \in WithHash(s, f, n) : m >= i
<1> DEFINE W == WithHash(s, f, n)
<1>1. W \in SUBSET (1 .. n) /\ \A i \in W : HashAt(i, f) # "NONE"
  BY DEF WithHash, CommitsOf
<1>2. Recorded(s, f, n) = IF W = {} THEN "NONE" ELSE HashAt(Max(W), f)
  BY DEF Recorded
<1> HIDE DEF W
<1>3. CASE W # {}
  <2>1. Max(W) \in W /\ \A i \in W : Max(W) >= i
    BY <1>1, <1>3, MaxIn
  <2>2. QED
    BY <1>1, <1>2, <1>3, <2>1 DEF W
<1>4. QED
  BY <1>2, <1>3 DEF W

\* What a verification was compared with stays.
LEMMA ComparedStays ==
  ASSUME R!LedgerKept, ReadingsOK, NEW v \in Verifications, height'[v] = height[v],
         NEW s, NEW f
  PROVE  /\ WithHash(s, f, height[v])' = WithHash(s, f, height[v])
         /\ \A i \in WithHash(s, f, height[v]) :
              ledger'[i] = ledger[i] /\ HashAt(i, f)' = HashAt(i, f)
<1>1. height[v] \in Nat /\ height[v] <= Len(ledger) /\ Len(ledger) \in Nat
  <2>1. height[v] \in 0 .. Len(ledger)
    BY DEF ReadingsOK
  <2>2. Len(ledger) \in Nat
    BY DEF R!LedgerKept
  <2>3. QED
    BY <2>1, <2>2
<1>2. \A i \in 1 .. height[v] : ledger'[i] = ledger[i]
  BY <1>1 DEF R!LedgerKept
<1>3. QED
  BY <1>2 DEF WithHash, CommitsOf, HashAt

\* What a verification answers, of what it read and the commits it compared that with.
Alarmed(v) ==
  verdict[v] = "INTEGRITY_VIOLATION" =>
    \E f \in Fields :
      \/ read[v][f] = "EDITED"
      \/ \E i \in WithHash(Verifies[v], f, height[v]) :
           ledger[i] # AuditCall[Verifies[v]] /\ HashAt(i, f) # "CLEAN"
Agreed(v) ==
  verdict[v] = "VERIFIED" =>
    \A f \in Fields : \A i \in WithHash(Verifies[v], f, height[v]) :
      \E j \in WithHash(Verifies[v], f, height[v]) :
        j >= i /\ HashAt(j, f) \in {read[v][f], "BLANK"}

VerdictsOK == \A v \in Verifications : Alarmed(v) /\ Agreed(v)

\* A verification a step does not touch stays right.
LEMMA VerdictStays ==
  ASSUME R!LedgerKept, ReadingsOK, NEW v \in Verifications, Alarmed(v), Agreed(v),
         verdict'[v] = verdict[v], read'[v] = read[v], height'[v] = height[v]
  PROVE  Alarmed(v)' /\ Agreed(v)'
<1> DEFINE W(f) == WithHash(Verifies[v], f, height[v])
<1>1. \A f : /\ W(f)' = W(f)
             /\ \A i \in W(f) : ledger'[i] = ledger[i] /\ HashAt(i, f)' = HashAt(i, f)
  BY ComparedStays
<1>2. /\ Alarmed(v) <=> (verdict[v] = "INTEGRITY_VIOLATION" =>
           \E f \in Fields : \/ read[v][f] = "EDITED"
                             \/ \E i \in W(f) : ledger[i] # AuditCall[Verifies[v]] /\ HashAt(i, f) # "CLEAN")
      /\ Alarmed(v)' <=> (verdict'[v] = "INTEGRITY_VIOLATION" =>
           \E f \in Fields : \/ read'[v][f] = "EDITED"
                             \/ \E i \in W(f)' : ledger'[i] # AuditCall[Verifies[v]] /\ HashAt(i, f)' # "CLEAN")
      /\ Agreed(v) <=> (verdict[v] = "VERIFIED" =>
           \A f \in Fields : \A i \in W(f) : \E j \in W(f) :
             j >= i /\ HashAt(j, f) \in {read[v][f], "BLANK"})
      /\ Agreed(v)' <=> (verdict'[v] = "VERIFIED" =>
           \A f \in Fields : \A i \in W(f)' : \E j \in W(f)' :
             j >= i /\ HashAt(j, f)' \in {read'[v][f], "BLANK"})
  BY DEF Alarmed, Agreed
<1> HIDE DEF W
<1>3. Alarmed(v)'
  BY <1>1, <1>2
<1>4. Agreed(v)'
  BY <1>1, <1>2
<1>5. QED
  BY <1>3, <1>4

\* A comparison answers what its commits say.
LEMMA ComparisonRight ==
  ASSUME R!IInv, TypeOK, ReadingsOK, NEW v \in Verifications, CompareWithLedger(v)
  PROVE  Alarmed(v)' /\ Agreed(v)'
<1> DEFINE s == Verifies[v]
           n == Len(ledger)
<1>1. s \in Scans /\ n \in Nat /\ n = Len(ledger)
  <2>1. ledger \in Seq(Calls)
    BY DEF R!IInv, R!TypeOK
  <2>2. QED
    BY <2>1, ScanAssumption
<1>2. /\ ledger' = ledger /\ read' = read /\ height'[v] = n
      /\ verdict'[v] = "INTEGRITY_VIOLATION" => Mismatch(v)
      /\ verdict'[v] = "VERIFIED" => ~Mismatch(v)
      /\ verdict[v] = "evidence read"
  BY DEF CompareWithLedger, TypeOK, provenanceVars
<1>3. \A f \in Fields : read[v][f] \in {"CLEAN", "EDITED"}
  <2>1. ASSUME NEW f \in Fields PROVE read[v][f] \in {"CLEAN", "EDITED"}
    <3>1. read[v][f] \in Contents
      BY DEF TypeOK
    <3>2. read[v][f] # "NONE"
      BY <1>2 DEF ReadingsOK
    <3>3. QED
      BY <3>1, <3>2 DEF Contents
  <2>2. QED
    BY <2>1
<1>4. \A f \in Fields : HashesOf[AuditCall[s]][f] = "CLEAN"
  BY <1>1, ScanAssumption
<1>5. \A f : WithHash(s, f, n)' = WithHash(s, f, n) /\ \A i : HashAt(i, f)' = HashAt(i, f)
  BY <1>2 DEF WithHash, CommitsOf, HashAt
<1>6. Mismatch(v) <=> \E f \in Fields : Recorded(s, f, n) \notin {"NONE", "BLANK", read[v][f]}
  BY DEF Mismatch
<1>7. \A f \in Fields : \A i \in WithHash(s, f, n) :
        ledger[i] = AuditCall[s] => HashAt(i, f) = "CLEAN"
  BY <1>4 DEF HashAt
<1>8. Alarmed(v)' <=> (verdict'[v] = "INTEGRITY_VIOLATION" =>
        \E f \in Fields : \/ read[v][f] = "EDITED"
                          \/ \E i \in WithHash(s, f, n)' : ledger[i] # AuditCall[s] /\ HashAt(i, f)' # "CLEAN")
  BY <1>2 DEF Alarmed, WithHash, CommitsOf
<1>9. Agreed(v)' <=> (verdict'[v] = "VERIFIED" =>
        \A f \in Fields : \A i \in WithHash(s, f, n)' : \E j \in WithHash(s, f, n)' :
          j >= i /\ HashAt(j, f)' \in {read[v][f], "BLANK"})
  BY <1>2 DEF Agreed, WithHash, CommitsOf
<1> HIDE DEF s, n
<1>10. Alarmed(v)'
  <2>1. ASSUME NEW f \in Fields, Recorded(s, f, n) \notin {"NONE", "BLANK", read[v][f]}
        PROVE  \/ read[v][f] = "EDITED"
               \/ \E i \in WithHash(s, f, n) : ledger[i] # AuditCall[s] /\ HashAt(i, f) # "CLEAN"
    <3>1. PICK m \in WithHash(s, f, n) : Recorded(s, f, n) = HashAt(m, f)
      BY <1>1, <2>1, RecordedIs
    <3>2. QED
      BY <1>3, <1>7, <2>1, <3>1
  <2>2. QED
    BY <1>2, <1>5, <1>6, <1>8, <2>1
<1>11. Agreed(v)'
  <2>1. ASSUME ~Mismatch(v), NEW f \in Fields, NEW i \in WithHash(s, f, n)
        PROVE  \E j \in WithHash(s, f, n) : j >= i /\ HashAt(j, f) \in {read[v][f], "BLANK"}
    <3>1. PICK m \in WithHash(s, f, n) :
            /\ Recorded(s, f, n) = HashAt(m, f) /\ HashAt(m, f) # "NONE"
            /\ \A k \in WithHash(s, f, n) : m >= k
      BY <1>1, <2>1, RecordedIs
    <3>2. HashAt(m, f) \in {"NONE", "BLANK", read[v][f]}
      BY <1>6, <2>1, <3>1
    <3>3. QED
      BY <2>1, <3>1, <3>2
  <2>2. QED
    BY <1>2, <1>5, <1>9, <2>1
<1>12. QED
  BY <1>10, <1>11

LEMMA VerdictsStep ==
  ASSUME R!IInv, TypeOK, CreatedOK, ReadingsOK, VerdictsOK, [Next]_vars
  PROVE  ReadingsOK' /\ VerdictsOK'
<1>1. R!LedgerKept
  BY LedgerGrows
<1>2. \A v \in Verifications : height[v] \in 0 .. Len(ledger) => height[v] \in 0 .. Len(ledger')
  BY <1>1 DEF R!LedgerKept, TypeOK
<1>3. ASSUME NEW v \in Verifications,
             verdict'[v] = verdict[v], read'[v] = read[v], height'[v] = height[v]
      PROVE  /\ verdict'[v] = "evidence read" => \A f \in Fields : read'[v][f] # "NONE"
             /\ height'[v] \in 0 .. Len(ledger')
             /\ Alarmed(v)' /\ Agreed(v)'
  BY <1>1, <1>2, <1>3, VerdictStays DEF ReadingsOK, VerdictsOK
<1>4. CASE UNCHANGED <<verdict, read, height>>
  BY <1>3, <1>4 DEF ReadingsOK, VerdictsOK
<1>5. ASSUME NEW v \in Verifications, VerifierStep(v) PROVE ReadingsOK' /\ VerdictsOK'
  <2>1. \A w \in Verifications : w # v =>
          verdict'[w] = verdict[w] /\ read'[w] = read[w] /\ height'[w] = height[w]
    BY <1>5 DEF VerifierStep, ReadEvidence, LedgerUnavailable, CompareWithLedger, TypeOK
  <2>2. Verifies[v] \in Scans /\ Len(ledger) \in Nat
    BY <1>1, ScanAssumption DEF R!LedgerKept
  <2>3. /\ verdict'[v] = "evidence read" => \A f \in Fields : read'[v][f] # "NONE"
        /\ height'[v] \in 0 .. Len(ledger')
        /\ Alarmed(v)' /\ Agreed(v)'
    <3>1. CASE ReadEvidence(v)
      <4>1. /\ verdict'[v] \in {"NOT_FOUND", "INSUFFICIENT_EVIDENCE", "evidence read"}
            /\ read'[v] = Compared(Verifies[v]) /\ height'[v] = height[v]
            /\ verdict'[v] = "evidence read" =>
                 /\ status[Verifies[v]] # "NONE"
                 /\ docs[Verifies[v]]["compliance"] # "NONE" /\ docs[Verifies[v]]["risk"] # "NONE"
        <5>1. verdict \in [Verifications -> Verdicts] /\ read \in [Verifications -> [Fields -> Contents]]
          BY DEF TypeOK
        <5>2. /\ read'[v] = Compared(Verifies[v]) /\ height'[v] = height[v]
          BY <3>1, <5>1 DEF ReadEvidence
        <5>3. verdict'[v] =
                IF status[Verifies[v]] = "NONE" THEN "NOT_FOUND"
                ELSE IF \E k \in {"compliance", "risk"} : docs[Verifies[v]][k] = "NONE"
                  THEN "INSUFFICIENT_EVIDENCE"
                ELSE "evidence read"
          BY <3>1, <5>1 DEF ReadEvidence
        <5>4. QED
          BY <5>2, <5>3
      <4>2. verdict'[v] = "evidence read" => \A f \in Fields : read'[v][f] # "NONE"
        BY <2>2, <4>1 DEF Compared, CreatedOK, Fields
      <4>3. height'[v] \in 0 .. Len(ledger')
        <5>1. height[v] \in 0 .. Len(ledger)
          BY DEF ReadingsOK
        <5>2. QED
          BY <1>2, <4>1, <5>1
      <4>4. Alarmed(v)' /\ Agreed(v)'
        <5>1. verdict'[v] # "INTEGRITY_VIOLATION" /\ verdict'[v] # "VERIFIED"
          BY <4>1
        <5>2. QED
          BY <5>1 DEF Alarmed, Agreed
      <4>5. QED
        BY <4>2, <4>3, <4>4
    <3>2. CASE LedgerUnavailable(v)
      <4>1. verdict'[v] = "BLOCKCHAIN_UNAVAILABLE" /\ height'[v] = height[v]
        BY <3>2 DEF LedgerUnavailable, TypeOK
      <4>2. height'[v] \in 0 .. Len(ledger')
        BY <1>2, <4>1 DEF ReadingsOK
      <4>3. QED
        BY <4>1, <4>2 DEF Alarmed, Agreed
    <3>3. CASE CompareWithLedger(v)
      <4>1. /\ verdict'[v] # "evidence read" /\ height'[v] = Len(ledger) /\ ledger' = ledger
        BY <3>3 DEF CompareWithLedger, TypeOK, provenanceVars
      <4>2. Alarmed(v)' /\ Agreed(v)'
        BY <3>3, ComparisonRight
      <4>3. height'[v] \in 0 .. Len(ledger')
        <5>1. Len(ledger') = Len(ledger)
          BY <4>1
        <5>2. Len(ledger) \in 0 .. Len(ledger)
          BY <2>2
        <5>3. QED
          BY <4>1, <5>1, <5>2
      <4>4. QED
        BY <4>1, <4>2, <4>3
    <3>4. QED
      BY <1>5, <3>1, <3>2, <3>3 DEF VerifierStep
  <2>4. QED
    BY <1>3, <2>1, <2>3 DEF ReadingsOK, VerdictsOK
<1>6. QED
  BY <1>4, <1>5
  DEF Next, CreateScan, PipelineStep, ReadScan, SetStatus, InsertDocument, CompleteScan, MarkFailed, Raise,
      GenerateReport, EditEvidence, CallStep, PipelinesResume, RecorderStep, GatewayStep,
      Crash, vars, scanVars

-----------------------------------------------------------------------------
(* The theorems                                                            *)

\* The inductive invariant.
IInv ==
  /\ R!IInv /\ TypeOK /\ DocumentsOK /\ CreatedOK /\ CallsOK
  /\ ShownConfirmedIsOnLedger
  /\ ReadingsOK /\ VerdictsOK

LEMMA Inductive == (Init => IInv) /\ (IInv /\ [Next]_vars => IInv')
<1>1. ASSUME Init PROVE IInv
  <2>1. DocumentsOK /\ CreatedOK
    BY <1>1, Positions DEF Init, DocumentsOK, CreatedOK, Kinds, Evidence
  <2>2. CallsOK
    <3>1. \A s \in Scans : AuditCall[s] \in P!Actors /\ AuditCall[s] # Worker
      BY ScanAssumption, RecorderAssumption DEF P!ProvenanceAssumption, P!Actors
    <3>2. QED
      BY <1>1, <3>1 DEF Init, P!Init, CallsOK
  <2>3. ShownConfirmedIsOnLedger
    BY <1>1 DEF Init, ShownConfirmedIsOnLedger
  <2>4. ReadingsOK /\ VerdictsOK
    <3>1. Len(ledger) = 0
      BY <1>1 DEF Init, P!Init
    <3>2. QED
      BY <1>1, <3>1 DEF Init, ReadingsOK, VerdictsOK, Alarmed, Agreed
  <2>5. QED
    BY <1>1, <2>1, <2>2, <2>3, <2>4, RecorderInit, TypeInit DEF IInv
<1>2. ASSUME IInv, [Next]_vars PROVE IInv'
  BY <1>2, RecorderKept, TypeStep, DocumentsStep, CreatedStep, CallsStep, ShownStep, VerdictsStep DEF IInv
<1>3. QED
  BY <1>1, <1>2

\* Statuses, pipelines, documents and verdicts keep their types, whatever faults, crashes,
\* exceptions and edits there are.
THEOREM TypeCorrect == Spec => []TypeOK
<1>1. IInv => TypeOK
  BY DEF IInv
<1>2. QED
  BY Inductive, <1>1, PTL DEF Spec

\* A COMPLETED scan has every document its readers look up, and no other: for any number of
\* scans, exceptions and crashes (run_scan_pipeline writes the documents before the status).
THEOREM EvidenceComplete == Spec => []CompletedHasEvidence
<1>1. ASSUME IInv, NEW s \in Scans, status[s] = "COMPLETED", NEW k \in Kinds
      PROVE  docs[s][k] # "NONE" <=> Writes(s, k)
  <2>1. PICK i \in 1 .. 10 : Pipeline[i] = k
    BY PipelineSteps
  <2>2. Written(s, i)
    BY <1>1, PipelineSteps DEF IInv, DocumentsOK
  <2>3. QED
    BY <1>1, <2>1, <2>2 DEF IInv, DocumentsOK, Written
<1>2. IInv => CompletedHasEvidence
  BY <1>1 DEF CompletedHasEvidence
<1>3. QED
  BY Inductive, <1>2, PTL DEF Spec

\* Evidence is reported as violated only if it was edited, or somebody other than the
\* pipeline recorded a hash that is not its own: for any number of edits, verifications,
\* recordings by clients, late commits and retries (verify_audit).
THEOREM AlarmsJustified == Spec => []NoFalseAlarm
<1>1. IInv => NoFalseAlarm
  BY DEF IInv, VerdictsOK, Alarmed, NoFalseAlarm
<1>2. QED
  BY Inductive, <1>1, PTL DEF Spec

\* Neither a scan nor a report shows CONFIRMED unless the ledger has a commit of the scan's
\* AUDIT_COMPLETED event, whoever recorded it (record_event, retry_pending_transactions).
THEOREM ConfirmationsShown == Spec => []ShownConfirmedIsOnLedger
<1>1. IInv => ShownConfirmedIsOnLedger
  BY DEF IInv
<1>2. QED
  BY Inductive, <1>1, PTL DEF Spec

\* Evidence is reported as verified only if the last hash of each field on the ledger is that
\* of the evidence read, or empty: whatever clients record, and in whichever order delayed
\* and retried commits arrive (verify_audit, _mergeAuditRecord).
THEOREM VerdictsRight == Spec => []VerifiedAsRecorded
<1>1. IInv => VerifiedAsRecorded
  BY DEF IInv, VerdictsOK, Agreed, VerifiedAsRecorded
<1>2. QED
  BY Inductive, <1>1, PTL DEF Spec
=============================================================================
