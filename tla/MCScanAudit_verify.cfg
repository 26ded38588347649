SPECIFICATION Spec
CONSTANTS
  s1 = s1
  v1 = v1
  c1 = c1
  c2 = c2
  c3 = c3
  e1 = e1
  e2 = e2
  Calls = {c1, c2, c3}
  Events = {e1, e2}
  EventOf <- MCEventOf
  AuditOf <- MCAuditOf
  HashesOf <- MCHashesOf
  Poison = {}
  Worker = worker
  NoCall = nocall
  BatchSize = 2
  MaxFaults = 1
  MaxCrashes = 1
  Scans = {s1}
  AuditCall <- MCAuditCall
  ReportCall <- MCReportCall
  WithFindings = {s1}
  Reported = {}
  Verifications = {v1}
  Verifies <- MCVerifies
  MaxErrors = 1
  MaxEdits = 2
INVARIANTS TypeOK CompletedHasEvidence NoFalseAlarm VerifiedAsRecorded
\* The scan is over, the verification answered and the queue empty.
CHECK_DEADLOCK FALSE
