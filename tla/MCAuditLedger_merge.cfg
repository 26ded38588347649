SPECIFICATION FairSpec
CONSTANTS
  t1 = t1
  t2 = t2
  t3 = t3
  t4 = t4
  t5 = t5
  t6 = t6
  a1 = a1
  a2 = a2
  d1 = d1
  compliance = compliance
  risk = risk
  h1 = h1
  h2 = h2
  Txs = {t1, t2, t3, t4, t5, t6}
  Audits = {a1, a2}
  NoAudit = noaudit
  Devices = {d1}
  NoDevice = nodevice
  Fields = {compliance, risk}
  Values = {h1, h2}
  Null = null
  AuditOf <- MCAuditOf
  DeviceOf <- MCDeviceOf
  HashesOf <- MCHashesOf
  MaxLosses = 1
INVARIANTS TypeOK FieldsAreLastWritten DeviceHistoryComplete
PROPERTIES MergesAtomically EveryRecordCommits
\* Every submission is committed or refused.
CHECK_DEADLOCK FALSE
