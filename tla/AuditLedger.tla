----------------------------- MODULE AuditLedger -----------------------------
(***************************************************************************)
(* The audit contract (securityAuditContract.js) on the Fabric ledger, and *)
(* the sidecar's submissions to it (fabricClient.ts).                      *)
(*                                                                         *)
(* A transaction t is one submission of a record: AuditOf[t], DeviceOf[t]  *)
(* and HashesOf[t] are its contents, and a record submitted twice is two   *)
(* transactions.  The contract runs at endorsement, against the state of   *)
(* the peer at that moment; what it read and what it would write are       *)
(* validated later, when the transaction is ordered and committed.  The    *)
(* network has one peer (network/docker-compose.yaml).                     *)
(***************************************************************************)
EXTENDS Integers, Sequences

CONSTANTS
  Txs,       \* submissions
  Audits,    \* audit ids
  NoAudit,   \* an empty audit_id
  Devices,   \* device ids
  NoDevice,  \* an empty device_id
  Fields,    \* the hash fields of a record
  Values,    \* hashes
  Null,      \* a field a record does not have, or has as null
  AuditOf, DeviceOf, HashesOf,
  MaxLosses  \* bound: endorsed transactions that miss a deadline

ASSUME LedgerAssumption ==
  /\ NoAudit \notin Audits
  /\ NoDevice \notin Devices
  /\ Null \notin Values
  /\ AuditOf \in [Txs -> Audits \union {NoAudit}]
  /\ DeviceOf \in [Txs -> Devices \union {NoDevice}]
  /\ HashesOf \in [Txs -> [Fields -> Values \union {Null}]]
  /\ MaxLosses \in Nat

VARIABLES
  world,      \* audit:<id>, the merged hashes of each audit
  index,      \* device_index:<id>, the audits of each device
  auditVer,   \* how often each audit key was written
  indexVer,   \* how often each index key was written
  status,     \* where each submission stands
  endorsed,   \* what each endorsed submission read and would write
  committed,  \* the valid transactions in commit order
  losses      \* missed deadlines so far

vars == <<world, index, auditVer, indexVer, status, endorsed, committed, losses>>

NoHashes == [f \in Fields |-> Null]

\* An endorsement: the new record and index, and the versions they rest on.
Endorsements ==
  [hashes : [Fields -> Values \union {Null}], auditVer : Nat,
   audits : Seq(Audits), indexVer : Nat]
Nothing == [hashes |-> NoHashes, auditVer |-> 0, audits |-> <<>>, indexVer |-> 0]

Includes(s, x) == \E i \in 1 .. Len(s) : s[i] = x

Init ==
  /\ world = [a \in Audits |-> NoHashes]
  /\ index = [d \in Devices |-> <<>>]
  /\ auditVer = [a \in Audits |-> 0]
  /\ indexVer = [d \in Devices |-> 0]
  /\ status = [t \in Txs |-> "new"]
  /\ endorsed = [t \in Txs |-> Nothing]
  /\ committed = <<>>
  /\ losses = 0

-----------------------------------------------------------------------------
(* The contract, as the peer runs it at endorsement                        *)

\* Mutants: the record replaces what was there; a list with any audit is left
\* alone; the device is listed in place of the audit.
Replaced(t) == HashesOf[t]
ListedWhenEmpty(t) ==
  IF index[DeviceOf[t]] # <<>> THEN index[DeviceOf[t]]
  ELSE Append(index[DeviceOf[t]], AuditOf[t])
ListedDevice(t) ==
  IF Includes(index[DeviceOf[t]], AuditOf[t]) THEN index[DeviceOf[t]]
  ELSE Append(index[DeviceOf[t]], DeviceOf[t])

\* The existing record with the incoming non-null fields.
Merged(t) ==
  [f \in Fields |->
     IF HashesOf[t][f] = Null THEN world[AuditOf[t]][f] ELSE HashesOf[t][f]]

\* The device's list with the audit, appended if it was not there.
Listed(t) ==
  IF Includes(index[DeviceOf[t]], AuditOf[t]) THEN index[DeviceOf[t]]
  ELSE Append(index[DeviceOf[t]], AuditOf[t])

\* _parseRecord throws: the endorsement fails and nothing is submitted.
Refuse(t) ==
  /\ status[t] = "new"
  /\ AuditOf[t] = NoAudit
  /\ status' = [status EXCEPT ![t] = "refused"]
  /\ UNCHANGED <<world, index, auditVer, indexVer, endorsed, committed, losses>>

Endorse(t) ==
  /\ status[t] = "new"
  /\ AuditOf[t] # NoAudit
  /\ endorsed' = [endorsed EXCEPT ![t] =
       [hashes   |-> Merged(t),
        auditVer |-> auditVer[AuditOf[t]],
        audits   |-> IF DeviceOf[t] = NoDevice THEN <<>> ELSE Listed(t),
        indexVer |-> IF DeviceOf[t] = NoDevice THEN 0 ELSE indexVer[DeviceOf[t]]]]
  /\ status' = [status EXCEPT ![t] = "endorsed"]
  /\ UNCHANGED <<world, index, auditVer, indexVer, committed, losses>>

-----------------------------------------------------------------------------
(* Ordering, validation and the sidecar                                    *)

\* Mutant: only the audit key is validated.
AuditCurrent(t) == endorsed[t].auditVer = auditVer[AuditOf[t]]

\* No key the endorsement read was written since.
Current(t) ==
  /\ endorsed[t].auditVer = auditVer[AuditOf[t]]
  /\ DeviceOf[t] # NoDevice => endorsed[t].indexVer = indexVer[DeviceOf[t]]

\* The index is only written when the audit was not yet in it.
WritesIndex(t) ==
  DeviceOf[t] # NoDevice /\ endorsed[t].audits # index[DeviceOf[t]]

\* getStatus reports success: the write set is the new state.
CommitValid(t) ==
  /\ status[t] = "endorsed"
  /\ Current(t)
  /\ world' = [world EXCEPT ![AuditOf[t]] = endorsed[t].hashes]
  /\ auditVer' = [auditVer EXCEPT ![AuditOf[t]] = @ + 1]
  /\ IF WritesIndex(t)
       THEN /\ index' = [index EXCEPT ![DeviceOf[t]] = endorsed[t].audits]
            /\ indexVer' = [indexVer EXCEPT ![DeviceOf[t]] = @ + 1]
       ELSE UNCHANGED <<index, indexVer>>
  /\ committed' = Append(committed, t)
  /\ status' = [status EXCEPT ![t] = "valid"]
  /\ UNCHANGED <<endorsed, losses>>

\* A read conflict: the transaction is on the chain and changes nothing, and
\* the sidecar answers 502.
CommitInvalid(t) ==
  /\ status[t] = "endorsed"
  /\ ~Current(t)
  /\ status' = [status EXCEPT ![t] = "invalid"]
  /\ UNCHANGED <<world, index, auditVer, indexVer, endorsed, committed, losses>>

\* A missed submit deadline, or a sidecar that dies: never ordered.
Lose(t) ==
  /\ status[t] = "endorsed"
  /\ losses < MaxLosses
  /\ losses' = losses + 1
  /\ status' = [status EXCEPT ![t] = "invalid"]
  /\ UNCHANGED <<world, index, auditVer, indexVer, endorsed, committed>>

\* Mutant: a failed submission is not made again.
GiveUpOn(t) ==
  /\ status[t] = "invalid"
  /\ status' = [status EXCEPT ![t] = "refused"]
  /\ UNCHANGED <<world, index, auditVer, indexVer, endorsed, committed, losses>>

\* The retry worker submits the queued record again, from its endorsement on.
Resubmit(t) ==
  /\ status[t] = "invalid"
  /\ status' = [status EXCEPT ![t] = "new"]
  /\ UNCHANGED <<world, index, auditVer, indexVer, endorsed, committed, losses>>

-----------------------------------------------------------------------------
Commit(t) == CommitValid(t) \/ CommitInvalid(t)

Submission(t) == Refuse(t) \/ Endorse(t) \/ Commit(t) \/ Resubmit(t)

Next == \E t \in Txs : Submission(t) \/ Lose(t)

Spec == Init /\ [][Next]_vars

\* The sidecar carries on with what it endorsed, the orderer orders what was
\* submitted, and the worker retries every 30 s.
FairSpec == Spec /\ \A t \in Txs : WF_vars(Submission(t))

-----------------------------------------------------------------------------
(* Reads                                                                   *)

\* Who wrote field f of audit a, as positions in the chain.
Writers(a, f) ==
  {i \in 1 .. Len(committed) : AuditOf[committed[i]] = a /\ HashesOf[committed[i]][f] # Null}

\* The audits GetDeviceAuditHistory returns: those listed that have a record.
GetDeviceAuditHistory(d) ==
  {a \in Audits : Includes(index[d], a) /\ auditVer[a] > 0}

-----------------------------------------------------------------------------
(* Properties                                                              *)

\* Keys, versions, endorsements and the chain have their types.
TypeOK ==
  /\ world \in [Audits -> [Fields -> Values \union {Null}]]
  /\ index \in [Devices -> Seq(Audits)]
  /\ auditVer \in [Audits -> Nat]
  /\ indexVer \in [Devices -> Nat]
  /\ status \in [Txs -> {"new", "refused", "endorsed", "valid", "invalid"}]
  /\ endorsed \in [Txs -> Endorsements]
  /\ committed \in Seq(Txs)
  /\ losses \in 0 .. MaxLosses

\* However submissions of one audit overlap, each field of its record is the
\* one the last committed transaction that has the field wrote: no merge based
\* on an old read loses a hash (securityAuditContract.js, _mergeAuditRecord).
FieldsAreLastWritten ==
  \A a \in Audits, f \in Fields :
    /\ Writers(a, f) = {} => world[a][f] = Null
    /\ \A i \in Writers(a, f) :
         (\A j \in Writers(a, f) : j <= i) => world[a][f] = HashesOf[committed[i]][f]

\* However submissions of different audits of one device overlap, its history
\* returns every audit committed for it, once each.
DeviceHistoryComplete ==
  \A d \in Devices :
    /\ GetDeviceAuditHistory(d) =
         {AuditOf[committed[i]] : i \in {j \in 1 .. Len(committed) : DeviceOf[committed[j]] = d}}
    /\ \A i, j \in 1 .. Len(index[d]) : index[d][i] = index[d][j] => i = j

\* Endorsement, ordering, validation and retries implement one merge at a time.
Records == INSTANCE AuditRecords WITH
  hashes <- world,
  listed <- [d \in Devices |-> {a \in Audits : Includes(index[d], a)}]

MergesAtomically == Records!Spec

\* Read conflicts never block a record for good: each conflict lets another
\* transaction through, so every record the contract accepts is committed.
EveryRecordCommits ==
  \A t \in Txs : AuditOf[t] # NoAudit => <>[](status[t] = "valid")
=============================================================================
