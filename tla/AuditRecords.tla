----------------------------- MODULE AuditRecords -----------------------------
(***************************************************************************)
(* What the audit contract promises (securityAuditContract.js): "writes    *)
(* MERGE into whatever already exists for that audit_id rather than        *)
(* overwrite it", one write at a time, and each device lists its audits.   *)
(***************************************************************************)
CONSTANTS Txs, Audits, Devices, Fields, Null, AuditOf, DeviceOf, HashesOf

VARIABLES
  hashes,  \* the hash fields on the ledger, by audit
  listed   \* the audits each device lists

vars == <<hashes, listed>>

Init ==
  /\ hashes = [a \in Audits |-> [f \in Fields |-> Null]]
  /\ listed = [d \in Devices |-> {}]

Merge(t) ==
  /\ AuditOf[t] \in Audits
  /\ hashes' = [hashes EXCEPT ![AuditOf[t]] =
                  [f \in Fields |-> IF HashesOf[t][f] = Null THEN @[f] ELSE HashesOf[t][f]]]
  /\ listed' = [d \in Devices |->
                  IF DeviceOf[t] = d THEN listed[d] \union {AuditOf[t]} ELSE listed[d]]

Next == \E t \in Txs : Merge(t)

Spec == Init /\ [][Next]_vars
=============================================================================
