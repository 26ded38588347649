-------------------------- MODULE AuditLedger_proofs --------------------------
(***************************************************************************)
(* Proofs about AuditLedger, for any submissions, audits, devices and      *)
(* fields.                                                                 *)
(*                                                                         *)
(* The heart is EndorsedIsCurrent: an endorsement whose versions are still *)
(* those of the state holds exactly the merge of the state as it is now.   *)
(* So a transaction that passes validation commits as if it had run the    *)
(* contract at that moment (CommitEffect), and the rest follows.           *)
(***************************************************************************)
EXTENDS AuditLedger, SequenceTheorems, TLAPS

Fresh(t) ==
  /\ AuditOf[t] \in Audits
  /\ endorsed[t].auditVer <= auditVer[AuditOf[t]]
  /\ endorsed[t].auditVer = auditVer[AuditOf[t]] => endorsed[t].hashes = Merged(t)
  /\ DeviceOf[t] # NoDevice =>
       /\ endorsed[t].indexVer <= indexVer[DeviceOf[t]]
       /\ endorsed[t].indexVer = indexVer[DeviceOf[t]] => endorsed[t].audits = Listed(t)

EndorsedIsCurrent == \A t \in Txs : status[t] = "endorsed" => Fresh(t)

\* Only transactions with an audit are committed, and an audit key has been
\* written exactly when one of its transactions has.
ChainOfAudits ==
  /\ \A i \in 1 .. Len(committed) : AuditOf[committed[i]] \in Audits
  /\ \A a \in Audits :
       auditVer[a] > 0 <=> \E i \in 1 .. Len(committed) : AuditOf[committed[i]] = a

\* A device lists an audit exactly when a transaction of both is committed,
\* and lists it once.
IndexOfChain ==
  \A d \in Devices :
    /\ \A a \in Audits : Includes(index[d], a) <=>
         \E i \in 1 .. Len(committed) : AuditOf[committed[i]] = a /\ DeviceOf[committed[i]] = d
    /\ \A i, j \in 1 .. Len(index[d]) : index[d][i] = index[d][j] => i = j

IInv ==
  TypeOK /\ EndorsedIsCurrent /\ FieldsAreLastWritten /\ ChainOfAudits /\ IndexOfChain

-----------------------------------------------------------------------------
\* Appending one element.
LEMMA AppendLemma ==
  ASSUME NEW S, NEW s \in Seq(S), NEW x \in S
  PROVE  /\ Append(s, x) \in Seq(S)
         /\ Len(s) \in Nat
         /\ Len(Append(s, x)) = Len(s) + 1
         /\ \A i \in 1 .. Len(s) : Append(s, x)[i] = s[i]
         /\ Append(s, x)[Len(s) + 1] = x
  BY AppendProperties, LenProperties

\* What an endorsement computes is a record and a list.
LEMMA ContractTypes ==
  ASSUME TypeOK, NEW t \in Txs, AuditOf[t] \in Audits
  PROVE  /\ Merged(t) \in [Fields -> Values \union {Null}]
         /\ DeviceOf[t] \in Devices => Listed(t) \in Seq(Audits)
<1> USE LedgerAssumption
<1>1. Merged(t) \in [Fields -> Values \union {Null}]
  <2>1. \A f \in Fields :
          /\ HashesOf[t][f] \in Values \union {Null}
          /\ world[AuditOf[t]][f] \in Values \union {Null}
    BY DEF TypeOK
  <2>2. QED
    BY <2>1 DEF Merged
<1>2. ASSUME DeviceOf[t] \in Devices PROVE Listed(t) \in Seq(Audits)
  <2>1. index[DeviceOf[t]] \in Seq(Audits)
    BY <1>2 DEF TypeOK
  <2>2. Append(index[DeviceOf[t]], AuditOf[t]) \in Seq(Audits)
    BY <2>1, AppendLemma
  <2>3. QED
    BY <2>1, <2>2 DEF Listed
<1>3. QED
  BY <1>1, <1>2

\* A commit leaves lists and versions of their types.
LEMMA IndexTypes ==
  ASSUME TypeOK, NEW t \in Txs, CommitValid(t)
  PROVE  index' \in [Devices -> Seq(Audits)] /\ indexVer' \in [Devices -> Nat]
<1>1. CASE WritesIndex(t)
  <2>1. DeviceOf[t] \in Devices
    BY <1>1, LedgerAssumption DEF WritesIndex
  <2>2. endorsed[t].audits \in Seq(Audits)
    BY DEF TypeOK, Endorsements
  <2>3. /\ index' = [index EXCEPT ![DeviceOf[t]] = endorsed[t].audits]
        /\ indexVer' = [indexVer EXCEPT ![DeviceOf[t]] = @ + 1]
    BY <1>1 DEF CommitValid
  <2>4. QED
    BY <2>1, <2>2, <2>3 DEF TypeOK
<1>2. CASE ~WritesIndex(t)
  BY <1>2 DEF CommitValid, TypeOK
<1>3. QED
  BY <1>1, <1>2

LEMMA TypeStep ==
  ASSUME TypeOK, [Next]_vars
  PROVE  TypeOK'
<1> USE LedgerAssumption
<1>1. ASSUME NEW t \in Txs, Refuse(t) PROVE TypeOK'
  BY <1>1 DEF Refuse, TypeOK
<1>2. ASSUME NEW t \in Txs, Endorse(t) PROVE TypeOK'
  <2>1. AuditOf[t] \in Audits
    BY <1>2 DEF Endorse
  <2>2. endorsed'[t] \in Endorsements
    <3>1. <<>> \in Seq(Audits)
      BY EmptySeq
    <3>2. auditVer[AuditOf[t]] \in Nat
      BY <2>1 DEF TypeOK
    <3>3. DeviceOf[t] # NoDevice => DeviceOf[t] \in Devices /\ indexVer[DeviceOf[t]] \in Nat
      BY DEF TypeOK
    <3>4. endorsed'[t] =
       [hashes   |-> Merged(t),
        auditVer |-> auditVer[AuditOf[t]],
        audits   |-> IF DeviceOf[t] = NoDevice THEN <<>> ELSE Listed(t),
        indexVer |-> IF DeviceOf[t] = NoDevice THEN 0 ELSE indexVer[DeviceOf[t]]]
      BY <1>2 DEF Endorse, TypeOK
    <3>5. QED
      BY <2>1, <3>1, <3>2, <3>3, <3>4, ContractTypes DEF Endorsements
  <2>3. endorsed' \in [Txs -> Endorsements]
    BY <1>2, <2>2 DEF Endorse, TypeOK
  <2>4. QED
    BY <1>2, <2>3 DEF Endorse, TypeOK
<1>3. ASSUME NEW t \in Txs, CommitValid(t), AuditOf[t] \in Audits PROVE TypeOK'
  <2>1. endorsed[t] \in Endorsements
    BY DEF TypeOK
  <2>2. world' \in [Audits -> [Fields -> Values \union {Null}]]
    BY <1>3, <2>1 DEF CommitValid, TypeOK, Endorsements
  <2>3. auditVer' \in [Audits -> Nat]
    BY <1>3 DEF CommitValid, TypeOK
  <2>4. index' \in [Devices -> Seq(Audits)] /\ indexVer' \in [Devices -> Nat]
    BY <1>3, IndexTypes
  <2>5. committed' \in Seq(Txs)
    BY <1>3, AppendLemma DEF CommitValid, TypeOK
  <2>6. QED
    BY <1>3, <2>2, <2>3, <2>4, <2>5 DEF CommitValid, TypeOK
<1>4. ASSUME NEW t \in Txs, CommitValid(t), AuditOf[t] \notin Audits PROVE TypeOK'
  <2>1. world' = world /\ auditVer' = auditVer
    BY <1>4 DEF CommitValid, TypeOK
  <2>3. index' \in [Devices -> Seq(Audits)] /\ indexVer' \in [Devices -> Nat]
    BY <1>4, IndexTypes
  <2>4. committed' \in Seq(Txs)
    BY <1>4, AppendLemma DEF CommitValid, TypeOK
  <2>5. QED
    BY <1>4, <2>1, <2>3, <2>4 DEF CommitValid, TypeOK
<1>5. ASSUME NEW t \in Txs, CommitInvalid(t) PROVE TypeOK'
  BY <1>5 DEF CommitInvalid, TypeOK
<1>6. ASSUME NEW t \in Txs, Lose(t) PROVE TypeOK'
  BY <1>6 DEF Lose, TypeOK
<1>7. ASSUME NEW t \in Txs, Resubmit(t) PROVE TypeOK'
  BY <1>7 DEF Resubmit, TypeOK
<1>8. ASSUME UNCHANGED vars PROVE TypeOK'
  BY <1>8 DEF vars, TypeOK
<1>9. QED
  BY <1>1, <1>2, <1>3, <1>4, <1>5, <1>6, <1>7, <1>8 DEF Next, Submission, Commit

LEMMA TypeInit == Init => TypeOK
<1> SUFFICES ASSUME Init PROVE TypeOK
  OBVIOUS
<1>1. NoHashes \in [Fields -> Values \union {Null}]
  BY DEF NoHashes
<1>2. <<>> \in Seq(Audits) /\ <<>> \in Seq(Txs)
  BY EmptySeq
<1>3. Nothing \in Endorsements
  BY <1>1, <1>2 DEF Nothing, Endorsements
<1>4. QED
  BY <1>1, <1>2, <1>3, LedgerAssumption DEF Init, TypeOK

-----------------------------------------------------------------------------
\* What a valid commit does to the state: what the contract would do now.
LEMMA CommitEffect ==
  ASSUME TypeOK, EndorsedIsCurrent, NEW t \in Txs, CommitValid(t)
  PROVE  /\ AuditOf[t] \in Audits
         /\ world' = [world EXCEPT ![AuditOf[t]] = Merged(t)]
         /\ auditVer' = [auditVer EXCEPT ![AuditOf[t]] = @ + 1]
         /\ DeviceOf[t] \in Devices =>
              /\ index' = [index EXCEPT ![DeviceOf[t]] = Listed(t)]
              /\ \A d \in Devices : indexVer[d] <= indexVer'[d]
              /\ indexVer'[DeviceOf[t]] = indexVer[DeviceOf[t]] => index' = index
              /\ \A d \in Devices : d # DeviceOf[t] => indexVer'[d] = indexVer[d]
         /\ DeviceOf[t] \notin Devices => index' = index /\ indexVer' = indexVer
<1> USE LedgerAssumption
<1>1. Fresh(t) /\ Current(t)
  BY DEF CommitValid, EndorsedIsCurrent
<1>2. /\ AuditOf[t] \in Audits
      /\ world' = [world EXCEPT ![AuditOf[t]] = Merged(t)]
      /\ auditVer' = [auditVer EXCEPT ![AuditOf[t]] = @ + 1]
  BY <1>1 DEF CommitValid, Fresh, Current
<1>3. ASSUME DeviceOf[t] \in Devices
      PROVE  /\ index' = [index EXCEPT ![DeviceOf[t]] = Listed(t)]
             /\ \A d \in Devices : indexVer[d] <= indexVer'[d]
             /\ indexVer'[DeviceOf[t]] = indexVer[DeviceOf[t]] => index' = index
             /\ \A d \in Devices : d # DeviceOf[t] => indexVer'[d] = indexVer[d]
  <2>1. endorsed[t].audits = Listed(t)
    BY <1>1, <1>3 DEF Fresh, Current
  <2>2. indexVer \in [Devices -> Nat] /\ index \in [Devices -> Seq(Audits)]
    BY DEF TypeOK
  <2>3. CASE WritesIndex(t)
    <3>1. /\ index' = [index EXCEPT ![DeviceOf[t]] = Listed(t)]
          /\ indexVer' = [indexVer EXCEPT ![DeviceOf[t]] = @ + 1]
      BY <2>1, <2>3 DEF CommitValid
    <3>2. QED
      BY <3>1, <2>2, <1>3
  <2>4. CASE ~WritesIndex(t)
    <3>1. index' = index /\ indexVer' = indexVer
      BY <2>4 DEF CommitValid
    <3>2. index[DeviceOf[t]] = Listed(t)
      BY <2>4, <2>1, <1>3 DEF WritesIndex
    <3>3. index = [index EXCEPT ![DeviceOf[t]] = Listed(t)]
      BY <3>2, <2>2
    <3>4. QED
      BY <3>1, <3>3, <2>2
  <2>5. QED
    BY <2>3, <2>4
<1>4. ASSUME DeviceOf[t] \notin Devices PROVE index' = index /\ indexVer' = indexVer
  <2>1. ~WritesIndex(t)
    BY <1>4 DEF WritesIndex
  <2>2. QED
    BY <2>1 DEF CommitValid
<1>5. QED
  BY <1>2, <1>3, <1>4

\* A step that leaves keys and chain alone keeps what the invariant says of
\* them.
LEMMA SameLedger ==
  ASSUME IInv, UNCHANGED <<world, index, auditVer, indexVer, committed>>
  PROVE  FieldsAreLastWritten' /\ ChainOfAudits' /\ IndexOfChain'
  BY DEF IInv, FieldsAreLastWritten, Writers, ChainOfAudits, IndexOfChain, Includes

\* An endorsement stays fresh while keys and versions do not move.
LEMMA FreshKept ==
  ASSUME NEW s \in Txs, Fresh(s), UNCHANGED <<world, index, auditVer, indexVer>>,
         endorsed'[s] = endorsed[s]
  PROVE  Fresh(s)'
  BY DEF Fresh, Merged, Listed, Includes

LEMMA EndorseStep ==
  ASSUME IInv, NEW t \in Txs, Endorse(t)
  PROVE  EndorsedIsCurrent'
<1> USE LedgerAssumption
<1>1. ASSUME NEW s \in Txs, s # t, status'[s] = "endorsed" PROVE Fresh(s)'
  <2>1. status[s] = "endorsed" /\ endorsed'[s] = endorsed[s]
    BY <1>1 DEF Endorse, IInv, TypeOK
  <2>2. Fresh(s)
    BY <2>1 DEF IInv, EndorsedIsCurrent
  <2>3. QED
    BY <2>1, <2>2, FreshKept DEF Endorse
<1>2. Fresh(t)'
  <2>1. endorsed'[t] =
       [hashes   |-> Merged(t),
        auditVer |-> auditVer[AuditOf[t]],
        audits   |-> IF DeviceOf[t] = NoDevice THEN <<>> ELSE Listed(t),
        indexVer |-> IF DeviceOf[t] = NoDevice THEN 0 ELSE indexVer[DeviceOf[t]]]
    BY DEF Endorse, IInv, TypeOK
  <2>2. Merged(t)' = Merged(t) /\ Listed(t)' = Listed(t)
    BY DEF Endorse, Merged, Listed, Includes
  <2>3. AuditOf[t] \in Audits /\ auditVer' = auditVer /\ indexVer' = indexVer
    BY DEF Endorse
  <2>4. auditVer[AuditOf[t]] \in Nat
    BY <2>3 DEF IInv, TypeOK
  <2>5. DeviceOf[t] # NoDevice => indexVer[DeviceOf[t]] \in Nat
    BY DEF IInv, TypeOK
  <2>6. QED
    BY <2>1, <2>2, <2>3, <2>4, <2>5 DEF Fresh
<1>3. QED
  BY <1>1, <1>2 DEF EndorsedIsCurrent

\* A commit moves the versions of what it writes, so the endorsements that
\* read it are no longer current.
LEMMA CommitFresh ==
  ASSUME IInv, NEW t \in Txs, CommitValid(t)
  PROVE  EndorsedIsCurrent'
<1> USE LedgerAssumption
<1>1. SUFFICES ASSUME NEW s \in Txs, status'[s] = "endorsed" PROVE Fresh(s)'
  BY DEF EndorsedIsCurrent
<1>2. s # t /\ status[s] = "endorsed"
  BY <1>1 DEF CommitValid, IInv, TypeOK
<1>3. Fresh(s)
  BY <1>2 DEF IInv, EndorsedIsCurrent
<1>4. /\ AuditOf[t] \in Audits
      /\ world' = [world EXCEPT ![AuditOf[t]] = Merged(t)]
      /\ auditVer' = [auditVer EXCEPT ![AuditOf[t]] = @ + 1]
      /\ DeviceOf[t] \in Devices =>
           /\ index' = [index EXCEPT ![DeviceOf[t]] = Listed(t)]
           /\ \A d \in Devices : indexVer[d] <= indexVer'[d]
           /\ indexVer'[DeviceOf[t]] = indexVer[DeviceOf[t]] => index' = index
           /\ \A d \in Devices : d # DeviceOf[t] => indexVer'[d] = indexVer[d]
      /\ DeviceOf[t] \notin Devices => index' = index /\ indexVer' = indexVer
  BY CommitEffect DEF IInv
<1>5. /\ endorsed' = endorsed
      /\ endorsed[s] \in Endorsements
      /\ auditVer \in [Audits -> Nat] /\ indexVer \in [Devices -> Nat]
      /\ indexVer' \in [Devices -> Nat]
  BY IndexTypes DEF CommitValid, IInv, TypeOK
<1>6. endorsed[s].auditVer \in Nat /\ endorsed[s].indexVer \in Nat
  BY <1>5 DEF Endorsements
<1>7. AuditOf[s] \in Audits
  BY <1>3 DEF Fresh
<1>8. /\ endorsed'[s].auditVer <= auditVer'[AuditOf[s]]
      /\ endorsed'[s].auditVer = auditVer'[AuditOf[s]] => endorsed'[s].hashes = Merged(s)'
  <2>1. CASE AuditOf[s] = AuditOf[t]
    BY <1>3, <1>4, <1>5, <1>6, <2>1 DEF Fresh
  <2>2. CASE AuditOf[s] # AuditOf[t]
    <3>1. auditVer'[AuditOf[s]] = auditVer[AuditOf[s]] /\ world'[AuditOf[s]] = world[AuditOf[s]]
      BY <1>4, <1>5, <1>7, <2>2 DEF IInv, TypeOK
    <3>2. Merged(s)' = Merged(s)
      BY <3>1 DEF Merged
    <3>3. QED
      BY <3>1, <3>2, <1>3, <1>5 DEF Fresh
  <2>3. QED
    BY <2>1, <2>2
<1>9. ASSUME DeviceOf[s] # NoDevice
      PROVE  /\ endorsed'[s].indexVer <= indexVer'[DeviceOf[s]]
             /\ endorsed'[s].indexVer = indexVer'[DeviceOf[s]] => endorsed'[s].audits = Listed(s)'
  <2>1. DeviceOf[s] \in Devices
    BY <1>9
  <2>2. /\ endorsed[s].indexVer <= indexVer[DeviceOf[s]]
        /\ endorsed[s].indexVer = indexVer[DeviceOf[s]] => endorsed[s].audits = Listed(s)
    BY <1>3, <1>9 DEF Fresh
  <2>3. indexVer[DeviceOf[s]] <= indexVer'[DeviceOf[s]]
    BY <1>4, <1>5, <2>1
  <2>4. indexVer[DeviceOf[s]] \in Nat /\ indexVer'[DeviceOf[s]] \in Nat
    BY <1>5, <2>1
  <2>5. indexVer'[DeviceOf[s]] = indexVer[DeviceOf[s]] => index'[DeviceOf[s]] = index[DeviceOf[s]]
    <3>1. CASE DeviceOf[t] = DeviceOf[s]
      BY <1>4, <2>1, <3>1
    <3>2. CASE DeviceOf[t] # DeviceOf[s]
      BY <1>4, <2>1, <3>2 DEF IInv, TypeOK
    <3>3. QED
      BY <3>1, <3>2
  <2>6. index'[DeviceOf[s]] = index[DeviceOf[s]] => Listed(s)' = Listed(s)
    BY DEF Listed, Includes
  <2> DEFINE read == endorsed[s].indexVer
             now  == indexVer[DeviceOf[s]]
             next == indexVer'[DeviceOf[s]]
  <2>7. read \in Nat /\ now \in Nat /\ next \in Nat /\ read <= now /\ now <= next
    BY <2>2, <2>3, <2>4, <1>6
  <2>8. read <= next /\ (read = next => read = now /\ next = now)
    <3> HIDE DEF read, now, next
    <3>1. QED
      BY <2>7
  <2>9. endorsed'[s] = endorsed[s]
    BY <1>5
  <2>10. endorsed[s].indexVer = indexVer'[DeviceOf[s]] => endorsed[s].audits = Listed(s)'
    BY <2>2, <2>5, <2>6, <2>8
  <2>11. QED
    BY <2>8, <2>9, <2>10
<1>10. QED
  BY <1>7, <1>8, <1>9 DEF Fresh
\* The chain after a valid commit.
LEMMA CommitChain ==
  ASSUME TypeOK, NEW t \in Txs, CommitValid(t)
  PROVE  /\ Len(committed) \in Nat
         /\ Len(committed') = Len(committed) + 1
         /\ \A i \in 1 .. Len(committed) : committed'[i] = committed[i]
         /\ committed'[Len(committed) + 1] = t
         /\ 1 .. Len(committed') = (1 .. Len(committed)) \union {Len(committed) + 1}
<1>1. committed' = Append(committed, t) /\ committed \in Seq(Txs)
  BY DEF CommitValid, TypeOK
<1>2. /\ Len(committed) \in Nat
      /\ Len(committed') = Len(committed) + 1
      /\ \A i \in 1 .. Len(committed) : committed'[i] = committed[i]
      /\ committed'[Len(committed) + 1] = t
  BY <1>1, AppendLemma
<1>3. QED
  BY <1>2

\* The writers of a field after a valid commit: those before it, and the new
\* transaction when it has the field.
LEMMA CommitWriters ==
  ASSUME TypeOK, NEW t \in Txs, CommitValid(t), NEW a \in Audits, NEW f \in Fields
  PROVE  /\ AuditOf[t] = a /\ HashesOf[t][f] # Null =>
              Writers(a, f)' = Writers(a, f) \union {Len(committed) + 1}
         /\ ~(AuditOf[t] = a /\ HashesOf[t][f] # Null) => Writers(a, f)' = Writers(a, f)
  BY CommitChain DEF Writers

LEMMA CommitFields ==
  ASSUME IInv, NEW t \in Txs, CommitValid(t)
  PROVE  FieldsAreLastWritten'
<1> USE LedgerAssumption
<1>1. SUFFICES ASSUME NEW a \in Audits, NEW f \in Fields
               PROVE  /\ Writers(a, f)' = {} => world'[a][f] = Null
                      /\ \A i \in Writers(a, f)' :
                           (\A j \in Writers(a, f)' : j <= i) =>
                              world'[a][f] = HashesOf[committed'[i]][f]
  BY DEF FieldsAreLastWritten
<1>2. TypeOK /\ EndorsedIsCurrent
  BY DEF IInv
<1>3. /\ AuditOf[t] \in Audits
      /\ world' = [world EXCEPT ![AuditOf[t]] = Merged(t)]
  BY <1>2, CommitEffect
<1>4. /\ Writers(a, f) = {} => world[a][f] = Null
      /\ \A i \in Writers(a, f) :
           (\A j \in Writers(a, f) : j <= i) => world[a][f] = HashesOf[committed[i]][f]
  BY DEF IInv, FieldsAreLastWritten
<1>5. Writers(a, f) \subseteq 1 .. Len(committed)
  BY DEF Writers
<1>6. CASE AuditOf[t] = a /\ HashesOf[t][f] # Null
  <2>1. Writers(a, f)' = Writers(a, f) \union {Len(committed) + 1}
    BY <1>2, <1>6, CommitWriters
  <2>2. world'[a][f] = HashesOf[t][f]
    BY <1>2, <1>3, <1>6 DEF Merged, TypeOK
  <2>3. ASSUME NEW i \in Writers(a, f)', \A j \in Writers(a, f)' : j <= i
        PROVE  committed'[i] = t
    <3>1. Len(committed) + 1 <= i
      BY <2>1, <2>3
    <3>2. i = Len(committed) + 1
      BY <3>1, <2>1, <2>3, <1>2, <1>5, CommitChain
    <3>3. QED
      BY <3>2, <1>2, CommitChain
  <2>4. QED
    BY <2>1, <2>2, <2>3
<1>7. CASE ~(AuditOf[t] = a /\ HashesOf[t][f] # Null)
  <2>1. Writers(a, f)' = Writers(a, f)
    BY <1>2, <1>7, CommitWriters
  <2>2. world'[a][f] = world[a][f]
    BY <1>2, <1>3, <1>7 DEF Merged, TypeOK
  <2>3. \A i \in Writers(a, f) : committed'[i] = committed[i]
    BY <1>2, <1>5, CommitChain
  <2>4. QED
    BY <2>1, <2>2, <2>3, <1>4
<1>8. QED
  BY <1>6, <1>7

LEMMA CommitChainOfAudits ==
  ASSUME IInv, NEW t \in Txs, CommitValid(t)
  PROVE  ChainOfAudits'
<1>1. TypeOK /\ EndorsedIsCurrent /\ ChainOfAudits
  BY DEF IInv
<1>2. AuditOf[t] \in Audits /\ auditVer' = [auditVer EXCEPT ![AuditOf[t]] = @ + 1]
  BY <1>1, CommitEffect
<1>3. \A i \in 1 .. Len(committed') : AuditOf[committed'[i]] \in Audits
  BY <1>1, <1>2, CommitChain DEF ChainOfAudits
<1>4. ASSUME NEW a \in Audits
      PROVE  auditVer'[a] > 0 <=> \E i \in 1 .. Len(committed') : AuditOf[committed'[i]] = a
  <2>1. auditVer[a] \in Nat
    BY <1>1 DEF TypeOK
  <2>2. auditVer[a] > 0 <=> \E i \in 1 .. Len(committed) : AuditOf[committed[i]] = a
    BY <1>1 DEF ChainOfAudits
  <2>3. CASE a = AuditOf[t]
    <3>1. auditVer'[a] > 0
      BY <1>1, <1>2, <2>1, <2>3 DEF TypeOK
    <3>2. QED
      BY <3>1, <1>1, <2>3, CommitChain
  <2>4. CASE a # AuditOf[t]
    <3>1. auditVer'[a] = auditVer[a]
      BY <1>1, <1>2, <2>4 DEF TypeOK
    <3>2. QED
      BY <3>1, <1>1, <2>2, <2>4, CommitChain
  <2>5. QED
    BY <2>3, <2>4
<1>5. QED
  BY <1>3, <1>4 DEF ChainOfAudits

\* Listing an audit adds it, and only it, and adds it once.
LEMMA ListedLemma ==
  ASSUME TypeOK, NEW t \in Txs, AuditOf[t] \in Audits, DeviceOf[t] \in Devices,
         \A i, j \in 1 .. Len(index[DeviceOf[t]]) :
           index[DeviceOf[t]][i] = index[DeviceOf[t]][j] => i = j
  PROVE  /\ \A a \in Audits :
              Includes(Listed(t), a) <=> Includes(index[DeviceOf[t]], a) \/ a = AuditOf[t]
         /\ \A i, j \in 1 .. Len(Listed(t)) : Listed(t)[i] = Listed(t)[j] => i = j
<1> DEFINE s == index[DeviceOf[t]]
<1>1. s \in Seq(Audits)
  BY DEF TypeOK
<1>2. CASE Includes(s, AuditOf[t])
  BY <1>2 DEF Listed
<1>3. CASE ~Includes(s, AuditOf[t])
  <2> DEFINE r == Append(s, AuditOf[t])
  <2>1. Listed(t) = r
    BY <1>3 DEF Listed
  <2>2. /\ Len(s) \in Nat /\ Len(r) = Len(s) + 1
        /\ \A i \in 1 .. Len(s) : r[i] = s[i]
        /\ r[Len(s) + 1] = AuditOf[t]
    BY <1>1, AppendLemma
  <2> HIDE DEF r, s
  <2>3. \A a \in Audits : Includes(r, a) <=> Includes(s, a) \/ a = AuditOf[t]
    BY <2>2 DEF Includes
  <2>4. \A i \in 1 .. Len(s) : s[i] # AuditOf[t]
    BY <1>3 DEF Includes
  <2>5. \A i, j \in 1 .. Len(s) : s[i] = s[j] => i = j
    BY DEF s
  <2>6. \A i, j \in 1 .. Len(r) : r[i] = r[j] => i = j
    BY <2>2, <2>4, <2>5
  <2>7. QED
    BY <2>1, <2>3, <2>6 DEF s
<1>4. QED
  BY <1>2, <1>3

LEMMA CommitIndex ==
  ASSUME IInv, NEW t \in Txs, CommitValid(t)
  PROVE  IndexOfChain'
<1> USE LedgerAssumption
<1>1. TypeOK /\ EndorsedIsCurrent /\ IndexOfChain
  BY DEF IInv
<1>2. /\ AuditOf[t] \in Audits
      /\ DeviceOf[t] \in Devices => index' = [index EXCEPT ![DeviceOf[t]] = Listed(t)]
      /\ DeviceOf[t] \notin Devices => index' = index
  BY <1>1, CommitEffect
<1>3. SUFFICES ASSUME NEW d \in Devices
               PROVE  /\ \A a \in Audits : Includes(index'[d], a) <=>
                           \E i \in 1 .. Len(committed') :
                             AuditOf[committed'[i]] = a /\ DeviceOf[committed'[i]] = d
                      /\ \A i, j \in 1 .. Len(index'[d]) : index'[d][i] = index'[d][j] => i = j
  BY DEF IndexOfChain, Includes
<1>4. /\ \A a \in Audits : Includes(index[d], a) <=>
           \E i \in 1 .. Len(committed) :
             AuditOf[committed[i]] = a /\ DeviceOf[committed[i]] = d
      /\ \A i, j \in 1 .. Len(index[d]) : index[d][i] = index[d][j] => i = j
  BY <1>1 DEF IndexOfChain
<1>5. CASE d = DeviceOf[t]
  <2>1. index'[d] = Listed(t)
    BY <1>1, <1>2, <1>5 DEF TypeOK
  <2>2. /\ \A a \in Audits : Includes(index'[d], a) <=> Includes(index[d], a) \/ a = AuditOf[t]
        /\ \A i, j \in 1 .. Len(index'[d]) : index'[d][i] = index'[d][j] => i = j
    BY <1>1, <1>2, <1>4, <1>5, <2>1, ListedLemma
  <2>3. QED
    BY <2>2, <1>1, <1>4, <1>5, CommitChain
<1>6. CASE d # DeviceOf[t]
  <2>1. index'[d] = index[d]
    BY <1>1, <1>2, <1>6 DEF TypeOK
  <2>2. QED
    BY <2>1, <1>1, <1>4, <1>6, CommitChain
<1>7. QED
  BY <1>5, <1>6

-----------------------------------------------------------------------------
LEMMA IInvInit == Init => IInv
<1> SUFFICES ASSUME Init PROVE IInv
  OBVIOUS
<1>1. TypeOK
  BY TypeInit
<1>2. Len(committed) = 0 /\ \A d \in Devices : Len(index[d]) = 0
  BY EmptySeq DEF Init
<1>3. EndorsedIsCurrent
  BY DEF Init, EndorsedIsCurrent
<1>4. FieldsAreLastWritten
  BY <1>2 DEF Init, FieldsAreLastWritten, Writers, NoHashes
<1>5. ChainOfAudits /\ IndexOfChain
  BY <1>2 DEF Init, ChainOfAudits, IndexOfChain, Includes
<1>6. QED
  BY <1>1, <1>3, <1>4, <1>5 DEF IInv

LEMMA IInvStep ==
  ASSUME IInv, [Next]_vars
  PROVE  IInv'
<1>1. TypeOK'
  BY TypeStep DEF IInv
<1>2. ASSUME NEW t \in Txs, Endorse(t) PROVE IInv'
  BY <1>1, <1>2, EndorseStep, SameLedger DEF IInv, Endorse
<1>3. ASSUME NEW t \in Txs, CommitValid(t) PROVE IInv'
  BY <1>1, <1>3, CommitFresh, CommitFields, CommitChainOfAudits, CommitIndex DEF IInv
<1>4. ASSUME UNCHANGED <<world, index, auditVer, indexVer, committed, endorsed>>,
             \A s \in Txs : status'[s] = "endorsed" => status[s] = "endorsed"
      PROVE  IInv'
  <2>1. EndorsedIsCurrent'
    BY <1>4, FreshKept DEF IInv, EndorsedIsCurrent
  <2>2. QED
    BY <1>1, <1>4, <2>1, SameLedger DEF IInv
<1>5. ASSUME NEW t \in Txs, Refuse(t) \/ CommitInvalid(t) \/ Lose(t) \/ Resubmit(t)
      PROVE  IInv'
  BY <1>4, <1>5 DEF IInv, TypeOK, Refuse, CommitInvalid, Lose, Resubmit
<1>6. ASSUME UNCHANGED vars PROVE IInv'
  BY <1>4, <1>6 DEF vars
<1>7. QED
  BY <1>2, <1>3, <1>5, <1>6 DEF Next, Submission, Commit

LEMMA Inductive == Spec => []IInv
<1>1. IInv /\ [Next]_vars => IInv'
  BY IInvStep
<1>2. QED
  BY IInvInit, <1>1, PTL DEF Spec

\* Type correctness of keys, versions, endorsements and chain.
THEOREM TypeCorrect == Spec => []TypeOK
<1>1. IInv => TypeOK
  BY DEF IInv
<1>2. QED
  BY <1>1, Inductive, PTL

\* No hash field is lost or taken from an older write, however the submissions
\* of an audit overlap: _mergeAuditRecord under Fabric's validation.
THEOREM NoFieldLost == Spec => []FieldsAreLastWritten
<1>1. IInv => FieldsAreLastWritten
  BY DEF IInv
<1>2. QED
  BY <1>1, Inductive, PTL

\* A device's history returns each audit committed for it, once.
THEOREM HistoryComplete == Spec => []DeviceHistoryComplete
<1>1. IInv => DeviceHistoryComplete
  <2>1. SUFFICES ASSUME IInv, NEW d \in Devices
                 PROVE  GetDeviceAuditHistory(d) =
                   {AuditOf[committed[i]] :
                      i \in {j \in 1 .. Len(committed) : DeviceOf[committed[j]] = d}}
    BY DEF DeviceHistoryComplete, IInv, IndexOfChain
  <2>2. \A a \in Audits : Includes(index[d], a) <=>
          \E i \in 1 .. Len(committed) :
            AuditOf[committed[i]] = a /\ DeviceOf[committed[i]] = d
    BY <2>1 DEF IInv, IndexOfChain
  <2>3. \A i \in 1 .. Len(committed) : AuditOf[committed[i]] \in Audits
    BY <2>1 DEF IInv, ChainOfAudits
  <2>4. \A a \in Audits :
          (\E i \in 1 .. Len(committed) : AuditOf[committed[i]] = a) => auditVer[a] > 0
    BY <2>1 DEF IInv, ChainOfAudits
  <2>5. QED
    BY <2>2, <2>3, <2>4 DEF GetDeviceAuditHistory
<1>2. QED
  BY <1>1, Inductive, PTL

\* Endorse-order-validate implements one atomic merge per valid transaction.
THEOREM AtomicMerges == Spec => MergesAtomically
<1> USE LedgerAssumption
<1> DEFINE lst == [d \in Devices |-> {a \in Audits : Includes(index[d], a)}]
<1>1. Init => Records!Init
  <2>1. SUFFICES ASSUME Init PROVE Records!Init
    OBVIOUS
  <2>2. \A d \in Devices : Len(index[d]) = 0
    BY <2>1, EmptySeq DEF Init
  <2>3. lst = [d \in Devices |-> {}]
    BY <2>2 DEF Includes
  <2>4. QED
    BY <2>1, <2>3 DEF Init, Records!Init, NoHashes
<1>2. IInv /\ [Next]_vars => [Records!Next]_(Records!vars)
  <2>1. SUFFICES ASSUME IInv, [Next]_vars PROVE [Records!Next]_(Records!vars)
    OBVIOUS
  <2>2. ASSUME NEW t \in Txs, CommitValid(t) PROVE Records!Merge(t)
    <3>1. TypeOK /\ EndorsedIsCurrent /\ IndexOfChain
      BY <2>1 DEF IInv
    <3>2. /\ AuditOf[t] \in Audits
          /\ world' = [world EXCEPT ![AuditOf[t]] = Merged(t)]
          /\ DeviceOf[t] \in Devices => index' = [index EXCEPT ![DeviceOf[t]] = Listed(t)]
          /\ DeviceOf[t] \notin Devices => index' = index
      BY <2>2, <3>1, CommitEffect
    <3>3. world' = [world EXCEPT ![AuditOf[t]] =
             [f \in Fields |-> IF HashesOf[t][f] = Null THEN @[f] ELSE HashesOf[t][f]]]
      BY <3>1, <3>2 DEF Merged, TypeOK
    <3>4. ASSUME NEW d \in Devices
          PROVE  {a \in Audits : Includes(index'[d], a)} =
                 IF DeviceOf[t] = d THEN {a \in Audits : Includes(index[d], a)} \union {AuditOf[t]}
                 ELSE {a \in Audits : Includes(index[d], a)}
      <4>1. CASE d = DeviceOf[t]
        <5>1. index'[d] = Listed(t)
          BY <3>1, <3>2, <4>1 DEF TypeOK
        <5>2. \A a \in Audits :
                Includes(index'[d], a) <=> Includes(index[d], a) \/ a = AuditOf[t]
          BY <3>1, <3>2, <4>1, <5>1, ListedLemma DEF IndexOfChain
        <5>3. QED
          BY <3>2, <4>1, <5>2
      <4>2. CASE d # DeviceOf[t]
        <5>1. index'[d] = index[d]
          BY <3>1, <3>2, <4>2 DEF TypeOK
        <5>2. QED
          BY <4>2, <5>1
      <4>3. QED
        BY <4>1, <4>2
    <3>5. lst' = [d \in Devices |->
                    IF DeviceOf[t] = d THEN lst[d] \union {AuditOf[t]} ELSE lst[d]]
      BY <3>4 DEF Includes
    <3>6. QED
      BY <3>2, <3>3, <3>5 DEF Records!Merge
  <2>3. ASSUME UNCHANGED <<world, index>> PROVE UNCHANGED Records!vars
    BY <2>3 DEF Records!vars, Includes
  <2>4. ASSUME NEW t \in Txs,
               Refuse(t) \/ Endorse(t) \/ CommitInvalid(t) \/ Lose(t) \/ Resubmit(t)
        PROVE  UNCHANGED <<world, index>>
    BY <2>4 DEF Refuse, Endorse, CommitInvalid, Lose, Resubmit
  <2>5. ASSUME UNCHANGED vars PROVE UNCHANGED <<world, index>>
    BY <2>5 DEF vars
  <2>6. QED
    BY <2>1, <2>2, <2>3, <2>4, <2>5 DEF Next, Submission, Commit, Records!Next
<1>3. QED
  BY <1>1, <1>2, Inductive, PTL DEF Spec, Records!Spec, MergesAtomically
=============================================================================
