-------------------------- MODULE Provenance_proofs --------------------------
(***************************************************************************)
(* Proofs about Provenance, for any number of calls and events, any batch  *)
(* size and any number of faults and crashes.                              *)
(*                                                                         *)
(* IInv is what makes ConfirmedIsOnLedger inductive: a coroutine about to  *)
(* confirm holds the position of a commit of the very args it submitted.   *)
(***************************************************************************)
EXTENDS Provenance, SequenceTheorems, TLAPS

\* The coroutines stay in their own phases, and a worker that is not asleep
\* has an item in hand.
PhasesOK ==
  /\ \A c \in Calls : pc[c] \in CallPhases
  /\ pc[Worker] \in WorkerPhases
  /\ pc[Worker] # "sleep" => batch # <<>>

\* A commit a coroutine holds is on the ledger and is of what it submitted.
HoldsOwnCommit ==
  \A p \in Actors :
    /\ pc[p] = "confirm" => txid[p] # 0
    /\ txid[p] # 0 => /\ pc[p] \in {"submit", "confirm"}
                      /\ txid[p] \in 1 .. Len(ledger)
                      /\ ledger[txid[p]] = Args(p)

IInv == TypeOK /\ PhasesOK /\ HoldsOwnCommit /\ ConfirmedIsOnLedger

-----------------------------------------------------------------------------
\* Taking the i-th element out of a sequence.
LEMMA RemoveAtLemma ==
  ASSUME NEW S, NEW s \in Seq(S), NEW i \in 1 .. Len(s)
  PROVE  /\ RemoveAt(s, i) \in Seq(S)
         /\ Len(RemoveAt(s, i)) = Len(s) - 1
         /\ \A j \in 1 .. Len(s) - 1 :
              RemoveAt(s, i)[j] = IF j < i THEN s[j] ELSE s[j + 1]
<1> DEFINE l == SubSeq(s, 1, i - 1)
           r == SubSeq(s, i + 1, Len(s))
<1>1. l \in Seq(S) /\ Len(l) = i - 1 /\ \A j \in 1 .. i - 1 : l[j] = s[j]
  BY SubSeqProperties, LenProperties
<1>2. r \in Seq(S) /\ Len(r) = Len(s) - i /\ \A j \in 1 .. Len(s) - i : r[j] = s[i + j]
  BY SubSeqProperties, LenProperties
<1>3. RemoveAt(s, i) = l \o r
  BY DEF RemoveAt
<1> HIDE DEF l, r
<1>4. /\ l \o r \in Seq(S)
      /\ Len(l \o r) = Len(l) + Len(r)
      /\ \A j \in 1 .. Len(l) + Len(r) :
           (l \o r)[j] = IF j <= Len(l) THEN l[j] ELSE r[j - Len(l)]
  BY <1>1, <1>2, ConcatProperties
<1>5. Len(s) \in Nat
  BY LenProperties
<1>6. ASSUME NEW j \in 1 .. Len(s) - 1
      PROVE  (l \o r)[j] = IF j < i THEN s[j] ELSE s[j + 1]
  <2>1. CASE j < i
    BY <2>1, <1>1, <1>2, <1>4, <1>5
  <2>2. CASE j >= i
    <3>1. j - (i - 1) \in 1 .. Len(s) - i
      BY <2>2, <1>5
    <3>2. r[j - (i - 1)] = s[i + (j - (i - 1))]
      BY <3>1, <1>2
    <3>3. (l \o r)[j] = r[j - (i - 1)]
      BY <2>2, <1>1, <1>2, <1>4, <1>5
    <3>4. i + (j - (i - 1)) = j + 1
      BY <1>5
    <3>5. QED
      BY <2>2, <3>2, <3>3, <3>4, <1>5
  <2>3. j < i \/ j >= i
    BY <1>5
  <2>4. QED
    BY <2>1, <2>2, <2>3
<1>7. QED
  BY <1>1, <1>2, <1>3, <1>4, <1>5, <1>6

\* Every element of the tail, of a prefix, and of a sequence with an element
\* taken out is an element of the sequence.
LEMMA ElementsLemma ==
  ASSUME NEW S, NEW s \in Seq(S)
  PROVE  /\ s # <<>> => /\ Len(s) \in Nat /\ Len(s) > 0
                        /\ Head(s) = s[1] /\ Head(s) \in S
                        /\ Tail(s) \in Seq(S)
                        /\ Len(Tail(s)) = Len(s) - 1
                        /\ \A j \in 1 .. Len(s) - 1 : Tail(s)[j] = s[j + 1]
         /\ \A n \in 0 .. Len(s) : /\ SubSeq(s, 1, n) \in Seq(S)
                                   /\ Len(SubSeq(s, 1, n)) = n
                                   /\ \A j \in 1 .. n : SubSeq(s, 1, n)[j] = s[j]
<1>1. s # <<>> => /\ Len(s) \in Nat /\ Len(s) > 0
                  /\ Head(s) = s[1] /\ Head(s) \in S
                  /\ Tail(s) \in Seq(S)
                  /\ Len(Tail(s)) = Len(s) - 1
                  /\ \A j \in 1 .. Len(s) - 1 : Tail(s)[j] = s[j + 1]
  BY HeadTailProperties, LenProperties, ElementOfSeq, EmptySeq
<1>2. \A n \in 0 .. Len(s) : /\ SubSeq(s, 1, n) \in Seq(S)
                             /\ Len(SubSeq(s, 1, n)) = n
                             /\ \A j \in 1 .. n : SubSeq(s, 1, n)[j] = s[j]
  BY SubSeqProperties, LenProperties
<1>3. QED
  BY <1>1, <1>2

-----------------------------------------------------------------------------
(* Type correctness                                                        *)

TypeInv == TypeOK /\ PhasesOK

\* What a busy coroutine submits is the argument list of some call.
LEMMA ArgsType ==
  ASSUME TypeInv, NEW p \in Actors, pc[p] \notin {"idle", "sleep"}
  PROVE  Args(p) \in Calls /\ EventOf[Args(p)] \in Events
<1>1. CASE p = Worker
  <2>1. batch # <<>> /\ batch \in Seq(Calls)
    BY <1>1 DEF TypeInv, TypeOK, PhasesOK
  <2>2. Head(batch) \in Calls
    BY <2>1, ElementsLemma
  <2>3. QED
    BY <1>1, <2>2, ProvenanceAssumption DEF Args
<1>2. CASE p # Worker
  BY <1>2, ProvenanceAssumption DEF Args, Actors
<1>3. QED
  BY <1>1, <1>2

\* After the item in hand the worker has a next one, or sleeps.
LEMMA NextItemLemma ==
  ASSUME TypeInv, pc[Worker] \in {"delete", "bump"}, NextItem
  PROVE  /\ batch' \in Seq(Calls)
         /\ pc' \in [Actors -> CallPhases \union WorkerPhases]
         /\ PhasesOK'
         /\ \A j \in 1 .. Len(batch') : j + 1 \in 1 .. Len(batch) /\ batch'[j] = batch[j + 1]
<1>1. batch \in Seq(Calls) /\ batch # <<>>
  BY DEF TypeInv, TypeOK, PhasesOK
<1>2. /\ Len(batch) \in Nat /\ Len(batch) > 0
      /\ Tail(batch) \in Seq(Calls)
      /\ Len(Tail(batch)) = Len(batch) - 1
      /\ \A j \in 1 .. Len(batch) - 1 : Tail(batch)[j] = batch[j + 1]
  BY <1>1, ElementsLemma
<1>3. Len(batch) # 1 => Tail(batch) # <<>>
  <2>1. SUFFICES ASSUME Tail(batch) = <<>> PROVE Len(batch) = 1
    OBVIOUS
  <2>2. Len(Tail(batch)) = Len(<<>>)
    BY <2>1, Zenon
  <2>3. Len(<<>>) = 0
    BY EmptySeq
  <2>4. Len(batch) - 1 = 0 /\ Len(batch) \in Nat
    BY <1>2, <2>2, <2>3, Zenon
  <2>5. QED
    BY <2>4
<1>4. pc' \in [Actors -> CallPhases \union WorkerPhases]
  BY DEF NextItem, TypeInv, TypeOK, WorkerPhases
<1>5. PhasesOK'
  BY <1>3, ProvenanceAssumption
  DEF NextItem, TypeInv, TypeOK, PhasesOK, Actors, WorkerPhases
<1>6. QED
  BY <1>2, <1>4, <1>5 DEF NextItem

\* No step leaves the types: in particular the worker never reaches for an
\* item its snapshot does not have.
LEMMA TypeStep ==
  ASSUME TypeInv, [Next]_vars
  PROVE  TypeInv'
<1> USE ProvenanceAssumption
<1> USE DEF TypeInv
<1>1. ASSUME NEW c \in Calls, ReturnIdempotent(c) PROVE TypeInv'
  BY <1>1 DEF ReturnIdempotent, TypeOK, PhasesOK, CallPhases, Actors
<1>2. ASSUME NEW c \in Calls, StartSubmit(c) PROVE TypeInv'
  BY <1>2 DEF StartSubmit, TypeOK, PhasesOK, CallPhases, Actors
<1>3. ASSUME NEW c \in Calls, WriteConfirmed(c) PROVE TypeInv'
  BY <1>3 DEF WriteConfirmed, TypeOK, TxDocs, PhasesOK, CallPhases, Actors
<1>4. ASSUME NEW c \in Calls, WritePending(c) PROVE TypeInv'
  BY <1>4 DEF WritePending, TypeOK, TxDocs, PhasesOK, CallPhases, Actors
<1>5. ASSUME NEW c \in Calls, Enqueue(c) PROVE TypeInv'
  <2>1. queue' \in Seq(Calls)
    <3>1. CASE Queued(EventOf[c])
      <4>1. PICK i \in ItemsOf(EventOf[c]) : queue' = [queue EXCEPT ![i] = c]
        BY <1>5, <3>1 DEF Enqueue
      <4>2. i \in 1 .. Len(queue)
        BY <4>1 DEF ItemsOf
      <4>3. QED
        BY <4>1, <4>2, ExceptSeq DEF TypeOK
    <3>2. CASE ~Queued(EventOf[c])
      <4>1. queue \in Seq(Calls) /\ queue' = Append(queue, c)
        BY <1>5, <3>2 DEF Enqueue, TypeOK
      <4>2. Append(queue, c) \in Seq(Calls)
        BY <4>1, AppendProperties
      <4>3. QED
        BY <4>1, <4>2
    <3>3. QED
      BY <3>1, <3>2
  <2>2. QED
    BY <1>5, <2>1 DEF Enqueue, TypeOK, PhasesOK, CallPhases, Actors
<1>6. ASSUME FetchBatch PROVE TypeInv'
  <2>1. PICK n \in 1 .. Len(queue) : batch' = SubSeq(queue, 1, n)
    <3>1. Len(queue) \in Nat /\ Len(queue) > 0
      BY <1>6, ElementsLemma DEF FetchBatch, TypeOK
    <3>2. QED
      BY <1>6, <3>1 DEF FetchBatch
  <2>2. /\ batch' \in Seq(Calls)
        /\ Len(batch') = n
    BY <2>1, ElementsLemma, LenProperties DEF TypeOK
  <2>3. batch' # <<>>
    BY <2>2, EmptySeq
  <2>4. QED
    BY <1>6, <2>2, <2>3 DEF FetchBatch, TypeOK, PhasesOK, WorkerPhases, Actors
<1>7. ASSUME ConfirmItem PROVE TypeInv'
  <2>1. ItemEvent \in Events
    BY <1>7, ArgsType DEF ConfirmItem, Args, ItemEvent, Actors
  <2>2. tx' \in [Events -> TxDocs]
    BY <1>7, <2>1 DEF ConfirmItem, TypeOK, TxDocs, Actors
  <2>3. QED
    BY <1>7, <2>2 DEF ConfirmItem, TypeOK, PhasesOK, WorkerPhases, Actors
<1>8. ASSUME DeleteItem PROVE TypeInv'
  <2>1. queue' \in Seq(Calls)
    <3>1. CASE Queued(ItemEvent)
      <4>1. PICK i \in ItemsOf(ItemEvent) : queue' = RemoveAt(queue, i)
        BY <1>8, <3>1 DEF DeleteItem
      <4>2. QED
        BY <4>1, RemoveAtLemma DEF ItemsOf, TypeOK
    <3>2. CASE ~Queued(ItemEvent)
      BY <1>8, <3>2 DEF DeleteItem, TypeOK
    <3>3. QED
      BY <3>1, <3>2
  <2>2. QED
    BY <1>8, <2>1, NextItemLemma DEF DeleteItem, TypeOK
<1>9. ASSUME BumpItem PROVE TypeInv'
  BY <1>9, NextItemLemma DEF BumpItem, TypeOK
<1>10. ASSUME NEW p \in Actors, CommitSubmission(p) PROVE TypeInv'
  <2>1. Args(p) \in Calls
    BY <1>10, ArgsType DEF CommitSubmission
  <2>2. ledger' \in Seq(Calls) /\ Len(ledger) + 1 \in Nat
    BY <1>10, <2>1, AppendProperties, LenProperties DEF CommitSubmission, TypeOK
  <2>3. QED
    BY <1>10, <2>2 DEF CommitSubmission, TypeOK, PhasesOK
<1>11. ASSUME NEW p \in Actors, Acknowledge(p) PROVE TypeInv'
  BY <1>11 DEF Acknowledge, TypeOK, PhasesOK, CallPhases, WorkerPhases, Actors
<1>12. ASSUME NEW p \in Actors, Refuse(p) PROVE TypeInv'
  BY <1>12 DEF Refuse, Unavailable, TypeOK, PhasesOK, CallPhases, WorkerPhases, Actors
<1>13. ASSUME NEW p \in Actors, GiveUp(p) PROVE TypeInv'
  <2>1. Args(p) \in Calls
    BY <1>13, ArgsType DEF GiveUp
  <2>2. stray' \in [Calls -> Nat]
    BY <1>13, <2>1 DEF GiveUp, TypeOK
  <2>3. /\ pc' \in [Actors -> CallPhases \union WorkerPhases] /\ PhasesOK'
    BY <1>13 DEF GiveUp, Unavailable, TypeOK, PhasesOK, CallPhases, WorkerPhases, Actors
  <2>4. txid' \in [Actors -> Nat] /\ faults' \in 0 .. MaxFaults
    BY <1>13 DEF GiveUp, Unavailable, TypeOK
  <2>5. UNCHANGED <<tx, queue, ledger, batch, crashes>>
    BY <1>13 DEF GiveUp
  <2>6. QED
    BY <2>2, <2>3, <2>4, <2>5 DEF TypeOK
<1>14. ASSUME NEW c \in Calls, StrayCommit(c) PROVE TypeInv'
  BY <1>14, AppendProperties DEF StrayCommit, TypeOK, PhasesOK
<1>15. ASSUME NEW c \in Calls, StrayVanish(c) PROVE TypeInv'
  BY <1>15 DEF StrayVanish, TypeOK, PhasesOK
<1>16. ASSUME NEW p \in Actors, Abort(p) PROVE TypeInv'
  BY <1>16, EmptySeq DEF Abort, TypeOK, PhasesOK, CallPhases, WorkerPhases, Actors
<1>17. ASSUME Crash PROVE TypeInv'
  <2>1. stray' \in [Calls -> Nat]
    BY <1>17 DEF Crash, TypeOK
  <2>2. pc' \in [Actors -> CallPhases \union WorkerPhases] /\ PhasesOK'
    BY <1>17 DEF Crash, Busy, TypeOK, PhasesOK, CallPhases, WorkerPhases, Actors
  <2>3. batch' \in Seq(Calls) /\ crashes' \in 0 .. MaxCrashes
    BY <1>17, EmptySeq DEF Crash, TypeOK
  <2>4. QED
    BY <1>17, <2>1, <2>2, <2>3 DEF Crash, TypeOK
<1>18. CASE UNCHANGED vars
  BY <1>18 DEF vars, TypeOK, PhasesOK
<1>19. QED
  BY <1>1, <1>2, <1>3, <1>4, <1>5, <1>6, <1>7, <1>8, <1>9, <1>10, <1>11, <1>12,
     <1>13, <1>14, <1>15, <1>16, <1>17, <1>18
  DEF Next, CallStep, WorkerStep, GatewayStep

LEMMA TypeInit == Init => TypeInv
  BY ProvenanceAssumption, EmptySeq
  DEF Init, TypeInv, TypeOK, PhasesOK, TxDocs, NoTx, CallPhases, WorkerPhases, Actors

\* Type correctness: documents, queue, ledger and coroutines keep their types
\* through every interleaving, fault and crash.
THEOREM TypeCorrect == Spec => []TypeOK
<1>1. TypeInv /\ [Next]_vars => TypeInv'
  BY TypeStep
<1>2. TypeInv => TypeOK
  BY DEF TypeInv
<1>3. QED
  BY TypeInit, <1>1, <1>2, PTL DEF Spec

-----------------------------------------------------------------------------
(* What is CONFIRMED is on the ledger                                      *)

\* Appending to the ledger keeps what it has and ends with the new commit.
LEMMA AppendLemma ==
  ASSUME NEW S, NEW s \in Seq(S), NEW e \in S
  PROVE  /\ Len(s) \in Nat
         /\ Append(s, e) \in Seq(S)
         /\ Len(Append(s, e)) = Len(s) + 1
         /\ \A i \in 1 .. Len(s) : Append(s, e)[i] = s[i]
         /\ Append(s, e)[Len(s) + 1] = e
BY AppendProperties, LenProperties

LedgerKept ==
  /\ Len(ledger) \in Nat
  /\ Len(ledger') \in Nat
  /\ Len(ledger) <= Len(ledger')
  /\ \A i \in 1 .. Len(ledger) : ledger'[i] = ledger[i]

\* The ledger is append-only: no step of the backend takes a commit back.
LEMMA LedgerGrows ==
  ASSUME TypeInv, [Next]_vars
  PROVE  LedgerKept
<1>1. ledger \in Seq(Calls) /\ Len(ledger) \in Nat
  BY LenProperties DEF TypeInv, TypeOK
<1>2. ASSUME NEW c \in Calls, ledger' = Append(ledger, c) PROVE LedgerKept
  <2>1. /\ Len(ledger') = Len(ledger) + 1
        /\ \A i \in 1 .. Len(ledger) : ledger'[i] = ledger[i]
    BY <1>1, <1>2, AppendLemma
  <2>2. QED
    BY <1>1, <2>1 DEF LedgerKept
<1>3. CASE ledger' = ledger
  BY <1>1, <1>3 DEF LedgerKept
<1>4. ASSUME NEW p \in Actors, CommitSubmission(p) PROVE LedgerKept
  <2>1. Args(p) \in Calls
    BY <1>4, ArgsType DEF CommitSubmission
  <2>2. QED
    BY <1>2, <1>4, <2>1 DEF CommitSubmission
<1>5. ASSUME NEW c \in Calls, StrayCommit(c) PROVE LedgerKept
  BY <1>2, <1>5 DEF StrayCommit
<1>6. QED
  BY <1>3, <1>4, <1>5
  DEF Next, CallStep, WorkerStep, GatewayStep, ReturnIdempotent, StartSubmit,
      WriteConfirmed, WritePending, Enqueue, FetchBatch, ConfirmItem, DeleteItem,
      BumpItem, Acknowledge, Refuse, GiveUp, StrayVanish, Abort, Crash, vars

\* One coroutine's part of HoldsOwnCommit.
HoldsCommit(p) ==
  /\ pc[p] = "confirm" => txid[p] # 0
  /\ txid[p] # 0 => /\ pc[p] \in {"submit", "confirm"}
                    /\ txid[p] \in 1 .. Len(ledger)
                    /\ ledger[txid[p]] = Args(p)

\* A coroutine no part of whose state a step touches holds what it held.
LEMMA HoldsFrame ==
  ASSUME NEW p \in Actors, HoldsCommit(p), LedgerKept,
         pc'[p] = pc[p], txid'[p] = txid[p], Args(p)' = Args(p)
  PROVE  HoldsCommit(p)'
BY DEF HoldsCommit, LedgerKept

\* So does one that lets go of its commit, or never had one.
LEMMA HoldsNothing ==
  ASSUME NEW p \in Actors, txid'[p] = 0, pc'[p] # "confirm"
  PROVE  HoldsCommit(p)'
BY DEF HoldsCommit

LEMMA HoldsStep ==
  ASSUME TypeInv, \A p \in Actors : HoldsCommit(p), [Next]_vars,
         NEW q \in Actors
  PROVE  HoldsCommit(q)'
<1> USE ProvenanceAssumption
<1>0. LedgerKept
  BY LedgerGrows
<1>1. Worker \in Actors /\ \A c \in Calls : c \in Actors /\ c # Worker
  BY DEF Actors
<1>2. /\ pc \in [Actors -> CallPhases \union WorkerPhases]
      /\ txid \in [Actors -> Nat]
  BY DEF TypeInv, TypeOK
<1>3. HoldsCommit(q)
  OBVIOUS
<1>4. ASSUME batch' = batch, pc'[q] = pc[q], txid'[q] = txid[q] PROVE HoldsCommit(q)'
  BY <1>0, <1>3, <1>4, HoldsFrame DEF Args
<1>5. ASSUME q # Worker, pc'[q] = pc[q], txid'[q] = txid[q] PROVE HoldsCommit(q)'
  BY <1>0, <1>3, <1>5, HoldsFrame DEF Args
<1>6. ASSUME txid'[q] = txid[q], pc[q] \notin {"submit", "confirm"}, pc'[q] # "confirm"
      PROVE  HoldsCommit(q)'
  BY <1>3, <1>6, HoldsNothing DEF HoldsCommit
<1>7. ASSUME NEW c \in Calls, CallStep(c) PROVE HoldsCommit(q)'
  <2>1. CASE q = c
    BY <1>1, <1>2, <1>6, <1>7, <2>1, HoldsNothing
    DEF CallStep, ReturnIdempotent, StartSubmit, WriteConfirmed, WritePending, Enqueue
  <2>2. CASE q # c
    BY <1>1, <1>2, <1>4, <1>7, <2>2
    DEF CallStep, ReturnIdempotent, StartSubmit, WriteConfirmed, WritePending, Enqueue
  <2>3. QED
    BY <2>1, <2>2
<1>8. ASSUME WorkerStep PROVE HoldsCommit(q)'
  <2>1. CASE q = Worker
    BY <1>1, <1>2, <1>6, <1>8, <2>1, HoldsNothing
    DEF WorkerStep, FetchBatch, ConfirmItem, DeleteItem, BumpItem, NextItem
  <2>2. CASE q # Worker
    BY <1>1, <1>2, <1>5, <1>8, <2>2
    DEF WorkerStep, FetchBatch, ConfirmItem, DeleteItem, BumpItem, NextItem
  <2>3. QED
    BY <2>1, <2>2
<1>9. ASSUME NEW p \in Actors, CommitSubmission(p) PROVE HoldsCommit(q)'
  <2>1. CASE q = p
    <3>1. Args(p) \in Calls
      BY <1>9, ArgsType DEF CommitSubmission
    <3>2. ledger \in Seq(Calls)
      BY DEF TypeInv, TypeOK
    <3>3. /\ Len(ledger) \in Nat
          /\ Len(ledger') = Len(ledger) + 1
          /\ ledger'[Len(ledger) + 1] = Args(p)
      BY <1>9, <3>1, <3>2, AppendLemma DEF CommitSubmission
    <3>4. /\ pc'[q] = "submit"
          /\ txid'[q] = Len(ledger) + 1
          /\ Args(q)' = Args(q)
      BY <1>2, <1>9, <2>1 DEF CommitSubmission, Args
    <3>5. QED
      BY <2>1, <3>3, <3>4 DEF HoldsCommit
  <2>2. CASE q # p
    BY <1>2, <1>4, <1>9, <2>2 DEF CommitSubmission
  <2>3. QED
    BY <2>1, <2>2
<1>10. ASSUME NEW p \in Actors, Acknowledge(p) PROVE HoldsCommit(q)'
  <2>1. CASE q = p
    <3>1. txid'[q] = txid[q] /\ txid[q] # 0 /\ pc'[q] = "confirm" /\ Args(q)' = Args(q)
      BY <1>2, <1>10, <2>1 DEF Acknowledge, CommitSucceeded, Args
    <3>2. QED
      BY <1>0, <1>3, <3>1 DEF HoldsCommit, LedgerKept
  <2>2. CASE q # p
    BY <1>2, <1>4, <1>10, <2>2 DEF Acknowledge
  <2>3. QED
    BY <2>1, <2>2
<1>11. ASSUME NEW p \in Actors, Refuse(p) \/ GiveUp(p) PROVE HoldsCommit(q)'
  <2>1. CASE q = p
    BY <1>2, <1>11, <2>1, HoldsNothing DEF Refuse, GiveUp, Unavailable
  <2>2. CASE q # p
    BY <1>2, <1>4, <1>11, <2>2 DEF Refuse, GiveUp, Unavailable
  <2>3. QED
    BY <2>1, <2>2
<1>12. ASSUME NEW c \in Calls, StrayCommit(c) \/ StrayVanish(c) PROVE HoldsCommit(q)'
  BY <1>4, <1>12 DEF StrayCommit, StrayVanish
<1>13. ASSUME NEW p \in Actors, Abort(p) PROVE HoldsCommit(q)'
  <2>1. CASE q = p
    BY <1>2, <1>13, <2>1, HoldsNothing DEF Abort
  <2>2. CASE q # p
    <3>1. pc'[q] = pc[q] /\ txid'[q] = txid[q]
      BY <1>2, <1>13, <2>2 DEF Abort
    <3>2. batch' = batch \/ q # Worker
      BY <1>13, <2>2 DEF Abort
    <3>3. QED
      BY <1>4, <1>5, <3>1, <3>2
  <2>3. QED
    BY <2>1, <2>2
<1>14. ASSUME Crash PROVE HoldsCommit(q)'
  BY <1>2, <1>14, HoldsNothing DEF Crash, Busy
<1>15. CASE UNCHANGED vars
  BY <1>4, <1>15 DEF vars
<1>16. QED
  BY <1>7, <1>8, <1>9, <1>10, <1>11, <1>12, <1>13, <1>14, <1>15 DEF Next, GatewayStep

\* The documents: CONFIRMED is only ever written with a commit in hand.
LEMMA ConfirmedStep ==
  ASSUME TypeInv, \A p \in Actors : HoldsCommit(p), ConfirmedIsOnLedger, [Next]_vars
  PROVE  ConfirmedIsOnLedger'
<1> USE ProvenanceAssumption
<1>0. LedgerKept
  BY LedgerGrows
<1>1. CASE tx' = tx
  BY <1>0, <1>1 DEF ConfirmedIsOnLedger, Confirmed, LedgerKept
<1>2. ASSUME NEW e \in Events, NEW doc, tx' = [tx EXCEPT ![e] = doc],
             doc.status = "CONFIRMED" =>
               /\ doc.id \in 1 .. Len(ledger)
               /\ EventOf[ledger[doc.id]] = e
      PROVE  ConfirmedIsOnLedger'
  <2>1. SUFFICES ASSUME NEW f \in Events, tx'[f].status = "CONFIRMED"
                 PROVE  /\ tx'[f].id \in 1 .. Len(ledger')
                        /\ EventOf[ledger'[tx'[f].id]] = f
    BY DEF ConfirmedIsOnLedger, Confirmed
  <2>2. /\ tx'[f].id \in 1 .. Len(ledger)
        /\ EventOf[ledger[tx'[f].id]] = f
    <3>1. CASE f = e
      BY <1>2, <2>1, <3>1 DEF TypeInv, TypeOK
    <3>2. CASE f # e
      BY <1>2, <2>1, <3>2 DEF TypeInv, TypeOK, ConfirmedIsOnLedger, Confirmed
    <3>3. QED
      BY <3>1, <3>2
  <2>3. QED
    BY <1>0, <2>2 DEF LedgerKept
<1>3. ASSUME NEW c \in Calls, WriteConfirmed(c) PROVE ConfirmedIsOnLedger'
  <2>1. txid[c] \in 1 .. Len(ledger) /\ ledger[txid[c]] = c
    BY <1>3 DEF WriteConfirmed, HoldsCommit, Actors, Args
  <2>2. QED
    BY <1>2, <1>3, <2>1 DEF WriteConfirmed
<1>4. ASSUME NEW c \in Calls, WritePending(c) PROVE ConfirmedIsOnLedger'
  BY <1>2, <1>4 DEF WritePending
<1>5. ASSUME ConfirmItem PROVE ConfirmedIsOnLedger'
  <2>1. /\ txid[Worker] \in 1 .. Len(ledger)
        /\ EventOf[ledger[txid[Worker]]] = ItemEvent
    BY <1>5 DEF ConfirmItem, HoldsCommit, Actors, Args, ItemEvent
  <2>2. ItemEvent \in Events
    BY <1>5, ArgsType DEF ConfirmItem, Args, ItemEvent, Actors
  <2>3. CASE tx[ItemEvent].status = "NONE"
    BY <1>1, <1>5, <2>3 DEF ConfirmItem
  <2>4. CASE tx[ItemEvent].status # "NONE"
    <3>1. tx' = [tx EXCEPT ![ItemEvent] =
                   [tx[ItemEvent] EXCEPT !.status = "CONFIRMED", !.id = txid[Worker]]]
      BY <1>5, <2>4 DEF ConfirmItem
    <3>2. tx[ItemEvent] \in TxDocs
      BY <2>2 DEF TypeInv, TypeOK
    <3>3. [tx[ItemEvent] EXCEPT !.status = "CONFIRMED", !.id = txid[Worker]].id = txid[Worker]
      BY <3>2 DEF TxDocs
    <3>4. QED
      BY <1>2, <2>1, <2>2, <3>1, <3>3
  <2>5. QED
    BY <2>3, <2>4
<1>6. QED
  BY <1>1, <1>3, <1>4, <1>5
  DEF Next, CallStep, WorkerStep, GatewayStep, ReturnIdempotent, StartSubmit, Enqueue,
      FetchBatch, DeleteItem, BumpItem, CommitSubmission, Acknowledge, Refuse, GiveUp,
      StrayCommit, StrayVanish, Abort, Crash, vars

\* IInv is inductive: the inductive core of everything below.
LEMMA Inductive == (Init => IInv) /\ (IInv /\ [Next]_vars => IInv')
<1>1. HoldsOwnCommit <=> \A p \in Actors : HoldsCommit(p)
  BY DEF HoldsOwnCommit, HoldsCommit
<1>2. Init => IInv
  <2>1. Init => HoldsOwnCommit /\ ConfirmedIsOnLedger
    BY ProvenanceAssumption
    DEF Init, HoldsOwnCommit, ConfirmedIsOnLedger, Confirmed, NoTx, Actors
  <2>2. QED
    BY <2>1, TypeInit DEF IInv, TypeInv
<1>3. ASSUME IInv, [Next]_vars PROVE IInv'
  <2>1. TypeInv /\ \A p \in Actors : HoldsCommit(p)
    BY <1>1, <1>3 DEF IInv, TypeInv
  <2>2. TypeInv' /\ ConfirmedIsOnLedger'
    BY <1>3, <2>1, TypeStep, ConfirmedStep DEF IInv
  <2>3. HoldsOwnCommit'
    <3>1. \A p \in Actors : HoldsCommit(p)'
      BY <1>3, <2>1, HoldsStep
    <3>2. QED
      BY <3>1 DEF HoldsOwnCommit, HoldsCommit, Args
  <2>4. QED
    BY <2>2, <2>3 DEF IInv, TypeInv
<1>4. QED
  BY <1>2, <1>3

\* Whatever mixture of timeouts, late commits, retries from stale snapshots,
\* crashes and overlapping recordings led there, a transaction shown CONFIRMED
\* names a commit of its event that the ledger has.
THEOREM ConfirmedOnLedger == Spec => []ConfirmedIsOnLedger
<1>1. IInv => ConfirmedIsOnLedger
  BY DEF IInv
<1>2. QED
  BY Inductive, <1>1, PTL DEF Spec

-----------------------------------------------------------------------------
(* One recording for every event                                           *)
(*                                                                         *)
(* What the recorder guarantees when every event has one recording, as the *)
(* AUDIT_COMPLETED event of a scan has as long as no client records it too *)
(* (POST /api/blockchain/record): its documents keep the promise.          *)
(* With two overlapping recordings of an event they do not (the run stuck),*)
(* so SingleRecorder is where the idempotency key stops protecting the     *)
(* documents.                                                              *)

SingleRecorder == \A c, d \in Calls : EventOf[c] = EventOf[d] => c = d

InQueue(c) == \E i \in 1 .. Len(queue) : queue[i] = c
InBatch(c) == \E i \in 1 .. Len(batch) : batch[i] = c

-----------------------------------------------------------------------------
(* The queue, the snapshot and the documents they are about                *)

\* An item enters the queue by Enqueue only, and a snapshot from the queue.
LEMMA ItemsKept ==
  ASSUME TypeInv, [Next]_vars, NEW c \in Calls
  PROVE  /\ InQueue(c)' => InQueue(c) \/ Enqueue(c)
         /\ InBatch(c)' => InBatch(c) \/ InQueue(c)
<1> DEFINE Kept == /\ InQueue(c)' => InQueue(c) \/ Enqueue(c)
                   /\ InBatch(c)' => InBatch(c) \/ InQueue(c)
<1>1. queue \in Seq(Calls) /\ Len(queue) \in Nat /\ batch \in Seq(Calls)
  BY LenProperties DEF TypeInv, TypeOK
<1>2. CASE queue' = queue /\ batch' = batch
  BY <1>2 DEF InQueue, InBatch
<1>3. ASSUME NEW d \in Calls, Enqueue(d) PROVE Kept
  <2>1. batch' = batch
    BY <1>3 DEF Enqueue
  <2>2. ASSUME NEW i \in 1 .. Len(queue'), queue'[i] = c, c # d PROVE InQueue(c)
    <3>1. CASE Queued(EventOf[d])
      <4>1. PICK k \in 1 .. Len(queue) : queue' = [queue EXCEPT ![k] = d]
        BY <1>3, <3>1 DEF Enqueue, ItemsOf
      <4>2. /\ Len(queue') = Len(queue)
            /\ \A j \in 1 .. Len(queue) : queue'[j] = IF j = k THEN d ELSE queue[j]
        BY <1>1, <4>1, ExceptSeq
      <4>3. QED
        BY <2>2, <4>2 DEF InQueue
    <3>2. CASE ~Queued(EventOf[d])
      <4>1. queue' = Append(queue, d)
        BY <1>3, <3>2 DEF Enqueue
      <4>2. /\ Len(queue') = Len(queue) + 1
            /\ \A j \in 1 .. Len(queue) : queue'[j] = queue[j]
            /\ queue'[Len(queue) + 1] = d
        BY <1>1, <4>1, AppendLemma
      <4>3. i \in 1 .. Len(queue)
        BY <1>1, <2>2, <4>2
      <4>4. QED
        BY <2>2, <4>2, <4>3 DEF InQueue
    <3>3. QED
      BY <3>1, <3>2
  <2>3. QED
    BY <1>3, <2>1, <2>2 DEF InQueue, InBatch
<1>4. ASSUME FetchBatch PROVE Kept
  <2>1. PICK n \in 0 .. Len(queue) : batch' = SubSeq(queue, 1, n)
    BY <1>1, <1>4, ProvenanceAssumption DEF FetchBatch
  <2>2. Len(batch') = n /\ \A j \in 1 .. n : batch'[j] = queue[j]
    BY <1>1, <2>1, ElementsLemma
  <2>3. queue' = queue
    BY <1>4 DEF FetchBatch
  <2>4. QED
    BY <1>1, <2>2, <2>3 DEF InQueue, InBatch
<1>5. ASSUME DeleteItem PROVE Kept
  <2>1. InBatch(c)' => InBatch(c)
    BY <1>5, NextItemLemma DEF DeleteItem, InBatch
  <2>2. InQueue(c)' => InQueue(c)
    <3>1. CASE Queued(ItemEvent)
      <4>1. PICK k \in 1 .. Len(queue) : queue' = RemoveAt(queue, k)
        BY <1>5, <3>1 DEF DeleteItem, ItemsOf
      <4>2. /\ Len(queue') = Len(queue) - 1
            /\ \A j \in 1 .. Len(queue) - 1 :
                 queue'[j] = IF j < k THEN queue[j] ELSE queue[j + 1]
        BY <1>1, <4>1, RemoveAtLemma
      <4>3. \A j \in 1 .. Len(queue) - 1 :
              j \in 1 .. Len(queue) /\ j + 1 \in 1 .. Len(queue)
        BY <1>1
      <4>4. QED
        BY <4>2, <4>3 DEF InQueue
    <3>2. CASE ~Queued(ItemEvent)
      BY <1>5, <3>2 DEF DeleteItem, InQueue
    <3>3. QED
      BY <3>1, <3>2
  <2>3. QED
    BY <2>1, <2>2
<1>6. ASSUME BumpItem PROVE Kept
  BY <1>6, NextItemLemma DEF BumpItem, InBatch, InQueue
<1>7. ASSUME queue' = queue, batch' = <<>> PROVE Kept
  BY <1>7, EmptySeq DEF InQueue, InBatch
<1>8. ASSUME NEW p \in Actors, Abort(p) PROVE Kept
  BY <1>2, <1>7, <1>8 DEF Abort
<1>9. ASSUME Crash PROVE Kept
  BY <1>7, <1>9 DEF Crash
<1>10. QED
  BY <1>2, <1>3, <1>4, <1>5, <1>6, <1>8, <1>9
  DEF Next, CallStep, WorkerStep, GatewayStep, ReturnIdempotent, StartSubmit,
      WriteConfirmed, WritePending, ConfirmItem, CommitSubmission, Acknowledge,
      Refuse, GiveUp, StrayCommit, StrayVanish, vars

\* The item in the worker's hand is one of its snapshot.
LEMMA HeadInBatch ==
  ASSUME TypeInv, pc[Worker] # "sleep"
  PROVE  Head(batch) \in Calls /\ InBatch(Head(batch))
<1>1. batch \in Seq(Calls) /\ batch # <<>>
  BY DEF TypeInv, TypeOK, PhasesOK
<1>2. QED
  BY <1>1, ElementsLemma DEF InBatch

\* Which step writes which document, and how.
LEMMA Writes ==
  ASSUME TypeInv, [Next]_vars, NEW e \in Events
  PROVE  \/ tx'[e] = tx[e]
         \/ \E c \in Calls : /\ EventOf[c] = e
                             /\ \/ WriteConfirmed(c)
                                \/ WritePending(c)
         \/ /\ ConfirmItem
            /\ EventOf[Head(batch)] = e
            /\ tx[e].status # "NONE"
            /\ tx'[e] = [tx[e] EXCEPT !.status = "CONFIRMED", !.id = txid[Worker]]
<1> USE ProvenanceAssumption
<1>1. tx \in [Events -> TxDocs]
  BY DEF TypeInv, TypeOK
<1>2. CASE tx' = tx
  BY <1>2
<1>3. ASSUME NEW c \in Calls, WriteConfirmed(c) \/ WritePending(c), EventOf[c] # e
      PROVE  tx'[e] = tx[e]
  BY <1>1, <1>3 DEF WriteConfirmed, WritePending
<1>4. ASSUME ConfirmItem, tx' # tx
      PROVE  /\ ItemEvent = e => /\ tx[e].status # "NONE"
                                 /\ tx'[e] = [tx[e] EXCEPT !.status = "CONFIRMED", !.id = txid[Worker]]
             /\ ItemEvent # e => tx'[e] = tx[e]
  BY <1>1, <1>4 DEF ConfirmItem
<1>5. QED
  BY <1>2, <1>3, <1>4
  DEF Next, CallStep, WorkerStep, GatewayStep, ReturnIdempotent, StartSubmit, Enqueue,
      FetchBatch, DeleteItem, BumpItem, CommitSubmission, Acknowledge, Refuse, GiveUp,
      StrayCommit, StrayVanish, Abort, Crash, vars, ItemEvent

\* How a call moves from one await to the next.
LEMMA CallMoves ==
  ASSUME TypeInv, [Next]_vars, NEW c \in Calls, pc'[c] # pc[c]
  PROVE  \/ pc[c] = "idle" /\ pc'[c] \in {"submit", "done"}
         \/ pc[c] = "submit" /\ pc'[c] \in {"confirm", "pend"}
         \/ WriteConfirmed(c) /\ pc'[c] = "done"
         \/ WritePending(c) /\ pc'[c] = "enqueue"
         \/ Enqueue(c) /\ pc[c] = "enqueue" /\ pc'[c] = "done"
         \/ pc'[c] = "lost"
<1> USE ProvenanceAssumption
<1>0. /\ pc \in [Actors -> CallPhases \union WorkerPhases]
      /\ c \in Actors /\ c # Worker
  BY DEF TypeInv, TypeOK, Actors
<1>1. ASSUME NEW d \in Calls, CallStep(d)
      PROVE  d = c
  BY <1>0, <1>1
  DEF CallStep, ReturnIdempotent, StartSubmit, Enqueue, WriteConfirmed, WritePending
<1>2. CallStep(c) =>
         \/ pc[c] = "idle" /\ pc'[c] \in {"submit", "done"}
         \/ WriteConfirmed(c) /\ pc'[c] = "done"
         \/ WritePending(c) /\ pc'[c] = "enqueue"
         \/ Enqueue(c) /\ pc[c] = "enqueue" /\ pc'[c] = "done"
  BY <1>0
  DEF CallStep, ReturnIdempotent, StartSubmit, Enqueue, WriteConfirmed, WritePending
<1>3. ~WorkerStep
  BY <1>0 DEF WorkerStep, FetchBatch, ConfirmItem, DeleteItem, BumpItem, NextItem
<1>4. ASSUME NEW p \in Actors, GatewayStep(p)
      PROVE  pc[c] = "submit" /\ pc'[c] \in {"confirm", "pend"}
  BY <1>0, <1>4 DEF GatewayStep, CommitSubmission, Acknowledge, Refuse, GiveUp, Unavailable
<1>5. ASSUME NEW p \in Actors, Abort(p) PROVE pc'[c] = "lost"
  BY <1>0, <1>5 DEF Abort
<1>6. Crash => pc'[c] = "lost"
  BY <1>0 DEF Crash
<1>7. ASSUME NEW d \in Calls, StrayCommit(d) \/ StrayVanish(d) PROVE FALSE
  BY <1>7 DEF StrayCommit, StrayVanish
<1>8. Next
  BY DEF vars
<1>9. QED
  BY <1>1, <1>2, <1>3, <1>4, <1>5, <1>6, <1>7, <1>8 DEF Next

\* What must have a document: a call that enqueues, its item, the snapshot.
HasDocument(c) ==
  pc[c] = "enqueue" \/ InQueue(c) \/ InBatch(c) => tx[EventOf[c]].status # "NONE"

RInv == IInv /\ \A c \in Calls : HasDocument(c)

LEMMA HasDocumentStep ==
  ASSUME TypeInv, \A d \in Calls : HasDocument(d), [Next]_vars, NEW c \in Calls
  PROVE  HasDocument(c)'
<1> USE ProvenanceAssumption
<1> DEFINE e == EventOf[c]
<1>0. /\ e \in Events
      /\ tx \in [Events -> TxDocs]
      /\ pc \in [Actors -> CallPhases \union WorkerPhases]
      /\ c \in Actors /\ c # Worker
  BY DEF TypeInv, TypeOK, Actors
<1>1. tx[e].status # "NONE" => tx'[e].status # "NONE"
  <2>1. ASSUME NEW d \in Calls, EventOf[d] = e, WriteConfirmed(d) \/ WritePending(d)
        PROVE  tx'[e].status # "NONE"
    BY <1>0, <2>1 DEF WriteConfirmed, WritePending
  <2>2. ASSUME tx'[e] = [tx[e] EXCEPT !.status = "CONFIRMED", !.id = txid[Worker]]
        PROVE  tx'[e].status # "NONE"
    BY <1>0, <2>2 DEF TxDocs
  <2>3. QED
    BY <1>0, <2>1, <2>2, Writes
<1>2. ASSUME pc'[c] = "enqueue", pc[c] # "enqueue"
      PROVE  tx'[e].status # "NONE"
  <2>1. WritePending(c)
    BY <1>2, CallMoves
  <2>2. QED
    BY <1>0, <2>1 DEF WritePending
<1>3. pc[c] = "enqueue" \/ InQueue(c) \/ InBatch(c) => tx[e].status # "NONE"
  BY DEF HasDocument
<1>4. InQueue(c)' \/ InBatch(c)' => pc[c] = "enqueue" \/ InQueue(c) \/ InBatch(c)
  BY ItemsKept DEF Enqueue
<1>5. QED
  BY <1>1, <1>2, <1>3, <1>4 DEF HasDocument

LEMMA RetriedIffHasDocument ==
  ASSUME TypeInv, \A c \in Calls : HasDocument(c)
  PROVE  RetriedHasDocument
<1>1. /\ \A i \in 1 .. Len(queue) : queue[i] \in Calls
      /\ \A i \in 1 .. Len(batch) : batch[i] \in Calls
  BY ElementOfSeq DEF TypeInv, TypeOK
<1>2. QED
  BY <1>1 DEF RetriedHasDocument, HasDocument, InQueue, InBatch

\* No confirmation of the worker is lost for want of a document to update.
THEOREM RetriedDocuments == Spec => []RetriedHasDocument
<1>1. Init => RInv
  <2>1. Init => \A c \in Calls : HasDocument(c)
    BY ProvenanceAssumption, EmptySeq
    DEF Init, HasDocument, InQueue, InBatch, Actors
  <2>2. QED
    BY <2>1, Inductive DEF RInv
<1>2. RInv /\ [Next]_vars => RInv'
  <2>1. SUFFICES ASSUME RInv, [Next]_vars PROVE RInv'
    OBVIOUS
  <2>2. IInv'
    BY <2>1, Inductive DEF RInv
  <2>3. \A c \in Calls : HasDocument(c)'
    BY <2>1, HasDocumentStep DEF RInv, IInv, TypeInv
  <2>4. QED
    BY <2>2, <2>3 DEF RInv
<1>3. RInv => RetriedHasDocument
  BY RetriedIffHasDocument DEF RInv, IInv, TypeInv
<1>4. QED
  BY <1>1, <1>2, <1>3, PTL DEF Spec

-----------------------------------------------------------------------------
(* One recording per event                                                 *)

\* A call that has not written yet finds no document; one that is about to
\* enqueue wrote PENDING; what the worker retries is over.
CallInv(c) ==
  /\ pc[c] \in {"idle", "submit", "confirm", "pend"} => tx[EventOf[c]] = NoTx
  /\ pc[c] = "enqueue" => tx[EventOf[c]].status = "PENDING"
  /\ InQueue(c) \/ InBatch(c) => pc[c] \in {"done", "lost"}

\* A document holds the hashes of its event's call, a CONFIRMED one those
\* its commit wrote.
DocInv(e) ==
  /\ tx[e].status # "NONE" => tx[e].call \in Calls /\ EventOf[tx[e].call] = e
  /\ Confirmed(e) => ledger[tx[e].id] = tx[e].call

SInv == /\ IInv
        /\ \A c \in Calls : CallInv(c)
        /\ \A e \in Events : DocInv(e)

LEMMA CallInvStep ==
  ASSUME SingleRecorder, SInv, [Next]_vars, NEW c \in Calls
  PROVE  CallInv(c)'
<1> USE ProvenanceAssumption
<1> DEFINE e == EventOf[c]
<1>0. /\ e \in Events
      /\ tx \in [Events -> TxDocs]
      /\ pc \in [Actors -> CallPhases \union WorkerPhases]
      /\ c \in Actors /\ c # Worker
      /\ TypeInv
      /\ CallInv(c)
  BY DEF SInv, IInv, TypeInv, TypeOK, Actors
<1>1. pc'[c] # pc[c] =>
        \/ pc[c] = "idle" /\ pc'[c] \in {"submit", "done"}
        \/ pc[c] = "submit" /\ pc'[c] \in {"confirm", "pend"}
        \/ WriteConfirmed(c) /\ pc'[c] = "done"
        \/ WritePending(c) /\ pc'[c] = "enqueue"
        \/ pc[c] = "enqueue" /\ pc'[c] = "done"
        \/ pc'[c] = "lost"
  BY <1>0, CallMoves
<1>2. tx'[e] = tx[e] \/ WriteConfirmed(c) \/ WritePending(c) \/ pc[c] \in {"done", "lost"}
  <2>1. ASSUME ConfirmItem, EventOf[Head(batch)] = e PROVE pc[c] \in {"done", "lost"}
    <3>1. Head(batch) \in Calls /\ InBatch(Head(batch))
      BY <1>0, <2>1, HeadInBatch DEF ConfirmItem
    <3>2. Head(batch) = c
      BY <2>1, <3>1 DEF SingleRecorder
    <3>3. QED
      BY <1>0, <3>1, <3>2 DEF CallInv
  <2>2. \A d \in Calls : EventOf[d] = e => d = c
    BY DEF SingleRecorder
  <2>3. QED
    BY <1>0, <2>1, <2>2, Writes
<1>3. pc[c] \in {"done", "lost"} => pc'[c] = pc[c] \/ pc'[c] = "lost"
  BY <1>1 DEF WriteConfirmed, WritePending
<1>4. (InQueue(c) \/ InBatch(c))' => pc'[c] \in {"done", "lost"}
  <2>1. (InQueue(c) \/ InBatch(c))' => InQueue(c) \/ InBatch(c) \/ Enqueue(c)
    BY <1>0, ItemsKept
  <2>2. Enqueue(c) => pc'[c] = "done"
    BY <1>0 DEF Enqueue
  <2>3. QED
    BY <1>0, <1>3, <2>1, <2>2 DEF CallInv
<1>5. pc'[c] \in {"idle", "submit", "confirm", "pend"} => tx'[e] = NoTx
  <2>1. SUFFICES ASSUME pc'[c] \in {"idle", "submit", "confirm", "pend"}
                 PROVE  tx'[e] = NoTx
    OBVIOUS
  <2>2. pc[c] \in {"idle", "submit", "confirm", "pend"}
    BY <1>1, <2>1
  <2>3. ~WriteConfirmed(c) /\ ~WritePending(c)
    BY <1>0, <2>1 DEF WriteConfirmed, WritePending
  <2>4. QED
    BY <1>0, <1>2, <2>2, <2>3 DEF CallInv
<1>6. pc'[c] = "enqueue" => tx'[e].status = "PENDING"
  <2>1. WritePending(c) => tx'[e].status = "PENDING"
    BY <1>0 DEF WritePending
  <2>2. ASSUME pc'[c] = "enqueue", ~WritePending(c) PROVE pc[c] = "enqueue" /\ tx'[e] = tx[e]
    BY <1>1, <1>2, <2>2 DEF WriteConfirmed
  <2>3. QED
    BY <1>0, <2>1, <2>2 DEF CallInv
<1>7. QED
  BY <1>4, <1>5, <1>6 DEF CallInv

LEMMA DocInvStep ==
  ASSUME SingleRecorder, SInv, [Next]_vars, NEW e \in Events
  PROVE  DocInv(e)'
<1> USE ProvenanceAssumption
<1>0. /\ TypeInv /\ LedgerKept /\ DocInv(e) /\ ConfirmedIsOnLedger
      /\ tx \in [Events -> TxDocs]
  BY LedgerGrows DEF SInv, IInv, TypeInv, TypeOK
<1>1. CASE tx'[e] = tx[e]
  <2>1. Confirmed(e) => ledger'[tx[e].id] = ledger[tx[e].id]
    BY <1>0 DEF ConfirmedIsOnLedger, LedgerKept
  <2>2. QED
    BY <1>0, <1>1, <2>1 DEF DocInv, Confirmed
<1>2. ASSUME NEW c \in Calls, EventOf[c] = e, WriteConfirmed(c) PROVE DocInv(e)'
  <2>1. tx'[e] = [status |-> "CONFIRMED", call |-> c, id |-> txid[c]]
    BY <1>0, <1>2 DEF WriteConfirmed
  <2>2. ledger' = ledger /\ ledger[txid[c]] = c
    BY <1>2 DEF WriteConfirmed, SInv, IInv, HoldsOwnCommit, Actors, Args
  <2>3. QED
    BY <1>2, <2>1, <2>2 DEF DocInv, Confirmed
<1>3. ASSUME NEW c \in Calls, EventOf[c] = e, WritePending(c) PROVE DocInv(e)'
  <2>1. tx'[e] = [status |-> "PENDING", call |-> c, id |-> 0]
    BY <1>0, <1>3 DEF WritePending
  <2>2. QED
    BY <1>3, <2>1 DEF DocInv, Confirmed
<1>4. ASSUME ConfirmItem, EventOf[Head(batch)] = e, tx[e].status # "NONE",
             tx'[e] = [tx[e] EXCEPT !.status = "CONFIRMED", !.id = txid[Worker]]
      PROVE  DocInv(e)'
  <2>1. /\ tx'[e].call = tx[e].call
        /\ tx'[e].id = txid[Worker]
    BY <1>0, <1>4 DEF TxDocs
  <2>2. tx[e].call \in Calls /\ EventOf[tx[e].call] = e
    BY <1>0, <1>4 DEF DocInv
  <2>3. ledger' = ledger /\ ledger[txid[Worker]] = Head(batch)
    BY <1>4 DEF ConfirmItem, SInv, IInv, HoldsOwnCommit, Actors, Args
  <2>4. Head(batch) = tx[e].call
    <3>1. Head(batch) \in Calls
      BY <1>0, <1>4, HeadInBatch DEF ConfirmItem
    <3>2. QED
      BY <1>4, <2>2, <3>1 DEF SingleRecorder
  <2>5. QED
    BY <2>1, <2>2, <2>3, <2>4 DEF DocInv, Confirmed
<1>5. QED
  BY <1>0, <1>1, <1>2, <1>3, <1>4, Writes

LEMMA SingleInductive ==
  ASSUME SingleRecorder
  PROVE  (Init => SInv) /\ (SInv /\ [Next]_vars => SInv')
<1>1. Init => SInv
  <2>1. Init => /\ \A c \in Calls : CallInv(c)
                /\ \A e \in Events : DocInv(e)
    BY ProvenanceAssumption, EmptySeq
    DEF Init, CallInv, DocInv, Confirmed, InQueue, InBatch, NoTx, Actors
  <2>2. QED
    BY <2>1, Inductive DEF SInv
<1>2. ASSUME SInv, [Next]_vars PROVE SInv'
  <2>1. IInv'
    BY <1>2, Inductive DEF SInv
  <2>2. \A c \in Calls : CallInv(c)'
    BY <1>2, CallInvStep
  <2>3. \A e \in Events : DocInv(e)'
    BY <1>2, DocInvStep
  <2>4. QED
    BY <2>1, <2>2, <2>3 DEF SInv
<1>3. QED
  BY <1>1, <1>2

\* With one recording per event a CONFIRMED document shows the hashes its
\* commit wrote.
THEOREM ConfirmedHashes ==
  ASSUME SingleRecorder
  PROVE  Spec => []ConfirmedHashesAreCommitted
<1>1. (Init => SInv) /\ (SInv /\ [Next]_vars => SInv')
  BY SingleInductive
<1>2. SInv => ConfirmedHashesAreCommitted
  BY DEF SInv, IInv, DocInv, ConfirmedIsOnLedger, ConfirmedHashesAreCommitted
<1>3. QED
  BY <1>1, <1>2, PTL DEF Spec

-----------------------------------------------------------------------------
(* The refinement                                                          *)

\* What a step of the recorder does to a document its promise allows.
LEMMA StatusStep ==
  ASSUME SingleRecorder, SInv, [Next]_vars, NEW e \in Events, tx'[e].status # tx[e].status
  PROVE  /\ ledger' = ledger
         /\ \A f \in Events \ {e} : tx'[f] = tx[f]
         /\ \/ tx[e].status = "NONE" /\ tx'[e].status = "PENDING"
            \/ /\ tx[e].status # "CONFIRMED" /\ tx'[e].status = "CONFIRMED"
               /\ \E i \in 1 .. Len(ledger) : EventOf[ledger[i]] = e
<1> USE ProvenanceAssumption
<1>0. /\ TypeInv /\ HoldsOwnCommit
      /\ tx \in [Events -> TxDocs]
  BY DEF SInv, IInv, TypeInv, TypeOK
<1>1. ASSUME NEW c \in Calls, EventOf[c] = e, WriteConfirmed(c)
      PROVE  /\ ledger' = ledger
             /\ \A f \in Events \ {e} : tx'[f] = tx[f]
             /\ tx[e].status # "CONFIRMED" /\ tx'[e].status = "CONFIRMED"
             /\ \E i \in 1 .. Len(ledger) : EventOf[ledger[i]] = e
  <2>1. tx[e] = NoTx
    BY <1>1 DEF WriteConfirmed, SInv, CallInv
  <2>2. txid[c] \in 1 .. Len(ledger) /\ ledger[txid[c]] = c
    BY <1>0, <1>1 DEF WriteConfirmed, HoldsOwnCommit, Actors, Args
  <2>3. ledger' = ledger /\ tx'[e].status = "CONFIRMED" /\ \A f \in Events \ {e} : tx'[f] = tx[f]
    BY <1>0, <1>1 DEF WriteConfirmed
  <2>4. QED
    BY <1>1, <2>1, <2>2, <2>3 DEF NoTx
<1>2. ASSUME NEW c \in Calls, EventOf[c] = e, WritePending(c)
      PROVE  /\ ledger' = ledger
             /\ \A f \in Events \ {e} : tx'[f] = tx[f]
             /\ tx[e].status = "NONE" /\ tx'[e].status = "PENDING"
  <2>1. tx[e] = NoTx
    BY <1>2 DEF WritePending, SInv, CallInv
  <2>2. QED
    BY <1>0, <1>2, <2>1 DEF WritePending, NoTx
<1>3. ASSUME ConfirmItem, EventOf[Head(batch)] = e, tx[e].status # "NONE",
             tx'[e] = [tx[e] EXCEPT !.status = "CONFIRMED", !.id = txid[Worker]]
      PROVE  /\ ledger' = ledger
             /\ \A f \in Events \ {e} : tx'[f] = tx[f]
             /\ tx[e].status # "CONFIRMED" /\ tx'[e].status = "CONFIRMED"
             /\ \E i \in 1 .. Len(ledger) : EventOf[ledger[i]] = e
  <2>1. tx'[e].status = "CONFIRMED"
    BY <1>0, <1>3 DEF TxDocs
  <2>2. ledger' = ledger /\ \A f \in Events \ {e} : tx'[f] = tx[f]
    BY <1>0, <1>3 DEF ConfirmItem, ItemEvent
  <2>3. /\ txid[Worker] \in 1 .. Len(ledger)
        /\ EventOf[ledger[txid[Worker]]] = e
    BY <1>0, <1>3 DEF ConfirmItem, HoldsOwnCommit, Actors, Args
  <2>4. QED
    BY <2>1, <2>2, <2>3
<1>4. QED
  BY <1>0, <1>1, <1>2, <1>3, Writes

\* With one recording per event, no timeout, late commit, retry or crash makes
\* a CONFIRMED transaction PENDING again.
THEOREM ConfirmedFinal ==
  ASSUME SingleRecorder
  PROVE  Spec => ConfirmedIsFinal
<1>1. (Init => SInv) /\ (SInv /\ [Next]_vars => SInv')
  BY SingleInductive
<1>2. SInv /\ [Next]_vars =>
        [\A e \in Events : Confirmed(e) => Confirmed(e)']_vars
  BY StatusStep DEF Confirmed
<1>3. QED
  BY <1>1, <1>2, PTL DEF Spec, ConfirmedIsFinal

\* With one recording per event the recorder implements ProvenancePromise.
THEOREM PromiseKept ==
  ASSUME SingleRecorder
  PROVE  Spec => KeepsPromise
<1> USE ProvenanceAssumption
<1> DEFINE rec == {EventOf[ledger[i]] : i \in 1 .. Len(ledger)}
           shown == [e \in Events |-> tx[e].status]
<1>1. (Init => SInv) /\ (SInv /\ [Next]_vars => SInv')
  BY SingleInductive
<1>2. Init => Promise!Init
  <2>1. SUFFICES ASSUME Init PROVE rec = {} /\ shown = [e \in Events |-> "NONE"]
    BY DEF Promise!Init
  <2>2. Len(ledger) = 0
    BY <2>1, EmptySeq DEF Init
  <2>3. shown = [e \in Events |-> "NONE"]
    BY <2>1 DEF Init, NoTx
  <2>4. QED
    BY <2>2, <2>3
<1>3. SInv /\ [Next]_vars => [Promise!Next]_(Promise!vars)
  <2>1. SUFFICES ASSUME SInv, [Next]_vars PROVE [Promise!Next]_(Promise!vars)
    OBVIOUS
  <2>2. TypeInv /\ LedgerKept /\ ledger \in Seq(Calls)
    BY <2>1, LedgerGrows DEF SInv, IInv, TypeInv, TypeOK
  <2>3. CASE \E e \in Events : tx'[e].status # tx[e].status
    <3>1. PICK e \in Events : tx'[e].status # tx[e].status
      BY <2>3
    <3>2. /\ ledger' = ledger
          /\ \A f \in Events \ {e} : tx'[f] = tx[f]
      BY <2>1, <3>1, StatusStep
    <3>3. rec' = rec
      BY <3>2
    <3>4. shown' = [shown EXCEPT ![e] = tx'[e].status]
      BY <3>2
    <3>5. CASE tx[e].status = "NONE" /\ tx'[e].status = "PENDING"
      <4>1. Promise!Hold(e)
        BY <3>3, <3>4, <3>5 DEF Promise!Hold
      <4>2. QED
        BY <4>1 DEF Promise!Next
    <3>6. CASE /\ tx[e].status # "CONFIRMED" /\ tx'[e].status = "CONFIRMED"
               /\ \E i \in 1 .. Len(ledger) : EventOf[ledger[i]] = e
      <4>1. Promise!Confirm(e)
        BY <3>3, <3>4, <3>6 DEF Promise!Confirm
      <4>2. QED
        BY <4>1 DEF Promise!Next
    <3>7. QED
      BY <2>1, <3>1, <3>5, <3>6, StatusStep
  <2>4. CASE \A e \in Events : tx'[e].status = tx[e].status
    <3>1. shown' = shown
      BY <2>4
    <3>2. ASSUME NEW c \in Calls, ledger' = Append(ledger, c)
          PROVE  Promise!Record(EventOf[c])
      <4>1. /\ Len(ledger) \in Nat
            /\ Len(ledger') = Len(ledger) + 1
            /\ \A i \in 1 .. Len(ledger) : ledger'[i] = ledger[i]
            /\ ledger'[Len(ledger) + 1] = c
        BY <2>2, <3>2, AppendLemma
      <4>2. rec' = rec \union {EventOf[c]}
        BY <4>1
      <4>3. QED
        BY <3>1, <4>2 DEF Promise!Record
    <3>3. ledger' = ledger \/ \E c \in Calls : ledger' = Append(ledger, c)
      <4>1. ASSUME NEW p \in Actors, CommitSubmission(p)
            PROVE  \E c \in Calls : ledger' = Append(ledger, c)
        BY <2>2, <4>1, ArgsType DEF CommitSubmission
      <4>2. QED
        BY <2>1, <4>1
        DEF Next, CallStep, WorkerStep, GatewayStep, ReturnIdempotent, StartSubmit,
            WriteConfirmed, WritePending, Enqueue, FetchBatch, ConfirmItem, DeleteItem,
            BumpItem, Acknowledge, Refuse, GiveUp, StrayCommit, StrayVanish, Abort,
            Crash, vars
    <3>4. CASE ledger' = ledger
      BY <3>1, <3>4 DEF Promise!vars
    <3>5. CASE \E c \in Calls : ledger' = Append(ledger, c)
      <4>1. PICK c \in Calls : ledger' = Append(ledger, c)
        BY <3>5
      <4>2. QED
        BY <3>2, <4>1 DEF Promise!Next
    <3>6. QED
      BY <3>3, <3>4, <3>5
  <2>5. QED
    BY <2>3, <2>4
<1>4. QED
  BY <1>1, <1>2, <1>3, PTL DEF Spec, KeepsPromise, Promise!Spec

-----------------------------------------------------------------------------
(* Pending transactions stay queued                                        *)

\* The worker deletes only what it has confirmed.
DeletesConfirmed == pc[Worker] = "delete" => Confirmed(ItemEvent)

\* A recording that is over without a crash has its item in the queue until its
\* transaction is confirmed.
StaysQueued(c) ==
  /\ pc[c] = "lost" => crashes > 0
  /\ pc[c] = "done" /\ tx[EventOf[c]].status = "PENDING" => InQueue(c)

PInv == /\ SInv /\ RInv
        /\ DeletesConfirmed
        /\ \A c \in Calls : StaysQueued(c)

LEMMA DeletesConfirmedStep ==
  ASSUME SingleRecorder, PInv, [Next]_vars
  PROVE  DeletesConfirmed'
<1> USE ProvenanceAssumption
<1> SUFFICES ASSUME pc'[Worker] = "delete" PROVE Confirmed(ItemEvent)'
  BY DEF DeletesConfirmed
<1>0. /\ TypeInv /\ SInv /\ tx \in [Events -> TxDocs]
      /\ pc \in [Actors -> CallPhases \union WorkerPhases] /\ Worker \in Actors
  BY DEF PInv, SInv, IInv, TypeInv, TypeOK, Actors
<1>1. CASE ConfirmItem
  <2>1. Head(batch) \in Calls /\ InBatch(Head(batch)) /\ ItemEvent \in Events
    BY <1>0, <1>1, HeadInBatch DEF ConfirmItem, ItemEvent
  <2>2. tx[ItemEvent].status # "NONE"
    BY <2>1 DEF PInv, RInv, HasDocument, ItemEvent
  <2>3. tx' = [tx EXCEPT ![ItemEvent] = [tx[ItemEvent] EXCEPT !.status = "CONFIRMED", !.id = txid[Worker]]]
    BY <1>1, <2>2 DEF ConfirmItem
  <2>4. tx'[ItemEvent].status = "CONFIRMED"
    BY <1>0, <2>1, <2>3 DEF TxDocs
  <2>5. QED
    BY <1>1, <2>4 DEF ConfirmItem, Confirmed, ItemEvent
<1>2. CASE ~ConfirmItem
  <2>1. pc[Worker] = "delete" /\ batch' = batch
    BY <1>0, <1>2
    DEF Next, CallStep, WorkerStep, GatewayStep, ReturnIdempotent, StartSubmit, Enqueue, WriteConfirmed,
        WritePending, FetchBatch, DeleteItem, BumpItem, NextItem, CommitSubmission, Acknowledge, Refuse,
        GiveUp, Unavailable, StrayCommit, StrayVanish, Abort, Crash, vars, Actors
  <2>2. Confirmed(ItemEvent) /\ ItemEvent \in Events
    BY <1>0, <2>1, HeadInBatch DEF PInv, DeletesConfirmed, ItemEvent
  <2>3. tx'[ItemEvent].status = "CONFIRMED"
    BY <1>0, <2>2, StatusStep DEF Confirmed
  <2>4. QED
    BY <2>1, <2>3 DEF Confirmed, ItemEvent
<1>3. QED
  BY <1>1, <1>2

\* An item leaves the queue only after its event is confirmed, and is not overwritten by
\* that of another event.
LEMMA QueuedUntilConfirmed ==
  ASSUME SingleRecorder, PInv, [Next]_vars, NEW c \in Calls, InQueue(c), ~Confirmed(EventOf[c])
  PROVE  InQueue(c)'
<1>0. /\ TypeInv /\ queue \in Seq(Calls) /\ Len(queue) \in Nat
  BY LenProperties DEF PInv, SInv, IInv, TypeInv, TypeOK
<1>1. PICK k \in 1 .. Len(queue) : queue[k] = c
  BY DEF InQueue
<1>2. CASE queue' = queue
  BY <1>2 DEF InQueue
<1>3. ASSUME NEW d \in Calls, Enqueue(d) PROVE InQueue(c)'
  <2>1. CASE Queued(EventOf[d])
    <3>1. PICK i \in 1 .. Len(queue) : EventOf[queue[i]] = EventOf[d] /\ queue' = [queue EXCEPT ![i] = d]
      BY <1>3, <2>1 DEF Enqueue, ItemsOf
    <3>2. /\ Len(queue') = Len(queue)
          /\ \A j \in 1 .. Len(queue) : queue'[j] = IF j = i THEN d ELSE queue[j]
      BY <1>0, <3>1, ExceptSeq
    <3>3. k = i => d = c
      BY <1>1, <3>1 DEF SingleRecorder
    <3>4. queue'[k] = c /\ k \in 1 .. Len(queue')
      BY <1>1, <3>2, <3>3
    <3>5. QED
      BY <3>4 DEF InQueue
  <2>2. CASE ~Queued(EventOf[d])
    <3>1. queue' = Append(queue, d)
      BY <1>3, <2>2 DEF Enqueue
    <3>2. Len(queue') = Len(queue) + 1 /\ queue'[k] = c
      BY <1>0, <1>1, <3>1, AppendLemma
    <3>3. k \in 1 .. Len(queue')
      BY <1>0, <3>2
    <3>4. QED
      BY <3>2, <3>3 DEF InQueue
  <2>3. QED
    BY <2>1, <2>2
<1>4. CASE DeleteItem /\ Queued(ItemEvent)
  <2>1. PICK i \in 1 .. Len(queue) : EventOf[queue[i]] = ItemEvent /\ queue' = RemoveAt(queue, i)
    BY <1>4 DEF DeleteItem, ItemsOf
  <2>2. /\ Len(queue') = Len(queue) - 1
        /\ \A j \in 1 .. Len(queue) - 1 : queue'[j] = IF j < i THEN queue[j] ELSE queue[j + 1]
    BY <1>0, <2>1, RemoveAtLemma
  <2>3. k # i
    BY <1>1, <1>4, <2>1 DEF DeleteItem, PInv, DeletesConfirmed
  <2>4. CASE k < i
    <3>1. k \in 1 .. Len(queue) - 1
      BY <1>0, <2>4
    <3>2. queue'[k] = c /\ k \in 1 .. Len(queue')
      BY <1>1, <2>2, <2>4, <3>1
    <3>3. QED
      BY <3>2 DEF InQueue
  <2>5. CASE k > i
    <3>1. k - 1 \in 1 .. Len(queue) - 1 /\ ~(k - 1 < i) /\ (k - 1) + 1 = k
      BY <1>0, <2>5
    <3>2. queue'[k - 1] = c /\ k - 1 \in 1 .. Len(queue')
      BY <1>1, <2>2, <3>1
    <3>3. QED
      BY <3>2 DEF InQueue
  <2>6. QED
    BY <2>3, <2>4, <2>5
<1>5. QED
  BY <1>2, <1>3, <1>4
  DEF Next, CallStep, WorkerStep, GatewayStep, ReturnIdempotent, StartSubmit, WriteConfirmed, WritePending,
      FetchBatch, ConfirmItem, DeleteItem, BumpItem, CommitSubmission, Acknowledge, Refuse, GiveUp,
      StrayCommit, StrayVanish, Abort, Crash, vars

LEMMA StaysQueuedStep ==
  ASSUME SingleRecorder, PInv, [Next]_vars, NEW c \in Calls
  PROVE  StaysQueued(c)'
<1> USE ProvenanceAssumption
<1> DEFINE e == EventOf[c]
<1>0. /\ e \in Events /\ TypeInv /\ SInv /\ tx \in [Events -> TxDocs]
      /\ pc \in [Actors -> CallPhases \union WorkerPhases] /\ c \in Actors /\ c # Worker
      /\ crashes \in Nat /\ queue \in Seq(Calls)
  BY DEF PInv, SInv, IInv, TypeInv, TypeOK, Actors
<1>1. pc'[c] = "lost" => crashes' > 0
  <2>1. CASE crashes' = crashes + 1
    BY <1>0, <2>1
  <2>2. ASSUME UNCHANGED crashes, pc'[c] = pc[c] PROVE pc'[c] = "lost" => crashes' > 0
    BY <2>2 DEF PInv, StaysQueued
  <2>3. ASSUME NEW d \in Calls, CallStep(d) PROVE UNCHANGED crashes /\ (pc'[c] = pc[c] \/ pc'[c] # "lost")
    BY <1>0, <2>3 DEF CallStep, ReturnIdempotent, StartSubmit, Enqueue, WriteConfirmed, WritePending
  <2>4. ASSUME WorkerStep PROVE UNCHANGED crashes /\ pc'[c] = pc[c]
    BY <1>0, <2>4 DEF WorkerStep, FetchBatch, ConfirmItem, DeleteItem, BumpItem, NextItem
  <2>5. ASSUME NEW p \in Actors, GatewayStep(p)
        PROVE  UNCHANGED crashes /\ (pc'[c] = pc[c] \/ pc'[c] # "lost")
    BY <1>0, <2>5 DEF GatewayStep, CommitSubmission, Acknowledge, Refuse, GiveUp, Unavailable
  <2>6. QED
    BY <2>1, <2>2, <2>3, <2>4, <2>5 DEF Next, StrayCommit, StrayVanish, Abort, Crash, vars
<1>2. ASSUME pc'[c] = "done", tx'[e].status = "PENDING" PROVE InQueue(c)'
  <2>1. ~Confirmed(e)
    BY <1>0, <1>2, StatusStep DEF Confirmed
  <2>2. CASE pc[c] = "done"
    <3>1. tx[e].status = "PENDING"
      <4>1. \A d \in Calls : EventOf[d] = e => d = c
        BY DEF SingleRecorder
      <4>2. ~WriteConfirmed(c) /\ ~WritePending(c)
        BY <2>2 DEF WriteConfirmed, WritePending
      <4>3. tx'[e] = tx[e] \/ tx'[e] = [tx[e] EXCEPT !.status = "CONFIRMED", !.id = txid[Worker]]
        BY <1>0, <4>1, <4>2, Writes
      <4>4. tx[e] \in TxDocs
        BY <1>0
      <4>5. QED
        BY <1>2, <4>3, <4>4 DEF TxDocs
    <3>2. QED
      BY <2>1, <2>2, <3>1, QueuedUntilConfirmed DEF PInv, StaysQueued
  <2>3. CASE pc[c] # "done"
    <3>1. ~WriteConfirmed(c)
      BY <1>0, <1>2 DEF WriteConfirmed
    <3>2. pc[c] # "idle"
      <4>1. SUFFICES ASSUME pc[c] = "idle" PROVE FALSE
        OBVIOUS
      <4>2. tx[e].status = "NONE"
        BY <4>1 DEF PInv, SInv, CallInv, NoTx
      <4>3. tx'[e] # tx[e]
        BY <1>2, <4>2
      <4>4. \E d \in Calls : EventOf[d] = e /\ (WriteConfirmed(d) \/ WritePending(d))
        BY <1>0, <4>2, <4>3, Writes
      <4>5. WriteConfirmed(c) \/ WritePending(c)
        BY <4>4 DEF SingleRecorder
      <4>6. QED
        BY <4>1, <4>5 DEF WriteConfirmed, WritePending
    <3>3. Enqueue(c)
      BY <1>0, <1>2, <2>3, <3>1, <3>2, CallMoves
    <3>4. CASE Queued(e)
      <4>1. PICK i \in 1 .. Len(queue) : queue' = [queue EXCEPT ![i] = c]
        BY <3>3, <3>4 DEF Enqueue, ItemsOf
      <4>2. Len(queue') = Len(queue) /\ queue'[i] = c
        BY <1>0, <4>1, ExceptSeq
      <4>3. QED
        BY <4>2 DEF InQueue
    <3>5. CASE ~Queued(e)
      <4>1. queue' = Append(queue, c)
        BY <3>3, <3>5 DEF Enqueue
      <4>2. Len(queue) \in Nat /\ Len(queue') = Len(queue) + 1 /\ queue'[Len(queue) + 1] = c
        BY <1>0, <4>1, AppendLemma
      <4>3. QED
        BY <4>2 DEF InQueue
    <3>6. QED
      BY <3>4, <3>5
  <2>4. QED
    BY <2>2, <2>3
<1>3. QED
  BY <1>1, <1>2 DEF StaysQueued

\* With one recording per event and no crash between the two writes, a PENDING transaction
\* is in the queue the worker reads, or about to be: whatever is refused, times out or is
\* retried, nothing is forgotten.
THEOREM PendingQueued ==
  ASSUME SingleRecorder
  PROVE  Spec => []PendingIsQueued
<1> USE ProvenanceAssumption
<1>1. Init => PInv
  <2>1. ASSUME Init PROVE DeletesConfirmed /\ \A c \in Calls : StaysQueued(c)
    BY <2>1 DEF Init, DeletesConfirmed, StaysQueued, Actors
  <2>2. ASSUME Init PROVE \A c \in Calls : HasDocument(c)
    BY <2>2, EmptySeq DEF Init, HasDocument, InQueue, InBatch, Actors
  <2>3. QED
    BY <2>1, <2>2, SingleInductive DEF PInv, RInv, SInv
<1>2. PInv /\ [Next]_vars => PInv'
  <2>1. SUFFICES ASSUME PInv, [Next]_vars PROVE PInv'
    OBVIOUS
  <2>2. SInv'
    BY <2>1, SingleInductive DEF PInv
  <2>3. \A c \in Calls : HasDocument(c)'
    BY <2>1, HasDocumentStep DEF PInv, RInv, IInv, TypeInv
  <2>4. \A c \in Calls : StaysQueued(c)'
    BY <2>1, StaysQueuedStep
  <2>5. QED
    BY <2>1, <2>2, <2>3, <2>4, DeletesConfirmedStep DEF PInv, RInv, SInv
<1>3. PInv => PendingIsQueued
  <2>1. SUFFICES ASSUME PInv, NEW e \in Events, tx[e].status = "PENDING", crashes = 0
                 PROVE  Queued(e) \/ \E c \in Calls : EventOf[c] = e /\ pc[c] = "enqueue"
    BY DEF PendingIsQueued
  <2>2. PICK c \in Calls : EventOf[c] = e
    BY <2>1 DEF PInv, SInv, DocInv
  <2>3. pc[c] \in CallPhases
    BY <2>1 DEF PInv, SInv, IInv, PhasesOK
  <2>4. pc[c] \in {"enqueue", "done"}
    BY <2>1, <2>2, <2>3 DEF PInv, SInv, CallInv, StaysQueued, CallPhases, NoTx
  <2>5. CASE pc[c] = "done"
    BY <2>1, <2>2, <2>5 DEF PInv, StaysQueued, InQueue, Queued, ItemsOf
  <2>6. QED
    BY <2>2, <2>4, <2>5
<1>4. QED
  BY <1>1, <1>2, <1>3, PTL DEF Spec

=============================================================================
