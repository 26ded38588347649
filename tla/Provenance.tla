----------------------------- MODULE Provenance -----------------------------
(***************************************************************************)
(* The provenance recorder of the backend (app/blockchain/service.py) with *)
(* the retry worker and the gateway sidecar it submits through.            *)
(*                                                                         *)
(* A call is one invocation of record_event: it carries the hashes of the  *)
(* evidence, so a call stands for its own argument list, and EventOf[c] is *)
(* the event_id "audit_id:event_type" that identifies it.  The backend is  *)
(* one asyncio process: coroutines interleave only where they await, and   *)
(* each await on MongoDB or on the gateway is one step here.  MongoDB and  *)
(* the Fabric ledger survive a crash of the process; coroutines do not.    *)
(***************************************************************************)
EXTENDS Integers, Sequences, SequencesExt

CONSTANTS
  Calls,       \* invocations of record_event
  Events,      \* event ids, the idempotency keys
  EventOf,     \* the event id each call computes
  Poison,      \* events whose record the chaincode refuses (no audit_id)
  Worker,      \* the retry worker's coroutine
  NoCall,      \* the payload of a transaction document that does not exist
  BatchSize,   \* max_batch of retry_pending_transactions
  MaxFaults,   \* bound: gateway calls that time out or fail
  MaxCrashes   \* bound: process crashes and MongoDB errors

ASSUME ProvenanceAssumption ==
  /\ EventOf \in [Calls -> Events]
  /\ Poison \subseteq Events
  /\ Worker \notin Calls
  /\ NoCall \notin Calls
  /\ BatchSize \in Nat \ {0}
  /\ MaxFaults \in Nat
  /\ MaxCrashes \in Nat

VARIABLES
  tx,       \* blockchain_transactions, by event id
  queue,    \* blockchain_pending_queue in created_at order, as stored args
  ledger,   \* committed Fabric transactions, oldest first
  stray,    \* submissions nobody awaits any more that may still commit
  pc,       \* what each coroutine awaits
  txid,     \* the commit of the submission a coroutine awaits, 0 if none yet
  batch,    \* the snapshot the worker still has to go through
  faults,   \* gateway faults so far
  crashes   \* crashes and MongoDB errors so far

vars == <<tx, queue, ledger, stray, pc, txid, batch, faults, crashes>>

Actors == Calls \union {Worker}

CallPhases   == {"idle", "submit", "confirm", "pend", "enqueue", "done", "lost"}
WorkerPhases == {"sleep", "submit", "confirm", "delete", "bump"}

\* A transaction document: CONFIRMED ones name the commit that proves them.
TxDocs == [status : {"NONE", "PENDING", "CONFIRMED"}, call : Calls \union {NoCall}, id : Nat]
NoTx   == [status |-> "NONE", call |-> NoCall, id |-> 0]

\* The args a coroutine submits: a call's own, or those of the queue item.
Args(p) == IF p = Worker THEN Head(batch) ELSE p

\* Positions of the queue item of event e: at most one, as items are upserted.
ItemsOf(e) == {i \in 1 .. Len(queue) : EventOf[queue[i]] = e}

Queued(e) == ItemsOf(e) # {}
Confirmed(e) == tx[e].status = "CONFIRMED"

Init ==
  /\ tx = [e \in Events |-> NoTx]
  /\ queue = <<>>
  /\ ledger = <<>>
  /\ stray = [c \in Calls |-> 0]
  /\ pc = [p \in Actors |-> IF p = Worker THEN "sleep" ELSE "idle"]
  /\ txid = [p \in Actors |-> 0]
  /\ batch = <<>>
  /\ faults = 0
  /\ crashes = 0

-----------------------------------------------------------------------------
(* record_event, one call                                                  *)

\* find_one: an event already CONFIRMED is not submitted again.
ReturnIdempotent(c) ==
  /\ pc[c] = "idle"
  /\ Confirmed(EventOf[c])
  /\ pc' = [pc EXCEPT ![c] = "done"]
  /\ UNCHANGED <<tx, queue, ledger, stray, txid, batch, faults, crashes>>

StartSubmit(c) ==
  /\ pc[c] = "idle"
  /\ ~Confirmed(EventOf[c])
  /\ pc' = [pc EXCEPT ![c] = "submit"]
  /\ UNCHANGED <<tx, queue, ledger, stray, txid, batch, faults, crashes>>

\* Mutant: the sidecar's own status word is stored.
WriteGatewayStatus(c) ==
  /\ pc[c] = "confirm"
  /\ tx' = [tx EXCEPT ![EventOf[c]] = [status |-> "COMMITTED", call |-> c, id |-> txid[c]]]
  /\ pc' = [pc EXCEPT ![c] = "done"]
  /\ txid' = [txid EXCEPT ![c] = 0]
  /\ UNCHANGED <<queue, ledger, stray, batch, faults, crashes>>

\* The gateway answered 200: upsert the document with this call's hashes.
\* The queue is left as it is, also when it holds an older item of the event.
WriteConfirmed(c) ==
  /\ pc[c] = "confirm"
  /\ tx' = [tx EXCEPT ![EventOf[c]] = [status |-> "CONFIRMED", call |-> c, id |-> txid[c]]]
  /\ pc' = [pc EXCEPT ![c] = "done"]
  /\ txid' = [txid EXCEPT ![c] = 0]
  /\ UNCHANGED <<queue, ledger, stray, batch, faults, crashes>>

\* Mutant: the document alone, and no queue item.
WritePendingOnly(c) ==
  /\ pc[c] = "pend"
  /\ tx' = [tx EXCEPT ![EventOf[c]] = [status |-> "PENDING", call |-> c, id |-> 0]]
  /\ pc' = [pc EXCEPT ![c] = "done"]
  /\ UNCHANGED <<queue, ledger, stray, txid, batch, faults, crashes>>

\* The gateway was unavailable: upsert the document as PENDING, whatever it
\* says by now ...
WritePending(c) ==
  /\ pc[c] = "pend"
  /\ tx' = [tx EXCEPT ![EventOf[c]] = [status |-> "PENDING", call |-> c, id |-> 0]]
  /\ pc' = [pc EXCEPT ![c] = "enqueue"]
  /\ UNCHANGED <<queue, ledger, stray, txid, batch, faults, crashes>>

\* ... and then upsert the queue item, which keeps its created_at.
Enqueue(c) ==
  /\ pc[c] = "enqueue"
  /\ IF Queued(EventOf[c])
       THEN \E i \in ItemsOf(EventOf[c]) : queue' = [queue EXCEPT ![i] = c]
       ELSE queue' = Append(queue, c)
  /\ pc' = [pc EXCEPT ![c] = "done"]
  /\ UNCHANGED <<tx, ledger, stray, txid, batch, faults, crashes>>

-----------------------------------------------------------------------------
(* retry_pending_transactions, one pass of the worker                      *)

FetchBatch ==
  /\ pc[Worker] = "sleep"
  /\ queue # <<>>
  /\ batch' = SubSeq(queue, 1, IF BatchSize < Len(queue) THEN BatchSize ELSE Len(queue))
  /\ pc' = [pc EXCEPT ![Worker] = "submit"]
  /\ UNCHANGED <<tx, queue, ledger, stray, txid, faults, crashes>>

\* The next item of the snapshot, or back to sleep after the last one.
NextItem ==
  /\ batch' = Tail(batch)
  /\ pc' = [pc EXCEPT ![Worker] = IF Len(batch) = 1 THEN "sleep" ELSE "submit"]

\* Mutant: the item's event taken from the wrong end of the snapshot.
LastItemEvent == EventOf[batch[Len(batch)]]

\* The event of the item the worker handles.
ItemEvent == EventOf[Head(batch)]

\* An update without upsert, of the status and the commit only: the hashes in
\* the document stay those of the call that wrote it last.
ConfirmItem ==
  /\ pc[Worker] = "confirm"
  /\ tx' = IF tx[ItemEvent].status = "NONE" THEN tx
           ELSE [tx EXCEPT ![ItemEvent] =
                   [@ EXCEPT !.status = "CONFIRMED", !.id = txid[Worker]]]
  /\ pc' = [pc EXCEPT ![Worker] = "delete"]
  /\ txid' = [txid EXCEPT ![Worker] = 0]
  /\ UNCHANGED <<queue, ledger, stray, batch, faults, crashes>>

\* delete_one by event id: it takes whatever args the item holds by now.
DeleteItem ==
  /\ pc[Worker] = "delete"
  /\ IF Queued(ItemEvent)
       THEN \E i \in ItemsOf(ItemEvent) : queue' = RemoveAt(queue, i)
       ELSE UNCHANGED queue
  /\ NextItem
  /\ UNCHANGED <<tx, ledger, stray, txid, faults, crashes>>

\* Mutants: a failed item leaves the queue; its document says PENDING again.
DropItem ==
  /\ pc[Worker] = "bump"
  /\ queue' = SelectSeq(queue, LAMBDA c : EventOf[c] # ItemEvent)
  /\ NextItem
  /\ UNCHANGED <<tx, ledger, stray, txid, faults, crashes>>
BumpDocument ==
  /\ pc[Worker] = "bump"
  /\ tx' = [tx EXCEPT ![ItemEvent] = [@ EXCEPT !.status = "PENDING", !.id = 0]]
  /\ NextItem
  /\ UNCHANGED <<queue, ledger, stray, txid, faults, crashes>>

\* The gateway was unavailable: only attempt_count, which nothing reads.
BumpItem ==
  /\ pc[Worker] = "bump"
  /\ NextItem
  /\ UNCHANGED <<tx, queue, ledger, stray, txid, faults, crashes>>

-----------------------------------------------------------------------------
(* The gateway sidecar and the ledger behind submit_transaction            *)

\* Where a coroutine goes on BlockchainUnavailableError.
Unavailable(p) ==
  /\ pc' = [pc EXCEPT ![p] = IF p = Worker THEN "bump" ELSE "pend"]
  /\ txid' = [txid EXCEPT ![p] = 0]

CommitSubmission(p) ==
  /\ pc[p] = "submit"
  /\ txid[p] = 0
  /\ EventOf[Args(p)] \notin Poison
  /\ ledger' = Append(ledger, Args(p))
  /\ txid' = [txid EXCEPT ![p] = Len(ledger) + 1]
  /\ UNCHANGED <<tx, queue, stray, pc, batch, faults, crashes>>

\* Mutant: the commit status is not looked at.
AnyStatus(p) == TRUE

\* status.successful, as commit.getStatus reports it.
CommitSucceeded(p) == txid[p] # 0

\* The sidecar answers 200 with the transaction id.
Acknowledge(p) ==
  /\ pc[p] = "submit"
  /\ CommitSucceeded(p)
  /\ pc' = [pc EXCEPT ![p] = "confirm"]
  /\ UNCHANGED <<tx, queue, ledger, stray, txid, batch, faults, crashes>>

\* The chaincode throws at endorsement: 502, every time.
Refuse(p) ==
  /\ pc[p] = "submit"
  /\ EventOf[Args(p)] \in Poison
  /\ Unavailable(p)
  /\ UNCHANGED <<tx, queue, ledger, stray, batch, faults, crashes>>

\* A submission the backend stopped waiting for and that has not committed.
MayStillCommit(p) ==
  pc[p] = "submit" /\ txid[p] = 0 /\ EventOf[Args(p)] \notin Poison

\* The 8 s client timeout, a dead sidecar, a failed commit: the backend gives
\* up; what is under way in the sidecar (15 + 5 + 60 s) is not cancelled.
GiveUp(p) ==
  /\ pc[p] = "submit"
  /\ faults < MaxFaults
  /\ faults' = faults + 1
  /\ stray' = IF MayStillCommit(p) THEN [stray EXCEPT ![Args(p)] = @ + 1] ELSE stray
  /\ Unavailable(p)
  /\ UNCHANGED <<tx, queue, ledger, batch, crashes>>

StrayCommit(c) ==
  /\ stray[c] > 0
  /\ stray' = [stray EXCEPT ![c] = @ - 1]
  /\ ledger' = Append(ledger, c)
  /\ UNCHANGED <<tx, queue, pc, txid, batch, faults, crashes>>

StrayVanish(c) ==
  /\ stray[c] > 0
  /\ stray' = [stray EXCEPT ![c] = @ - 1]
  /\ UNCHANGED <<tx, queue, ledger, pc, txid, batch, faults, crashes>>

-----------------------------------------------------------------------------
(* Failures of the backend                                                 *)

Busy(p) == pc[p] \notin {"idle", "done", "lost", "sleep"}

\* Mutant: run_forever without its try: the worker's task ends.
AbortForGood(p) ==
  /\ pc[p] \in {"confirm", "pend", "enqueue", "delete", "bump"}
  /\ crashes < MaxCrashes
  /\ crashes' = crashes + 1
  /\ pc' = [pc EXCEPT ![p] = "lost"]
  /\ txid' = [txid EXCEPT ![p] = 0]
  /\ batch' = IF p = Worker THEN <<>> ELSE batch
  /\ UNCHANGED <<tx, queue, ledger, stray, faults>>

\* A MongoDB error: record_event raises into its caller, which logs it; the
\* worker's pass ends and run_forever starts the next one after its sleep.
Abort(p) ==
  /\ pc[p] \in {"confirm", "pend", "enqueue", "delete", "bump"}
  /\ crashes < MaxCrashes
  /\ crashes' = crashes + 1
  /\ pc' = [pc EXCEPT ![p] = IF p = Worker THEN "sleep" ELSE "lost"]
  /\ txid' = [txid EXCEPT ![p] = 0]
  /\ batch' = IF p = Worker THEN <<>> ELSE batch
  /\ UNCHANGED <<tx, queue, ledger, stray, faults>>

\* The process dies and starts again: on_startup creates the worker anew and
\* resumes no call.
Crash ==
  /\ \E p \in Actors : Busy(p)
  /\ crashes < MaxCrashes
  /\ crashes' = crashes + 1
  /\ stray' = [c \in Calls |->
                 stray[c] + (IF MayStillCommit(c) THEN 1 ELSE 0)
                          + (IF MayStillCommit(Worker) /\ Head(batch) = c THEN 1 ELSE 0)]
  /\ pc' = [p \in Actors |-> IF p = Worker THEN "sleep"
                             ELSE IF Busy(p) THEN "lost" ELSE pc[p]]
  /\ txid' = [p \in Actors |-> 0]
  /\ batch' = <<>>
  /\ UNCHANGED <<tx, queue, ledger, faults>>

-----------------------------------------------------------------------------
CallStep(c) ==
  \/ ReturnIdempotent(c) \/ StartSubmit(c)
  \/ WriteConfirmed(c) \/ WritePending(c) \/ Enqueue(c)

WorkerStep == FetchBatch \/ ConfirmItem \/ DeleteItem \/ BumpItem

GatewayStep(p) == CommitSubmission(p) \/ Acknowledge(p) \/ Refuse(p) \/ GiveUp(p)

Next ==
  \/ \E c \in Calls : CallStep(c) \/ StrayCommit(c) \/ StrayVanish(c)
  \/ WorkerStep
  \/ \E p \in Actors : GatewayStep(p) \/ Abort(p)
  \/ Crash

Spec == Init /\ [][Next]_vars

\* The event loop runs every ready coroutine, the worker wakes every 30 s, a
\* gateway call always returns (8 s), and the network recovers: after
\* MaxFaults failures submissions commit.
Fairness ==
  /\ \A c \in Calls : WF_vars(CallStep(c) /\ pc[c] # "idle")
  /\ WF_vars(WorkerStep)
  /\ \A p \in Actors : WF_vars(GatewayStep(p))

FairSpec == Spec /\ Fairness

-----------------------------------------------------------------------------
(* Properties                                                              *)

\* Every document, queue item, coroutine and counter has its type.
TypeOK ==
  /\ tx \in [Events -> TxDocs]
  /\ queue \in Seq(Calls)
  /\ ledger \in Seq(Calls)
  /\ stray \in [Calls -> Nat]
  /\ pc \in [Actors -> CallPhases \union WorkerPhases]
  /\ txid \in [Actors -> Nat]
  /\ batch \in Seq(Calls)
  /\ faults \in 0 .. MaxFaults
  /\ crashes \in 0 .. MaxCrashes

\* A transaction shown as CONFIRMED names a commit on the ledger, and that
\* commit is of the same event: whatever mixture of timeouts, retries, stale
\* worker snapshots and crashes led there (service.py record_event and
\* retry_pending_transactions).
ConfirmedIsOnLedger ==
  \A e \in Events : Confirmed(e) =>
    /\ tx[e].id \in 1 .. Len(ledger)
    /\ EventOf[ledger[tx[e].id]] = e

\* The worker's update has no upsert, so a queue item, or one in the worker's
\* snapshot, whose document did not exist would lose its confirmation.
RetriedHasDocument ==
  /\ \A i \in 1 .. Len(queue) : tx[EventOf[queue[i]]].status # "NONE"
  /\ \A i \in 1 .. Len(batch) : tx[EventOf[batch[i]]].status # "NONE"

\* The hashes of a CONFIRMED document are those the named commit wrote.
ConfirmedHashesAreCommitted ==
  \A e \in Events : Confirmed(e) =>
    /\ tx[e].id \in 1 .. Len(ledger)
    /\ ledger[tx[e].id] = tx[e].call

\* A CONFIRMED transaction is never shown as PENDING again.
ConfirmedIsFinal ==
  [][\A e \in Events : Confirmed(e) => Confirmed(e)']_vars

\* Unless the process died between the two writes, a PENDING transaction is in
\* the queue the worker reads, or about to be.
PendingIsQueued ==
  \A e \in Events : tx[e].status = "PENDING" /\ crashes = 0 =>
    \/ Queued(e)
    \/ \E c \in Calls : EventOf[c] = e /\ pc[c] = "enqueue"

\* Whatever the queue holds is eventually confirmed, unless the chaincode
\* refuses it.
QueuedIsConfirmed ==
  \A e \in Events \ Poison : Queued(e) ~> Confirmed(e)

\* With no event the chaincode refuses, the queue is eventually empty for good:
\* no retry repeats what was done, no crash leaves an item nobody takes.
QueueDrains == <>[](queue = <<>>)

\* Every event the backend started to record is eventually CONFIRMED for good,
\* unless the chaincode refuses it or the process died on the way.
RecordedIsConfirmed ==
  \A c \in Calls : pc[c] = "submit" /\ EventOf[c] \notin Poison
                     ~> crashes > 0 \/ []Confirmed(EventOf[c])

\* The recorder implements its promise: what is recorded are the events of the
\* ledger's commits, what is shown are the documents' statuses.
Promise == INSTANCE ProvenancePromise WITH
  recorded <- {EventOf[ledger[i]] : i \in 1 .. Len(ledger)},
  shown    <- [e \in Events |-> tx[e].status]

\* The documents' statuses follow the promise, step by step: PENDING to
\* CONFIRMED, CONFIRMED only for what the ledger has, and never back.
KeepsPromise == Promise!Spec
=============================================================================
