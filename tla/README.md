# SurakshaSetu: TLA+ models of the audit backend and its provenance ledger

SurakshaSetu audits network device configurations. A FastAPI backend (`src/backend/app`)
stores uploads, scans and evidence in MongoDB; the hashes of the evidence go to a
Hyperledger Fabric ledger through a Node sidecar (`src/blockchain/gateway-service`) and a
JavaScript chaincode (`src/blockchain/chaincode/security-audit-chaincode`). A Next.js
frontend (`src/frontend`) talks to the backend only.

## 1. Inventory

| Component | State it keeps | Operations | What makes it correct |
|---|---|---|---|
| Provenance recorder (`blockchain/service.py`, `fabric_gateway.py`) | `blockchain_transactions`, `blockchain_pending_queue` | `record_event` | CONFIRMED only with a commit of the same event, never taken back; PENDING is retried |
| Retry worker (`workers/blockchain_retry_worker.py`) | a snapshot of the queue | `retry_pending_transactions` every 30 s | the queue drains, nothing starves |
| Gateway sidecar (`fabricClient.ts`, `index.ts`) | one gRPC connection | `POST /invoke`, `POST /query` | 200 only after a successful commit status |
| Chaincode (`securityAuditContract.js`) | `audit:<id>` records, `device_index:<id>` lists | merge writes, reads, history | merges lose no field; the index holds every audit of a device |
| Scan service (`services/scan_service.py`) | `scans`, compliance, findings, risk, graph, optimizer documents | `create_scan`, `run_scan_pipeline` | a COMPLETED scan has all its evidence; every scan ends |
| Verifier (`blockchain/verifier.py`) | none | `verify_audit` | the verdict follows from the evidence read and the record on the ledger, whoever recorded it |
| Configurations (`services/configuration_service.py`, `api/configurations.py`) | `configurations`, `configuration_versions`, `unknown_patterns` | `process_upload`, `confirm_vendor` | one configuration per device, versions numbered once, duplicates refused |
| Remediation (`api/remediation.py`, `remediation/validator.py`) | `remediation_plans` | generate, approve, validate | SIMULATED only after a human approval, with the verdict of its own commands; an approval is recorded |
| Training (`api/training.py`, `ai/service.py`, `ai/similar_mappings.py`) | `unknown_patterns`, `training_mappings`, `training_examples` | suggest, confirm | suggestions are learnt only from what a human confirmed, per vendor |
| Reports (`api/reports.py`) | `reports` | generate, download | the report's hash is recorded |
| Vendor parsers and detection (`vendors/`, `normalization/ir_schema.py`) | none (pure) | text to Security IR, text to vendor | the two PAN-OS formats agree where both are read; a file is parsed on evidence of its vendor |
| Compliance, risk, attack graph, optimizer | none (pure); `attack_graphs`, `optimizer_runs` | functions of the IR and findings | the engines agree about one device; bands cover scores; plans are sound |
| Accounts, devices, projects | documents, tokens | create, read | one account per address; access by ownership or role |
| Assistant tools (`api/assistant.py`, `ai/tool_registry.py`) | none | `invoke_tool` | only registered tools, with confirmation where demanded |
| Redaction, PDF, RAG and AI clients, dashboard, frontend, scripts | none of interest | text processing, I/O | not modelled |

The backend is one asyncio process: a request handler, a background scan and the retry
worker interleave wherever they `await`, each MongoDB call is one atomic operation on one
document, no collection has a unique index and no transaction spans two calls. The hard
behaviours are therefore check-then-act sequences across awaits, the 8 s client timeout
against a 60 s commit deadline, crashes of the process between two writes, and the retry
of what may already have been done. `PROJECT.json` lists each hazard at its line.

## 2. Plan

The order puts first what the product is sold on: evidence that is provably the one on the
ledger. Every module has its parameters as CONSTANTS with one named assumption, one action
per await (or per endpoint where the endpoint is one atomic write), and invariants as
conjunctions of named parts, so that it can be proved about; no module declares a
`RECURSIVE` operator.

| # | Module | Composes | Abstract specification | State |
|---|---|---|---|---|
| 1 | `Provenance`: recorder, worker, sidecar | | `ProvenancePromise` | done, proved |
| 2 | `AuditLedger`: the chaincode under endorse, order, validate | | `AuditRecords` | done, proved |
| 3 | `ScanAudit`: pipeline, report, clients that record, verifier | an instance of `Provenance` | | done, proved |
| 4 | `ConfigurationStore`: uploads, vendor confirmation, pinned versions | | `ConfigurationHistory` | done, proved |
| 5 | `SecurityIR`, `Vendors`, `Compliance`, `Risk`, `AttackGraph`, `Optimizer`: the parsers and engines as operators | each extends the one before | | done |
| 6 | `Analysis`: one file from its upload to its remediation orders | 5 | | done, proved |
| 7 | `HumanReview`: accounts and tokens, the remediation workflow, the training loop | a recorder that skips events it has CONFIRMED | | done, proved |

What the plan has left is depth: more of the parts section 7 leaves out. Of the properties
the runs check, only the liveness ones have no theorem.

## 3. The modules and the code

### Provenance

One call of `record_event` is a member of `Calls`; it stands for its own arguments, which
are what is queued, submitted and stored as hashes. `EventOf` gives the
`audit_id:event_type` that `build_event_id` computes. A coroutine's `pc` names the await it
is at.

| Code | Model |
|---|---|
| `blockchain_transactions`, by `event_id` | `tx[e]`: status, whose hashes, which commit |
| `blockchain_pending_queue` in `created_at` order | `queue`, a sequence of calls |
| the committed transactions of the channel | `ledger` |
| `record_event`: `find_one`, `submit_transaction`, upsert CONFIRMED | `ReturnIdempotent`/`StartSubmit`, gateway steps, `WriteConfirmed` |
| its `except BlockchainUnavailableError` branch, two upserts | `WritePending`, `Enqueue` |
| `retry_pending_transactions`: `find().sort().limit()`, then per item submit, update, delete, or `$inc attempt_count` | `FetchBatch`, gateway steps, `ConfirmItem`, `DeleteItem`, `BumpItem` |
| `POST /invoke`, with the client timeout of 8 s and deadlines of 15, 5 and 60 s behind it | `CommitSubmission`, `Acknowledge`, `Refuse`, `GiveUp`; a submission nobody awaits is in `stray` and may commit (`StrayCommit`) or not (`StrayVanish`) |
| a PyMongo exception | `Abort` |
| the death of the process, and `on_startup` | `Crash` |

Abstracted: the contents of records (a record is its call), `attempt_count` and error texts,
which nothing reads; the worker's snapshot keeps the arguments it read. An upsert by
`event_id` is one atomic step on one document. That two concurrent upserts might insert two
documents is a behaviour of the MongoDB server that is listed as a hazard and not modelled.
The records the contract refuses are the events in `Poison`.

`ProvenancePromise` is what a caller of the recorder may rely on: an event becomes
recorded, may be shown PENDING while it is not confirmed, is shown CONFIRMED only when
recorded, and then for good. `Promise` maps recorded events to those with a commit in
`ledger` and shown statuses to the documents'.

### AuditLedger

A member of `Txs` is one submission. `Endorse` runs the contract against the peer's state
of that moment (`Merged` is `_mergeAuditRecord`, `Listed` the index append) and keeps the
versions of the keys it read; `CommitValid` and `CommitInvalid` are Fabric's validation of
that read set when the block commits; `Lose` is a missed deadline; `Resubmit` is the retry
worker's next attempt, which endorses anew. `Refuse` is `_parseRecord` throwing. The network
has one peer and one orderer, as `network/docker-compose.yaml` sets it up. `AuditRecords` is
the ledger as its readers imagine it: one atomic merge per valid transaction.

### ScanAudit

Composes `P == INSTANCE Provenance` with the pipeline of `run_scan_pipeline`, the report
endpoint and `verify_audit`. `Pipeline` is the sequence of statuses and documents the
function writes, one per await, and `at[s]` the position; the call of
`record_audit_completed` is the call `AuditCall[s]` of Provenance, and the pipeline goes on
in the step that ends it (`PipelinesResume`), as an awaited coroutine does. `Raise` is an
exception at any await and `MarkFailed` the `except` branch. `GenerateReport` makes the
report and starts `ReportCall[s]`. All other calls are those of clients (`ByClient`): `POST
/api/blockchain/record` takes any audit, any event, the pipeline's own included, and any
hashes, at any time. `AuditOf` and `HashesOf` are the arguments of a call.

A hash is named after the evidence it is of: CLEAN as the pipeline wrote it, EDITED as an
edit leaves it, OTHER for anything else, BLANK for an empty string and NONE for a field left
out. `Recorded` is the audit's record after the chaincode has merged the commits on the
ledger, field by field. A verification reads MongoDB (`ReadEvidence`) and later the ledger
(`CompareWithLedger`), and compares the hashes of configuration, compliance and risk that
the record has (`Mismatch`). Evidence may be edited in between (`EditEvidence`): that is what
`tests/test_blockchain_tamper.py` does. `read` and `height` are history variables, what the
verification read and how long the ledger was that it compared it with. The verifier's three
MongoDB reads are one step, and so are the report's.

### ConfigurationStore

A document is named by the upload that inserts it. `pc[u]` walks the awaits of
`process_upload` and then of `upload_configuration`: `CheckDuplicate`, `FindConfiguration`,
`CreateConfiguration`, `NumberVersion`, the unknown-pattern upsert (`FindPattern`,
`IncrementPattern` or `InsertPattern`), `InsertVersion`, `UpdateLatest`, `UpdateDevice`.
`confirm_vendor` is `ReadVersion`, `WriteVersion`, `ConfirmDevice`; a scan is `CreateScan`,
which pins a version by number, and `LoadVersion`, which finds one again by configuration
and number. Detection is a guess per content (`Guess`) that reaches the confidence
threshold or not (`Sure`), and a vendor hint that wins outright if the registry knows it;
any other word as a hint only suppresses the confirmation. `Parses` says which
vendor's parser accepts which content. A content has at most one command no parser maps.
The reads of `create_scan` are one step. Uploads that `validate_upload` refuses change
nothing and are left out.

With `OneAtATime` a client waits for the end of one upload of a device before the next; the
code does not enforce it. Uploads of different devices always overlap.
`ConfigurationHistory` is the README's promise "Every uploaded configuration is versioned,
never overwritten": a history per device that is only ever appended to.

### The engines and Analysis

`SecurityIR` is the dataclass `SecurityIR` with the fields an engine reads. The engines are
pure, so they are operators, one module per package; `Analysis` has the state of one scan
and one action per stage.

| Code | Model |
|---|---|
| `cisco.parse`, `fortinet.parse`, `paloalto.parse` (set commands and XML) | `ParseCisco`, `ParseFortinet`, `ParsePanSet`, `ParsePanXml`, chosen by `Parse` |
| `registry.detect_vendor` and each vendor's `detect_confidence`, the embedding fallback | `Detect`, over the seven registered vendors |
| `controls.py`, `engine.py` of compliance | a record per control and `Evaluate`, `Findings` |
| `risk/engine.py` | `RiskScore`, in hundredths, and `RiskLevel` |
| `attack_graph/builder.py` | `Graph`, `AttackPaths` |
| `optimizer/profiles.py`, `aco.py` | `Orders`, `Evaluated`, `DefaultBudget` |
| `process_upload`, `confirm_vendor` | `DetectVendor`, `ConfirmVendor` |
| `run_scan_pipeline` | `AnalyseCompliance`, `AnalyseRisk`, `BuildAttackGraph`, `Optimise` |
| `POST /api/optimizer/run` | `RunOptimizer`, from the moment findings are stored |

A configuration is a sequence of statements `[cmd, val, body]`: the command a regular
expression looks for, what it captures, and the statements of the block. What a parser does
with the text around a match (host names, addresses, versions) is left out, since no engine
reads it. An XML export is named by its root element (`<config`, `<panorama` or Junos's
`<configuration`) and well formed or not; a PAN-OS command in a template is a statement
inside one. `XmlReads` finds elements at any depth where the code's path does (`Everywhere`),
and `SetReads` the commands where the regular expressions do; each gives every field its own
reading, and `PanIR` only derives from those what both parsers derive alike. `Text` says what the model assumes of a file: blocks are at most two deep, and what
an expression captures is of its kind (`Captured`: digits are an integer, an exec-timeout is
minutes and seconds). A parser is the record of the fields it sets (`CiscoFields` and so on),
and `Filled` leaves the others at the defaults of the dataclass. Confidences are in units of 1/300, in which quarters, thirds and 0.6 shares are
whole numbers, so that comparisons with the threshold are exact. The pheromone of the ants
and the random ids that order equal findings decide which order comes out; `Orders` is the
set of all that may. With more than `MaxColony` findings the ants and the ties follow the
greedy choice, because the number of orders explodes. For one scan the order is settled by
its first run: the seed and the finding ids are fixed.

### HumanReview

A member of `Handlers` is a coroutine that serves one request, and `call[h]` is where it is
and what it read. A request that reads only what never changes before its single write is
one step (`Generate`, `Login`); the others are cut at the awaits between which another
request matters.

| Code | Model |
|---|---|
| `register`: `find_one`, `insert_one`, the token | `Register`, `InsertUser` |
| `login`; an administrator appointed in the database | `Login`, `Appoint` |
| `get_current_user`, `require_roles`, `require_project_access` | the tokens and their roles, `Access` |
| `generate_remediation`, the answer of the model being any of `Suggestions` | `Generate` |
| `approve_remediation` and the `record_event` it awaits | `Approve`, then `ReturnApproval`, or `SubmitApproval` and `WriteApproval` |
| `validate_remediation`: read, then write | `ReadPlan`, `WriteSimulated` |
| `confirm_mapping`: mapping, pattern, example, event | `Decide`, `ConfirmPattern` or `RejectPattern`, `InsertExample`, `RecordMapping` |
| `ai_suggest` | `SuggestSimilar` or `AskModel`, then `WriteSuggestion` |
| the pattern an upload inserts | `NoteUnknown` |
| an exception that the handler ignores, an unavailable model | `GiveUp` |
| the death of the process | `Crash` |

The commands of a plan are their first words, which is what `validate_commands` looks at;
the embedding of a line is its cosine with the others. `cut` is a history variable: what
requests that a fault cut off had yet to write, so that the properties can tell a fault
from an oversight. `RegisterApart` says that two registrations of one address do not
overlap; the code does not enforce it.

## 4. Runs

| Run | Instance and bounds | What it shows |
|---|---|---|
| `apart` | three events with one call each, one of them refused by the contract, batch 2, 2 gateway faults, 1 crash or MongoDB error | types; a CONFIRMED document has the hashes of its commit; CONFIRMED is final; the recorder implements its promise; queued and started events are eventually confirmed |
| `overlap` | two calls of one event, none refused, batch 2, 3 faults, 1 crash | CONFIRMED always names a commit of its own event; the queue empties for good |
| `stuck` | two calls of one event, 2 faults | violation: PENDING and nothing in the queue |
| `merge` | six submissions over two audits of one device, one without an audit id, 1 missed deadline | types; no field lost; device history complete; atomic merges; every accepted record commits |
| `verify` | one scan, a client that records its event with an edited, an empty and no hash, 1 fault, 1 crash, 1 exception, 2 edits, one verification | types; COMPLETED has all evidence; evidence is called tampered only if it was edited or somebody recorded another hash, and verified only if no commit had the last word against it |
| `ends` | one scan with its report, the same client, 2 faults, 1 crash, 1 exception, fair | the scan ends; it completes whatever the ledger does; scan and report show CONFIRMED only for an event on the ledger |
| `unrecorded` | one scan with its report, 1 fault, 1 edit, one verification | violation: verified although the ledger has no hash of the evidence |
| `serial` | four uploads over two devices, one a duplicate, a guess below the threshold with an unknown hint and without one, a parser failure, one confirmation, one scan, 1 crash, one upload at a time per device | one configuration per device, its versions numbered once and without a duplicate; numbers without a gap and `latest_version` a stored one; a version is what its vendor's parser makes of its file; a scan analyses the file it recorded; no occurrence of an unknown line is lost; the history is append-only |
| `same_number` | two overlapping uploads of one device | violation: two versions with one number |
| `analysis` | over 570 files of Cisco, FortiOS and PAN-OS in both formats, four asset contexts, three budgets, one optimizer run beside the pipeline's, every order up to four findings | aggregate controls agree with what they aggregate; paths are grounded in findings; remediating a finding never raises the risk; orders respect dependencies and larger budgets extend smaller ones; the PAN-OS formats agree field by field where both parsers read what the field comes from; a file is parsed on evidence of its vendor |
| `bands` | the same files | violation: a score between two bands is called CRITICAL |
| `review` | two requests at a time: three about accounts, or four about plans of two findings, or three about three unknown lines of two vendors, or a mix; 1 crash or failed recording | nothing is simulated or on record that was not approved; approvals are recorded; what is confirmed can be learnt from; suggestions shown as human are; one account per address |

Bounds. Each is a CONSTANT named in the module. Two faults let a first attempt and its
retry both fail while a late commit of the first arrives; three let both calls of one event
and a retry fail. One crash reaches every crash point, and its consequences (a PENDING
document without a queue item, a stray submission, a lost snapshot) already coexist with
the faults. A batch of 2 is smaller than the three items that can be queued in `apart`, and has
room for more than the refused one. Two submissions of one audit conflict on the
audit key and two of different audits on the device's index key; with six, conflicts follow
each other. Four uploads give a device a first version, a second, a duplicate, and a
neighbour that shares its unmapped command and has an unknown hint. In `verify` the client's
hashes differ from the pipeline's in one field, blank one and leave one out, and two edits
reach evidence that matches the client's commit and not the pipeline's; its single fault is
enough for the two commits to arrive in either order.

The files of `analysis` are, per vendor, an empty and a hardened device, each with every
statement the parser knows before or after it (the first and the last of several matches
decide differently), and every pair of those that are read together, such as two profiles
or two interfaces; a Cisco device on which everything is wrong; and files that detection
finds hard: shared command hints, unknown and wrong hints, a misleading embedding and one
below the threshold, exports of Junos and Panorama, a comment that looks like an export, a
cut-off one. Every order is looked at for up to four findings, which
includes the empty Cisco and PAN-OS devices; the neglected one has 16. In `review` two
requests are what every race of this code needs (one reads, another writes in between), and
the third and fourth prepare the documents they race for; an area shares no documents with
another, so mixed workloads only need the few that show it.

No deadlock is checked in the runs whose cfg says `CHECK_DEADLOCK FALSE`: their calls,
scans, uploads and requests are finite in number, and when they are over the system is at rest.

Fairness is that of the code's own scheduling. The event loop resumes every coroutine whose
await has completed (`WF` on a call's step once it has begun; no request has to be made);
`run_forever` starts a pass every 30 s and catches what a pass raises (`WF` on the worker's
steps); a gateway call ends by its timeout at the latest (`WF` on the gateway's step of each
coroutine). That it commits in the end is the assumption that the network recovers: after
`MaxFaults` failures none is left. In `AuditLedger` the sidecar carries on with what it has
endorsed, the orderer orders it and the worker submits again (`WF` on each submission's
steps). Nothing is assumed of stray submissions, crashes, exceptions, edits and requests.

## 5. What is proved

Proofs are in modules of their own and hold for every value of the constants that satisfies
the module's named assumption.

* `Provenance_proofs`. The invariant is `TypeOK`, `PhasesOK` (the worker's phase fits its
  snapshot, calls are in phases of calls), `HoldsOwnCommit` (the commit a coroutine has been
  told of is one of the very arguments it submitted) and `ConfirmedIsOnLedger`. The last is not
  inductive alone: `WriteConfirmed` and `ConfirmItem` copy a commit from the coroutine, so
  what the coroutine holds must be known to be right across all the steps in between. The
  theorems `TypeCorrect` and `ConfirmedOnLedger` hold with overlapping calls of an event, and
  so does `RetriedDocuments`, which needs no more than that a call which is about to enqueue
  has written its document. `ConfirmedHashes`, `ConfirmedFinal`,
  `PromiseKept` and `PendingQueued` assume `SingleRecorder`, that an event is recorded by one
  call, because they fail without it (run `stuck` starts with such an overwrite and refutes
  `PendingIsQueued`); under it the argument is that a call and a queue item of the same event
  never exist together. `PendingQueued` adds that the worker deletes only what it has
  confirmed, and that a call which is over has its item in the queue until then: neither
  `Enqueue` of another event nor `DeleteItem` takes it away.
* `AuditLedger_proofs`. `EndorsedIsCurrent` says that an endorsement whose read versions
  are still the current ones was computed from the current record and list; with it every
  valid commit is a merge of the current state. `TypeCorrect`, `NoFieldLost`,
  `HistoryComplete`, and the refinement `AtomicMerges`.
* `ScanAudit_proofs`. Every step is a step of the recorder inside, a stutter, or a crash it
  does not notice (`RecorderSteps`), so the invariant of `Provenance_proofs` holds throughout.
  On top, `DocumentsOK` says that the documents of all steps behind a pipeline are there, and
  that only a pipeline with all of them behind it has completed its scan; `CallsOK` that the
  recording is idle before the pipeline's call and not over while it waits; `ReadingsOK` that
  whoever compares has evidence to compare; and `VerdictsOK` what a verdict says of the commits
  it was made from. Theorems `TypeCorrect`, `EvidenceComplete`, `AlarmsJustified`,
  `VerdictsRight` and `ConfirmationsShown`, for any calls of clients, reports, edits and
  verifications. That a verdict stays justified rests on the ledger: it only grows, so the
  commits below the height a verification compared with stay what they were (`LedgerKept`).
  What a scan or report shows as confirmed was read from a document or returned by a call, and
  both name a commit of the event by the invariant of the recorder.
* `ConfigurationStore_proofs`. `NumbersLeadToVersions`, that the numbers of a configuration
  have no gap and `latest_version` is a stored one, holds also when
  uploads of a device overlap. It rests on `Supported`, that all numbers below the one an
  upload has taken are in use (versions are never deleted and confirmations never renumber
  them), and `Published`, that the number about to become `latest_version` is stored.
  Theorems `TypeCorrect` and `NumbersKept`. `OccurrencesKept` holds with overlapping uploads
  too, although two of them may count one command in two documents: the sum over the documents
  of a command lies between the stored versions with it and the uploads that got as far as
  counting, since every write adds one to one document (`SumIncrement`) and comes before the
  version.
* `ConfigurationSerial_proofs`, under `OneAtATime`, because run `same_number` refutes the
  numbering without it. `Serial` is inductive on top of the invariant above
  (`SerialInvariance`): at most one upload of a device is under way (`OneBusy`), so a device has
  one configuration (`OneConfiguration`) and its versions are numbered from 1 to their count
  (`NumbersCount`), no content twice (`ContentOnce`), with `latest_version` behind by no more
  than the update that comes next (`LatestFollows`). A number then leads to one version, so a
  confirmation writes the version it read (`OwnParses`) and a scan loads the one it pinned
  (`PinnedParsed`). Theorems `OneHistory`, `ScansTheirConfiguration` and `HistoryKept`, the
  refinement of `ConfigurationHistory`: an insert appends to the history of its device, and
  every other step leaves all histories alone. `VersionsParsed` is for any hints: what is
  COMPLETED is the parse of its own file, and a guess below the threshold waits for the human
  if the upload had no hint.
* `HumanReview_proofs`. The invariant has one part for the coroutines (`CallsOK`) and one for
  each area (`AccountsOK`, `PlansOK`, `PatternsOK`). What the part of an area says of a
  coroutine depends only on the steps of that area, so a step of one is framed out of the
  others. For plans the invariant must know that whoever is about to record an approval is
  about an approved plan, and that `validate` holds the verdict of commands that nobody
  rewrites; for lines, that mappings and examples only grow (`Longer`), so that what a
  suggestion was made from is still there when it is written. A crash or an ignored exception
  moves what is owed from `call` to `cut`. `TypeCorrect`, `ApprovalsFirst`,
  `ApprovalsRecorded`, `ConfirmationsTeach`, `SuggestionsHuman`; and `OneAccount`, which
  assumes `RegisterApart` and adds `AddressesFree`, that the address of a registration under
  way is still free.
* `Analysis_proofs`, for any files, asset contexts and budgets.
  `AggregatesAlwaysAgree`: every parser stores an IR whose list of insecure services and
  whose exposure are those of the flags and interfaces it stores (`Consistent`), and the
  engines of a scan read one IR. `PathsAlwaysGrounded`: a service on a path is a finding the
  optimizer credits with the path, and an exposed device with a critical asset has a path, for
  which the proof builds one through the graph.
  `FixesNeverRaiseRisk`: after a fix no control newly fails and those that passed still do
  (`Better`), although some may leave the rate's denominator; each of the three subscores, the
  capped sum included, then falls or stays, and so does their weighted, rounded total.
  `PlansAlwaysSound`: what the optimizer places is a chain of choices (`FoldTheorems`), each of
  a finding whose dependencies are placed; what a budget completes is a prefix of the order, and
  its residual the weights that are left. `FormatsAlwaysAgree` is about each field by itself:
  where nothing it comes from is read by one parser only (`Comparable`), the element that the
  path finds is the command that the regular expression finds, and among profiles that do not
  disagree the last one is as good as any. `TypeCorrect`: from `Text`, field by field of each
  parser. `AlwaysParsedOnEvidence`, for any hints and embeddings: detection is a fold that keeps
  the best score so far, so its result has the highest (`Beats`), and a score at the
  threshold needs an embedding or as many hints as `Evident` says, by the minima, maxima and
  divisions of the signatures.
* `FoldTheorems` has what those proofs need of the community modules' sums, folds and
  concatenations, for any finite set, function or sequence: that the recursive function behind a
  fold exists, that a sum splits, grows with its terms and does not depend on the order. Its
  inductions are minimal counterexamples: of the subsets for which a statement fails, one is
  smallest.

Assumptions. Beside the named assumption of a module a theorem has only the hypotheses given
above: `SingleRecorder`, `OneAtATime` and `RegisterApart`. The runs check instances that satisfy
them, and where the code does not enforce one, a run or section 6 shows what happens without it.

Only model-checked: liveness under fairness (`QueuedIsConfirmed`, `RecordedIsConfirmed`,
`QueueDrains`, `EveryRecordCommits`, `ScanEnds`, `CompletesRegardless`), which is out of the
prover's reach. The runs that expect a violation have no theorem.

## 6. Disagreements between the code and what the repository says

1. `stuck`: overlapping calls of one event (two reports of one scan, for instance) and the
   worker's delete by `event_id` can leave a PENDING document that nothing retries.
2. `unrecorded`: the verifier answers VERIFIED when the ledger's record has none of the
   evidence's hashes.
3. `same_number`: overlapping uploads of a device take the same version number.
4. `bands`: a risk score between two bands, such as 30.5, is called CRITICAL.

Noticed while modelling, in the models as the code has it, and without a run of its own:

* The ledger may get one event twice, after a client timeout and a late commit; the merge makes
  the second write idempotent for an unchanged record. As many refused items as a batch at
  the head of the queue starve the rest.
* A record made by `POST /api/blockchain/record` counts like the pipeline's. One of the same
  event that is confirmed first makes the pipeline's call return CONFIRMED without its hashes
  (`record_event` is idempotent per event), and one of another event merges its hashes over
  the pipeline's. Verdicts are therefore stated relative to what is on the ledger.
* A vendor hint the registry does not know (`registry.py:162`) suppresses the human
  confirmation of a low-confidence guess (`configuration_service.py:142`) without being used,
  so the guess is parsed, which `registry.py:31-35` says it should not be.
* A version that only `confirm_vendor` completes never has its unmapped commands counted
  (`api/configurations.py:236-254`).
* "<config" anywhere in a file scores 0.6 for PAN-OS (`paloalto.py:68`, where `and` binds
  before `or`), so an export of Junos, or any file with it in a comment, may be parsed as
  PAN-OS.
* `confirm_mapping` stores a mapping and records TRAINING_MAPPING_APPROVED for every decision,
  rejections included, and checks no role. An earlier confirmation of a line still has its
  example after a rejection, and may win over a later correction.
* A plan without commands passes its simulation. The hash of a second plan's approval is not
  recorded once the first of its finding is CONFIRMED. Overlapping registrations of one address
  create two accounts.
* `attack_paths_removed` counts every path with the remediated service, also those that remain
  through another one. A negative budget counts from the end of the order.
* Cisco's "no logging on", finger and bootp commands are read and still reported as unmapped.
  A FortiOS `set status enable` in any section counts as logging. `snmp_secure` can never
  fail for a PAN-OS community string, since no SNMP version is set. The two PAN-OS parsers
  differ where only one reads something: commands in templates, which the XML paths find and
  the regular expressions do not; profiles that disagree, of which the last wins in set
  commands and any in XML; a minimum length outside `password-complexity`; words where a
  number belongs; communities outside `snmp-setting`; rules of a vsys and rules with several
  members; zones outside a vsys. `FormatsAgree` leaves these out field by field.

## 7. Not modelled

* The text level of the parsers and of the redaction of secrets: regular expressions, where
  unit tests say more than a model. What a parser decides from the statements it finds is in
  `Vendors`. The XML parser's tolerance of odd documents is "well formed or not".
* The representation error of floats: scores are rounded to two decimals as in the code and
  confidences are exact, both in integer units.
* Pheromone and probabilities of the ant colony: any order they may lead to is possible, so
  nothing is said of how good the chosen one is.
* Canonicalisation before hashing (`security/hashing.py`): a hash is named after the evidence it is of.
* Duplicate documents from concurrent upserts: a matter of the MongoDB server.
* The assistant's tools, which only read, and the language-model and vector-index clients (I/O);
  a model's answer is any answer.
* Token expiry, password hashing, the PDF layout, the dashboard and other read-only endpoints,
  the frontend, and the dataset, training and deployment scripts: no state that anything races
  for, or offline.

`PROJECT.json` names every component with its status.
