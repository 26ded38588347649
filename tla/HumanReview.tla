------------------------------ MODULE HumanReview ------------------------------
(***************************************************************************)
(* What people decide: accounts and tokens (app/api/auth.py, app/auth/),   *)
(* remediation plans (app/api/remediation.py, app/remediation/validator.py)*)
(* and the meaning of unknown lines (app/api/training.py, app/ai/service.py*)
(* and similar_mappings.py).                                               *)
(*                                                                         *)
(* Requests are coroutines of one process.  A request that reads only what *)
(* never changes before its single write is one step; the others are cut   *)
(* at the awaits between which another request matters.  MongoDB survives  *)
(* a crash, the requests under way do not.  record_event is its lookup and *)
(* its write; Provenance has its retries.  Feedback, which nothing reads,  *)
(* and occurrence counts, which ConfigurationStore has, are left out.      *)
(***************************************************************************)
EXTENDS Integers, Sequences

CONSTANTS
  Emails, Roles,      \* what people register with
  Findings,           \* of the owner's scans
  VendorOf,           \* the vendor of each finding's device and of each line
  Suggestions,        \* the lists of commands the model may answer with
  Lines, Similarity,  \* unknown lines, and the cosine of two lines in percent
  SimilarEnough,      \* _threshold, in percent
  Meanings,
  Handlers,           \* coroutines serving requests
  None,
  RegisterApart,      \* TRUE: no two registrations of one e-mail address overlap
  Workloads,          \* bound: how many requests of each area arrive
  MaxFaults           \* bound: crashes and failed recordings

Decisions == {"confirm", "reject", "edit"}
APPROVAL_ROLES == {"admin", "security_analyst", "auditor"}
Areas == {"accounts", "remediation", "training"}
Owner == 1   \* the account the projects belong to

ASSUME HumanReviewAssumption ==
  /\ Roles \subseteq APPROVAL_ROLES \union {"viewer"}
  /\ Similarity \in [Lines \X Lines -> 0..100] /\ SimilarEnough \in 1..100
  /\ DOMAIN VendorOf = Findings \union Lines
  /\ None \notin Nat \union Lines \union Meanings
  /\ None \notin [status : {"CONFIRMED", "PENDING"}, plan : Nat]
  /\ RegisterApart \in BOOLEAN /\ Workloads \subseteq [Areas -> Nat] /\ MaxFaults \in Nat

VARIABLES
  users,     \* [email, role]; the position is the user_id
  tokens,    \* JWTs issued: [user, role], the role as it was then
  plans,     \* remediation_plans: [finding, commands, status, by, passed]
  approvals, \* the REMEDIATION_APPROVED document of each finding: [status, plan]
  patterns,  \* unknown_patterns: [status, mapping, suggestion] of each line
  mappings,  \* training_mappings: [line, meaning, decision]
  examples,  \* training_examples: [mapping, embedded]
  recorded,  \* mappings with a TRAINING_MAPPING_APPROVED document
  call,      \* where each coroutine is, and what it is about
  cut,       \* history: what requests cut off by a fault had yet to write
  left,      \* the requests still to arrive
  faults

accounts == <<users, tokens>>
remediation == <<plans, approvals>>
training == <<patterns, mappings, examples, recorded>>
vars == <<accounts, remediation, training, call, cut, left, faults>>

\* ref is the plan, mapping, line or e-mail address of the request, data the rest.
At(step, ref, data) == [at |-> step, ref |-> ref, data |-> data]
Idle == At("idle", None, None)

Init ==
  /\ users = <<[email |-> "owner", role |-> "security_analyst"]>>
  /\ tokens = {[user |-> Owner, role |-> "security_analyst"]}
  /\ plans = <<>> /\ approvals = [f \in Findings |-> None]
  /\ patterns = [l \in Lines |-> None]
  /\ mappings = <<>> /\ examples = <<>> /\ recorded = {}
  /\ call = [h \in Handlers |-> Idle]
  /\ cut = {} /\ left \in Workloads /\ faults = 0

Come(area) == left[area] > 0 /\ left' = [left EXCEPT ![area] = @ - 1]
Arrive(h, area) == call[h] = Idle /\ Come(area)
Go(h, state) == call' = [call EXCEPT ![h] = state]

-----------------------------------------------------------------------------
(* Accounts                                                                *)

\* Mutant: an existing account is not looked for.
Unregistered(email) == TRUE

Free(email) == \A u \in DOMAIN users : users[u].email # email

\* Self-registration never grants admin.
Requested(role) == IF role = "admin" THEN "viewer" ELSE role

Register(h, email, role) ==
  /\ Arrive(h, "accounts")
  /\ ~(RegisterApart /\ \E g \in Handlers : call[g].at = "insert" /\ call[g].ref = email)
  /\ Free(email)
  /\ Go(h, At("insert", email, Requested(role)))
  /\ UNCHANGED <<accounts, remediation, training, cut, faults>>

InsertUser(h) ==
  /\ call[h].at = "insert"
  /\ users' = Append(users, [email |-> call[h].ref, role |-> call[h].data])
  /\ tokens' = tokens \union {[user |-> Len(users) + 1, role |-> call[h].data]}
  /\ Go(h, Idle)
  /\ UNCHANGED <<remediation, training, cut, left, faults>>

Login(h, u) ==
  /\ Arrive(h, "accounts")
  /\ tokens' = tokens \union {[user |-> u, role |-> users[u].role]}
  /\ UNCHANGED <<users, remediation, training, call, cut, faults>>

\* An administrator is appointed in the database.
Appoint(u) ==
  /\ Come("accounts")
  /\ users[u].role # "admin"
  /\ users' = [users EXCEPT ![u].role = "admin"]
  /\ UNCHANGED <<tokens, remediation, training, call, cut, faults>>

-----------------------------------------------------------------------------
(* Remediation                                                             *)

\* require_project_access.
Access(t) == t.role = "admin" \/ t.user = Owner

\* _VENDOR_COMMAND_PREFIXES; any other vendor's commands are not looked up.
Prefixes ==
  [Cisco |-> {"no", "ip", "line", "interface", "username", "enable", "security", "logging",
              "ntp", "snmp-server", "access-list", "aaa"},
   Fortinet |-> {"set", "config", "edit", "unset", "next", "end"},
   PaloAlto |-> {"set", "delete"}]

\* validate_commands, of commands that are "", "disallowed" or named by their first word.
Valid(vendor, command) ==
  /\ command \notin {"", "disallowed"}
  /\ vendor \in DOMAIN Prefixes => command \in Prefixes[vendor]
AllValid(p) == \A i \in DOMAIN p.commands : Valid(VendorOf[p.finding], p.commands[i])

\* The model has answered; without an answer nothing is stored.
Generate(h, t, f, commands) ==
  /\ Arrive(h, "remediation")
  /\ Access(t)
  /\ plans' = Append(plans, [finding |-> f, commands |-> commands, status |-> "AWAITING_APPROVAL",
                             by |-> None, passed |-> None])
  /\ UNCHANGED <<accounts, approvals, training, call, cut, faults>>

\* Mutant: the approval is recorded and the plan left as it is.
RecordOnly(h, t, n) ==
  /\ Arrive(h, "remediation")
  /\ t.role \in APPROVAL_ROLES /\ Access(t)
  /\ Go(h, At("record approval", n, t.user))
  /\ UNCHANGED <<accounts, remediation, training, cut, faults>>

\* Any plan may be approved, whatever its status is: also again, and after its simulation.
Approve(h, t, n) ==
  /\ Arrive(h, "remediation")
  /\ t.role \in APPROVAL_ROLES /\ Access(t)
  /\ plans' = [plans EXCEPT ![n].status = "APPROVED", ![n].by = t.user]
  /\ Go(h, At("record approval", n, t.user))
  /\ UNCHANGED <<accounts, approvals, training, cut, faults>>

\* Mutant: any settled event will do.
SettledAnywhere(f) == \E g \in Findings : approvals[g] # None /\ approvals[g].status = "CONFIRMED"

Settled(f) == approvals[f] # None /\ approvals[f].status = "CONFIRMED"

\* record_event finds the finding's event CONFIRMED and returns ...
ReturnApproval(h) ==
  /\ call[h].at = "record approval" /\ Settled(plans[call[h].ref].finding)
  /\ Go(h, Idle)
  /\ UNCHANGED <<accounts, remediation, training, cut, left, faults>>

SubmitApproval(h) ==
  /\ call[h].at = "record approval" /\ ~Settled(plans[call[h].ref].finding)
  /\ Go(h, [call[h] EXCEPT !.at = "write approval"])
  /\ UNCHANGED <<accounts, remediation, training, cut, left, faults>>

\* Mutant: the gateway's own status word is stored.
WriteGatewayWord(h, status) ==
  /\ call[h].at = "write approval"
  /\ approvals' = [approvals EXCEPT ![plans[call[h].ref].finding] =
                                      [status |-> "COMMITTED", plan |-> call[h].ref]]
  /\ Go(h, Idle)
  /\ UNCHANGED <<accounts, plans, training, cut, left, faults>>

\* ... or writes what the gateway answered, with the hash of its own plan.
WriteApproval(h, status) ==
  /\ call[h].at = "write approval"
  /\ approvals' = [approvals EXCEPT ![plans[call[h].ref].finding] =
                                      [status |-> status, plan |-> call[h].ref]]
  /\ Go(h, Idle)
  /\ UNCHANGED <<accounts, plans, training, cut, left, faults>>

\* The retry worker confirms what is PENDING.
RetryApproval(f) ==
  /\ approvals[f] # None /\ approvals[f].status = "PENDING"
  /\ approvals' = [approvals EXCEPT ![f].status = "CONFIRMED"]
  /\ UNCHANGED <<accounts, plans, training, call, cut, left, faults>>

\* validate reads the plan, and writes what it read it for, whatever happened since.
ReadPlan(h, t, n) ==
  /\ Arrive(h, "remediation")
  /\ Access(t)
  /\ plans[n].status = "APPROVED"
  /\ Go(h, At("simulate", n, AllValid(plans[n])))
  /\ UNCHANGED <<accounts, remediation, training, cut, faults>>

WriteSimulated(h) ==
  /\ call[h].at = "simulate"
  /\ plans' = [plans EXCEPT ![call[h].ref].status = "SIMULATED", ![call[h].ref].passed = call[h].data]
  /\ Go(h, Idle)
  /\ UNCHANGED <<accounts, approvals, training, cut, left, faults>>

-----------------------------------------------------------------------------
(* Unknown lines                                                           *)

NewPattern == [status |-> "pending_review", mapping |-> None, suggestion |-> None]

\* An upload comes across the line; the status of a known pattern stays.
NoteUnknown(l) ==
  /\ Come("training")
  /\ patterns[l] = None
  /\ patterns' = [patterns EXCEPT ![l] = NewPattern]
  /\ UNCHANGED <<accounts, remediation, mappings, examples, recorded, call, cut, faults>>

\* A mapping is stored for every decision; what follows depends on it.
Decide(h, l, meaning, decision) ==
  /\ Arrive(h, "training")
  /\ mappings' = Append(mappings, [line |-> l, meaning |-> meaning, decision |-> decision])
  /\ Go(h, At(IF decision = "edit" THEN "record mapping" ELSE decision, Len(mappings) + 1, None))
  /\ UNCHANGED <<accounts, remediation, patterns, examples, recorded, cut, faults>>

\* update_many: there may be no pattern of the line.
SetPattern(l, status, m) ==
  patterns' = IF patterns[l] = None THEN patterns
              ELSE [patterns EXCEPT ![l].status = status, ![l].mapping = m]

\* Mutant: the example is left to the next request.
ConfirmAndRecord(h) ==
  /\ call[h].at = "confirm"
  /\ SetPattern(mappings[call[h].ref].line, "confirmed", call[h].ref)
  /\ Go(h, [call[h] EXCEPT !.at = "record mapping"])
  /\ UNCHANGED <<accounts, remediation, mappings, examples, recorded, cut, left, faults>>

ConfirmPattern(h) ==
  /\ call[h].at = "confirm"
  /\ SetPattern(mappings[call[h].ref].line, "confirmed", call[h].ref)
  /\ Go(h, [call[h] EXCEPT !.at = "example"])
  /\ UNCHANGED <<accounts, remediation, mappings, examples, recorded, cut, left, faults>>

\* The embedding may have failed; the example is stored all the same.
InsertExample(h, embedded) ==
  /\ call[h].at = "example"
  /\ examples' = Append(examples, [mapping |-> call[h].ref, embedded |-> embedded])
  /\ Go(h, [call[h] EXCEPT !.at = "record mapping"])
  /\ UNCHANGED <<accounts, remediation, patterns, mappings, recorded, cut, left, faults>>

\* The mapping id of an earlier confirmation stays on the pattern, and its example stays.
RejectPattern(h) ==
  /\ call[h].at = "reject"
  /\ LET l == mappings[call[h].ref].line
     IN  SetPattern(l, "rejected", IF patterns[l] = None THEN None ELSE patterns[l].mapping)
  /\ Go(h, [call[h] EXCEPT !.at = "record mapping"])
  /\ UNCHANGED <<accounts, remediation, mappings, examples, recorded, cut, left, faults>>

RecordMapping(h) ==
  /\ call[h].at = "record mapping"
  /\ recorded' = recorded \union {call[h].ref}
  /\ Go(h, Idle)
  /\ UNCHANGED <<accounts, remediation, patterns, mappings, examples, cut, left, faults>>

LineOf(i) == mappings[examples[i].mapping].line
Likeness(l, i) == Similarity[l, LineOf(i)]

\* Mutant: examples of every vendor are compared.
OfAnyVendor(l) == {i \in DOMAIN examples : examples[i].embedded}

OfVendor(l) == {i \in DOMAIN examples : examples[i].embedded /\ VendorOf[LineOf(i)] = VendorOf[l]}

\* find_similar_confirmed_mapping: MongoDB may return equals in any order.
BestMatches(l) ==
  {i \in OfVendor(l) : /\ Likeness(l, i) >= SimilarEnough
                       /\ \A j \in OfVendor(l) : Likeness(l, i) >= Likeness(l, j)}

\* A human's meaning of a similar line goes before the model's.
SuggestSimilar(h, l) ==
  /\ Arrive(h, "training")
  /\ \E i \in BestMatches(l) :
       Go(h, At("suggest", l, [source |-> "human_confirmed_similar", mapping |-> examples[i].mapping]))
  /\ UNCHANGED <<accounts, remediation, training, cut, faults>>

AskModel(h, l) ==
  /\ Arrive(h, "training")
  /\ BestMatches(l) = {}
  /\ Go(h, At("suggest", l, [source |-> "llm_suggestion", mapping |-> None]))
  /\ UNCHANGED <<accounts, remediation, training, cut, faults>>

\* The line need not be a known pattern, and may have been decided on meanwhile.
WriteSuggestion(h) ==
  /\ call[h].at = "suggest"
  /\ LET l == call[h].ref
     IN  patterns' = IF patterns[l] = None THEN patterns
                     ELSE [patterns EXCEPT ![l].suggestion = call[h].data]
  /\ Go(h, Idle)
  /\ UNCHANGED <<accounts, remediation, mappings, examples, recorded, cut, left, faults>>

-----------------------------------------------------------------------------
(* Faults                                                                  *)

\* What a fault may keep from being written though a human was told of it.
Owed(c) == c.at \in {"record approval", "write approval", "example"}

\* The model is unavailable, or the recording raises what the handler ignores.
GiveUp(h) ==
  /\ call[h].at \in {"suggest", "record approval", "write approval", "record mapping"}
  /\ faults < MaxFaults /\ faults' = faults + 1
  /\ cut' = cut \union {c \in {call[h]} : Owed(c)}
  /\ Go(h, Idle)
  /\ UNCHANGED <<accounts, remediation, training, left>>

Crash ==
  /\ faults < MaxFaults /\ faults' = faults + 1
  /\ cut' = cut \union {call[h] : h \in {g \in Handlers : Owed(call[g])}}
  /\ call' = [h \in Handlers |-> Idle]
  /\ UNCHANGED <<accounts, remediation, training, left>>

AccountStep(h) ==
  \/ \E e \in Emails, r \in Roles : Register(h, e, r)
  \/ InsertUser(h)
  \/ \E u \in DOMAIN users : Login(h, u)
RemediationStep(h) ==
  \/ \E t \in tokens : \/ \E f \in Findings, c \in Suggestions : Generate(h, t, f, c)
                       \/ \E n \in DOMAIN plans : Approve(h, t, n) \/ ReadPlan(h, t, n)
  \/ ReturnApproval(h) \/ SubmitApproval(h) \/ WriteSimulated(h)
  \/ \E s \in {"CONFIRMED", "PENDING"} : WriteApproval(h, s)
TrainingStep(h) ==
  \/ \E l \in Lines : \/ \E m \in Meanings, d \in Decisions : Decide(h, l, m, d)
                      \/ SuggestSimilar(h, l) \/ AskModel(h, l)
  \/ ConfirmPattern(h) \/ RejectPattern(h) \/ RecordMapping(h) \/ WriteSuggestion(h)
  \/ \E b \in BOOLEAN : InsertExample(h, b)

Next ==
  \/ \E h \in Handlers : AccountStep(h) \/ RemediationStep(h) \/ TrainingStep(h) \/ GiveUp(h)
  \/ \E u \in DOMAIN users : Appoint(u)
  \/ \E f \in Findings : RetryApproval(f)
  \/ \E l \in Lines : NoteUnknown(l)
  \/ Crash

Spec == Init /\ [][Next]_vars

-----------------------------------------------------------------------------
(* Properties                                                              *)

Approved(p) == p.status \in {"APPROVED", "SIMULATED"}

\* Every document has the fields of its collection, and refers to documents that exist.
TypeOK ==
  /\ users \in Seq([email : Emails \union {"owner"}, role : APPROVAL_ROLES \union {"viewer"}])
  /\ \A t \in tokens : t.user \in DOMAIN users
  /\ \A n \in DOMAIN plans :
       /\ plans[n].finding \in Findings /\ plans[n].commands \in Suggestions
       /\ plans[n].status \in {"AWAITING_APPROVAL", "APPROVED", "SIMULATED"}
       /\ plans[n].by \in DOMAIN users \union {None} /\ plans[n].passed \in BOOLEAN \union {None}
  /\ \A f \in Findings : approvals[f] # None =>
       approvals[f].status \in {"CONFIRMED", "PENDING"} /\ approvals[f].plan \in DOMAIN plans
  /\ \A i \in DOMAIN examples : examples[i].mapping \in DOMAIN mappings
  /\ recorded \subseteq DOMAIN mappings

\* Nothing is simulated or on record that was not approved: a simulated plan has its
\* approver, and its verdict is that of its own commands; the event of a finding carries
\* the hash of a plan of that finding, and this plan has been approved.
ApprovalComesFirst ==
  /\ \A n \in DOMAIN plans : plans[n].status = "SIMULATED" =>
       plans[n].by # None /\ plans[n].passed = AllValid(plans[n])
  /\ \A f \in Findings : approvals[f] # None =>
       LET n == approvals[f].plan IN plans[n].finding = f /\ Approved(plans[n]) /\ plans[n].by # None

\* An approval is on record as soon as its request is over, whatever other requests do,
\* unless a fault cut it off: the finding of every approved plan has its event.
Recording(c, n) == c.at \in {"record approval", "write approval"} /\ c.ref = n
ApprovalRecorded ==
  \A n \in DOMAIN plans : Approved(plans[n]) =>
    \/ approvals[plans[n].finding] # None
    \/ \E h \in Handlers : Recording(call[h], n)
    \/ \E c \in cut : Recording(c, n)

\* A line shown as confirmed names a human's confirmation of that very line, and its
\* example is there to learn from, unless the request is under way or a fault cut it off.
Teaching(c, m) == c.at = "example" /\ c.ref = m
ConfirmedTeaches ==
  \A l \in Lines : patterns[l] # None /\ patterns[l].status = "confirmed" =>
    LET m == patterns[l].mapping
    IN  /\ mappings[m].line = l /\ mappings[m].decision = "confirm"
        /\ \/ \E i \in DOMAIN examples : examples[i].mapping = m
           \/ \E h \in Handlers : Teaching(call[h], m)
           \/ \E c \in cut : Teaching(c, m)

\* A suggestion that is shown as a human's, with confidence 1, is what a human confirmed
\* of a similar line of the same vendor.
SuggestionIsHuman ==
  \A l \in Lines :
    patterns[l] # None /\ patterns[l].suggestion # None
      /\ patterns[l].suggestion.source = "human_confirmed_similar" =>
      LET m == patterns[l].suggestion.mapping
      IN  /\ mappings[m].decision = "confirm" /\ \E i \in DOMAIN examples : examples[i].mapping = m
          /\ VendorOf[mappings[m].line] = VendorOf[l] /\ Similarity[l, mappings[m].line] >= SimilarEnough

\* An e-mail address has one account, as long as its registrations do not overlap, and
\* nobody has an administrator's token who was not appointed.
OneAccountPerEmail ==
  /\ \A u, v \in DOMAIN users : users[u].email = users[v].email => u = v
  /\ \A t \in tokens : t.role = "admin" => users[t.user].role = "admin"
===============================================================================
