-------------------------- MODULE HumanReview_proofs --------------------------
(***************************************************************************)
(* The safety of HumanReview for any people, findings, lines and handlers, *)
(* any answers of the model, and any number of requests and faults.        *)
(*                                                                         *)
(* The invariant has a part for each area and one for the coroutines.  A   *)
(* step of one area is framed out of the others: what the part of an area  *)
(* says of a coroutine depends only on the steps of that area, and a fault *)
(* moves what is owed from call to cut.                                    *)
(***************************************************************************)
EXTENDS HumanReview, TLAPS

AllRoles == APPROVAL_ROLES \union {"viewer"}
Accounts == [email : Emails \union {"owner"}, role : AllRoles]
Plans == [finding : Findings, commands : Suggestions,
          status : {"AWAITING_APPROVAL", "APPROVED", "SIMULATED"},
          by : Nat \union {None}, passed : BOOLEAN \union {None}]
Approvals == [status : {"CONFIRMED", "PENDING"}, plan : Nat]
Mappings == [line : Lines, meaning : Meanings, decision : Decisions]
Examples == [mapping : Nat, embedded : BOOLEAN]
Suggested == [source : {"human_confirmed_similar", "llm_suggestion"}, mapping : Nat \union {None}]
Patterns == [status : {"pending_review", "confirmed", "rejected"}, mapping : Nat \union {None},
             suggestion : Suggested \union {None}]

RecordSteps == {"record approval", "write approval"}
RemediationSteps == RecordSteps \union {"simulate"}
ConfirmSteps == {"confirm", "example"}
MappingSteps == ConfirmSteps \union {"reject", "record mapping"}
TrainingSteps == MappingSteps \union {"suggest"}
Steps == {"idle", "insert"} \union RemediationSteps \union TrainingSteps

-----------------------------------------------------------------------------
(* The inductive invariant                                                 *)

CallsOK ==
  call \in [Handlers -> [at : Steps,
                         ref : {None} \union Emails \union Nat \union Lines,
                         data : {None} \union AllRoles \union Nat \union BOOLEAN \union Suggested]]

AccountsOK ==
  /\ users \in Seq(Accounts)
  /\ tokens \subseteq [user : Nat, role : AllRoles]
  /\ \A t \in tokens : /\ t.user \in DOMAIN users
                       /\ t.role = "admin" => users[t.user].role = "admin"
  /\ \A h \in Handlers : call[h].at = "insert" => call[h].ref \in Emails /\ call[h].data \in AllRoles

\* An address that is being registered is free, and registered by one request.
AddressesFree ==
  /\ \A u, v \in DOMAIN users : users[u].email = users[v].email => u = v
  /\ \A h \in Handlers : call[h].at = "insert" =>
       /\ \A u \in DOMAIN users : users[u].email # call[h].ref
       /\ \A g \in Handlers : call[g].at = "insert" /\ call[g].ref = call[h].ref => g = h

PlansOK ==
  /\ plans \in Seq(Plans)
  /\ \A n \in DOMAIN plans :
       /\ plans[n].by \in DOMAIN users \union {None}
       /\ Approved(plans[n]) => plans[n].by # None
       /\ plans[n].status = "SIMULATED" => plans[n].passed = AllValid(plans[n])
  /\ approvals \in [Findings -> Approvals \union {None}]
  /\ \A f \in Findings : approvals[f] # None =>
       /\ approvals[f].plan \in DOMAIN plans
       /\ plans[approvals[f].plan].finding = f /\ Approved(plans[approvals[f].plan])
  /\ \A h \in Handlers : call[h].at \in RemediationSteps =>
       /\ call[h].ref \in DOMAIN plans /\ Approved(plans[call[h].ref])
       /\ call[h].at = "simulate" => call[h].data = AllValid(plans[call[h].ref])
  /\ ApprovalRecorded

\* What a human confirmed of a line that is like l, and of its vendor.
Taught(l, m, ms, es) ==
  /\ m \in DOMAIN ms /\ ms[m].decision = "confirm" /\ \E i \in DOMAIN es : es[i].mapping = m
  /\ VendorOf[ms[m].line] = VendorOf[l] /\ Similarity[l, ms[m].line] >= SimilarEnough

Sound(l, s, ms, es) ==
  s \in Suggested /\ (s.source = "human_confirmed_similar" => Taught(l, s.mapping, ms, es))

Documents ==
  /\ patterns \in [Lines -> Patterns \union {None}]
  /\ mappings \in Seq(Mappings) /\ examples \in Seq(Examples)
  /\ recorded \subseteq DOMAIN mappings
  /\ \A i \in DOMAIN examples : /\ examples[i].mapping \in DOMAIN mappings
                                /\ mappings[examples[i].mapping].decision = "confirm"

\* Of one coroutine, and of the pattern of one line.
Reviews(c, ms, es) ==
  /\ c.at \in MappingSteps => c.ref \in DOMAIN ms
  /\ c.at \in ConfirmSteps => ms[c.ref].decision = "confirm"
  /\ c.at = "suggest" => c.ref \in Lines /\ Sound(c.ref, c.data, ms, es)
Shows(l, p, ms, es) ==
  p # None => /\ p.suggestion # None => Sound(l, p.suggestion, ms, es)
              /\ p.status = "confirmed" => p.mapping \in DOMAIN ms

PatternsOK ==
  /\ Documents
  /\ \A h \in Handlers : Reviews(call[h], mappings, examples)
  /\ \A l \in Lines : Shows(l, patterns[l], mappings, examples)
  /\ ConfirmedTeaches

IInv == CallsOK /\ AccountsOK /\ PlansOK /\ PatternsOK

-----------------------------------------------------------------------------
(* Frames                                                                  *)

\* Accounts depend on nothing but accounts and the registrations under way.
LEMMA AccountsFrame ==
  ASSUME AccountsOK, UNCHANGED accounts,
         \A g \in Handlers : call'[g].at = "insert" => call'[g] = call[g]
  PROVE  AccountsOK'
BY DEF AccountsOK, accounts

LEMMA AddressesFrame ==
  ASSUME AddressesFree, UNCHANGED users,
         \A g \in Handlers : call'[g].at = "insert" => call'[g] = call[g]
  PROVE  AddressesFree'
BY DEF AddressesFree

\* The part of a plan that its verdict depends on.
LEMMA SameVerdict ==
  ASSUME NEW p, NEW q, p.finding = q.finding, p.commands = q.commands
  PROVE  AllValid(p) = AllValid(q)
BY DEF AllValid

LEMMA VerdictIsBoolean == ASSUME NEW p PROVE AllValid(p) \in BOOLEAN
BY DEF AllValid

\* Plans and approvals keep their invariant when no other coroutine comes to a step
\* of theirs, and none leaves a recording but for cut.
LEMMA PlansFrame ==
  ASSUME PlansOK, plans' = plans, approvals' = approvals,
         DOMAIN users \subseteq DOMAIN users', cut \subseteq cut',
         \A g \in Handlers : call'[g].at \in RemediationSteps => call'[g] = call[g],
         \A g \in Handlers : call[g].at \in RecordSteps => call'[g] = call[g] \/ call[g] \in cut'
  PROVE  PlansOK'
<1>1. \A n \in DOMAIN plans : /\ Approved(plans'[n]) <=> Approved(plans[n])
                              /\ AllValid(plans'[n]) = AllValid(plans[n])
  BY DEF Approved
<1>2. ApprovalRecorded'
  <2> SUFFICES ASSUME NEW n \in DOMAIN plans, Approved(plans[n]), approvals[plans[n].finding] = None
               PROVE  \/ \E h \in Handlers : Recording(call'[h], n)
                      \/ \E c \in cut' : Recording(c, n)
    BY <1>1 DEF ApprovalRecorded
  <2>1. CASE \E h \in Handlers : Recording(call[h], n)
    BY <2>1 DEF Recording, RecordSteps
  <2>2. CASE \E c \in cut : Recording(c, n)
    BY <2>2
  <2>3. QED
    BY <2>1, <2>2 DEF PlansOK, ApprovalRecorded
<1>3. \A h \in Handlers : call'[h].at \in RemediationSteps =>
       /\ call'[h].ref \in DOMAIN plans /\ Approved(plans[call'[h].ref])
       /\ call'[h].at = "simulate" => call'[h].data = AllValid(plans[call'[h].ref])
  BY DEF PlansOK
<1>4. QED
  BY <1>1, <1>2, <1>3 DEF PlansOK, Approved

\* What was sound stays so: mappings and examples are only ever added.
Longer(long, short) == DOMAIN short \subseteq DOMAIN long /\ \A i \in DOMAIN short : long[i] = short[i]

LEMMA SoundStays ==
  ASSUME NEW ms, NEW es, NEW ms2, NEW es2, Longer(ms2, ms), Longer(es2, es)
  PROVE  /\ \A l, s : Sound(l, s, ms, es) => Sound(l, s, ms2, es2)
         /\ \A c : Reviews(c, ms, es) => Reviews(c, ms2, es2)
         /\ \A l, p : Shows(l, p, ms, es) => Shows(l, p, ms2, es2)
<1>1. \A l, m : Taught(l, m, ms, es) => Taught(l, m, ms2, es2)
  BY DEF Taught, Longer
<1>2. \A l, s : Sound(l, s, ms, es) => Sound(l, s, ms2, es2)
  BY <1>1 DEF Sound
<1>3. \A c : Reviews(c, ms, es) => Reviews(c, ms2, es2)
  BY <1>2 DEF Reviews, Longer, MappingSteps
<1>4. \A l, p : Shows(l, p, ms, es) => Shows(l, p, ms2, es2)
  BY <1>2 DEF Shows, Longer
<1>5. QED
  BY <1>2, <1>3, <1>4

\* A confirmed line keeps its example, or the request or the fault that owes it.
LEMMA StillTeaches ==
  ASSUME PatternsOK, Longer(mappings', mappings), Longer(examples', examples), cut \subseteq cut',
         \A l \in Lines : patterns'[l] # None /\ patterns'[l].status = "confirmed" =>
           /\ patterns[l] # None /\ patterns[l].status = "confirmed"
           /\ patterns'[l].mapping = patterns[l].mapping,
         \A g \in Handlers, m \in DOMAIN mappings : Teaching(call[g], m) =>
           \/ Teaching(call'[g], m) \/ call[g] \in cut'
           \/ \E i \in DOMAIN examples' : examples'[i].mapping = m
  PROVE  ConfirmedTeaches'
<1>1. SUFFICES ASSUME NEW l \in Lines, patterns'[l] # None, patterns'[l].status = "confirmed"
               PROVE  LET m == patterns'[l].mapping
                      IN  /\ mappings'[m].line = l /\ mappings'[m].decision = "confirm"
                          /\ \/ \E i \in DOMAIN examples' : examples'[i].mapping = m
                             \/ \E h \in Handlers : Teaching(call'[h], m)
                             \/ \E c \in cut' : Teaching(c, m)
  BY DEF ConfirmedTeaches
<1> DEFINE m == patterns[l].mapping
<1>2. /\ patterns[l] # None /\ patterns[l].status = "confirmed" /\ patterns'[l].mapping = m
      /\ m \in DOMAIN mappings
  BY <1>1 DEF PatternsOK, Shows
<1>3. /\ mappings[m].line = l /\ mappings[m].decision = "confirm"
      /\ \/ \E i \in DOMAIN examples : examples[i].mapping = m
         \/ \E h \in Handlers : Teaching(call[h], m)
         \/ \E c \in cut : Teaching(c, m)
  BY <1>2 DEF PatternsOK, ConfirmedTeaches
<1> HIDE DEF m
<1>4. mappings'[m] = mappings[m]
  BY <1>2 DEF Longer
<1>5. CASE \E i \in DOMAIN examples : examples[i].mapping = m
  BY <1>2, <1>3, <1>4, <1>5 DEF Longer
<1>6. CASE \E h \in Handlers : Teaching(call[h], m)
  BY <1>2, <1>3, <1>4, <1>6
<1>7. CASE \E c \in cut : Teaching(c, m)
  BY <1>2, <1>3, <1>4, <1>7
<1>8. QED
  BY <1>3, <1>5, <1>6, <1>7

\* Patterns, mappings and examples likewise.
LEMMA PatternsFrame ==
  ASSUME PatternsOK, patterns' = patterns, mappings' = mappings, examples' = examples,
         recorded' = recorded, cut \subseteq cut',
         \A g \in Handlers : call'[g].at \in TrainingSteps => call'[g] = call[g],
         \A g \in Handlers : call[g].at = "example" => call'[g] = call[g] \/ call[g] \in cut'
  PROVE  PatternsOK'
<1>1. Longer(mappings', mappings) /\ Longer(examples', examples)
  BY DEF Longer
<1>2. \A m : \A g \in Handlers : Teaching(call[g], m) => Teaching(call'[g], m) \/ call[g] \in cut'
  BY DEF Teaching
<1>3. ConfirmedTeaches'
  BY <1>1, <1>2, StillTeaches
<1>4. \A g \in Handlers : Reviews(call'[g], mappings, examples)
  <2> TAKE g \in Handlers
  <2>1. CASE call'[g].at \in TrainingSteps
    BY <2>1 DEF PatternsOK
  <2>2. CASE call'[g].at \notin TrainingSteps
    BY <2>2 DEF Reviews, TrainingSteps, MappingSteps
  <2>3. QED
    BY <2>1, <2>2
<1>5. QED
  BY <1>3, <1>4 DEF PatternsOK, Documents

\* A coroutine goes on, the others stay.
LEMMA GoOn ==
  ASSUME CallsOK, NEW h \in Handlers, NEW c, Go(h, c)
  PROVE  call'[h] = c /\ \A g \in Handlers : g # h => call'[g] = call[g]
BY DEF CallsOK, Go

LEMMA GoOnOK ==
  ASSUME CallsOK, NEW h \in Handlers, NEW c, Go(h, c),
         c \in [at : Steps, ref : {None} \union Emails \union Nat \union Lines,
                data : {None} \union AllRoles \union Nat \union BOOLEAN \union Suggested]
  PROVE  CallsOK'
BY DEF CallsOK, Go

LEMMA Fields == \A s, r, d : At(s, r, d).at = s /\ At(s, r, d).ref = r /\ At(s, r, d).data = d
BY DEF At

LEMMA IdleFields == Idle.at = "idle"
BY DEF Idle, At

\* The areas a step of one coroutine stays out of.
LEMMA StaysOutOfAccounts ==
  ASSUME CallsOK, AccountsOK, NEW h \in Handlers, NEW c, Go(h, c), c.at # "insert",
         users' = users, tokens' = tokens
  PROVE  AccountsOK'
<1>1. \A g \in Handlers : call'[g].at = "insert" => call'[g] = call[g]
  BY GoOn
<1>2. QED
  BY <1>1, AccountsFrame DEF accounts

LEMMA StaysOutOfAddresses ==
  ASSUME CallsOK, AddressesFree, NEW h \in Handlers, NEW c, Go(h, c), c.at # "insert", users' = users
  PROVE  AddressesFree'
<1>1. \A g \in Handlers : call'[g].at = "insert" => call'[g] = call[g]
  BY GoOn
<1>2. QED
  BY <1>1, AddressesFrame

LEMMA StaysOutOfPlans ==
  ASSUME CallsOK, PlansOK, NEW h \in Handlers, NEW c, Go(h, c),
         c.at \notin {"record approval", "write approval", "simulate"},
         call[h].at \notin {"record approval", "write approval"},
         plans' = plans, approvals' = approvals, cut' = cut, DOMAIN users \subseteq DOMAIN users'
  PROVE  PlansOK'
<1>1. \A g \in Handlers : call'[g].at \in RemediationSteps => call'[g] = call[g]
  BY GoOn DEF RemediationSteps, RecordSteps
<1>2. \A g \in Handlers : call[g].at \in RecordSteps => call'[g] = call[g] \/ call[g] \in cut'
  BY GoOn DEF RecordSteps
<1>3. QED
  BY <1>1, <1>2, PlansFrame

LEMMA StaysOutOfPatterns ==
  ASSUME CallsOK, PatternsOK, NEW h \in Handlers, NEW c, Go(h, c),
         c.at \notin {"confirm", "example", "reject", "record mapping", "suggest"},
         call[h].at # "example",
         patterns' = patterns, mappings' = mappings, examples' = examples, recorded' = recorded, cut' = cut
  PROVE  PatternsOK'
<1>1. \A g \in Handlers : call'[g].at \in TrainingSteps => call'[g] = call[g]
  BY GoOn DEF TrainingSteps, MappingSteps, ConfirmSteps
<1>2. \A g \in Handlers : call[g].at = "example" => call'[g] = call[g] \/ call[g] \in cut'
  BY GoOn
<1>3. QED
  BY <1>1, <1>2, PatternsFrame

-----------------------------------------------------------------------------
(* Accounts                                                                *)

LEMMA RegisterStep ==
  ASSUME IInv, NEW h \in Handlers, NEW e \in Emails, NEW r \in Roles, Register(h, e, r)
  PROVE  IInv'
<1>0. /\ Go(h, At("insert", e, Requested(r))) /\ call[h] = Idle /\ call[h].at = "idle"
      /\ UNCHANGED <<users, tokens, plans, approvals, patterns, mappings, examples, recorded, cut>>
  BY IdleFields DEF Register, Arrive, accounts, remediation, training
<1>1. Requested(r) \in AllRoles
  BY HumanReviewAssumption DEF Requested, AllRoles
<1>2. CallsOK'
  BY <1>0, <1>1, GoOnOK DEF IInv, At, Steps
<1>3. call'[h] = At("insert", e, Requested(r)) /\ \A g \in Handlers : g # h => call'[g] = call[g]
  BY <1>0, GoOn DEF IInv
<1>4. AccountsOK'
  BY <1>0, <1>1, <1>3 DEF IInv, AccountsOK, accounts, At
<1>5. At("insert", e, Requested(r)).at = "insert"
  BY Fields
<1>6. PlansOK' /\ PatternsOK'
  BY <1>0, <1>5, StaysOutOfPlans, StaysOutOfPatterns DEF IInv
<1>7. QED
  BY <1>2, <1>4, <1>6 DEF IInv

LEMMA InsertUserStep ==
  ASSUME IInv, NEW h \in Handlers, InsertUser(h)
  PROVE  IInv'
<1>0. /\ Go(h, Idle) /\ call[h].at = "insert"
      /\ UNCHANGED <<plans, approvals, patterns, mappings, examples, recorded, cut>>
  BY DEF InsertUser, remediation, training
<1>1. CallsOK'
  BY <1>0, GoOnOK DEF IInv, Idle, At, Steps
<1>2. call'[h] = Idle /\ \A g \in Handlers : g # h => call'[g] = call[g]
  BY <1>0, GoOn DEF IInv
<1>3. /\ users \in Seq(Accounts)
      /\ users' = Append(users, [email |-> call[h].ref, role |-> call[h].data])
      /\ [email |-> call[h].ref, role |-> call[h].data] \in Accounts
  BY <1>0 DEF IInv, AccountsOK, Accounts, InsertUser
<1>4. /\ users' \in Seq(Accounts)
      /\ DOMAIN users' = 1 .. Len(users) + 1 /\ DOMAIN users = 1 .. Len(users) /\ Len(users) \in Nat
      /\ \A u \in DOMAIN users : users'[u] = users[u]
      /\ users'[Len(users) + 1] = [email |-> call[h].ref, role |-> call[h].data]
  BY <1>3
<1>5. tokens' = tokens \union {[user |-> Len(users) + 1, role |-> call[h].data]}
  BY DEF InsertUser
<1>6. AccountsOK'
  BY <1>0, <1>2, <1>4, <1>5 DEF IInv, AccountsOK, Idle, At
<1>7. DOMAIN users \subseteq DOMAIN users'
  BY <1>4
<1>8. PlansOK'
  BY <1>0, <1>7, IdleFields, StaysOutOfPlans DEF IInv
<1>9. PatternsOK'
  BY <1>0, IdleFields, StaysOutOfPatterns DEF IInv
<1>10. QED
  BY <1>1, <1>6, <1>8, <1>9 DEF IInv

LEMMA LoginStep ==
  ASSUME IInv, NEW h \in Handlers, NEW u \in DOMAIN users, Login(h, u)
  PROVE  IInv'
<1>0. UNCHANGED <<users, plans, approvals, patterns, mappings, examples, recorded, call, cut>>
  BY DEF Login, remediation, training
<1>1. AccountsOK'
  <2>1. users[u] \in Accounts /\ u \in Nat
    BY DEF IInv, AccountsOK
  <2>2. [user |-> u, role |-> users[u].role] \in [user : Nat, role : AllRoles]
    BY <2>1 DEF Accounts
  <2>3. tokens' = tokens \union {[user |-> u, role |-> users[u].role]}
    BY DEF Login
  <2>4. QED
    BY <1>0, <2>2, <2>3 DEF IInv, AccountsOK
<1>2. PlansOK'
  BY <1>0, PlansFrame DEF IInv
<1>3. PatternsOK'
  BY <1>0, PatternsFrame DEF IInv
<1>4. QED
  BY <1>0, <1>1, <1>2, <1>3 DEF IInv, CallsOK

LEMMA AppointStep ==
  ASSUME IInv, NEW u \in DOMAIN users, Appoint(u)
  PROVE  IInv' /\ (AddressesFree => AddressesFree')
<1>0. /\ users' = [users EXCEPT ![u].role = "admin"]
      /\ UNCHANGED <<tokens, plans, approvals, patterns, mappings, examples, recorded, call, cut>>
  BY DEF Appoint, remediation, training
<1>1. /\ users' \in Seq(Accounts) /\ DOMAIN users' = DOMAIN users
      /\ \A v \in DOMAIN users : /\ users'[v].email = users[v].email
                                /\ users[v].role = "admin" => users'[v].role = "admin"
  <2>0. users[u] \in Accounts
    BY DEF IInv, AccountsOK
  <2>1. [users[u] EXCEPT !.role = "admin"] \in Accounts
    BY <2>0 DEF Accounts, AllRoles, APPROVAL_ROLES
  <2>2. users' = [users EXCEPT ![u] = [users[u] EXCEPT !.role = "admin"]]
    BY <1>0
  <2>3. users' \in Seq(Accounts) /\ DOMAIN users' = DOMAIN users
    BY <2>1, <2>2 DEF IInv, AccountsOK
  <2>4. ASSUME NEW v \in DOMAIN users
        PROVE  /\ users'[v].email = users[v].email
               /\ users[v].role = "admin" => users'[v].role = "admin"
    <3>1. users[v] \in Accounts
      BY DEF IInv, AccountsOK
    <3>2. CASE v = u
      BY <2>2, <3>1, <3>2 DEF Accounts
    <3>3. CASE v # u
      BY <2>2, <3>3
    <3>4. QED
      BY <3>2, <3>3
  <2>5. QED
    BY <2>3, <2>4
<1>2. AccountsOK'
  BY <1>0, <1>1 DEF IInv, AccountsOK
<1>3. PlansOK'
  BY <1>0, <1>1, PlansFrame DEF IInv
<1>4. PatternsOK'
  BY <1>0, PatternsFrame DEF IInv
<1>5. AddressesFree => AddressesFree'
  BY <1>0, <1>1 DEF AddressesFree
<1>6. QED
  BY <1>0, <1>2, <1>3, <1>4, <1>5 DEF IInv, CallsOK

-----------------------------------------------------------------------------
(* Remediation                                                             *)

LEMMA GenerateStep ==
  ASSUME IInv, NEW h \in Handlers, NEW t \in tokens, NEW f \in Findings, NEW c \in Suggestions,
         Generate(h, t, f, c)
  PROVE  IInv'
<1> DEFINE plan == [finding |-> f, commands |-> c, status |-> "AWAITING_APPROVAL",
                    by |-> None, passed |-> None]
<1>0. /\ plans' = Append(plans, plan)
      /\ UNCHANGED <<users, tokens, approvals, patterns, mappings, examples, recorded, call, cut>>
  BY DEF Generate, accounts, training
<1>1. plan \in Plans /\ plan.status = "AWAITING_APPROVAL" /\ plan.by = None
  BY DEF Plans
<1> HIDE DEF plan
<1>2. /\ plans' \in Seq(Plans) /\ DOMAIN plans' = DOMAIN plans \union {Len(plans) + 1}
      /\ Len(plans) + 1 \notin DOMAIN plans
      /\ \A n \in DOMAIN plans : plans'[n] = plans[n]
      /\ plans'[Len(plans) + 1] = plan
  BY <1>0, <1>1 DEF IInv, PlansOK
<1>3. \A n \in DOMAIN plans : Approved(plans'[n]) <=> Approved(plans[n])
  BY <1>2 DEF Approved
<1>4. ~Approved(plans'[Len(plans) + 1])
  BY <1>1, <1>2 DEF Approved
<1>5. ApprovalRecorded'
  BY <1>0, <1>2, <1>3, <1>4 DEF IInv, PlansOK, ApprovalRecorded
<1>6. \A n \in DOMAIN plans' :
        /\ plans'[n].by \in DOMAIN users' \union {None}
        /\ Approved(plans'[n]) => plans'[n].by # None
        /\ plans'[n].status = "SIMULATED" => plans'[n].passed = AllValid(plans'[n])
  BY <1>0, <1>1, <1>2, <1>3, <1>4 DEF IInv, PlansOK
<1>7. \A x \in Findings : approvals'[x] # None =>
       /\ approvals'[x].plan \in DOMAIN plans'
       /\ plans'[approvals'[x].plan].finding = x /\ Approved(plans'[approvals'[x].plan])
  BY <1>0, <1>2, <1>3 DEF IInv, PlansOK
<1>8. \A g \in Handlers : call'[g].at \in RemediationSteps =>
       /\ call'[g].ref \in DOMAIN plans' /\ Approved(plans'[call'[g].ref])
       /\ call'[g].at = "simulate" => call'[g].data = AllValid(plans'[call'[g].ref])
  BY <1>0, <1>2, <1>3 DEF IInv, PlansOK
<1>9. PlansOK'
  BY <1>0, <1>2, <1>5, <1>6, <1>7, <1>8 DEF IInv, PlansOK, Approved
<1>10. AccountsOK'
  BY <1>0, AccountsFrame DEF IInv, accounts
<1>11. PatternsOK'
  BY <1>0, PatternsFrame DEF IInv
<1>12. QED
  BY <1>0, <1>9, <1>10, <1>11 DEF IInv, CallsOK

\* What a write to one plan, which keeps its finding and its commands, leaves true.
LEMMA PlanWritten ==
  ASSUME IInv, NEW n \in DOMAIN plans, NEW q \in Plans, plans' = [plans EXCEPT ![n] = q],
         q.finding = plans[n].finding, q.commands = plans[n].commands,
         q.status \in {"APPROVED", "SIMULATED"}
  PROVE  /\ plans' \in Seq(Plans) /\ DOMAIN plans' = DOMAIN plans
         /\ plans'[n] = q /\ \A m \in DOMAIN plans : m # n => plans'[m] = plans[m]
         /\ \A m \in DOMAIN plans : plans'[m].finding = plans[m].finding
         /\ \A m \in DOMAIN plans : AllValid(plans'[m]) = AllValid(plans[m])
         /\ \A m \in DOMAIN plans : Approved(plans[m]) => Approved(plans'[m])
         /\ Approved(plans'[n])
         /\ \A m \in DOMAIN plans : Approved(plans'[m]) => m = n \/ Approved(plans[m])
<1>1. /\ plans' \in Seq(Plans) /\ DOMAIN plans' = DOMAIN plans
      /\ plans'[n] = q /\ \A m \in DOMAIN plans : m # n => plans'[m] = plans[m]
  BY DEF IInv, PlansOK
<1>2. \A m \in DOMAIN plans : /\ plans'[m].finding = plans[m].finding
                              /\ plans'[m].commands = plans[m].commands
  BY <1>1
<1>3. \A m \in DOMAIN plans : AllValid(plans'[m]) = AllValid(plans[m])
  BY <1>2, SameVerdict
<1>4. Approved(plans'[n]) /\ \A m \in DOMAIN plans : m # n => (Approved(plans'[m]) <=> Approved(plans[m]))
  BY <1>1 DEF Approved
<1>5. QED
  BY <1>1, <1>2, <1>3, <1>4

LEMMA PlanFields ==
  ASSUME PlansOK, NEW n \in DOMAIN plans
  PROVE  n \in Nat /\ plans[n] \in Plans /\ plans[n].finding \in Findings
<1>1. plans \in Seq(Plans)
  BY DEF PlansOK
<1>2. n \in Nat /\ plans[n] \in Plans
  BY <1>1
<1>3. QED
  BY <1>2 DEF Plans

\* What the invariant says of a coroutine at a step of this area.
LEMMA PlanCall ==
  ASSUME PlansOK, NEW g \in Handlers, call[g].at \in {"record approval", "write approval", "simulate"}
  PROVE  /\ call[g].ref \in DOMAIN plans /\ Approved(plans[call[g].ref])
         /\ call[g].at = "simulate" => call[g].data = AllValid(plans[call[g].ref])
<1>1. call[g].at \in RemediationSteps
  BY DEF RemediationSteps, RecordSteps
<1>2. QED
  BY <1>1 DEF PlansOK

\* An approval is under way, or on record, or owed.
LEMMA StillRecorded ==
  ASSUME PlansOK, plans' = plans, cut' = cut,
         \A n \in DOMAIN plans : approvals'[plans[n].finding] = None =>
           /\ approvals[plans[n].finding] = None
           /\ \A g \in Handlers : Recording(call[g], n) => Recording(call'[g], n)
  PROVE  ApprovalRecorded'
<1>1. SUFFICES ASSUME NEW n \in DOMAIN plans, Approved(plans[n]), approvals'[plans[n].finding] = None
               PROVE  \/ \E h \in Handlers : Recording(call'[h], n)
                      \/ \E c \in cut : Recording(c, n)
  BY DEF ApprovalRecorded, Approved
<1>2. \/ \E h \in Handlers : Recording(call[h], n)
      \/ \E c \in cut : Recording(c, n)
  BY <1>1 DEF PlansOK, ApprovalRecorded
<1>3. QED
  BY <1>1, <1>2

LEMMA ApproveStep ==
  ASSUME IInv, NEW h \in Handlers, NEW t \in tokens, NEW n \in DOMAIN plans, Approve(h, t, n)
  PROVE  IInv'
<1> DEFINE q == [plans[n] EXCEPT !.status = "APPROVED", !.by = t.user]
           c == At("record approval", n, t.user)
<1>0. /\ plans' = [plans EXCEPT ![n] = q]
      /\ Go(h, c) /\ call[h].at = "idle"
      /\ UNCHANGED <<users, tokens, approvals, patterns, mappings, examples, recorded, cut>>
  <2>1. plans' = [plans EXCEPT ![n].status = "APPROVED", ![n].by = t.user]
    BY DEF Approve
  <2>2. [plans EXCEPT ![n].status = "APPROVED", ![n].by = t.user] = [plans EXCEPT ![n] = q]
    BY DEF IInv, PlansOK
  <2>3. QED
    BY <2>1, <2>2, IdleFields DEF Approve, Arrive, accounts, training
<1>1. t.user \in DOMAIN users /\ t.user \in Nat /\ t.user # None
  BY HumanReviewAssumption DEF IInv, AccountsOK
<1>2. plans[n] \in Plans /\ n \in Nat
  BY DEF IInv, PlansOK
<1>3. /\ q \in Plans /\ q.finding = plans[n].finding /\ q.commands = plans[n].commands
      /\ q.status = "APPROVED" /\ q.by = t.user
  BY <1>1, <1>2 DEF Plans
<1>4. c.at = "record approval" /\ c.ref = n /\ c.data = t.user
  BY DEF At
<1>5. CallsOK'
  BY <1>0, <1>1, <1>2, GoOnOK DEF IInv, At, Steps, RemediationSteps, RecordSteps
<1> HIDE DEF q, c
<1>6. call'[h] = c /\ \A g \in Handlers : g # h => call'[g] = call[g]
  BY <1>0, GoOn DEF IInv
<1>7. /\ plans' \in Seq(Plans) /\ DOMAIN plans' = DOMAIN plans
      /\ plans'[n] = q /\ \A m \in DOMAIN plans : m # n => plans'[m] = plans[m]
      /\ \A m \in DOMAIN plans : plans'[m].finding = plans[m].finding
      /\ \A m \in DOMAIN plans : AllValid(plans'[m]) = AllValid(plans[m])
      /\ \A m \in DOMAIN plans : Approved(plans[m]) => Approved(plans'[m])
      /\ Approved(plans'[n])
      /\ \A m \in DOMAIN plans : Approved(plans'[m]) => m = n \/ Approved(plans[m])
  BY <1>0, <1>3, PlanWritten
<1>8. ApprovalRecorded'
  <2> SUFFICES ASSUME NEW m \in DOMAIN plans, Approved(plans'[m]), approvals[plans[m].finding] = None
               PROVE  \/ \E g \in Handlers : Recording(call'[g], m)
                      \/ \E x \in cut : Recording(x, m)
    BY <1>0, <1>7 DEF ApprovalRecorded
  <2>1. CASE m = n
    BY <1>4, <1>6, <2>1 DEF Recording
  <2>2. CASE m # n
    <3>1. Approved(plans[m])
      BY <1>7, <2>2
    <3>2. CASE \E g \in Handlers : Recording(call[g], m)
      <4>1. PICK g \in Handlers : Recording(call[g], m)
        BY <3>2
      <4>2. g # h
        BY <1>0, <4>1 DEF Recording
      <4>3. QED
        BY <1>6, <4>1, <4>2
    <3>3. QED
      BY <3>1, <3>2 DEF IInv, PlansOK, ApprovalRecorded
  <2>3. QED
    BY <2>1, <2>2
<1>9. \A m \in DOMAIN plans' :
        /\ plans'[m].by \in DOMAIN users' \union {None}
        /\ Approved(plans'[m]) => plans'[m].by # None
        /\ plans'[m].status = "SIMULATED" => plans'[m].passed = AllValid(plans'[m])
  BY <1>0, <1>1, <1>3, <1>7 DEF IInv, PlansOK
<1>10. \A x \in Findings : approvals'[x] # None =>
       /\ approvals'[x].plan \in DOMAIN plans'
       /\ plans'[approvals'[x].plan].finding = x /\ Approved(plans'[approvals'[x].plan])
  BY <1>0, <1>7 DEF IInv, PlansOK
<1>11. \A g \in Handlers : call'[g].at \in RemediationSteps =>
       /\ call'[g].ref \in DOMAIN plans' /\ Approved(plans'[call'[g].ref])
       /\ call'[g].at = "simulate" => call'[g].data = AllValid(plans'[call'[g].ref])
  <2> TAKE g \in Handlers
  <2>1. CASE g = h
    BY <1>4, <1>6, <1>7, <2>1
  <2>2. CASE g # h
    <3>1. call'[g] = call[g]
      BY <1>6, <2>2
    <3>2. call[g].at \in RemediationSteps =>
            /\ call[g].ref \in DOMAIN plans /\ Approved(plans[call[g].ref])
            /\ call[g].at = "simulate" => call[g].data = AllValid(plans[call[g].ref])
      BY DEF IInv, PlansOK
    <3>3. QED
      BY <1>7, <3>1, <3>2
  <2>3. QED
    BY <2>1, <2>2
<1>12. PlansOK'
  BY <1>0, <1>7, <1>8, <1>9, <1>10, <1>11 DEF IInv, PlansOK, Approved
<1>13. AccountsOK'
  BY <1>0, <1>4, StaysOutOfAccounts DEF IInv
<1>14. PatternsOK'
  BY <1>0, <1>4, StaysOutOfPatterns DEF IInv
<1>15. QED
  BY <1>5, <1>12, <1>13, <1>14 DEF IInv

\* A recording goes on to another step of the recording.
LEMMA ReturnApprovalStep ==
  ASSUME IInv, NEW h \in Handlers, ReturnApproval(h)
  PROVE  IInv'
<1>0. /\ Go(h, Idle) /\ call[h].at = "record approval" /\ Idle.at = "idle"
      /\ approvals[plans[call[h].ref].finding] # None
      /\ UNCHANGED <<users, tokens, plans, approvals, patterns, mappings, examples, recorded, cut>>
  BY IdleFields DEF ReturnApproval, Settled, accounts, remediation, training
<1>1. CallsOK'
  BY <1>0, GoOnOK DEF IInv, Idle, At, Steps
<1>2. call'[h] = Idle /\ \A g \in Handlers : g # h => call'[g] = call[g]
  BY <1>0, GoOn DEF IInv
<1>3. ApprovalRecorded'
  <2>1. ASSUME NEW n \in DOMAIN plans, approvals'[plans[n].finding] = None,
               NEW g \in Handlers, Recording(call[g], n)
        PROVE  Recording(call'[g], n)
    <3>1. call[g].ref = n
      BY <2>1 DEF Recording
    <3>2. g # h
      BY <1>0, <2>1, <3>1
    <3>3. QED
      BY <1>2, <2>1, <3>2
  <2>2. QED
    BY <1>0, <2>1, StillRecorded DEF IInv
<1>4. \A g \in Handlers : call'[g].at \in RemediationSteps => call'[g] = call[g]
  BY <1>0, <1>2 DEF RemediationSteps, RecordSteps
<1>5. \A g \in Handlers : call'[g].at \in RemediationSteps =>
       /\ call'[g].ref \in DOMAIN plans' /\ Approved(plans[call'[g].ref])
       /\ call'[g].at = "simulate" => call'[g].data = AllValid(plans[call'[g].ref])
  <2>1. \A g \in Handlers : call[g].at \in RemediationSteps =>
          /\ call[g].ref \in DOMAIN plans /\ Approved(plans[call[g].ref])
          /\ call[g].at = "simulate" => call[g].data = AllValid(plans[call[g].ref])
    BY DEF IInv, PlansOK
  <2>2. plans' = plans
    BY <1>0
  <2>3. QED
    BY <1>4, <2>1, <2>2
<1>6. PlansOK'
  BY <1>0, <1>3, <1>5 DEF IInv, PlansOK, Approved, AllValid
<1>7. AccountsOK' /\ PatternsOK'
  BY <1>0, StaysOutOfAccounts, StaysOutOfPatterns DEF IInv
<1>8. QED
  BY <1>1, <1>6, <1>7 DEF IInv

LEMMA SubmitApprovalStep ==
  ASSUME IInv, NEW h \in Handlers, SubmitApproval(h)
  PROVE  IInv'
<1> DEFINE c == [call[h] EXCEPT !.at = "write approval"]
<1>0. /\ Go(h, c) /\ call[h].at = "record approval"
      /\ UNCHANGED <<users, tokens, plans, approvals, patterns, mappings, examples, recorded, cut>>
  BY DEF SubmitApproval, accounts, remediation, training
<1>1. c.at = "write approval" /\ c.ref = call[h].ref
  BY DEF IInv, CallsOK
<1>2. CallsOK'
  BY <1>0, GoOnOK DEF IInv, CallsOK, Steps, RemediationSteps, RecordSteps
<1> HIDE DEF c
<1>3. call'[h] = c /\ \A g \in Handlers : g # h => call'[g] = call[g]
  BY <1>0, GoOn DEF IInv
<1>4. ASSUME NEW n, NEW g \in Handlers
      PROVE  Recording(call'[g], n) <=> Recording(call[g], n)
  <2>1. CASE g = h
    BY <1>0, <1>1, <1>3, <2>1 DEF Recording
  <2>2. CASE g # h
    BY <1>3, <2>2
  <2>3. QED
    BY <2>1, <2>2
<1>5. ApprovalRecorded'
  <2>1. ASSUME NEW n \in DOMAIN plans, approvals'[plans[n].finding] = None
        PROVE  /\ approvals[plans[n].finding] = None
               /\ \A g \in Handlers : Recording(call[g], n) => Recording(call'[g], n)
    BY <1>0, <1>4, <2>1
  <2>2. QED
    BY <1>0, <2>1, StillRecorded DEF IInv
<1>6. \A g \in Handlers : call'[g].at \in RemediationSteps =>
       /\ call'[g].ref \in DOMAIN plans' /\ Approved(plans[call'[g].ref])
       /\ call'[g].at = "simulate" => call'[g].data = AllValid(plans[call'[g].ref])
  <2> TAKE g \in Handlers
  <2>1. CASE g = h
    <3>1. call[h].ref \in DOMAIN plans /\ Approved(plans[call[h].ref])
      BY <1>0, PlanCall DEF IInv
    <3>2. QED
      BY <1>0, <1>1, <1>3, <2>1, <3>1
  <2>2. CASE g # h
    BY <1>0, <1>3, <2>2, PlanCall DEF IInv, RemediationSteps, RecordSteps
  <2>3. QED
    BY <2>1, <2>2
<1>7. PlansOK'
  BY <1>0, <1>5, <1>6 DEF IInv, PlansOK, Approved, AllValid
<1>8. AccountsOK' /\ PatternsOK'
  BY <1>0, <1>1, StaysOutOfAccounts, StaysOutOfPatterns DEF IInv
<1>9. QED
  BY <1>2, <1>7, <1>8 DEF IInv

LEMMA WriteApprovalStep ==
  ASSUME IInv, NEW h \in Handlers, NEW s \in {"CONFIRMED", "PENDING"}, WriteApproval(h, s)
  PROVE  IInv'
<1> DEFINE m == call[h].ref
           d == [status |-> s, plan |-> m]
<1>0. /\ Go(h, Idle) /\ call[h].at = "write approval" /\ Idle.at = "idle"
      /\ approvals' = [approvals EXCEPT ![plans[m].finding] = d]
      /\ UNCHANGED <<users, tokens, plans, patterns, mappings, examples, recorded, cut>>
  BY IdleFields DEF WriteApproval, accounts, training
<1>1. CallsOK'
  BY <1>0, GoOnOK DEF IInv, Idle, At, Steps
<1>2. call'[h] = Idle /\ \A g \in Handlers : g # h => call'[g] = call[g]
  BY <1>0, GoOn DEF IInv
<1>3. m \in DOMAIN plans /\ Approved(plans[m])
  BY <1>0, PlanCall DEF IInv
<1>4. m \in Nat /\ plans[m].finding \in Findings
  BY <1>3, PlanFields DEF IInv
<1>5. d \in Approvals /\ d.plan = m /\ d # None
  BY <1>4, HumanReviewAssumption DEF Approvals
<1> HIDE DEF m, d
<1>6. /\ approvals' \in [Findings -> Approvals \union {None}]
      /\ approvals'[plans[m].finding] = d
      /\ \A f \in Findings : f # plans[m].finding => approvals'[f] = approvals[f]
  BY <1>0, <1>4, <1>5 DEF IInv, PlansOK
<1>7. ApprovalRecorded'
  <2>1. ASSUME NEW n \in DOMAIN plans, approvals'[plans[n].finding] = None
        PROVE  /\ approvals[plans[n].finding] = None
               /\ \A g \in Handlers : Recording(call[g], n) => Recording(call'[g], n)
    <3>1. plans[n].finding \in Findings
      BY PlanFields DEF IInv
    <3>2. plans[n].finding # plans[m].finding
      BY <1>5, <1>6, <2>1
    <3>3. ASSUME NEW g \in Handlers, Recording(call[g], n)
          PROVE  Recording(call'[g], n)
      <4>1. call[g].ref = n
        BY <3>3 DEF Recording
      <4>2. g # h
        BY <3>2, <4>1 DEF m
      <4>3. QED
        BY <1>2, <3>3, <4>2
    <3>4. QED
      BY <1>6, <2>1, <3>1, <3>2, <3>3
  <2>2. QED
    BY <1>0, <2>1, StillRecorded DEF IInv
<1>8. \A g \in Handlers : call'[g].at \in RemediationSteps => call'[g] = call[g]
  BY <1>0, <1>2 DEF RemediationSteps, RecordSteps
<1>9. \A g \in Handlers : call'[g].at \in RemediationSteps =>
       /\ call'[g].ref \in DOMAIN plans' /\ Approved(plans[call'[g].ref])
       /\ call'[g].at = "simulate" => call'[g].data = AllValid(plans[call'[g].ref])
  <2>1. \A g \in Handlers : call[g].at \in RemediationSteps =>
          /\ call[g].ref \in DOMAIN plans /\ Approved(plans[call[g].ref])
          /\ call[g].at = "simulate" => call[g].data = AllValid(plans[call[g].ref])
    BY DEF IInv, PlansOK
  <2>2. plans' = plans
    BY <1>0
  <2>3. QED
    BY <1>8, <2>1, <2>2
<1>10. \A f \in Findings : approvals'[f] # None =>
       /\ approvals'[f].plan \in DOMAIN plans
       /\ plans[approvals'[f].plan].finding = f /\ Approved(plans[approvals'[f].plan])
  BY <1>3, <1>5, <1>6 DEF IInv, PlansOK
<1>11. PlansOK'
  BY <1>0, <1>6, <1>7, <1>9, <1>10 DEF IInv, PlansOK, Approved, AllValid
<1>12. AccountsOK' /\ PatternsOK'
  BY <1>0, StaysOutOfAccounts, StaysOutOfPatterns DEF IInv
<1>13. QED
  BY <1>1, <1>11, <1>12 DEF IInv

LEMMA RetryApprovalStep ==
  ASSUME IInv, NEW f \in Findings, RetryApproval(f)
  PROVE  IInv'
<1> DEFINE d == [approvals[f] EXCEPT !.status = "CONFIRMED"]
<1>0. /\ approvals[f] # None
      /\ UNCHANGED <<users, tokens, plans, patterns, mappings, examples, recorded, call, cut>>
  BY DEF RetryApproval, accounts, training
<1>1. approvals' = [approvals EXCEPT ![f] = d]
  BY DEF RetryApproval, IInv, PlansOK
<1>2. approvals[f] \in Approvals
  BY <1>0 DEF IInv, PlansOK
<1>3. d \in Approvals /\ d.plan = approvals[f].plan /\ d # None
  BY <1>2, HumanReviewAssumption DEF Approvals
<1> HIDE DEF d
<1>4. /\ approvals' \in [Findings -> Approvals \union {None}] /\ approvals'[f] = d
      /\ \A x \in Findings : x # f => approvals'[x] = approvals[x]
  BY <1>1, <1>3 DEF IInv, PlansOK
<1>5. ApprovalRecorded'
  <2>1. ASSUME NEW n \in DOMAIN plans, approvals'[plans[n].finding] = None
        PROVE  /\ approvals[plans[n].finding] = None
               /\ \A g \in Handlers : Recording(call[g], n) => Recording(call'[g], n)
    <3>1. plans[n].finding \in Findings
      BY PlanFields DEF IInv
    <3>2. QED
      BY <1>0, <1>3, <1>4, <2>1, <3>1
  <2>2. QED
    BY <1>0, <2>1, StillRecorded DEF IInv
<1>6. \A x \in Findings : approvals'[x] # None =>
       /\ approvals'[x].plan \in DOMAIN plans
       /\ plans[approvals'[x].plan].finding = x /\ Approved(plans[approvals'[x].plan])
  <2> TAKE x \in Findings
  <2>1. approvals'[x] # None => approvals[x] # None /\ approvals'[x].plan = approvals[x].plan
    BY <1>0, <1>3, <1>4
  <2>2. QED
    BY <2>1 DEF IInv, PlansOK
<1>7. PlansOK'
  BY <1>0, <1>4, <1>5, <1>6 DEF IInv, PlansOK, Approved, AllValid
<1>8. AccountsOK'
  BY <1>0, AccountsFrame DEF IInv, accounts
<1>9. PatternsOK'
  BY <1>0, PatternsFrame DEF IInv
<1>10. QED
  BY <1>0, <1>7, <1>8, <1>9 DEF IInv, CallsOK

LEMMA ReadPlanStep ==
  ASSUME IInv, NEW h \in Handlers, NEW t \in tokens, NEW n \in DOMAIN plans, ReadPlan(h, t, n)
  PROVE  IInv'
<1> DEFINE c == At("simulate", n, AllValid(plans[n]))
<1>0. /\ Go(h, c) /\ call[h].at = "idle" /\ Approved(plans[n])
      /\ UNCHANGED <<users, tokens, plans, approvals, patterns, mappings, examples, recorded, cut>>
  BY IdleFields DEF ReadPlan, Arrive, Approved, accounts, remediation, training
<1>1. c.at = "simulate" /\ c.ref = n /\ c.data = AllValid(plans[n])
  BY DEF At
<1>2. n \in Nat
  BY PlanFields DEF IInv
<1>3. CallsOK'
  BY <1>0, <1>2, VerdictIsBoolean, GoOnOK DEF IInv, At, Steps, RemediationSteps
<1> HIDE DEF c
<1>4. call'[h] = c /\ \A g \in Handlers : g # h => call'[g] = call[g]
  BY <1>0, GoOn DEF IInv
<1>5. ApprovalRecorded'
  <2>1. ASSUME NEW m \in DOMAIN plans, NEW g \in Handlers, Recording(call[g], m)
        PROVE  Recording(call'[g], m)
    <3>1. g # h
      BY <1>0, <2>1 DEF Recording
    <3>2. QED
      BY <1>4, <2>1, <3>1
  <2>2. QED
    BY <1>0, <2>1, StillRecorded DEF IInv
<1>6. \A g \in Handlers : call'[g].at \in RemediationSteps =>
       /\ call'[g].ref \in DOMAIN plans' /\ Approved(plans[call'[g].ref])
       /\ call'[g].at = "simulate" => call'[g].data = AllValid(plans[call'[g].ref])
  <2> TAKE g \in Handlers
  <2>1. CASE g = h
    BY <1>0, <1>1, <1>4, <2>1
  <2>2. CASE g # h
    BY <1>0, <1>4, <2>2, PlanCall DEF IInv, RemediationSteps, RecordSteps
  <2>3. QED
    BY <2>1, <2>2
<1>7. PlansOK'
  BY <1>0, <1>5, <1>6 DEF IInv, PlansOK, Approved, AllValid
<1>8. AccountsOK' /\ PatternsOK'
  BY <1>0, <1>1, StaysOutOfAccounts, StaysOutOfPatterns DEF IInv
<1>9. QED
  BY <1>3, <1>7, <1>8 DEF IInv

LEMMA WriteSimulatedStep ==
  ASSUME IInv, NEW h \in Handlers, WriteSimulated(h)
  PROVE  IInv'
<1> DEFINE n == call[h].ref
           q == [plans[n] EXCEPT !.status = "SIMULATED", !.passed = call[h].data]
<1>0. /\ Go(h, Idle) /\ call[h].at = "simulate" /\ Idle.at = "idle"
      /\ UNCHANGED <<users, tokens, approvals, patterns, mappings, examples, recorded, cut>>
  BY IdleFields DEF WriteSimulated, accounts, training
<1>1. n \in DOMAIN plans /\ Approved(plans[n]) /\ call[h].data = AllValid(plans[n])
  BY <1>0, PlanCall DEF IInv
<1>2. plans[n] \in Plans /\ plans[n].by # None
  BY <1>1, PlanFields DEF IInv, PlansOK
<1>3. plans' = [plans EXCEPT ![n] = q]
  BY <1>1 DEF WriteSimulated, IInv, PlansOK
<1>4. /\ q \in Plans /\ q.finding = plans[n].finding /\ q.commands = plans[n].commands
      /\ q.status = "SIMULATED" /\ q.by = plans[n].by /\ q.passed = AllValid(plans[n])
  BY <1>1, <1>2, VerdictIsBoolean DEF Plans
<1>5. CallsOK'
  BY <1>0, GoOnOK DEF IInv, Idle, At, Steps
<1>6. call'[h] = Idle /\ \A g \in Handlers : g # h => call'[g] = call[g]
  BY <1>0, GoOn DEF IInv
<1> HIDE DEF n, q
<1>7. /\ plans' \in Seq(Plans) /\ DOMAIN plans' = DOMAIN plans
      /\ plans'[n] = q /\ \A m \in DOMAIN plans : m # n => plans'[m] = plans[m]
      /\ \A m \in DOMAIN plans : plans'[m].finding = plans[m].finding
      /\ \A m \in DOMAIN plans : AllValid(plans'[m]) = AllValid(plans[m])
      /\ \A m \in DOMAIN plans : Approved(plans[m]) => Approved(plans'[m])
      /\ Approved(plans'[n])
      /\ \A m \in DOMAIN plans : Approved(plans'[m]) => m = n \/ Approved(plans[m])
  BY <1>1, <1>3, <1>4, PlanWritten
<1>8. ApprovalRecorded'
  <2> SUFFICES ASSUME NEW m \in DOMAIN plans, Approved(plans'[m]), approvals[plans[m].finding] = None
               PROVE  \/ \E g \in Handlers : Recording(call'[g], m)
                      \/ \E x \in cut : Recording(x, m)
    BY <1>0, <1>7 DEF ApprovalRecorded
  <2>1. Approved(plans[m])
    BY <1>1, <1>7
  <2>2. CASE \E g \in Handlers : Recording(call[g], m)
    <3>1. PICK g \in Handlers : Recording(call[g], m)
      BY <2>2
    <3>2. g # h
      BY <1>0, <3>1 DEF Recording
    <3>3. QED
      BY <1>6, <3>1, <3>2
  <2>3. QED
    BY <2>1, <2>2 DEF IInv, PlansOK, ApprovalRecorded
<1>9. \A m \in DOMAIN plans' :
        /\ plans'[m].by \in DOMAIN users' \union {None}
        /\ Approved(plans'[m]) => plans'[m].by # None
        /\ plans'[m].status = "SIMULATED" => plans'[m].passed = AllValid(plans'[m])
  <2> TAKE m \in DOMAIN plans'
  <2>0. m \in DOMAIN plans
    BY <1>7
  <2>1. CASE m = n
    BY <1>0, <1>1, <1>2, <1>4, <1>7, <2>0, <2>1 DEF IInv, PlansOK
  <2>2. CASE m # n
    BY <1>0, <1>7, <2>0, <2>2 DEF IInv, PlansOK
  <2>3. QED
    BY <2>1, <2>2
<1>10. \A x \in Findings : approvals'[x] # None =>
       /\ approvals'[x].plan \in DOMAIN plans'
       /\ plans'[approvals'[x].plan].finding = x /\ Approved(plans'[approvals'[x].plan])
  BY <1>0, <1>7 DEF IInv, PlansOK
<1>11. \A g \in Handlers : call'[g].at \in RemediationSteps =>
       /\ call'[g].ref \in DOMAIN plans' /\ Approved(plans'[call'[g].ref])
       /\ call'[g].at = "simulate" => call'[g].data = AllValid(plans'[call'[g].ref])
  <2> TAKE g \in Handlers
  <2>1. call'[g].at \in RemediationSteps => call'[g] = call[g]
    BY <1>0, <1>6 DEF RemediationSteps, RecordSteps
  <2>2. call[g].at \in RemediationSteps =>
          /\ call[g].ref \in DOMAIN plans /\ Approved(plans[call[g].ref])
          /\ call[g].at = "simulate" => call[g].data = AllValid(plans[call[g].ref])
    BY DEF IInv, PlansOK
  <2>3. QED
    BY <1>7, <2>1, <2>2
<1>12. PlansOK'
  BY <1>0, <1>7, <1>8, <1>9, <1>10, <1>11 DEF IInv, PlansOK, Approved
<1>13. AccountsOK' /\ PatternsOK'
  BY <1>0, StaysOutOfAccounts, StaysOutOfPatterns DEF IInv
<1>14. QED
  BY <1>5, <1>12, <1>13 DEF IInv

-----------------------------------------------------------------------------
(* Unknown lines                                                           *)

\* What remains to be shown of a step of one coroutine on mappings and examples.
LEMMA ReviewGoesOn ==
  ASSUME CallsOK, PatternsOK, NEW h \in Handlers, NEW c, Go(h, c),
         Longer(mappings', mappings), Longer(examples', examples),
         Reviews(c, mappings', examples'),
         Documents', ConfirmedTeaches',
         \A l \in Lines : patterns'[l] = patterns[l] \/ Shows(l, patterns'[l], mappings', examples')
  PROVE  PatternsOK'
<1>1. call'[h] = c /\ \A g \in Handlers : g # h => call'[g] = call[g]
  BY GoOn
<1>2. \A g \in Handlers : Reviews(call[g], mappings', examples')
  BY SoundStays DEF PatternsOK
<1>3. \A l \in Lines : Shows(l, patterns'[l], mappings', examples')
  BY SoundStays DEF PatternsOK
<1>4. \A g \in Handlers : Reviews(call'[g], mappings', examples')
  BY <1>1, <1>2
<1>5. QED
  BY <1>3, <1>4 DEF PatternsOK

LEMMA PatternStays ==
  ASSUME PatternsOK, NEW l \in Lines, patterns[l] # None
  PROVE  patterns[l] \in Patterns
BY DEF PatternsOK, Documents

LEMMA SameLonger == \A s : Longer(s, s)
BY DEF Longer

LEMMA ElementOf ==
  ASSUME NEW S, NEW s \in Seq(S), NEW i \in DOMAIN s
  PROVE  i \in Nat /\ s[i] \in S
OBVIOUS

LEMMA AppendLonger ==
  ASSUME NEW S, NEW s \in Seq(S), NEW e \in S
  PROVE  /\ Append(s, e) \in Seq(S) /\ Longer(Append(s, e), s)
         /\ Len(s) + 1 \in DOMAIN Append(s, e) /\ Len(s) + 1 \in Nat
         /\ Append(s, e)[Len(s) + 1] = e
         /\ DOMAIN Append(s, e) = DOMAIN s \union {Len(s) + 1}
BY DEF Longer

LEMMA NoteUnknownStep ==
  ASSUME IInv, NEW l \in Lines, NoteUnknown(l)
  PROVE  IInv'
<1>0. /\ patterns[l] = None /\ patterns' = [patterns EXCEPT ![l] = NewPattern]
      /\ UNCHANGED <<users, tokens, plans, approvals, mappings, examples, recorded, call, cut>>
  BY DEF NoteUnknown, accounts, remediation
<1>1. NewPattern \in Patterns /\ NewPattern.status = "pending_review" /\ NewPattern.suggestion = None
  BY DEF NewPattern, Patterns
<1>2. Documents'
  BY <1>0, <1>1 DEF IInv, PatternsOK, Documents
<1>3. /\ patterns'[l] = NewPattern
      /\ \A k \in Lines : k # l => patterns'[k] = patterns[k]
  BY <1>0 DEF IInv, PatternsOK, Documents
<1>4. \A k \in Lines : Shows(k, patterns'[k], mappings, examples)
  <2> TAKE k \in Lines
  <2>1. CASE k = l
    BY <1>1, <1>3, <2>1 DEF Shows
  <2>2. CASE k # l
    BY <1>3, <2>2 DEF IInv, PatternsOK
  <2>3. QED
    BY <2>1, <2>2
<1>5. ConfirmedTeaches'
  BY <1>0, <1>1, <1>3, SameLonger, StillTeaches DEF IInv
<1>6. PatternsOK'
  BY <1>0, <1>2, <1>4, <1>5 DEF IInv, PatternsOK
<1>7. AccountsOK' /\ PlansOK'
  BY <1>0, AccountsFrame, PlansFrame DEF IInv, accounts
<1>8. QED
  BY <1>0, <1>6, <1>7 DEF IInv, CallsOK

LEMMA DecideStep ==
  ASSUME IInv, NEW h \in Handlers, NEW l \in Lines, NEW m \in Meanings, NEW d \in Decisions,
         Decide(h, l, m, d)
  PROVE  IInv'
<1> DEFINE x == [line |-> l, meaning |-> m, decision |-> d]
           n == Len(mappings) + 1
           c == At(IF d = "edit" THEN "record mapping" ELSE d, n, None)
<1>0. /\ Go(h, c) /\ call[h].at = "idle" /\ mappings' = Append(mappings, x)
      /\ UNCHANGED <<users, tokens, plans, approvals, patterns, examples, recorded, cut>>
  BY IdleFields DEF Decide, Arrive, accounts, remediation
<1>1. x \in Mappings /\ x.decision = d
  BY DEF Mappings
<1>2. mappings \in Seq(Mappings)
  BY DEF IInv, PatternsOK, Documents
<1>3. /\ mappings' \in Seq(Mappings) /\ Longer(mappings', mappings)
      /\ n \in DOMAIN mappings' /\ n \in Nat /\ mappings'[n] = x
  <2> HIDE DEF x
  <2>1. /\ Append(mappings, x) \in Seq(Mappings) /\ Longer(Append(mappings, x), mappings)
        /\ n \in DOMAIN Append(mappings, x) /\ n \in Nat /\ Append(mappings, x)[n] = x
    BY <1>1, <1>2, AppendLonger
  <2>2. QED
    BY <1>0, <2>1
<1>4. /\ c.at \in {"confirm", "reject", "record mapping"} /\ c.ref = n /\ c.data = None
      /\ c.at = "confirm" => d = "confirm"
  BY DEF At, Decisions
<1>5. c \in [at : Steps, ref : {None} \union Emails \union Nat \union Lines,
              data : {None} \union AllRoles \union Nat \union BOOLEAN \union Suggested]
  BY <1>3, <1>4 DEF At, Steps, TrainingSteps, MappingSteps, ConfirmSteps
<1> HIDE DEF x, n, c
<1>6. CallsOK'
  BY <1>0, <1>5, GoOnOK DEF IInv
<1>7. Reviews(c, mappings', examples')
  BY <1>1, <1>3, <1>4 DEF Reviews, ConfirmSteps
<1>8. Documents'
  BY <1>0, <1>3 DEF IInv, PatternsOK, Documents, Longer
<1>9. \A g \in Handlers, k \in DOMAIN mappings : Teaching(call[g], k) => Teaching(call'[g], k)
  BY <1>0, GoOn DEF IInv, Teaching
<1>10. ConfirmedTeaches'
  BY <1>0, <1>3, <1>9, SameLonger, StillTeaches DEF IInv
<1>11. PatternsOK'
  BY <1>0, <1>3, <1>7, <1>8, <1>10, SameLonger, ReviewGoesOn DEF IInv
<1>12. AccountsOK' /\ PlansOK'
  BY <1>0, <1>4, StaysOutOfAccounts, StaysOutOfPlans DEF IInv
<1>13. QED
  BY <1>6, <1>11, <1>12 DEF IInv

\* update_many on the patterns of the line of a mapping.
LEMMA PatternSet ==
  ASSUME PatternsOK, NEW l \in Lines, NEW s \in {"confirmed", "rejected"},
         NEW m \in Nat \union {None}, SetPattern(l, s, m)
  PROVE  /\ patterns' \in [Lines -> Patterns \union {None}]
         /\ \A k \in Lines : k # l => patterns'[k] = patterns[k]
         /\ patterns[l] = None => patterns'[l] = None
         /\ patterns[l] # None => /\ patterns'[l].status = s /\ patterns'[l].mapping = m
                                  /\ patterns'[l].suggestion = patterns[l].suggestion
<1>1. patterns \in [Lines -> Patterns \union {None}]
  BY DEF PatternsOK, Documents
<1>2. CASE patterns[l] = None
  BY <1>1, <1>2 DEF SetPattern
<1>3. CASE patterns[l] # None
  <2> DEFINE q == [patterns[l] EXCEPT !.status = s, !.mapping = m]
  <2>1. patterns[l] \in Patterns
    BY <1>3, PatternStays
  <2>2. /\ q \in Patterns /\ q.status = s /\ q.mapping = m
        /\ q.suggestion = patterns[l].suggestion
    BY <2>1 DEF Patterns
  <2>3. patterns' = [patterns EXCEPT ![l] = q]
    BY <1>1, <1>3 DEF SetPattern
  <2> HIDE DEF q
  <2>4. QED
    BY <1>1, <1>3, <2>2, <2>3
<1>4. QED
  BY <1>2, <1>3

\* The mapping of a coroutine that goes through the steps of a decision.
LEMMA MappingCall ==
  ASSUME IInv, NEW g \in Handlers, call[g].at \in {"confirm", "example", "reject", "record mapping"}
  PROVE  /\ call[g].ref \in DOMAIN mappings /\ call[g].ref \in Nat
         /\ mappings[call[g].ref].line \in Lines
         /\ call[g].at \in {"confirm", "example"} => mappings[call[g].ref].decision = "confirm"
<1>1. Reviews(call[g], mappings, examples) /\ mappings \in Seq(Mappings)
  BY DEF IInv, PatternsOK, Documents
<1>2. /\ call[g].ref \in DOMAIN mappings
      /\ call[g].at \in {"confirm", "example"} => mappings[call[g].ref].decision = "confirm"
  BY <1>1 DEF Reviews, MappingSteps, ConfirmSteps
<1>3. call[g].ref \in Nat /\ mappings[call[g].ref] \in Mappings
  BY <1>1, <1>2, ElementOf
<1>4. QED
  BY <1>2, <1>3 DEF Mappings

LEMMA ConfirmPatternStep ==
  ASSUME IInv, NEW h \in Handlers, ConfirmPattern(h)
  PROVE  IInv'
<1> DEFINE m == call[h].ref
           l == mappings[m].line
           c == [call[h] EXCEPT !.at = "example"]
<1>0. /\ Go(h, c) /\ call[h].at = "confirm" /\ SetPattern(l, "confirmed", m)
      /\ UNCHANGED <<users, tokens, plans, approvals, mappings, examples, recorded, cut>>
  BY DEF ConfirmPattern, accounts, remediation
<1>1. c.at = "example" /\ c.ref = m
  BY DEF IInv, CallsOK
<1>2. m \in DOMAIN mappings /\ m \in Nat /\ l \in Lines /\ mappings[m].decision = "confirm"
  BY <1>0, MappingCall
<1>3. CallsOK'
  BY <1>0, GoOnOK DEF IInv, CallsOK, Steps, TrainingSteps, MappingSteps, ConfirmSteps
<1> HIDE DEF c
<1>4. call'[h] = c /\ \A g \in Handlers : g # h => call'[g] = call[g]
  BY <1>0, GoOn DEF IInv
<1>5. /\ patterns' \in [Lines -> Patterns \union {None}]
      /\ \A k \in Lines : k # l => patterns'[k] = patterns[k]
      /\ patterns[l] = None => patterns'[l] = None
      /\ patterns[l] # None => /\ patterns'[l].status = "confirmed" /\ patterns'[l].mapping = m
                               /\ patterns'[l].suggestion = patterns[l].suggestion
  BY <1>0, <1>2, PatternSet DEF IInv
<1>6. Documents'
  BY <1>0, <1>5 DEF IInv, PatternsOK, Documents
<1>7. Shows(l, patterns'[l], mappings', examples')
  <2>1. CASE patterns[l] = None
    BY <1>5, <2>1 DEF Shows
  <2>2. CASE patterns[l] # None
    BY <1>0, <1>2, <1>5, <2>2 DEF IInv, PatternsOK, Shows
  <2>3. QED
    BY <2>1, <2>2
<1>8. Reviews(c, mappings', examples')
  BY <1>0, <1>1, <1>2 DEF Reviews
<1>9. ConfirmedTeaches'
  <2> SUFFICES ASSUME NEW k \in Lines, patterns'[k] # None, patterns'[k].status = "confirmed"
               PROVE  LET x == patterns'[k].mapping
                      IN  /\ mappings'[x].line = k /\ mappings'[x].decision = "confirm"
                          /\ \/ \E i \in DOMAIN examples' : examples'[i].mapping = x
                             \/ \E g \in Handlers : Teaching(call'[g], x)
                             \/ \E y \in cut' : Teaching(y, x)
    BY DEF ConfirmedTeaches
  <2>1. CASE k = l
    BY <1>0, <1>1, <1>2, <1>4, <1>5, <2>1 DEF Teaching
  <2>2. CASE k # l
    <3> DEFINE x == patterns[k].mapping
    <3>1. /\ mappings[x].line = k /\ mappings[x].decision = "confirm"
          /\ \/ \E i \in DOMAIN examples : examples[i].mapping = x
             \/ \E g \in Handlers : Teaching(call[g], x)
             \/ \E y \in cut : Teaching(y, x)
      BY <1>5, <2>2 DEF IInv, PatternsOK, ConfirmedTeaches
    <3> HIDE DEF x
    <3>2. \A g \in Handlers : Teaching(call[g], x) => Teaching(call'[g], x)
      BY <1>0, <1>4 DEF Teaching
    <3>3. patterns'[k].mapping = x
      BY <1>5, <2>2 DEF x
    <3>4. QED
      BY <1>0, <3>1, <3>2, <3>3
  <2>3. QED
    BY <2>1, <2>2
<1>10. \A k \in Lines : patterns'[k] = patterns[k] \/ Shows(k, patterns'[k], mappings', examples')
  BY <1>5, <1>7
<1>11. PatternsOK'
  BY <1>0, <1>6, <1>8, <1>9, <1>10, SameLonger, ReviewGoesOn DEF IInv
<1>12. AccountsOK' /\ PlansOK'
  BY <1>0, <1>1, StaysOutOfAccounts, StaysOutOfPlans DEF IInv
<1>13. QED
  BY <1>3, <1>11, <1>12 DEF IInv

LEMMA InsertExampleStep ==
  ASSUME IInv, NEW h \in Handlers, NEW b \in BOOLEAN, InsertExample(h, b)
  PROVE  IInv'
<1> DEFINE m == call[h].ref
           x == [mapping |-> m, embedded |-> b]
           c == [call[h] EXCEPT !.at = "record mapping"]
<1>0. /\ Go(h, c) /\ call[h].at = "example" /\ examples' = Append(examples, x)
      /\ UNCHANGED <<users, tokens, plans, approvals, patterns, mappings, recorded, cut>>
  BY DEF InsertExample, accounts, remediation
<1>1. c.at = "record mapping" /\ c.ref = m
  BY DEF IInv, CallsOK
<1>2. m \in DOMAIN mappings /\ m \in Nat /\ mappings[m].decision = "confirm"
  BY <1>0, MappingCall
<1>3. CallsOK'
  BY <1>0, GoOnOK DEF IInv, CallsOK, Steps, TrainingSteps, MappingSteps
<1>4. x \in Examples /\ x.mapping = m
  BY <1>2 DEF Examples
<1> HIDE DEF c, x
<1>5. /\ examples' \in Seq(Examples) /\ Longer(examples', examples)
      /\ examples'[Len(examples) + 1] = x /\ Len(examples) + 1 \in DOMAIN examples'
      /\ DOMAIN examples' = DOMAIN examples \union {Len(examples) + 1}
  BY <1>0, <1>4, AppendLonger DEF IInv, PatternsOK, Documents
<1>6. \A g \in Handlers, k \in DOMAIN mappings : Teaching(call[g], k) =>
        Teaching(call'[g], k) \/ \E i \in DOMAIN examples' : examples'[i].mapping = k
  <2> TAKE g \in Handlers, k \in DOMAIN mappings
  <2>1. CASE g = h
    BY <1>4, <1>5, <2>1 DEF Teaching
  <2>2. CASE g # h
    BY <1>0, <2>2, GoOn DEF IInv
  <2>3. QED
    BY <2>1, <2>2
<1>7. ConfirmedTeaches'
  BY <1>0, <1>5, <1>6, SameLonger, StillTeaches DEF IInv
<1>8. Documents'
  BY <1>0, <1>2, <1>4, <1>5 DEF IInv, PatternsOK, Documents, Longer
<1>9. Reviews(c, mappings', examples')
  BY <1>0, <1>1, <1>2 DEF Reviews, ConfirmSteps
<1>10. PatternsOK'
  BY <1>0, <1>5, <1>7, <1>8, <1>9, SameLonger, ReviewGoesOn DEF IInv
<1>11. AccountsOK' /\ PlansOK'
  BY <1>0, <1>1, StaysOutOfAccounts, StaysOutOfPlans DEF IInv
<1>12. QED
  BY <1>3, <1>10, <1>11 DEF IInv

LEMMA RejectPatternStep ==
  ASSUME IInv, NEW h \in Handlers, RejectPattern(h)
  PROVE  IInv'
<1> DEFINE m == call[h].ref
           l == mappings[m].line
           k == IF patterns[l] = None THEN None ELSE patterns[l].mapping
           c == [call[h] EXCEPT !.at = "record mapping"]
<1>0. /\ Go(h, c) /\ call[h].at = "reject" /\ SetPattern(l, "rejected", k)
      /\ UNCHANGED <<users, tokens, plans, approvals, mappings, examples, recorded, cut>>
  BY DEF RejectPattern, accounts, remediation
<1>1. c.at = "record mapping" /\ c.ref = m
  BY DEF IInv, CallsOK
<1>2. m \in DOMAIN mappings /\ m \in Nat /\ l \in Lines
  BY <1>0, MappingCall
<1>3. CallsOK'
  BY <1>0, GoOnOK DEF IInv, CallsOK, Steps, TrainingSteps, MappingSteps
<1>4. k \in Nat \union {None}
  BY <1>2, PatternStays DEF IInv, Patterns
<1> HIDE DEF c, k
<1>5. /\ patterns' \in [Lines -> Patterns \union {None}]
      /\ \A j \in Lines : j # l => patterns'[j] = patterns[j]
      /\ patterns[l] = None => patterns'[l] = None
      /\ patterns[l] # None => /\ patterns'[l].status = "rejected" /\ patterns'[l].mapping = k
                               /\ patterns'[l].suggestion = patterns[l].suggestion
  BY <1>0, <1>2, <1>4, PatternSet DEF IInv
<1>6. Documents'
  BY <1>0, <1>5 DEF IInv, PatternsOK, Documents
<1>7. Shows(l, patterns'[l], mappings', examples')
  <2>1. CASE patterns[l] = None
    BY <1>5, <2>1 DEF Shows
  <2>2. CASE patterns[l] # None
    BY <1>0, <1>2, <1>5, <2>2 DEF IInv, PatternsOK, Shows
  <2>3. QED
    BY <2>1, <2>2
<1>8. Reviews(c, mappings', examples')
  BY <1>0, <1>1, <1>2 DEF Reviews, ConfirmSteps
<1>9. \A g \in Handlers, j \in DOMAIN mappings : Teaching(call[g], j) => Teaching(call'[g], j)
  BY <1>0, GoOn DEF IInv, Teaching
<1>10. \A j \in Lines : patterns'[j] # None /\ patterns'[j].status = "confirmed" =>
         patterns'[j] = patterns[j]
  BY <1>5
<1>11. ConfirmedTeaches'
  BY <1>0, <1>9, <1>10, SameLonger, StillTeaches DEF IInv
<1>12. \A j \in Lines : patterns'[j] = patterns[j] \/ Shows(j, patterns'[j], mappings', examples')
  BY <1>5, <1>7
<1>13. PatternsOK'
  BY <1>0, <1>6, <1>8, <1>11, <1>12, SameLonger, ReviewGoesOn DEF IInv
<1>14. AccountsOK' /\ PlansOK'
  BY <1>0, <1>1, StaysOutOfAccounts, StaysOutOfPlans DEF IInv
<1>15. QED
  BY <1>3, <1>13, <1>14 DEF IInv

LEMMA RecordMappingStep ==
  ASSUME IInv, NEW h \in Handlers, RecordMapping(h)
  PROVE  IInv'
<1>0. /\ Go(h, Idle) /\ call[h].at = "record mapping" /\ Idle.at = "idle"
      /\ recorded' = recorded \union {call[h].ref}
      /\ UNCHANGED <<users, tokens, plans, approvals, patterns, mappings, examples, cut>>
  BY IdleFields DEF RecordMapping, accounts, remediation
<1>1. call[h].ref \in DOMAIN mappings
  BY <1>0, MappingCall
<1>2. CallsOK'
  BY <1>0, GoOnOK DEF IInv, Idle, At, Steps
<1>3. Documents'
  BY <1>0, <1>1 DEF IInv, PatternsOK, Documents
<1>4. Reviews(Idle, mappings', examples')
  BY <1>0 DEF Reviews, MappingSteps, ConfirmSteps
<1>5. \A g \in Handlers, j \in DOMAIN mappings : Teaching(call[g], j) => Teaching(call'[g], j)
  BY <1>0, GoOn DEF IInv, Teaching
<1>6. ConfirmedTeaches'
  BY <1>0, <1>5, SameLonger, StillTeaches DEF IInv
<1>7. PatternsOK'
  BY <1>0, <1>3, <1>4, <1>6, SameLonger, ReviewGoesOn DEF IInv
<1>8. AccountsOK' /\ PlansOK'
  BY <1>0, StaysOutOfAccounts, StaysOutOfPlans DEF IInv
<1>9. QED
  BY <1>2, <1>7, <1>8 DEF IInv

\* A suggestion that is sound is taken to the step that writes it.
LEMMA SuggestionReady ==
  ASSUME IInv, NEW h \in Handlers, NEW l \in Lines, NEW s, call[h].at = "idle",
         Sound(l, s, mappings, examples), Go(h, At("suggest", l, s)),
         users' = users, tokens' = tokens, plans' = plans, approvals' = approvals,
         patterns' = patterns, mappings' = mappings, examples' = examples, recorded' = recorded,
         cut' = cut
  PROVE  IInv'
<1> DEFINE c == At("suggest", l, s)
<1>1. Go(h, c) /\ c.at = "suggest" /\ c.ref = l /\ c.data = s
  BY DEF At
<1>2. CallsOK'
  BY GoOnOK DEF IInv, At, Steps, TrainingSteps, Sound
<1> HIDE DEF c
<1>3. Reviews(c, mappings', examples')
  BY <1>1 DEF Reviews, MappingSteps, ConfirmSteps
<1>4. \A g \in Handlers, j \in DOMAIN mappings : Teaching(call[g], j) => Teaching(call'[g], j)
  BY <1>1, GoOn DEF IInv, Teaching
<1>5. ConfirmedTeaches'
  BY <1>4, SameLonger, StillTeaches DEF IInv
<1>6. Documents'
  BY DEF IInv, PatternsOK, Documents
<1>7. PatternsOK'
  BY <1>1, <1>3, <1>5, <1>6, SameLonger, ReviewGoesOn DEF IInv
<1>8. AccountsOK' /\ PlansOK'
  BY <1>1, StaysOutOfAccounts, StaysOutOfPlans DEF IInv
<1>9. QED
  BY <1>2, <1>7, <1>8 DEF IInv

LEMMA SuggestSimilarStep ==
  ASSUME IInv, NEW h \in Handlers, NEW l \in Lines, SuggestSimilar(h, l)
  PROVE  IInv'
<1>1. PICK i \in BestMatches(l) :
        Go(h, At("suggest", l, [source |-> "human_confirmed_similar", mapping |-> examples[i].mapping]))
  BY DEF SuggestSimilar
<1> DEFINE m == examples[i].mapping
           s == [source |-> "human_confirmed_similar", mapping |-> m]
<1>2. /\ i \in DOMAIN examples /\ VendorOf[mappings[m].line] = VendorOf[l]
      /\ Similarity[l, mappings[m].line] >= SimilarEnough
  BY DEF BestMatches, OfVendor, LineOf, Likeness
<1>3. /\ m \in DOMAIN mappings /\ mappings[m].decision = "confirm" /\ m \in Nat
  <2>1. m \in DOMAIN mappings /\ mappings[m].decision = "confirm" /\ mappings \in Seq(Mappings)
    BY <1>2 DEF IInv, PatternsOK, Documents
  <2>2. QED
    BY <2>1, ElementOf
<1>4. s \in Suggested /\ s.mapping = m
  BY <1>3 DEF Suggested
<1> HIDE DEF s
<1>5. Sound(l, s, mappings, examples)
  BY <1>2, <1>3, <1>4 DEF Sound, Taught
<1>6. Go(h, At("suggest", l, s))
  BY <1>1 DEF s
<1>7. QED
  BY <1>5, <1>6, IdleFields, SuggestionReady
     DEF SuggestSimilar, Arrive, accounts, remediation, training

LEMMA AskModelStep ==
  ASSUME IInv, NEW h \in Handlers, NEW l \in Lines, AskModel(h, l)
  PROVE  IInv'
<1> DEFINE s == [source |-> "llm_suggestion", mapping |-> None]
<1>1. Sound(l, s, mappings, examples)
  BY DEF Sound, Suggested
<1>2. QED
  BY <1>1, IdleFields, SuggestionReady DEF AskModel, Arrive, accounts, remediation, training

LEMMA WriteSuggestionStep ==
  ASSUME IInv, NEW h \in Handlers, WriteSuggestion(h)
  PROVE  IInv'
<1> DEFINE l == call[h].ref
           s == call[h].data
<1>0. /\ Go(h, Idle) /\ call[h].at = "suggest" /\ Idle.at = "idle"
      /\ patterns' = IF patterns[l] = None THEN patterns ELSE [patterns EXCEPT ![l].suggestion = s]
      /\ UNCHANGED <<users, tokens, plans, approvals, mappings, examples, recorded, cut>>
  BY IdleFields DEF WriteSuggestion, accounts, remediation
<1>1. CallsOK'
  BY <1>0, GoOnOK DEF IInv, Idle, At, Steps
<1>2. l \in Lines /\ Sound(l, s, mappings, examples)
  BY <1>0 DEF IInv, PatternsOK, Reviews
<1> HIDE DEF l, s
<1>3. /\ patterns' \in [Lines -> Patterns \union {None}]
      /\ \A j \in Lines : j # l => patterns'[j] = patterns[j]
      /\ patterns[l] = None => patterns'[l] = None
      /\ patterns[l] # None => /\ patterns'[l].status = patterns[l].status
                               /\ patterns'[l].mapping = patterns[l].mapping
                               /\ patterns'[l].suggestion = s
  <2>1. patterns \in [Lines -> Patterns \union {None}]
    BY DEF IInv, PatternsOK, Documents
  <2>2. CASE patterns[l] = None
    BY <1>0, <2>1, <2>2
  <2>3. CASE patterns[l] # None
    <3> DEFINE q == [patterns[l] EXCEPT !.suggestion = s]
    <3>1. patterns[l] \in Patterns
      BY <1>2, <2>3, PatternStays DEF IInv
    <3>2. /\ q \in Patterns /\ q.status = patterns[l].status /\ q.mapping = patterns[l].mapping
          /\ q.suggestion = s
      BY <1>2, <3>1 DEF Patterns, Sound
    <3>3. patterns' = [patterns EXCEPT ![l] = q]
      BY <1>0, <2>1, <2>3
    <3> HIDE DEF q
    <3>4. QED
      BY <1>2, <2>1, <2>3, <3>2, <3>3
  <2>4. QED
    BY <2>2, <2>3
<1>4. Documents'
  BY <1>0, <1>3 DEF IInv, PatternsOK, Documents
<1>5. Shows(l, patterns'[l], mappings', examples')
  <2>1. CASE patterns[l] = None
    BY <1>3, <2>1 DEF Shows
  <2>2. CASE patterns[l] # None
    BY <1>0, <1>2, <1>3, <2>2 DEF IInv, PatternsOK, Shows
  <2>3. QED
    BY <2>1, <2>2
<1>6. Reviews(Idle, mappings', examples')
  BY <1>0 DEF Reviews, MappingSteps, ConfirmSteps
<1>7. \A g \in Handlers, j \in DOMAIN mappings : Teaching(call[g], j) => Teaching(call'[g], j)
  BY <1>0, GoOn DEF IInv, Teaching
<1>8. \A j \in Lines : patterns'[j] # None /\ patterns'[j].status = "confirmed" =>
        /\ patterns[j] # None /\ patterns[j].status = "confirmed"
        /\ patterns'[j].mapping = patterns[j].mapping
  BY <1>3
<1>9. ConfirmedTeaches'
  BY <1>0, <1>7, <1>8, SameLonger, StillTeaches DEF IInv
<1>10. \A j \in Lines : patterns'[j] = patterns[j] \/ Shows(j, patterns'[j], mappings', examples')
  BY <1>3, <1>5
<1>11. PatternsOK'
  BY <1>0, <1>4, <1>6, <1>9, <1>10, SameLonger, ReviewGoesOn DEF IInv
<1>12. AccountsOK' /\ PlansOK'
  BY <1>0, StaysOutOfAccounts, StaysOutOfPlans DEF IInv
<1>13. QED
  BY <1>1, <1>11, <1>12 DEF IInv

-----------------------------------------------------------------------------
(* Faults                                                                  *)

LEMMA GiveUpStep ==
  ASSUME IInv, NEW h \in Handlers, GiveUp(h)
  PROVE  IInv'
<1>0. /\ Go(h, Idle) /\ Idle.at = "idle"
      /\ call[h].at \in {"suggest", "record approval", "write approval", "record mapping"}
      /\ cut' = cut \union {c \in {call[h]} : Owed(c)}
      /\ UNCHANGED <<users, tokens, plans, approvals, patterns, mappings, examples, recorded>>
  BY IdleFields DEF GiveUp, accounts, remediation, training
<1>1. CallsOK'
  BY <1>0, GoOnOK DEF IInv, Idle, At, Steps
<1>2. call'[h] = Idle /\ \A g \in Handlers : g # h => call'[g] = call[g]
  BY <1>0, GoOn DEF IInv
<1>3. cut \subseteq cut' /\ (Owed(call[h]) => call[h] \in cut')
  BY <1>0
<1>4. \A g \in Handlers : call[g].at \in RecordSteps => call'[g] = call[g] \/ call[g] \in cut'
  BY <1>2, <1>3 DEF RecordSteps, Owed
<1>5. \A g \in Handlers : call[g].at = "example" => call'[g] = call[g] \/ call[g] \in cut'
  BY <1>2, <1>3 DEF Owed
<1>6. \A g \in Handlers : call'[g].at # "idle" => call'[g] = call[g]
  BY <1>0, <1>2
<1>7. AccountsOK'
  BY <1>0, <1>6, AccountsFrame DEF IInv, accounts
<1>8. \A g \in Handlers : call'[g].at \in RemediationSteps => call'[g] = call[g]
  BY <1>6 DEF RemediationSteps, RecordSteps
<1>9. PlansOK'
  BY <1>0, <1>3, <1>4, <1>8, PlansFrame DEF IInv
<1>10. \A g \in Handlers : call'[g].at \in TrainingSteps => call'[g] = call[g]
  BY <1>6 DEF TrainingSteps, MappingSteps, ConfirmSteps
<1>11. PatternsOK'
  BY <1>0, <1>3, <1>5, <1>10, PatternsFrame DEF IInv
<1>12. QED
  BY <1>1, <1>7, <1>9, <1>11 DEF IInv

LEMMA CrashStep ==
  ASSUME IInv, Crash
  PROVE  IInv'
<1>0. /\ call' = [h \in Handlers |-> Idle] /\ Idle.at = "idle"
      /\ cut' = cut \union {call[h] : h \in {g \in Handlers : Owed(call[g])}}
      /\ UNCHANGED <<users, tokens, plans, approvals, patterns, mappings, examples, recorded>>
  BY IdleFields DEF Crash, accounts, remediation, training
<1>1. CallsOK'
  BY <1>0 DEF CallsOK, Idle, At, Steps
<1>2. cut \subseteq cut' /\ \A g \in Handlers : Owed(call[g]) => call[g] \in cut'
  BY <1>0
<1>3. \A g \in Handlers : call[g].at \in RecordSteps => call[g] \in cut'
  BY <1>2 DEF RecordSteps, Owed
<1>4. \A g \in Handlers : call[g].at = "example" => call[g] \in cut'
  BY <1>2 DEF Owed
<1>5. \A g \in Handlers : call'[g].at = "idle"
  BY <1>0
<1>6. AccountsOK'
  BY <1>0, <1>5, AccountsFrame DEF IInv, accounts
<1>7. \A g \in Handlers : call'[g].at \notin RemediationSteps
  BY <1>5 DEF RemediationSteps, RecordSteps
<1>8. PlansOK'
  BY <1>0, <1>2, <1>3, <1>7, PlansFrame DEF IInv
<1>9. \A g \in Handlers : call'[g].at \notin TrainingSteps
  BY <1>5 DEF TrainingSteps, MappingSteps, ConfirmSteps
<1>10. PatternsOK'
  BY <1>0, <1>2, <1>4, <1>9, PatternsFrame DEF IInv
<1>11. QED
  BY <1>1, <1>6, <1>8, <1>10 DEF IInv

-----------------------------------------------------------------------------
(* The invariant                                                           *)

LEMMA Initially == Init => IInv
<1> SUFFICES ASSUME Init PROVE IInv
  OBVIOUS
<1>0. \A h \in Handlers : call[h] = Idle /\ call[h].at = "idle"
  BY IdleFields DEF Init
<1>1. CallsOK
  BY DEF Init, CallsOK, Idle, At, Steps
<1>2. AccountsOK
  <2>1. users \in Seq(Accounts)
    BY DEF Init, Accounts, AllRoles, APPROVAL_ROLES
  <2>2. tokens = {[user |-> 1, role |-> "security_analyst"]} /\ 1 \in DOMAIN users
    BY DEF Init, Owner
  <2>3. QED
    BY <1>0, <2>1, <2>2 DEF AccountsOK, AllRoles, APPROVAL_ROLES
<1>3. PlansOK
  <2>1. plans = <<>> /\ approvals = [f \in Findings |-> None]
    BY DEF Init
  <2>2. ApprovalRecorded
    BY <2>1 DEF ApprovalRecorded
  <2>3. plans \in Seq(Plans) /\ DOMAIN plans = {}
    BY <2>1
  <2>4. \A h \in Handlers : call[h].at \notin RemediationSteps
    BY <1>0 DEF RemediationSteps, RecordSteps
  <2>5. approvals \in [Findings -> Approvals \union {None}] /\ \A f \in Findings : approvals[f] = None
    BY <2>1
  <2>6. QED
    BY <2>2, <2>3, <2>4, <2>5 DEF PlansOK
<1>4. PatternsOK
  <2>1. /\ patterns = [l \in Lines |-> None] /\ mappings = <<>> /\ examples = <<>>
        /\ recorded = {}
    BY DEF Init
  <2>2. Documents
    BY <2>1 DEF Documents
  <2>3. \A h \in Handlers : Reviews(call[h], mappings, examples)
    BY <1>0 DEF Reviews, MappingSteps, ConfirmSteps
  <2>4. QED
    BY <2>1, <2>2, <2>3 DEF PatternsOK, Shows, ConfirmedTeaches
<1>5. QED
  BY <1>1, <1>2, <1>3, <1>4 DEF IInv

LEMMA EveryStep == IInv /\ [Next]_vars => IInv'
<1> SUFFICES ASSUME IInv, [Next]_vars PROVE IInv'
  OBVIOUS
<1>1. ASSUME NEW h \in Handlers, AccountStep(h) PROVE IInv'
  BY <1>1, RegisterStep, InsertUserStep, LoginStep DEF AccountStep
<1>2. ASSUME NEW h \in Handlers, RemediationStep(h) PROVE IInv'
  BY <1>2, GenerateStep, ApproveStep, ReadPlanStep, ReturnApprovalStep, SubmitApprovalStep,
     WriteSimulatedStep, WriteApprovalStep DEF RemediationStep
<1>3. ASSUME NEW h \in Handlers, TrainingStep(h) PROVE IInv'
  BY <1>3, DecideStep, SuggestSimilarStep, AskModelStep, ConfirmPatternStep, RejectPatternStep,
     RecordMappingStep, WriteSuggestionStep, InsertExampleStep DEF TrainingStep
<1>4. CASE UNCHANGED vars
  <2>1. /\ call' = call /\ cut' = cut
        /\ UNCHANGED <<users, tokens, plans, approvals, patterns, mappings, examples, recorded>>
    BY <1>4 DEF vars, accounts, remediation, training
  <2>2. CallsOK' /\ AccountsOK' /\ PlansOK' /\ PatternsOK'
    BY <2>1, AccountsFrame, PlansFrame, PatternsFrame DEF IInv, CallsOK, accounts
  <2>3. QED
    BY <2>2 DEF IInv
<1>5. QED
  BY <1>1, <1>2, <1>3, <1>4, AppointStep, RetryApprovalStep, NoteUnknownStep, GiveUpStep, CrashStep
     DEF Next

LEMMA Invariant == Spec => []IInv
BY Initially, EveryStep, PTL DEF Spec

\* Every document refers to documents that exist.
THEOREM TypeCorrect == Spec => []TypeOK
<1>1. IInv => TypeOK
  <2> SUFFICES ASSUME IInv PROVE TypeOK
    OBVIOUS
  <2>1. users \in Seq([email : Emails \union {"owner"}, role : APPROVAL_ROLES \union {"viewer"}])
    BY DEF IInv, AccountsOK, Accounts, AllRoles
  <2>2. \A t \in tokens : t.user \in DOMAIN users
    BY DEF IInv, AccountsOK
  <2>3. ASSUME NEW n \in DOMAIN plans
        PROVE  /\ plans[n].finding \in Findings /\ plans[n].commands \in Suggestions
               /\ plans[n].status \in {"AWAITING_APPROVAL", "APPROVED", "SIMULATED"}
               /\ plans[n].passed \in BOOLEAN \union {None}
    BY PlanFields DEF IInv, Plans
  <2>4. \A n \in DOMAIN plans : plans[n].by \in DOMAIN users \union {None}
    BY DEF IInv, PlansOK
  <2>5. \A f \in Findings : approvals[f] # None =>
          approvals[f].status \in {"CONFIRMED", "PENDING"} /\ approvals[f].plan \in DOMAIN plans
    BY DEF IInv, PlansOK, Approvals
  <2>6. QED
    BY <2>1, <2>2, <2>3, <2>4, <2>5 DEF TypeOK, IInv, PatternsOK, Documents
<1>2. QED
  BY <1>1, Invariant, PTL

\* What is simulated was approved by somebody and has the verdict of its own commands, and
\* the recorded approval of a finding is that of a plan of this finding.
THEOREM ApprovalsFirst == Spec => []ApprovalComesFirst
<1>1. IInv => ApprovalComesFirst
  BY DEF IInv, PlansOK, ApprovalComesFirst, Approved
<1>2. QED
  BY <1>1, Invariant, PTL

\* Whatever requests overlap, an approved plan's finding has its event, or the request
\* that records it is under way or was cut off.
THEOREM ApprovalsRecorded == Spec => []ApprovalRecorded
<1>1. IInv => ApprovalRecorded
  BY DEF IInv, PlansOK
<1>2. QED
  BY <1>1, Invariant, PTL

\* A line that is confirmed names a human's confirmation of this line, with its example.
THEOREM ConfirmationsTeach == Spec => []ConfirmedTeaches
<1>1. IInv => ConfirmedTeaches
  BY DEF IInv, PatternsOK
<1>2. QED
  BY <1>1, Invariant, PTL

\* A suggestion shown as a human's is what a human confirmed of a similar line of the
\* vendor, though it is written after the lookup it comes from.
THEOREM SuggestionsHuman == Spec => []SuggestionIsHuman
<1>1. IInv => SuggestionIsHuman
  BY DEF IInv, PatternsOK, Shows, Sound, Taught, SuggestionIsHuman
<1>2. QED
  BY <1>1, Invariant, PTL

-----------------------------------------------------------------------------
(* One account for an address, when its registrations do not overlap       *)

LEMMA AddressesInitially == Init => AddressesFree
BY IdleFields DEF Init, AddressesFree

LEMMA AddressesKept ==
  ASSUME RegisterApart, IInv, AddressesFree, [Next]_vars
  PROVE  AddressesFree'
<1>1. ASSUME NEW h \in Handlers, NEW e \in Emails, NEW r \in Roles, Register(h, e, r)
      PROVE  AddressesFree'
  <2>1. /\ \A g \in Handlers : ~(call[g].at = "insert" /\ call[g].ref = e)
        /\ Free(e) /\ Go(h, At("insert", e, Requested(r))) /\ users' = users
    BY <1>1 DEF Register, accounts
  <2>2. /\ call'[h] = At("insert", e, Requested(r)) /\ call'[h].ref = e
        /\ \A g \in Handlers : g # h => call'[g] = call[g]
    BY <2>1, GoOn, Fields DEF IInv
  <2>3. \A u \in DOMAIN users : users[u].email # e
    BY <2>1 DEF Free
  <2>4. QED
    BY <2>1, <2>2, <2>3 DEF AddressesFree
<1>2. ASSUME NEW h \in Handlers, InsertUser(h)
      PROVE  AddressesFree'
  <2>1. /\ call[h].at = "insert" /\ Go(h, Idle) /\ Idle.at = "idle"
        /\ users' = Append(users, [email |-> call[h].ref, role |-> call[h].data])
    BY <1>2, IdleFields DEF InsertUser
  <2>2. /\ call'[h] = Idle /\ \A g \in Handlers : g # h => call'[g] = call[g]
    BY <2>1, GoOn DEF IInv
  <2>3. /\ users \in Seq(Accounts)
        /\ [email |-> call[h].ref, role |-> call[h].data] \in Accounts
    BY <2>1 DEF IInv, AccountsOK, Accounts
  <2>4. /\ DOMAIN users' = DOMAIN users \union {Len(users) + 1}
        /\ \A u \in DOMAIN users : users'[u] = users[u]
        /\ users'[Len(users) + 1].email = call[h].ref
    BY <2>1, <2>3
  <2>5. \A u, v \in DOMAIN users' : users'[u].email = users'[v].email => u = v
    BY <2>1, <2>4 DEF AddressesFree
  <2>6. ASSUME NEW g \in Handlers, call'[g].at = "insert"
        PROVE  /\ \A u \in DOMAIN users' : users'[u].email # call'[g].ref
               /\ \A k \in Handlers : call'[k].at = "insert" /\ call'[k].ref = call'[g].ref => k = g
    <3>1. g # h /\ call'[g] = call[g]
      BY <2>1, <2>2, <2>6
    <3>2. \A k \in Handlers : call'[k].at = "insert" => call'[k] = call[k]
      BY <2>1, <2>2
    <3>3. call[g].ref # call[h].ref
      BY <2>1, <2>6, <3>1 DEF AddressesFree
    <3>4. QED
      BY <2>4, <2>6, <3>1, <3>2, <3>3 DEF AddressesFree
  <2>7. QED
    BY <2>5, <2>6 DEF AddressesFree
<1>3. ASSUME users' = users, call' = call PROVE AddressesFree'
  BY <1>3 DEF AddressesFree
<1>4. ASSUME NEW h \in Handlers, \E u \in DOMAIN users : Login(h, u) PROVE AddressesFree'
  BY <1>3, <1>4 DEF Login
<1>5. ASSUME NEW h \in Handlers, RemediationStep(h) PROVE AddressesFree'
  <2>1. CASE \E t \in tokens, n \in DOMAIN plans : Approve(h, t, n) \/ ReadPlan(h, t, n)
    <3>1. PICK t \in tokens, n \in DOMAIN plans : Approve(h, t, n) \/ ReadPlan(h, t, n)
      BY <2>1
    <3>2. users' = users /\ \E s \in {"record approval", "simulate"} : \E d : Go(h, At(s, n, d))
      BY <3>1 DEF Approve, ReadPlan, accounts
    <3>3. PICK s \in {"record approval", "simulate"} : \E d : Go(h, At(s, n, d))
      BY <3>2
    <3>4. PICK d : Go(h, At(s, n, d))
      BY <3>3
    <3>5. At(s, n, d).at # "insert"
      BY Fields
    <3>6. QED
      BY <3>2, <3>4, <3>5, StaysOutOfAddresses DEF IInv
  <2>2. CASE \E t \in tokens, f \in Findings, c \in Suggestions : Generate(h, t, f, c)
    BY <1>3, <2>2 DEF Generate, accounts
  <2>3. CASE ReturnApproval(h) \/ WriteSimulated(h) \/ \E s \in {"CONFIRMED", "PENDING"} : WriteApproval(h, s)
    BY <2>3, IdleFields, StaysOutOfAddresses
       DEF ReturnApproval, WriteSimulated, WriteApproval, accounts, IInv
  <2>4. CASE SubmitApproval(h)
    <3>1. Go(h, [call[h] EXCEPT !.at = "write approval"]) /\ users' = users
      BY <2>4 DEF SubmitApproval, accounts
    <3>2. [call[h] EXCEPT !.at = "write approval"].at # "insert"
      BY DEF IInv, CallsOK
    <3>3. QED
      BY <3>1, <3>2, StaysOutOfAddresses DEF IInv
  <2>5. QED
    BY <1>5, <2>1, <2>2, <2>3, <2>4 DEF RemediationStep
<1>6. ASSUME NEW h \in Handlers, TrainingStep(h) PROVE AddressesFree'
  <2>1. \A s \in {"record mapping", "example"} : [call[h] EXCEPT !.at = s].at # "insert"
    BY DEF IInv, CallsOK
  <2>2. CASE ConfirmPattern(h) \/ RejectPattern(h) \/ \E b \in BOOLEAN : InsertExample(h, b)
    BY <2>1, <2>2, StaysOutOfAddresses
       DEF ConfirmPattern, RejectPattern, InsertExample, accounts, IInv
  <2>3. CASE RecordMapping(h) \/ WriteSuggestion(h)
    BY <2>3, IdleFields, StaysOutOfAddresses DEF RecordMapping, WriteSuggestion, accounts, IInv
  <2>4. CASE \E l \in Lines, m \in Meanings, d \in Decisions : Decide(h, l, m, d)
    <3>1. PICK l \in Lines, m \in Meanings, d \in Decisions : Decide(h, l, m, d)
      BY <2>4
    <3> DEFINE c == At(IF d = "edit" THEN "record mapping" ELSE d, Len(mappings) + 1, None)
    <3>2. Go(h, c) /\ users' = users
      BY <3>1 DEF Decide, accounts
    <3>3. c.at # "insert"
      BY DEF At, Decisions
    <3>4. QED
      BY <3>2, <3>3, StaysOutOfAddresses DEF IInv
  <2>5. CASE \E l \in Lines : SuggestSimilar(h, l) \/ AskModel(h, l)
    <3>1. PICK l \in Lines : SuggestSimilar(h, l) \/ AskModel(h, l)
      BY <2>5
    <3>2. users' = users /\ \E s : Go(h, At("suggest", l, s))
      BY <3>1 DEF SuggestSimilar, AskModel, accounts
    <3>3. PICK s : Go(h, At("suggest", l, s))
      BY <3>2
    <3>4. At("suggest", l, s).at # "insert"
      BY Fields
    <3>5. QED
      BY <3>2, <3>3, <3>4, StaysOutOfAddresses DEF IInv
  <2>6. QED
    BY <1>6, <2>2, <2>3, <2>4, <2>5 DEF TrainingStep
<1>7. ASSUME NEW h \in Handlers, GiveUp(h) PROVE AddressesFree'
  BY <1>7, IdleFields, StaysOutOfAddresses DEF GiveUp, accounts, IInv
<1>8. ASSUME Crash PROVE AddressesFree'
  <2>1. users' = users /\ \A g \in Handlers : call'[g].at = "idle"
    BY <1>8, IdleFields DEF Crash, accounts
  <2>2. QED
    BY <2>1, AddressesFrame
<1>9. ASSUME NEW u \in DOMAIN users, Appoint(u) PROVE AddressesFree'
  BY <1>9, AppointStep
<1>10. ASSUME NEW f \in Findings, RetryApproval(f) PROVE AddressesFree'
  BY <1>3, <1>10 DEF RetryApproval, accounts
<1>11. ASSUME NEW l \in Lines, NoteUnknown(l) PROVE AddressesFree'
  BY <1>3, <1>11 DEF NoteUnknown, accounts
<1>12. CASE UNCHANGED vars
  BY <1>3, <1>12 DEF vars, accounts
<1>13. QED
  BY <1>1, <1>2, <1>4, <1>5, <1>6, <1>7, <1>8, <1>9, <1>10, <1>11, <1>12 DEF Next, AccountStep

\* An address has one account if its registrations do not overlap, and only those who were
\* appointed have an administrator's token.
THEOREM OneAccount ==
  ASSUME RegisterApart
  PROVE  Spec => []OneAccountPerEmail
<1>1. Init => IInv /\ AddressesFree
  BY Initially, AddressesInitially
<1>2. (IInv /\ AddressesFree) /\ [Next]_vars => (IInv /\ AddressesFree)'
  BY EveryStep, AddressesKept
<1>3. IInv /\ AddressesFree => OneAccountPerEmail
  BY DEF IInv, AccountsOK, AddressesFree, OneAccountPerEmail
<1>4. QED
  BY <1>1, <1>2, <1>3, PTL DEF Spec
===============================================================================
