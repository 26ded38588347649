------------------------------- MODULE Analysis -------------------------------
(***************************************************************************)
(* From a file to its findings, risk, attack paths and remediation orders: *)
(* detection and parsing as process_upload and confirm_vendor call them    *)
(* (app/services/configuration_service.py, app/api/configurations.py), the *)
(* engines as run_scan_pipeline calls them (app/services/scan_service.py), *)
(* and the optimizer runs of POST /api/optimizer/run.                      *)
(*                                                                         *)
(* ScanAudit has the pipeline await by await, with its exceptions and      *)
(* crashes, and no content; here every engine is one step and the content  *)
(* of what it stores is exact.                                             *)
(***************************************************************************)
EXTENDS Vendors, Optimizer

CONSTANTS
  Files,     \* [vendor, text, hint, embedding]: whose file it is, and what detection gets
  Contexts,  \* [criticality, internet_exposure]: the asset contexts of the device
  Budgets,   \* what a client may ask of the optimizer, besides None for the default
  MaxRuns    \* bound: optimizer runs per scan

Strategies == {"severity_only", "greedy_risk", "aco"}

ASSUME AnalysisAssumption ==
  /\ \A f \in Files :
       /\ f.vendor \in ToSet(Registered) /\ f.embedding \in [ToSet(Registered) -> Int]
       /\ Text(f.text)
  /\ Budgets \subseteq Int /\ MaxRuns \in Nat
  /\ None \notin [Strategies -> Seq(Nat)] \union ToSet(Registered)

VARIABLES
  file,
  stage,
  detected,  \* what detection said, then what the human said
  ir, context, status, risk,
  graph,     \* the attack_graphs document: the graph and its potential paths, or None
  orders,    \* the order of each strategy: the finding ids and the seed fix it for a scan
  runs       \* the optimizer_runs documents of the scan

vars == <<file, stage, detected, ir, context, status, risk, graph, orders, runs>>

Paths == IF graph = None THEN {} ELSE graph.paths

Init ==
  /\ file \in Files
  /\ stage = "uploaded"
  /\ detected = None /\ ir = None /\ context = None /\ status = None /\ risk = None
  /\ graph = None /\ orders = None /\ runs = {}

-----------------------------------------------------------------------------
(* The upload                                                              *)

\* A file is parsed by the vendor given, or the version is FAILED.
ParseAs(vendor) ==
  /\ ir' = Parse(vendor, file.text)
  /\ stage' = IF ir' = None THEN "failed" ELSE "parsed"

\* Below the threshold, and without a hint, the human is asked.
DetectVendor ==
  /\ stage = "uploaded"
  /\ detected' = Detect(file.text, file.hint, file.embedding)
  /\ IF detected'.confidence < Threshold /\ file.hint = None
     THEN stage' = "asked" /\ UNCHANGED ir
     ELSE ParseAs(detected'.vendor)
  /\ UNCHANGED <<file, context, status, risk, graph, orders, runs>>

\* The human names the right vendor.
ConfirmVendor ==
  /\ stage = "asked"
  /\ detected' = [vendor |-> file.vendor, confidence |-> Sure, method |-> "human"]
  /\ ParseAs(file.vendor)
  /\ UNCHANGED <<file, context, status, risk, graph, orders, runs>>

-----------------------------------------------------------------------------
(* The scan                                                                *)

\* The asset context is read once, with the device, before the first engine.
AnalyseCompliance ==
  /\ stage = "parsed"
  /\ context' \in Contexts
  /\ status' = Evaluate(ir)
  /\ stage' = "compliance"
  /\ UNCHANGED <<file, detected, ir, risk, graph, orders, runs>>

AnalyseRisk ==
  /\ stage = "compliance"
  /\ risk' = RiskScore(ir, context)
  /\ stage' = "risk"
  /\ UNCHANGED <<file, detected, ir, context, status, graph, orders, runs>>

BuildAttackGraph ==
  /\ stage = "risk"
  /\ LET g == Graph(ir, context)
     IN  graph' = [nodes |-> g.nodes, edges |-> g.edges, paths |-> AttackPaths(g, Findings(status))]
  /\ stage' = "graph"
  /\ UNCHANGED <<file, detected, ir, context, status, risk, orders, runs>>

Run(o, budget) ==
  [budget |-> budget, total |-> Cardinality(Paths),
   strategies |-> [s \in Strategies |-> Evaluated(Findings(status), Paths, o[s], budget)]]

\* compare_strategies: the first call settles the orders.
Compare(budget) ==
  /\ IF orders # None THEN UNCHANGED orders
     ELSE \E severity \in Orders("severity_only", Findings(status)),
             greedy \in Orders("greedy_risk", Findings(status)), ants \in Orders("aco", Findings(status)) :
            orders' = [severity_only |-> severity, greedy_risk |-> greedy, aco |-> ants]
  /\ runs' = runs \union {Run(orders', budget)}

Optimise ==
  /\ stage = "graph"
  /\ IF Findings(status) = <<>> THEN UNCHANGED <<orders, runs>>
     ELSE Compare(DefaultBudget(Findings(status)))
  /\ stage' = "completed"
  /\ UNCHANGED <<file, detected, ir, context, status, risk, graph>>

\* POST /api/optimizer/run, possible as soon as the scan has findings: the graph may
\* not be there yet.
RunOptimizer(budget) ==
  /\ status # None /\ Findings(status) # <<>>
  /\ Cardinality(runs) < MaxRuns
  /\ Compare(budget)
  /\ UNCHANGED <<file, stage, detected, ir, context, status, risk, graph>>

Next ==
  \/ DetectVendor \/ ConfirmVendor
  \/ AnalyseCompliance \/ AnalyseRisk \/ BuildAttackGraph \/ Optimise
  \/ \E b \in Budgets : RunOptimizer(b)

Spec == Init /\ [][Next]_vars

-----------------------------------------------------------------------------
(* Properties                                                              *)

Stages == {"uploaded", "asked", "failed", "parsed", "compliance", "risk", "graph", "completed"}

\* Every parser fills the IR with values of its schema, for the file of any vendor, and
\* the risk score stays within its scale.
TypeOK ==
  /\ stage \in Stages
  /\ ir \in Maybe(SecurityIRs)
  /\ context \in Maybe(Contexts)
  /\ risk \in Maybe(0..10000)
  /\ Cardinality(runs) <= MaxRuns + 1

\* The aggregate controls agree with the controls they aggregate: insecure services are
\* found exactly when telnet or HTTP management is, and an exposed management plane
\* always comes with one of the root causes the optimizer orders before it.
AggregatesAgree ==
  status # None =>
    /\ status.no_insecure_services = "FAIL" <=>
         "FAIL" \in {status.telnet_disabled, status.http_management_disabled}
    /\ status.management_plane_not_internet_exposed = "FAIL" =>
         \E id \in DEPENDENCIES("management_plane_not_internet_exposed") : status[id] = "FAIL"

\* A potential attack path is reported exactly when an interface faces the Internet and
\* the asset is critical, and every service on it is a finding whose remediation the
\* optimizer credits with the path.
PathsAreGrounded ==
  graph # None =>
    /\ graph.paths # {} <=> Exposed(ir.interfaces) /\ Critical(context)
    /\ \A p \in graph.paths : \A s \in p.services :
         \E id \in DOMAIN CONTROL_TO_SERVICE : CONTROL_TO_SERVICE[id] = s /\ status[id] = "FAIL"

\* The IR after the finding of a control has been remediated.
WithServices(r, telnet, http) ==
  [r EXCEPT !.telnet = telnet, !.http = http, !.insecure = Insecure(telnet, http)]
Remediated(r, id) ==
  CASE id = "telnet_disabled" -> WithServices(r, FALSE, r.http)
    [] id = "http_management_disabled" -> WithServices(r, r.telnet, FALSE)
    [] id \in {"no_insecure_services", "management_plane_not_internet_exposed"} -> WithServices(r, FALSE, FALSE)
    [] id = "ssh_version_2" -> [r EXCEPT !.sshVersion = 2]
    [] id = "management_encryption_in_use" -> [r EXCEPT !.https = TRUE]
    [] id = "password_policy_minimum_length" -> [r EXCEPT !.minLength = 8]
    [] id = "privileged_access_restricted" -> [r EXCEPT !.privileged = TRUE]
    [] id = "mfa_enforced" -> [r EXCEPT !.mfa = TRUE]
    [] id = "no_default_credentials" -> [r EXCEPT !.defaultCredentials = FALSE]
    [] id = "logging_enabled" -> [r EXCEPT !.logging = TRUE]
    [] id = "remote_syslog_configured" -> [r EXCEPT !.syslog = TRUE]
    [] id = "audit_logging_enabled" -> [r EXCEPT !.audit = TRUE]
    [] id = "ntp_configured" -> [r EXCEPT !.ntp = TRUE]
    [] id = "snmp_secure" -> [r EXCEPT !.snmpVersion = "3"]
    [] id = "no_unrestricted_acl_rules" -> [r EXCEPT !.rules = @ \ {"unrestricted"}]
    [] id = "no_unused_services" -> [r EXCEPT !.unused = {}]
    [] id = "session_timeout_configured" -> [r EXCEPT !.timeout = 600]

\* Remediating any finding never raises the risk score of the device, although it may
\* take a control out of the rate's denominator or leave the capped sum where it was.
FixNeverRaisesRisk ==
  stage = "risk" =>
    \A id \in Ids(Findings(status)) : RiskScore(Remediated(ir, id), context) <= risk

\* Every order the optimizer settles on remediates each finding once and a root cause
\* before what depends on it; a larger budget, as long as budgets are not negative,
\* extends what the smaller one completes and leaves no more risk.
PlansAreSound ==
  LET findings == Findings(status)
      Precedes(seq, i, j) == \E m, n \in DOMAIN seq : seq[m] = i /\ seq[n] = j /\ m < n
  IN  /\ orders # None =>
           \A s \in Strategies :
             /\ ToSet(orders[s]) = DOMAIN findings /\ Len(orders[s]) = Len(findings)
             /\ \A i, j \in DOMAIN findings :
                  findings[i].id \in DependsOn(findings, findings[j].id) => Precedes(orders[s], i, j)
      /\ \A r, q \in runs : 0 <= r.budget /\ r.budget <= q.budget =>
           \A s \in Strategies :
             /\ IsPrefix(r.strategies[s].completed, q.strategies[s].completed)
             /\ 0 <= q.strategies[s].residual_risk
             /\ q.strategies[s].residual_risk <= r.strategies[s].residual_risk

\* The set commands of a PAN-OS device give the IR of its XML export, field by field, when
\* nothing in the file that the field comes from is read by one of the two parsers only:
\* commands in a template, profiles that disagree, words for numbers, minimum lengths of
\* mgt-config, communities outside snmp-setting, zones outside a vsys, interfaces without
\* an address, rules of a vsys or with several members.
InTemplates(t) == {l.val.cmd : l \in {m \in ToSet(t) : m.cmd = "set template"}}
OneReading(t, cmd, others) ==
  ({cmd} \union others) \intersect InTemplates(t) = {} /\ \A other \in others : ~Has(t, other)
OneFlag(t, service) ==
  /\ OneReading(t, "set network profiles", {})
  /\ \A v, w \in Values(t, "set network profiles") : v[1] = service /\ w[1] = service => v = w
OneNumber(t, cmd, others) == OneReading(t, cmd, others) /\ None \notin Values(t, cmd)
OneZones(t) == OneReading(t, "set vsys", {}) /\ ~Has(t, "set zone")
Comparable(t, f) ==
  /\ f \in {"ssh", "sshVersion"} => OneFlag(t, "ssh")
  /\ f = "https" => OneFlag(t, "https")
  /\ f \in {"http", "insecure"} => OneFlag(t, "http")
  /\ f \in {"telnet", "insecure"} => OneFlag(t, "telnet")
  /\ f = "timeout" => OneNumber(t, "set mgt-config idle-timeout", {})
  /\ f = "minLength" => OneNumber(t, "set shared minimum-length", {"set mgt-config minimum-length"})
  /\ f = "syslog" => OneReading(t, "set shared syslog", {})
  /\ f = "ntp" => OneReading(t, "set deviceconfig ntp-servers", {})
  /\ f \in {"snmp", "communities"} => ~Has(Everywhere(t), "set shared snmp-community-string")
  /\ f \in {"zones", "interfaces", "exposed"} => OneZones(t)
  /\ f \in {"interfaces", "exposed"} =>
       OneReading(t, "set network interface", {}) /\ \A v \in Values(t, "set network interface") : v.ip
  /\ f = "rules" =>
       /\ OneReading(t, "set rulebase security rules", {"set vsys rulebase"})
       /\ \A r \in Values(t, "set rulebase security rules") : Len(r.src) = 1 /\ Len(r.dst) = 1
  /\ f = "unmapped" => ~HasAny(t, PanUnmapped)
FormatsAgree ==
  stage = "parsed" /\ detected.vendor = "PaloAlto" =>
    \A f \in DOMAIN ir : Comparable(file.text, f) => ir[f] = ParsePanXml(file.text)[f]

\* A file is parsed as the vendor that a registered hint names.  Otherwise no vendor
\* scores higher; and without any hint the human named the vendor or the file has evidence
\* of it: an embedding at the threshold, three Cisco or two Fortinet or PAN-OS hints, or
\* what is taken for a PAN-OS export.  What the files of other vendors share, separators
\* and fewer hints, does not do.  (It is no more than evidence: a Junos export is parsed as
\* PAN-OS.  With a hint that is not registered a guess below the threshold is parsed too.)
Evident(vendor, t) ==
  \/ Hits(vendor, t) >= (IF vendor = "Cisco" THEN 3 ELSE 2)
  \/ vendor = "PaloAlto" /\ ExportScore(t) > 0
ParsedOnEvidence ==
  ir # None =>
    /\ file.hint \in ToSet(Registered) => detected.vendor = file.hint
    /\ file.hint \notin ToSet(Registered) /\ detected.method # "human" =>
         \A v \in ToSet(Registered) :
           Most(Signature(v, file.text), file.embedding[v]) <= detected.confidence
    /\ file.hint = None /\ detected.method # "human" =>
         \/ file.embedding[detected.vendor] >= Threshold
         \/ Evident(detected.vendor, file.text)

\* A score below the CRITICAL band, which starts at 81, is not called CRITICAL
\* (RISK_BANDS in app/risk/engine.py, test_risk_level_bands_match_documented_thresholds).
LevelMatchesBand == risk # None /\ risk < 8100 => RiskLevel(risk) # "CRITICAL"
===============================================================================
