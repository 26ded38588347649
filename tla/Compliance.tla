------------------------------ MODULE Compliance ------------------------------
(***************************************************************************)
(* The control set (app/compliance/controls.py), the engine that evaluates *)
(* it (engine.py), the framework registry (frameworks.py) and the findings *)
(* derived from its failures (findings.py).  Evidence, titles and notes    *)
(* are wording.                                                            *)
(***************************************************************************)
EXTENDS SecurityIR, FiniteSets, SequencesExt

Flag(v, bad) == IF v = None THEN "INSUFFICIENT_EVIDENCE" ELSE IF v = bad THEN "FAIL" ELSE "PASS"
Check(ok) == IF ok THEN "PASS" ELSE "FAIL"

SshVersion(ir) ==
  IF ir.ssh # TRUE THEN "NOT_APPLICABLE"
  ELSE IF ir.sshVersion = None THEN "INSUFFICIENT_EVIDENCE" ELSE Check(ir.sshVersion >= 2)

PasswordPolicy(ir) ==
  IF ir.minLength = None THEN "INSUFFICIENT_EVIDENCE" ELSE Check(ir.minLength >= 8)

SnmpSecure(ir) ==
  IF ir.snmp # TRUE THEN "NOT_APPLICABLE"
  ELSE IF ir.snmpVersion \in {"1", "2c"} /\ ir.communities = TRUE THEN "FAIL"
  ELSE IF ir.snmpVersion = "3" THEN "PASS" ELSE "INSUFFICIENT_EVIDENCE"

UnrestrictedAcl(ir) ==
  IF ir.rules = {} THEN "INSUFFICIENT_EVIDENCE" ELSE Check("unrestricted" \notin ir.rules)

ManagementExposure(ir) == Check(~(ir.exposed /\ (ir.telnet = TRUE \/ ir.http = TRUE)))

\* Mutant: the aggregate looks at one of the services it lists.
TelnetServices(ir) == Check("telnet" \notin ir.insecure)

InsecureServices(ir) == Check(ir.insecure = {})

SessionTimeout(ir) ==
  IF ir.timeout = None THEN "INSUFFICIENT_EVIDENCE" ELSE Check(ir.timeout # 0 /\ ir.timeout <= 900)

\* run_compliance: the status of every control.
Evaluate(ir) ==
  [telnet_disabled |-> Flag(ir.telnet, TRUE),
   http_management_disabled |-> Flag(ir.http, TRUE),
   ssh_version_2 |-> SshVersion(ir),
   management_encryption_in_use |-> Flag(ir.https, FALSE),
   password_policy_minimum_length |-> PasswordPolicy(ir),
   privileged_access_restricted |-> Flag(ir.privileged, FALSE),
   mfa_enforced |-> IF ir.mfa = None THEN "NOT_APPLICABLE" ELSE Flag(ir.mfa, FALSE),
   no_default_credentials |-> Flag(ir.defaultCredentials, TRUE),
   logging_enabled |-> Flag(ir.logging, FALSE),
   remote_syslog_configured |-> Flag(ir.syslog, FALSE),
   audit_logging_enabled |-> Flag(ir.audit, FALSE),
   ntp_configured |-> Flag(ir.ntp, FALSE),
   snmp_secure |-> SnmpSecure(ir),
   no_unrestricted_acl_rules |-> UnrestrictedAcl(ir),
   management_plane_not_internet_exposed |-> ManagementExposure(ir),
   no_insecure_services |-> InsecureServices(ir),
   no_unused_services |-> Check(ir.unused = {}),
   session_timeout_configured |-> SessionTimeout(ir)]

Control(id, category, severity) == [id |-> id, category |-> category, severity |-> severity]

CONTROLS ==
  <<Control("telnet_disabled", "management_plane", "HIGH"),
    Control("http_management_disabled", "management_plane", "HIGH"),
    Control("ssh_version_2", "management_plane", "HIGH"),
    Control("management_encryption_in_use", "management_plane", "MEDIUM"),
    Control("password_policy_minimum_length", "authentication", "MEDIUM"),
    Control("privileged_access_restricted", "authentication", "HIGH"),
    Control("mfa_enforced", "authentication", "HIGH"),
    Control("no_default_credentials", "authentication", "CRITICAL"),
    Control("logging_enabled", "logging", "MEDIUM"),
    Control("remote_syslog_configured", "logging", "MEDIUM"),
    Control("audit_logging_enabled", "logging", "MEDIUM"),
    Control("ntp_configured", "logging", "LOW"),
    Control("snmp_secure", "management_plane", "HIGH"),
    Control("no_unrestricted_acl_rules", "access_control", "CRITICAL"),
    Control("management_plane_not_internet_exposed", "access_control", "CRITICAL"),
    Control("no_insecure_services", "hardening", "MEDIUM"),
    Control("no_unused_services", "hardening", "LOW"),
    Control("session_timeout_configured", "management_plane", "MEDIUM")>>

\* derive_findings: one finding per failed control, in the order of CONTROLS.
Findings(status) ==
  FoldLeft(LAMBDA found, c : IF status[c.id] = "FAIL" THEN Append(found, c) ELSE found, <<>>, CONTROLS)

Count(status, s) == Cardinality({i \in DOMAIN CONTROLS : status[CONTROLS[i].id] = s})

\* round(n / d, 0) for n, d > 0.  With d at most 2 * 18 no quotient the engines round
\* to hundredths is halfway between two.
Round(n, d) == (2 * n + d) \div (2 * d)

\* compliance_score in hundredths of a percent.
Score(status) ==
  LET passed == Count(status, "PASS")
      applicable == passed + Count(status, "FAIL")
  IN  IF applicable = 0 THEN None ELSE Round(10000 * passed, applicable)

FRAMEWORKS == [CIS |-> 153, NIST_800_53 |-> 322, DISA_STIG |-> None, ISO_27001 |-> 93]
Mapped == {"CIS", "NIST_800_53"}   \* every control has a mapping to each of these

\* framework_coverage in hundredths of a percent.
Coverage(framework) ==
  LET implemented == IF framework \in Mapped THEN Len(CONTROLS) ELSE 0
  IN  IF FRAMEWORKS[framework] = None THEN None
      ELSE Round(10000 * implemented, FRAMEWORKS[framework])
===============================================================================
