---------------------------- MODULE Analysis_proofs ----------------------------
(***************************************************************************)
(* What the parsers, the engines and the optimizer make of one device, for *)
(* any file of any vendor with any contents, any asset context and any     *)
(* budgets: the IR has the types of its schema, the two PAN-OS formats     *)
(* give the same fields where both are read, a file is parsed on evidence  *)
(* of its vendor, the aggregate controls agree with their parts, attack    *)
(* paths are there exactly when they should be, no fix raises the risk,    *)
(* and every plan is sound.                                                *)
(*                                                                         *)
(* Every parser derives the insecure services and the exposure it stores   *)
(* from the flags and the interfaces it stores (Consistent); the engines   *)
(* read the same IR at every stage, since none is written after the first. *)
(* A fold of the model (the findings, the terms of the risk, the orders,   *)
(* the detection) is a chain of partial results, which FoldTheorems shows  *)
(* to exist.                                                               *)
(***************************************************************************)
EXTENDS Analysis, FoldTheorems, SequenceTheorems, TLAPS

IRFields ==
  {"ssh", "sshVersion", "telnet", "http", "https", "timeout", "mfa", "minLength",
   "defaultCredentials", "privileged", "logging", "syslog", "audit", "ntp", "snmp", "snmpVersion",
   "communities", "interfaces", "zones", "rules", "insecure", "unused", "exposed", "unmapped"}

Consistent(r) ==
  /\ DOMAIN r = IRFields
  /\ r.insecure = Insecure(r.telnet, r.http) /\ r.exposed = Exposed(r.interfaces)

-----------------------------------------------------------------------------
(* The parsers                                                             *)

Derived(r) == r.insecure = Insecure(r.telnet, r.http) /\ r.exposed = Exposed(r.interfaces)

LEMMA EmptyFields == DOMAIN EmptyIR = IRFields
BY DEF EmptyIR, IRFields

LEMMA FilledIs ==
  ASSUME NEW s
  PROVE  /\ DOMAIN Filled(s) = IRFields /\ Filled(s) = [f \in IRFields |-> Filled(s)[f]]
         /\ \A f \in IRFields : Filled(s)[f] = IF f \in DOMAIN s THEN s[f] ELSE EmptyIR[f]
BY EmptyFields DEF Filled

LEMMA FilledConsistent ==
  ASSUME NEW s, Derived(s), {"telnet", "http", "interfaces", "insecure", "exposed"} \subseteq DOMAIN s
  PROVE  Consistent(Filled(s))
<1>1. \A f \in {"telnet", "http", "interfaces", "insecure", "exposed"} : Filled(s)[f] = s[f]
  BY FilledIs DEF IRFields
<1>2. QED
  BY <1>1, FilledIs DEF Consistent, Derived

LEMMA CiscoConsistent == \A t : Consistent(ParseCisco(t))
<1>1. \A t : {"telnet", "http", "interfaces", "insecure", "exposed"} \subseteq DOMAIN CiscoFields(t)
  BY DEF CiscoFields
<1>2. \A t : Derived(CiscoFields(t))
  BY DEF CiscoFields, Derived
<1>3. QED
  BY <1>1, <1>2, FilledConsistent DEF ParseCisco

LEMMA FortinetConsistent == \A t : Consistent(ParseFortinet(t))
<1>1. \A t : {"telnet", "http", "interfaces", "insecure", "exposed"} \subseteq DOMAIN FortinetFields(t)
  BY DEF FortinetFields
<1>2. \A t : Derived(FortinetFields(t))
  BY DEF FortinetFields, Derived
<1>3. QED
  BY <1>1, <1>2, FilledConsistent DEF ParseFortinet

LEMMA PanConsistent == \A read : Consistent(PanIR(read))
<1> TAKE read
<1> DEFINE s == PanFields(read)
<1>1. {"telnet", "http", "interfaces", "insecure", "exposed"} \subseteq DOMAIN s
  BY DEF PanFields
<1>2. Derived(s)
  BY DEF PanFields, Derived
<1> HIDE DEF s
<1>3. Consistent(Filled(s))
  BY <1>1, <1>2, FilledConsistent
<1>4. QED
  BY <1>3 DEF PanIR, s

\* parse_configuration of any vendor, when it does not raise.
LEMMA ParsedConsistent ==
  ASSUME NEW vendor, NEW t, Parse(vendor, t) # None
  PROVE  Consistent(Parse(vendor, t))
<1>1. Consistent(ParsePanXml(t))
  BY PanConsistent DEF ParsePanXml
<1>2. Consistent(ParsePanSet(t))
  BY PanConsistent DEF ParsePanSet
<1>3. CASE vendor = "Cisco"
  BY <1>3, CiscoConsistent DEF Parse
<1>4. CASE vendor = "Fortinet"
  BY <1>4, FortinetConsistent DEF Parse
<1>5. CASE vendor = "PaloAlto"
  BY <1>1, <1>2, <1>5 DEF Parse
<1>6. CASE vendor \notin {"Cisco", "Fortinet", "PaloAlto"}
  BY <1>6 DEF Parse
<1>7. QED
  BY <1>3, <1>4, <1>5, <1>6

-----------------------------------------------------------------------------
(* The engines                                                             *)

LEMMA NoneIsNot == None # TRUE /\ None # FALSE /\ \A i \in Int : None # i
BY NoneAssumption

LEMMA AggregatesFollow ==
  ASSUME NEW r, Consistent(r)
  PROVE  LET s == Evaluate(r)
         IN  /\ s.no_insecure_services = "FAIL" <=>
                  "FAIL" \in {s.telnet_disabled, s.http_management_disabled}
             /\ s.management_plane_not_internet_exposed = "FAIL" =>
                  \E id \in DEPENDENCIES("management_plane_not_internet_exposed") : s[id] = "FAIL"
<1> DEFINE s == Evaluate(r)
<1>1. /\ s.telnet_disabled = Flag(r.telnet, TRUE) /\ s["telnet_disabled"] = s.telnet_disabled
      /\ s.http_management_disabled = Flag(r.http, TRUE)
      /\ s["http_management_disabled"] = s.http_management_disabled
      /\ s.no_insecure_services = InsecureServices(r)
      /\ s.management_plane_not_internet_exposed = ManagementExposure(r)
  BY DEF Evaluate
<1> HIDE DEF s
<1>2. /\ s.telnet_disabled = "FAIL" <=> r.telnet = TRUE
      /\ s.http_management_disabled = "FAIL" <=> r.http = TRUE
  BY <1>1, NoneIsNot DEF Flag
<1>3. s.no_insecure_services = "FAIL" <=> (r.telnet = TRUE \/ r.http = TRUE)
  BY <1>1 DEF InsecureServices, Check, Consistent, Insecure
<1>4. s.management_plane_not_internet_exposed = "FAIL" => (r.telnet = TRUE \/ r.http = TRUE)
  BY <1>1 DEF ManagementExposure, Check
<1>5. DEPENDENCIES("management_plane_not_internet_exposed")
        = {"telnet_disabled", "http_management_disabled"}
  BY DEF DEPENDENCIES
<1>6. QED
  BY <1>1, <1>2, <1>3, <1>4, <1>5 DEF s

\* What a service of the attack graph is to the control set.
Finding(s, service) ==
  \E id \in DOMAIN CONTROL_TO_SERVICE : CONTROL_TO_SERVICE[id] = service /\ s[id] = "FAIL"

LEMMA ServicesFail ==
  ASSUME NEW r, NEW service \in ExposedServices(r)
  PROVE  Finding(Evaluate(r), service)
<1> DEFINE s == Evaluate(r)
<1>1. /\ s["telnet_disabled"] = Flag(r.telnet, TRUE)
      /\ s["http_management_disabled"] = Flag(r.http, TRUE)
      /\ s["ssh_version_2"] = SshVersion(r) /\ s["snmp_secure"] = SnmpSecure(r)
  BY DEF Evaluate
<1> HIDE DEF s
<1>2. /\ DOMAIN CONTROL_TO_SERVICE
           = {"telnet_disabled", "http_management_disabled", "ssh_version_2", "snmp_secure"}
      /\ CONTROL_TO_SERVICE["telnet_disabled"] = "telnet"
      /\ CONTROL_TO_SERVICE["http_management_disabled"] = "http"
      /\ CONTROL_TO_SERVICE["ssh_version_2"] = "ssh-v1"
      /\ CONTROL_TO_SERVICE["snmp_secure"] = "snmp"
  BY DEF CONTROL_TO_SERVICE
<1>3. CASE service = "telnet" /\ r.telnet = TRUE
  BY <1>1, <1>2, <1>3, NoneIsNot DEF Finding, Flag, s
<1>4. CASE service = "http" /\ r.http = TRUE
  BY <1>1, <1>2, <1>4, NoneIsNot DEF Finding, Flag, s
<1>5. CASE service = "ssh-v1" /\ r.ssh = TRUE /\ r.sshVersion = 1
  <2>0. r.sshVersion # None /\ ~(r.sshVersion >= 2)
    BY <1>5, NoneIsNot
  <2>1. SshVersion(r) = "FAIL"
    BY <1>5, <2>0 DEF SshVersion, Check
  <2>2. QED
    BY <1>1, <1>2, <1>5, <2>1 DEF Finding, s
<1>6. CASE service = "snmp" /\ r.snmp = TRUE /\ r.snmpVersion \in {"1", "2c"} /\ r.communities = TRUE
  <2>1. SnmpSecure(r) = "FAIL"
    BY <1>6 DEF SnmpSecure
  <2>2. QED
    BY <1>1, <1>2, <1>6, <2>1 DEF Finding, s
<1>7. QED
  BY <1>3, <1>4, <1>5, <1>6 DEF ExposedServices

-----------------------------------------------------------------------------
(* The findings                                                            *)

Severities == {"CRITICAL", "HIGH", "MEDIUM", "LOW"}
Categories == {"management_plane", "authentication", "logging", "access_control", "hardening"}
ControlIds == {CONTROLS[i].id : i \in 1 .. 18}
ControlSet == [id : ControlIds, category : Categories, severity : Severities]

LEMMA ControlsAre ==
  /\ CONTROLS[1] = Control("telnet_disabled", "management_plane", "HIGH")
  /\ CONTROLS[2] = Control("http_management_disabled", "management_plane", "HIGH")
  /\ CONTROLS[3] = Control("ssh_version_2", "management_plane", "HIGH")
  /\ CONTROLS[4] = Control("management_encryption_in_use", "management_plane", "MEDIUM")
  /\ CONTROLS[5] = Control("password_policy_minimum_length", "authentication", "MEDIUM")
  /\ CONTROLS[6] = Control("privileged_access_restricted", "authentication", "HIGH")
  /\ CONTROLS[7] = Control("mfa_enforced", "authentication", "HIGH")
  /\ CONTROLS[8] = Control("no_default_credentials", "authentication", "CRITICAL")
  /\ CONTROLS[9] = Control("logging_enabled", "logging", "MEDIUM")
  /\ CONTROLS[10] = Control("remote_syslog_configured", "logging", "MEDIUM")
  /\ CONTROLS[11] = Control("audit_logging_enabled", "logging", "MEDIUM")
  /\ CONTROLS[12] = Control("ntp_configured", "logging", "LOW")
  /\ CONTROLS[13] = Control("snmp_secure", "management_plane", "HIGH")
  /\ CONTROLS[14] = Control("no_unrestricted_acl_rules", "access_control", "CRITICAL")
  /\ CONTROLS[15] = Control("management_plane_not_internet_exposed", "access_control", "CRITICAL")
  /\ CONTROLS[16] = Control("no_insecure_services", "hardening", "MEDIUM")
  /\ CONTROLS[17] = Control("no_unused_services", "hardening", "LOW")
  /\ CONTROLS[18] = Control("session_timeout_configured", "management_plane", "MEDIUM")
  BY DEF CONTROLS

LEMMA ControlsType ==
  /\ CONTROLS \in Seq(ControlSet) /\ Len(CONTROLS) = 18 /\ DOMAIN CONTROLS = 1 .. 18
  /\ \A i \in 1 .. 18 : CONTROLS[i] \in ControlSet
<1>1. \A id \in ControlIds, c \in Categories, v \in Severities : Control(id, c, v) \in ControlSet
  BY DEF Control, ControlSet
<1>2. Len(CONTROLS) = 18 /\ DOMAIN CONTROLS = 1 .. 18 /\ CONTROLS = [i \in 1 .. 18 |-> CONTROLS[i]]
  BY DEF CONTROLS
<1>3. ASSUME NEW i \in 1 .. 18 PROVE CONTROLS[i] \in ControlSet
  <2>1. CONTROLS[i].id \in ControlIds
    BY DEF ControlIds
  <2>2. CONTROLS[i].category \in Categories /\ CONTROLS[i].severity \in Severities
    BY ControlsAre DEF Control, Categories, Severities
  <2>3. CONTROLS[i] = Control(CONTROLS[i].id, CONTROLS[i].category, CONTROLS[i].severity)
    BY ControlsAre DEF Control
  <2>4. QED
    BY <1>1, <2>1, <2>2, <2>3
<1>4. CONTROLS \in [1 .. 18 -> ControlSet]
  <2> HIDE DEF ControlSet, CONTROLS
  <2>1. QED
    BY <1>2, <1>3
<1>5. CONTROLS \in Seq(ControlSet)
  BY <1>4, SeqDef
<1>6. QED
  BY <1>2, <1>3, <1>5

LEMMA ControlsDistinct == \A i, j \in 1 .. 18 : CONTROLS[i].id = CONTROLS[j].id => i = j
BY DEF CONTROLS, Control

Failed(s, i) == s[CONTROLS[i].id] = "FAIL"

\* The findings among the first controls.
Found(s, F) ==
  /\ F \in [0 .. 18 -> Seq(ControlSet)] /\ F[0] = <<>>
  /\ \A i \in 1 .. 18 : F[i] = IF Failed(s, i) THEN Append(F[i - 1], CONTROLS[i]) ELSE F[i - 1]

FoundBy(s, F) ==
  F = [t \in SUBSET DOMAIN CONTROLS |->
         IF t = {} THEN <<>>
         ELSE IF s[CONTROLS[Max(t)].id] = "FAIL"
              THEN Append(F[t \ {Max(t)}], CONTROLS[Max(t)]) ELSE F[t \ {Max(t)}]]

LEMMA FindingsFound == ASSUME NEW s PROVE \E F : Found(s, F) /\ Findings(s) = F[18]
<1> DEFINE D == 1 .. 18
           V == Seq(ControlSet)
           step == [i \in D |-> [v \in V |-> IF Failed(s, i) THEN Append(v, CONTROLS[i]) ELSE v]]
           first == [t \in SUBSET D |-> Max(t)]
<1>1. IsFiniteSet(D)
  <2>1. IsFiniteSet(1 .. 18)
    BY FS_Interval, 1 \in Int, 18 \in Int
  <2>2. QED
    BY <2>1
<1>2. step \in [D -> [V -> V]] /\ <<>> \in V
  BY ControlsType
<1>3. \A t \in SUBSET D : t # {} => Max(t) \in t /\ first[t] = Max(t) /\ first[t] \in t
  BY MaxIn
<1>4. \E g \in [SUBSET D -> V] : Folds(SUBSET D, <<>>, step, first, g)
  <2> HIDE DEF D, V, step, first
  <2>1. QED
    BY <1>1, <1>2, <1>3, FoldExists
<1>5. PICK g \in [SUBSET D -> V] : Folds(SUBSET D, <<>>, step, first, g)
  BY <1>4
<1>6. FoundBy(s, g)
  <2>1. ASSUME NEW t \in SUBSET D
        PROVE  g[t] = IF t = {} THEN <<>>
                      ELSE IF s[CONTROLS[Max(t)].id] = "FAIL"
                           THEN Append(g[t \ {Max(t)}], CONTROLS[Max(t)]) ELSE g[t \ {Max(t)}]
    <3>1. CASE t = {}
      BY <1>5, <3>1 DEF Folds
    <3>2. CASE t # {}
      <4>1. Max(t) \in D /\ first[t] = Max(t) /\ g[t \ {Max(t)}] \in V
        BY <1>3, <1>5, <3>2
      <4>2. g[t] = step[Max(t)][g[t \ {Max(t)}]]
        <5> HIDE DEF D, V, step, first
        <5>1. QED
          BY <1>5, <3>2, <4>1 DEF Folds
      <4>3. QED
        BY <3>2, <4>1, <4>2 DEF Failed
    <3>3. QED
      BY <3>1, <3>2
  <2>2. QED
    BY <1>5, <2>1, ControlsType DEF FoundBy
<1> DEFINE f == CHOOSE f : FoundBy(s, f)
<1>7. FoundBy(s, f)
  BY <1>6
<1>8. Findings(s) = f[D]
  BY ControlsType DEF Findings, FoldLeft, MapThenFoldSet, FoundBy
<1> HIDE DEF f
<1> DEFINE F == [i \in 0 .. 18 |-> f[1 .. i]]
<1>9. f[{}] = <<>> /\ <<>> \in V
  BY <1>7 DEF FoundBy
<1>10. ASSUME NEW i \in 1 .. 18
       PROVE  f[1 .. i] = IF Failed(s, i) THEN Append(f[1 .. i - 1], CONTROLS[i]) ELSE f[1 .. i - 1]
  <2>1. 1 .. i \in SUBSET D /\ 1 \in 1 .. i
    OBVIOUS
  <2>2. Max(1 .. i) = i
    <3>1. Max(1 .. i) \in 1 .. i /\ \A j \in 1 .. i : Max(1 .. i) >= j
      BY <2>1, MaxIn
    <3>2. QED
      BY <3>1
  <2>3. (1 .. i) \ {i} = 1 .. i - 1
    OBVIOUS
  <2>4. f[1 .. i] = IF s[CONTROLS[Max(1 .. i)].id] = "FAIL"
                    THEN Append(f[(1 .. i) \ {Max(1 .. i)}], CONTROLS[Max(1 .. i)])
                    ELSE f[(1 .. i) \ {Max(1 .. i)}]
    BY <1>7, <2>1, ControlsType DEF FoundBy
  <2>5. QED
    BY <2>2, <2>3, <2>4 DEF Failed
<1>11. \A i \in 0 .. 18 : f[1 .. i] \in V
  <2> DEFINE Bad == {i \in Nat : i \in 0 .. 18 /\ f[1 .. i] \notin V}
  <2>1. ASSUME Bad # {} PROVE FALSE
    <3>1. PICK n \in Bad : \A m \in Bad : n <= m
      <4>1. Bad \in SUBSET Nat
        OBVIOUS
      <4> HIDE DEF Bad
      <4>2. QED
        BY <2>1, <4>1, SmallestNat
    <3>2. n \in 0 .. 18 /\ f[1 .. n] \notin V
      OBVIOUS
    <3>3. CASE n = 0
      <4>1. 1 .. 0 = {}
        OBVIOUS
      <4>2. f[1 .. 0] \in V
        BY <1>9, <4>1
      <4>3. QED
        BY <3>2, <3>3, <4>2
    <3>4. CASE n # 0
      <4>1. n \in 1 .. 18 /\ n - 1 \in 0 .. 18 /\ n - 1 \notin Bad
        <5> HIDE DEF Bad
        <5>1. QED
          BY <3>1, <3>2, <3>4
      <4>2. f[1 .. n - 1] \in V
        BY <4>1
      <4>3. QED
        <5>1. Append(f[1 .. n - 1], CONTROLS[n]) \in V
          <6> DEFINE before == f[1 .. n - 1]
                     control == CONTROLS[n]
          <6>1. before \in Seq(ControlSet) /\ control \in ControlSet
            BY <4>1, <4>2, ControlsType
          <6> HIDE DEF before, control
          <6>2. Append(before, control) \in Seq(ControlSet)
            BY <6>1
          <6>3. QED
            BY <6>2 DEF before, control
        <5>2. f[1 .. n] \in V
          BY <1>10, <4>1, <4>2, <5>1
        <5>3. QED
          BY <3>2, <5>2
    <3>5. QED
      BY <3>3, <3>4
  <2>2. QED
    BY <2>1
<1>12. Found(s, F) /\ Findings(s) = F[18]
  BY <1>8, <1>9, <1>10, <1>11 DEF Found
<1>13. QED
  BY <1>12

-----------------------------------------------------------------------------
(* The weight of the findings                                              *)

LEMMA SeverityWeights == \A v \in Severities : SeverityWeight[v] \in Nat /\ SeverityWeight[v] <= 25
BY DEF Severities, SeverityWeight

WeightsOf(q) == [i \in DOMAIN q |-> SeverityWeight[q[i].severity]]

LEMMA WeightsType ==
  ASSUME NEW q \in Seq(ControlSet)
  PROVE  /\ Len(q) \in Nat /\ DOMAIN q = 1 .. Len(q)
         /\ SumWeights(q) = SumFunctionOnSet(WeightsOf(q), 1 .. Len(q))
         /\ \A i \in 1 .. Len(q) : WeightsOf(q)[i] \in Nat
         /\ SumWeights(q) \in Nat
<1>1. Len(q) \in Nat /\ DOMAIN q = 1 .. Len(q) /\ DOMAIN WeightsOf(q) = 1 .. Len(q)
  BY DEF WeightsOf
<1>2. SumWeights(q) = SumFunctionOnSet(WeightsOf(q), 1 .. Len(q))
  BY <1>1 DEF SumWeights, SumFunction, WeightsOf
<1>3. ASSUME NEW i \in 1 .. Len(q) PROVE WeightsOf(q)[i] \in Nat
  <2>1. q[i] \in ControlSet
    BY <1>1
  <2>2. q[i].severity \in Severities
    BY <2>1 DEF ControlSet
  <2>3. WeightsOf(q)[i] = SeverityWeight[q[i].severity]
    BY <1>1 DEF WeightsOf
  <2>4. QED
    BY <2>2, <2>3, SeverityWeights
<1>4. SumFunctionOnSet(WeightsOf(q), 1 .. Len(q)) \in Nat
  BY <1>1, <1>3, RangeFinite, SumNat
<1>5. QED
  BY <1>1, <1>2, <1>3, <1>4

LEMMA WeightsAppend ==
  ASSUME NEW q \in Seq(ControlSet), NEW c \in ControlSet
  PROVE  SumWeights(Append(q, c)) = SumWeights(q) + SeverityWeight[c.severity]
<1> DEFINE a == Append(q, c)
           n == Len(q)
<1>1. a \in Seq(ControlSet) /\ Len(a) = n + 1 /\ n \in Nat /\ a[n + 1] = c /\ \A i \in 1 .. n : a[i] = q[i]
  OBVIOUS
<1>2. \A i \in 1 .. n + 1 : WeightsOf(a)[i] = SeverityWeight[a[i].severity] /\ WeightsOf(a)[i] \in Nat
  <2> HIDE DEF a, n
  <2>1. QED
    BY <1>1, WeightsType DEF WeightsOf
<1>3. \A i \in 1 .. n : WeightsOf(q)[i] = SeverityWeight[q[i].severity] /\ WeightsOf(q)[i] \in Nat
  BY WeightsType DEF WeightsOf
<1>4. \A i \in 1 .. n : WeightsOf(q)[i] \in Nat /\ WeightsOf(a)[i] = WeightsOf(q)[i]
  <2> HIDE DEF a, n
  <2> SUFFICES ASSUME NEW i \in 1 .. n
               PROVE  WeightsOf(q)[i] \in Nat /\ WeightsOf(a)[i] = WeightsOf(q)[i]
    OBVIOUS
  <2>1. i \in 1 .. n + 1 /\ a[i] = q[i]
    BY <1>1
  <2>2. WeightsOf(a)[i] = SeverityWeight[a[i].severity]
    BY <1>2, <2>1
  <2>3. QED
    BY <1>3, <2>1, <2>2
<1> HIDE DEF a, n
<1>5. SumFunctionOnSet(WeightsOf(a), 1 .. n) = SumFunctionOnSet(WeightsOf(q), 1 .. n)
  BY <1>1, <1>4, RangeFinite, SumSame
<1>6. SumFunctionOnSet(WeightsOf(a), 1 .. n + 1) = SumFunctionOnSet(WeightsOf(a), 1 .. n) + WeightsOf(a)[n + 1]
  BY <1>1, <1>2, SumUpTo
<1>7. WeightsOf(a)[n + 1] = SeverityWeight[c.severity]
  BY <1>1, <1>2
<1>8. SumWeights(a) = SumFunctionOnSet(WeightsOf(a), 1 .. n + 1)
  BY <1>1, WeightsType
<1>9. SumWeights(q) = SumFunctionOnSet(WeightsOf(q), 1 .. n)
  BY WeightsType DEF n
<1>10. QED
  BY <1>5, <1>6, <1>7, <1>8, <1>9 DEF a

\* The same weights by control: a control that has not failed weighs nothing.
Weight(s) == [i \in 1 .. 18 |-> IF Failed(s, i) THEN SeverityWeight[CONTROLS[i].severity] ELSE 0]

LEMMA WeightType == ASSUME NEW s, NEW i \in 1 .. 18 PROVE Weight(s)[i] \in Nat /\ Weight(s)[i] <= 25
<1>1. CONTROLS[i].severity \in Severities
  BY ControlsType DEF ControlSet
<1>2. QED
  BY <1>1, SeverityWeights DEF Weight

LEMMA FindingsWeigh ==
  ASSUME NEW s
  PROVE  SumWeights(Findings(s)) = SumFunctionOnSet(Weight(s), 1 .. 18)
<1>1. PICK F : Found(s, F) /\ Findings(s) = F[18]
  BY FindingsFound
<1> DEFINE Bad == {n \in Nat : n \in 0 .. 18 /\ SumWeights(F[n]) # SumFunctionOnSet(Weight(s), 1 .. n)}
<1>2. ASSUME Bad # {} PROVE FALSE
  <2>1. PICK n \in Bad : \A m \in Bad : n <= m
    <3>1. Bad \in SUBSET Nat
      OBVIOUS
    <3> HIDE DEF Bad
    <3>2. QED
      BY <1>2, <3>1, SmallestNat
  <2>2. n \in 0 .. 18 /\ SumWeights(F[n]) # SumFunctionOnSet(Weight(s), 1 .. n)
    OBVIOUS
  <2>3. CASE n = 0
    <3>1. 1 .. 0 = {} /\ F[0] = <<>> /\ Len(<<>>) = 0 /\ <<>> \in Seq(ControlSet)
      BY <1>1 DEF Found
    <3>2. SumWeights(<<>>) = SumFunctionOnSet(WeightsOf(<<>>), 1 .. Len(<<>>))
      BY <3>1, WeightsType
    <3>3. SumWeights(F[0]) = 0
      BY <3>1, <3>2, SumEmpty
    <3>4. SumFunctionOnSet(Weight(s), 1 .. 0) = 0
      BY <3>1, SumEmpty
    <3>5. QED
      BY <2>2, <2>3, <3>3, <3>4
  <2>4. CASE n # 0
    <3>1. n \in 1 .. 18 /\ n - 1 \in 0 .. 18 /\ n - 1 \in Nat /\ n - 1 \notin Bad
      <4> HIDE DEF Bad
      <4>1. QED
        BY <2>1, <2>2, <2>4
    <3>2. SumWeights(F[n - 1]) = SumFunctionOnSet(Weight(s), 1 .. n - 1)
      BY <3>1
    <3> HIDE DEF Bad
    <3>3. F[n - 1] \in Seq(ControlSet) /\ CONTROLS[n] \in ControlSet
      BY <1>1, <3>1, ControlsType DEF Found
    <3>4. F[n] = IF Failed(s, n) THEN Append(F[n - 1], CONTROLS[n]) ELSE F[n - 1]
      BY <1>1, <3>1 DEF Found
    <3>5. SumWeights(F[n]) = SumWeights(F[n - 1]) + Weight(s)[n]
      <4>1. SumWeights(F[n - 1]) \in Nat
        BY <3>3, WeightsType
      <4>2. Weight(s)[n] = IF Failed(s, n) THEN SeverityWeight[CONTROLS[n].severity] ELSE 0
        BY <3>1 DEF Weight
      <4>3. SumWeights(Append(F[n - 1], CONTROLS[n])) = SumWeights(F[n - 1]) + SeverityWeight[CONTROLS[n].severity]
        BY <3>3, WeightsAppend
      <4>4. QED
        BY <3>4, <4>1, <4>2, <4>3
    <3>6. (n - 1) + 1 = n /\ \A i \in 1 .. n : Weight(s)[i] \in Nat
      BY <3>1, WeightType
    <3>7. SumFunctionOnSet(Weight(s), 1 .. n) = SumFunctionOnSet(Weight(s), 1 .. n - 1) + Weight(s)[n]
      <4> DEFINE m == n - 1
      <4>1. m \in Nat /\ m + 1 = n
        BY <3>1, <3>6
      <4>2. SumFunctionOnSet(Weight(s), 1 .. m + 1) = SumFunctionOnSet(Weight(s), 1 .. m) + Weight(s)[m + 1]
        <5> HIDE DEF m
        <5>1. QED
          BY <3>6, <4>1, SumUpTo
      <4>3. QED
        BY <4>1, <4>2
    <3>8. QED
      BY <2>2, <3>2, <3>5, <3>7
  <2>5. QED
    BY <2>3, <2>4
<1>3. 18 \notin Bad
  <2> HIDE DEF Bad
  <2>1. QED
    BY <1>2
<1>4. QED
  BY <1>1, <1>3, 18 \in Nat

-----------------------------------------------------------------------------
(* The risk of a better status                                             *)

LEMMA Quotient ==
  ASSUME NEW a \in Int, NEW d \in Nat \ {0}
  PROVE  /\ a \div d \in Int /\ d * (a \div d) <= a
         /\ \A x \in Int : d * x <= a => x <= a \div d
<1>1. a \div d \in Int /\ d * (a \div d) <= a /\ a < d * (a \div d) + d
  OBVIOUS
<1>2. ASSUME NEW x \in Int, d * x <= a PROVE x <= a \div d
  <2> DEFINE y == a \div d
  <2>1. y \in Int /\ d * x < d * (y + 1)
    BY <1>1, <1>2
  <2> HIDE DEF y
  <2>2. ASSUME y + 1 <= x PROVE FALSE
    <3>1. d * (y + 1) <= d * x
      BY <2>1, <2>2
    <3>2. QED
      BY <2>1, <3>1
  <2>3. QED
    BY <2>1, <2>2 DEF y
<1>3. QED
  BY <1>1, <1>2

LEMMA ProductMonotone == \A k \in Nat, a, b \in Int : a <= b => k * a <= k * b
OBVIOUS

\* A rate does not grow when what counts for it shrinks and what counts against it grows.
LEMMA RateMonotone ==
  ASSUME NEW f \in Nat, NEW p \in Nat, NEW g \in Nat, NEW q \in Nat,
         g <= f, p <= q, p + f > 0, q + g > 0
  PROVE  Round(10000 * g, q + g) <= Round(10000 * f, p + f)
<1> DEFINE x == (20000 * g + (q + g)) \div (2 * (q + g))
<1>1. Round(10000 * g, q + g) = x /\ Round(10000 * f, p + f) = (20000 * f + (p + f)) \div (2 * (p + f))
  BY SMT DEF Round
<1>2. x \in Int /\ (2 * (q + g)) * x <= 20000 * g + (q + g)
  <2>1. 20000 * g + (q + g) \in Int /\ 2 * (q + g) \in Nat \ {0}
    BY SMT
  <2> DEFINE a == 20000 * g + (q + g)
             d == 2 * (q + g)
  <2> HIDE DEF a, d
  <2>2. a \in Int /\ d \in Nat \ {0}
    BY SMT, <2>1 DEF a, d
  <2>3. a \div d \in Int /\ d * (a \div d) <= a
    BY <2>2, Quotient
  <2>4. QED
    BY SMT, <2>3 DEF a, d
<1>3. (2 * (p + f)) * x <= 20000 * f + (p + f)
  <2> HIDE DEF x
  <2>1. CASE x <= 0
    <3>1. (2 * (p + f)) * x <= (2 * (p + f)) * 0
      BY SMT, <1>2, <2>1, ProductMonotone, 2 * (p + f) \in Nat
    <3>2. (2 * (p + f)) * 0 = 0 /\ 0 <= 20000 * f + (p + f)
      BY SMT
    <3>3. (2 * (p + f)) * x \in Int
      BY SMT, <1>2
    <3>4. QED
      BY SMT, <3>1, <3>2, <3>3
  <2>2. CASE x >= 1
    <3> DEFINE m == 2 * x - 1
    <3>1. m \in Nat /\ m * q + m * g <= 20000 * g
      BY SMT, <1>2, <2>2
    <3>2. m * p <= m * q
      BY SMT, <3>1, ProductMonotone
    <3>3. m * g <= m * f
      BY SMT, <3>1, ProductMonotone
    <3>4. m * p + m * f <= 20000 * f
      <4> HIDE DEF m
      <4>1. CASE m <= 20000
        <5>1. 20000 - m \in Nat
          BY SMT, <3>1, <4>1
        <5>2. (20000 - m) * g <= (20000 - m) * f
          BY SMT, <5>1, ProductMonotone
        <5>3. m * p \in Int /\ m * q \in Int /\ m * g \in Int /\ m * f \in Int
          BY SMT, <3>1
        <5>4. (20000 - m) * g = 20000 * g - m * g /\ (20000 - m) * f = 20000 * f - m * f
          BY SMT, <3>1
        <5>5. QED
          BY SMT, <3>1, <3>2, <5>2, <5>3, <5>4
      <4>2. CASE m > 20000
        <5>1. 20001 * q <= m * q /\ 20001 * g <= m * g
          <6>1. 0 <= m - 20001 /\ m - 20001 \in Nat
            BY SMT, <3>1, <4>2
          <6>2. (m - 20001) * 0 <= (m - 20001) * q /\ (m - 20001) * 0 <= (m - 20001) * g
            BY SMT, <6>1, ProductMonotone
          <6>3. QED
            BY SMT, <3>1, <6>2
        <5>2. m * q \in Int /\ m * g \in Int
          BY SMT, <3>1
        <5>3. 20001 * q + 20001 * g <= 20000 * g
          BY SMT, <3>1, <5>1, <5>2
        <5>4. QED
          BY SMT, <5>3
      <4>3. QED
        BY SMT, <3>1, <4>1, <4>2
    <3>5. QED
      BY SMT, <1>2, <3>4
  <2>3. QED
    BY SMT, <1>2, <2>1, <2>2
<1>4. x <= (20000 * f + (p + f)) \div (2 * (p + f))
  <2>1. 20000 * f + (p + f) \in Int /\ 2 * (p + f) \in Nat \ {0}
    BY SMT
  <2> HIDE DEF x
  <2>2. QED
    BY SMT, <1>2, <1>3, <2>1, Quotient
<1>5. QED
  BY SMT, <1>1, <1>4

\* No control newly fails, and those that passed still do.
Better(s, t) ==
  \A i \in 1 .. 18 : LET id == CONTROLS[i].id
                     IN  (t[id] = "FAIL" => s[id] = "FAIL") /\ (s[id] = "PASS" => t[id] = "PASS")

LEMMA CountOf ==
  ASSUME NEW s, NEW v
  PROVE  Count(s, v) \in Nat /\ Count(s, v) <= 18 /\ Count(s, v) = Cardinality({i \in 1 .. 18 : s[CONTROLS[i].id] = v})
<1> DEFINE S == {i \in 1 .. 18 : s[CONTROLS[i].id] = v}
<1>1. IsFiniteSet(1 .. 18) /\ Cardinality(1 .. 18) = 18
  <2>1. Cardinality(1 .. 18) = IF 1 > 18 THEN 0 ELSE 18 - 1 + 1
    BY FS_Interval, 1 \in Int, 18 \in Int
  <2>2. Cardinality(1 .. 18) = 18
    BY <2>1
  <2>3. QED
    BY <2>2, RangeFinite, 18 \in Nat
<1>2. S \subseteq 1 .. 18
  OBVIOUS
<1>3. Cardinality(S) \in Nat /\ Cardinality(S) <= Cardinality(1 .. 18)
  <2> HIDE DEF S
  <2>1. QED
    BY <1>1, <1>2, FS_Subset, FS_CardinalityType
<1>4. Count(s, v) = Cardinality(S)
  BY ControlsType DEF Count
<1> HIDE DEF S
<1>5. QED
  BY <1>1, <1>3, <1>4 DEF S

LEMMA CountType == ASSUME NEW s, NEW v PROVE Count(s, v) \in Nat
BY CountOf

LEMMA CountMonotone ==
  ASSUME NEW s, NEW t, NEW v, \A i \in 1 .. 18 : s[CONTROLS[i].id] = v => t[CONTROLS[i].id] = v
  PROVE  Count(s, v) <= Count(t, v)
<1> DEFINE S == {i \in 1 .. 18 : s[CONTROLS[i].id] = v}
           T == {i \in 1 .. 18 : t[CONTROLS[i].id] = v}
<1>1. S \subseteq T /\ T \subseteq 1 .. 18
  OBVIOUS
<1>2. Count(s, v) = Cardinality(S) /\ Count(t, v) = Cardinality(T)
  BY CountOf
<1> HIDE DEF S, T
<1>3. IsFiniteSet(T)
  BY <1>1, RangeFinite, FS_Subset, 18 \in Nat
<1>4. QED
  BY <1>1, <1>2, <1>3, FS_Subset

LEMMA RateOfBetter ==
  ASSUME NEW s, NEW t, Better(s, t)
  PROVE  ControlFailureScore(t) <= ControlFailureScore(s)
<1> DEFINE f == Count(s, "FAIL")  p == Count(s, "PASS")
           g == Count(t, "FAIL")  q == Count(t, "PASS")
<1>1. f \in Nat /\ p \in Nat /\ g \in Nat /\ q \in Nat
  BY SMT, CountType
<1>2. g <= f /\ p <= q
  BY SMT, CountMonotone DEF Better
<1>3. /\ ControlFailureScore(s) = IF p + f = 0 THEN 5000 ELSE Round(10000 * f, p + f)
      /\ ControlFailureScore(t) = IF q + g = 0 THEN 5000 ELSE Round(10000 * g, q + g)
  BY SMT DEF ControlFailureScore
<1> HIDE DEF f, p, g, q
<1>4. CASE p + f > 0 /\ q + g > 0
  BY SMT, <1>1, <1>2, <1>3, <1>4, RateMonotone
<1>5. CASE p + f = 0 /\ q + g = 0
  BY SMT, <1>3, <1>5
<1>6. CASE p + f = 0 /\ q + g > 0
  <2>1. g = 0
    BY SMT, <1>1, <1>2, <1>6
  <2>2. (2 * (10000 * g) + (q + g)) \div (2 * (q + g)) = 0
    BY SMT, <1>1, <1>6, <2>1
  <2>3. QED
    BY SMT, <1>3, <1>6, <2>2 DEF Round
<1>7. CASE p + f > 0 /\ q + g = 0
  <2>1. p = 0 /\ f > 0
    BY SMT, <1>1, <1>2, <1>7
  <2>2. 5000 <= (2 * (10000 * f) + (p + f)) \div (2 * (p + f))
    <3>1. 2 * (10000 * f) + (p + f) \in Int /\ 2 * (p + f) \in Nat \ {0}
      BY SMT, <1>1, <2>1
    <3>2. (2 * (p + f)) * 5000 <= 2 * (10000 * f) + (p + f)
      BY SMT, <1>1, <2>1
    <3>3. QED
      BY SMT, <3>1, <3>2, Quotient
  <2>3. QED
    BY SMT, <1>3, <1>7, <2>2 DEF Round
<1>8. QED
  BY SMT, <1>1, <1>4, <1>5, <1>6, <1>7

LEMMA VulnerabilityOfBetter ==
  ASSUME NEW s, NEW t, Better(s, t)
  PROVE  /\ VulnerabilityScore(Findings(s)) \in Nat /\ VulnerabilityScore(Findings(s)) <= 100
         /\ VulnerabilityScore(Findings(t)) \in Nat
         /\ VulnerabilityScore(Findings(t)) <= VulnerabilityScore(Findings(s))
<1>1. \A i \in 1 .. 18 : Weight(t)[i] \in Nat /\ Weight(s)[i] \in Nat /\ Weight(t)[i] <= Weight(s)[i]
  <2> SUFFICES ASSUME NEW i \in 1 .. 18
               PROVE  Weight(t)[i] \in Nat /\ Weight(s)[i] \in Nat /\ Weight(t)[i] <= Weight(s)[i]
    OBVIOUS
  <2>1. Weight(t)[i] \in Nat /\ Weight(s)[i] \in Nat
    BY WeightType
  <2>2. Failed(t, i) => Failed(s, i)
    BY DEF Better, Failed
  <2>3. QED
    BY <2>1, <2>2 DEF Weight
<1>2. IsFiniteSet(1 .. 18)
  BY RangeFinite, 18 \in Nat
<1>3. SumFunctionOnSet(Weight(t), 1 .. 18) <= SumFunctionOnSet(Weight(s), 1 .. 18)
  BY <1>1, <1>2, SumMonotone
<1>4. SumFunctionOnSet(Weight(t), 1 .. 18) \in Nat /\ SumFunctionOnSet(Weight(s), 1 .. 18) \in Nat
  BY <1>1, <1>2, SumNat
<1>5. QED
  BY <1>3, <1>4, FindingsWeigh DEF VulnerabilityScore

LEMMA RateType == ASSUME NEW s PROVE ControlFailureScore(s) \in Nat /\ ControlFailureScore(s) <= 10000
<1> DEFINE f == Count(s, "FAIL")  p == Count(s, "PASS")
<1>1. f \in Nat /\ p \in Nat
  BY SMT, CountType
<1>2. ControlFailureScore(s) = IF p + f = 0 THEN 5000 ELSE (2 * (10000 * f) + (p + f)) \div (2 * (p + f))
  BY SMT DEF ControlFailureScore, Round
<1> HIDE DEF f, p
<1>3. CASE p + f > 0
  <2> DEFINE a == 2 * (10000 * f) + (p + f)
             d == 2 * (p + f)
             x == a \div d
  <2>1. a \in Int /\ d \in Nat \ {0} /\ d * 0 <= a /\ a < d * 10001
    BY SMT, <1>1, <1>3
  <2>2. x \in Int /\ 0 <= x /\ d * x <= a
    <3> HIDE DEF a, d
    <3>1. QED
      BY SMT, <2>1, Quotient
  <2>3. x < 10001
    <3> HIDE DEF a, d, x
    <3>1. ASSUME 10001 <= x PROVE FALSE
      <4>1. d * 10001 <= d * x
        BY SMT, <2>1, <2>2, <3>1, ProductMonotone
      <4>2. d * x \in Int
        BY SMT, <2>1, <2>2
      <4>3. QED
        BY SMT, <2>1, <2>2, <4>1, <4>2
    <3>2. QED
      BY SMT, <2>2, <3>1
  <2>4. ControlFailureScore(s) = x
    BY SMT, <1>1, <1>2, <1>3
  <2> HIDE DEF a, d, x
  <2>5. QED
    BY SMT, <2>2, <2>3, <2>4
<1>4. QED
  BY SMT, <1>1, <1>2, <1>3

\* The risk score of a device that exposes no more and fails no more is no higher.
LEMMA RiskOfBetter ==
  ASSUME NEW r, NEW q, NEW c, Better(Evaluate(r), Evaluate(q)), q.exposed = r.exposed,
         q.telnet = TRUE \/ q.http = TRUE => r.telnet = TRUE \/ r.http = TRUE
  PROVE  RiskScore(q, c) <= RiskScore(r, c)
<1> DEFINE s == Evaluate(r)
           t == Evaluate(q)
           er == ExposureScore(r, c)   eq == ExposureScore(q, c)
           vr == VulnerabilityScore(Findings(s))   vq == VulnerabilityScore(Findings(t))
           fr == ControlFailureScore(s)   fq == ControlFailureScore(t)
           k == CriticalityScore(c)
<1>1. er \in Nat /\ eq \in Nat /\ eq <= er
  BY SMT DEF ExposureScore
<1>2. k \in Nat
  BY SMT DEF CriticalityScore
<1>3. vr \in Nat /\ vq \in Nat /\ vq <= vr
  BY SMT, VulnerabilityOfBetter
<1>4. fr \in Nat /\ fq \in Nat /\ fq <= fr
  BY SMT, RateType, RateOfBetter
<1> DEFINE a == 3000 * er + 2000 * k + 3000 * vr + 20 * fr
           b == 3000 * eq + 2000 * k + 3000 * vq + 20 * fq
<1>5. RiskScore(r, c) = (2 * a + 100) \div 200 /\ RiskScore(q, c) = (2 * b + 100) \div 200
  BY SMT DEF RiskScore, Round
<1> HIDE DEF er, eq, vr, vq, fr, fq, k
<1>6. a \in Nat /\ b \in Nat /\ b <= a
  BY SMT, <1>1, <1>2, <1>3, <1>4
<1> HIDE DEF a, b
<1>7. (2 * b + 100) \div 200 <= (2 * a + 100) \div 200
  BY SMT, <1>6
<1>8. QED
  BY SMT, <1>5, <1>7

\* The score stays on its scale.
\* The scale of the score, in hundredths.
Scale == 0 .. 10000

LEMMA RiskType == ASSUME NEW r, NEW c PROVE RiskScore(r, c) \in Scale
<1> DEFINE s == Evaluate(r)
           e == ExposureScore(r, c)
           v == VulnerabilityScore(Findings(s))
           f == ControlFailureScore(s)
           k == CriticalityScore(c)
<1>1. e \in Nat /\ e <= 100
  BY SMT DEF ExposureScore
<1>2. k \in Nat /\ k <= 100
  BY SMT DEF CriticalityScore
<1>3. v \in Nat /\ v <= 100
  <2>1. Better(s, s)
    BY SMT DEF Better
  <2>2. QED
    BY SMT, <2>1, VulnerabilityOfBetter
<1>4. f \in Nat /\ f <= 10000
  BY SMT, RateType
<1> DEFINE a == 3000 * e + 2000 * k + 3000 * v + 20 * f
<1>5. RiskScore(r, c) = (2 * a + 100) \div 200
  BY SMT DEF RiskScore, Round
<1> HIDE DEF e, k, v, f
<1>6. a \in Nat /\ a <= 1000000
  BY SMT, <1>1, <1>2, <1>3, <1>4
<1> HIDE DEF a
<1>7. (2 * a + 100) \div 200 \in Nat /\ (2 * a + 100) \div 200 <= 10000
  BY SMT, <1>6
<1>8. \A x \in Nat : x <= 10000 => x \in Scale
  <2> DEFINE top == 10000
  <2>1. Scale = 0 .. top /\ top \in Nat
    BY DEF Scale
  <2> HIDE DEF top
  <2>2. \A x \in Nat : x <= top => x \in Scale
    BY <2>1
  <2>3. QED
    BY <2>2 DEF top
<1>9. QED
  BY <1>5, <1>7, <1>8

-----------------------------------------------------------------------------
(* Remediation                                                             *)

\* What each control reads of the IR.
Reads ==
  [telnet_disabled |-> {"telnet"},
   http_management_disabled |-> {"http"},
   ssh_version_2 |-> {"ssh", "sshVersion"},
   management_encryption_in_use |-> {"https"},
   password_policy_minimum_length |-> {"minLength"},
   privileged_access_restricted |-> {"privileged"},
   mfa_enforced |-> {"mfa"},
   no_default_credentials |-> {"defaultCredentials"},
   logging_enabled |-> {"logging"},
   remote_syslog_configured |-> {"syslog"},
   audit_logging_enabled |-> {"audit"},
   ntp_configured |-> {"ntp"},
   snmp_secure |-> {"snmp", "snmpVersion", "communities"},
   no_unrestricted_acl_rules |-> {"rules"},
   management_plane_not_internet_exposed |-> {"exposed", "telnet", "http"},
   no_insecure_services |-> {"insecure"},
   no_unused_services |-> {"unused"},
   session_timeout_configured |-> {"timeout"}]

LEMMA ReadsAre ==
  /\ Reads["telnet_disabled"] = {"telnet"}
  /\ Reads["http_management_disabled"] = {"http"}
  /\ Reads["ssh_version_2"] = {"ssh", "sshVersion"}
  /\ Reads["management_encryption_in_use"] = {"https"}
  /\ Reads["password_policy_minimum_length"] = {"minLength"}
  /\ Reads["privileged_access_restricted"] = {"privileged"}
  /\ Reads["mfa_enforced"] = {"mfa"}
  /\ Reads["no_default_credentials"] = {"defaultCredentials"}
  /\ Reads["logging_enabled"] = {"logging"}
  /\ Reads["remote_syslog_configured"] = {"syslog"}
  /\ Reads["audit_logging_enabled"] = {"audit"}
  /\ Reads["ntp_configured"] = {"ntp"}
  /\ Reads["snmp_secure"] = {"snmp", "snmpVersion", "communities"}
  /\ Reads["no_unrestricted_acl_rules"] = {"rules"}
  /\ Reads["management_plane_not_internet_exposed"] = {"exposed", "telnet", "http"}
  /\ Reads["no_insecure_services"] = {"insecure"}
  /\ Reads["no_unused_services"] = {"unused"}
  /\ Reads["session_timeout_configured"] = {"timeout"}
  BY DEF Reads

LEMMA EvaluateAt ==
  ASSUME NEW r
  PROVE  /\ Evaluate(r)["telnet_disabled"] = Flag(r.telnet, TRUE)
         /\ Evaluate(r)["http_management_disabled"] = Flag(r.http, TRUE)
         /\ Evaluate(r)["ssh_version_2"] = SshVersion(r)
         /\ Evaluate(r)["management_encryption_in_use"] = Flag(r.https, FALSE)
         /\ Evaluate(r)["password_policy_minimum_length"] = PasswordPolicy(r)
         /\ Evaluate(r)["privileged_access_restricted"] = Flag(r.privileged, FALSE)
         /\ Evaluate(r)["mfa_enforced"] = (IF r.mfa = None THEN "NOT_APPLICABLE" ELSE Flag(r.mfa, FALSE))
         /\ Evaluate(r)["no_default_credentials"] = Flag(r.defaultCredentials, TRUE)
         /\ Evaluate(r)["logging_enabled"] = Flag(r.logging, FALSE)
         /\ Evaluate(r)["remote_syslog_configured"] = Flag(r.syslog, FALSE)
         /\ Evaluate(r)["audit_logging_enabled"] = Flag(r.audit, FALSE)
         /\ Evaluate(r)["ntp_configured"] = Flag(r.ntp, FALSE)
         /\ Evaluate(r)["snmp_secure"] = SnmpSecure(r)
         /\ Evaluate(r)["no_unrestricted_acl_rules"] = UnrestrictedAcl(r)
         /\ Evaluate(r)["management_plane_not_internet_exposed"] = ManagementExposure(r)
         /\ Evaluate(r)["no_insecure_services"] = InsecureServices(r)
         /\ Evaluate(r)["no_unused_services"] = Check(r.unused = {})
         /\ Evaluate(r)["session_timeout_configured"] = SessionTimeout(r)
BY DEF Evaluate

Same(r, q, id) == (\A g \in Reads[id] : q[g] = r[g]) => Evaluate(q)[id] = Evaluate(r)[id]

LEMMA SameReads == ASSUME NEW r, NEW q PROVE \A i \in 1 .. 18 : Same(r, q, CONTROLS[i].id)
<1>1. Same(r, q, "telnet_disabled")
  <2>1. Reads["telnet_disabled"] = {"telnet"}
    BY ReadsAre
  <2>2. /\ Evaluate(r)["telnet_disabled"] = Flag(r.telnet, TRUE)
        /\ Evaluate(q)["telnet_disabled"] = Flag(q.telnet, TRUE)
    BY EvaluateAt
  <2>3. QED
    BY <2>1, <2>2 DEF Same
<1>2. Same(r, q, "http_management_disabled")
  <2>1. Reads["http_management_disabled"] = {"http"}
    BY ReadsAre
  <2>2. /\ Evaluate(r)["http_management_disabled"] = Flag(r.http, TRUE)
        /\ Evaluate(q)["http_management_disabled"] = Flag(q.http, TRUE)
    BY EvaluateAt
  <2>3. QED
    BY <2>1, <2>2 DEF Same
<1>3. Same(r, q, "ssh_version_2")
  <2>1. Reads["ssh_version_2"] = {"ssh", "sshVersion"}
    BY ReadsAre
  <2>2. /\ Evaluate(r)["ssh_version_2"] = SshVersion(r)
        /\ Evaluate(q)["ssh_version_2"] = SshVersion(q)
    BY EvaluateAt
  <2>3. QED
    BY <2>1, <2>2 DEF Same, SshVersion
<1>4. Same(r, q, "management_encryption_in_use")
  <2>1. Reads["management_encryption_in_use"] = {"https"}
    BY ReadsAre
  <2>2. /\ Evaluate(r)["management_encryption_in_use"] = Flag(r.https, FALSE)
        /\ Evaluate(q)["management_encryption_in_use"] = Flag(q.https, FALSE)
    BY EvaluateAt
  <2>3. QED
    BY <2>1, <2>2 DEF Same
<1>5. Same(r, q, "password_policy_minimum_length")
  <2>1. Reads["password_policy_minimum_length"] = {"minLength"}
    BY ReadsAre
  <2>2. /\ Evaluate(r)["password_policy_minimum_length"] = PasswordPolicy(r)
        /\ Evaluate(q)["password_policy_minimum_length"] = PasswordPolicy(q)
    BY EvaluateAt
  <2>3. QED
    BY <2>1, <2>2 DEF Same, PasswordPolicy
<1>6. Same(r, q, "privileged_access_restricted")
  <2>1. Reads["privileged_access_restricted"] = {"privileged"}
    BY ReadsAre
  <2>2. /\ Evaluate(r)["privileged_access_restricted"] = Flag(r.privileged, FALSE)
        /\ Evaluate(q)["privileged_access_restricted"] = Flag(q.privileged, FALSE)
    BY EvaluateAt
  <2>3. QED
    BY <2>1, <2>2 DEF Same
<1>7. Same(r, q, "mfa_enforced")
  <2>1. Reads["mfa_enforced"] = {"mfa"}
    BY ReadsAre
  <2>2. /\ Evaluate(r)["mfa_enforced"] = (IF r.mfa = None THEN "NOT_APPLICABLE" ELSE Flag(r.mfa, FALSE))
        /\ Evaluate(q)["mfa_enforced"] = (IF q.mfa = None THEN "NOT_APPLICABLE" ELSE Flag(q.mfa, FALSE))
    BY EvaluateAt
  <2>3. QED
    BY <2>1, <2>2 DEF Same
<1>8. Same(r, q, "no_default_credentials")
  <2>1. Reads["no_default_credentials"] = {"defaultCredentials"}
    BY ReadsAre
  <2>2. /\ Evaluate(r)["no_default_credentials"] = Flag(r.defaultCredentials, TRUE)
        /\ Evaluate(q)["no_default_credentials"] = Flag(q.defaultCredentials, TRUE)
    BY EvaluateAt
  <2>3. QED
    BY <2>1, <2>2 DEF Same
<1>9. Same(r, q, "logging_enabled")
  <2>1. Reads["logging_enabled"] = {"logging"}
    BY ReadsAre
  <2>2. /\ Evaluate(r)["logging_enabled"] = Flag(r.logging, FALSE)
        /\ Evaluate(q)["logging_enabled"] = Flag(q.logging, FALSE)
    BY EvaluateAt
  <2>3. QED
    BY <2>1, <2>2 DEF Same
<1>10. Same(r, q, "remote_syslog_configured")
  <2>1. Reads["remote_syslog_configured"] = {"syslog"}
    BY ReadsAre
  <2>2. /\ Evaluate(r)["remote_syslog_configured"] = Flag(r.syslog, FALSE)
        /\ Evaluate(q)["remote_syslog_configured"] = Flag(q.syslog, FALSE)
    BY EvaluateAt
  <2>3. QED
    BY <2>1, <2>2 DEF Same
<1>11. Same(r, q, "audit_logging_enabled")
  <2>1. Reads["audit_logging_enabled"] = {"audit"}
    BY ReadsAre
  <2>2. /\ Evaluate(r)["audit_logging_enabled"] = Flag(r.audit, FALSE)
        /\ Evaluate(q)["audit_logging_enabled"] = Flag(q.audit, FALSE)
    BY EvaluateAt
  <2>3. QED
    BY <2>1, <2>2 DEF Same
<1>12. Same(r, q, "ntp_configured")
  <2>1. Reads["ntp_configured"] = {"ntp"}
    BY ReadsAre
  <2>2. /\ Evaluate(r)["ntp_configured"] = Flag(r.ntp, FALSE)
        /\ Evaluate(q)["ntp_configured"] = Flag(q.ntp, FALSE)
    BY EvaluateAt
  <2>3. QED
    BY <2>1, <2>2 DEF Same
<1>13. Same(r, q, "snmp_secure")
  <2>1. Reads["snmp_secure"] = {"snmp", "snmpVersion", "communities"}
    BY ReadsAre
  <2>2. /\ Evaluate(r)["snmp_secure"] = SnmpSecure(r)
        /\ Evaluate(q)["snmp_secure"] = SnmpSecure(q)
    BY EvaluateAt
  <2>3. QED
    BY <2>1, <2>2 DEF Same, SnmpSecure
<1>14. Same(r, q, "no_unrestricted_acl_rules")
  <2>1. Reads["no_unrestricted_acl_rules"] = {"rules"}
    BY ReadsAre
  <2>2. /\ Evaluate(r)["no_unrestricted_acl_rules"] = UnrestrictedAcl(r)
        /\ Evaluate(q)["no_unrestricted_acl_rules"] = UnrestrictedAcl(q)
    BY EvaluateAt
  <2>3. QED
    BY <2>1, <2>2 DEF Same, UnrestrictedAcl
<1>15. Same(r, q, "management_plane_not_internet_exposed")
  <2>1. Reads["management_plane_not_internet_exposed"] = {"exposed", "telnet", "http"}
    BY ReadsAre
  <2>2. /\ Evaluate(r)["management_plane_not_internet_exposed"] = ManagementExposure(r)
        /\ Evaluate(q)["management_plane_not_internet_exposed"] = ManagementExposure(q)
    BY EvaluateAt
  <2>3. QED
    BY <2>1, <2>2 DEF Same, ManagementExposure
<1>16. Same(r, q, "no_insecure_services")
  <2>1. Reads["no_insecure_services"] = {"insecure"}
    BY ReadsAre
  <2>2. /\ Evaluate(r)["no_insecure_services"] = InsecureServices(r)
        /\ Evaluate(q)["no_insecure_services"] = InsecureServices(q)
    BY EvaluateAt
  <2>3. QED
    BY <2>1, <2>2 DEF Same, InsecureServices
<1>17. Same(r, q, "no_unused_services")
  <2>1. Reads["no_unused_services"] = {"unused"}
    BY ReadsAre
  <2>2. /\ Evaluate(r)["no_unused_services"] = Check(r.unused = {})
        /\ Evaluate(q)["no_unused_services"] = Check(q.unused = {})
    BY EvaluateAt
  <2>3. QED
    BY <2>1, <2>2 DEF Same
<1>18. Same(r, q, "session_timeout_configured")
  <2>1. Reads["session_timeout_configured"] = {"timeout"}
    BY ReadsAre
  <2>2. /\ Evaluate(r)["session_timeout_configured"] = SessionTimeout(r)
        /\ Evaluate(q)["session_timeout_configured"] = SessionTimeout(q)
    BY EvaluateAt
  <2>3. QED
    BY <2>1, <2>2 DEF Same, SessionTimeout
<1>19. ASSUME NEW i \in 1 .. 18 PROVE Same(r, q, CONTROLS[i].id)
  <2>1. i \in {1, 2, 3, 4, 5, 6, 7, 8, 9, 10, 11, 12, 13, 14, 15, 16, 17, 18}
    OBVIOUS
  <2>2. QED
    BY <1>1, <1>2, <1>3, <1>4, <1>5, <1>6, <1>7, <1>8, <1>9,
       <1>10, <1>11, <1>12, <1>13, <1>14, <1>15, <1>16, <1>17, <1>18, <2>1, ControlsAre DEF Control
<1>20. QED
  BY <1>19

LEMMA ReadsInIR == \A i \in 1 .. 18 : Reads[CONTROLS[i].id] \subseteq IRFields
<1> SUFFICES ASSUME NEW i \in 1 .. 18 PROVE Reads[CONTROLS[i].id] \subseteq IRFields
  OBVIOUS
<1>1. i \in {1, 2, 3, 4, 5, 6, 7, 8, 9, 10, 11, 12, 13, 14, 15, 16, 17, 18}
  OBVIOUS
<1>2. QED
  BY <1>1, ControlsAre, ReadsAre DEF Control, IRFields

RiskLower(r, q) == \A c : RiskScore(q, c) <= RiskScore(r, c)

\* The control is the only one to read the field.
Only(f, id) == \A i \in 1 .. 18 : CONTROLS[i].id # id => f \notin Reads[CONTROLS[i].id]

\* A change of the one field that a failing control reads and no other control does.
LEMMA FixOne ==
  ASSUME NEW r, NEW q, NEW id, NEW f \in IRFields \ {"exposed", "telnet", "http"},
         \A g \in IRFields : g # f => q[g] = r[g], Evaluate(r)[id] = "FAIL", Only(f, id)
  PROVE  RiskLower(r, q)
<1>1. \A g \in IRFields : g # f => q[g] = r[g]
  OBVIOUS
<1>2. q["exposed"] = r["exposed"] /\ q["telnet"] = r["telnet"] /\ q["http"] = r["http"]
  BY <1>1 DEF IRFields
<1>3. ASSUME NEW i \in 1 .. 18, CONTROLS[i].id # id
      PROVE  Evaluate(q)[CONTROLS[i].id] = Evaluate(r)[CONTROLS[i].id]
  <2>1. Reads[CONTROLS[i].id] \subseteq IRFields /\ f \notin Reads[CONTROLS[i].id]
    BY <1>3, ReadsInIR DEF Only
  <2>2. \A g \in Reads[CONTROLS[i].id] : q[g] = r[g]
    BY <1>1, <2>1
  <2>3. QED
    BY <2>2, SameReads DEF Same
<1>4. Better(Evaluate(r), Evaluate(q))
  BY <1>3 DEF Better
<1>5. QED
  BY <1>2, <1>4, RiskOfBetter DEF RiskLower

\* A change of the management services: off, or as they are.
LEMMA FixServices ==
  ASSUME NEW r, Consistent(r), NEW telnet \in {FALSE, r.telnet}, NEW http \in {FALSE, r.http}
  PROVE  RiskLower(r, WithServices(r, telnet, http))
<1> DEFINE q == WithServices(r, telnet, http)
           s == Evaluate(r)
           t == Evaluate(q)
<1>1. /\ q.telnet = telnet /\ q.http = http /\ q.insecure = Insecure(telnet, http)
      /\ \A g \in IRFields : g \notin {"telnet", "http", "insecure"} => q[g] = r[g]
  BY DEF WithServices, Consistent, IRFields
<1>2. q.exposed = r.exposed
  BY <1>1 DEF IRFields
<1> HIDE DEF q
<1>3. (telnet = TRUE => r.telnet = TRUE) /\ (http = TRUE => r.http = TRUE)
  OBVIOUS
<1> DEFINE As(id) == (t[id] = "FAIL" => s[id] = "FAIL") /\ (s[id] = "PASS" => t[id] = "PASS")
           Read == {"telnet_disabled", "http_management_disabled", "no_insecure_services",
                    "management_plane_not_internet_exposed"}
<1>4. As("telnet_disabled")
  <2>1. s["telnet_disabled"] = Flag(r.telnet, TRUE) /\ t["telnet_disabled"] = Flag(telnet, TRUE)
    BY <1>1, EvaluateAt
  <2>2. QED
    BY <2>1, NoneIsNot DEF Flag
<1>5. As("http_management_disabled")
  <2>1. s["http_management_disabled"] = Flag(r.http, TRUE) /\ t["http_management_disabled"] = Flag(http, TRUE)
    BY <1>1, EvaluateAt
  <2>2. QED
    BY <2>1, NoneIsNot DEF Flag
<1>6. As("no_insecure_services")
  <2>1. s["no_insecure_services"] = InsecureServices(r) /\ t["no_insecure_services"] = InsecureServices(q)
    BY EvaluateAt
  <2>2. r.insecure = Insecure(r.telnet, r.http) /\ q.insecure = Insecure(telnet, http)
    BY <1>1 DEF Consistent
  <2>3. r.insecure = {} => q.insecure = {}
    BY <1>3, <2>2 DEF Insecure
  <2>4. QED
    BY <2>1, <2>3 DEF InsecureServices, Check
<1>7. As("management_plane_not_internet_exposed")
  <2>1. /\ s["management_plane_not_internet_exposed"] = ManagementExposure(r)
        /\ t["management_plane_not_internet_exposed"] = ManagementExposure(q)
    BY EvaluateAt
  <2>2. QED
    BY <1>1, <1>2, <1>3, <2>1 DEF ManagementExposure, Check
<1>8. ASSUME NEW i \in 1 .. 18, CONTROLS[i].id \notin Read
      PROVE  t[CONTROLS[i].id] = s[CONTROLS[i].id]
  <2>1. Reads[CONTROLS[i].id] \intersect {"telnet", "http", "insecure"} = {}
    <3>1. i \in {1, 2, 3, 4, 5, 6, 7, 8, 9, 10, 11, 12, 13, 14, 15, 16, 17, 18}
      OBVIOUS
    <3>2. QED
      BY <1>8, <3>1, ControlsAre, ReadsAre DEF Control
  <2>2. \A g \in Reads[CONTROLS[i].id] : q[g] = r[g]
    BY <1>1, <2>1, ReadsInIR
  <2>3. QED
    BY <2>2, SameReads DEF Same
<1>9. Better(s, t)
  <2> HIDE DEF s, t
  <2>1. ASSUME NEW i \in 1 .. 18 PROVE As(CONTROLS[i].id)
    <3>1. CASE CONTROLS[i].id \in Read
      BY <1>4, <1>5, <1>6, <1>7, <3>1
    <3>2. CASE CONTROLS[i].id \notin Read
      BY <1>8, <3>2
    <3>3. QED
      BY <3>1, <3>2
  <2>2. QED
    BY <2>1 DEF Better
<1>10. q.telnet = TRUE \/ q.http = TRUE => r.telnet = TRUE \/ r.http = TRUE
  BY <1>1, <1>3
<1>11. QED
  BY <1>2, <1>9, <1>10, RiskOfBetter DEF RiskLower, q

LEMMA FindingFailed ==
  ASSUME NEW s, NEW id \in Ids(Findings(s))
  PROVE  \E i \in 1 .. 18 : Failed(s, i) /\ CONTROLS[i].id = id
<1>1. PICK F : Found(s, F) /\ Findings(s) = F[18]
  BY FindingsFound
<1> DEFINE Good(n) == \A j \in 1 .. Len(F[n]) : \E i \in 1 .. n : Failed(s, i) /\ F[n][j] = CONTROLS[i]
           Bad == {n \in Nat : n \in 0 .. 18 /\ ~Good(n)}
<1>2. ASSUME Bad # {} PROVE FALSE
  <2>1. PICK n \in Bad : \A m \in Bad : n <= m
    <3>1. Bad \in SUBSET Nat
      OBVIOUS
    <3> HIDE DEF Bad
    <3>2. QED
      BY <1>2, <3>1, SmallestNat
  <2>2. n \in 0 .. 18 /\ ~Good(n)
    OBVIOUS
  <2>3. CASE n = 0
    <3>1. Len(F[0]) = 0
      BY <1>1 DEF Found
    <3>2. QED
      BY <2>2, <2>3, <3>1
  <2>4. CASE n # 0
    <3>1. n \in 1 .. 18 /\ n - 1 \in 0 .. 18 /\ n - 1 \notin Bad
      <4> HIDE DEF Bad
      <4>1. QED
        BY <2>1, <2>2, <2>4
    <3>2. Good(n - 1)
      BY <3>1
    <3> HIDE DEF Bad
    <3>3. F[n - 1] \in Seq(ControlSet) /\ CONTROLS[n] \in ControlSet
      BY <1>1, <3>1, ControlsType DEF Found
    <3>4. F[n] = IF Failed(s, n) THEN Append(F[n - 1], CONTROLS[n]) ELSE F[n - 1]
      BY <1>1, <3>1 DEF Found
    <3>5. ASSUME NEW j \in 1 .. Len(F[n])
          PROVE  \E i \in 1 .. n : Failed(s, i) /\ F[n][j] = CONTROLS[i]
      <4>1. CASE j \in 1 .. Len(F[n - 1])
        <5>1. F[n][j] = F[n - 1][j]
          BY <3>3, <3>4, <4>1
        <5>2. QED
          BY <3>1, <3>2, <4>1, <5>1
      <4>2. CASE j \notin 1 .. Len(F[n - 1])
        <5>1. Failed(s, n) /\ j = Len(F[n - 1]) + 1 /\ F[n][j] = CONTROLS[n]
          BY <3>3, <3>4, <3>5, <4>2
        <5>2. QED
          BY <3>1, <5>1
      <4>3. QED
        BY <4>1, <4>2
    <3>6. QED
      BY <2>2, <3>5
  <2>5. QED
    BY <2>3, <2>4
<1>3. Good(18)
  <2>1. 18 \notin Bad
    <3> HIDE DEF Bad
    <3>1. QED
      BY <1>2
  <2> HIDE DEF Good
  <2>2. QED
    BY <2>1, 18 \in Nat
<1>4. F[18] \in Seq(ControlSet) /\ DOMAIN F[18] = 1 .. Len(F[18])
  BY <1>1 DEF Found
<1>5. PICK j \in DOMAIN F[18] : id = F[18][j].id
  BY <1>1 DEF Ids
<1>6. QED
  BY <1>3, <1>4, <1>5

LEMMA OnlyReader ==
  /\ Only("sshVersion", "ssh_version_2")
  /\ Only("https", "management_encryption_in_use")
  /\ Only("minLength", "password_policy_minimum_length")
  /\ Only("privileged", "privileged_access_restricted")
  /\ Only("mfa", "mfa_enforced")
  /\ Only("defaultCredentials", "no_default_credentials")
  /\ Only("logging", "logging_enabled")
  /\ Only("syslog", "remote_syslog_configured")
  /\ Only("audit", "audit_logging_enabled")
  /\ Only("ntp", "ntp_configured")
  /\ Only("snmpVersion", "snmp_secure")
  /\ Only("rules", "no_unrestricted_acl_rules")
  /\ Only("unused", "no_unused_services")
  /\ Only("timeout", "session_timeout_configured")
<1> SUFFICES ASSUME NEW i \in 1 .. 18
             PROVE  LET id == CONTROLS[i].id
                    IN  /\ id # "ssh_version_2" => "sshVersion" \notin Reads[id]
                        /\ id # "management_encryption_in_use" => "https" \notin Reads[id]
                        /\ id # "password_policy_minimum_length" => "minLength" \notin Reads[id]
                        /\ id # "privileged_access_restricted" => "privileged" \notin Reads[id]
                        /\ id # "mfa_enforced" => "mfa" \notin Reads[id]
                        /\ id # "no_default_credentials" => "defaultCredentials" \notin Reads[id]
                        /\ id # "logging_enabled" => "logging" \notin Reads[id]
                        /\ id # "remote_syslog_configured" => "syslog" \notin Reads[id]
                        /\ id # "audit_logging_enabled" => "audit" \notin Reads[id]
                        /\ id # "ntp_configured" => "ntp" \notin Reads[id]
                        /\ id # "snmp_secure" => "snmpVersion" \notin Reads[id]
                        /\ id # "no_unrestricted_acl_rules" => "rules" \notin Reads[id]
                        /\ id # "no_unused_services" => "unused" \notin Reads[id]
                        /\ id # "session_timeout_configured" => "timeout" \notin Reads[id]
  BY DEF Only
<1>1. i \in {1, 2, 3, 4, 5, 6, 7, 8, 9, 10, 11, 12, 13, 14, 15, 16, 17, 18}
  OBVIOUS
<1>2. QED
  BY <1>1, ControlsAre, ReadsAre DEF Control

\* Whatever failed, its remediation does not raise the risk.
LEMMA FixLowers ==
  ASSUME NEW r, Consistent(r), NEW id \in Ids(Findings(Evaluate(r)))
  PROVE  RiskLower(r, Remediated(r, id))
<1>1. PICK n \in 1 .. 18 : Failed(Evaluate(r), n) /\ CONTROLS[n].id = id
  BY FindingFailed
<1>2. Evaluate(r)[id] = "FAIL"
  BY <1>1 DEF Failed
<1>3. id \in {"telnet_disabled", "http_management_disabled", "ssh_version_2",
              "management_encryption_in_use", "password_policy_minimum_length",
              "privileged_access_restricted", "mfa_enforced", "no_default_credentials",
              "logging_enabled", "remote_syslog_configured", "audit_logging_enabled",
              "ntp_configured", "snmp_secure", "no_unrestricted_acl_rules",
              "management_plane_not_internet_exposed", "no_insecure_services",
              "no_unused_services", "session_timeout_configured"}
  BY <1>1, ControlsAre DEF Control
<1>4. CASE id = "ssh_version_2"
  <2>1. Remediated(r, id) = [r EXCEPT !["sshVersion"] = 2]
    BY <1>4 DEF Remediated
  <2>2. \A g \in IRFields : g # "sshVersion" => Remediated(r, id)[g] = r[g]
    BY <2>1 DEF Consistent
  <2>3. Only("sshVersion", id) /\ "sshVersion" \in IRFields \ {"exposed", "telnet", "http"}
    BY <1>4, OnlyReader DEF IRFields
  <2>4. QED
    BY <1>2, <2>2, <2>3, FixOne
<1>5. CASE id = "management_encryption_in_use"
  <2>1. Remediated(r, id) = [r EXCEPT !["https"] = TRUE]
    BY <1>5 DEF Remediated
  <2>2. \A g \in IRFields : g # "https" => Remediated(r, id)[g] = r[g]
    BY <2>1 DEF Consistent
  <2>3. Only("https", id) /\ "https" \in IRFields \ {"exposed", "telnet", "http"}
    BY <1>5, OnlyReader DEF IRFields
  <2>4. QED
    BY <1>2, <2>2, <2>3, FixOne
<1>6. CASE id = "password_policy_minimum_length"
  <2>1. Remediated(r, id) = [r EXCEPT !["minLength"] = 8]
    BY <1>6 DEF Remediated
  <2>2. \A g \in IRFields : g # "minLength" => Remediated(r, id)[g] = r[g]
    BY <2>1 DEF Consistent
  <2>3. Only("minLength", id) /\ "minLength" \in IRFields \ {"exposed", "telnet", "http"}
    BY <1>6, OnlyReader DEF IRFields
  <2>4. QED
    BY <1>2, <2>2, <2>3, FixOne
<1>7. CASE id = "privileged_access_restricted"
  <2>1. Remediated(r, id) = [r EXCEPT !["privileged"] = TRUE]
    BY <1>7 DEF Remediated
  <2>2. \A g \in IRFields : g # "privileged" => Remediated(r, id)[g] = r[g]
    BY <2>1 DEF Consistent
  <2>3. Only("privileged", id) /\ "privileged" \in IRFields \ {"exposed", "telnet", "http"}
    BY <1>7, OnlyReader DEF IRFields
  <2>4. QED
    BY <1>2, <2>2, <2>3, FixOne
<1>8. CASE id = "mfa_enforced"
  <2>1. Remediated(r, id) = [r EXCEPT !["mfa"] = TRUE]
    BY <1>8 DEF Remediated
  <2>2. \A g \in IRFields : g # "mfa" => Remediated(r, id)[g] = r[g]
    BY <2>1 DEF Consistent
  <2>3. Only("mfa", id) /\ "mfa" \in IRFields \ {"exposed", "telnet", "http"}
    BY <1>8, OnlyReader DEF IRFields
  <2>4. QED
    BY <1>2, <2>2, <2>3, FixOne
<1>9. CASE id = "no_default_credentials"
  <2>1. Remediated(r, id) = [r EXCEPT !["defaultCredentials"] = FALSE]
    BY <1>9 DEF Remediated
  <2>2. \A g \in IRFields : g # "defaultCredentials" => Remediated(r, id)[g] = r[g]
    BY <2>1 DEF Consistent
  <2>3. Only("defaultCredentials", id) /\ "defaultCredentials" \in IRFields \ {"exposed", "telnet", "http"}
    BY <1>9, OnlyReader DEF IRFields
  <2>4. QED
    BY <1>2, <2>2, <2>3, FixOne
<1>10. CASE id = "logging_enabled"
  <2>1. Remediated(r, id) = [r EXCEPT !["logging"] = TRUE]
    BY <1>10 DEF Remediated
  <2>2. \A g \in IRFields : g # "logging" => Remediated(r, id)[g] = r[g]
    BY <2>1 DEF Consistent
  <2>3. Only("logging", id) /\ "logging" \in IRFields \ {"exposed", "telnet", "http"}
    BY <1>10, OnlyReader DEF IRFields
  <2>4. QED
    BY <1>2, <2>2, <2>3, FixOne
<1>11. CASE id = "remote_syslog_configured"
  <2>1. Remediated(r, id) = [r EXCEPT !["syslog"] = TRUE]
    BY <1>11 DEF Remediated
  <2>2. \A g \in IRFields : g # "syslog" => Remediated(r, id)[g] = r[g]
    BY <2>1 DEF Consistent
  <2>3. Only("syslog", id) /\ "syslog" \in IRFields \ {"exposed", "telnet", "http"}
    BY <1>11, OnlyReader DEF IRFields
  <2>4. QED
    BY <1>2, <2>2, <2>3, FixOne
<1>12. CASE id = "audit_logging_enabled"
  <2>1. Remediated(r, id) = [r EXCEPT !["audit"] = TRUE]
    BY <1>12 DEF Remediated
  <2>2. \A g \in IRFields : g # "audit" => Remediated(r, id)[g] = r[g]
    BY <2>1 DEF Consistent
  <2>3. Only("audit", id) /\ "audit" \in IRFields \ {"exposed", "telnet", "http"}
    BY <1>12, OnlyReader DEF IRFields
  <2>4. QED
    BY <1>2, <2>2, <2>3, FixOne
<1>13. CASE id = "ntp_configured"
  <2>1. Remediated(r, id) = [r EXCEPT !["ntp"] = TRUE]
    BY <1>13 DEF Remediated
  <2>2. \A g \in IRFields : g # "ntp" => Remediated(r, id)[g] = r[g]
    BY <2>1 DEF Consistent
  <2>3. Only("ntp", id) /\ "ntp" \in IRFields \ {"exposed", "telnet", "http"}
    BY <1>13, OnlyReader DEF IRFields
  <2>4. QED
    BY <1>2, <2>2, <2>3, FixOne
<1>14. CASE id = "snmp_secure"
  <2>1. Remediated(r, id) = [r EXCEPT !["snmpVersion"] = "3"]
    BY <1>14 DEF Remediated
  <2>2. \A g \in IRFields : g # "snmpVersion" => Remediated(r, id)[g] = r[g]
    BY <2>1 DEF Consistent
  <2>3. Only("snmpVersion", id) /\ "snmpVersion" \in IRFields \ {"exposed", "telnet", "http"}
    BY <1>14, OnlyReader DEF IRFields
  <2>4. QED
    BY <1>2, <2>2, <2>3, FixOne
<1>15. CASE id = "no_unrestricted_acl_rules"
  <2>1. Remediated(r, id) = [r EXCEPT !["rules"] = r.rules \ {"unrestricted"}]
    BY <1>15 DEF Remediated
  <2>2. \A g \in IRFields : g # "rules" => Remediated(r, id)[g] = r[g]
    BY <2>1 DEF Consistent
  <2>3. Only("rules", id) /\ "rules" \in IRFields \ {"exposed", "telnet", "http"}
    BY <1>15, OnlyReader DEF IRFields
  <2>4. QED
    BY <1>2, <2>2, <2>3, FixOne
<1>16. CASE id = "no_unused_services"
  <2>1. Remediated(r, id) = [r EXCEPT !["unused"] = {}]
    BY <1>16 DEF Remediated
  <2>2. \A g \in IRFields : g # "unused" => Remediated(r, id)[g] = r[g]
    BY <2>1 DEF Consistent
  <2>3. Only("unused", id) /\ "unused" \in IRFields \ {"exposed", "telnet", "http"}
    BY <1>16, OnlyReader DEF IRFields
  <2>4. QED
    BY <1>2, <2>2, <2>3, FixOne
<1>17. CASE id = "session_timeout_configured"
  <2>1. Remediated(r, id) = [r EXCEPT !["timeout"] = 600]
    BY <1>17 DEF Remediated
  <2>2. \A g \in IRFields : g # "timeout" => Remediated(r, id)[g] = r[g]
    BY <2>1 DEF Consistent
  <2>3. Only("timeout", id) /\ "timeout" \in IRFields \ {"exposed", "telnet", "http"}
    BY <1>17, OnlyReader DEF IRFields
  <2>4. QED
    BY <1>2, <2>2, <2>3, FixOne
<1>18. CASE id = "telnet_disabled"
  <2>1. Remediated(r, id) = WithServices(r, FALSE, r.http)
    BY <1>18 DEF Remediated
  <2>2. QED
    BY <2>1, FixServices
<1>19. CASE id = "http_management_disabled"
  <2>1. Remediated(r, id) = WithServices(r, r.telnet, FALSE)
    BY <1>19 DEF Remediated
  <2>2. QED
    BY <2>1, FixServices
<1>20. CASE id = "no_insecure_services"
  <2>1. Remediated(r, id) = WithServices(r, FALSE, FALSE)
    BY <1>20 DEF Remediated
  <2>2. QED
    BY <2>1, FixServices
<1>21. CASE id = "management_plane_not_internet_exposed"
  <2>1. Remediated(r, id) = WithServices(r, FALSE, FALSE)
    BY <1>21 DEF Remediated
  <2>2. QED
    BY <2>1, FixServices
<1>30. QED
  BY <1>3, <1>4, <1>5, <1>6, <1>7, <1>8, <1>9, <1>10, <1>11, <1>12, <1>13, <1>14, <1>15, <1>16, <1>17, <1>18, <1>19, <1>20, <1>21

-----------------------------------------------------------------------------
(* The potential attack paths                                              *)

\* One more hop of the walks, and the walks of all_simple_paths by their length.
Extended(g, W) ==
  UNION {{Append(p, e[2]) : e \in {e \in g.edges : e[1] = Last(p) /\ ~Contains(p, e[2])}}
           : p \in {p \in W : Last(p) # Asset}}
Walks(g, f) ==
  f = [n \in 0 .. MaxPathLength |-> IF n = 0 THEN {<<Internet>>} ELSE Extended(g, f[n - 1])]

LEMMA WalksExist == ASSUME NEW g PROVE \E f : Walks(g, f)
<1> DEFINE W0 == {<<Internet>>}
           W1 == Extended(g, W0)   W2 == Extended(g, W1)
           W3 == Extended(g, W2)   W4 == Extended(g, W3)
           W5 == Extended(g, W4)   W6 == Extended(g, W5)
           W7 == Extended(g, W6)   W8 == Extended(g, W7)
           f == [n \in 0 .. MaxPathLength |->
                   IF n = 0 THEN W0 ELSE IF n = 1 THEN W1 ELSE IF n = 2 THEN W2
                   ELSE IF n = 3 THEN W3 ELSE IF n = 4 THEN W4 ELSE IF n = 5 THEN W5
                   ELSE IF n = 6 THEN W6 ELSE IF n = 7 THEN W7 ELSE W8]
<1>1. /\ f[0] = W0 /\ f[1] = W1 /\ f[2] = W2 /\ f[3] = W3 /\ f[4] = W4
      /\ f[5] = W5 /\ f[6] = W6 /\ f[7] = W7 /\ f[8] = W8
  <2> HIDE DEF W0, W1, W2, W3, W4, W5, W6, W7, W8
  <2>1. QED
    BY DEF MaxPathLength
<1>2. /\ W1 = Extended(g, W0) /\ W2 = Extended(g, W1) /\ W3 = Extended(g, W2) /\ W4 = Extended(g, W3)
      /\ W5 = Extended(g, W4) /\ W6 = Extended(g, W5) /\ W7 = Extended(g, W6) /\ W8 = Extended(g, W7)
  OBVIOUS
<1>3. ASSUME NEW n \in 0 .. MaxPathLength
      PROVE  f[n] = IF n = 0 THEN W0 ELSE Extended(g, f[n - 1])
  <2>1. n \in {0, 1, 2, 3, 4, 5, 6, 7, 8}
    BY DEF MaxPathLength
  <2> HIDE DEF W0, W1, W2, W3, W4, W5, W6, W7, W8, f
  <2>2. QED
    BY <1>1, <1>2, <2>1
<1>4. f = [n \in 0 .. MaxPathLength |-> IF n = 0 THEN W0 ELSE Extended(g, f[n - 1])]
  <2>1. f = [n \in 0 .. MaxPathLength |-> f[n]]
    OBVIOUS
  <2> HIDE DEF f
  <2>2. QED
    BY <1>3, <2>1
<1> HIDE DEF f
<1>5. Walks(g, f)
  BY <1>4 DEF Walks
<1>6. QED
  BY <1>5

LEMMA PathsOf ==
  ASSUME NEW g, {Internet, Asset} \subseteq g.nodes
  PROVE  \E f : Walks(g, f) /\ SimplePaths(g) = {p \in UNION {f[n] : n \in 1 .. MaxPathLength} : Last(p) = Asset}
<1> DEFINE f == CHOOSE f : Walks(g, f)
<1>1. Walks(g, f)
  BY WalksExist
<1>2. SimplePaths(g) = {p \in UNION {f[n] : n \in 1 .. MaxPathLength} : Last(p) = Asset}
  BY DEF SimplePaths, Walks, Extended
<1>3. QED
  BY <1>1, <1>2

LEMMA Extend ==
  ASSUME NEW g, NEW W, NEW p \in W, NEW n, Last(p) # Asset, <<Last(p), n>> \in g.edges, ~Contains(p, n)
  PROVE  Append(p, n) \in Extended(g, W)
<1> DEFINE e == <<Last(p), n>>
<1>1. e \in g.edges /\ e[1] = Last(p) /\ e[2] = n
  OBVIOUS
<1> HIDE DEF e
<1>2. Append(p, n) \in {Append(p, d[2]) : d \in {d \in g.edges : d[1] = Last(p) /\ ~Contains(p, d[2])}}
  BY <1>1
<1>3. QED
  BY <1>2 DEF Extended

LEMMA Appends ==
  ASSUME NEW a, NEW b, NEW d
  PROVE  Append(<<a>>, b) = <<a, b>> /\ Append(<<a, b>>, d) = <<a, b, d>>
<1> DEFINE V == {a, b, d}
<1>1. <<a>> \in Seq(V) /\ <<a, b>> \in Seq(V) /\ <<a, b, d>> \in Seq(V)
  OBVIOUS
<1>2. Append(<<a>>, b) \in Seq(V) /\ Append(<<a, b>>, d) \in Seq(V)
  BY <1>1
<1>3. Append(<<a>>, b) = <<a, b>>
  <2>1. Len(Append(<<a>>, b)) = 2 /\ \A i \in 1 .. 2 : Append(<<a>>, b)[i] = <<a, b>>[i]
    OBVIOUS
  <2>2. QED
    BY <1>1, <1>2, <2>1, SeqEqual
<1>4. Append(<<a, b>>, d) = <<a, b, d>>
  <2>1. Len(Append(<<a, b>>, d)) = 3 /\ \A i \in 1 .. 3 : Append(<<a, b>>, d)[i] = <<a, b, d>>[i]
    OBVIOUS
  <2>2. QED
    BY <1>1, <1>2, <2>1, SeqEqual
<1>5. QED
  BY <1>3, <1>4

\* A device with an Internet-facing interface in front of a critical asset has a path: over
\* the device, unless an internal interface bears the same name as the one that faces.
LEMMA ExposedHasPath ==
  ASSUME NEW r, NEW c, Exposed(r.interfaces), Critical(c)
  PROVE  SimplePaths(Graph(r, c)) # {}
<1> DEFINE g == Graph(r, c)
<1>1. PICK i \in r.interfaces : i.facing
  BY DEF Exposed
<1>2. {Internet, Asset} \subseteq g.nodes
  BY <1>1 DEF Graph
<1>3. /\ <<Internet, Interface(i)>> \in g.edges /\ <<Interface(i), Device>> \in g.edges
      /\ \A j \in r.interfaces : ~j.facing => <<Device, Interface(j)>> \in g.edges
      /\ \A n \in Protects(r) : <<n, Asset>> \in g.edges
  BY <1>1 DEF Graph
<1> HIDE DEF g
<1>4. PICK f : Walks(g, f) /\ SimplePaths(g) = {p \in UNION {f[n] : n \in 1 .. MaxPathLength} : Last(p) = Asset}
  BY <1>2, PathsOf
<1>5. \A n \in 1 .. 8 : f[n] = Extended(g, f[n - 1])
  BY <1>4 DEF Walks, MaxPathLength
<1>6. /\ f[0] = {<<Internet>>} /\ f[1] = Extended(g, f[0]) /\ f[2] = Extended(g, f[1])
      /\ f[3] = Extended(g, f[2]) /\ f[4] = Extended(g, f[3])
  <2>1. f[0] = {<<Internet>>}
    BY <1>4 DEF Walks, MaxPathLength
  <2>2. 1 - 1 = 0 /\ 2 - 1 = 1 /\ 3 - 1 = 2 /\ 4 - 1 = 3
    OBVIOUS
  <2>3. QED
    BY <1>5, <2>1, <2>2
<1>7. \A j : /\ Interface(j) # Internet /\ Interface(j) # Device /\ Interface(j) # Asset
             /\ Internet # Device /\ Internet # Asset /\ Device # Asset
  BY DEF Interface, Internet, Device, Asset
<1> DEFINE I == Interface(i)
<1>8. <<Internet, I>> \in f[1]
  <2>1. <<Internet>> \in f[0] /\ Last(<<Internet>>) = Internet /\ ~Contains(<<Internet>>, I)
    BY <1>6, <1>7 DEF Last, Contains
  <2>2. Append(<<Internet>>, I) \in Extended(g, f[0])
    BY <1>3, <1>7, <2>1, Extend
  <2>3. Append(<<Internet>>, I) = <<Internet, I>>
    BY Appends
  <2>4. QED
    BY <1>6, <2>2, <2>3
<1>9. <<Internet, I, Device>> \in f[2]
  <2>1. Last(<<Internet, I>>) = I /\ ~Contains(<<Internet, I>>, Device)
    BY <1>7 DEF Last, Contains
  <2>2. Append(<<Internet, I>>, Device) \in Extended(g, f[1])
    BY <1>3, <1>7, <1>8, <2>1, Extend
  <2>3. Append(<<Internet, I>>, Device) = <<Internet, I, Device>>
    BY Appends
  <2>4. QED
    BY <1>6, <2>2, <2>3
<1>10. ASSUME NEW p, Last(p) = Asset, p \in f[2] \/ p \in f[3] \/ p \in f[4]
       PROVE  p \in SimplePaths(g)
  BY <1>4, <1>10 DEF MaxPathLength
<1>11. CASE {j \in r.interfaces : ~j.facing} = {}
  <2>1. <<Device, Asset>> \in g.edges
    BY <1>3, <1>11 DEF Protects
  <2>2. Last(<<Internet, I, Device>>) = Device /\ ~Contains(<<Internet, I, Device>>, Asset)
    BY <1>7 DEF Last, Contains
  <2> DEFINE path == Append(<<Internet, I, Device>>, Asset)
  <2>3. Last(path) = Asset
    BY DEF Last
  <2>4. path \in Extended(g, f[2])
    BY <1>7, <1>9, <2>1, <2>2, Extend
  <2> HIDE DEF path
  <2>5. QED
    BY <1>6, <1>10, <2>3, <2>4 DEF g
<1>12. CASE {j \in r.interfaces : ~j.facing} # {}
  <2>1. PICK j \in r.interfaces : ~j.facing
    BY <1>12
  <2> DEFINE J == Interface(j)
  <2>2. <<Device, J>> \in g.edges /\ <<J, Asset>> \in g.edges
    BY <1>3, <1>12, <2>1 DEF Protects
  <2>3. CASE J = I
    <3>1. Last(<<Internet, I>>) = I /\ ~Contains(<<Internet, I>>, Asset)
      BY <1>7 DEF Last, Contains
    <3> DEFINE path == Append(<<Internet, I>>, Asset)
    <3>2. Last(path) = Asset
      BY DEF Last
    <3>3. path \in Extended(g, f[1])
      BY <1>7, <1>8, <2>2, <2>3, <3>1, Extend
    <3> HIDE DEF path
    <3>4. QED
      BY <1>6, <1>10, <3>2, <3>3 DEF g
  <2>4. CASE J # I
    <3>1. Last(<<Internet, I, Device>>) = Device /\ ~Contains(<<Internet, I, Device>>, J)
      BY <1>7, <2>4 DEF Last, Contains
    <3>2. Append(<<Internet, I, Device>>, J) \in f[3]
      BY <1>6, <1>7, <1>9, <2>2, <3>1, Extend
    <3> DEFINE up == Append(<<Internet, I, Device>>, J)
    <3>3. Len(up) = 4 /\ up[1] = Internet /\ up[2] = I /\ up[3] = Device /\ up[4] = J
      OBVIOUS
    <3> HIDE DEF up
    <3>4. Last(up) = J /\ ~Contains(up, Asset)
      BY <1>7, <3>3 DEF Last, Contains
    <3> DEFINE path == Append(up, Asset)
    <3>5. Last(path) = Asset
      BY DEF Last, up
    <3>6. path \in Extended(g, f[3])
      BY <1>7, <2>2, <3>2, <3>4, Extend DEF up
    <3> HIDE DEF path
    <3>7. QED
      BY <1>6, <1>10, <3>5, <3>6 DEF g
  <2>5. QED
    BY <2>3, <2>4
<1>13. QED
  BY <1>11, <1>12 DEF g

\* What find_potential_attack_paths may report of a graph.
Grounded(paths, r, s, c) ==
  /\ paths # {} <=> Exposed(r.interfaces) /\ Critical(c)
  /\ \A p \in paths : \A service \in p.services : Finding(s, service)

LEMMA OnlyServices ==
  ASSUME NEW r, NEW c, NEW path, NEW service \in ServicesOn(Graph(r, c), path)
  PROVE  service \in ExposedServices(r)
<1>1. PICK e \in Graph(r, c).edges : e[1] = Device /\ e[2][1] = "service" /\ service = e[2][2]
  BY DEF ServicesOn
<1>2. CASE e \in {<<Device, n>> : n \in {<<"service", x>> : x \in ExposedServices(r)}}
  BY <1>1, <1>2
<1>3. CASE e[2][1] \in {"interface", "device", "zone", "asset"}
  BY <1>1, <1>3
<1>4. e[2][1] \in {"interface", "device", "zone", "asset"}
      \/ e \in {<<Device, n>> : n \in {<<"service", x>> : x \in ExposedServices(r)}}
  BY DEF Graph, Interface, Device, Asset, Internet
<1>5. QED
  BY <1>2, <1>3, <1>4

LEMMA PathsGrounded ==
  ASSUME NEW r, NEW c, Consistent(r), NEW findings
  PROVE  Grounded(AttackPaths(Graph(r, c), findings), r, Evaluate(r), c)
<1> DEFINE g == Graph(r, c)
           paths == AttackPaths(g, findings)
<1>1. ASSUME paths # {} PROVE Exposed(r.interfaces) /\ Critical(c)
  <2>1. Internet \in g.nodes /\ Asset \in g.nodes
    BY <1>1 DEF AttackPaths, SimplePaths
  <2>2. Exposed(r.interfaces)
    BY <2>1 DEF Graph, Exposed, Consistent, Internet, Device, Asset, Interface
  <2>3. Critical(c)
    BY <2>1 DEF Graph, Internet, Device, Asset, Interface
  <2>4. QED
    BY <2>2, <2>3
<1>2. ASSUME NEW p \in paths, NEW service \in p.services
      PROVE  Finding(Evaluate(r), service)
  <2>1. \E path : p.services = ServicesOn(g, path)
    BY DEF AttackPaths
  <2>2. QED
    BY <1>2, <2>1, OnlyServices, ServicesFail
<1>3. ASSUME Exposed(r.interfaces), Critical(c) PROVE paths # {}
  <2>1. PICK path \in SimplePaths(g) : TRUE
    BY <1>3, ExposedHasPath
  <2>2. QED
    BY <2>1 DEF AttackPaths
<1> HIDE DEF paths
<1>4. QED
  BY <1>1, <1>2, <1>3 DEF Grounded, paths

-----------------------------------------------------------------------------
(* The orders of the optimizer                                             *)

\* The orders of what is not yet placed, given those of one placement more.
Headed(i, rest) == {<<i>> \o s : s \in rest}
After(D, picks, f, p) ==
  IF p = D THEN {<<>>} ELSE UNION {Headed(i, f[p \union {i}]) : i \in picks[p]}
AllAfter(D, picks, f) == f = [p \in SUBSET D |-> After(D, picks, f, p)]
RestOn(D, picks, K, f) == \A p \in K : f[p] = After(D, picks, f, p)

LEMMA AfterSame ==
  ASSUME NEW D, NEW picks, NEW f, NEW h, NEW p, \A i \in picks[p] : h[p \union {i}] = f[p \union {i}]
  PROVE  After(D, picks, h, p) = After(D, picks, f, p)
<1> DEFINE Of(g) == UNION {Headed(i, g[p \union {i}]) : i \in picks[p]}
<1>1. \A o : o \in Of(h) <=> \E i \in picks[p] : o \in Headed(i, h[p \union {i}])
  OBVIOUS
<1>2. \A o : o \in Of(f) <=> \E i \in picks[p] : o \in Headed(i, f[p \union {i}])
  OBVIOUS
<1>3. \A i \in picks[p] : Headed(i, h[p \union {i}]) = Headed(i, f[p \union {i}])
  OBVIOUS
<1>4. \A o : o \in Of(h) <=> o \in Of(f)
  <2> HIDE DEF Of
  <2>1. QED
    BY <1>1, <1>2, <1>3
<1> HIDE DEF Of
<1>5. Of(h) = Of(f)
  BY <1>4
<1>6. QED
  BY <1>5 DEF After, Of

LEMMA RestExists ==
  ASSUME NEW D, IsFiniteSet(D), NEW picks, \A p \in SUBSET D : picks[p] \subseteq D \ p
  PROVE  \E f : AllAfter(D, picks, f)
<1> DEFINE K(n) == {p \in SUBSET D : Cardinality(D \ p) <= n}
           Bad == {n \in Nat : ~ \E f : RestOn(D, picks, K(n), f)}
<1>1. \A p \in SUBSET D : /\ IsFiniteSet(D \ p) /\ Cardinality(D \ p) \in Nat
                          /\ Cardinality(D \ p) = 0 <=> p = D
  <2> TAKE p \in SUBSET D
  <2>1. IsFiniteSet(D \ p)
    BY FS_Subset
  <2>2. Cardinality(D \ p) \in Nat /\ (Cardinality(D \ p) = 0 <=> D \ p = {})
    BY <2>1, FS_CardinalityType, FS_EmptySet
  <2>3. QED
    BY <2>1, <2>2
<1>2. ASSUME Bad # {} PROVE FALSE
  <2>1. PICK n \in Bad : \A m \in Bad : n <= m
    <3>1. Bad \in SUBSET Nat
      OBVIOUS
    <3> HIDE DEF Bad
    <3>2. QED
      BY <1>2, <3>1, SmallestNat
  <2>2. CASE n = 0
    <3> DEFINE f == [p \in SUBSET D |-> {<<>>}]
    <3>1. ASSUME NEW p \in K(0) PROVE p = D
      <4>1. p \in SUBSET D /\ Cardinality(D \ p) <= 0
        OBVIOUS
      <4>2. Cardinality(D \ p) \in Nat /\ (Cardinality(D \ p) = 0 <=> p = D)
        BY <1>1
      <4> HIDE DEF K
      <4>3. QED
        BY <4>1, <4>2
    <3>2. RestOn(D, picks, K(0), f)
      BY <3>1 DEF RestOn, After
    <3>3. QED
      BY <2>1, <2>2, <3>2
  <2>3. CASE n # 0
    <3>1. n \in Nat /\ n - 1 \in Nat /\ n - 1 \notin Bad
      <4>1. n \in Nat
        OBVIOUS
      <4> HIDE DEF Bad
      <4>2. QED
        BY <2>1, <2>3, <4>1
    <3>2. PICK f : RestOn(D, picks, K(n - 1), f)
      BY <3>1
    <3> DEFINE h == [p \in SUBSET D |-> IF Cardinality(D \ p) <= n - 1 THEN f[p] ELSE After(D, picks, f, p)]
    <3>3. ASSUME NEW p \in K(n), NEW i \in picks[p]
          PROVE  h[p \union {i}] = f[p \union {i}]
      <4>1. i \in D /\ i \notin p
        BY <3>3
      <4>2. D \ (p \union {i}) = (D \ p) \ {i}
        OBVIOUS
      <4>3. Cardinality((D \ p) \ {i}) = Cardinality(D \ p) - 1
        BY <1>1, <4>1, FS_RemoveElement
      <4>4. Cardinality(D \ (p \union {i})) = Cardinality(D \ p) - 1
        BY Zenon, <4>2, <4>3
      <4>5. Cardinality(D \ p) \in Nat /\ Cardinality(D \ p) <= n
        BY <1>1
      <4>6. Cardinality(D \ (p \union {i})) <= n - 1
        BY <3>1, <4>4, <4>5
      <4>7. QED
        BY <4>1, <4>6
    <3>4. ASSUME NEW p \in K(n) PROVE After(D, picks, h, p) = After(D, picks, f, p)
      <4> HIDE DEF h, K
      <4>1. QED
        BY <3>3, AfterSame
    <3>5. ASSUME NEW p \in K(n) PROVE h[p] = After(D, picks, h, p)
      <4>1. CASE Cardinality(D \ p) <= n - 1
        <5>1. h[p] = f[p] /\ p \in K(n - 1)
          BY <4>1
        <5>2. QED
          BY <3>2, <3>4, <5>1 DEF RestOn
      <4>2. CASE ~(Cardinality(D \ p) <= n - 1)
        <5>1. h[p] = After(D, picks, f, p)
          BY <4>2
        <5>2. QED
          BY <3>4, <5>1
      <4>3. QED
        BY <4>1, <4>2
    <3>6. QED
      <4> HIDE DEF h
      <4>1. RestOn(D, picks, K(n), h)
        BY <3>5 DEF RestOn
      <4>2. QED
        BY <2>1, <4>1
  <2>4. QED
    BY <2>2, <2>3
<1>3. \A n \in Nat : \E f : RestOn(D, picks, K(n), f)
  <2> HIDE DEF K
  <2>1. QED
    BY <1>2
<1>4. Cardinality(D) \in Nat /\ \A p \in SUBSET D : Cardinality(D \ p) <= Cardinality(D)
  <2>1. \A p \in SUBSET D : D \ p \in SUBSET D
    OBVIOUS
  <2>2. QED
    BY <2>1, FS_Subset, FS_CardinalityType
<1>5. PICK f : RestOn(D, picks, K(Cardinality(D)), f)
  BY <1>3, <1>4
<1>6. \A p \in SUBSET D : f[p] = After(D, picks, f, p)
  BY <1>4, <1>5 DEF RestOn
<1> DEFINE h == [p \in SUBSET D |-> f[p]]
<1>7. ASSUME NEW p \in SUBSET D PROVE After(D, picks, h, p) = f[p]
  <2>1. \A i \in picks[p] : h[p \union {i}] = f[p \union {i}]
    <3>1. \A i \in picks[p] : p \union {i} \in SUBSET D
      OBVIOUS
    <3>2. QED
      BY <3>1
  <2> HIDE DEF h
  <2>2. After(D, picks, h, p) = After(D, picks, f, p)
    BY <2>1, AfterSame
  <2>3. QED
    BY <1>6, <2>2
<1>8. AllAfter(D, picks, h)
  BY <1>7 DEF AllAfter
<1> HIDE DEF h
<1>9. QED
  BY <1>8

\* An order of what is not placed, dependencies first; needs gives what each position waits for.
Plan(D, needs, p, o) ==
  /\ o \in Seq(D \ p) /\ Len(o) = Cardinality(D \ p)
  /\ \A x \in D \ p : \E n \in 1 .. Len(o) : o[n] = x
  /\ \A m, n \in 1 .. Len(o) : o[m] = o[n] => m = n
  /\ \A n \in 1 .. Len(o) : \A x \in needs[o[n]] : x \in p \/ \E m \in 1 .. Len(o) : o[m] = x /\ m < n

LEMMA PlanOne ==
  ASSUME NEW D, IsFiniteSet(D), NEW needs, NEW p \in SUBSET D, NEW i \in D \ p, needs[i] \subseteq p,
         NEW s, Plan(D, needs, p \union {i}, s)
  PROVE  Plan(D, needs, p, <<i>> \o s)
<1> DEFINE o == <<i>> \o s
           q == p \union {i}
<1>1. <<i>> \in Seq(D \ p) /\ s \in Seq(D \ p) /\ Len(<<i>>) = 1 /\ Len(s) \in Nat
  <2>1. s \in Seq(D \ q)
    BY DEF Plan
  <2>2. D \ q \subseteq D \ p
    OBVIOUS
  <2>3. Seq(D \ q) \subseteq Seq(D \ p)
    <3> HIDE DEF q
    <3>1. QED
      BY <2>2, SeqMonotonic
  <2> HIDE DEF q
  <2>4. s \in Seq(D \ p)
    BY <2>1, <2>3
  <2>5. QED
    BY <2>4
<1>2. /\ o \in Seq(D \ p) /\ Len(o) = Len(s) + 1
      /\ \A k \in 1 .. Len(s) + 1 : o[k] = IF k = 1 THEN i ELSE s[k - 1]
  <2>1. /\ o \in Seq(D \ p) /\ Len(o) = 1 + Len(s)
        /\ \A k \in 1 .. 1 + Len(s) : o[k] = IF k <= 1 THEN <<i>>[k] ELSE s[k - 1]
    BY <1>1, ConcatProperties
  <2> HIDE DEF o
  <2>2. <<i>>[1] = i
    OBVIOUS
  <2>3. QED
    BY <1>1, <2>1, <2>2
<1> HIDE DEF o
<1>3. Len(o) = Cardinality(D \ p)
  <2>1. IsFiniteSet(D \ p)
    BY FS_Subset
  <2>2. D \ q = (D \ p) \ {i}
    OBVIOUS
  <2>3. Cardinality((D \ p) \ {i}) = Cardinality(D \ p) - 1 /\ Cardinality(D \ p) \in Nat
    BY <2>1, FS_RemoveElement, FS_CardinalityType
  <2>4. Len(s) = Cardinality(D \ q)
    BY DEF Plan
  <2> HIDE DEF q
  <2>5. Cardinality(D \ q) = Cardinality(D \ p) - 1
    BY Zenon, <2>2, <2>3
  <2>6. QED
    BY <1>1, <1>2, <2>3, <2>4, <2>5
<1>4. o[1] = i /\ \A k \in 1 .. Len(s) : k + 1 \in 1 .. Len(o) /\ o[k + 1] = s[k]
  BY <1>1, <1>2
<1>5. ASSUME NEW x \in D \ p PROVE \E n \in 1 .. Len(o) : o[n] = x
  <2>1. CASE x = i
    BY <1>1, <1>2, <1>4, <2>1
  <2>2. CASE x # i
    <3>1. PICK n \in 1 .. Len(s) : s[n] = x
      BY <2>2 DEF Plan
    <3>2. QED
      BY <1>4, <3>1
  <2>3. QED
    BY <2>1, <2>2
<1>6. \A k \in 1 .. Len(s) : s[k] \in D \ q
  BY <1>1 DEF Plan
<1>7. ASSUME NEW m \in 1 .. Len(o), NEW n \in 1 .. Len(o), o[m] = o[n] PROVE m = n
  <2>1. m \in Nat /\ n \in Nat /\ m <= Len(s) + 1 /\ n <= Len(s) + 1 /\ m >= 1 /\ n >= 1
    BY <1>1, <1>2
  <2>2. CASE m = 1 /\ n = 1
    BY <2>2
  <2>3. CASE m = 1 /\ n # 1
    <3>1. n - 1 \in 1 .. Len(s) /\ o[n] = s[n - 1]
      BY <1>1, <1>2, <2>1, <2>3
    <3>2. QED
      BY <1>4, <1>6, <1>7, <2>3, <3>1
  <2>4. CASE m # 1 /\ n = 1
    <3>1. m - 1 \in 1 .. Len(s) /\ o[m] = s[m - 1]
      BY <1>1, <1>2, <2>1, <2>4
    <3>2. QED
      BY <1>4, <1>6, <1>7, <2>4, <3>1
  <2>5. CASE m # 1 /\ n # 1
    <3>1. m - 1 \in 1 .. Len(s) /\ o[m] = s[m - 1] /\ n - 1 \in 1 .. Len(s) /\ o[n] = s[n - 1]
      BY <1>1, <1>2, <2>1, <2>5
    <3>2. m - 1 = n - 1
      BY <1>7, <3>1 DEF Plan
    <3>3. QED
      BY <2>1, <3>2
  <2>6. QED
    BY <2>2, <2>3, <2>4, <2>5
<1>8. ASSUME NEW n \in 1 .. Len(o), NEW x \in needs[o[n]]
      PROVE  x \in p \/ \E m \in 1 .. Len(o) : o[m] = x /\ m < n
  <2>1. n \in Nat /\ n <= Len(s) + 1 /\ n >= 1
    BY <1>1, <1>2
  <2>2. CASE n = 1
    BY <1>4, <1>8, <2>2
  <2>3. CASE n # 1
    <3>1. n - 1 \in 1 .. Len(s) /\ o[n] = s[n - 1]
      BY <1>1, <1>2, <2>1, <2>3
    <3>2. x \in q \/ \E m \in 1 .. Len(s) : s[m] = x /\ m < n - 1
      BY <1>8, <3>1 DEF Plan
    <3>3. CASE x \in p
      BY <3>3
    <3>4. CASE x = i
      <4>1. 1 \in 1 .. Len(o) /\ 1 < n
        BY <1>1, <1>2, <2>1, <2>3
      <4>2. QED
        BY <1>4, <3>4, <4>1
    <3>5. CASE \E m \in 1 .. Len(s) : s[m] = x /\ m < n - 1
      <4>1. PICK m \in 1 .. Len(s) : s[m] = x /\ m < n - 1
        BY <3>5
      <4>2. m + 1 \in 1 .. Len(o) /\ o[m + 1] = x /\ m + 1 < n
        BY <1>4, <2>1, <4>1
      <4>3. QED
        BY <4>2
    <3>6. QED
      BY <3>2, <3>3, <3>4, <3>5
  <2>4. QED
    BY <2>2, <2>3
<1>9. QED
  BY <1>2, <1>3, <1>5, <1>7, <1>8 DEF Plan, o

LEMMA PlansOf ==
  ASSUME NEW D, IsFiniteSet(D), NEW needs, NEW picks, NEW f,
         \A p \in SUBSET D : picks[p] \subseteq {i \in D \ p : needs[i] \subseteq p},
         \A p \in SUBSET D : f[p] = After(D, picks, f, p)
  PROVE  \A p \in SUBSET D : \A o \in f[p] : Plan(D, needs, p, o)
<1> DEFINE Bad == {U \in SUBSET D : \E o \in f[D \ U] : ~ Plan(D, needs, D \ U, o)}
<1>1. ASSUME Bad # {} PROVE FALSE
  <2>1. PICK U \in Bad : \A W \in Bad : W \subseteq U => W = U
    <3>1. Bad \in SUBSET (SUBSET D)
      OBVIOUS
    <3> HIDE DEF Bad
    <3>2. QED
      BY <1>1, <3>1, SmallestSet
  <2> DEFINE p == D \ U
  <2>2. PICK o \in f[p] : ~ Plan(D, needs, p, o)
    OBVIOUS
  <2>3. p \in SUBSET D /\ U = D \ p /\ U \in SUBSET D
    OBVIOUS
  <2>4. CASE p = D
    <3>1. o = <<>>
      <4>1. f[p] = After(D, picks, f, p)
        BY <2>3
      <4> HIDE DEF p
      <4>2. f[p] = {<<>>}
        BY <2>4, <4>1 DEF After
      <4>3. QED
        BY <2>2, <4>2
    <3>2. D \ D = {} /\ Cardinality({}) = 0
      BY FS_EmptySet
    <3>3. Plan(D, needs, D, <<>>)
      <4>1. Len(<<>>) = Cardinality(D \ D)
        BY Zenon, <3>2, Len(<<>>) = 0
      <4>2. QED
        BY <3>2, <4>1 DEF Plan
    <3>4. QED
      BY <2>2, <2>4, <3>1, <3>3
  <2>5. CASE p # D
    <3>1. PICK i \in picks[p] : o \in Headed(i, f[p \union {i}])
      <4> HIDE DEF p
      <4>1. f[p] = UNION {Headed(i, f[p \union {i}]) : i \in picks[p]}
        BY <2>3, <2>5 DEF After
      <4>2. QED
        BY <2>2, <4>1
    <3>2. PICK s \in f[p \union {i}] : o = <<i>> \o s
      BY <3>1 DEF Headed
    <3>3. i \in D \ p /\ needs[i] \subseteq p
      BY <2>3, <3>1
    <3>4. D \ (U \ {i}) = p \union {i} /\ U \ {i} \in SUBSET D /\ U \ {i} \subseteq U /\ U \ {i} # U
      BY <2>3, <3>3
    <3>5. U \ {i} \notin Bad
      <4> HIDE DEF Bad, p
      <4>1. QED
        BY <2>1, <3>4
    <3>6. Plan(D, needs, p \union {i}, s)
      <4>1. Plan(D, needs, D \ (U \ {i}), s)
        <5>1. s \in f[D \ (U \ {i})]
          BY <3>2, <3>4
        <5> HIDE DEF p
        <5>2. QED
          BY <3>4, <3>5, <5>1
      <4>2. QED
        BY <3>4, <4>1
    <3>7. Plan(D, needs, p, <<i>> \o s)
      <4> HIDE DEF p
      <4>1. QED
        BY <2>3, <3>3, <3>6, PlanOne
    <3>8. QED
      BY <2>2, <3>2, <3>7
  <2>6. QED
    BY <2>4, <2>5
<1>2. ASSUME NEW p \in SUBSET D, NEW o \in f[p] PROVE Plan(D, needs, p, o)
  <2>1. D \ (D \ p) = p /\ D \ p \in SUBSET D /\ D \ p \notin Bad
    <3> HIDE DEF Bad
    <3>1. QED
      BY <1>1
  <2>2. QED
    BY <2>1
<1>3. QED
  BY <1>2

DistinctIds(findings) == \A i, j \in DOMAIN findings : findings[i].id = findings[j].id => i = j

\* There is one finding per failed control.
LEMMA FindingsType ==
  ASSUME NEW s
  PROVE  Findings(s) \in Seq(ControlSet) /\ DistinctIds(Findings(s))
<1>1. PICK F : Found(s, F) /\ Findings(s) = F[18]
  BY FindingsFound
<1> DEFINE Good(n) == /\ \A j \in 1 .. Len(F[n]) : \E i \in 1 .. n : F[n][j] = CONTROLS[i]
                      /\ \A j, k \in 1 .. Len(F[n]) : F[n][j].id = F[n][k].id => j = k
           Bad == {n \in Nat : n \in 0 .. 18 /\ ~Good(n)}
<1>2. ASSUME Bad # {} PROVE FALSE
  <2>1. PICK n \in Bad : \A m \in Bad : n <= m
    <3>1. Bad \in SUBSET Nat
      OBVIOUS
    <3> HIDE DEF Bad
    <3>2. QED
      BY <1>2, <3>1, SmallestNat
  <2>2. n \in 0 .. 18 /\ ~Good(n)
    OBVIOUS
  <2>3. CASE n = 0
    <3>1. Len(F[0]) = 0
      BY <1>1 DEF Found
    <3>2. QED
      BY <2>2, <2>3, <3>1
  <2>4. CASE n # 0
    <3>1. n \in 1 .. 18 /\ n - 1 \in 0 .. 18 /\ n - 1 \notin Bad
      <4> HIDE DEF Bad
      <4>1. QED
        BY <2>1, <2>2, <2>4
    <3>2. Good(n - 1)
      BY <3>1
    <3> HIDE DEF Bad
    <3> DEFINE q == F[n - 1]
               l == Len(q)
    <3>3. q \in Seq(ControlSet) /\ CONTROLS[n] \in ControlSet /\ l \in Nat
      <4>1. q \in Seq(ControlSet) /\ CONTROLS[n] \in ControlSet
        BY <1>1, <3>1, ControlsType DEF Found
      <4> HIDE DEF q
      <4>2. QED
        BY <4>1
    <3>4. F[n] = IF Failed(s, n) THEN Append(q, CONTROLS[n]) ELSE q
      BY <1>1, <3>1 DEF Found
    <3>5. \A j \in 1 .. l : \E i \in 1 .. n - 1 : q[j] = CONTROLS[i]
      BY <3>2
    <3>6. \A j, k \in 1 .. l : q[j].id = q[k].id => j = k
      BY <3>2
    <3>7. CASE ~Failed(s, n)
      <4>1. F[n] = q /\ Len(F[n]) = l
        BY <3>4, <3>7
      <4> HIDE DEF q, l
      <4>2. \A j \in 1 .. l : \E i \in 1 .. n : q[j] = CONTROLS[i]
        BY <3>1, <3>5
      <4>3. Good(n)
        BY <3>6, <4>1, <4>2
      <4>4. QED
        BY <2>2, <4>3
    <3>8. CASE Failed(s, n)
      <4> DEFINE a == Append(q, CONTROLS[n])
      <4>1. F[n] = a
        BY <3>4, <3>8
      <4>2. Len(a) = l + 1 /\ a[l + 1] = CONTROLS[n] /\ \A j \in 1 .. l : a[j] = q[j]
        BY <3>3
      <4> HIDE DEF a, q, l
      <4>3. \A j \in 1 .. l + 1 : j \in 1 .. l \/ j = l + 1
        BY <3>3
      <4>4. ASSUME NEW j \in 1 .. l + 1 PROVE \E i \in 1 .. n : a[j] = CONTROLS[i]
        <5>1. CASE j \in 1 .. l
          BY <3>1, <3>5, <4>2, <5>1
        <5>2. CASE j = l + 1
          BY <3>1, <4>2, <5>2
        <5>3. QED
          BY <4>3, <5>1, <5>2
      <4>5. \A j \in 1 .. l : a[j].id # CONTROLS[n].id
        <5> SUFFICES ASSUME NEW j \in 1 .. l, a[j].id = CONTROLS[n].id PROVE FALSE
          OBVIOUS
        <5>1. PICK i \in 1 .. n - 1 : q[j] = CONTROLS[i]
          BY <3>5
        <5>2. i \in 1 .. 18 /\ i # n
          BY <3>1
        <5>3. CONTROLS[i].id = CONTROLS[n].id
          BY <4>2, <5>1
        <5>4. QED
          BY <3>1, <5>2, <5>3, ControlsDistinct
      <4>6. ASSUME NEW j \in 1 .. l + 1, NEW k \in 1 .. l + 1, a[j].id = a[k].id PROVE j = k
        <5>1. CASE j \in 1 .. l /\ k \in 1 .. l
          BY <3>6, <4>2, <4>6, <5>1
        <5>2. CASE j \in 1 .. l /\ k = l + 1
          BY <4>2, <4>5, <4>6, <5>2
        <5>3. CASE j = l + 1 /\ k \in 1 .. l
          BY <4>2, <4>5, <4>6, <5>3
        <5>4. CASE j = l + 1 /\ k = l + 1
          BY <5>4
        <5>5. QED
          BY <4>3, <5>1, <5>2, <5>3, <5>4
      <4>7. Good(n)
        BY <4>1, <4>2, <4>4, <4>6
      <4>8. QED
        BY <2>2, <4>7
    <3>9. QED
      BY <3>7, <3>8
  <2>5. QED
    BY <2>3, <2>4
<1>3. Good(18)
  <2>1. 18 \notin Bad
    <3> HIDE DEF Bad
    <3>1. QED
      BY <1>2
  <2> HIDE DEF Good
  <2>2. QED
    BY <2>1, 18 \in Nat
<1>4. F[18] \in Seq(ControlSet) /\ DOMAIN F[18] = 1 .. Len(F[18])
  BY <1>1 DEF Found
<1>5. DistinctIds(F[18])
  BY <1>3, <1>4 DEF DistinctIds
<1>6. QED
  BY <1>1, <1>4, <1>5

\* What each position waits for, and what a strategy may place next.
Needs(findings) ==
  [i \in DOMAIN findings |-> {j \in DOMAIN findings : findings[j].id \in DependsOn(findings, findings[i].id)}]
Picks(strategy, findings) ==
  [p \in SUBSET DOMAIN findings |-> Narrow(findings, Pick(strategy, findings, Candidates(findings, p)))]

LEMMA PicksWait ==
  ASSUME NEW findings, DistinctIds(findings), NEW strategy \in Strategies, NEW p \in SUBSET DOMAIN findings
  PROVE  Picks(strategy, findings)[p] \subseteq {i \in DOMAIN findings \ p : Needs(findings)[i] \subseteq p}
<1> DEFINE C == Candidates(findings, p)
<1>1. \A X : BestRatio(findings, X) \subseteq X /\ MostSevere(findings, X) \subseteq X
  BY DEF BestRatio, MostSevere
<1>2. \A X : Narrow(findings, X) \subseteq X
  BY <1>1 DEF Narrow
<1>3. Pick(strategy, findings, C) \subseteq C
  <2> HIDE DEF C
  <2>1. QED
    BY <1>1 DEF Pick, Strategies
<1>4. Picks(strategy, findings)[p] \subseteq C
  <2>1. Picks(strategy, findings)[p] = Narrow(findings, Pick(strategy, findings, C))
    BY DEF Picks
  <2> HIDE DEF C
  <2>2. QED
    BY <1>2, <1>3, <2>1
<1>5. ASSUME NEW i \in C PROVE i \in DOMAIN findings \ p /\ Needs(findings)[i] \subseteq p
  <2>1. i \in DOMAIN findings \ p
    BY DEF Candidates
  <2>2. DependsOn(findings, findings[i].id) \subseteq {findings[j].id : j \in p}
    BY DEF Candidates
  <2>3. ASSUME NEW j \in Needs(findings)[i] PROVE j \in p
    <3>1. j \in DOMAIN findings /\ findings[j].id \in DependsOn(findings, findings[i].id)
      BY <2>1, <2>3 DEF Needs
    <3>2. PICK k \in p : findings[k].id = findings[j].id
      BY <2>2, <3>1
    <3>3. QED
      BY <3>1, <3>2 DEF DistinctIds
  <2>4. QED
    BY <2>1, <2>3
<1> HIDE DEF C
<1>6. QED
  BY <1>4, <1>5

\* The recursion of the orders.
Rest(strategy, findings, f) ==
  f = [placed \in SUBSET DOMAIN findings |->
         IF placed = DOMAIN findings THEN {<<>>}
         ELSE UNION {{<<i>> \o s : s \in f[placed \union {i}]}
                     : i \in Narrow(findings, Pick(strategy, findings, Candidates(findings, placed)))}]

LEMMA OrdersPlan ==
  ASSUME NEW findings \in Seq(ControlSet), DistinctIds(findings), NEW strategy \in Strategies,
         NEW o \in Orders(strategy, findings)
  PROVE  Plan(DOMAIN findings, Needs(findings), {}, o)
<1> DEFINE D == DOMAIN findings
           picks == Picks(strategy, findings)
           needs == Needs(findings)
           f == CHOOSE f : Rest(strategy, findings, f)
<1>1. IsFiniteSet(D)
  <2>1. D = 1 .. Len(findings) /\ Len(findings) \in Nat
    OBVIOUS
  <2>2. QED
    BY <2>1, RangeFinite
<1>2. \A p \in SUBSET D : picks[p] \subseteq {i \in D \ p : needs[i] \subseteq p}
  BY PicksWait
<1>3. \A g : Rest(strategy, findings, g) <=> AllAfter(D, picks, g)
  <2> TAKE g
  <2>1. ASSUME NEW p \in SUBSET D
        PROVE  After(D, picks, g, p)
                 = IF p = DOMAIN findings THEN {<<>>}
                   ELSE UNION {{<<i>> \o s : s \in g[p \union {i}]}
                               : i \in Narrow(findings, Pick(strategy, findings, Candidates(findings, p)))}
    <3>1. picks[p] = Narrow(findings, Pick(strategy, findings, Candidates(findings, p)))
      BY DEF Picks
    <3> HIDE DEF picks
    <3>2. QED
      BY Zenon, <3>1 DEF After, Headed
  <2>2. [p \in SUBSET D |-> After(D, picks, g, p)]
          = [p \in SUBSET D |->
               IF p = DOMAIN findings THEN {<<>>}
               ELSE UNION {{<<i>> \o s : s \in g[p \union {i}]}
                           : i \in Narrow(findings, Pick(strategy, findings, Candidates(findings, p)))}]
    <3> HIDE DEF D, picks
    <3>1. QED
      BY Zenon, <2>1
  <2> HIDE DEF picks
  <2>3. QED
    BY Zenon, <2>2 DEF Rest, AllAfter
<1>4. \E g : Rest(strategy, findings, g)
  <2>1. \A p \in SUBSET D : picks[p] \subseteq D \ p
    BY <1>2
  <2> HIDE DEF D, picks
  <2>2. \E g : AllAfter(D, picks, g)
    BY <1>1, <2>1, RestExists
  <2>3. QED
    BY <1>3, <2>2
<1>5. AllAfter(D, picks, f)
  <2>1. Rest(strategy, findings, f)
    BY <1>4
  <2> HIDE DEF f, D, picks
  <2>2. QED
    BY <1>3, <2>1
<1>6. o \in f[{}]
  BY DEF Orders, Rest
<1> HIDE DEF f
<1>7. \A p \in SUBSET D : f[p] = After(D, picks, f, p)
  BY <1>5 DEF AllAfter
<1>8. \A p \in SUBSET D : \A q \in f[p] : Plan(D, needs, p, q)
  <2> HIDE DEF D, picks, needs
  <2>1. QED
    BY <1>1, <1>2, <1>7, PlansOf
<1>9. QED
  BY <1>6, <1>8

\* What PlansAreSound says of one order.
Sound(findings, o) ==
  /\ ToSet(o) = DOMAIN findings /\ Len(o) = Len(findings)
  /\ \A i, j \in DOMAIN findings :
       findings[i].id \in DependsOn(findings, findings[j].id) =>
         \E m, n \in DOMAIN o : o[m] = i /\ o[n] = j /\ m < n

LEMMA PlanSound ==
  ASSUME NEW findings \in Seq(ControlSet), NEW o, Plan(DOMAIN findings, Needs(findings), {}, o)
  PROVE  /\ Sound(findings, o) /\ o \in Seq(DOMAIN findings)
         /\ \A m, n \in 1 .. Len(o) : o[m] = o[n] => m = n
<1> DEFINE D == DOMAIN findings
<1>1. D = 1 .. Len(findings) /\ Len(findings) \in Nat /\ D \ {} = D
  OBVIOUS
<1>2. o \in Seq(D) /\ Len(o) = Cardinality(D)
  BY <1>1 DEF Plan
<1>3. Cardinality(D) = Len(findings)
  <2>1. Cardinality(1 .. Len(findings)) = IF 1 > Len(findings) THEN 0 ELSE Len(findings) - 1 + 1
    BY <1>1, FS_Interval
  <2>2. QED
    BY <1>1, <2>1
<1>4. DOMAIN o = 1 .. Len(o) /\ \A n \in 1 .. Len(o) : o[n] \in D
  BY <1>2
<1>5. ToSet(o) = D
  <2>1. \A x \in D : \E n \in 1 .. Len(o) : o[n] = x
    BY <1>1 DEF Plan
  <2> HIDE DEF D
  <2>2. QED
    BY <1>4, <2>1 DEF ToSet
<1>6. ASSUME NEW i \in D, NEW j \in D, findings[i].id \in DependsOn(findings, findings[j].id)
      PROVE  \E m, n \in DOMAIN o : o[m] = i /\ o[n] = j /\ m < n
  <2>1. i \in Needs(findings)[j]
    BY <1>6 DEF Needs
  <2>2. PICK n \in 1 .. Len(o) : o[n] = j
    BY DEF Plan
  <2>3. PICK m \in 1 .. Len(o) : o[m] = i /\ m < n
    BY <2>1, <2>2 DEF Plan
  <2>4. QED
    BY <1>4, <2>2, <2>3
<1>7. QED
  BY <1>2, <1>3, <1>5, <1>6 DEF Sound, Plan

-----------------------------------------------------------------------------
(* Budgets                                                                 *)

\* What a run says of one strategy.
Residual(findings, done) == SumWeights(findings) - Total(Reductions(findings), done)

\* A plan never repeats a finding.
Order(findings, o) ==
  o \in Seq(DOMAIN findings) /\ \A m, n \in 1 .. Len(o) : o[m] = o[n] => m = n

\* How much of an order a budget completes.
Done(o, budget) == IF budget > Len(o) THEN Len(o) ELSE budget

LEMMA SliceOf ==
  ASSUME NEW findings \in Seq(ControlSet), NEW o, Order(findings, o), NEW budget \in Nat
  PROVE  LET done == Slice(o, budget)
         IN  /\ done = SubSeq(o, 1, Done(o, budget)) /\ Done(o, budget) \in 0 .. Len(o)
             /\ done \in Seq(DOMAIN findings) /\ Len(done) = Done(o, budget)
             /\ \A i \in 1 .. Done(o, budget) : done[i] = o[i]
<1> DEFINE done == Slice(o, budget)
           k == Done(o, budget)
<1>1. o \in Seq(DOMAIN findings) /\ Len(o) \in Nat /\ \A i \in 1 .. Len(o) : o[i] \in DOMAIN findings
  BY DEF Order
<1>2. k \in Nat /\ k <= Len(o)
  BY <1>1 DEF Done
<1>3. done = SubSeq(o, 1, k)
  BY <1>1 DEF Slice, Done
<1> HIDE DEF k
<1>4. /\ SubSeq(o, 1, k) \in Seq(DOMAIN findings)
      /\ Len(SubSeq(o, 1, k)) = IF 1 <= k THEN k - 1 + 1 ELSE 0
      /\ \A i \in 1 .. k - 1 + 1 : SubSeq(o, 1, k)[i] = o[1 + i - 1]
  BY <1>1, <1>2, SubSeqProperties
<1>5. Len(SubSeq(o, 1, k)) = k /\ \A i \in 1 .. k : SubSeq(o, 1, k)[i] = o[i]
  BY <1>2, <1>4
<1>6. QED
  BY <1>2, <1>3, <1>4, <1>5 DEF k

LEMMA ReductionsAre ==
  ASSUME NEW findings \in Seq(ControlSet)
  PROVE  /\ IsFiniteSet(DOMAIN findings) /\ \A i \in DOMAIN findings : Reductions(findings)[i] \in Nat
         /\ SumWeights(findings) = SumFunctionOnSet(Reductions(findings), DOMAIN findings)
<1>1. DOMAIN findings = 1 .. Len(findings) /\ Len(findings) \in Nat
  OBVIOUS
<1>2. \A i \in DOMAIN findings : Reductions(findings)[i] = WeightsOf(findings)[i]
  BY DEF Reductions, RiskReduction, WeightsOf
<1>3. \A i \in DOMAIN findings : WeightsOf(findings)[i] \in Nat
  BY <1>1, WeightsType
<1>4. IsFiniteSet(DOMAIN findings)
  BY <1>1, RangeFinite
<1>5. SumFunctionOnSet(Reductions(findings), DOMAIN findings) = SumFunctionOnSet(WeightsOf(findings), DOMAIN findings)
  BY <1>2, <1>3, <1>4, SumSame
<1>6. SumWeights(findings) = SumFunctionOnSet(WeightsOf(findings), DOMAIN findings)
  BY <1>1, WeightsType
<1>7. QED
  BY <1>2, <1>3, <1>4, <1>5, <1>6

LEMMA TotalDone ==
  ASSUME NEW findings \in Seq(ControlSet), NEW o, Order(findings, o), NEW budget \in Nat
  PROVE  /\ Placed(o, Done(o, budget)) \subseteq DOMAIN findings
         /\ Total(Reductions(findings), Slice(o, budget))
              = SumFunctionOnSet(Reductions(findings), Placed(o, Done(o, budget)))
<1> DEFINE k == Done(o, budget)
           done == Slice(o, budget)
           w == Reductions(findings)
<1>1. done \in Seq(DOMAIN findings) /\ Len(done) = k /\ k \in 0 .. Len(o) /\ \A i \in 1 .. k : done[i] = o[i]
  BY SliceOf
<1>2. Len(o) \in Nat /\ (\A i \in 1 .. Len(o) : o[i] \in DOMAIN findings)
        /\ \A m, n \in 1 .. Len(o) : o[m] = o[n] => m = n
  BY DEF Order
<1> HIDE DEF k, done
<1>3. k \in Nat /\ \A i \in 1 .. k : i \in 1 .. Len(o)
  BY <1>1, <1>2
<1>4. Placed(o, k) \subseteq DOMAIN findings
  BY <1>2, <1>3 DEF Placed
<1>5. DOMAIN done = 1 .. k
  BY <1>1
<1>6. Total(w, done) = SumFunctionOnSet(Along(w, o, k), 1 .. k)
  <2>1. [i \in DOMAIN done |-> w[done[i]]] = [i \in 1 .. k |-> w[o[i]]]
    <3> HIDE DEF w
    <3>1. QED
      BY <1>1, <1>5
  <2>2. DOMAIN [i \in 1 .. k |-> w[o[i]]] = 1 .. k
    OBVIOUS
  <2> DEFINE f == [i \in DOMAIN done |-> w[done[i]]]
             h == [i \in 1 .. k |-> w[o[i]]]
  <2>3. f = h /\ DOMAIN h = 1 .. k
    BY <2>1, <2>2
  <2>4. Total(w, done) = SumFunctionOnSet(f, DOMAIN f)
    BY DEF Total, SumFunction
  <2> HIDE DEF f, h
  <2>5. Total(w, done) = SumFunctionOnSet(h, 1 .. k)
    BY <2>3, <2>4
  <2>6. QED
    BY <2>5, Zenon DEF h, Along
<1>7. \A i \in 1 .. k : w[o[i]] \in Nat
  <2>1. \A x \in DOMAIN findings : w[x] \in Nat
    BY ReductionsAre
  <2> HIDE DEF w
  <2>2. QED
    BY <1>2, <1>3, <2>1
<1>8. \A i, j \in 1 .. k : o[i] = o[j] => i = j
  BY <1>2, <1>3
<1> HIDE DEF w
<1>9. SumFunctionOnSet(Along(w, o, k), 1 .. k) = SumFunctionOnSet(w, Placed(o, k))
  BY <1>3, <1>7, <1>8, SumAlong
<1>10. QED
  BY <1>4, <1>6, <1>9 DEF k, done, w

\* A larger budget completes more of the same order, and leaves no more risk, nor less than none.
LEMMA BudgetSound ==
  ASSUME NEW findings \in Seq(ControlSet), NEW o, Order(findings, o),
         NEW b \in Nat, NEW c \in Nat, b <= c
  PROVE  /\ IsPrefix(Slice(o, b), Slice(o, c))
         /\ 0 <= Residual(findings, Slice(o, c))
         /\ Residual(findings, Slice(o, c)) <= Residual(findings, Slice(o, b))
<1> DEFINE s == Slice(o, b)  t == Slice(o, c)
           k == Done(o, b)   l == Done(o, c)
           D == DOMAIN findings
           w == Reductions(findings)
<1>1. s \in Seq(D) /\ Len(s) = k /\ k \in 0 .. Len(o) /\ \A i \in 1 .. k : s[i] = o[i]
  BY SliceOf
<1>2. t \in Seq(D) /\ Len(t) = l /\ l \in 0 .. Len(o) /\ \A i \in 1 .. l : t[i] = o[i]
  BY SliceOf
<1>3. Len(o) \in Nat
  BY DEF Order
<1>4. k <= l
  BY <1>3 DEF Done
<1>5. Placed(o, k) \subseteq D /\ Total(w, s) = SumFunctionOnSet(w, Placed(o, k))
  BY TotalDone
<1>6. Placed(o, l) \subseteq D /\ Total(w, t) = SumFunctionOnSet(w, Placed(o, l))
  BY TotalDone
<1>7. IsFiniteSet(D) /\ (\A i \in D : w[i] \in Nat) /\ SumWeights(findings) = SumFunctionOnSet(w, D)
  BY ReductionsAre
<1>8. Residual(findings, s) = SumWeights(findings) - Total(w, s) /\ Residual(findings, t) = SumWeights(findings) - Total(w, t)
  BY DEF Residual
<1> HIDE DEF s, t, k, l, w, D
<1>9. k \in Nat /\ l \in Nat
  BY <1>1, <1>2, <1>3
<1>10. IsPrefix(s, t)
  <2> DEFINE u == SubSeq(t, 1, k)
             v == SubSeq(s, 1, k)
  <2>1. (\A i \in 1 .. k : s[i] \in D) /\ \A i \in 1 .. k : t[i] \in D
    BY <1>1, <1>2, <1>4, <1>9
  <2>2. /\ u \in Seq(D) /\ Len(u) = IF 1 <= k THEN k - 1 + 1 ELSE 0
        /\ \A i \in 1 .. k - 1 + 1 : u[i] = t[1 + i - 1]
    BY <1>9, <2>1, SubSeqProperties
  <2>3. /\ v \in Seq(D) /\ Len(v) = IF 1 <= k THEN k - 1 + 1 ELSE 0
        /\ \A i \in 1 .. k - 1 + 1 : v[i] = s[1 + i - 1]
    BY <1>9, <2>1, SubSeqProperties
  <2> HIDE DEF u, v
  <2>4. Len(u) = k /\ Len(v) = k
    BY <1>9, <2>2, <2>3
  <2>5. ASSUME NEW i \in 1 .. k PROVE v[i] = u[i]
    <3>1. i \in 1 .. k - 1 + 1 /\ 1 + i - 1 = i /\ i \in 1 .. l
      BY <1>4, <1>9
    <3>2. u[i] = t[i] /\ v[i] = s[i]
      BY <2>2, <2>3, <3>1
    <3>3. QED
      BY <1>1, <1>2, <3>1, <3>2
  <2>6. v = u
    BY <2>2, <2>3, <2>4, <2>5, SeqEqual
  <2>7. QED
    BY <1>1, <1>2, <1>4, <2>6 DEF IsPrefix, u, v
<1>11. Placed(o, k) \subseteq Placed(o, l)
  <2>1. \A i \in 1 .. k : i \in 1 .. l
    BY <1>4, <1>9
  <2>2. QED
    BY <2>1 DEF Placed
<1> DEFINE P == Placed(o, k)  Q == Placed(o, l)
<1> HIDE DEF P, Q
<1>12. P \subseteq Q /\ Q \subseteq D /\ Total(w, s) = SumFunctionOnSet(w, P) /\ Total(w, t) = SumFunctionOnSet(w, Q)
  BY <1>5, <1>6, <1>11 DEF P, Q
<1>13. IsFiniteSet(Q) /\ IsFiniteSet(P)
  BY <1>7, <1>12, FS_Subset
<1>14. SumFunctionOnSet(w, P) <= SumFunctionOnSet(w, Q)
  <2>1. \A x \in Q : w[x] \in Nat
    BY <1>7, <1>12
  <2>2. QED
    BY <1>12, <1>13, <2>1, SumSubset
<1>15. SumFunctionOnSet(w, Q) <= SumFunctionOnSet(w, D)
  BY <1>7, <1>12, SumSubset
<1>16. SumFunctionOnSet(w, P) \in Nat /\ SumFunctionOnSet(w, Q) \in Nat /\ SumFunctionOnSet(w, D) \in Nat
  <2>1. (\A x \in Q : w[x] \in Nat) /\ \A x \in P : w[x] \in Nat
    BY <1>7, <1>12
  <2>2. QED
    BY <1>7, <1>13, <2>1, SumNat
<1>17. /\ 0 <= Residual(findings, t) /\ Residual(findings, t) <= Residual(findings, s)
  BY <1>7, <1>8, <1>12, <1>14, <1>15, <1>16
<1>18. QED
  BY <1>10, <1>17 DEF s, t

-----------------------------------------------------------------------------
(* The orders and the runs of a scan                                       *)

\* Each strategy has settled on a plan for the findings.
Settled(findings, o) ==
  \A s \in Strategies : Plan(DOMAIN findings, Needs(findings), {}, o[s])

\* A run measures the settled orders: the paths may have come later, the orders may not.
Measures(findings, o, r) ==
  /\ r.budget \in Int
  /\ \A s \in Strategies :
       /\ r.strategies[s].completed = Slice(o[s], r.budget)
       /\ r.strategies[s].residual_risk = Residual(findings, Slice(o[s], r.budget))

Unscanned == {"uploaded", "asked", "failed", "parsed"}

PlanInv ==
  /\ stage \in Unscanned => status = None /\ orders = None /\ runs = {}
  /\ orders # None => Settled(Findings(status), orders)
  /\ \A r \in runs : orders # None /\ Measures(Findings(status), orders, r)

LEMMA RunMeasures ==
  ASSUME NEW o, NEW budget \in Int
  PROVE  Measures(Findings(status), o, Run(o, budget))
<1>1. \A findings, paths, seq : /\ Evaluated(findings, paths, seq, budget).completed = Slice(seq, budget)
                                /\ Evaluated(findings, paths, seq, budget).residual_risk
                                     = Residual(findings, Slice(seq, budget))
  BY DEF Evaluated, Residual
<1>2. /\ Run(o, budget).budget = budget
      /\ \A s \in Strategies : Run(o, budget).strategies[s] = Evaluated(Findings(status), Paths, o[s], budget)
  BY DEF Run
<1>3. QED
  BY <1>1, <1>2 DEF Measures

LEMMA OrdersSettled ==
  ASSUME NEW s,
         NEW severity \in Orders("severity_only", Findings(s)),
         NEW greedy \in Orders("greedy_risk", Findings(s)),
         NEW ants \in Orders("aco", Findings(s))
  PROVE  LET o == [severity_only |-> severity, greedy_risk |-> greedy, aco |-> ants]
         IN  o # None /\ Settled(Findings(s), o)
<1> DEFINE o == [severity_only |-> severity, greedy_risk |-> greedy, aco |-> ants]
           findings == Findings(s)
<1>1. findings \in Seq(ControlSet) /\ DistinctIds(findings)
  BY FindingsType
<1>2. o["severity_only"] = severity /\ o["greedy_risk"] = greedy /\ o["aco"] = ants
  OBVIOUS
<1> HIDE DEF findings
<1>3. \A t \in Strategies : \A p \in Orders(t, findings) : Plan(DOMAIN findings, Needs(findings), {}, p)
  BY <1>1, OrdersPlan
<1>4. Settled(findings, o)
  <2> HIDE DEF o
  <2>1. \A t \in Strategies : o[t] \in Orders(t, findings)
    BY <1>2 DEF Strategies, findings
  <2>2. QED
    BY <1>3, <2>1 DEF Settled
<1>5. o # None
  <2>1. DOMAIN findings \ {} \subseteq Nat
    BY <1>1
  <2>2. \A t \in Strategies : o[t] \in Orders(t, findings)
    <3> HIDE DEF o
    <3>1. QED
      BY <1>2 DEF Strategies, findings
  <2>3. \A t \in Strategies : o[t] \in Seq(DOMAIN findings \ {})
    <3> HIDE DEF o
    <3>1. QED
      BY <1>3, <2>2 DEF Plan
  <2>4. Seq(DOMAIN findings \ {}) \subseteq Seq(Nat)
    BY <2>1, SeqMonotonic
  <2>5. o \in [Strategies -> Seq(Nat)]
    <3>1. DOMAIN o = Strategies /\ o = [t \in DOMAIN o |-> o[t]]
      BY DEF Strategies
    <3> HIDE DEF o
    <3>2. QED
      BY <2>3, <2>4, <3>1
  <2>6. QED
    BY <2>5, AnalysisAssumption
<1>6. QED
  BY <1>4, <1>5 DEF findings

LEMMA CompareStep ==
  ASSUME PlanInv, stage \notin Unscanned, NEW budget \in Int, Compare(budget), status' = status,
         stage' = stage \/ stage' = "completed"
  PROVE  PlanInv'
<1>1. orders' # None /\ Settled(Findings(status), orders') /\ (orders # None => orders' = orders)
  <2>1. CASE orders # None
    BY <2>1 DEF Compare, PlanInv
  <2>2. CASE orders = None
    BY <2>2, OrdersSettled DEF Compare
  <2>3. QED
    BY <2>1, <2>2
<1>2. runs' = runs \union {Run(orders', budget)}
  BY DEF Compare
<1>3. Measures(Findings(status), orders', Run(orders', budget))
  <2>1. \A o : Measures(Findings(status), o, Run(o, budget))
    BY RunMeasures
  <2>2. QED
    BY <2>1
<1>4. \A r \in runs' : Measures(Findings(status), orders', r)
  BY <1>1, <1>2, <1>3 DEF PlanInv
<1>5. Findings(status') = Findings(status)
  OBVIOUS
<1>6. stage' \notin Unscanned
  BY DEF Unscanned
<1>7. QED
  BY <1>1, <1>4, <1>5, <1>6 DEF PlanInv

LEMMA PlanSteps == PlanInv /\ [Next]_vars => PlanInv'
<1> SUFFICES ASSUME PlanInv, [Next]_vars PROVE PlanInv'
  OBVIOUS
<1>1. CASE DetectVendor
  BY <1>1 DEF DetectVendor, ParseAs, PlanInv, Unscanned
<1>2. CASE ConfirmVendor
  BY <1>2 DEF ConfirmVendor, ParseAs, PlanInv, Unscanned
<1>3. CASE AnalyseCompliance
  BY <1>3 DEF AnalyseCompliance, PlanInv, Unscanned
<1>4. CASE AnalyseRisk
  BY <1>4 DEF AnalyseRisk, PlanInv, Unscanned
<1>5. CASE BuildAttackGraph
  BY <1>5 DEF BuildAttackGraph, PlanInv, Unscanned
<1>6. CASE Optimise
  <2>1. CASE Findings(status) = <<>>
    BY <1>6, <2>1 DEF Optimise, PlanInv, Unscanned
  <2>2. CASE Findings(status) # <<>>
    <3>1. DefaultBudget(Findings(status)) \in Int
      <4>1. Len(Findings(status)) \in Nat
        BY FindingsType
      <4>2. QED
        BY <4>1 DEF DefaultBudget
    <3>2. QED
      BY <1>6, <2>2, <3>1, CompareStep DEF Optimise, Unscanned
  <2>3. QED
    BY <2>1, <2>2
<1>7. ASSUME NEW b \in Budgets, RunOptimizer(b) PROVE PlanInv'
  BY <1>7, AnalysisAssumption, CompareStep DEF RunOptimizer, PlanInv
<1>8. CASE UNCHANGED vars
  BY <1>8 DEF vars, PlanInv
<1>9. QED
  BY <1>1, <1>2, <1>3, <1>4, <1>5, <1>6, <1>7, <1>8 DEF Next

LEMMA PlansInvariant == Spec => []PlanInv
<1>1. Init => PlanInv
  BY DEF Init, PlanInv
<1>2. QED
  BY <1>1, PlanSteps, PTL DEF Spec

LEMMA SettledSound ==
  ASSUME PlanInv, orders # None, NEW s \in Strategies
  PROVE  Sound(Findings(status), orders[s]) /\ Order(Findings(status), orders[s])
<1>1. Plan(DOMAIN Findings(status), Needs(Findings(status)), {}, orders[s])
  BY DEF PlanInv, Settled
<1>2. Findings(status) \in Seq(ControlSet)
  BY FindingsType
<1>3. QED
  BY <1>1, <1>2, PlanSound DEF Order

LEMMA RunsSound ==
  ASSUME PlanInv, NEW r \in runs, NEW q \in runs, 0 <= r.budget, r.budget <= q.budget, NEW s \in Strategies
  PROVE  /\ IsPrefix(r.strategies[s].completed, q.strategies[s].completed)
         /\ 0 <= q.strategies[s].residual_risk
         /\ q.strategies[s].residual_risk <= r.strategies[s].residual_risk
<1> DEFINE findings == Findings(status)
           o == orders[s]
           b == r.budget
           c == q.budget
<1>1. /\ orders # None /\ b \in Int /\ c \in Int
      /\ r.strategies[s].completed = Slice(o, b) /\ q.strategies[s].completed = Slice(o, c)
      /\ r.strategies[s].residual_risk = Residual(findings, Slice(o, b))
      /\ q.strategies[s].residual_risk = Residual(findings, Slice(o, c))
  BY DEF PlanInv, Measures
<1>2. findings \in Seq(ControlSet) /\ Order(findings, o)
  BY <1>1, FindingsType, SettledSound
<1>3. b \in Nat /\ c \in Nat /\ b <= c
  BY <1>1
<1> HIDE DEF findings, o, b, c
<1>4. /\ IsPrefix(Slice(o, b), Slice(o, c))
      /\ 0 <= Residual(findings, Slice(o, c))
      /\ Residual(findings, Slice(o, c)) <= Residual(findings, Slice(o, b))
  BY <1>2, <1>3, BudgetSound
<1>5. QED
  BY <1>1, <1>4

\* Whatever the findings, the ants and the budgets, every strategy settles on an order
\* of all the findings that remediates a root cause before what depends on it, and
\* a client that asks for a larger budget gets the smaller one's work and more of it.
THEOREM PlansAlwaysSound == Spec => []PlansAreSound
<1>1. PlanInv => PlansAreSound
  <2> SUFFICES ASSUME PlanInv PROVE PlansAreSound
    OBVIOUS
  <2>1. \A s \in Strategies : orders # None => Sound(Findings(status), orders[s])
    BY SettledSound
  <2>2. QED
    BY <2>1, RunsSound DEF PlansAreSound, Sound
<1>2. QED
  BY <1>1, PlansInvariant, PTL

-----------------------------------------------------------------------------
(* The two formats of PAN-OS                                               *)

LEMMA TextIs ==
  ASSUME NEW t, Block(t)
  PROVE  /\ Len(t) \in Nat /\ DOMAIN t = 1 .. Len(t)
         /\ \A i \in DOMAIN t : t[i] \in ToSet(t) /\ Captured(t[i])
<1>1. t \in Seq(ToSet(t))
  BY DEF Block
<1>2. \A i \in DOMAIN t : t[i] \in ToSet(t)
  BY DEF ToSet
<1>3. QED
  BY <1>1, <1>2, LenProperties DEF Block

\* A search of the XML looks at one statement for each of the file.
LEMMA EverywhereIs ==
  ASSUME NEW t, Block(t)
  PROVE  /\ Block(Everywhere(t)) /\ Len(Everywhere(t)) = Len(t)
         /\ \A i \in 1 .. Len(t) :
              Everywhere(t)[i] = IF t[i].cmd = "set template" THEN t[i].val ELSE t[i]
<1> DEFINE e == Everywhere(t)
           n == Len(t)
<1>1. n \in Nat /\ DOMAIN t = 1 .. n
  BY TextIs
<1>2. /\ e = [i \in 1 .. n |-> IF t[i].cmd = "set template" THEN t[i].val ELSE t[i]]
      /\ DOMAIN e = 1 .. n
  BY <1>1 DEF Everywhere
<1>3. \A i \in 1 .. n : Captured(e[i])
  <2>1. ASSUME NEW i \in 1 .. n PROVE Captured(e[i])
    <3>1. Captured(t[i])
      BY <1>1, TextIs
    <3>2. e[i] = IF t[i].cmd = "set template" THEN t[i].val ELSE t[i]
      BY <1>2
    <3> HIDE DEF e, n
    <3>3. CASE t[i].cmd = "set template"
      BY <3>1, <3>2, <3>3 DEF Captured
    <3>4. CASE t[i].cmd # "set template"
      BY <3>1, <3>2, <3>4
    <3>5. QED
      BY <3>3, <3>4
  <2>2. QED
    BY <2>1
<1>4. ToSet(e) = {e[i] : i \in 1 .. n}
  BY <1>2 DEF ToSet
<1>5. e \in Seq(ToSet(e)) /\ Len(e) = n
  <2> HIDE DEF n
  <2>1. e \in [1 .. n -> ToSet(e)]
    BY <1>2, <1>4
  <2> HIDE DEF e
  <2>2. QED
    BY <1>1, <2>1
<1>6. QED
  BY <1>2, <1>3, <1>4, <1>5 DEF Block

\* What the first of some positions of a text has, or None.
ValueAt(t, I) == IF I = {} THEN None ELSE t[Min(I)].val
PlacesOf(t, cmd) == {i \in 1 .. Len(t) : t[i].cmd = cmd}
Lengths(t) == {i \in 1 .. Len(t) : t[i].cmd \in {"set shared minimum-length", "set mgt-config minimum-length"}}
DigitsOf(t, cmd) == {i \in 1 .. Len(t) : t[i].cmd = cmd /\ t[i].val # None}

LEMMA LeastPlace ==
  ASSUME NEW t, Block(t), NEW I \in SUBSET (1 .. Len(t)), I # {}
  PROVE  Min(I) \in I /\ Min(I) # 0
<1>1. Len(t) \in Nat
  BY TextIs
<1>2. QED
  BY <1>1, MinIn

LEMMA FirstFound ==
  ASSUME NEW t, Block(t), NEW I \in SUBSET (1 .. Len(t)),
         NEW found, found = IF I # {} THEN Min(I) ELSE 0
  PROVE  /\ ValueAt(t, I) = IF found = 0 THEN None ELSE t[found].val
         /\ found # 0 <=> I # {}
<1>1. I # {} => Min(I) \in I /\ Min(I) # 0
  BY LeastPlace
<1>2. QED
  BY <1>1 DEF ValueAt

LEMMA FirstAt ==
  ASSUME NEW t, Block(t), NEW cmd
  PROVE  First(t, cmd) = ValueAt(t, PlacesOf(t, cmd)) /\ FirstDigits(t, cmd) = ValueAt(t, DigitsOf(t, cmd))
<1> DEFINE I == PlacesOf(t, cmd)
           J == DigitsOf(t, cmd)
           i == IF I # {} THEN Min(I) ELSE 0
           j == IF J # {} THEN Min(J) ELSE 0
<1>1. Find(t, cmd) = i
  BY DEF Find, SelectInSeq, PlacesOf
<1>2. FirstDigits(t, cmd) = IF j = 0 THEN None ELSE t[j].val
  BY DEF FirstDigits, ReadAt, SelectInSeq, DigitsOf
<1>3. Has(t, cmd) <=> I # {}
  BY TextIs DEF Has, PlacesOf
<1>4. I \in SUBSET (1 .. Len(t)) /\ J \in SUBSET (1 .. Len(t))
  BY DEF PlacesOf, DigitsOf
<1>5. First(t, cmd) = IF I # {} THEN t[i].val ELSE None
  BY <1>1, <1>3 DEF First
<1> HIDE DEF I, J
<1>6. ValueAt(t, J) = IF j = 0 THEN None ELSE t[j].val
  BY <1>4, FirstFound
<1>7. ValueAt(t, I) = IF I # {} THEN t[i].val ELSE None
  BY DEF ValueAt
<1>8. QED
  BY <1>2, <1>5, <1>6, <1>7 DEF I, J

LEMMA LengthAt == ASSUME NEW t, Block(t) PROVE XmlReads(t).minLength = ValueAt(Everywhere(t), Lengths(Everywhere(t)))
<1> DEFINE x == Everywhere(t)
           I == Lengths(x)
           i == IF I # {} THEN Min(I) ELSE 0
<1>1. XmlReads(t).minLength = IF i = 0 THEN None ELSE x[i].val
  BY DEF XmlReads, ReadAt, SelectInSeq, Lengths
<1>2. Block(x) /\ I \in SUBSET (1 .. Len(x))
  BY EverywhereIs DEF Lengths
<1> HIDE DEF I, x
<1>3. ValueAt(x, I) = IF i = 0 THEN None ELSE x[i].val
  BY <1>2, FirstFound
<1>4. QED
  BY <1>1, <1>3 DEF I, x

\* A command that no template wraps is read alike by a search of the XML.
LEMMA SameReading ==
  ASSUME NEW t, Block(t), NEW cmd, cmd # "set template", cmd \notin InTemplates(t)
  PROVE  /\ \A i \in 1 .. Len(t) : /\ Everywhere(t)[i].cmd = cmd <=> t[i].cmd = cmd
                                   /\ t[i].cmd = cmd => Everywhere(t)[i] = t[i]
         /\ Values(Everywhere(t), cmd) = Values(t, cmd) /\ (Has(Everywhere(t), cmd) <=> Has(t, cmd))
         /\ PlacesOf(Everywhere(t), cmd) = PlacesOf(t, cmd) /\ First(Everywhere(t), cmd) = First(t, cmd)
<1> DEFINE x == Everywhere(t)
           n == Len(t)
<1>1. /\ Block(x) /\ Len(x) = n /\ n \in Nat /\ DOMAIN t = 1 .. n /\ DOMAIN x = 1 .. n
      /\ \A i \in 1 .. n : x[i] = IF t[i].cmd = "set template" THEN t[i].val ELSE t[i]
  BY EverywhereIs, TextIs
<1>2. \A i \in 1 .. n : t[i].cmd = "set template" => t[i].val.cmd # cmd
  <2>1. ASSUME NEW i \in 1 .. n, t[i].cmd = "set template" PROVE t[i].val.cmd \in InTemplates(t)
    BY <1>1, <2>1, TextIs DEF InTemplates
  <2>2. QED
    BY <2>1
<1> HIDE DEF x, n
<1>3. \A i \in 1 .. n : (x[i].cmd = cmd <=> t[i].cmd = cmd) /\ (t[i].cmd = cmd => x[i] = t[i])
  BY <1>1, <1>2
<1>4. Values(x, cmd) = Values(t, cmd)
  BY <1>1, <1>3 DEF Values
<1>5. Has(x, cmd) <=> Has(t, cmd)
  BY <1>1, <1>3 DEF Has
<1>6. PlacesOf(x, cmd) = PlacesOf(t, cmd)
  BY <1>1, <1>3 DEF PlacesOf, n
<1>7. First(x, cmd) = First(t, cmd)
  <2>1. PlacesOf(t, cmd) # {} => Min(PlacesOf(t, cmd)) \in PlacesOf(t, cmd)
    <3>1. PlacesOf(t, cmd) \in SUBSET (1 .. Len(t))
      BY DEF PlacesOf
    <3>2. QED
      BY <3>1, LeastPlace
  <2>2. ValueAt(x, PlacesOf(t, cmd)) = ValueAt(t, PlacesOf(t, cmd))
    <3> DEFINE P == PlacesOf(t, cmd)
    <3>1. \A i \in P : x[i] = t[i]
      BY <1>3 DEF PlacesOf, n
    <3> HIDE DEF P
    <3>2. P # {} => Min(P) \in P
      BY <2>1 DEF P
    <3>3. ValueAt(x, P) = ValueAt(t, P)
      BY <3>1, <3>2 DEF ValueAt
    <3>4. QED
      BY <3>3 DEF P
  <2>3. QED
    BY <1>1, <1>6, <2>2, FirstAt
<1>8. QED
  BY <1>3, <1>4, <1>5, <1>6, <1>7 DEF x, n

LEMMA SaidLast ==
  ASSUME NEW t, Block(t), NEW service
  PROVE  LET I == {i \in 1 .. Len(t) : t[i].cmd = "set network profiles" /\ t[i].val[1] = service}
         IN  /\ I = {} => ~ LastFlag(t, service)
             /\ I # {} => \E i \in I : LastFlag(t, service) <=> t[i].val[2] = "yes"
<1> DEFINE I == {i \in 1 .. Len(t) : t[i].cmd = "set network profiles" /\ t[i].val[1] = service}
           said == IF I # {} THEN Max(I) ELSE 0
<1>1. LastFlag(t, service) <=> said # 0 /\ t[said].val[2] = "yes"
  BY DEF LastFlag, SelectLastInSeq
<1>2. Len(t) \in Nat /\ I \in SUBSET (1 .. Len(t))
  BY TextIs
<1> HIDE DEF I
<1>3. ASSUME I # {} PROVE said \in I /\ said # 0
  <2>1. Max(I) \in I
    BY <1>2, <1>3, MaxIn
  <2>2. QED
    BY <1>2, <1>3, <2>1
<1>4. QED
  BY <1>1, <1>3 DEF I

LEMMA PairOf == \A v, x, y : v = <<x, y>> => v[1] = x /\ v[2] = y
OBVIOUS

Profiles(t) == Values(t, "set network profiles")

LEMMA FlagsAre ==
  \A t, service : LastFlag(t, service) \in BOOLEAN /\ (<<service, "yes">> \in Profiles(t)) \in BOOLEAN
<1>1. \A x, y : (x # 0 /\ y = "yes") \in BOOLEAN
  OBVIOUS
<1>2. \A x, S : (x \in S) \in BOOLEAN
  OBVIOUS
<1>3. QED
  BY <1>1, <1>2, Zenon DEF LastFlag

\* When no two profiles disagree, the last one that has a flag decides like any other.
LEMMA FlagsAgree ==
  ASSUME NEW t, Block(t), NEW service,
         \A v, w \in Profiles(t) : v[1] = service /\ w[1] = service => v = w
  PROVE  LastFlag(t, service) = (<<service, "yes">> \in Profiles(t))
<1> DEFINE I == {i \in 1 .. Len(t) : t[i].cmd = "set network profiles" /\ t[i].val[1] = service}
           on == <<service, "yes">> \in Profiles(t)
<1>1. ASSUME NEW i \in 1 .. Len(t), t[i].cmd = "set network profiles"
      PROVE  t[i].val \in Profiles(t) /\ t[i].val = <<t[i].val[1], t[i].val[2]>>
  <2>1. i \in DOMAIN t /\ t[i].val \in STRING \X STRING
    BY <1>1, TextIs DEF Captured, Takes
  <2>2. \A A, B : \A v \in A \X B : v = <<v[1], v[2]>>
    OBVIOUS
  <2>3. t[i].val \in Profiles(t)
    BY <1>1, <2>1 DEF Profiles, Values
  <2>4. QED
    BY <2>1, <2>2, <2>3
<1>2. ASSUME NEW v \in Profiles(t) PROVE \E i \in 1 .. Len(t) : t[i].cmd = "set network profiles" /\ t[i].val = v
  BY TextIs DEF Profiles, Values
<1>3. CASE I = {}
  <2>1. ~ LastFlag(t, service)
    BY <1>3, SaidLast
  <2>2. ASSUME on PROVE FALSE
    <3>1. PICK i \in 1 .. Len(t) : t[i].cmd = "set network profiles" /\ t[i].val = <<service, "yes">>
      BY <1>2, <2>2
    <3>2. t[i].val[1] = service
      BY <3>1, PairOf, Zenon
    <3>3. QED
      BY <1>3, <3>1, <3>2
  <2>3. QED
    BY <2>1, <2>2, FlagsAre
<1>4. CASE I # {}
  <2>1. PICK i \in I : LastFlag(t, service) <=> t[i].val[2] = "yes"
    BY <1>4, SaidLast
  <2>2. i \in 1 .. Len(t) /\ t[i].cmd = "set network profiles" /\ t[i].val[1] = service
    OBVIOUS
  <2>3. ASSUME on PROVE t[i].val = <<service, "yes">>
    <3>1. <<service, "yes">>[1] = service
      OBVIOUS
    <3>2. QED
      BY <1>1, <2>2, <2>3, <3>1
  <2>4. ASSUME t[i].val[2] = "yes" PROVE on
    <3>1. t[i].val \in Profiles(t) /\ t[i].val = <<service, "yes">>
      BY <1>1, <2>2, <2>4
    <3>2. QED
      BY <3>1, Zenon
  <2>5. t[i].val = <<service, "yes">> => t[i].val[2] = "yes"
    BY PairOf, Zenon
  <2> HIDE DEF I
  <2>6. QED
    BY <2>1, <2>3, <2>4, <2>5, FlagsAre
<1>5. QED
  BY <1>3, <1>4

\* Where there are no words for numbers, the first command has the first number.
LEMMA NumbersAgree ==
  ASSUME NEW t, Block(t), NEW cmd, None \notin Values(t, cmd)
  PROVE  FirstDigits(t, cmd) = First(t, cmd)
<1>1. DigitsOf(t, cmd) = PlacesOf(t, cmd)
  BY TextIs DEF DigitsOf, PlacesOf, Values
<1>2. QED
  BY <1>1, FirstAt

\* What the fields of an IR are made of.
LEMMA FieldsFrom ==
  ASSUME NEW r, NEW q
  PROVE  LET a == PanFields(r)
             b == PanFields(q)
         IN  /\ DOMAIN a = DOMAIN b /\ a["logging"] = b["logging"]
             /\ r.flag["ssh"] = q.flag["ssh"] => a["ssh"] = b["ssh"] /\ a["sshVersion"] = b["sshVersion"]
             /\ r.flag["https"] = q.flag["https"] => a["https"] = b["https"]
             /\ r.flag["http"] = q.flag["http"] => a["http"] = b["http"]
             /\ r.flag["telnet"] = q.flag["telnet"] => a["telnet"] = b["telnet"]
             /\ r.flag["telnet"] = q.flag["telnet"] /\ r.flag["http"] = q.flag["http"] => a["insecure"] = b["insecure"]
             /\ r.idle = q.idle => a["timeout"] = b["timeout"]
             /\ r.minLength = q.minLength => a["minLength"] = b["minLength"]
             /\ r.syslog = q.syslog => a["syslog"] = b["syslog"]
             /\ r.ntp = q.ntp => a["ntp"] = b["ntp"]
             /\ r.communities = q.communities => a["snmp"] = b["snmp"] /\ a["communities"] = b["communities"]
             /\ r.zones = q.zones => a["zones"] = b["zones"]
             /\ r.zones = q.zones /\ r.shown = q.shown =>
                  a["interfaces"] = b["interfaces"] /\ a["exposed"] = b["exposed"]
             /\ r.rules = q.rules => a["rules"] = b["rules"]
             /\ r.unmapped = q.unmapped => a["unmapped"] = b["unmapped"]
BY DEF PanFields

LEMMA HasAre == \A t, cmd : Has(t, cmd) \in BOOLEAN
BY DEF Has

\* Both parsers read a field alike where nothing says otherwise.
LEMMA ReadingsAgree ==
  ASSUME NEW t, Block(t)
  PROVE  LET r == SetReads(t)
             q == XmlReads(t)
         IN  /\ \A service \in PanServices : OneFlag(t, service) => r.flag[service] = q.flag[service]
             /\ OneNumber(t, "set mgt-config idle-timeout", {}) => r.idle = q.idle
             /\ OneNumber(t, "set shared minimum-length", {"set mgt-config minimum-length"}) => r.minLength = q.minLength
             /\ OneReading(t, "set shared syslog", {}) => r.syslog = q.syslog
             /\ OneReading(t, "set deviceconfig ntp-servers", {}) => r.ntp = q.ntp
             /\ ~ Has(Everywhere(t), "set shared snmp-community-string") => r.communities = q.communities
             /\ OneZones(t) => r.zones = q.zones
             /\ OneReading(t, "set network interface", {}) /\ (\A v \in Values(t, "set network interface") : v.ip)
                  => r.shown = q.shown
             /\ /\ OneReading(t, "set rulebase security rules", {"set vsys rulebase"})
                /\ \A v \in Values(t, "set rulebase security rules") : Len(v.src) = 1 /\ Len(v.dst) = 1
                => r.rules = q.rules
             /\ ~ HasAny(t, PanUnmapped) => r.unmapped = q.unmapped
<1> DEFINE r == SetReads(t)
           q == XmlReads(t)
           x == Everywhere(t)
<1>1. ASSUME NEW service \in PanServices, OneFlag(t, service) PROVE r.flag[service] = q.flag[service]
  <2>1. "set network profiles" \notin InTemplates(t)
    BY <1>1 DEF OneFlag, OneReading
  <2>2. Values(x, "set network profiles") = Profiles(t)
    BY <2>1, SameReading DEF Profiles
  <2>3. LastFlag(t, service) = (<<service, "yes">> \in Profiles(t))
    BY <1>1, FlagsAgree DEF OneFlag, Profiles
  <2>4. r.flag[service] = LastFlag(t, service)
    BY DEF SetReads
  <2>5. q.flag[service] = (<<service, "yes">> \in Values(x, "set network profiles"))
    BY DEF XmlReads
  <2>6. QED
    BY <2>2, <2>3, <2>4, <2>5
<1>2. ASSUME OneNumber(t, "set mgt-config idle-timeout", {}) PROVE r.idle = q.idle
  <2>1. First(x, "set mgt-config idle-timeout") = First(t, "set mgt-config idle-timeout")
    BY <1>2, SameReading DEF OneNumber, OneReading
  <2>2. FirstDigits(t, "set mgt-config idle-timeout") = First(t, "set mgt-config idle-timeout")
    BY <1>2, NumbersAgree DEF OneNumber
  <2>3. r.idle = FirstDigits(t, "set mgt-config idle-timeout") /\ q.idle = First(x, "set mgt-config idle-timeout")
    BY DEF SetReads, XmlReads
  <2>4. QED
    BY <2>1, <2>2, <2>3
<1>3. ASSUME OneNumber(t, "set shared minimum-length", {"set mgt-config minimum-length"}) PROVE r.minLength = q.minLength
  <2>1. /\ "set shared minimum-length" \notin InTemplates(t) /\ "set mgt-config minimum-length" \notin InTemplates(t)
        /\ ~ Has(t, "set mgt-config minimum-length") /\ None \notin Values(t, "set shared minimum-length")
    BY <1>3 DEF OneNumber, OneReading
  <2>2. /\ First(x, "set shared minimum-length") = First(t, "set shared minimum-length")
        /\ ~ Has(x, "set mgt-config minimum-length")
    BY <2>1, SameReading
  <2>3. Block(x)
    BY EverywhereIs
  <2>4. Lengths(x) = PlacesOf(x, "set shared minimum-length")
    <3>1. \A i \in 1 .. Len(x) : x[i].cmd # "set mgt-config minimum-length"
      BY <2>2, <2>3, TextIs DEF Has
    <3>2. QED
      BY <3>1 DEF Lengths, PlacesOf
  <2>5. q.minLength = First(x, "set shared minimum-length")
    BY <2>3, <2>4, LengthAt, FirstAt
  <2>6. r.minLength = FirstDigits(t, "set shared minimum-length")
    BY DEF SetReads
  <2>7. QED
    BY <2>1, <2>2, <2>5, <2>6, NumbersAgree
<1>4. ASSUME OneReading(t, "set shared syslog", {}) PROVE r.syslog = q.syslog
  <2>1. Has(x, "set shared syslog") <=> Has(t, "set shared syslog")
    BY <1>4, SameReading DEF OneReading
  <2>2. r.syslog = Has(t, "set shared syslog") /\ q.syslog = Has(x, "set shared syslog")
    BY DEF SetReads, XmlReads
  <2>3. QED
    BY <2>1, <2>2, HasAre
<1>5. ASSUME OneReading(t, "set deviceconfig ntp-servers", {}) PROVE r.ntp = q.ntp
  <2>1. Has(x, "set deviceconfig ntp-servers") <=> Has(t, "set deviceconfig ntp-servers")
    BY <1>5, SameReading DEF OneReading
  <2>2. r.ntp = Has(t, "set deviceconfig ntp-servers") /\ q.ntp = Has(x, "set deviceconfig ntp-servers")
    BY DEF SetReads, XmlReads
  <2>3. QED
    BY <2>1, <2>2, HasAre
<1>6. ASSUME ~ Has(x, "set shared snmp-community-string") PROVE r.communities = q.communities
  BY <1>6 DEF SetReads, XmlReads, Has
<1>7. ASSUME OneZones(t) PROVE r.zones = q.zones
  <2>1. "set vsys" \notin InTemplates(t) /\ Values(t, "set zone") = {}
    BY <1>7 DEF OneZones, OneReading, Has, Values
  <2>2. Values(x, "set vsys") = Values(t, "set vsys")
    BY <2>1, SameReading
  <2>3. QED
    BY <2>1, <2>2 DEF SetReads, XmlReads, SetZones
<1>8. ASSUME OneReading(t, "set network interface", {}), \A v \in Values(t, "set network interface") : v.ip
      PROVE  r.shown = q.shown
  <2>1. Values(x, "set network interface") = Values(t, "set network interface")
    BY <1>8, SameReading DEF OneReading
  <2>2. QED
    BY <1>8, <2>1 DEF SetReads, XmlReads
<1>9. ASSUME OneReading(t, "set rulebase security rules", {"set vsys rulebase"}),
             \A v \in Values(t, "set rulebase security rules") : Len(v.src) = 1 /\ Len(v.dst) = 1
      PROVE  r.rules = q.rules
  <2>1. /\ "set rulebase security rules" \notin InTemplates(t) /\ "set vsys rulebase" \notin InTemplates(t)
        /\ ~ Has(t, "set vsys rulebase")
    BY <1>9 DEF OneReading
  <2>2. Values(x, "set rulebase security rules") = Values(t, "set rulebase security rules")
    BY <2>1, SameReading
  <2>3. Values(x, "set vsys rulebase") = {}
    <3>1. Values(x, "set vsys rulebase") = Values(t, "set vsys rulebase")
      BY <2>1, SameReading
    <3>2. QED
      BY <2>1, <3>1 DEF Has, Values
  <2>4. QED
    BY <1>9, <2>2, <2>3 DEF SetReads, XmlReads
<1>10. ASSUME ~ HasAny(t, PanUnmapped) PROVE r.unmapped = q.unmapped
  BY <1>10 DEF HasAny, SetReads, XmlReads
<1>11. QED
  BY <1>1, <1>2, <1>3, <1>4, <1>5, <1>6, <1>7, <1>8, <1>9, <1>10

LEMMA ComparableAgree ==
  ASSUME NEW t, Block(t), NEW f \in IRFields, Comparable(t, f)
  PROVE  ParsePanSet(t)[f] = ParsePanXml(t)[f]
<1> DEFINE r == SetReads(t)
           q == XmlReads(t)
           a == PanFields(r)
           b == PanFields(q)
<1>1. DOMAIN a = DOMAIN b
  BY FieldsFrom
<1>2. f \in DOMAIN a => a[f] = b[f]
  <2>1. CASE f \in {"ssh", "sshVersion"}
    <3>1. r.flag["ssh"] = q.flag["ssh"]
      BY <2>1, ReadingsAgree DEF Comparable, PanServices
    <3>2. QED
      BY <2>1, <3>1, FieldsFrom
  <2>2. CASE f = "https"
    <3>1. r.flag["https"] = q.flag["https"]
      BY <2>2, ReadingsAgree DEF Comparable, PanServices
    <3>2. QED
      BY <2>2, <3>1, FieldsFrom
  <2>3. CASE f = "http"
    <3>1. r.flag["http"] = q.flag["http"]
      BY <2>3, ReadingsAgree DEF Comparable, PanServices
    <3>2. QED
      BY <2>3, <3>1, FieldsFrom
  <2>4. CASE f = "telnet"
    <3>1. r.flag["telnet"] = q.flag["telnet"]
      BY <2>4, ReadingsAgree DEF Comparable, PanServices
    <3>2. QED
      BY <2>4, <3>1, FieldsFrom
  <2>5. CASE f = "insecure"
    <3>1. r.flag["telnet"] = q.flag["telnet"] /\ r.flag["http"] = q.flag["http"]
      BY <2>5, ReadingsAgree DEF Comparable, PanServices
    <3>2. QED
      BY <2>5, <3>1, FieldsFrom
  <2>6. CASE f = "timeout"
    <3>1. r.idle = q.idle
      BY <2>6, ReadingsAgree DEF Comparable
    <3>2. QED
      BY <2>6, <3>1, FieldsFrom
  <2>7. CASE f = "minLength"
    <3>1. r.minLength = q.minLength
      BY <2>7, ReadingsAgree DEF Comparable
    <3>2. QED
      BY <2>7, <3>1, FieldsFrom
  <2>8. CASE f = "syslog"
    <3>1. r.syslog = q.syslog
      BY <2>8, ReadingsAgree DEF Comparable
    <3>2. QED
      BY <2>8, <3>1, FieldsFrom
  <2>9. CASE f = "ntp"
    <3>1. r.ntp = q.ntp
      BY <2>9, ReadingsAgree DEF Comparable
    <3>2. QED
      BY <2>9, <3>1, FieldsFrom
  <2>10. CASE f \in {"snmp", "communities"}
    <3>1. r.communities = q.communities
      BY <2>10, ReadingsAgree DEF Comparable
    <3>2. QED
      BY <2>10, <3>1, FieldsFrom
  <2>11. CASE f = "zones"
    <3>1. r.zones = q.zones
      BY <2>11, ReadingsAgree DEF Comparable
    <3>2. QED
      BY <2>11, <3>1, FieldsFrom
  <2>12. CASE f \in {"interfaces", "exposed"}
    <3>1. r.zones = q.zones /\ r.shown = q.shown
      BY <2>12, ReadingsAgree DEF Comparable
    <3>2. QED
      BY <2>12, <3>1, FieldsFrom
  <2>13. CASE f = "rules"
    <3>1. r.rules = q.rules
      BY <2>13, ReadingsAgree DEF Comparable
    <3>2. QED
      BY <2>13, <3>1, FieldsFrom
  <2>14. CASE f = "unmapped"
    <3>1. r.unmapped = q.unmapped
      BY <2>14, ReadingsAgree DEF Comparable
    <3>2. QED
      BY <2>14, <3>1, FieldsFrom
  <2>15. CASE f = "logging"
    BY <2>15, FieldsFrom
  <2>16. CASE f \in {"mfa", "defaultCredentials", "privileged", "audit", "snmpVersion", "unused"}
    BY <2>16 DEF PanFields
  <2>17. QED
    BY <2>1, <2>2, <2>3, <2>4, <2>5, <2>6, <2>7, <2>8, <2>9, <2>10, <2>11, <2>12, <2>13, <2>14, <2>15, <2>16
       DEF IRFields
<1>3. /\ ParsePanSet(t)[f] = IF f \in DOMAIN a THEN a[f] ELSE EmptyIR[f]
      /\ ParsePanXml(t)[f] = IF f \in DOMAIN b THEN b[f] ELSE EmptyIR[f]
  BY FilledIs DEF ParsePanSet, ParsePanXml, PanIR
<1> HIDE DEF a, b
<1>4. QED
  BY <1>1, <1>2, <1>3

\* A parsed file is what the parser of the vendor that was detected, or named, makes of it.
ParsedInv == file \in Files /\ (stage = "parsed" => ir # None /\ ir = Parse(detected.vendor, file.text))

LEMMA ParsedSteps == ParsedInv /\ [Next]_vars => ParsedInv'
<1> SUFFICES ASSUME ParsedInv, [Next]_vars PROVE ParsedInv'
  OBVIOUS
<1>1. CASE DetectVendor
  BY <1>1 DEF DetectVendor, ParseAs, ParsedInv
<1>2. CASE ConfirmVendor
  BY <1>2 DEF ConfirmVendor, ParseAs, ParsedInv
<1>3. CASE AnalyseCompliance
  BY <1>3 DEF AnalyseCompliance, ParsedInv
<1>4. CASE AnalyseRisk
  BY <1>4 DEF AnalyseRisk, ParsedInv
<1>5. CASE BuildAttackGraph
  BY <1>5 DEF BuildAttackGraph, ParsedInv
<1>6. CASE Optimise
  BY <1>6 DEF Optimise, ParsedInv
<1>7. CASE \E b \in Budgets : RunOptimizer(b)
  BY <1>7 DEF RunOptimizer, ParsedInv
<1>8. CASE UNCHANGED vars
  BY <1>8 DEF vars, ParsedInv
<1>9. QED
  BY <1>1, <1>2, <1>3, <1>4, <1>5, <1>6, <1>7, <1>8 DEF Next

\* Whatever a PAN-OS device says, and whatever else its file says, a field that comes from
\* nothing that one of the two parsers misses is in the IR of its set commands as it is in
\* that of its XML export: the last profile is as good as any, and the first number as the
\* first element.
THEOREM FormatsAlwaysAgree == Spec => []FormatsAgree
<1>1. Init => ParsedInv
  BY DEF Init, ParsedInv
<1>2. ParsedInv => FormatsAgree
  <2> SUFFICES ASSUME ParsedInv, stage = "parsed", detected.vendor = "PaloAlto",
                      NEW f \in DOMAIN ir, Comparable(file.text, f)
               PROVE  ir[f] = ParsePanXml(file.text)[f]
    BY DEF FormatsAgree
  <2>1. Block(file.text)
    BY AnalysisAssumption DEF ParsedInv, Text
  <2>2. ir = Parse("PaloAlto", file.text) /\ ir # None
    BY DEF ParsedInv
  <2>3. ir \in {ParsePanXml(file.text), ParsePanSet(file.text)}
    BY <2>2 DEF Parse
  <2>4. f \in IRFields
    BY <2>3, FilledIs DEF ParsePanXml, ParsePanSet, PanIR
  <2>5. QED
    BY <2>1, <2>3, <2>4, ComparableAgree
<1>3. QED
  BY <1>1, <1>2, ParsedSteps, PTL DEF Spec

-----------------------------------------------------------------------------
(* The schema of the IR                                                    *)

Flags == {"ssh", "telnet", "http", "https", "mfa", "defaultCredentials", "privileged", "logging",
          "syslog", "audit", "ntp", "snmp", "communities"}
Numbers == {"sshVersion", "timeout", "minLength"}

\* Every value of a field is one of the schema's.
Fits(s) ==
  /\ DOMAIN s \subseteq IRFields
  /\ \A f \in DOMAIN s :
       /\ f \in Flags => s[f] \in Maybe(BOOLEAN)
       /\ f \in Numbers => s[f] \in Maybe(Int)
       /\ f = "snmpVersion" => s[f] \in Maybe({"1", "2c", "3"})
       /\ f = "interfaces" => s[f] \in SUBSET Interfaces
       /\ f = "zones" => s[f] \in SUBSET STRING
       /\ f = "rules" => s[f] \in SUBSET {"restricted", "unrestricted"}
       /\ f = "insecure" => s[f] \in SUBSET {"telnet", "http_management"}
       /\ f = "unused" => s[f] \in SUBSET {"finger", "bootp"}
       /\ f = "exposed" => s[f] \in BOOLEAN
       /\ f = "unmapped" => s[f] \in SUBSET Nat

LEMMA RecordFits ==
  ASSUME NEW A, NEW B, NEW C, NEW D, NEW E, NEW F, NEW G, NEW H, NEW I, NEW J,
         NEW r, r = [f \in IRFields |-> r[f]],
         \A f \in Flags : r[f] \in A, \A f \in Numbers : r[f] \in B,
         r["snmpVersion"] \in C, r["interfaces"] \in D, r["zones"] \in E, r["rules"] \in F,
         r["insecure"] \in G, r["unused"] \in H, r["exposed"] \in I, r["unmapped"] \in J
  PROVE  r \in [ssh : A, sshVersion : B, telnet : A, http : A, https : A, timeout : B, mfa : A,
                minLength : B, defaultCredentials : A, privileged : A, logging : A, syslog : A,
                audit : A, ntp : A, snmp : A, snmpVersion : C, communities : A, interfaces : D,
                zones : E, rules : F, insecure : G, unused : H, exposed : I, unmapped : J]
<1>1. /\ r["ssh"] \in A /\ r["telnet"] \in A /\ r["http"] \in A /\ r["https"] \in A /\ r["mfa"] \in A
      /\ r["defaultCredentials"] \in A /\ r["privileged"] \in A /\ r["logging"] \in A /\ r["syslog"] \in A
      /\ r["audit"] \in A /\ r["ntp"] \in A /\ r["snmp"] \in A /\ r["communities"] \in A
  BY DEF Flags
<1>2. r["sshVersion"] \in B /\ r["timeout"] \in B /\ r["minLength"] \in B
  BY DEF Numbers
<1>3. QED
  BY <1>1, <1>2 DEF IRFields

LEMMA FitsType ==
  ASSUME NEW r, r = [f \in IRFields |-> r[f]], DOMAIN r = IRFields, Fits(r)
  PROVE  r \in SecurityIRs
<1>1. \A f \in Flags \union Numbers : f \in IRFields
  BY DEF Flags, Numbers, IRFields
<1>2. /\ \A f \in Flags : r[f] \in Maybe(BOOLEAN)
      /\ \A f \in Numbers : r[f] \in Maybe(Int)
  BY <1>1 DEF Fits
<1>3. {"snmpVersion", "interfaces", "zones", "rules", "insecure", "unused", "exposed", "unmapped"} \subseteq DOMAIN r
  BY DEF IRFields
<1>4. /\ r["snmpVersion"] \in Maybe({"1", "2c", "3"})
      /\ r["interfaces"] \in SUBSET Interfaces
      /\ r["zones"] \in SUBSET STRING
      /\ r["rules"] \in SUBSET {"restricted", "unrestricted"}
      /\ r["insecure"] \in SUBSET {"telnet", "http_management"}
      /\ r["unused"] \in SUBSET {"finger", "bootp"}
      /\ r["exposed"] \in BOOLEAN
      /\ r["unmapped"] \in SUBSET Nat
  BY <1>3 DEF Fits
<1>5. QED
  BY <1>2, <1>4, RecordFits, Zenon DEF SecurityIRs

LEMMA EmptyFits == Fits(EmptyIR)
<1>1. DOMAIN EmptyIR \subseteq IRFields
  BY EmptyFields
<1>2. /\ \A f \in Flags \union Numbers \union {"snmpVersion"} : EmptyIR[f] = None
      /\ \A f \in {"interfaces", "zones", "rules", "insecure", "unused", "unmapped"} : EmptyIR[f] = {}
      /\ EmptyIR["exposed"] = FALSE
  BY DEF EmptyIR, Flags, Numbers
<1>3. \A S : None \in Maybe(S) /\ {} \in SUBSET S
  BY DEF Maybe
<1>4. QED
  BY <1>1, <1>2, <1>3 DEF Fits

LEMMA FilledFits ==
  ASSUME NEW s, Fits(s)
  PROVE  Filled(s) \in SecurityIRs
<1> DEFINE r == Filled(s)
<1>1. /\ DOMAIN r = IRFields /\ r = [f \in IRFields |-> r[f]]
      /\ \A f \in IRFields : r[f] = IF f \in DOMAIN s THEN s[f] ELSE EmptyIR[f]
  BY FilledIs
<1> HIDE DEF r
<1>2. \A f \in IRFields : f \in DOMAIN EmptyIR
  BY EmptyFields
<1>3. Fits(r)
  <2> SUFFICES ASSUME NEW f \in DOMAIN r
               PROVE  /\ f \in Flags => r[f] \in Maybe(BOOLEAN)
                      /\ f \in Numbers => r[f] \in Maybe(Int)
                      /\ f = "snmpVersion" => r[f] \in Maybe({"1", "2c", "3"})
                      /\ f = "interfaces" => r[f] \in SUBSET Interfaces
                      /\ f = "zones" => r[f] \in SUBSET STRING
                      /\ f = "rules" => r[f] \in SUBSET {"restricted", "unrestricted"}
                      /\ f = "insecure" => r[f] \in SUBSET {"telnet", "http_management"}
                      /\ f = "unused" => r[f] \in SUBSET {"finger", "bootp"}
                      /\ f = "exposed" => r[f] \in BOOLEAN
                      /\ f = "unmapped" => r[f] \in SUBSET Nat
    BY <1>1 DEF Fits
  <2>1. CASE f \in DOMAIN s
    <3>1. r[f] = s[f]
      BY <1>1, <2>1
    <3>2. QED
      BY <2>1, <3>1 DEF Fits
  <2>2. CASE f \notin DOMAIN s
    <3>1. r[f] = EmptyIR[f] /\ f \in DOMAIN EmptyIR
      BY <1>1, <1>2, <2>2
    <3>2. QED
      BY <3>1, EmptyFits DEF Fits
  <2>3. QED
    BY <2>1, <2>2
<1>4. QED
  BY <1>1, <1>3, FitsType DEF r

-----------------------------------------------------------------------------
(* What the parsers read                                                   *)

LEMMA FirstIs ==
  ASSUME NEW t, Block(t), NEW cmd, Has(t, cmd)
  PROVE  \E i \in DOMAIN t : t[i].cmd = cmd /\ Find(t, cmd) = i /\ First(t, cmd) = t[i].val
<1> DEFINE I == {i \in 1 .. Len(t) : t[i].cmd = cmd}
<1>1. Find(t, cmd) = IF I # {} THEN Min(I) ELSE 0
  BY DEF Find, SelectInSeq
<1>2. I \in SUBSET Nat /\ I # {} /\ DOMAIN t = 1 .. Len(t)
  BY TextIs DEF Has
<1>3. First(t, cmd) = t[Find(t, cmd)].val
  BY DEF First
<1>4. Min(I) \in I
  <2> HIDE DEF I
  <2>1. QED
    BY <1>2, MinIn
<1>5. Min(I) \in DOMAIN t /\ t[Min(I)].cmd = cmd
  BY <1>2, <1>4
<1> HIDE DEF I
<1>6. QED
  BY <1>1, <1>2, <1>3, <1>5

LEMMA FirstNumber ==
  ASSUME NEW t, Block(t), NEW cmd \in Numbered
  PROVE  First(t, cmd) \in Maybe(Int)
<1>1. CASE Has(t, cmd)
  <2>1. PICK i \in DOMAIN t : t[i].cmd = cmd /\ First(t, cmd) = t[i].val
    BY <1>1, FirstIs
  <2>2. t[i].val \in Int
    BY <2>1, TextIs DEF Captured, Takes
  <2>3. QED
    BY <2>1, <2>2 DEF Maybe
<1>2. CASE ~ Has(t, cmd)
  BY <1>2 DEF First, Maybe
<1>3. QED
  BY <1>1, <1>2

LEMMA NumberBy60 == \A n \in Maybe(Int) : (IF n = None THEN None ELSE n * 60) \in Maybe(Int)
BY DEF Maybe

LEMMA SectionBlock ==
  ASSUME NEW t, Text(t), NEW name
  PROVE  Block(Section(t, name)) /\ \A e \in Edits(Section(t, name)) : e.cmd = "edit" /\ Captured(e)
<1> DEFINE s == Section(t, name)
<1>1. Block(s)
  <2>1. CASE Has(t, name)
    <3>1. PICK i \in DOMAIN t : Find(t, name) = i
      BY <2>1, FirstIs DEF Text
    <3>2. s = t[i].body /\ t[i] \in ToSet(t)
      BY <2>1, <3>1 DEF Section, ToSet
    <3>3. QED
      BY <3>2 DEF Text
  <2>2. CASE ~ Has(t, name)
    <3>1. s = <<>>
      BY <2>2 DEF Section
    <3>2. ToSet(<<>>) = {} /\ <<>> \in Seq({})
      BY DEF ToSet
    <3>3. QED
      BY <3>1, <3>2 DEF Block
  <2>3. QED
    BY <2>1, <2>2
<1> HIDE DEF s
<1>2. \A e \in Edits(s) : e.cmd = "edit" /\ Captured(e)
  BY <1>1, TextIs DEF Edits
<1>3. QED
  BY <1>1, <1>2 DEF s

\* The statements of a block and of the blocks in it.
Within(b) == ToSet(b) \union UNION {ToSet(m.body) : m \in ToSet(b)}

\* A search of the whole text finds statements of the text.
LEMMA AllSetsBlock ==
  ASSUME NEW t, Text(t)
  PROVE  Block(AllSets(t))
<1> DEFINE E == UNION {Within(l.body) : l \in ToSet(t)}
<1>1. \A l \in E : Captured(l)
  <2>1. ASSUME NEW l \in ToSet(t), NEW m \in Within(l.body) PROVE Captured(m)
    <3>1. CASE m \in ToSet(l.body)
      BY <3>1 DEF Text, Block
    <3>2. CASE \E k \in ToSet(l.body) : m \in ToSet(k.body)
      BY <3>2 DEF Text, Block
    <3>3. QED
      BY <2>1, <3>1, <3>2 DEF Within
  <2>2. QED
    BY <2>1
<1>2. ASSUME NEW l \in ToSet(t) PROVE SetsOf(l.body) \in Seq(E)
  <2> DEFINE s == l.body
             pieces == [i \in DOMAIN s |-> IF s[i].cmd = "edit" THEN s[i].body ELSE <<s[i]>>]
  <2>1. Block(s) /\ \A m \in ToSet(s) : Block(m.body)
    BY DEF Text
  <2>2. \A m \in ToSet(s) : m \in E /\ ToSet(m.body) \subseteq E
    <3>1. Within(s) \subseteq E
      OBVIOUS
    <3>2. \A m \in ToSet(s) : m \in Within(s) /\ ToSet(m.body) \subseteq Within(s)
      BY DEF Within
    <3> HIDE DEF s, E
    <3>3. QED
      BY <3>1, <3>2
  <2> HIDE DEF s, E
  <2>3. DOMAIN s = 1 .. Len(s) /\ Len(s) \in Nat /\ \A i \in DOMAIN s : s[i] \in ToSet(s)
    BY <2>1, TextIs
  <2>4. ASSUME NEW i \in DOMAIN s PROVE pieces[i] \in Seq(E)
    <3>1. s[i].body \in Seq(ToSet(s[i].body))
      BY <2>1, <2>3 DEF Block
    <3>2. s[i].body \in Seq(E)
      BY <2>2, <2>3, <3>1, SeqMonotonic
    <3>3. <<s[i]>> \in Seq(E)
      BY <2>2, <2>3
    <3>4. QED
      BY <3>2, <3>3
  <2>5. pieces \in Seq(Seq(E))
    <3>1. pieces \in [1 .. Len(s) -> Seq(E)]
      BY <2>3, <2>4
    <3> HIDE DEF pieces
    <3>2. QED
      BY <2>3, <3>1, SeqDef
  <2>6. SetsOf(s) = FlattenSeq(pieces)
    BY DEF SetsOf
  <2> HIDE DEF pieces
  <2>7. SetsOf(s) \in Seq(E)
    BY <2>5, <2>6, FlattenType
  <2>8. QED
    BY <2>7 DEF s
<1> HIDE DEF E
<1>3. AllSets(t) \in Seq(E)
  <2> DEFINE pieces == [i \in DOMAIN t |-> SetsOf(t[i].body)]
  <2>1. DOMAIN t = 1 .. Len(t) /\ Len(t) \in Nat /\ \A i \in DOMAIN t : t[i] \in ToSet(t)
    BY TextIs DEF Text
  <2>2. pieces \in [1 .. Len(t) -> Seq(E)]
    BY <1>2, <2>1
  <2>3. AllSets(t) = FlattenSeq(pieces)
    BY DEF AllSets
  <2> HIDE DEF pieces
  <2>4. pieces \in Seq(Seq(E))
    BY <2>1, <2>2, SeqDef
  <2>5. QED
    BY <2>3, <2>4, FlattenType
<1> DEFINE a == AllSets(t)
<1> HIDE DEF a
<1>4. a \in Seq(E)
  BY <1>3 DEF a
<1>5. DOMAIN a = 1 .. Len(a) /\ Len(a) \in Nat /\ \A i \in DOMAIN a : a[i] \in E /\ a[i] \in ToSet(a)
  BY <1>4 DEF ToSet
<1>6. a \in Seq(ToSet(a))
  <2>1. a \in [1 .. Len(a) -> ToSet(a)]
    BY <1>4, <1>5
  <2>2. QED
    BY <1>5, <2>1, SeqDef
<1>7. ToSet(a) \subseteq E
  BY <1>5 DEF ToSet
<1>8. QED
  BY <1>1, <1>6, <1>7 DEF a, Block

LEMMA AnInterface ==
  ASSUME NEW l, l.val.name \in STRING, NEW facing \in BOOLEAN
  PROVE  [name |-> l.val.name, facing |-> facing] \in Interfaces
<1>1. \A S : \A m \in S : [name |-> m, facing |-> facing] \in [name : S, facing : BOOLEAN]
  OBVIOUS
<1>2. QED
  BY <1>1, Zenon DEF Interfaces

LEMMA InsecureType == \A a, b : Insecure(a, b) \in SUBSET {"telnet", "http_management"}
BY DEF Insecure

LEMMA HasType == \A t, c : Has(t, c) \in BOOLEAN /\ HasAny(t, c) \in BOOLEAN
BY DEF Has, HasAny

LEMMA CiscoFits == ASSUME NEW t, Text(t) PROVE Fits(CiscoFields(t))
<1> DEFINE s == CiscoFields(t)
<1>0. Block(t) /\ \A i \in DOMAIN t : Block(t[i].body)
  BY DEF Text, ToSet
<1>1. DOMAIN s \subseteq IRFields
  BY DEF CiscoFields, IRFields
<1>2. /\ s["ssh"] \in Maybe(BOOLEAN) /\ s["http"] \in Maybe(BOOLEAN) /\ s["https"] \in Maybe(BOOLEAN)
      /\ s["telnet"] \in Maybe(BOOLEAN)
  BY DEF CiscoFields, Maybe
<1>3. /\ s["defaultCredentials"] \in BOOLEAN /\ s["privileged"] \in BOOLEAN /\ s["logging"] \in BOOLEAN
      /\ s["syslog"] \in BOOLEAN /\ s["audit"] \in BOOLEAN /\ s["ntp"] \in BOOLEAN
      /\ s["snmp"] \in BOOLEAN /\ s["communities"] \in BOOLEAN
  <2>1. s["defaultCredentials"] \in BOOLEAN /\ s["privileged"] \in BOOLEAN /\ s["logging"] \in BOOLEAN
    BY DEF CiscoFields
  <2>2. /\ s["syslog"] = Has(t, "logging") /\ s["audit"] = Has(t, "aaa accounting") /\ s["ntp"] = Has(t, "ntp server")
        /\ s["snmp"] = HasAny(t, {"snmp-server", "snmp-server community", "snmp-server group v3"})
        /\ s["communities"] = Has(t, "snmp-server community")
    BY DEF CiscoFields
  <2>3. QED
    BY <2>1, <2>2, HasType
<1>4. s["sshVersion"] \in Maybe(Int) /\ s["minLength"] \in Maybe(Int)
  <2>1. First(t, "ip ssh version") \in Maybe(Int) /\ First(t, "security passwords min-length") \in Maybe(Int)
    BY <1>0, FirstNumber DEF Numbered
  <2>2. QED
    BY <2>1 DEF CiscoFields
<1>5. s["timeout"] \in Maybe(Int)
  <2> DEFINE I == {i \in 1 .. Len(t) : t[i].cmd = "line vty" /\ Has(t[i].body, "exec-timeout")}
             timed == IF I # {} THEN Max(I) ELSE 0
             m == First(t[timed].body, "exec-timeout")
  <2>1. s["timeout"] = IF timed = 0 THEN None ELSE m[1] * 60 + m[2]
    BY DEF CiscoFields, SelectLastInSeq
  <2>2. I \in SUBSET (1 .. Len(t)) /\ Len(t) \in Nat /\ DOMAIN t = 1 .. Len(t)
    BY <1>0, TextIs
  <2>3. CASE I = {}
    BY <2>1, <2>3 DEF Maybe
  <2>4. CASE I # {}
    <3>1. timed = Max(I) /\ Max(I) \in I
      <4> HIDE DEF I
      <4>1. QED
        BY <2>2, <2>4, MaxIn
    <3>2. timed \in 1 .. Len(t) /\ Has(t[timed].body, "exec-timeout")
      BY <3>1
    <3> DEFINE b == t[timed].body
    <3> HIDE DEF timed
    <3>3. Block(b) /\ Has(b, "exec-timeout")
      BY <1>0, <2>2, <3>2
    <3> HIDE DEF b
    <3>4. PICK i \in DOMAIN b : b[i].cmd = "exec-timeout" /\ First(b, "exec-timeout") = b[i].val
      BY <3>3, FirstIs
    <3>5. b[i].val \in Int \X Int
      BY <3>3, <3>4, TextIs DEF Captured, Takes
    <3>6. m \in Int \X Int
      BY <3>4, <3>5 DEF b
    <3> HIDE DEF m
    <3>7. m[1] * 60 + m[2] \in Int
      BY <3>6
    <3>8. QED
      BY <2>1, <3>7 DEF Maybe, m
  <2>5. QED
    BY <2>3, <2>4
<1>6. s["snmpVersion"] \in Maybe({"1", "2c", "3"})
  BY DEF CiscoFields, Maybe
<1>7. s["interfaces"] \in SUBSET Interfaces
  <2>1. ASSUME NEW l \in {t[i] : i \in {j \in DOMAIN t : t[j].cmd \in CiscoInterface}}
        PROVE  [name |-> l.val.name,
                facing |-> l.val.external \/ First(l.body, "description") = "external"] \in Interfaces
    <3>1. PICK i \in DOMAIN t : l = t[i] /\ t[i].cmd \in CiscoInterface
      OBVIOUS
    <3>2. l.val.name \in STRING
      BY <1>0, <3>1, TextIs DEF Captured, Takes, Named
    <3>3. (l.val.external \/ First(l.body, "description") = "external") \in BOOLEAN
      OBVIOUS
    <3>4. QED
      BY <3>2, <3>3, AnInterface
  <2>2. s["interfaces"] = {[name |-> l.val.name,
                            facing |-> l.val.external \/ First(l.body, "description") = "external"]
                            : l \in {t[i] : i \in {j \in DOMAIN t : t[j].cmd \in CiscoInterface}}}
    BY DEF CiscoFields
  <2>3. QED
    BY <2>1, <2>2, Zenon
<1>8. s["zones"] \in SUBSET STRING
  <2>1. s["zones"] = Values(t, "zone security")
    BY DEF CiscoFields
  <2>2. ASSUME NEW v \in Values(t, "zone security") PROVE v \in STRING
    <3>1. PICK i \in DOMAIN t : v = t[i].val /\ t[i].cmd = "zone security"
      BY DEF Values
    <3>2. QED
      BY <1>0, <3>1, TextIs DEF Captured, Takes
  <2>3. QED
    BY <2>1, <2>2
<1>9. s["rules"] \in SUBSET {"restricted", "unrestricted"}
  BY DEF CiscoFields, CiscoRule
<1>10. s["insecure"] \in SUBSET {"telnet", "http_management"}
  BY InsecureType DEF CiscoFields
<1>11. s["unused"] \in SUBSET {"finger", "bootp"}
  BY DEF CiscoFields
<1>12. s["exposed"] \in BOOLEAN
  BY DEF CiscoFields, Exposed
<1>13. s["unmapped"] \in SUBSET Nat
  <2>1. s["unmapped"] \subseteq DOMAIN t
    BY DEF CiscoFields
  <2>2. QED
    BY <1>0, <2>1, TextIs
<1> HIDE DEF s
<1>14. "mfa" \notin DOMAIN s
  BY DEF s, CiscoFields
<1>15. QED
  BY <1>1, <1>2, <1>3, <1>4, <1>5, <1>6, <1>7, <1>8, <1>9, <1>10, <1>11, <1>12, <1>13, <1>14 DEF Fits, Flags, Numbers, Maybe, s

LEMMA FortinetFits == ASSUME NEW t, Text(t) PROVE Fits(FortinetFields(t))
<1> DEFINE s == FortinetFields(t)
           sets == AllSets(t)
           edits == Edits(Section(t, "config system interface"))
<1>0. Block(t) /\ Block(sets) /\ \A name : Block(Section(t, name))
  BY AllSetsBlock, SectionBlock DEF Text
<1>1. DOMAIN s \subseteq IRFields
  BY DEF FortinetFields, IRFields
<1>2. /\ s["telnet"] \in BOOLEAN /\ s["http"] \in BOOLEAN /\ s["https"] \in BOOLEAN /\ s["ssh"] \in BOOLEAN
      /\ s["logging"] \in BOOLEAN /\ s["syslog"] \in BOOLEAN /\ s["ntp"] \in BOOLEAN /\ s["snmp"] \in BOOLEAN
      /\ s["communities"] \in BOOLEAN
  <2>1. s["telnet"] \in BOOLEAN /\ s["http"] \in BOOLEAN /\ s["https"] \in BOOLEAN
    BY DEF FortinetFields
  <2>2. s["ssh"] \in BOOLEAN
    BY DEF FortinetFields
  <2>3. s["logging"] \in BOOLEAN /\ s["syslog"] \in BOOLEAN
    BY DEF FortinetFields
  <2>4. s["ntp"] \in BOOLEAN /\ s["snmp"] \in BOOLEAN
    BY DEF FortinetFields
  <2>5. s["communities"] \in BOOLEAN
    BY DEF FortinetFields
  <2>6. QED
    BY <2>1, <2>2, <2>3, <2>4, <2>5
<1>3. s["mfa"] \in Maybe(BOOLEAN) /\ s["audit"] \in BOOLEAN
  <2>1. s["audit"] = HasAny(t, {"config log syslogd setting", "config log memory setting"})
    BY DEF FortinetFields
  <2>2. s["mfa"] \in Maybe(BOOLEAN)
    BY DEF FortinetFields, Maybe
  <2>3. QED
    BY <2>1, <2>2, HasType
<1>4. s["sshVersion"] \in Maybe(Int) /\ s["minLength"] \in Maybe(Int) /\ s["timeout"] \in Maybe(Int)
  <2>1. /\ First(sets, "ssh-version") \in Maybe(Int) /\ First(sets, "idle-timeout") \in Maybe(Int)
        /\ First(Section(t, "config system password-policy"), "minimum-length") \in Maybe(Int)
    BY <1>0, FirstNumber DEF Numbered
  <2>2. /\ s["sshVersion"] = IF First(Section(t, "config system global"), "admin-ssh-v1") = "enable"
                             THEN 1 ELSE First(sets, "ssh-version")
        /\ s["minLength"] = First(Section(t, "config system password-policy"), "minimum-length")
        /\ s["timeout"] = IF First(sets, "idle-timeout") = None THEN None ELSE First(sets, "idle-timeout") * 60
    BY DEF FortinetFields
  <2>3. 1 \in Maybe(Int)
    BY DEF Maybe
  <2>4. QED
    BY <2>1, <2>2, <2>3, NumberBy60
<1>5. s["snmpVersion"] \in Maybe({"1", "2c", "3"})
  BY DEF FortinetFields, Maybe
<1>6. s["interfaces"] \in SUBSET Interfaces
  <2>1. ASSUME NEW e \in edits
        PROVE  [name |-> e.val.name, facing |-> First(e.body, "role") = "wan" \/ e.val.external] \in Interfaces
    <3>1. e.val.name \in STRING
      BY SectionBlock DEF Captured, Takes, Named
    <3>2. (First(e.body, "role") = "wan" \/ e.val.external) \in BOOLEAN
      OBVIOUS
    <3>3. QED
      BY <3>1, <3>2, AnInterface
  <2>2. s["interfaces"] = {[name |-> e.val.name,
                            facing |-> First(e.body, "role") = "wan" \/ e.val.external] : e \in edits}
    BY DEF FortinetFields
  <2>3. QED
    BY <2>1, <2>2, Zenon
<1>7. s["zones"] \in SUBSET STRING
  <2>1. s["zones"] = {e.val.name : e \in Edits(Section(t, "config system zone"))}
    BY DEF FortinetFields
  <2>2. \A e \in Edits(Section(t, "config system zone")) : e.val.name \in STRING
    BY SectionBlock DEF Captured, Takes, Named
  <2>3. QED
    BY <2>1, <2>2
<1>8. s["rules"] \in SUBSET {"restricted", "unrestricted"}
  BY DEF FortinetFields, FortinetRule
<1>9. s["insecure"] \in SUBSET {"telnet", "http_management"}
  BY InsecureType DEF FortinetFields
<1>10. s["exposed"] \in BOOLEAN
  BY DEF FortinetFields, Exposed
<1>11. s["unmapped"] \in SUBSET Nat
  <2>1. s["unmapped"] \subseteq DOMAIN t
    BY DEF FortinetFields
  <2>2. QED
    BY <1>0, <2>1, TextIs
<1>12. DOMAIN s \intersect {"unused", "defaultCredentials", "privileged"} = {}
  BY DEF FortinetFields
<1> HIDE DEF s
<1>13. QED
  BY <1>1, <1>2, <1>3, <1>4, <1>5, <1>6, <1>7, <1>8, <1>9, <1>10, <1>11, <1>12 DEF Fits, Flags, Numbers, Maybe, s

LEMMA PanFits ==
  ASSUME NEW read, read.flag \in [PanServices -> BOOLEAN], read.idle \in Maybe(Int), read.minLength \in Maybe(Int),
         read.syslog \in BOOLEAN, read.ntp \in BOOLEAN, read.communities \in BOOLEAN,
         PanInterfaces(read.shown, read.zones) \in SUBSET Interfaces,
         \A z \in read.zones : z.name \in STRING, read.unmapped \in SUBSET Nat
  PROVE  Fits(PanFields(read))
<1> DEFINE s == PanFields(read)
<1>1. DOMAIN s \subseteq IRFields
  BY DEF PanFields, IRFields
<1>2. /\ s["telnet"] \in BOOLEAN /\ s["http"] \in BOOLEAN /\ s["https"] \in BOOLEAN /\ s["ssh"] \in BOOLEAN
      /\ s["logging"] \in BOOLEAN /\ s["exposed"] \in BOOLEAN
  BY DEF PanFields, Exposed, PanServices
<1>3. s["syslog"] \in BOOLEAN /\ s["ntp"] \in BOOLEAN /\ s["snmp"] \in BOOLEAN /\ s["communities"] \in BOOLEAN
  BY DEF PanFields
<1>4. s["sshVersion"] \in Maybe(Int) /\ s["minLength"] \in Maybe(Int) /\ s["timeout"] \in Maybe(Int)
  <2>1. /\ s["sshVersion"] = IF read.flag["ssh"] THEN 2 ELSE None
        /\ s["minLength"] = read.minLength
        /\ s["timeout"] = IF read.idle = None THEN None ELSE read.idle * 60
    BY DEF PanFields
  <2>2. 2 \in Maybe(Int) /\ None \in Maybe(Int)
    BY DEF Maybe
  <2>3. QED
    BY <2>1, <2>2, NumberBy60
<1>5. s["interfaces"] \in SUBSET Interfaces
  BY DEF PanFields
<1>6. s["zones"] \in SUBSET STRING
  <2>1. s["zones"] = {z.name : z \in read.zones}
    BY DEF PanFields
  <2>2. QED
    BY <2>1
<1>7. s["rules"] \in SUBSET {"restricted", "unrestricted"}
  BY DEF PanFields, PanRule
<1>8. s["insecure"] \in SUBSET {"telnet", "http_management"}
  BY InsecureType DEF PanFields
<1>9. s["unmapped"] \in SUBSET Nat
  BY DEF PanFields
<1>10. DOMAIN s \intersect {"unused", "mfa", "audit", "snmpVersion", "defaultCredentials", "privileged"} = {}
  BY DEF PanFields
<1> HIDE DEF s
<1>11. QED
  BY <1>1, <1>2, <1>3, <1>4, <1>5, <1>6, <1>7, <1>8, <1>9, <1>10 DEF Fits, Flags, Numbers, Maybe, s

\* A zone of either command and an interface have names.
LEMMA NamesOf ==
  ASSUME NEW t, Block(t), NEW cmd \in Named, NEW v \in Values(t, cmd)
  PROVE  v.name \in STRING /\ v.external \in BOOLEAN
<1>1. PICK i \in DOMAIN t : v = t[i].val /\ t[i].cmd = cmd
  BY DEF Values
<1>2. QED
  BY <1>1, TextIs DEF Captured, Takes

LEMMA PanInterfacesType ==
  ASSUME NEW shown, NEW zones, \A v \in shown : v.name \in STRING
  PROVE  PanInterfaces(shown, zones) \in SUBSET Interfaces
<1>1. ASSUME NEW v \in shown
      PROVE  [name |-> v.name,
              facing |-> v.external \/ \E z \in zones : z.external /\ v.name \in z.members] \in Interfaces
  <2>1. (v.external \/ \E z \in zones : z.external /\ v.name \in z.members) \in BOOLEAN
    OBVIOUS
  <2>2. \A S : \A n \in S : \A b \in BOOLEAN : [name |-> n, facing |-> b] \in [name : S, facing : BOOLEAN]
    OBVIOUS
  <2>3. QED
    BY <2>1, <2>2, Zenon DEF Interfaces
<1>2. QED
  BY <1>1, Zenon DEF PanInterfaces

\* The number of the first of some positions.
LEMMA NumberAt ==
  ASSUME NEW t, Block(t), NEW I \in SUBSET (1 .. Len(t)), \A i \in I : t[i].cmd \in PanNumbered
  PROVE  ValueAt(t, I) \in Maybe(Int)
<1>1. I # {} => Min(I) \in I
  BY LeastPlace
<1>2. \A i \in I : t[i].val \in Maybe(Int)
  BY TextIs DEF Captured, Takes
<1>3. QED
  BY <1>1, <1>2 DEF ValueAt, Maybe

LEMMA PanXmlFits == ASSUME NEW t, Block(t) PROVE Fits(PanFields(XmlReads(t)))
<1> DEFINE q == XmlReads(t)
           x == Everywhere(t)
<1>1. Block(x)
  BY EverywhereIs
<1>2. q.flag \in [PanServices -> BOOLEAN]
  BY DEF XmlReads
<1>3. q.idle \in Maybe(Int)
  <2>1. q.idle = ValueAt(x, PlacesOf(x, "set mgt-config idle-timeout"))
    BY <1>1, FirstAt DEF XmlReads
  <2>2. QED
    BY <1>1, <2>1, NumberAt DEF PlacesOf, PanNumbered
<1>4. q.minLength \in Maybe(Int)
  <2>1. q.minLength = ValueAt(x, Lengths(x))
    BY LengthAt
  <2>2. Lengths(x) \in SUBSET (1 .. Len(x)) /\ \A i \in Lengths(x) : x[i].cmd \in PanNumbered
    BY DEF Lengths, PanNumbered
  <2> HIDE DEF x, q
  <2>3. QED
    BY <1>1, <2>1, <2>2, NumberAt
<1>5. q.syslog \in BOOLEAN /\ q.ntp \in BOOLEAN /\ q.communities \in BOOLEAN
  BY DEF XmlReads, Has
<1>6. PanInterfaces(q.shown, q.zones) \in SUBSET Interfaces
  <2>1. q.shown = Values(x, "set network interface")
    BY DEF XmlReads
  <2>2. \A v \in q.shown : v.name \in STRING
    BY <1>1, <2>1, NamesOf DEF Named
  <2>3. QED
    BY <2>2, PanInterfacesType
<1>7. \A z \in q.zones : z.name \in STRING
  <2>1. q.zones = Values(x, "set vsys")
    BY DEF XmlReads
  <2>2. QED
    BY <1>1, <2>1, NamesOf DEF Named
<1>8. q.unmapped \in SUBSET Nat
  BY DEF XmlReads
<1> HIDE DEF q
<1>9. QED
  BY <1>2, <1>3, <1>4, <1>5, <1>6, <1>7, <1>8, PanFits DEF q

LEMMA PanSetFits == ASSUME NEW t, Block(t) PROVE Fits(PanFields(SetReads(t)))
<1> DEFINE r == SetReads(t)
<1>1. r.flag \in [PanServices -> BOOLEAN]
  <2>1. r.flag = [service \in PanServices |-> LastFlag(t, service)]
    BY DEF SetReads
  <2>2. QED
    BY <2>1, FlagsAre
<1>2. /\ r.idle = ValueAt(t, DigitsOf(t, "set mgt-config idle-timeout"))
      /\ r.minLength = ValueAt(t, DigitsOf(t, "set shared minimum-length"))
  BY FirstAt DEF SetReads
<1>3. r.idle \in Maybe(Int)
  BY <1>2, NumberAt DEF DigitsOf, PanNumbered
<1>4. r.minLength \in Maybe(Int)
  BY <1>2, NumberAt DEF DigitsOf, PanNumbered
<1>5. r.syslog \in BOOLEAN /\ r.ntp \in BOOLEAN /\ r.communities \in BOOLEAN
  BY DEF SetReads, Has
<1>6. PanInterfaces(r.shown, r.zones) \in SUBSET Interfaces
  <2>1. r.shown \subseteq Values(t, "set network interface")
    BY DEF SetReads
  <2>2. \A v \in r.shown : v.name \in STRING
    BY <2>1, NamesOf DEF Named
  <2>3. QED
    BY <2>2, PanInterfacesType
<1>7. \A z \in r.zones : z.name \in STRING
  <2>1. r.zones = Values(t, "set zone") \union Values(t, "set vsys")
    BY DEF SetReads, SetZones
  <2>2. QED
    BY <2>1, NamesOf DEF Named
<1>8. r.unmapped \in SUBSET Nat
  BY TextIs DEF SetReads
<1> HIDE DEF r
<1>9. QED
  BY <1>1, <1>3, <1>4, <1>5, <1>6, <1>7, <1>8, PanFits DEF r

\* parse_configuration of any vendor fills the schema, when it does not raise.
LEMMA ParsedType ==
  ASSUME NEW t, Text(t), NEW vendor
  PROVE  Parse(vendor, t) \in Maybe(SecurityIRs)
<1>0. Block(t) /\ \A S : \A r \in S : r \in Maybe(S)
  BY DEF Text, Maybe
<1>1. ParseCisco(t) \in SecurityIRs
  BY CiscoFits, FilledFits DEF ParseCisco
<1>2. ParseFortinet(t) \in SecurityIRs
  BY FortinetFits, FilledFits DEF ParseFortinet
<1>3. ParsePanXml(t) \in SecurityIRs
  BY <1>0, PanXmlFits, FilledFits DEF ParsePanXml, PanIR
<1>4. ParsePanSet(t) \in SecurityIRs
  BY <1>0, PanSetFits, FilledFits DEF ParsePanSet, PanIR
<1>8. None \in Maybe(SecurityIRs)
  BY DEF Maybe
<1>9. Parse(vendor, t) \in {ParseCisco(t), ParseFortinet(t), ParsePanSet(t), ParsePanXml(t), None}
  BY DEF Parse
<1>10. QED
  BY <1>0, <1>1, <1>2, <1>3, <1>4, <1>8, <1>9

-----------------------------------------------------------------------------
(* Type correctness                                                        *)

\* The runs that were asked for, and the one the scan itself ends with.
TypeInv ==
  /\ file \in Files /\ stage \in Stages
  /\ ir \in Maybe(SecurityIRs) /\ context \in Maybe(Contexts) /\ risk \in Maybe(Scale)
  /\ IsFiniteSet(runs) /\ Cardinality(runs) <= IF stage = "completed" THEN MaxRuns + 1 ELSE MaxRuns

LEMMA ParseAsType ==
  ASSUME TypeInv, NEW vendor, ParseAs(vendor)
  PROVE  ir' \in Maybe(SecurityIRs) /\ stage' \in {"failed", "parsed"}
<1>1. Text(file.text)
  BY AnalysisAssumption DEF TypeInv
<1>2. QED
  BY <1>1, ParsedType DEF ParseAs

LEMMA RiskScaled == ASSUME AnalyseRisk PROVE risk' \in Maybe(Scale)
BY RiskType DEF AnalyseRisk, Maybe

\* compare_strategies adds one run.
LEMMA CompareCounts ==
  ASSUME NEW budget, Compare(budget), IsFiniteSet(runs)
  PROVE  IsFiniteSet(runs') /\ Cardinality(runs') <= Cardinality(runs) + 1
<1>1. PICK r : runs' = runs \union {r}
  BY DEF Compare
<1>2. /\ IsFiniteSet(runs \union {r})
      /\ Cardinality(runs \union {r}) = IF r \in runs THEN Cardinality(runs) ELSE Cardinality(runs) + 1
  BY FS_AddElement
<1>3. Cardinality(runs) \in Nat
  BY FS_CardinalityType
<1>4. QED
  BY <1>1, <1>2, <1>3

LEMMA TypeSteps == TypeInv /\ [Next]_vars => TypeInv'
<1> SUFFICES ASSUME TypeInv, [Next]_vars PROVE TypeInv'
  OBVIOUS
<1>0. /\ MaxRuns \in Nat /\ Cardinality(runs) \in Nat
      /\ \A S : \A x \in S : x \in Maybe(S)
  BY AnalysisAssumption, FS_CardinalityType DEF TypeInv, Maybe
<1>1. CASE DetectVendor
  <2>1. /\ stage = "uploaded" /\ runs' = runs /\ file' = file /\ context' = context /\ risk' = risk
    BY <1>1 DEF DetectVendor
  <2>2. ir' \in Maybe(SecurityIRs) /\ stage' \in {"asked", "failed", "parsed"}
    <3>1. CASE stage' = "asked" /\ UNCHANGED ir
      BY <3>1 DEF TypeInv
    <3>2. CASE ParseAs(detected'.vendor)
      BY <3>2, ParseAsType
    <3>3. QED
      BY <1>1, <3>1, <3>2 DEF DetectVendor
  <2>3. QED
    BY <2>1, <2>2 DEF TypeInv, Stages
<1>2. CASE ConfirmVendor
  <2>1. /\ stage = "asked" /\ runs' = runs /\ file' = file /\ context' = context /\ risk' = risk
        /\ ParseAs(file.vendor)
    BY <1>2 DEF ConfirmVendor
  <2>2. ir' \in Maybe(SecurityIRs) /\ stage' \in {"failed", "parsed"}
    BY <2>1, ParseAsType
  <2>3. QED
    BY <2>1, <2>2 DEF TypeInv, Stages
<1>3. CASE AnalyseCompliance
  <2>1. /\ stage = "parsed" /\ stage' = "compliance" /\ runs' = runs /\ file' = file /\ risk' = risk /\ ir' = ir
        /\ context' \in Contexts
    BY <1>3 DEF AnalyseCompliance
  <2>2. context' \in Maybe(Contexts)
    BY <2>1 DEF Maybe
  <2>3. QED
    BY <2>1, <2>2 DEF TypeInv, Stages
<1>4. CASE AnalyseRisk
  <2>1. /\ stage = "compliance" /\ stage' = "risk" /\ runs' = runs /\ file' = file /\ context' = context /\ ir' = ir
        /\ risk' = RiskScore(ir, context)
    BY <1>4 DEF AnalyseRisk
  <2>2. risk' \in Maybe(Scale)
    BY <1>4, RiskScaled
  <2>3. stage' \in Stages
    BY <2>1 DEF Stages
  <2>4. QED
    BY <2>1, <2>2, <2>3 DEF TypeInv
<1>5. CASE BuildAttackGraph
  BY <1>5 DEF BuildAttackGraph, TypeInv, Stages
<1>6. CASE Optimise
  <2>1. /\ stage = "graph" /\ stage' = "completed" /\ file' = file /\ context' = context /\ ir' = ir /\ risk' = risk
    BY <1>6 DEF Optimise
  <2>2. IsFiniteSet(runs') /\ Cardinality(runs') <= Cardinality(runs) + 1
    <3>1. CASE Findings(status) = <<>>
      BY <1>0, <1>6, <3>1 DEF Optimise, TypeInv
    <3>2. CASE Findings(status) # <<>>
      BY <1>6, <3>2, CompareCounts DEF Optimise, TypeInv
    <3>3. QED
      BY <3>1, <3>2
  <2>3. Cardinality(runs') \in Nat
    BY <2>2, FS_CardinalityType
  <2>4. Cardinality(runs') <= MaxRuns + 1
    BY <1>0, <2>1, <2>2, <2>3 DEF TypeInv
  <2>5. QED
    BY <2>1, <2>2, <2>4 DEF TypeInv, Stages
<1>7. ASSUME NEW b \in Budgets, RunOptimizer(b) PROVE TypeInv'
  <2>1. /\ stage' = stage /\ file' = file /\ context' = context /\ ir' = ir /\ risk' = risk
        /\ Cardinality(runs) < MaxRuns
    BY <1>7 DEF RunOptimizer
  <2>2. IsFiniteSet(runs') /\ Cardinality(runs') <= Cardinality(runs) + 1
    BY <1>7, CompareCounts DEF RunOptimizer, TypeInv
  <2>3. Cardinality(runs') \in Nat
    BY <2>2, FS_CardinalityType
  <2>4. QED
    BY <1>0, <2>1, <2>2, <2>3 DEF TypeInv
<1>8. CASE UNCHANGED vars
  BY <1>8 DEF vars, TypeInv
<1>9. QED
  BY <1>1, <1>2, <1>3, <1>4, <1>5, <1>6, <1>7, <1>8 DEF Next

\* Whatever the files say, every parser fills the schema of the IR with values of its
\* types, whichever vendor the file was detected as, the risk stays within its scale and a
\* scan has one run more than its clients asked for.
THEOREM TypeCorrect == Spec => []TypeOK
<1>1. Init => TypeInv
  <2> SUFFICES ASSUME Init PROVE TypeInv
    OBVIOUS
  <2>1. IsFiniteSet(runs) /\ Cardinality(runs) = 0
    BY FS_EmptySet DEF Init
  <2>2. file \in Files /\ stage = "uploaded" /\ ir = None /\ context = None /\ risk = None
    BY DEF Init
  <2>3. \A S : None \in Maybe(S)
    BY DEF Maybe
  <2>4. /\ ir \in Maybe(SecurityIRs) /\ context \in Maybe(Contexts) /\ risk \in Maybe(Scale)
    BY <2>2, <2>3
  <2>5. QED
    BY <2>1, <2>2, <2>4, AnalysisAssumption DEF TypeInv, Stages
<1>2. TypeInv => TypeOK
  <2> SUFFICES ASSUME TypeInv PROVE TypeOK
    OBVIOUS
  <2>1. Cardinality(runs) \in Nat /\ MaxRuns \in Nat
    BY AnalysisAssumption, FS_CardinalityType DEF TypeInv
  <2>2. Cardinality(runs) <= MaxRuns + 1
    BY <2>1 DEF TypeInv
  <2>3. risk \in Maybe(0 .. 10000)
    BY DEF TypeInv, Scale
  <2>4. QED
    BY <2>2, <2>3 DEF TypeInv, TypeOK
<1>3. QED
  BY <1>1, <1>2, TypeSteps, PTL DEF Spec

-----------------------------------------------------------------------------
(* Detection                                                               *)

Vendors7 == {"Cisco", "Fortinet", "PaloAlto", "Juniper", "Arista", "CheckPoint", "SONiC"}

LEMMA RegisteredIs ==
  /\ Len(Registered) = 7 /\ DOMAIN Registered = 1 .. 7 /\ ToSet(Registered) = Vendors7
  /\ \A i \in 1 .. 7 : Registered[i] \in Vendors7
<1>1. /\ DOMAIN Registered = 1 .. 7 /\ Len(Registered) = 7
      /\ Registered[1] = "Cisco" /\ Registered[2] = "Fortinet" /\ Registered[3] = "PaloAlto"
      /\ Registered[4] = "Juniper" /\ Registered[5] = "Arista" /\ Registered[6] = "CheckPoint"
      /\ Registered[7] = "SONiC"
  BY DEF Registered
<1>2. \A i \in 1 .. 7 : Registered[i] \in Vendors7
  BY <1>1 DEF Vendors7
<1>3. \A v \in Vendors7 : \E i \in 1 .. 7 : Registered[i] = v
  BY <1>1 DEF Vendors7
<1>4. ToSet(Registered) = Vendors7
  BY <1>1, <1>2, <1>3 DEF ToSet
<1>5. QED
  BY <1>1, <1>2, <1>4

LEMMA Pair == ASSUME NEW a, NEW b PROVE IsFiniteSet({a, b}) /\ (a # b => Cardinality({a, b}) = 2)
<1> DEFINE A == {a}
<1>1. IsFiniteSet(A) /\ Cardinality(A) = 1 /\ (b \in A <=> b = a)
  BY FS_Singleton
<1>2. {a, b} = A \union {b}
  OBVIOUS
<1> HIDE DEF A
<1>3. /\ IsFiniteSet(A \union {b})
      /\ Cardinality(A \union {b}) = IF b \in A THEN Cardinality(A) ELSE Cardinality(A) + 1
  BY <1>1, FS_AddElement
<1>4. QED
  BY <1>1, <1>2, <1>3

LEMMA Three ==
  ASSUME NEW a, NEW b, NEW c
  PROVE  IsFiniteSet({a, b, c}) /\ (a # b /\ b # c /\ a # c => Cardinality({a, b, c}) = 3)
<1> DEFINE A == {a, b}
<1>1. IsFiniteSet(A) /\ (a # b => Cardinality(A) = 2) /\ (c \in A <=> c = a \/ c = b)
  BY Pair
<1>2. {a, b, c} = A \union {c}
  OBVIOUS
<1> HIDE DEF A
<1>3. /\ IsFiniteSet(A \union {c})
      /\ Cardinality(A \union {c}) = IF c \in A THEN Cardinality(A) ELSE Cardinality(A) + 1
  BY <1>1, FS_AddElement
<1>4. QED
  BY <1>1, <1>2, <1>3

LEMMA Four == ASSUME NEW a, NEW b, NEW c, NEW d PROVE IsFiniteSet({a, b, c, d})
<1> DEFINE A == {a, b}
           B == {c, d}
<1>1. IsFiniteSet(A) /\ IsFiniteSet(B)
  BY Pair
<1>2. {a, b, c, d} = A \union B
  OBVIOUS
<1> HIDE DEF A, B
<1>3. IsFiniteSet(A \union B)
  BY <1>1, FS_Union
<1>4. QED
  BY <1>2, <1>3

LEMMA Eight ==
  ASSUME NEW a, NEW b, NEW c, NEW d, NEW e, NEW f, NEW g, NEW h
  PROVE  IsFiniteSet({a, b, c, d, e, f, g, h})
<1> DEFINE A == {a, b, c, d}
           B == {e, f, g, h}
<1>1. IsFiniteSet(A) /\ IsFiniteSet(B)
  BY Four
<1>2. {a, b, c, d, e, f, g, h} = A \union B
  OBVIOUS
<1> HIDE DEF A, B
<1>3. IsFiniteSet(A \union B)
  BY <1>1, FS_Union
<1>4. QED
  BY <1>2, <1>3

LEMMA Six == ASSUME NEW a, NEW b, NEW c, NEW d, NEW e, NEW f PROVE IsFiniteSet({a, b, c, d, e, f})
<1> DEFINE A == {a, b, c, d}
           B == {e, f}
<1>1. IsFiniteSet(A) /\ IsFiniteSet(B)
  BY Four, Pair
<1>2. {a, b, c, d, e, f} = A \union B
  OBVIOUS
<1> HIDE DEF A, B
<1>3. IsFiniteSet(A \union B)
  BY <1>1, FS_Union
<1>4. QED
  BY <1>2, <1>3

LEMMA Seven ==
  ASSUME NEW a, NEW b, NEW c, NEW d, NEW e, NEW f, NEW g PROVE IsFiniteSet({a, b, c, d, e, f, g})
<1> DEFINE A == {a, b, c, d}
           B == {e, f, g}
<1>1. IsFiniteSet(A) /\ IsFiniteSet(B)
  BY Four, Three
<1>2. {a, b, c, d, e, f, g} = A \union B
  OBVIOUS
<1> HIDE DEF A, B
<1>3. IsFiniteSet(A \union B)
  BY <1>1, FS_Union
<1>4. QED
  BY <1>2, <1>3

LEMMA HintsAre ==
  /\ \A v \in Vendors7 : IsFiniteSet(Hints[v])
  /\ Cardinality(Hints["Juniper"]) = 3 /\ Cardinality(Hints["Arista"]) = 3
  /\ Cardinality(Hints["CheckPoint"]) = 3 /\ Cardinality(Hints["SONiC"]) = 2
<1>1. /\ Hints["Juniper"] = {{"set system host-name"}, {"set interfaces"}, {"junos", "<configuration"}}
      /\ Hints["Arista"] = {{"! device: arista"}, {"eos"}, {"interface ethernet"}}
      /\ Hints["CheckPoint"] = {{"checkpoint"}, {"gaia"}, {"set interface", "set interfaces"}}
      /\ Hints["SONiC"] = {{"sonic"}, {"config_db.json"}}
  BY DEF Hints
<1>2. /\ Hints["Cisco"] = {{"ip ssh version"}, {"line vty"}, {"interface gigabitethernet"},
                           {"interface fastethernet"}, {"enable secret"}, {"ip access-list"},
                           {"no service password-recovery"}, {"ios-xe"}}
      /\ Hints["Fortinet"] = {{"config system interface"}, {"config firewall policy"}, {"allowaccess"},
                              {"config system global"}, {"next end"}, {"fortios"}}
      /\ Hints["PaloAlto"] = {{"set deviceconfig ntp-servers", "set deviceconfig snmp-community-string"},
                              {"set network interface"}, {"set rulebase security rules"},
                              {"set vsys", "set vsys rulebase"},
                              {"pan-os"}, {"panos"}, {"<devices><entry"}}
  BY DEF Hints
<1>3. IsFiniteSet(Hints["Cisco"])
  <2> DEFINE a == {"ip ssh version"}
             b == {"line vty"}
             c == {"interface gigabitethernet"}
             d == {"interface fastethernet"}
             e == {"enable secret"}
             f == {"ip access-list"}
             g == {"no service password-recovery"}
             h == {"ios-xe"}
  <2> HIDE DEF a, b, c, d, e, f, g, h
  <2>1. IsFiniteSet({a, b, c, d, e, f, g, h})
    BY Eight
  <2>2. QED
    BY <1>2, <2>1 DEF a, b, c, d, e, f, g, h
<1>4. IsFiniteSet(Hints["Fortinet"])
  <2> DEFINE a == {"config system interface"}
             b == {"config firewall policy"}
             c == {"allowaccess"}
             d == {"config system global"}
             e == {"next end"}
             f == {"fortios"}
  <2> HIDE DEF a, b, c, d, e, f
  <2>1. IsFiniteSet({a, b, c, d, e, f})
    BY Six
  <2>2. QED
    BY <1>2, <2>1 DEF a, b, c, d, e, f
<1>5. IsFiniteSet(Hints["PaloAlto"])
  <2> DEFINE a == {"set deviceconfig ntp-servers", "set deviceconfig snmp-community-string"}
             b == {"set network interface"}
             c == {"set rulebase security rules"}
             d == {"set vsys", "set vsys rulebase"}
             e == {"pan-os"}
             f == {"panos"}
             g == {"<devices><entry"}
  <2> HIDE DEF a, b, c, d, e, f, g
  <2>1. IsFiniteSet({a, b, c, d, e, f, g})
    BY Seven
  <2>2. QED
    BY <1>2, <2>1 DEF a, b, c, d, e, f, g
<1>6. IsFiniteSet(Hints["Juniper"]) /\ Cardinality(Hints["Juniper"]) = 3
  <2> DEFINE a == {"set system host-name"}
             b == {"set interfaces"}
             c == {"junos", "<configuration"}
  <2>1. a # b /\ b # c /\ a # c
    OBVIOUS
  <2> HIDE DEF a, b, c
  <2>2. IsFiniteSet({a, b, c}) /\ Cardinality({a, b, c}) = 3
    BY <2>1, Three
  <2>3. QED
    BY <1>1, <2>2 DEF a, b, c
<1>7. IsFiniteSet(Hints["Arista"]) /\ Cardinality(Hints["Arista"]) = 3
  <2> DEFINE a == {"! device: arista"}
             b == {"eos"}
             c == {"interface ethernet"}
  <2>1. a # b /\ b # c /\ a # c
    OBVIOUS
  <2> HIDE DEF a, b, c
  <2>2. IsFiniteSet({a, b, c}) /\ Cardinality({a, b, c}) = 3
    BY <2>1, Three
  <2>3. QED
    BY <1>1, <2>2 DEF a, b, c
<1>8. IsFiniteSet(Hints["CheckPoint"]) /\ Cardinality(Hints["CheckPoint"]) = 3
  <2> DEFINE a == {"checkpoint"}
             b == {"gaia"}
             c == {"set interface", "set interfaces"}
  <2>1. a # b /\ b # c /\ a # c
    OBVIOUS
  <2> HIDE DEF a, b, c
  <2>2. IsFiniteSet({a, b, c}) /\ Cardinality({a, b, c}) = 3
    BY <2>1, Three
  <2>3. QED
    BY <1>1, <2>2 DEF a, b, c
<1>9. IsFiniteSet(Hints["SONiC"]) /\ Cardinality(Hints["SONiC"]) = 2
  <2> DEFINE a == {"sonic"}
             b == {"config_db.json"}
  <2>1. a # b
    OBVIOUS
  <2> HIDE DEF a, b
  <2>2. IsFiniteSet({a, b}) /\ Cardinality({a, b}) = 2
    BY <2>1, Pair
  <2>3. QED
    BY <1>1, <2>2 DEF a, b
<1>10. \A v \in Vendors7 : IsFiniteSet(Hints[v])
  BY <1>3, <1>4, <1>5, <1>6, <1>7, <1>8, <1>9, Zenon DEF Vendors7
<1>11. QED
  BY <1>6, <1>7, <1>8, <1>9, <1>10

LEMMA HitsType == ASSUME NEW v \in Vendors7, NEW t PROVE Hits(v, t) \in Nat
<1> DEFINE S == {h \in Hints[v] : h \intersect Words(t) # {}}
<1>1. IsFiniteSet(S)
  BY HintsAre, FS_Subset
<1> HIDE DEF S
<1>2. Cardinality(S) \in Nat
  BY <1>1, FS_CardinalityType
<1>3. Hits(v, t) = Cardinality(S)
  BY DEF Hits, S
<1>4. QED
  BY <1>2, <1>3

LEMMA SignatureType == ASSUME NEW v \in Vendors7, NEW t PROVE Signature(v, t) \in Int
<1>1. Hits(v, t) \in Nat
  BY HitsType
<1>2. CASE v \in {"Cisco", "Fortinet", "PaloAlto"}
  BY <1>1, <1>2 DEF Signature, Most, Least, Sure, BangScore, ExportScore
<1>3. CASE v \in {"Juniper", "Arista", "CheckPoint", "SONiC"}
  <2>1. Cardinality(Hints[v]) \in {2, 3}
    BY <1>3, HintsAre
  <2>2. Signature(v, t) = (180 * Hits(v, t)) \div Cardinality(Hints[v])
    BY <1>3 DEF Signature
  <2>3. QED
    BY <1>1, <2>1, <2>2
<1>4. QED
  BY <1>2, <1>3 DEF Vendors7

\* No parser scores at the threshold without the hints, or what is taken for an export.
LEMMA ScoreIsEvidence ==
  ASSUME NEW v \in Vendors7, NEW t, Signature(v, t) >= Threshold
  PROVE  Evident(v, t)
<1>1. Hits(v, t) \in Nat
  BY HitsType
<1>2. CASE v = "Cisco"
  BY <1>1, <1>2 DEF Signature, Most, Least, Sure, BangScore, Threshold, Evident
<1>3. CASE v = "Fortinet"
  BY <1>1, <1>3 DEF Signature, Least, Sure, Threshold, Evident
<1>4. CASE v = "PaloAlto"
  <2>1. ExportScore(t) \in {0, 180}
    BY DEF ExportScore
  <2>2. Signature(v, t) = Most(Least(Sure, 100 * Hits(v, t)), ExportScore(t))
    BY <1>4 DEF Signature
  <2>3. Evident(v, t) <=> Hits(v, t) >= 2 \/ ExportScore(t) > 0
    BY <1>4 DEF Evident
  <2>4. QED
    BY <1>1, <2>1, <2>2, <2>3 DEF Most, Least, Sure, Threshold
<1>5. CASE v \in {"Juniper", "Arista", "CheckPoint"}
  <2>1. Signature(v, t) = (180 * Hits(v, t)) \div 3
    BY <1>5, HintsAre DEF Signature
  <2>2. Hits(v, t) >= 2
    BY <1>1, <2>1 DEF Threshold
  <2>3. QED
    BY <1>5, <2>2 DEF Evident
<1>6. CASE v = "SONiC"
  <2>1. Signature(v, t) = (180 * Hits(v, t)) \div 2
    BY <1>6, HintsAre DEF Signature
  <2>2. Hits(v, t) >= 2
    BY <1>1, <2>1 DEF Threshold
  <2>3. QED
    BY <1>6, <2>2 DEF Evident
<1>7. QED
  BY <1>2, <1>3, <1>4, <1>5, <1>6 DEF Vendors7

\* What the fold over the registered parsers starts from, and what it takes from one.
NoVendor == [vendor |-> Registered[1], confidence |-> -1, method |-> "signature"]
Scored(f, v) == Most(Signature(v, f.text), f.embedding[v])
Chosen(f, v) ==
  [vendor |-> v, confidence |-> Scored(f, v),
   method |-> IF Signature(v, f.text) >= f.embedding[v] THEN "signature" ELSE "embedding"]
Guesses(f) == {NoVendor} \union {Chosen(f, v) : v \in Vendors7}
Weighed(f, best, v) == IF Scored(f, v) <= best.confidence THEN best ELSE Chosen(f, v)

GuessedBy(f, G) ==
  G = [t \in SUBSET DOMAIN Registered |->
         IF t = {} THEN NoVendor ELSE Weighed(f, G[t \ {Max(t)}], Registered[Max(t)])]

LEMMA DetectFolds ==
  ASSUME NEW f, f.hint \notin ToSet(Registered)
  PROVE  Detect(f.text, f.hint, f.embedding) = (CHOOSE G : GuessedBy(f, G))[DOMAIN Registered]
BY DEF Detect, FoldLeft, MapThenFoldSet, GuessedBy, NoVendor, Weighed, Chosen, Scored

Beats(f, I, best) == \A i \in I : Scored(f, Registered[i]) <= best.confidence

LEMMA ScoredType == ASSUME NEW f, f.embedding \in [Vendors7 -> Int], NEW v \in Vendors7 PROVE Scored(f, v) \in Int
<1>1. Signature(v, f.text) \in Int /\ f.embedding[v] \in Int
  BY SignatureType
<1>2. QED
  BY <1>1 DEF Scored, Most

\* The better of two guesses is a guess, and as good as both.
LEMMA WeighedIn ==
  ASSUME NEW f, f.embedding \in [Vendors7 -> Int], NEW best \in Guesses(f), NEW v \in Vendors7
  PROVE  /\ Weighed(f, best, v) \in Guesses(f)
         /\ best.confidence \in Int /\ Weighed(f, best, v).confidence \in Int
         /\ best.confidence <= Weighed(f, best, v).confidence
         /\ Scored(f, v) <= Weighed(f, best, v).confidence
<1>1. Weighed(f, best, v) \in Guesses(f)
  BY DEF Weighed, Guesses
<1>2. \A g \in Guesses(f) : g.confidence \in Int
  <2>1. NoVendor.confidence \in Int
    BY DEF NoVendor
  <2>2. ASSUME NEW u \in Vendors7 PROVE Chosen(f, u).confidence \in Int
    BY ScoredType DEF Chosen
  <2>3. QED
    BY <2>1, <2>2 DEF Guesses
<1>3. best.confidence \in Int /\ Weighed(f, best, v).confidence \in Int /\ Scored(f, v) \in Int
  BY <1>1, <1>2, ScoredType
<1>4. Chosen(f, v).confidence = Scored(f, v)
  BY DEF Chosen
<1>5. QED
  BY <1>1, <1>3, <1>4 DEF Weighed

\* Detection without a registered hint ends with the first registered vendor at no
\* confidence, or with what one parser scored, and no parser scores higher.
LEMMA DetectedIs ==
  ASSUME NEW f, f.hint \notin ToSet(Registered), f.embedding \in [Vendors7 -> Int]
  PROVE  /\ Detect(f.text, f.hint, f.embedding) \in Guesses(f)
         /\ \A v \in Vendors7 : Scored(f, v) <= Detect(f.text, f.hint, f.embedding).confidence
<1> DEFINE D == DOMAIN Registered
           V == Guesses(f)
           step == [i \in D |-> [best \in V |-> Weighed(f, best, Registered[i])]]
           first == [t \in SUBSET D |-> Max(t)]
<1>1. IsFiniteSet(D) /\ \A i \in D : Registered[i] \in Vendors7
  <2>1. IsFiniteSet(1 .. 7)
    BY FS_Interval, 1 \in Int, 7 \in Int
  <2>2. QED
    BY <2>1, RegisteredIs
<1>2. step \in [D -> [V -> V]] /\ NoVendor \in V
  <2>1. NoVendor \in V
    BY DEF Guesses
  <2>2. \A i \in D : \A best \in V : Weighed(f, best, Registered[i]) \in V
    BY <1>1, WeighedIn
  <2> HIDE DEF V
  <2>3. QED
    BY <2>1, <2>2
<1>3. \A t \in SUBSET D : t # {} => Max(t) \in t /\ first[t] = Max(t) /\ first[t] \in t
  <2>1. \A t \in SUBSET D : t # {} => Max(t) \in t
    BY MaxIn, RegisteredIs
  <2>2. QED
    BY <2>1
<1>4. \E g \in [SUBSET D -> V] : Folds(SUBSET D, NoVendor, step, first, g)
  <2> HIDE DEF D, V, step, first
  <2>1. QED
    BY <1>1, <1>2, <1>3, FoldExists
<1>5. PICK g \in [SUBSET D -> V] : Folds(SUBSET D, NoVendor, step, first, g)
  BY <1>4
<1>6. GuessedBy(f, g)
  <2>1. ASSUME NEW t \in SUBSET D
        PROVE  g[t] = IF t = {} THEN NoVendor ELSE Weighed(f, g[t \ {Max(t)}], Registered[Max(t)])
    <3>1. CASE t = {}
      BY <1>5, <3>1 DEF Folds
    <3>2. CASE t # {}
      <4>1. Max(t) \in D /\ first[t] = Max(t) /\ g[t \ {Max(t)}] \in V
        <5> HIDE DEF V, D
        <5>1. t \ {Max(t)} \in SUBSET D
          OBVIOUS
        <5>2. QED
          BY <1>3, <1>5, <3>2, <5>1
      <4>2. g[t] = step[Max(t)][g[t \ {Max(t)}]]
        <5> HIDE DEF D, V, step, first
        <5>1. QED
          BY <1>5, <3>2, <4>1 DEF Folds
      <4> HIDE DEF V, D
      <4>3. QED
        BY <3>2, <4>1, <4>2
    <3>3. QED
      BY <3>1, <3>2
  <2>2. QED
    BY <1>5, <2>1 DEF GuessedBy
<1> DEFINE G == CHOOSE G : GuessedBy(f, G)
<1>7. GuessedBy(f, G)
  BY <1>6
<1> HIDE DEF G
<1>8. ASSUME NEW t \in SUBSET D
      PROVE  G[t] = IF t = {} THEN NoVendor ELSE Weighed(f, G[t \ {Max(t)}], Registered[Max(t)])
  BY <1>7 DEF GuessedBy
<1> DEFINE Bad == {t \in SUBSET D : ~ (G[t] \in V /\ Beats(f, t, G[t]))}
<1>9. ASSUME Bad # {} PROVE FALSE
  <2>1. PICK t \in Bad : \A u \in Bad : u \subseteq t => u = t
    <3>1. Bad \in SUBSET (SUBSET D)
      OBVIOUS
    <3> HIDE DEF Bad, D
    <3>2. QED
      BY <1>1, <1>9, <3>1, SmallestSet
  <2>2. t \in SUBSET D /\ ~ (G[t] \in V /\ Beats(f, t, G[t]))
    OBVIOUS
  <2>3. t # {}
    <3> HIDE DEF V, D
    <3>1. G[{}] = NoVendor /\ Beats(f, {}, NoVendor)
      BY <1>8 DEF Beats
    <3>2. QED
      BY <1>2, <2>2, <3>1
  <2>4. Max(t) \in t /\ t \ {Max(t)} \in SUBSET D /\ t \ {Max(t)} # t
    <3> HIDE DEF D, V
    <3>1. QED
      BY <1>3, <2>2, <2>3
  <2>5. G[t \ {Max(t)}] \in V /\ Beats(f, t \ {Max(t)}, G[t \ {Max(t)}])
    <3>1. t \ {Max(t)} \notin Bad
      <4> HIDE DEF Bad, D
      <4>1. QED
        BY <2>1, <2>4
    <3>2. QED
      BY <2>4, <3>1
  <2>6. Registered[Max(t)] \in Vendors7
    BY <1>1, <2>2, <2>4
  <2> DEFINE m == Max(t)
             last == G[t \ {m}]
  <2>7. /\ Weighed(f, last, Registered[m]) \in V
        /\ last.confidence \in Int /\ Weighed(f, last, Registered[m]).confidence \in Int
        /\ last.confidence <= Weighed(f, last, Registered[m]).confidence
        /\ Scored(f, Registered[m]) <= Weighed(f, last, Registered[m]).confidence
    BY <2>5, <2>6, WeighedIn
  <2>8. G[t] = Weighed(f, last, Registered[m])
    <3> HIDE DEF D
    <3>1. QED
      BY <1>8, <2>2, <2>3
  <2>9. ASSUME NEW i \in t PROVE Scored(f, Registered[i]) <= G[t].confidence
    <3>1. Scored(f, Registered[i]) \in Int
      BY <1>1, <2>2, ScoredType
    <3>2. CASE i = m
      BY <2>7, <2>8, <3>2
    <3>3. CASE i # m
      <4>1. Scored(f, Registered[i]) <= last.confidence
        BY <2>5, <3>3 DEF Beats
      <4> HIDE DEF last, m
      <4>2. QED
        BY <2>7, <2>8, <3>1, <4>1
    <3>4. QED
      BY <3>2, <3>3
  <2>10. QED
    <3> HIDE DEF D, V, Bad, last, m
    <3>1. QED
      BY <2>2, <2>7, <2>8, <2>9 DEF Beats
<1>10. G[D] \in V /\ Beats(f, D, G[D])
  <2>1. D \in SUBSET D /\ D \notin Bad
    <3> HIDE DEF Bad, D
    <3>1. QED
      BY <1>9
  <2>2. QED
    BY <2>1
<1>11. Detect(f.text, f.hint, f.embedding) = G[D]
  BY DetectFolds DEF G
<1>12. \A v \in Vendors7 : \E i \in D : Registered[i] = v
  BY RegisteredIs DEF ToSet
<1>13. QED
  BY <1>10, <1>11, <1>12 DEF Beats

\* Detection at the threshold, without a registered hint, has evidence of its vendor.
LEMMA DetectedOnEvidence ==
  ASSUME NEW f, f.embedding \in [Vendors7 -> Int], f.hint \notin ToSet(Registered),
         NEW d, d = Detect(f.text, f.hint, f.embedding), ~ (d.confidence < Threshold)
  PROVE  f.embedding[d.vendor] >= Threshold \/ Evident(d.vendor, f.text)
<1>1. d # NoVendor
  BY DEF NoVendor, Threshold
<1>2. PICK v \in Vendors7 : d = Chosen(f, v)
  BY <1>1, DetectedIs DEF Guesses
<1>3. Signature(v, f.text) \in Int /\ f.embedding[v] \in Int
  BY SignatureType
<1>4. d.vendor = v /\ d.confidence = Scored(f, v)
  BY <1>2 DEF Chosen
<1>5. Signature(v, f.text) >= Threshold \/ f.embedding[v] >= Threshold
  BY <1>3, <1>4 DEF Scored, Most, Threshold
<1>6. QED
  BY <1>4, <1>5, ScoreIsEvidence

\* No version is parsed before detection, and none is asked about that a registered hint
\* names.
DetectInv ==
  /\ file \in Files
  /\ stage \in {"uploaded", "asked"} => ir = None
  /\ stage = "asked" => file.hint \notin ToSet(Registered)
  /\ ParsedOnEvidence

LEMMA DetectStep == DetectInv /\ DetectVendor => DetectInv'
<1> SUFFICES ASSUME DetectInv, DetectVendor PROVE DetectInv'
  OBVIOUS
<1> DEFINE d == Detect(file.text, file.hint, file.embedding)
<1>1. stage = "uploaded" /\ file' = file /\ file \in Files /\ ir = None /\ detected' = d
  BY DEF DetectVendor, DetectInv
<1>2. file.embedding \in [Vendors7 -> Int] /\ None \notin ToSet(Registered) /\ ToSet(Registered) = Vendors7
  BY <1>1, AnalysisAssumption, RegisteredIs
<1>3. CASE file.hint \in ToSet(Registered)
  <2>1. d.vendor = file.hint /\ d.confidence = Sure
    BY <1>3 DEF Detect
  <2>2. stage' \in {"failed", "parsed"}
    BY <1>1, <2>1 DEF DetectVendor, ParseAs, Sure, Threshold
  <2> HIDE DEF d
  <2>3. QED
    BY <1>1, <1>2, <1>3, <2>1, <2>2 DEF DetectInv, ParsedOnEvidence
<1>4. CASE file.hint \notin ToSet(Registered)
  <2>1. \A v \in Vendors7 : Most(Signature(v, file.text), file.embedding[v]) <= d.confidence
    BY <1>2, <1>4, DetectedIs DEF Scored
  <2> HIDE DEF d
  <2>2. CASE d.confidence < Threshold /\ file.hint = None
    BY <1>1, <1>4, <2>2 DEF DetectVendor, DetectInv, ParsedOnEvidence
  <2>3. CASE ~ (d.confidence < Threshold /\ file.hint = None)
    <3>1. stage' \in {"failed", "parsed"}
      BY <1>1, <2>3 DEF DetectVendor, ParseAs
    <3>2. file.hint = None => file.embedding[d.vendor] >= Threshold \/ Evident(d.vendor, file.text)
      BY <1>2, <1>4, <2>3, DetectedOnEvidence DEF d
    <3>3. QED
      BY <1>1, <1>2, <1>4, <2>1, <3>1, <3>2 DEF DetectInv, ParsedOnEvidence
  <2>4. QED
    BY <2>2, <2>3
<1>5. QED
  BY <1>3, <1>4

LEMMA DetectSteps == DetectInv /\ [Next]_vars => DetectInv'
<1> SUFFICES ASSUME DetectInv, [Next]_vars PROVE DetectInv'
  OBVIOUS
<1>1. CASE DetectVendor
  BY <1>1, DetectStep
<1>2. CASE ConfirmVendor
  <2>1. /\ file' = file /\ detected'.method = "human" /\ stage' \in {"failed", "parsed"}
        /\ file \in Files /\ file.hint \notin ToSet(Registered)
    BY <1>2 DEF ConfirmVendor, ParseAs, DetectInv
  <2>2. file.hint = None \/ file.hint # None
    OBVIOUS
  <2>3. QED
    BY <2>1 DEF DetectInv, ParsedOnEvidence
<1>3. CASE AnalyseCompliance
  BY <1>3 DEF AnalyseCompliance, DetectInv, ParsedOnEvidence
<1>4. CASE AnalyseRisk
  BY <1>4 DEF AnalyseRisk, DetectInv, ParsedOnEvidence
<1>5. CASE BuildAttackGraph
  BY <1>5 DEF BuildAttackGraph, DetectInv, ParsedOnEvidence
<1>6. CASE Optimise
  BY <1>6 DEF Optimise, DetectInv, ParsedOnEvidence
<1>7. ASSUME NEW b \in Budgets, RunOptimizer(b) PROVE DetectInv'
  BY <1>7 DEF RunOptimizer, DetectInv, ParsedOnEvidence
<1>8. CASE UNCHANGED vars
  BY <1>8 DEF vars, DetectInv, ParsedOnEvidence
<1>9. QED
  BY <1>1, <1>2, <1>3, <1>4, <1>5, <1>6, <1>7, <1>8 DEF Next

\* Whatever the files say, whatever the embeddings find and whatever clients hint at: a
\* file is parsed as the vendor a registered hint names or as one that no other outscores,
\* and without a hint and a human only on evidence of that vendor.
THEOREM AlwaysParsedOnEvidence == Spec => []ParsedOnEvidence
<1>1. Init => DetectInv
  BY DEF Init, DetectInv, ParsedOnEvidence
<1>2. DetectInv => ParsedOnEvidence
  BY DEF DetectInv
<1>3. QED
  BY <1>1, <1>2, DetectSteps, PTL DEF Spec

-----------------------------------------------------------------------------
(* The invariant                                                           *)

\* What each stage has stored, and that it is about the same IR.
IInv ==
  /\ ir # None => Consistent(ir)
  /\ stage = "parsed" => ir # None
  /\ status # None => /\ stage \in {"compliance", "risk", "graph", "completed"}
                      /\ ir # None /\ status = Evaluate(ir)
  /\ stage \in {"compliance", "risk"} => ir # None /\ status = Evaluate(ir)
  /\ stage = "risk" => risk = RiskScore(ir, context)
  /\ graph # None => /\ stage \in {"graph", "completed"}
                     /\ Grounded(graph.paths, ir, status, context)

LEMMA ParseStep ==
  ASSUME IInv, NEW vendor, ParseAs(vendor), stage \in {"uploaded", "asked"},
         status' = status, graph' = graph
  PROVE  IInv'
<1>1. status = None /\ graph = None
  BY DEF IInv
<1>2. ir' = Parse(vendor, file.text) /\ stage' = IF ir' = None THEN "failed" ELSE "parsed"
  BY DEF ParseAs
<1>3. ir' # None => Consistent(ir')
  BY <1>2, ParsedConsistent
<1>4. QED
  BY <1>1, <1>2, <1>3 DEF IInv

LEMMA EveryStep == IInv /\ [Next]_vars => IInv'
<1> SUFFICES ASSUME IInv, [Next]_vars PROVE IInv'
  OBVIOUS
<1>1. CASE DetectVendor
  <2>1. stage = "uploaded" /\ status' = status /\ graph' = graph /\ status = None /\ graph = None
    BY <1>1 DEF DetectVendor, IInv
  <2>2. CASE stage' = "asked" /\ UNCHANGED ir
    BY <2>1, <2>2 DEF IInv
  <2>3. CASE ParseAs(detected'.vendor)
    BY <2>1, <2>3, ParseStep
  <2>4. QED
    BY <1>1, <2>2, <2>3 DEF DetectVendor
<1>2. CASE ConfirmVendor
  BY <1>2, ParseStep DEF ConfirmVendor
<1>3. CASE AnalyseCompliance
  <2>1. /\ stage = "parsed" /\ stage' = "compliance" /\ status' = Evaluate(ir)
        /\ ir' = ir /\ graph' = graph /\ ir # None /\ graph = None
    BY <1>3 DEF AnalyseCompliance, IInv
  <2>2. QED
    BY <2>1 DEF IInv
<1>4. CASE AnalyseRisk
  <2>1. /\ stage = "compliance" /\ stage' = "risk" /\ risk' = RiskScore(ir, context)
        /\ ir' = ir /\ status' = status /\ context' = context /\ graph' = graph
    BY <1>4 DEF AnalyseRisk
  <2>2. graph = None /\ RiskScore(ir', context') = RiskScore(ir, context)
    BY <2>1 DEF IInv
  <2>3. QED
    BY <2>1, <2>2 DEF IInv
<1>5. CASE BuildAttackGraph
  <2>1. /\ stage = "risk" /\ stage' = "graph" /\ ir' = ir /\ status' = status /\ context' = context
        /\ ir # None /\ status = Evaluate(ir) /\ Consistent(ir)
        /\ graph'.paths = AttackPaths(Graph(ir, context), Findings(status))
    BY <1>5 DEF BuildAttackGraph, IInv
  <2>2. Grounded(graph'.paths, ir, status, context)
    BY <2>1, PathsGrounded
  <2>3. QED
    BY <2>1, <2>2 DEF IInv
<1>6. CASE Optimise
  BY <1>6 DEF Optimise, IInv
<1>7. CASE \E b \in Budgets : RunOptimizer(b)
  BY <1>7 DEF RunOptimizer, IInv
<1>8. CASE UNCHANGED vars
  BY <1>8 DEF vars, IInv
<1>9. QED
  BY <1>1, <1>2, <1>3, <1>4, <1>5, <1>6, <1>7, <1>8 DEF Next

LEMMA Invariant == Spec => []IInv
<1>1. Init => IInv
  BY DEF Init, IInv
<1>2. QED
  BY <1>1, EveryStep, PTL DEF Spec

\* Whatever the file, a device fails the aggregate controls exactly when it fails one they
\* aggregate, and an exposed management plane comes with one of its root causes.
THEOREM AggregatesAlwaysAgree == Spec => []AggregatesAgree
<1>1. IInv => AggregatesAgree
  BY AggregatesFollow DEF IInv, AggregatesAgree
<1>2. QED
  BY <1>1, Invariant, PTL

\* Whatever the file and the asset, a path is reported exactly of a device that one of its
\* interfaces exposes in front of a critical asset, and every service on a path is a finding.
THEOREM PathsAlwaysGrounded == Spec => []PathsAreGrounded
<1>1. IInv => PathsAreGrounded
  BY DEF IInv, PathsAreGrounded, Grounded, Finding
<1>2. QED
  BY <1>1, Invariant, PTL

\* Whatever the file, the asset and the finding, remediating the finding does not raise
\* the risk score of the device: no control newly fails or loses its pass, each of the
\* three scores that depend on the controls falls or stays, rounding included.
THEOREM FixesNeverRaiseRisk == Spec => []FixNeverRaisesRisk
<1>1. IInv => FixNeverRaisesRisk
  BY FixLowers DEF IInv, FixNeverRaisesRisk, RiskLower
<1>2. QED
  BY <1>1, Invariant, PTL
===============================================================================
