-------------------------------- MODULE Vendors --------------------------------
(***************************************************************************)
(* The parsers (app/vendors/cisco.py, fortinet.py, paloalto.py) and the    *)
(* registry that chooses among them (registry.py, base.py).                *)
(*                                                                         *)
(* A configuration is a sequence of statements [cmd, val, body]: a command *)
(* with what follows it abstracted to what the parser tells apart, and the *)
(* statements of its block.  In FortiOS a statement is a config section,   *)
(* its body the set and edit statements.  A file whose first statement is  *)
(* an XML root is an export: val tells whether it is well formed, and the  *)
(* others are the set commands it corresponds to.                          *)
(* Device name, version and addresses are not read.                        *)
(***************************************************************************)
EXTENDS SecurityIR, FiniteSets, SequencesExt

\* The position of the first statement with a command, or 0.
Find(t, cmd) == SelectInSeq(t, LAMBDA l : l.cmd = cmd)
Has(t, cmd)  == \E i \in DOMAIN t : t[i].cmd = cmd
HasAny(t, cmds) == \E i \in DOMAIN t : t[i].cmd \in cmds
Values(t, cmd) == {t[i].val : i \in {j \in DOMAIN t : t[j].cmd = cmd}}
First(t, cmd) == IF Has(t, cmd) THEN t[Find(t, cmd)].val ELSE None
ReadAt(t, i) == IF i = 0 THEN None ELSE t[i].val

CiscoInterface == {"interface", "interface gigabitethernet", "interface fastethernet",
                   "interface ethernet"}

\* What the expressions of the parsers capture: digits, minutes and seconds, a name with
\* whether it hints at the outside, a service and its flag.
Numbered == {"ip ssh version", "security passwords min-length", "ssh-version", "idle-timeout",
             "minimum-length"}
PanNumbered == {"set mgt-config idle-timeout", "set mgt-config minimum-length", "set shared minimum-length"}
Named == CiscoInterface \union {"edit", "set network interface", "set zone", "set vsys"}
Takes(cmd, val) ==
  /\ cmd \in Numbered => val \in Int
  /\ cmd \in PanNumbered => val \in Maybe(Int)   \* None: a word
  /\ cmd = "exec-timeout" => val \in Int \X Int
  /\ cmd \in Named => val.name \in STRING /\ val.external \in BOOLEAN
  /\ cmd = "zone security" => val \in STRING
  /\ cmd = "set network profiles" => val \in STRING \X STRING
Captured(l) ==
  /\ Takes(l.cmd, l.val)
  /\ l.cmd = "set template" => l.val.cmd # "set template" /\ Takes(l.val.cmd, l.val.val)

\* Statements, two levels of blocks deep.
Block(t) == t \in Seq(ToSet(t)) /\ \A l \in ToSet(t) : Captured(l)
Text(t) ==
  Block(t) /\ \A l \in ToSet(t) : Block(l.body) /\ \A m \in ToSet(l.body) : Block(m.body)

-----------------------------------------------------------------------------
(* Cisco IOS                                                               *)

\* Commands with one of the prefixes _KNOWN_TOP_LEVEL_PREFIXES.  "no logging on",
\* the finger commands and "ip bootp server" have none, though parse reads them.
CiscoKnown ==
  CiscoInterface \union
  {"!", "! device: arista", "ip ssh version", "ip ssh", "ip http server", "no ip http server",
   "ip http secure-server", "line vty", "enable secret", "enable password", "username",
   "aaa accounting", "security passwords min-length", "logging", "ntp server", "snmp-server",
   "snmp-server community", "snmp-server group v3", "access-list", "ip access-list",
   "zone security", "no service password-recovery"}

CiscoRule(r) == IF r = <<"permit", "any", "any">> THEN "unrestricted" ELSE "restricted"

\* A vty block without a restriction permits telnet.
VtyTelnet(block) ==
  \/ ~Has(block, "transport input")
  \/ \E protocols \in Values(block, "transport input") : protocols \intersect {"telnet", "all"} # {}

CiscoFields(t) ==
  LET vty == {t[i].body : i \in {j \in DOMAIN t : t[j].cmd = "line vty"}}
      timed == SelectLastInSeq(t, LAMBDA l : l.cmd = "line vty" /\ Has(l.body, "exec-timeout"))
      telnet == IF vty = {} THEN None ELSE \E block \in vty : VtyTelnet(block)
      http == IF Has(t, "no ip http server") THEN FALSE
              ELSE IF Has(t, "ip http server") THEN TRUE ELSE None
      interfaces == {[name |-> l.val.name,
                      facing |-> l.val.external \/ First(l.body, "description") = "external"]
                      : l \in {t[i] : i \in {j \in DOMAIN t : t[j].cmd \in CiscoInterface}}}
      listed == UNION {{b.body[j].val : j \in DOMAIN b.body}
                        : b \in {t[i] : i \in {j \in DOMAIN t : t[j].cmd = "ip access-list"}}}
      snmp == HasAny(t, {"snmp-server", "snmp-server community", "snmp-server group v3"})
      communities == Has(t, "snmp-server community")
  IN  [sshVersion |-> First(t, "ip ssh version"),
       ssh |-> IF HasAny(t, {"ip ssh version", "ip ssh"}) THEN TRUE ELSE None,
       telnet |-> telnet,
       http |-> http,
       https |-> IF Has(t, "ip http secure-server") THEN TRUE ELSE None,
       timeout |-> IF timed = 0 THEN None
                   ELSE LET m == First(t[timed].body, "exec-timeout") IN m[1] * 60 + m[2],
       minLength |-> First(t, "security passwords min-length"),
       privileged |-> Has(t, "enable secret") /\ ~Has(t, "enable password"),
       defaultCredentials |-> "default" \in Values(t, "username"),
       logging |-> ~Has(t, "no logging on"),
       syslog |-> Has(t, "logging"),
       audit |-> Has(t, "aaa accounting"),
       ntp |-> Has(t, "ntp server"),
       snmp |-> snmp,
       snmpVersion |-> IF Has(t, "snmp-server group v3") THEN "3"
                       ELSE IF communities THEN "2c" ELSE None,
       communities |-> communities,
       interfaces |-> interfaces,
       exposed |-> Exposed(interfaces),
       zones |-> Values(t, "zone security"),
       rules |-> {CiscoRule(r) : r \in Values(t, "access-list") \union listed},
       insecure |-> Insecure(telnet, http),
       unused |-> (IF HasAny(t, {"ip finger", "service finger"}) THEN {"finger"} ELSE {})
                  \union (IF Has(t, "ip bootp server") THEN {"bootp"} ELSE {}),
       unmapped |-> {i \in DOMAIN t : t[i].cmd \notin CiscoKnown}]

ParseCisco(t) == Filled(CiscoFields(t))

-----------------------------------------------------------------------------
(* FortiOS                                                                 *)

Section(t, name) == IF Has(t, name) THEN t[Find(t, name)].body ELSE <<>>
Edits(section) == {section[i] : i \in {j \in DOMAIN section : section[j].cmd = "edit"}}

\* Every set statement of the file, in order, as a search of the whole text sees them.
SetsOf(section) ==
  FlattenSeq([i \in DOMAIN section |->
                IF section[i].cmd = "edit" THEN section[i].body ELSE <<section[i]>>])
AllSets(t) == FlattenSeq([i \in DOMAIN t |-> SetsOf(t[i].body)])

Allows(e, service) == Has(e.body, "allowaccess") /\ service \in First(e.body, "allowaccess")

Or(value, default) == IF value = None THEN default ELSE value

FortinetRule(e) ==
  IF /\ First(e.body, "action") = "accept"
     /\ First(e.body, "srcaddr") = "all" /\ First(e.body, "dstaddr") = "all"
     /\ Or(First(e.body, "service"), "any") \in {"all", "any"}
  THEN "unrestricted" ELSE "restricted"

\* Sections reported as unmapped: those outside known_section_names and not of users
\* or logs.
FortinetUnmapped == {"config system admin", "config vpn ipsec"}

FortinetFields(t) ==
  LET sets == AllSets(t)
      edits == Edits(Section(t, "config system interface"))
      version == IF First(Section(t, "config system global"), "admin-ssh-v1") = "enable"
                 THEN 1 ELSE First(sets, "ssh-version")
      telnet == \E e \in edits : Allows(e, "telnet")
      http == \E e \in edits : Allows(e, "http")
      interfaces == {[name |-> e.val.name,
                      facing |-> First(e.body, "role") = "wan" \/ e.val.external] : e \in edits}
      idle == First(sets, "idle-timeout")
      syslog == Section(t, "config log syslogd setting")
      communities == Edits(Section(t, "config system snmp community")) # {}
  IN  [sshVersion |-> version,
       ssh |-> Has(sets, "ssh-version") \/ \E e \in edits : Allows(e, "ssh"),
       telnet |-> telnet,
       http |-> http,
       https |-> \E e \in edits : Allows(e, "https"),
       timeout |-> IF idle = None THEN None ELSE idle * 60,
       minLength |-> First(Section(t, "config system password-policy"), "minimum-length"),
       mfa |-> IF Values(sets, "two-factor") \ {"disable"} # {} THEN TRUE ELSE None,
       logging |-> "enable" \in Values(sets, "status"),
       syslog |-> First(syslog, "status") = "enable" /\ Has(syslog, "server"),
       audit |-> HasAny(t, {"config log syslogd setting", "config log memory setting"}),
       ntp |-> First(Section(t, "config system ntp"), "ntpsync") = "enable",
       snmp |-> \/ First(Section(t, "config system snmp sysinfo"), "status") = "enable"
                \/ Has(t, "config system snmp community"),
       snmpVersion |-> IF Has(t, "config system snmp user") THEN "3"
                       ELSE IF communities THEN "2c" ELSE None,
       communities |-> communities,
       interfaces |-> interfaces,
       exposed |-> Exposed(interfaces),
       zones |-> {e.val.name : e \in Edits(Section(t, "config system zone"))},
       rules |-> {FortinetRule(e) : e \in Edits(Section(t, "config firewall policy"))},
       insecure |-> Insecure(telnet, http),
       unmapped |-> {i \in DOMAIN t : t[i].cmd \in FortinetUnmapped}]

ParseFortinet(t) == Filled(FortinetFields(t))

-----------------------------------------------------------------------------
(* PAN-OS                                                                  *)

Roots == {"<config", "<configuration", "<panorama"}
IsXml(t) == t # <<>> /\ t[1].cmd \in Roots

\* Set commands reported as unmapped: those without one of _KNOWN_SET_PREFIXES.
PanUnmapped == {"set foo", "set system host-name", "set interfaces", "set template"}

\* A template wraps a command, and is val of "set template".  A search of the XML finds
\* an element under any other; the expressions for set commands, which start with
\* "set", find none in a template, but for the one of SNMP communities.
Everywhere(t) == [i \in DOMAIN t |-> IF t[i].cmd = "set template" THEN t[i].val ELSE t[i]]

\* A member of a zone whose name hints at the outside is Internet-facing.
PanInterfaces(shown, zones) ==
  {[name |-> v.name,
    facing |-> v.external \/ \E z \in zones : z.external /\ v.name \in z.members] : v \in shown}

FirstMember(members) == IF members = <<>> THEN "any" ELSE members[1]
PanRule(r) ==
  IF r.action = "allow" /\ FirstMember(r.src) = "any" /\ FirstMember(r.dst) = "any"
  THEN "unrestricted" ELSE "restricted"

PanServices == {"ssh", "https", "http", "telnet"}

\* What both parsers make of what each of them reads.
PanFields(read) ==
  LET interfaces == PanInterfaces(read.shown, read.zones)
  IN  [ssh |-> read.flag["ssh"],
       sshVersion |-> IF read.flag["ssh"] THEN 2 ELSE None,
       https |-> read.flag["https"],
       http |-> read.flag["http"],
       telnet |-> read.flag["telnet"],
       timeout |-> IF read.idle = None THEN None ELSE read.idle * 60,
       minLength |-> read.minLength,
       logging |-> TRUE,
       syslog |-> read.syslog,
       ntp |-> read.ntp,
       snmp |-> read.communities,
       communities |-> read.communities,
       interfaces |-> interfaces,
       exposed |-> Exposed(interfaces),
       zones |-> {z.name : z \in read.zones},
       rules |-> {PanRule(r) : r \in read.rules},
       insecure |-> Insecure(read.flag["telnet"], read.flag["http"]),
       unmapped |-> read.unmapped]

PanIR(read) == Filled(PanFields(read))

\* A flag is on when some management profile has it on; the first idle timeout and the
\* first minimum length count, if they are numbers; zones are those of a vsys; a
\* community counts inside of snmp-setting.
XmlReads(t) ==
  LET x == Everywhere(t)
  IN  [flag |-> [service \in PanServices |-> <<service, "yes">> \in Values(x, "set network profiles")],
       idle |-> First(x, "set mgt-config idle-timeout"),
       minLength |-> ReadAt(x, SelectInSeq(x,
         LAMBDA l : l.cmd \in {"set shared minimum-length", "set mgt-config minimum-length"})),
       syslog |-> Has(x, "set shared syslog"),
       ntp |-> Has(x, "set deviceconfig ntp-servers"),
       communities |-> Has(x, "set deviceconfig snmp-community-string"),
       shown |-> Values(x, "set network interface"),
       zones |-> Values(x, "set vsys"),
       rules |-> Values(x, "set rulebase security rules") \union Values(x, "set vsys rulebase"),
       unmapped |-> {}]

ParsePanXml(t) == PanIR(XmlReads(t))

\* Mutant: zones of a vsys are missed.
TopZones(t) == Values(t, "set zone")

SetZones(t) == Values(t, "set zone") \union Values(t, "set vsys")

\* The first command whose argument is a number.
FirstDigits(t, cmd) == ReadAt(t, SelectInSeq(t, LAMBDA l : l.cmd = cmd /\ l.val # None))

\* The flags go into one dictionary, so the last profile decides.
LastFlag(t, service) ==
  LET said == SelectLastInSeq(t, LAMBDA l : l.cmd = "set network profiles" /\ l.val[1] = service)
  IN  said # 0 /\ t[said].val[2] = "yes"

\* Only interfaces with an address are listed, only rules with one source and one
\* destination match the expression, and a community counts wherever it is set.
SetReads(t) ==
  [flag |-> [service \in PanServices |-> LastFlag(t, service)],
   idle |-> FirstDigits(t, "set mgt-config idle-timeout"),
   minLength |-> FirstDigits(t, "set shared minimum-length"),
   syslog |-> Has(t, "set shared syslog"),
   ntp |-> Has(t, "set deviceconfig ntp-servers"),
   communities |-> \/ Has(Everywhere(t), "set deviceconfig snmp-community-string")
                   \/ Has(Everywhere(t), "set shared snmp-community-string"),
   shown |-> {v \in Values(t, "set network interface") : v.ip},
   zones |-> SetZones(t),
   rules |-> {r \in Values(t, "set rulebase security rules") : Len(r.src) = 1 /\ Len(r.dst) = 1},
   unmapped |-> {i \in DOMAIN t : t[i].cmd \in PanUnmapped}]

ParsePanSet(t) == PanIR(SetReads(t))

-----------------------------------------------------------------------------
(* The registry                                                            *)

\* The registration order, which decides between equal scores.
Registered == <<"Cisco", "Fortinet", "PaloAlto", "Juniper", "Arista", "CheckPoint", "SONiC">>

\* parse_configuration: None stands for the exception.
Parse(vendor, t) ==
  CASE vendor = "Cisco" -> ParseCisco(t)
    [] vendor = "Fortinet" -> ParseFortinet(t)
    [] vendor = "PaloAlto" /\ ~IsXml(t) -> ParsePanSet(t)
    [] vendor = "PaloAlto" /\ IsXml(t) -> IF t[1].val = "well-formed" THEN ParsePanXml(t) ELSE None
    [] OTHER -> None

\* What substring search finds in a file: its commands, one element per hint a command
\* contains.  An XML export shows its root element only.
Words(t) ==
  IF IsXml(t) THEN {t[1].cmd}
  ELSE LET sets == AllSets(t)
       IN  {l.cmd : l \in ToSet(t) \union ToSet(sets)}
           \union {"next end" : e \in UNION {Edits(l.body) : l \in ToSet(t)}}

\* SIGNATURE_HINTS of each vendor; a hint is the set of words that contain it.
Hints ==
  [Cisco |-> {{"ip ssh version"}, {"line vty"}, {"interface gigabitethernet"},
              {"interface fastethernet"}, {"enable secret"}, {"ip access-list"},
              {"no service password-recovery"}, {"ios-xe"}},
   Fortinet |-> {{"config system interface"}, {"config firewall policy"}, {"allowaccess"},
                 {"config system global"}, {"next end"}, {"fortios"}},
   PaloAlto |-> {{"set deviceconfig ntp-servers", "set deviceconfig snmp-community-string"},
                 {"set network interface"}, {"set rulebase security rules"},
                 {"set vsys", "set vsys rulebase"},
                 {"pan-os"}, {"panos"}, {"<devices><entry"}},
   Juniper |-> {{"set system host-name"}, {"set interfaces"}, {"junos", "<configuration"}},
   Arista |-> {{"! device: arista"}, {"eos"}, {"interface ethernet"}},
   CheckPoint |-> {{"checkpoint"}, {"gaia"}, {"set interface", "set interfaces"}},
   SONiC |-> {{"sonic"}, {"config_db.json"}}]

Hits(vendor, t) ==
  LET words == Words(t) IN Cardinality({h \in Hints[vendor] : h \intersect words # {}})

Least(a, b) == IF a < b THEN a ELSE b
Most(a, b) == IF a > b THEN a ELSE b

\* detect_confidence of each parser, in units of 1/300: the exact thirds and quarters
\* of the code.
Sure == 300
Threshold == 165

InterfaceWords ==
  CiscoInterface \union {"config system interface", "set network interface", "set interfaces"}

\* Mutant: the separators are as good as three command hints.
SureBangScore(t) ==
  IF "!" \in Words(t) /\ InterfaceWords \intersect Words(t) # {}
  THEN 225 ELSE 0

BangScore(t) ==
  IF "!" \in Words(t) /\ InterfaceWords \intersect Words(t) # {}
  THEN 150 ELSE 0

\* "<config" anywhere in a file, a Junos export or a comment included, or "panorama" in
\* one that is XML, is taken for a PAN-OS export.
ConfigWords == {"<config", "<configuration", "! <config"}
ExportScore(t) ==
  IF ConfigWords \intersect Words(t) # {} \/ (IsXml(t) /\ "<panorama" \in Words(t)) THEN 180 ELSE 0

Signature(vendor, t) ==
  CASE vendor = "Cisco" -> Most(Least(Sure, 75 * Hits(vendor, t)), BangScore(t))
    [] vendor = "Fortinet" -> Least(Sure, 100 * Hits(vendor, t))
    [] vendor = "PaloAlto" -> Most(Least(Sure, 100 * Hits(vendor, t)), ExportScore(t))
    [] OTHER -> (180 * Hits(vendor, t)) \div Cardinality(Hints[vendor])

\* detect_vendor: a hint that is registered wins outright; otherwise the highest of
\* max(signature, embedding), the first registered among equals.
Detect(t, hint, embedding) ==
  IF hint \in ToSet(Registered)
  THEN [vendor |-> hint, confidence |-> Sure, method |-> "metadata"]
  ELSE FoldLeft(LAMBDA best, v :
                  LET signature == Signature(v, t)
                      score == Most(signature, embedding[v])
                  IN  IF score <= best.confidence THEN best
                      ELSE [vendor |-> v, confidence |-> score,
                            method |-> IF signature >= embedding[v] THEN "signature" ELSE "embedding"],
                [vendor |-> Registered[1], confidence |-> -1, method |-> "signature"], Registered)
================================================================================
