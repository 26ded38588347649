------------------------------ MODULE MCAnalysis ------------------------------
(***************************************************************************)
(* Files of three vendors, PAN-OS in both formats: nothing or a hardened   *)
(* device, with up to two statements before or after it that a real file   *)
(* may have, and some that detection finds hard.                           *)
(***************************************************************************)
EXTENDS Analysis

S(cmd, val, body) == [cmd |-> cmd, val |-> val, body |-> body]
Set(key, val) == S(key, val, <<>>)

Vty(body) == S("line vty", "0 4", body)
Ssh == <<Set("transport input", {"ssh"}), Set("exec-timeout", <<10, 0>>)>>
Port(kind, name, external, body) == S(kind, [name |-> name, external |-> external], body)

HardCisco ==
  <<Set("ip ssh version", 2), Set("no ip http server", ""), Set("ip http secure-server", ""), Vty(Ssh),
    Set("security passwords min-length", 12), Set("enable secret", ""), Set("username", "own"),
    Set("logging", ""), Set("aaa accounting", ""), Set("ntp server", ""),
    Port("interface gigabitethernet", "gi0", FALSE, <<>>), Set("access-list", <<"deny", "any", "any">>)>>

NeglectedCisco ==
  <<Set("ip ssh version", 1), Set("ip http server", ""), Vty(<<Set("exec-timeout", <<0, 0>>)>>),
    Set("security passwords min-length", 4), Set("enable password", ""), Set("username", "default"),
    Set("no logging on", ""), Set("snmp-server community", ""), Set("ip bootp server", ""),
    Port("interface gigabitethernet", "gi0", TRUE, <<>>), Set("access-list", <<"permit", "any", "any">>)>>

CiscoLines ==
  {Set("ip ssh version", 1), Set("ip ssh", ""), Set("ip http server", ""), Vty(<<>>),
   Vty(<<Set("transport input", {"all"}), Set("exec-timeout", <<0, 0>>)>>),
   Set("security passwords min-length", 6), Set("enable password", ""), Set("username", "default"),
   Set("no logging on", ""), Set("snmp-server community", ""), Set("snmp-server group v3", ""),
   Port("interface gigabitethernet", "gi0", FALSE, <<Set("description", "external")>>),
   Port("interface", "wan0", TRUE, <<>>), Port("interface fastethernet", "fa1", FALSE, <<>>),
   Set("zone security", "dmz"), Set("ip bootp server", ""), Set("access-list", <<"permit", "any", "any">>),
   S("ip access-list", "edge", <<Set("", <<"permit", "any", "any">>)>>), Set("router ospf", ""), Set("!", "")}

CiscoPairs == {l \in CiscoLines : l.cmd \in {"line vty", "enable password", "snmp-server community"}
                                  \/ l.cmd \in CiscoInterface}

Edit(name, external, sets) == S("edit", [name |-> name, external |-> external], sets)
Policy(src, dst) ==
  S("config firewall policy", "",
    <<Edit("1", FALSE, <<Set("action", "accept"), Set("srcaddr", src), Set("dstaddr", dst)>>)>>)
Ports(edits) == S("config system interface", "", edits)
HardFortinet ==
  <<S("config system global", "", <<Set("ssh-version", 2), Set("idle-timeout", 10)>>),
    S("config system password-policy", "", <<Set("minimum-length", 10)>>),
    S("config log syslogd setting", "", <<Set("status", "enable"), Set("server", "10.0.0.9")>>),
    S("config system ntp", "", <<Set("ntpsync", "enable")>>)>>
FortinetSections ==
  {Ports(<<Edit("port1", FALSE, <<Set("allowaccess", {"https", "ssh"})>>)>>),
   Ports(<<Edit("wan1", TRUE, <<Set("allowaccess", {"telnet", "https"})>>),
           Edit("port2", FALSE, <<Set("allowaccess", {"http"})>>)>>),
   Ports(<<Edit("port3", FALSE, <<Set("role", "wan"), Set("allowaccess", {"https"})>>)>>),
   S("config system global", "", <<Set("admin-ssh-v1", "enable"), Set("idle-timeout", 60)>>),
   S("config system admin", "", <<Edit("admin", FALSE, <<Set("two-factor", "fortitoken")>>)>>),
   S("config log memory setting", "", <<Set("status", "disable")>>),
   S("config system snmp sysinfo", "", <<Set("status", "enable")>>),
   S("config system snmp community", "", <<Edit("1", FALSE, <<>>)>>), S("config system snmp user", "", <<>>),
   S("config system zone", "", <<Edit("dmz", FALSE, <<>>)>>), Policy("all", "all"), Policy("lan", "all"),
   S("config vpn ipsec", "", <<>>)}

FortinetPairs == {s \in FortinetSections : s.cmd \in {"config system interface", "config system snmp community",
                                                        "config system admin", "config system zone"}}

Ethernet(name, external, ip) == Set("set network interface", [name |-> name, external |-> external, ip |-> ip])
Zone(cmd, name, external, members) == Set(cmd, [name |-> name, external |-> external, members |-> members])
Filter(action, src) == [action |-> action, src |-> src, dst |-> <<"any">>]
PanFilter(action, src) == Set("set rulebase security rules", Filter(action, src))
Template(l) == Set("set template", l)
HardPan ==
  <<Set("set network profiles", <<"ssh", "yes">>), Set("set network profiles", <<"https", "yes">>),
    Set("set mgt-config idle-timeout", 10), Set("set shared minimum-length", 10), Set("set shared syslog", ""),
    Set("set deviceconfig ntp-servers", ""), Ethernet("e1", FALSE, TRUE)>>
PanLines ==
  {Set("set network profiles", <<s, a>>) : s \in {"telnet", "http", "ssh"}, a \in {"yes", "no"}}
  \union {Ethernet("e2", FALSE, TRUE), Ethernet("e3", FALSE, FALSE), Ethernet("wan", TRUE, TRUE),
          Zone("set vsys", "untrust", TRUE, {"e1", "e2"}), Zone("set zone", "outside", TRUE, {"e1"}),
          Zone("set vsys", "trust", FALSE, {"e2"}), PanFilter("allow", <<"any">>), PanFilter("allow", <<"lan", "any">>),
          PanFilter("deny", <<"any">>), Set("set deviceconfig snmp-community-string", ""),
          Set("set mgt-config idle-timeout", 0), Set("set mgt-config idle-timeout", None),
          Set("set mgt-config minimum-length", 6), Set("set shared snmp-community-string", ""),
          Set("set vsys rulebase", Filter("allow", <<"any">>)),
          Template(Set("set mgt-config idle-timeout", 60)), Template(Set("set shared syslog", "")),
          Template(Set("set deviceconfig snmp-community-string", "")),
          Template(Set("set network profiles", <<"telnet", "yes">>)), Set("set foo", "")}

\* A hardened device or an empty file, a statement more, or two of those that interact.
Texts(hard, lines, pairs) ==
  {hard, <<>>} \union {<<a>> : a \in lines}
  \union {<<a>> \o hard : a \in lines} \union {hard \o <<a>> : a \in lines}
  \union {hard \o <<a, b>> : a \in pairs, b \in pairs}

PanPairs == {l \in PanLines : \/ l.cmd \in {"set vsys", "set network interface"}
                              \/ l.cmd = "set network profiles" /\ l.val[1] # "ssh"}

Xml(wellFormed, t) == <<Set("<config", IF wellFormed THEN "well-formed" ELSE "cut off")>> \o t

None0 == [v \in ToSet(Registered) |-> 0]
FileOf(vendor, hint, embedding, t) == [vendor |-> vendor, text |-> t, hint |-> hint, embedding |-> embedding]

\* Files of Arista and Juniper that share command hints with Cisco, a Junos export and a comment that look like a PAN-OS
\* export, one of Panorama and one cut off, a device on which everything is wrong, a wrong and an unknown hint, and
\* embeddings that find another vendor, above the threshold and below it.
Hard ==
  {FileOf("Arista", None, None0, <<Set("! device: arista", ""), Set("!", ""), Port("interface ethernet", "et1", FALSE, <<>>)>>),
   FileOf("Arista", None, None0, <<Set("! device: arista", ""), Set("enable secret", ""), Set("ip access-list", ""),
                                   Port("interface ethernet", "et1", FALSE, <<>>)>>),
   FileOf("Arista", None, None0, <<Set("! device: arista", ""), Set("eos", ""), Port("interface ethernet", "et1", FALSE, <<>>)>>),
   FileOf("Juniper", None, None0, <<Set("set system host-name", ""), Set("!", ""), Set("set interfaces", "")>>),
   FileOf("PaloAlto", None, None0, Xml(FALSE, HardPan)), FileOf("Cisco", "Fortinet", None0, HardCisco),
   FileOf("Cisco", None, None0, NeglectedCisco),
   FileOf("Juniper", None, None0, <<Set("<configuration", "well-formed"), Set("set system host-name", "")>>),
   FileOf("Cisco", None, None0, <<Set("! <config", ""), Set("ip ssh version", 2), Set("enable secret", "")>>),
   FileOf("PaloAlto", None, None0, <<Set("<panorama", "well-formed")>> \o HardPan),
   FileOf("Cisco", "unheard-of", None0, <<>>), FileOf("PaloAlto", "unheard-of", None0, <<Set("set network interface", [name |-> "e1", external |-> FALSE, ip |-> TRUE])>>),
   FileOf("Juniper", "unheard-of", None0, <<Set("set system host-name", ""), Set("!", ""), Set("set interfaces", "")>>),
   FileOf("Fortinet", None, [None0 EXCEPT !["PaloAlto"] = 150], <<S("config vpn ipsec", "", <<>>)>>),
   FileOf("Fortinet", None, [None0 EXCEPT !["Cisco"] = 200], HardFortinet)}

MCFiles ==
  Hard
  \union {FileOf("Cisco", None, None0, t) : t \in Texts(HardCisco, CiscoLines, CiscoPairs)}
  \union {FileOf("Fortinet", None, None0, t) : t \in Texts(HardFortinet, FortinetSections, FortinetPairs)}
  \union {FileOf("PaloAlto", None, None0, t) : t \in Texts(HardPan, PanLines, PanPairs)}
  \union {FileOf("PaloAlto", None, None0, Xml(TRUE, t)) : t \in Texts(HardPan, PanLines, PanPairs)}

MCContexts ==
  {[criticality |-> None, internet_exposure |-> TRUE], [criticality |-> "low", internet_exposure |-> FALSE],
   [criticality |-> "high", internet_exposure |-> FALSE], [criticality |-> "critical", internet_exposure |-> TRUE]}
MCBudgets == {-1, 1, 3}
===============================================================================
