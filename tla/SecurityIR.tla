------------------------------ MODULE SecurityIR ------------------------------
(***************************************************************************)
(* The Security Intermediate Representation                                *)
(* (app/normalization/ir_schema.py): what every parser produces and every  *)
(* engine reads.  Names, addresses and server lists are reduced to what    *)
(* the engines tell apart; the device block, which none of them reads, is  *)
(* left out.                                                               *)
(***************************************************************************)
EXTENDS Integers, Sequences

CONSTANT None   \* Python's None: the configuration does not say

ASSUME NoneAssumption == None \notin BOOLEAN \union Int

Maybe(S) == S \union {None}

\* What hangs off an interface name: whether the Internet reaches it.
Interfaces == [name : STRING, facing : BOOLEAN]

SecurityIRs ==
  [ssh : Maybe(BOOLEAN), sshVersion : Maybe(Int), telnet : Maybe(BOOLEAN),
   http : Maybe(BOOLEAN), https : Maybe(BOOLEAN), timeout : Maybe(Int),
   mfa : Maybe(BOOLEAN), minLength : Maybe(Int), defaultCredentials : Maybe(BOOLEAN),
   privileged : Maybe(BOOLEAN),
   logging : Maybe(BOOLEAN), syslog : Maybe(BOOLEAN), audit : Maybe(BOOLEAN),
   ntp : Maybe(BOOLEAN),
   snmp : Maybe(BOOLEAN), snmpVersion : Maybe({"1", "2c", "3"}), communities : Maybe(BOOLEAN),
   interfaces : SUBSET Interfaces, zones : SUBSET STRING,
   rules : SUBSET {"restricted", "unrestricted"},
   insecure : SUBSET {"telnet", "http_management"}, unused : SUBSET {"finger", "bootp"},
   exposed : BOOLEAN, unmapped : SUBSET Nat]

\* SecurityIR() before a parser fills it.
EmptyIR ==
  [ssh |-> None, sshVersion |-> None, telnet |-> None, http |-> None, https |-> None,
   timeout |-> None, mfa |-> None, minLength |-> None, defaultCredentials |-> None,
   privileged |-> None, logging |-> None, syslog |-> None, audit |-> None, ntp |-> None,
   snmp |-> None, snmpVersion |-> None, communities |-> None,
   interfaces |-> {}, zones |-> {}, rules |-> {}, insecure |-> {}, unused |-> {},
   exposed |-> FALSE, unmapped |-> {}]

\* A parser fills the fields it has values for.
Filled(fields) ==
  [f \in DOMAIN EmptyIR |-> IF f \in DOMAIN fields THEN fields[f] ELSE EmptyIR[f]]

\* The service list every parser derives from its management flags.
Insecure(telnet, http) ==
  (IF telnet = TRUE THEN {"telnet"} ELSE {}) \union (IF http = TRUE THEN {"http_management"} ELSE {})

\* internet_exposed, as every parser sets it from its interfaces.
Exposed(interfaces) == \E i \in interfaces : i.facing
===============================================================================
