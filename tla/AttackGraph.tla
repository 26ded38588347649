----------------------------- MODULE AttackGraph -----------------------------
(***************************************************************************)
(* The attack graph of a device (app/attack_graph/builder.py) and the      *)
(* potential attack paths in it (paths.py).  A node is its type and name:  *)
(* interfaces of one name are one node.  Labels and ports are left out.    *)
(***************************************************************************)
EXTENDS Risk

Internet == <<"internet", "INTERNET">>
Device   == <<"device", "device">>
Asset    == <<"asset", "asset">>
Interface(i) == <<"interface", i.name>>

\* The management services that hang off the device.
ExposedServices(ir) ==
  (IF ir.telnet = TRUE THEN {"telnet"} ELSE {})
  \union (IF ir.http = TRUE THEN {"http"} ELSE {})
  \* (ssh_version or 2) < 2: zero counts as not given.
  \union (IF ir.ssh = TRUE /\ ir.sshVersion = 1 THEN {"ssh-v1"} ELSE {})
  \union (IF ir.snmp = TRUE /\ ir.snmpVersion \in {"1", "2c"} /\ ir.communities = TRUE
          THEN {"snmp"} ELSE {})

Critical(context) == context.criticality \in {"high", "critical"}

\* Mutant: the asset hangs off the internal interfaces only.
InternalProtects(ir) == {Interface(i) : i \in {i \in ir.interfaces : ~i.facing}}

\* What the asset is reached from: the internal interfaces, or the device without any.
Protects(ir) ==
  LET internal == {i \in ir.interfaces : ~i.facing}
  IN  IF internal = {} THEN {Device} ELSE {Interface(i) : i \in internal}

\* build_attack_graph.
Graph(ir, context) ==
  LET facing == {i \in ir.interfaces : i.facing}
      services == {<<"service", s>> : s \in ExposedServices(ir)}
      zones == {<<"zone", z>> : z \in ir.zones}
  IN  [nodes |-> {Device} \union {Interface(i) : i \in ir.interfaces} \union services \union zones
                 \union (IF facing # {} \/ ir.exposed THEN {Internet} ELSE {})
                 \union (IF Critical(context) THEN {Asset} ELSE {}),
       edges |-> {<<Internet, Interface(i)>> : i \in facing}
                 \union {<<Interface(i), Device>> : i \in facing}
                 \union {<<Device, Interface(i)>> : i \in ir.interfaces \ facing}
                 \union {<<Device, n>> : n \in services \union zones}
                 \union (IF Critical(context) THEN {<<n, Asset>> : n \in Protects(ir)} ELSE {})]

MaxPathLength == 8

\* all_simple_paths from the Internet to the asset.
SimplePaths(g) ==
  LET walks[n \in 0..MaxPathLength] ==
        IF n = 0 THEN {<<Internet>>}
        ELSE UNION {{Append(p, e[2]) : e \in {e \in g.edges : e[1] = Last(p) /\ ~Contains(p, e[2])}}
                    : p \in {p \in walks[n - 1] : Last(p) # Asset}}
  IN  IF {Internet, Asset} \subseteq g.nodes
      THEN {p \in UNION {walks[n] : n \in 1..MaxPathLength} : Last(p) = Asset} ELSE {}

\* The services of the devices on a path.
ServicesOn(g, path) ==
  {e[2][2] : e \in {e \in g.edges : Contains(path, e[1]) /\ e[1] = Device /\ e[2][1] = "service"}}

\* find_potential_attack_paths; the list is sorted by contribution, which no reader's
\* result depends on.
AttackPaths(g, findings) ==
  {[path |-> p, services |-> ServicesOn(g, p),
    contribution |-> SumWeights(findings) + 10 * Cardinality(ServicesOn(g, p))] : p \in SimplePaths(g)}
===============================================================================
