----------------------------- MODULE Comparison -----------------------------
(***************************************************************************)
(* Does the live state satisfy the plan?  inventory_matches_plan of        *)
(* src/nslab/backend/base.py, by which deploy, destroy and inspect decide. *)
(***************************************************************************)
EXTENDS Inventory

(* None stands for what a plan leaves open.                                 *)
Allows(desired, observed) == desired = None \/ observed = desired

-----------------------------------------------------------------------------
(* What a plan expects of a node.                                           *)

(* expected_bridge_port_vlans: in the order of the manifest.                *)
ExpectedVlans(node, i) ==
  IF node.kind # "bridge" \/ ~node.bridge.vlan_filtering \/ Master(node, i) # node.bridge.name
  THEN <<>>
  ELSE IF i \in DOMAIN node.bridge.ports /\ node.bridge.ports[i].vlans # <<>>
  THEN node.bridge.ports[i].vlans ELSE <<Pvid1>>

ExpectedPort(node, i) ==
  IF node.kind # "bridge" \/ i \notin DOMAIN node.bridge.ports THEN NoPort
  ELSE [s \in DOMAIN NoPort |-> node.bridge.ports[i][s]]

Plain(kind) ==
  [kind |-> kind, master |-> None, mtu |-> None, up |-> TRUE, addrs |-> {}, mac |-> None,
   stp |-> None, vlan_filtering |-> None, priority |-> None, port |-> NoPort, vlans |-> <<>>,
   qdisc |-> None, data |-> NoData]

ExpectedBridge(node) ==
  [Plain("bridge") EXCEPT !.stp = node.bridge.stp, !.priority = node.bridge.priority,
                          !.vlan_filtering = node.bridge.vlan_filtering]
ExpectedEnd(plan, n, i) ==
  LET link == plan.links[CHOOSE k \in LinksAt(plan.links, n, i) : TRUE] IN
  [Plain("veth") EXCEPT
     !.mtu = link.mtu, !.qdisc = IF link.netem # None THEN link.netem ELSE link.qdisc]
ExpectedDevice(plan, n, d) ==
  LET dev == plan.nodes[n].devices[d] IN
  [Plain(dev.type) EXCEPT
     !.mtu  = DeviceMtu(plan, n, d),
     !.data = CASE dev.type = "bond" ->
                     [link |-> None, mode |-> dev.mode, miimon |-> dev.miimon,
                      lacp_rate |-> dev.lacp_rate, xmit_hash_policy |-> dev.xmit_hash_policy,
                      min_links |-> dev.min_links, primary |-> dev.primary]
                [] dev.type = "vrf"    -> [link |-> None, table |-> dev.table]
                [] dev.type = "geneve" -> [DataOf(dev) EXCEPT !.link = dev.link]
                [] OTHER -> DataOf(dev)]

Loopback == [Plain("loopback") EXCEPT !.addrs = EmptyNs.links["lo"].addrs]
Expected(plan, n, i) ==                             \* _expected_interfaces
  LET node == plan.nodes[n]
      shape == IF i = "lo" THEN Loopback
               ELSE IF i \in DOMAIN node.devices THEN ExpectedDevice(plan, n, i)
               ELSE IF i \in Linked(plan.links, n) THEN ExpectedEnd(plan, n, i)
               ELSE ExpectedBridge(node)
  IN  IF i = "lo" THEN shape
      ELSE [shape EXCEPT
              !.master = IF i \in OfType(node, "vrf") THEN None ELSE Master(node, i),
              !.addrs  = AddressesOf(node, i),
              !.mac    = IF i \in DOMAIN node.macs THEN node.macs[i] ELSE None,
              !.port   = ExpectedPort(node, i),
              !.vlans  = ExpectedVlans(node, i)]
ExpectedNames(plan, n) ==
  LET node == plan.nodes[n] IN
  {"lo"} \cup Linked(plan.links, n) \cup DOMAIN node.devices
    \cup (IF node.kind = "bridge" THEN {node.bridge.name} ELSE {})

ExpectedRoutes(node) ==                             \* expected_routes
  {RouteTo([v |-> 4, net |-> "loopback"], "lo", Main)}
    \cup (UNION {{RouteTo(Net(a), i, VrfTable(node, i)) : a \in AddressesOf(node, i)} :
                  i \in Interfaces(node)})
    \cup Range(node.routes)

-----------------------------------------------------------------------------
(* The verdict, part by part.                                               *)

Max2(a, b) == IF a > b THEN a ELSE b
Near(a, b, slack) == a - b \in -slack .. slack
QdiscMatches(desired, observed) ==
  IF desired = None \/ observed = None THEN desired = observed
  ELSE IF desired.kind # observed.kind THEN FALSE
  ELSE IF desired.kind = "tbf"
  THEN /\ desired.rate = observed.rate
       /\ Near(desired.burst, observed.burst, Max2(2, desired.burst \div 1000))
       /\ Near(desired.latency, observed.latency, 1)
  ELSE desired = observed

(* A Geneve that does not tell its underlay is taken at its word.           *)
DataMatches(desired, observed) ==
  observed.data = desired.data
  \/ /\ desired.kind = "geneve" /\ observed.data.link = None
     /\ observed.data = [desired.data EXCEPT !.link = None]

InterfaceMatches(desired, observed) ==
  /\ \A f \in {"kind", "master", "up", "addrs", "stp", "vlan_filtering", "vlans"} :
       observed[f] = desired[f]
  /\ \A f \in {"mtu", "mac", "priority"} : Allows(desired[f], observed[f])
  /\ \A s \in DOMAIN NoPort : Allows(desired.port[s], observed.port[s])
  /\ QdiscMatches(desired.qdisc, observed.qdisc)
  /\ DataMatches(desired, observed)

Ignored(node) ==                                    \* runtime_managed_interface_names
  IF node.routing # None /\ node.routing.pim # None THEN {"pimreg"} ELSE {}
InterfacesMatch(plan, n, interfaces) ==
  /\ DOMAIN interfaces \ Ignored(plan.nodes[n]) = ExpectedNames(plan, n)
  /\ \A i \in ExpectedNames(plan, n) : InterfaceMatches(Expected(plan, n, i), interfaces[i])

(* Mutant: what is there beyond the plan is never looked at.                *)
RoutesThere(node, routes) == ExpectedRoutes(node) \subseteq routes
RoutesMatch(node, routes) ==
  IF node.routing # None THEN ExpectedRoutes(node) \subseteq routes
  ELSE routes = ExpectedRoutes(node)

SysctlsMatch(node, sysctls) ==
  \A key \in DOMAIN node.sysctls : sysctls[key] = node.sysctls[key]

(* A neighbor that may be resolved anew may be in any state of that.        *)
Dynamic == {"reachable", "stale"}
Healthy == Dynamic \cup {"delay", "probe"}
NeighborsMatch(desired, observed) ==
  /\ Cardinality(desired) = Cardinality(observed)
  /\ \A b \in desired : \E c \in observed :
       /\ Identity(c) = Identity(b) /\ c.lladdr = b.lladdr
       /\ IF b.state \in Dynamic THEN c.state \in Healthy ELSE c.state = b.state

(* Both ends of each link have its identity, and nothing else has it.       *)
Veths(inv) ==
  UNION {{<<n, i>> : i \in {j \in DOMAIN inv.namespaces[n].interfaces :
                              inv.namespaces[n].interfaces[j].kind = "veth"}} :
         n \in DOMAIN inv.namespaces}
LinkId(inv, e) ==
  IF e[2] \in DOMAIN inv.namespaces[e[1]].interfaces
  THEN inv.namespaces[e[1]].interfaces[e[2]].link_id ELSE None
Group(inv, id) == {e \in Veths(inv) : LinkId(inv, e) = id}
LinksMatch(plan, inv) ==
  /\ \A e \in Veths(inv) : LinkId(inv, e) # None
  /\ \A k \in DOMAIN plan.links :
       LET left == LinkId(inv, plan.links[k].left) IN
       /\ left # None /\ LinkId(inv, plan.links[k].right) = left
       /\ Group(inv, left) = EndsOf(plan.links[k])

Matches(plan, inv) ==                               \* inventory_matches_plan
  /\ inv.root = {}
  /\ \A n \in DOMAIN plan.nodes :
       LET node == plan.nodes[n] seen == inv.namespaces[n] IN
       /\ seen.exists
       /\ InterfacesMatch(plan, n, seen.interfaces)
       /\ RoutesMatch(node, seen.routes)
       /\ seen.rules = node.rules
       /\ NeighborsMatch(node.neighbors, seen.neighbors)
       /\ SysctlsMatch(node, seen.sysctls)
  /\ LinksMatch(plan, inv)
=============================================================================
