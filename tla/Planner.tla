------------------------------- MODULE Planner ------------------------------
(***************************************************************************)
(* From a manifest to a plan: src/nslab/planner.py.  A planned node has    *)
(* the fields of a manifest's, with defaults filled in, its routes bound   *)
(* to tables, its proxy neighbours turned into sysctls, and one map of the *)
(* declared MAC addresses.                                                 *)
(***************************************************************************)
EXTENDS Manifest

AllOnes == -1       \* 2^32 - 1 in the 32 bits of a firewall mask

(* compile_plan asserts that the devices of a route infer one table, also   *)
(* where the manifest gives the route its table.                            *)
Infers(node, route) == Cardinality(VrfTables(node, route)) = 1
Compiles(m) ==
  \A n \in DOMAIN m.nodes : \A route \in Range(m.nodes[n].routes) : Infers(m.nodes[n], route)

Default(value, otherwise) == IF value = None THEN otherwise ELSE value

CompileDevice(d) ==
  IF d.type # "bond" \/ d.mode # "802.3ad" THEN d
  ELSE [d EXCEPT !.lacp_rate        = Default(@, "slow"),
                 !.xmit_hash_policy = Default(@, "layer2"),
                 !.min_links        = Default(@, 0)]

CompileRoute(node, route) == [route EXCEPT !.table = RouteTable(node, route)]

CompileNeighbor(b) ==
  [b EXCEPT !.state = IF b.proxy THEN None ELSE Default(@, "permanent")]

(* A selector that selects everything is the absence of the selector.       *)
Selects(prefix) == prefix # None /\ prefix.net # "everything"
CompileRule(r) ==
  [r EXCEPT !.family      = IpVersion(r),
            !.source      = IF Selects(@) THEN @ ELSE None,
            !.destination = IF Selects(@) THEN @ ELSE None,
            !.tos         = IF @ = 0 THEN None ELSE @,
            !.ip_protocol = IF @ = 0 THEN None ELSE @,
            !.fwmask      = IF r.fwmark = None THEN None ELSE Default(@, AllOnes)]

(* Proxy neighbours are answered for by the device they are declared on.    *)
ProxyKey(b) == <<IF b.dst.v = 4 THEN "proxy_arp" ELSE "proxy_ndp", b.dev>>
CompileSysctls(node) ==
  LET proxies == {ProxyKey(b) : b \in {c \in node.neighbors : c.proxy}} IN
  [k \in DOMAIN node.sysctls \cup proxies |->
     IF k \in proxies THEN 1 ELSE node.sysctls[k]]

CompileMacs(node) ==
  LET mac(i) == IF i \in DOMAIN node.interfaces THEN node.interfaces[i].mac
                ELSE node.devices[i].mac
      named == {i \in DOMAIN node.interfaces \cup Addressed(node) : mac(i) # None}
  IN  [i \in named |-> mac(i)]

CompileNode(node) ==
  [kind       |-> node.kind,
   interfaces |-> node.interfaces,
   devices    |-> [d \in DOMAIN node.devices |-> CompileDevice(node.devices[d])],
   macs       |-> CompileMacs(node),
   routes     |-> [k \in DOMAIN node.routes |-> CompileRoute(node, node.routes[k])],
   neighbors  |-> {CompileNeighbor(b) : b \in node.neighbors},
   rules      |-> {CompileRule(r) : r \in node.rules},
   sysctls    |-> CompileSysctls(node),
   routing    |-> node.routing,
   bridge     |-> node.bridge]

Plan(m) == [nodes |-> [n \in DOMAIN m.nodes |-> CompileNode(m.nodes[n])], links |-> m.links]

-----------------------------------------------------------------------------
(* What the backend and the comparisons derive from a plan.                 *)

(* None stands for an MTU the device takes from its parent or the kernel.   *)
DeviceMtu(plan, n, d) ==
  LET dev == plan.nodes[n].devices[d] IN
  CASE dev.type \in {"vlan", "vrf"} -> None
    [] dev.type = "bond"  -> MtuAt(plan.links, n, dev.interfaces[1])   \* bond_device_mtu
    [] dev.type = "dummy" -> Default(dev.mtu, 1500)
    [] OTHER -> Default(dev.mtu, MtuAt(plan.links, n, dev.link) - Overhead(dev))

IsUnderlay(node, i) ==
  \E d \in DOMAIN node.devices :
    node.devices[d].type \in {"vxlan", "geneve"} /\ node.devices[d].link = i

Master(node, i) ==                                  \* node_interface_master
  IF BondOf(node, i) # {} THEN CHOOSE b \in BondOf(node, i) : TRUE
  ELSE IF VrfOf(node, i) # {} THEN CHOOSE f \in VrfOf(node, i) : TRUE
  ELSE IF node.kind # "bridge" THEN None
  ELSE IF i = node.bridge.name \/ IsUnderlay(node, i) THEN None
  ELSE node.bridge.name

(* node_interface_addresses: everything that has addresses or none.         *)
Interfaces(node) == DOMAIN node.interfaces \cup Addressed(node)

ManagedTables(node) ==                              \* node_route_tables
  {Main} \cup {node.devices[f].table : f \in OfType(node, "vrf")}
    \cup {route.table : route \in Range(node.routes)}

(* The ports of a bridge: linked endpoints, then overlay devices.           *)
Ports(plan, n) ==                                   \* _node_link_interfaces
  LET node == plan.nodes[n] IN
  {i \in Linked(plan.links, n) : Master(node, i) = node.bridge.name} \cup DOMAIN node.devices
=============================================================================
