------------------------------ MODULE Manifest ------------------------------
(***************************************************************************)
(* What nslab.yaml may say: the validators of src/nslab/manifest.py as     *)
(* predicates on a manifest.                                               *)
(*                                                                         *)
(* A manifest is a record of nodes (a function on their names) and links   *)
(* (a sequence).  An IP address is a record of its version, its network    *)
(* and the host in it; an interface address is an address and its network. *)
(* Optional fields that are not given are None.  The order in which two    *)
(* validators refuse the same manifest is left out: they all end in        *)
(* MANIFEST_INVALID.                                                       *)
(***************************************************************************)
EXTENDS Integers, Sequences, FiniteSets, Functions, SequencesExt

CONSTANT None
ASSUME NoneAssumption == None \notin Int /\ None # "lo"

Main     == 254     \* MAIN_ROUTE_TABLE
MinMtu   == 576
MinMtuV6 == 1280    \* IPV6_MINIMUM_LINK_MTU

Net(ip) == [v |-> ip.v, net |-> ip.net]

(* The endpoints of a link, and the links seen from a node.                 *)
EndsOf(link) == {link.left, link.right}
LinksAt(links, n, i) == {k \in DOMAIN links : <<n, i>> \in EndsOf(links[k])}
Linked(links, n) ==
  {e[2] : e \in {f \in UNION {EndsOf(links[k]) : k \in DOMAIN links} : f[1] = n}}
MtuAt(links, n, i) == links[CHOOSE k \in LinksAt(links, n, i) : TRUE].mtu

(* Devices of a node by type; every device but a VRF has addresses.         *)
OfType(node, type) == {d \in DOMAIN node.devices : node.devices[d].type = type}
Addressed(node)    == DOMAIN node.devices \ OfType(node, "vrf")
ReservedNames      == {"gre0", "gretap0", "erspan0", "tunl0"}

AddressesOf(node, i) ==
  IF i \in DOMAIN node.interfaces THEN node.interfaces[i].addrs
  ELSE IF i \in Addressed(node) THEN node.devices[i].addrs ELSE {}

-----------------------------------------------------------------------------
(* One object at a time.                                                    *)

Unicast(ip) == ip.host > 0

ValidEndpoints(d) ==
  /\ Unicast(d.local) /\ Unicast(d.remote) /\ d.local # d.remote
  /\ d.local.v = d.remote.v

ValidBond(d) ==
  /\ Len(d.interfaces) >= 2 /\ IsInjective(d.interfaces)
  /\ d.primary # None => d.mode = "active-backup" /\ d.primary \in Range(d.interfaces)
  /\ d.mode # "802.3ad" =>
       \A f \in {"lacp_rate", "xmit_hash_policy", "min_links"} : d[f] = None
  /\ d.min_links # None => d.min_links <= Len(d.interfaces)

ValidVrf(d) ==
  /\ d.table > 0 /\ d.table \notin 253 .. 255
  /\ Len(d.interfaces) >= 1 /\ IsInjective(d.interfaces)

ValidDevice(d) ==
  /\ d.type = "bond" => ValidBond(d)
  /\ d.type = "vrf"  => ValidVrf(d)
  /\ d.type = "vlan" => d.id \in 1 .. 4094
  /\ d.type \in {"gre", "ipip", "vxlan"} => ValidEndpoints(d)
  /\ d.type \in {"gre", "ipip"} => d.local.v = 4
  /\ d.type = "ipip"   => \A a \in d.addrs : a.v = 4
  /\ d.type = "geneve" => Unicast(d.remote)
  /\ d.type \notin {"bond", "vrf", "vlan"} /\ d.mtu # None => d.mtu \in MinMtu .. 9216

Hops(route) == IF route.nexthops = <<>> THEN <<[via |-> route.via, dev |-> route.dev]>>
               ELSE route.nexthops
RouteDevices(route) == {h.dev : h \in Range(Hops(route))}    \* _route_devices

ValidRoute(r) ==
  /\ r.table # 255
  /\ \A h \in Range(Hops(r)) : h.via # None => h.via.v = r.dst.v
  /\ IF r.nexthops = <<>> THEN r.dev # None
     ELSE /\ r.via = None /\ r.dev = None /\ Len(r.nexthops) >= 2
          /\ \A i, j \in DOMAIN r.nexthops :
               <<r.nexthops[i].via, r.nexthops[i].dev>>
                 = <<r.nexthops[j].via, r.nexthops[j].dev>> => i = j

ValidNeighbor(b) ==
  /\ Unicast(b.dst)
  /\ IF b.proxy THEN b.lladdr = None /\ b.state = None ELSE b.lladdr # None

IpVersion(r) ==
  IF r.family # None THEN r.family
  ELSE IF r.source # None THEN r.source.v
  ELSE IF r.destination # None THEN r.destination.v ELSE 4

ValidRule(r) ==
  /\ r.priority >= 1
  /\ \A p \in {r.source, r.destination} \ {None} : p.v = IpVersion(r)
  /\ r.fwmask # None => r.fwmark # None
  /\ r.port # None => r.ip_protocol \notin {None, 0}
  /\ r.suppress # None => r.suppress <= (IF IpVersion(r) = 4 THEN 32 ELSE 128)
  /\ r.action = "lookup" => r.goto = None /\ (r.l3mdev <=> r.table = None)
  /\ r.action = "goto"   => r.goto # None /\ r.table = None /\ r.suppress = None
  /\ r.action \notin {"lookup", "goto"} =>
       r.table = None /\ r.goto = None /\ r.suppress = None

PortSettings == {"path_cost", "priority", "hairpin", "isolated", "learning", "flood",
                 "multicast_flood"}

ValidPort(p) ==
  /\ \A i, j \in DOMAIN p.vlans : p.vlans[i].vid = p.vlans[j].vid => i = j
  /\ Cardinality({i \in DOMAIN p.vlans : p.vlans[i].pvid}) <= 1
  /\ p.vlans # <<>> \/ \E s \in PortSettings : p[s] # None

ValidBridge(b) ==
  /\ b.name # "lo"
  /\ \A p \in Range(b.ports) :
       /\ ValidPort(p)
       /\ ~b.stp => p.path_cost = None /\ p.priority = None
       /\ ~b.vlan_filtering => p.vlans = <<>>

ValidPim(p) == p.interfaces # {} /\ p.igmp_interfaces \subseteq p.interfaces
ValidRouting(g) ==
  /\ \E protocol \in {"ospf", "bgp", "pim"} : g[protocol] # None
  /\ g.pim # None => ValidPim(g.pim)

ValidLink(k) ==
  /\ k.mtu \in MinMtu .. 9216
  /\ k.netem = None \/ k.qdisc = None
  /\ k.netem # None => /\ k.netem.jitter > 0 => k.netem.delay > 0
                       /\ k.netem.delay > 0 \/ k.netem.loss > 0 \/ k.netem.rate # None

-----------------------------------------------------------------------------
(* One node: LinuxNode and BridgeNode.                                      *)

VrfOf(node, i)   == {f \in OfType(node, "vrf")  : i \in Range(node.devices[f].interfaces)}
BondOf(node, i)  == {b \in OfType(node, "bond") : i \in Range(node.devices[b].interfaces)}
VrfTable(node, i) ==                                \* tables_by_interface.get
  IF VrfOf(node, i) = {} THEN Main
  ELSE node.devices[CHOOSE f \in VrfOf(node, i) : TRUE].table
VrfTables(node, route) == {VrfTable(node, i) : i \in RouteDevices(route)}

(* A multipath route may span tables only where its table is given.         *)
OneTable(node, route) == route.table # None \/ Cardinality(VrfTables(node, route)) = 1
RouteTable(node, route) ==
  IF route.table # None THEN route.table ELSE CHOOSE t \in VrfTables(node, route) : TRUE

(* Two tunnels of a type must not have the same VNI.                        *)
VnisApart(node) ==
  \A type \in {"vxlan", "geneve"} :
    IsInjective([d \in OfType(node, type) |-> node.devices[d].vni])

RoutesByTable(node) ==                              \* _validate_routes_by_table
  LET connected == UNION {{<<VrfTable(node, i), Net(a)>> : a \in AddressesOf(node, i)} :
                          i \in DOMAIN node.interfaces \cup Addressed(node)}
      identity(k) == <<RouteTable(node, node.routes[k]), node.routes[k].dst>>
  IN  \A k \in DOMAIN node.routes :
        /\ OneTable(node, node.routes[k])
        /\ identity(k) \notin connected
        /\ \A l \in DOMAIN node.routes : identity(l) = identity(k) => l = k

RulePriorities(rules) ==
  \A r \in rules :
    /\ \A s \in rules \ {r} : <<IpVersion(s), s.priority>> # <<IpVersion(r), r.priority>>
    /\ r.action = "goto" => r.goto > r.priority

BondMembers(node) ==
  \A b \in OfType(node, "bond") : \A i \in Range(node.devices[b].interfaces) :
    i \notin DOMAIN node.devices /\ AddressesOf(node, i) = {} /\ BondOf(node, i) = {b}

(* Everything that is stacked on another interface; its parent is an        *)
(* endpoint of a link, never another device.                                *)
Stacked == {"vlan", "vxlan", "geneve", "gre", "ipip", "macvlan", "ipvlan"}

Parents(node) ==
  \A d \in DOMAIN node.devices : node.devices[d].type \in Stacked =>
    node.devices[d].link \notin DOMAIN node.devices

VrfMembers(node) ==
  /\ IsInjective([f \in OfType(node, "vrf") |-> node.devices[f].table])
  /\ \A f \in OfType(node, "vrf") : \A i \in Range(node.devices[f].interfaces) :
       /\ i \notin OfType(node, "vrf") \cup OfType(node, "bond")
       /\ BondOf(node, i) = {} /\ VrfOf(node, i) = {f}

RouteTablesAgree(node) ==
  \A route \in Range(node.routes) : \A i \in RouteDevices(route) :
    VrfOf(node, i) # {} /\ route.table # None => route.table = VrfTable(node, i)

ValidLinux(node) ==
  /\ RulePriorities(node.rules)
  /\ \A d \in Addressed(node) :
       node.devices[d].type \in {"gre", "ipip", "ipvlan"} => node.devices[d].mac = None
  /\ BondMembers(node) /\ Parents(node)
  /\ IsInjective([d \in OfType(node, "vlan") |-> <<node.devices[d].link, node.devices[d].id>>])
  /\ VnisApart(node)
  /\ VrfMembers(node)
  /\ OfType(node, "vrf") # {} =>
       node.routing = None /\ \A r \in node.rules : r.priority # 1000
  /\ RouteTablesAgree(node)

ValidBridgeNode(node) ==
  /\ ValidBridge(node.bridge)
  /\ node.bridge.name \notin DOMAIN node.devices
  /\ \A d \in DOMAIN node.devices :
       node.devices[d].type \in {"vxlan", "geneve"} /\ node.devices[d].addrs = {}
  /\ VnisApart(node)
  /\ node.routing = None

ValidNode(node) ==
  /\ \A d \in DOMAIN node.devices : ValidDevice(node.devices[d])
  /\ (DOMAIN node.interfaces \cup DOMAIN node.devices) \cap ReservedNames = {}
  /\ "lo" \notin DOMAIN node.devices
  /\ DOMAIN node.interfaces \cap DOMAIN node.devices = {}
  /\ \A r \in Range(node.routes) : ValidRoute(r)
  /\ \A b \in node.neighbors :
       ValidNeighbor(b) /\ \A c \in node.neighbors \ {b} : <<c.dst, c.dev>> # <<b.dst, b.dev>>
  /\ \A r \in node.rules : ValidRule(r)
  /\ node.routing # None => ValidRouting(node.routing)
  /\ IF node.kind = "linux" THEN ValidLinux(node) ELSE ValidBridgeNode(node)
  /\ RoutesByTable(node)

-----------------------------------------------------------------------------
(* The whole topology: Topology.validate_references.                        *)

Overhead(d) ==
  CASE d.type \in {"vxlan", "geneve"} -> IF d.remote.v = 4 THEN 50 ELSE 70
    [] d.type = "gre"  -> IF d.key = None THEN 24 ELSE 28
    [] d.type = "ipip" -> 20
    [] OTHER -> 0

(* A stacked device's parent is linked, carries its local address, and is   *)
(* wide enough for it.                                                      *)
StackedFits(m, n, d) ==
  LET node == m.nodes[n] dev == node.devices[d] IN
  /\ dev.link \in Linked(m.links, n)
  /\ dev.type \in {"vxlan", "gre", "ipip"} =>
       dev.link \in DOMAIN node.interfaces /\ dev.local \in AddressesOf(node, dev.link)
  /\ LET room == MtuAt(m.links, n, dev.link) - Overhead(dev) IN
     /\ Overhead(dev) > 0 => room >= MinMtu
     /\ dev.type # "vlan" /\ dev.mtu # None => dev.mtu <= room

BondFits(m, n, d) ==
  LET members == Range(m.nodes[n].devices[d].interfaces) IN
  /\ members \subseteq Linked(m.links, n)
  /\ Cardinality({MtuAt(m.links, n, i) : i \in members}) = 1

Available(m, n) ==
  LET node == m.nodes[n] IN
  Linked(m.links, n) \cup Addressed(node)
    \cup (IF node.kind = "bridge" THEN {node.bridge.name} ELSE {})

ValidPorts(m, n) ==
  LET node == m.nodes[n] IN
  /\ node.bridge.name \notin Linked(m.links, n)
  /\ \A p \in DOMAIN node.bridge.ports :
       /\ \A d \in DOMAIN node.devices : node.devices[d].link # p
       /\ p \in Linked(m.links, n) \cup DOMAIN node.devices

ValidRouters(m, n) ==
  LET node == m.nodes[n]
      others(protocol) == {k \in DOMAIN m.nodes \ {n} :
        m.nodes[k].routing # None /\ m.nodes[k].routing[protocol] # None}
      interfaces == DOMAIN node.interfaces \cup Addressed(node)
      addresses == UNION {AddressesOf(node, i) : i \in interfaces}
      g == node.routing
  IN  g # None =>
       /\ <<"net.ipv4.ip_forward">> \in DOMAIN node.sysctls
       /\ node.sysctls[<<"net.ipv4.ip_forward">>] = 1
       /\ g.ospf # None =>
            /\ \A k \in others("ospf") : m.nodes[k].routing.ospf.router_id # g.ospf.router_id
            /\ g.ospf.passive_interfaces \subseteq Available(m, n)
       /\ g.bgp # None =>
            /\ \A k \in others("bgp") : m.nodes[k].routing.bgp.router_id # g.bgp.router_id
            /\ \A b \in g.bgp.neighbors : \E a \in addresses : a.v = 4 /\ Net(a) = Net(b)
       /\ g.pim # None =>
            /\ "pimreg" \notin Available(m, n)
            /\ \A k \in others("pim") : m.nodes[k].routing.pim.rp_address = g.pim.rp_address
            /\ g.pim.interfaces \subseteq Available(m, n)
            /\ \A i \in g.pim.interfaces : \E a \in AddressesOf(node, i) : a.v = 4

ValidReferences(m, n) ==
  LET node == m.nodes[n] IN
  /\ DOMAIN node.devices \cap Linked(m.links, n) = {}
  /\ \A d \in DOMAIN node.devices :
       /\ node.devices[d].type \in Stacked => StackedFits(m, n, d)
       /\ node.devices[d].type = "bond"    => BondFits(m, n, d)
       /\ node.devices[d].type = "vrf" =>
            Range(node.devices[d].interfaces) \subseteq Available(m, n)
  /\ \A r \in node.rules :
       {r.iif, r.oif} \ {None} \subseteq Available(m, n) \cup OfType(node, "vrf") \cup {"lo"}
  /\ node.kind = "bridge" => ValidPorts(m, n)
  /\ DOMAIN node.interfaces \subseteq Available(m, n)
  /\ \A route \in Range(node.routes) : RouteDevices(route) \subseteq Available(m, n)
  /\ \A b \in node.neighbors : b.dev \in Available(m, n)
  /\ ValidRouters(m, n)

(* Only the endpoint of a link itself must be wide enough for IPv6.         *)
ValidLinks(m) ==
  \A k \in DOMAIN m.links :
    /\ ValidLink(m.links[k])
    /\ m.links[k].left # m.links[k].right
    /\ \A e \in EndsOf(m.links[k]) :
         /\ e[1] \in DOMAIN m.nodes /\ LinksAt(m.links, e[1], e[2]) = {k}
         /\ e[2] \notin ReservedNames \cup {"lo"}
         /\ (/\ e[2] \in DOMAIN m.nodes[e[1]].interfaces
             /\ \E a \in m.nodes[e[1]].interfaces[e[2]].addrs : a.v = 6)
              => m.links[k].mtu >= MinMtuV6

Accepted(m) ==
  /\ \A n \in DOMAIN m.nodes : ValidNode(m.nodes[n])
  /\ ValidLinks(m)
  /\ \A n \in DOMAIN m.nodes : ValidReferences(m, n)
=============================================================================
