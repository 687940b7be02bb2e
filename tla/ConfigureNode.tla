---------------------------- MODULE ConfigureNode ---------------------------
(***************************************************************************)
(* What the backend asks of a namespace to make it a planned node:         *)
(* create_namespace, create_bridge, the ends create_veth leaves and the    *)
(* blocks of configure_node in src/nslab/backend/pyroute2.py, each as an   *)
(* operator from the namespace it finds to the one it leaves.  The devices *)
(* of one type are made in the order of the manifest; here in any order,   *)
(* which makes no difference to what they become.                          *)
(***************************************************************************)
EXTENDS Netns

(* A lookup of an index by name: RESOURCE_MISSING ends configure_node.      *)
Require(ns, i) == Request(ns, IF Known(ns, i) THEN None ELSE "ENODEV", ns)

CreateNamespace == SetUp(EmptyNs, "lo")

CreateBridge(node, ns) ==
  IF node.kind # "bridge" THEN ns
  ELSE AddLink(ns, node.bridge.name, "bridge",
         [link |-> None, stp |-> node.bridge.stp, vlan_filtering |-> node.bridge.vlan_filtering,
          priority |-> Default(node.bridge.priority, 32768)])

(* The root qdisc of an end: a netem, or the link's qdisc as tc counts it.   *)
Shape(link) ==
  IF link.netem # None THEN link.netem
  ELSE IF link.qdisc # None /\ link.qdisc.kind = "tbf" THEN Ticks(link.qdisc) ELSE link.qdisc

(* The end of link k in its node: renamed, tagged, sized, up and shaped.    *)
VethEnd(links, k, i, ns) ==
  LET added == AddLink(Request(ns, IF TooLong(links[k].qdisc) THEN "EOVERFLOW" ELSE None, ns),
                       i, "veth", NoData) IN
  IF ~Ok(added) THEN added
  ELSE [added EXCEPT !.links[i] = [@ EXCEPT
          !.mtu = links[k].mtu, !.up = TRUE, !.alias = k, !.qdisc = Shape(links[k])]]
CreateVeths(plan, n, ns) ==
  FoldSet(LAMBDA k, s :
          FoldSet(LAMBDA e, t : VethEnd(plan.links, k, e[2], t), s,
                  {e \in EndsOf(plan.links[k]) : e[1] = n}),
          ns, DOMAIN plan.links)

-----------------------------------------------------------------------------
(* configure_node, block by block.                                          *)

SetMacs(node, names, ns) ==
  FoldSet(LAMBDA i, s : SetMac(Require(s, i), i, node.macs[i]), ns, names)
IndexInterfaces(node, ns) ==
  SetMacs(node, DOMAIN node.macs \ DOMAIN node.devices,
          FoldSet(LAMBDA i, s : Require(s, i), ns, DOMAIN node.interfaces))

Enslave(i, bond, ns) == SetUp(SetMaster(SetDown(Require(ns, i), i), i, bond), i)
AddBond(plan, n, b, ns) ==
  LET d == plan.nodes[n].devices[b]
      data == [link |-> None, mode |-> d.mode, miimon |-> d.miimon, lacp_rate |-> d.lacp_rate,
               xmit_hash_policy |-> d.xmit_hash_policy, min_links |-> d.min_links,
               primary |-> None]
      made == SetMtu(AddLink(ns, b, "bond", data), b, DeviceMtu(plan, n, b))
      full == FoldLeft(LAMBDA s, i : Enslave(i, b, s), made, d.interfaces)
  IN  IF d.primary = None THEN full ELSE SetData(full, b, "primary", d.primary)
AddBonds(plan, n, ns) ==
  FoldSet(LAMBDA b, s : AddBond(plan, n, b, s), ns, OfType(plan.nodes[n], "bond"))

AddVrfs(node, ns) ==
  FoldSet(LAMBDA f, s : AddLink(s, f, "vrf", [link |-> None, table |-> node.devices[f].table]),
          ns, OfType(node, "vrf"))

(* What a link of each type is made with.                                   *)
DataOf(d) ==
  CASE d.type = "vlan"   -> [link |-> d.link, id |-> d.id]
    [] d.type = "vxlan"  -> [link |-> d.link, vni |-> d.vni, local |-> d.local,
                             remote |-> d.remote, port |-> d.port, learning |-> d.learning]
    [] d.type = "geneve" -> [link |-> None, vni |-> d.vni, remote |-> d.remote, port |-> d.port]
    [] d.type = "gre"    -> [link |-> d.link, local |-> d.local, remote |-> d.remote,
                             key |-> d.key, ttl |-> d.ttl]
    [] d.type = "ipip"   -> [link |-> d.link, local |-> d.local, remote |-> d.remote,
                             ttl |-> d.ttl]
    [] d.type \in {"macvlan", "ipvlan"} -> [link |-> d.link, mode |-> d.mode]
    [] OTHER             -> NoData

(* VLANs stay down, and keep their parent's MTU.                            *)
AddDevice(plan, n, i, ns) ==
  LET d == plan.nodes[n].devices[i]
      found == IF d.type \in Stacked THEN Require(ns, d.link) ELSE ns
      made == AddLink(found, i, d.type, DataOf(d))
  IN  IF d.type = "vlan" THEN made ELSE SetUp(SetMtu(made, i, DeviceMtu(plan, n, i)), i)
AddDevices(plan, n, type, ns) ==
  FoldSet(LAMBDA i, s : AddDevice(plan, n, i, s), ns, OfType(plan.nodes[n], type))
DeviceOrder == <<"vlan", "vxlan", "dummy", "gre", "ipip", "geneve", "macvlan", "ipvlan">>

SetDeviceMacs(node, ns) == SetMacs(node, DOMAIN node.macs \cap DOMAIN node.devices, ns)

(* A member is left down here; the addresses bring it up again.             *)
JoinVrf(i, f, ns) == SetMaster(SetDown(Require(ns, i), i), i, f)
JoinVrfs(node, ns) ==
  FoldSet(LAMBDA f, s : FoldLeft(LAMBDA t, i : JoinVrf(i, f, t), SetUp(s, f),
                                 node.devices[f].interfaces),
          ns, OfType(node, "vrf"))

JoinVlans(port, i, ns) ==
  IF port.vlans = <<>> THEN ns
  ELSE FoldLeft(LAMBDA s, w : AddVlan(s, i, w), DeleteVlan(ns, i, 1), port.vlans)
JoinPort(node, i, ns) ==
  LET joined == SetMaster(Require(ns, i), i, node.bridge.name)
      set == IF i \notin DOMAIN node.bridge.ports THEN joined
             ELSE JoinVlans(node.bridge.ports[i], i, SetPort(joined, i, node.bridge.ports[i]))
  IN  IF i \in DOMAIN node.devices THEN SetUp(set, i) ELSE set
JoinBridge(plan, n, ns) ==
  LET node == plan.nodes[n] IN
  IF node.kind # "bridge" THEN ns
  ELSE LET joined == FoldSet(LAMBDA i, s : JoinPort(node, i, s), ns, Ports(plan, n)) IN
       IF node.bridge.name \in DOMAIN node.interfaces THEN joined
       ELSE SetUp(joined, node.bridge.name)

(* Interfaces first, devices after: a VLAN's parent is up before the VLAN.  *)
AddressUp(node, i, ns) ==
  SetUp(FoldSet(LAMBDA a, s : AddAddress(s, i, a), ns, AddressesOf(node, i)), i)
AddAddresses(node, ns) ==
  FoldSet(LAMBDA i, s : AddressUp(node, i, s),
          FoldSet(LAMBDA i, s : AddressUp(node, i, s), ns, DOMAIN node.interfaces),
          Addressed(node))

AddRoutes(node, ns)    == FoldLeft(LAMBDA s, r : AddRoute(s, r), ns, node.routes)
AddNeighbors(node, ns) == FoldSet(LAMBDA b, s : AddNeighbor(s, b), ns, node.neighbors)
AddRules(node, ns)     == FoldSet(LAMBDA r, s : AddRule(s, r), ns, node.rules)
WriteSysctls(node, ns) ==
  FoldSet(LAMBDA k, s : WriteSysctl(s, k, node.sysctls[k]), ns, DOMAIN node.sysctls)
=============================================================================
