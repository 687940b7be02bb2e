------------------------------ MODULE Inventory -----------------------------
(***************************************************************************)
(* What inventory() of src/nslab/backend/pyroute2.py reads back from a     *)
(* namespace: the kernel's answers decoded into the terms of a plan, with  *)
(* the parts no plan speaks of left out.  An answer it cannot put in those *)
(* terms makes the whole inventory unsupported.                            *)
(***************************************************************************)
EXTENDS ConfigureNode

(* Python's round(a / b), for fractions that are never halves.              *)
Round(a, b) == (2 * a + b) \div (2 * b)

(* IPv6 is read only where the plan has some.                               *)
Families(node) ==                                   \* _inventory_families
  LET six == (\E i \in Interfaces(node) : \E a \in AddressesOf(node, i) : a.v = 6)
             \/ (\E r \in Range(node.routes) : r.dst.v = 6)
             \/ (\E r \in node.rules : r.family = 6)
             \/ (\E b \in node.neighbors : b.dst.v = 6)
             \/ <<"net.ipv6.conf.all.forwarding">> \in DOMAIN node.sysctls
  IN  IF six THEN {4, 6} ELSE {4}

-----------------------------------------------------------------------------
(* Qdiscs.  Only the ends of links that declare one are looked at.          *)

Burst(raw)   == Round(raw.buffer * raw.rate, 125)               \* _decode_tbf_burst
Latency(raw) == Round(raw.limit - Burst(raw), 125 * raw.rate)   \* _decode_tbf_latency

Decoded(raw) ==
  [kind |-> "tbf", rate |-> raw.rate, burst |-> Burst(raw), latency |-> Latency(raw)]

ShapedEnds(plan, n) ==
  {i \in Linked(plan.links, n) : \E k \in LinksAt(plan.links, n, i) :
     plan.links[k].netem # None \/ plan.links[k].qdisc # None}
(* A netem is declared in whole milliseconds and percents of bounded size,  *)
(* which the kernel's ticks and fractions give back exactly; whatever they  *)
(* do not is not a netem nslab made.                                        *)
Qdisc(plan, n, i, raw) ==
  IF i \notin ShapedEnds(plan, n) \/ raw = None THEN None
  ELSE IF raw.kind = "tbf" THEN Decoded(raw) ELSE raw

-----------------------------------------------------------------------------
(* Interfaces.                                                              *)

(* A link's attributes, by its kind; the modes of a bond decide which of    *)
(* its settings mean anything, and Geneve never tells its underlay.         *)
Attributes(l) ==
  CASE l.kind = "bond" ->
         [l.data EXCEPT
            !.primary = IF l.data.mode = "active-backup" THEN @ ELSE None,
            !.lacp_rate        = IF l.data.mode = "802.3ad" THEN @ ELSE None,
            !.xmit_hash_policy = IF l.data.mode = "802.3ad" THEN @ ELSE None,
            !.min_links        = IF l.data.mode = "802.3ad" THEN @ ELSE None]
    [] l.kind = "bridge" -> NoData
    [] OTHER -> l.data

IsPort(ns, i) ==
  ns.links[i].master # None /\ ns.links[ns.links[i].master].kind = "bridge"

ReadAddresses(node, l) == {a \in l.addrs : a.v \in Families(node)}

BridgeSetting(l, field) == IF l.kind = "bridge" THEN l.data[field] ELSE None

ReadPort(ns, i) == IF IsPort(ns, i) THEN ns.links[i].port ELSE NoPort

(* Asked for only of bridges that filter, and put in order.                 *)
InOrder(vlans) ==
  CHOOSE s \in [1 .. Cardinality(vlans) -> vlans] :
    \A i, j \in DOMAIN s : i < j => s[i].vid < s[j].vid
ReadVlans(node, ns, i) ==
  IF IsPort(ns, i) /\ node.bridge # None /\ node.bridge.vlan_filtering
  THEN InOrder(ns.links[i].vlans) ELSE <<>>

Interface(plan, n, ns, i) ==                        \* _inventory_interfaces
  LET node == plan.nodes[n]
      l == ns.links[i] IN
  [kind |-> l.kind, master |-> l.master, mtu |-> l.mtu, up |-> l.up,
   addrs |-> ReadAddresses(node, l), mac |-> l.mac,
   stp |-> BridgeSetting(l, "stp"), vlan_filtering |-> BridgeSetting(l, "vlan_filtering"),
   priority |-> BridgeSetting(l, "priority"),
   port |-> ReadPort(ns, i), vlans |-> ReadVlans(node, ns, i),
   qdisc |-> Qdisc(plan, n, i, l.qdisc), data |-> Attributes(l), link_id |-> l.alias]

-----------------------------------------------------------------------------
(* Routes, rules, neighbors and sysctls.                                    *)

RouteTo(net, dev, table) ==
  [dst |-> net, via |-> None, dev |-> dev, nexthops |-> <<>>, table |-> table]

(* Connected routes come from the addresses, not from the kernel's tables.  *)
ConnectedRoutes(ns, interfaces) ==                  \* _inventory_connected_routes
  UNION {{RouteTo(Net(a), i, TableOf(ns, i)) : a \in interfaces[i].addrs} : i \in DOMAIN interfaces}

(* Mutant: only the main table is read.                                     *)
MainRoutes(node, ns) == {r \in ns.routes : r.dst.v \in Families(node) /\ r.table = Main}
KernelRoutes(node, ns) ==                           \* _inventory_routes
  {r \in ns.routes : r.dst.v \in Families(node) /\ r.table \in ManagedTables(node)}

(* A mask without its mark: the kernel does not report the mark zero.       *)
Undecodable(r) == r.fwmask # None /\ r.fwmark \in {None, 0}
ReadRules(node, ns) ==
  {r \in ns.rules : r.family \in {s.family : s \in node.rules}}

Identity(b) == <<b.dst, b.dev, b.proxy>>
ReadNeighbors(node, ns) ==                          \* _inventory_neighbors
  {b \in ns.neighbors : Identity(b) \in {Identity(c) : c \in node.neighbors}}

ReadSysctls(node, ns) ==
  [k \in DOMAIN node.sysctls |-> IF k \in DOMAIN ns.sysctls THEN ns.sysctls[k] ELSE 0]

-----------------------------------------------------------------------------
Absent == [exists |-> FALSE, interfaces |-> << >>, routes |-> {}, rules |-> {},
           neighbors |-> {}, sysctls |-> << >>]     \* _absent_namespace

Present(plan, n, ns) ==                             \* _inventory_namespace
  LET node == plan.nodes[n]
      interfaces == [i \in DOMAIN ns.links |-> Interface(plan, n, ns, i)] IN
  [exists |-> TRUE, interfaces |-> interfaces,
   routes |-> ConnectedRoutes(ns, interfaces) \cup KernelRoutes(node, ns),
   rules |-> ReadRules(node, ns), neighbors |-> ReadNeighbors(node, ns),
   sysctls |-> ReadSysctls(node, ns)]

Supported(plan, space) ==
  \A n \in DOMAIN space : \A r \in ReadRules(plan.nodes[n], space[n]) : ~Undecodable(r)

(* The namespaces of all nodes, and the temporary halves in the root one.   *)
Inventory(plan, space, root) ==
  [namespaces |-> [n \in DOMAIN plan.nodes |->
                     IF n \in DOMAIN space THEN Present(plan, n, space[n]) ELSE Absent],
   root |-> root]
=============================================================================
