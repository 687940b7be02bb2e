----------------------------- MODULE Inspection -----------------------------
(***************************************************************************)
(* What inspect tells about a deployed topology: inspect_topology of       *)
(* src/nslab/inspector.py.  Its status comes from the verdicts of base.py; *)
(* its differences and the status of each node come from a comparison of   *)
(* its own, on the texts it prints.                                        *)
(***************************************************************************)
EXTENDS Snapshot

ASSUME TextsAssumption == None # [kind |-> "red"]

(* Texts: vlans are listed by number, simple qdiscs by their kind only.     *)
VlanText(vlans)  == Range(vlans)
QdiscText(qdisc) == IF qdisc = None THEN None
                    ELSE IF qdisc.kind = "red" THEN [kind |-> qdisc.kind] ELSE qdisc

(* The text of a field of an interface, and whether it is compared at all.  *)
Text(interface, f) == CASE f = "vlans" -> VlanText(interface.vlans)
                        [] f = "qdisc" -> QdiscText(interface.qdisc)
                        [] OTHER -> interface[f]
Compared(desired) ==
  {"kind", "master", "up", "addrs", "stp", "vlan_filtering", "vlans", "qdisc"}
    \cup {f \in {"mtu", "mac", "priority"} : desired[f] # None}

(* _compare_interface: the properties in which two interfaces differ.       *)
(* Mutant: the settings of bridge ports are not compared.                   *)
WithoutPorts(desired, observed) ==
  {f \in Compared(desired) : Text(desired, f) # Text(observed, f)}
    \cup (IF DataMatches(desired, observed) THEN {} ELSE {"data"})
CompareInterface(desired, observed) ==
  {f \in Compared(desired) : Text(desired, f) # Text(observed, f)}
    \cup {s \in DOMAIN NoPort : desired.port[s] \notin {None, observed.port[s]}}
    \cup (IF observed.data = desired.data THEN {}
          ELSE IF /\ observed.kind = "geneve" /\ desired.kind = "geneve"
                  /\ observed.data.link = None
          THEN {f \in (DOMAIN observed.data) \ {"link"} : observed.data[f] # desired.data[f]}
          ELSE {"data"})

(* _desired_interfaces draws up its own list of what a plan expects, kind   *)
(* by kind; it takes the same fields of the plan as _expected_interfaces.   *)
Desired(plan, n, i) == Expected(plan, n, i)

NodeDifference(n, property)         == [node |-> n, interface |-> None, property |-> property]
InterfaceDifference(n, i, property) == [node |-> n, interface |-> i, property |-> property]

InterfaceDifferences(plan, n, interfaces) ==
  LET desired == ExpectedNames(plan, n) IN
  {InterfaceDifference(n, i, "present") :
     i \in (desired \ DOMAIN interfaces)
           \cup (DOMAIN interfaces \ (desired \cup Ignored(plan.nodes[n])))}
  \cup UNION {{InterfaceDifference(n, i, f) :
                 f \in CompareInterface(Desired(plan, n, i), interfaces[i])} :
              i \in desired \cap DOMAIN interfaces}

NodeDifferences(plan, n, seen) ==
  LET node == plan.nodes[n] IN
  IF ~seen.exists THEN {NodeDifference(n, "exists")}
  ELSE InterfaceDifferences(plan, n, seen.interfaces)
       \cup {NodeDifference(n, p) : p \in
              (IF RoutesMatch(node, seen.routes) THEN {} ELSE {"routes"})
              \cup (IF seen.rules = node.rules THEN {} ELSE {"rules"})
              \cup (IF NeighborsMatch(node.neighbors, seen.neighbors) THEN {} ELSE {"neighbors"})
              \cup (IF SysctlsMatch(node, seen.sysctls) THEN {} ELSE {"sysctls"})}

(* _actual_link_view: both ends are veths and alone have the identity.      *)
LinkPresent(plan, inv, k) ==
  LET link == plan.links[k] id == LinkId(inv, link.left) IN
  /\ EndsOf(link) \subseteq Veths(inv)
  /\ id # None /\ LinkId(inv, link.right) = id /\ Group(inv, id) = EndsOf(link)

LiveDifferences(plan, inv) ==
  (UNION {NodeDifferences(plan, n, inv.namespaces[n]) : n \in DOMAIN plan.nodes})
  \cup {InterfaceDifference(e[1], e[2], "link") : e \in
         {plan.links[k].left : k \in {l \in DOMAIN plan.links : ~LinkPresent(plan, inv, l)}}}
  \cup {InterfaceDifference(e[1], e[2], "root_temporary.present") : e \in inv.root}

IsAbsent(inv) == inv.root = {} /\ \A n \in DOMAIN inv.namespaces : ~inv.namespaces[n].exists

StateDifferences(plan, inv, snapshot) ==
  IF snapshot.status = "missing" THEN
    IF IsAbsent(inv) THEN {} ELSE {NodeDifference(None, "snapshot.present")}
  ELSE IF snapshot.status # "deployed" THEN {NodeDifference(None, "snapshot.status")}
  ELSE {InterfaceDifference(plan.links[k].left[1], plan.links[k].left[2], "link_id") :
          k \in {l \in DOMAIN plan.links : \E e \in EndsOf(plan.links[l]) :
                   snapshot.owned[e].link_id # LinkId(inv, e)}}

(* The nodes a difference counts against: both of a link's.                 *)
Impacted(plan, differences) ==
  ({d.node : d \in differences} \ {None})
    \cup UNION {{e[1] : e \in EndsOf(plan.links[k])} : k \in
           {l \in DOMAIN plan.links : \E d \in differences :
              d.property \in {"link", "link_id"} /\ <<d.node, d.interface>> = plan.links[l].left}}

Status(plan, inv, snapshot) ==
  IF IsAbsent(inv) THEN IF snapshot.status = "missing" THEN "absent" ELSE "stale"
  ELSE IF /\ snapshot.status = "deployed"
          /\ Matches(plan, inv) /\ RecordedMatch(plan, inv, snapshot.owned)
  THEN "deployed" ELSE "degraded"

(* A verdict other than "deployed" is given with a reason.                  *)
Inspect(plan, inv, snapshot) ==                     \* inspect_topology
  LET status == Status(plan, inv, snapshot)
      found == LiveDifferences(plan, inv) \cup StateDifferences(plan, inv, snapshot) IN
  [status      |-> status,
   differences |-> IF status = "absent" THEN {}
                   ELSE IF status \in {"degraded", "stale"} /\ found = {}
                   THEN {NodeDifference(None, "inventory.match")} ELSE found,
   impacted    |-> Impacted(plan, found)]
=============================================================================
